--------------------------- MODULE GameClientReplica ---------------------------
(* What the game client makes of the World's messages                           *)
(* (RemoteGameplaySession.ProcessPacket and the stores behind it): the staged   *)
(* baseline, the controlled entity, the remote replicas, the control sequence   *)
(* and the reasons to fault.  The operators are functions from a client and a   *)
(* message to the client after it.                                              *)
(*                                                                              *)
(* Tick stamps are kept only within a batch: between batches every stamp is in  *)
(* the past of every tick still to come, and Settled makes all of them 0.       *)
EXTENDS Naturals, Sequences, SequencesExt, TLC

\* RemoteGameplaySession, as ResetGenerationLocalState leaves it for a new
\* connection.  mode: "None" before the connection, "Closed" after it, "Wild" for
\* a peer that is not the game client and whose side is not modelled.
NewClient(mode) ==
  [mode     |-> mode,
   state    |-> IF mode \in {"Player", "Observer"} THEN "AwaitingBaseline" ELSE "None",
   staged   |-> <<>>,     \* baselineSpawns: key -> [kind, tick]
   player   |-> 0,        \* ReadyConfiguration
   key      |-> <<0, 0>>,
   pending  |-> FALSE,    \* IsControlledSpawnPending; prediction exists iff ready and not pending
   replicas |-> <<>>,     \* remoteReplicas: key -> [kind, tick]
   sent     |-> 0,        \* controlStateTracker
   acked    |-> 0,
   scores   |-> <<>>,     \* AuthoritativeGameplayState: player -> tick
   round    |-> [tick |-> 0, id |-> 0],
   fault    |-> "none"]

Fault(c, kind) == [c EXCEPT !.state = "Faulted", !.fault = kind]

Ready(c) == c.state \in {"AwaitingFirstTimeSync", "Active"}

Settled(c) ==
  LET old(f) == [k \in DOMAIN f |-> [f[k] EXCEPT !.tick = 0]]
  IN  [c EXCEPT !.staged = old(@), !.replicas = old(@),
                !.scores = [p \in DOMAIN @ |-> 0], !.round = [@ EXCEPT !.tick = 0]]

-------------------------------------------------------------------------------
(* The stores *)

\* RemoteReplicaStore.ApplySpawn: a spawn replaces every replica of its entity id.
ApplySpawn(replicas, m) ==
  [k \in {x \in DOMAIN replicas : x[1] # m.key[1]} |-> replicas[k]]
    @@ (m.key :> [kind |-> m.kind, tick |-> m.tick])

ApplyRemove(replicas, key) == [k \in DOMAIN replicas \ {key} |-> replicas[k]]

\* RemoteReplicaStore.ApplyStateGroup: every record needs a player replica that
\* is not newer than the group.
StateGroupFits(replicas, m) ==
  \A k \in m.keys :
    /\ k \in DOMAIN replicas
    /\ replicas[k].kind = "Player"
    /\ m.tick >= replicas[k].tick

ApplyGameplayScore(c, m) ==
  IF m.player \in DOMAIN c.scores /\ m.tick < c.scores[m.player]
  THEN Fault(c, "GameplayState")
  ELSE [c EXCEPT !.scores = (m.player :> m.tick) @@ @]

ApplyGameplayRound(c, m) ==
  IF m.tick < c.round.tick \/ m.round < c.round.id
  THEN Fault(c, "GameplayState")
  ELSE [c EXCEPT !.round = [tick |-> m.tick, id |-> m.round]]

-------------------------------------------------------------------------------
(* Baseline *)

ProcessWorldReady(c, m) ==
  IF m.key \notin DOMAIN c.staged \/ c.staged[m.key].kind # "Player"
  THEN Fault(c, "PacketOrdering")
  ELSE [c EXCEPT !.state = "AwaitingFirstTimeSync", !.player = m.player, !.key = m.key,
                 !.replicas = ApplyRemove(c.staged, m.key), !.staged = <<>>]

ProcessBaselinePacket(c, m) ==
  CASE c.mode = "Observer" /\ m.type = "Round"         -> ApplyGameplayRound(c, m)
    [] c.mode = "Observer" /\ m.type = "ObserverReady" -> [c EXCEPT !.state = "Active"]
    [] c.mode = "Player" /\ m.type = "Spawn" ->
         [c EXCEPT !.staged = (m.key :> [kind |-> m.kind, tick |-> m.tick]) @@ @]
    [] c.mode = "Player" /\ m.type = "Score" -> ApplyGameplayScore(c, m)
    [] c.mode = "Player" /\ m.type = "Round" -> ApplyGameplayRound(c, m)
    [] c.mode = "Player" /\ m.type = "Ready" -> ProcessWorldReady(c, m)
    [] OTHER -> Fault(c, "PacketOrdering")

-------------------------------------------------------------------------------
(* Active *)

\* A state of another generation or an old acknowledgement is ignored.
ProcessControlledState(c, m) ==
  CASE c.pending              -> Fault(c, "PacketOrdering")
    [] ~c.pending /\ m.gen # c.key[2] -> c
    [] ~c.pending /\ m.gen = c.key[2] /\ m.ack > c.sent -> Fault(c, "Acknowledgement")
    [] OTHER -> [c EXCEPT !.acked = IF m.ack < @ THEN @ ELSE m.ack]

ApplyControlledEntityRebind(c, m) ==
  IF \/ ~c.pending
     \/ m.player # c.player \/ m.prev # c.key
     \/ m.key \notin DOMAIN c.replicas
     \/ c.replicas[m.key].kind # "Player" \/ c.replicas[m.key].tick # m.tick
  THEN Fault(c, "PacketOrdering")
  ELSE [c EXCEPT !.replicas = ApplyRemove(@, m.key), !.key = m.key, !.pending = FALSE,
                 !.sent = 0, !.acked = 0]

ApplyActiveReplicaRemove(c, m) ==
  CASE m.key # c.key -> [c EXCEPT !.replicas = ApplyRemove(@, m.key)]
    [] m.key = c.key /\ m.reason # "Destroyed" -> Fault(c, "GameplayState")
    [] OTHER -> IF c.pending THEN c ELSE [c EXCEPT !.pending = TRUE, !.sent = 0, !.acked = 0]

\* A round result ends the client's session.
ProcessActivePacket(c, m) ==
  CASE m.type = "Sync"    -> [c EXCEPT !.state = "Active"]
    [] m.type = "Spawn"   -> IF m.key = c.key THEN Fault(c, "PacketOrdering")
                             ELSE [c EXCEPT !.replicas = ApplySpawn(@, m)]
    [] m.type = "Control" -> ProcessControlledState(c, m)
    [] m.type = "Rebind"  -> ApplyControlledEntityRebind(c, m)
    [] m.type = "State"   -> IF StateGroupFits(c.replicas, m) THEN c ELSE Fault(c, "Replication")
    [] m.type = "Remove"  -> ApplyActiveReplicaRemove(c, m)
    [] m.type = "Score"   -> ApplyGameplayScore(c, m)
    [] m.type = "Round"   -> ApplyGameplayRound(c, m)
    [] m.type = "Result"  -> [c EXCEPT !.state = "Disconnecting"]
    [] OTHER -> Fault(c, "PacketOrdering")

ProcessObserverActivePacket(c, m) ==
  CASE m.type = "Round"  -> ApplyGameplayRound(c, m)
    [] m.type = "Result" -> [c EXCEPT !.state = "Disconnecting"]
    [] OTHER -> Fault(c, "PacketOrdering")

ProcessPacket(c, m) ==
  CASE c.state = "AwaitingBaseline" -> ProcessBaselinePacket(c, m)
    [] Ready(c) /\ c.mode = "Player" -> ProcessActivePacket(c, m)
    [] Ready(c) /\ c.mode = "Observer" -> ProcessObserverActivePacket(c, m)
    [] OTHER -> c    \* faulted or leaving: the transport is being closed

Receive(c, messages) == Settled(FoldLeft(ProcessPacket, c, messages))

================================================================================
