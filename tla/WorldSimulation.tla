---------------------------- MODULE WorldSimulation ----------------------------
(* The World thread: a batch takes the collected session events                 *)
(* (WorldIngressEventConsumer), runs one or more fixed steps (the coordinator,  *)
(* the tick processor and the gameplay rules), records what every session has   *)
(* to hear (area of interest, gameplay and controlled state) and seals the      *)
(* batch.  Around it are the game clients, which apply the messages of a sealed *)
(* batch and send requests that the World meets in a later batch.               *)
(*                                                                              *)
(* Abstractions.  Physics and positions appear as the choices they decide.  A   *)
(* session is accepted once; a peer that connects again has a new key.  Requests*)
(* are delivered in order and may be lost only by the end of the session (the   *)
(* guarantee of the To-World handoff); a sealed batch reaches a client at once, *)
(* while requests may wait in `net` for any number of batches, so every overlap *)
(* of the two directions still occurs.                                          *)
EXTENDS WorldSessionRegistry, WorldGameplay, GameClientReplica

CONSTANTS Sessions,          \* session keys, in whatever order they connect
          Guests,            \* the ones that do not play: an observing client or any other program
          MaxPlayerId,       \* numeric_limits<uint32_t>::max() in the code
          MaxTick,           \* bound on the ticks of a run
          MaxWait,           \* bound on the ticks before the first round
          MaxSteps,          \* bound on the catch-up steps of a batch
          SnapshotInterval,  \* snapshotIntervalTicks
          JoinFaults,        \* stages of a join that may fail
          MaxHidden,         \* bound on the entities out of everyone's sight in a tick
          MaxFlight,         \* bound on the requests of a peer under way
          MaxSent            \* bound on the commands of a peer for one entity

ASSUME SimulationAssumption ==
  /\ Guests \subseteq Sessions
  /\ {MaxPlayerId, MaxTick, MaxWait, MaxSteps, SnapshotInterval} \subseteq Nat \ {0}
  /\ {MaxHidden, MaxFlight, MaxSent} \subseteq Nat

VARIABLES
  pc,        \* "Idle", "Drain", "Tick", "Record" or "Stopped"
  tick,      \* server tick of the next or current step
  first,     \* first tick of the batch
  reg, channels, aoi, initial,  \* session table, send channels, visible sets, initial recipients
  ent, game, drops,             \* entities, gameplay state, pending disconnect drops
  spawned,   \* pendingPlayerSpawns_: set of [session, player, prev, key]
  bcast,     \* pendingGameplayBroadcast_
  area,      \* hasLatestOverviewActiveArea_
  nextPlayer,
  out,       \* messages of the first, per session
  failed,    \* outboundBatchFailed_ with its cause, "no" otherwise
  stop,      \* why the World stopped itself, "no" while it runs
  net,       \* requests under way to the World, per session
  client

sessionVars == <<reg, channels, aoi, initial>>
worldVars == <<ent, game, drops>>
outVars == <<spawned, bcast, area, out, failed>>
vars == <<pc, tick, first, sessionVars, worldVars, outVars, nextPlayer, stop, net, client>>

NoBroadcast == [scores |-> {}, round |-> FALSE, result |-> FALSE, to |-> {}, tick |-> 0]

TypeOK ==
  /\ pc \in {"Idle", "Drain", "Tick", "Record", "Stopped"}
  /\ tick \in 1 .. MaxTick + 1
  /\ channels \subseteq Sessions /\ initial \subseteq Sessions
  /\ DOMAIN aoi \subseteq Sessions
  /\ nextPlayer \in 1 .. MaxPlayerId + 1
  /\ failed \in {"no", "capacity", "observer", "plan"}
  /\ stop \in {"no", "capacity", "observer", "plan", "tick"}
  /\ \A k \in Live(ent) : k[1] \in 1 .. Len(ent.slots) /\ k[2] \in 1 .. MaxGeneration

Init ==
  /\ pc = "Idle" /\ tick = 1 /\ first = 1
  /\ reg = EmptyRegistry /\ channels = {} /\ aoi = <<>> /\ initial = {}
  /\ ent = EmptyEntities /\ game = InitialGameplay /\ drops = {}
  /\ spawned = {} /\ bcast = NoBroadcast /\ area = FALSE
  /\ nextPlayer = 1
  /\ out = [s \in Sessions |-> <<>>] /\ failed = "no" /\ stop = "no"
  /\ net = [s \in Sessions |-> <<>>]
  /\ client = [s \in Sessions |-> NewClient("None")]

-------------------------------------------------------------------------------
(* The peers *)

\* A program that is not the game client and may send anything.
IsWild(s) == client[s].mode = "Wild"

\* A ready game client presses or releases a key (ControlStateTracker.TryCreateCommand).
ClientControl(s) ==
  /\ pc = "Idle"
  /\ client[s].mode = "Player" /\ client[s].state = "Active" /\ ~client[s].pending
  /\ Len(net[s]) < MaxFlight /\ client[s].sent < MaxSent
  /\ client' = [client EXCEPT ![s].sent = @ + 1]
  /\ net' = [net EXCEPT ![s] = Append(@, [type |-> "Control", gen |-> client[s].key[2],
                                          seq |-> client[s].sent + 1])]
  /\ UNCHANGED <<pc, tick, first, sessionVars, worldVars, outVars, nextPlayer, stop>>

-------------------------------------------------------------------------------
(* Batch *)

\* RunNext up to the drain: UpdateTickContext, BeginOutboundTick.  The schedule
\* has fixed the number of steps by now; nothing reads it before the last step,
\* so the model decides after each step whether the batch has another.
BeginBatch ==
  /\ pc = "Idle"
  /\ tick <= MaxTick
  /\ tick <= MaxWait \/ game.round > 1 \/ game.phase # "Waiting"
  /\ pc' = "Drain" /\ initial' = {}
  /\ UNCHANGED <<tick, first, reg, channels, aoi, worldVars, outVars, nextPlayer, stop, net, client>>

\* The client connects and sends its first request (ProcessTransportConnected).
HandleSessionAccepted(s) ==
  /\ pc = "Drain"
  /\ s \notin Registered(reg) /\ s \notin channels /\ client[s].mode = "None"
  /\ \E mode \in IF s \in Guests THEN {"Wild", "Observer"} ELSE {"Player"} :
       /\ client' = [client EXCEPT ![s] = NewClient(mode)]
       /\ net' = [net EXCEPT ![s] =
            CASE mode = "Wild" -> <<>>
              [] mode = "Player" -> <<[type |-> "Join", gen |-> 0, seq |-> 0]>>
              [] mode = "Observer" -> <<[type |-> "Observe", gen |-> 0, seq |-> 0]>>]
  /\ reg' = TryRegister(reg, s)
  /\ channels' = channels \cup {s}
  /\ UNCHANGED <<pc, tick, first, aoi, initial, worldVars, outVars, nextPlayer, stop>>

\* ResetEndedRoundIfEmpty over given entities and gameplay state.
ResetEndedRoundIfEmpty(e, g) == IF ResetNeeded(g) THEN CommitReset(e, g) ELSE [e |-> e, g |-> g]

\* The session's player leaves the world: its score when it has one that names
\* the session's entity, its entity unless the player waits for its respawn, and
\* a drop snapshot while the round runs.
LeaveWorld(entry) ==
  LET p     == entry.player
      alive == game.scores[p].life = "Alive"
  IN  [e     |-> IF alive THEN RemoveEntity(ent, entry.key) ELSE ent,
       g     |-> RemovePlayer(game, p),
       drops |-> IF alive /\ game.phase = "Running"
                 THEN drops \cup {[player |-> p, key |-> entry.key, growth |-> game.scores[p].score]}
                 ELSE drops]

HandleSessionClosed(s) ==
  LET entry == SessionOf(reg, s)
      left  == IF entry.role = "Player" THEN LeaveWorld(entry)
               ELSE [e |-> ent, g |-> game, drops |-> drops]
      after == ResetEndedRoundIfEmpty(left.e, left.g)
  IN  /\ pc = "Drain"
      /\ s \in Registered(reg) /\ s \in channels
      /\ ent' = after.e /\ game' = after.g /\ drops' = left.drops
      /\ area' = (area /\ ~ResetNeeded(left.g))
      /\ channels' = channels \ {s}
      /\ aoi' = Without(aoi, s)
      /\ initial' = initial \ {s}
      /\ reg' = RemoveSession(reg, s)
      /\ net' = [net EXCEPT ![s] = <<>>]
      /\ client' = [client EXCEPT ![s] = NewClient("Closed")]
      /\ out' = [out EXCEPT ![s] = <<>>]
      /\ UNCHANGED <<pc, tick, first, spawned, bcast, nextPlayer, failed, stop>>

-------------------------------------------------------------------------------
(* Messages *)

\* SubmitOutbound: the batch with more messages for one or for every session.
\* What other peers than game clients are told has no effect in the model.
AllTold(ms) == [s \in Sessions |-> IF IsWild(s) THEN <<>> ELSE out[s] \o ms[s]]
Told(s, ms) == AllTold([x \in Sessions |-> IF x = s THEN ms ELSE <<>>])

Spawn(key, e, t) == [type |-> "Spawn", key |-> key, kind |-> e.comps[key].kind, tick |-> t]
Spawns(keys, e, t) ==
  LET order == SetToSortSeq(keys, KeyLess) IN [i \in 1 .. Len(order) |-> Spawn(order[i], e, t)]
Removes(keys, reason) ==
  LET order == SetToSortSeq(keys, KeyLess)
  IN  [i \in 1 .. Len(order) |-> [type |-> "Remove", key |-> order[i], reason |-> reason[order[i]]]]
Scores(ps, t) ==
  LET order == SetToSortSeq(ps, <) IN [i \in 1 .. Len(order) |-> [type |-> "Score", player |-> order[i], tick |-> t]]
Round(g, t) == <<[type |-> "Round", round |-> g.round, tick |-> t]>>

\* BuildRemoteEntityStateChunks: the players among the visible entities, each of
\* which must be alive under the entity it is seen as.
StateBuildable(keys, e, g) ==
  \A k \in keys :
    /\ k \in Live(e)
    /\ e.comps[k].kind = "Player" =>
         LET p == e.comps[k].player IN p \in AlivePlayers(g) /\ g.scores[p].key = k

StateGroup(keys, e, t) ==
  <<[type |-> "State", tick |-> t, keys |-> {k \in keys : e.comps[k].kind = "Player"}]>>

\* BuildJoinBaseline demands a winner of an ended round, and no transition sets one.
BaselineBuildable(g) == g.phase # "Ended"

-------------------------------------------------------------------------------
(* Requests *)

\* The oldest request of a session that has a channel; another peer than the
\* game client may have sent any request at any time.  (As a first request a
\* join is left to the game clients.)
Head1(s, type) ==
  /\ pc = "Drain" /\ s \in channels
  /\ \/ IsWild(s) /\ (type = "Join" => SessionOf(reg, s).role # "Connected")
     \/ net[s] # <<>> /\ Head(net[s]).type = type

Consumed(s) == net' = [net EXCEPT ![s] = IF IsWild(s) THEN @ ELSE Tail(@)]

\* Mutant: the player registered by the join is forgotten by the rollback.
RollbackKeepsPlayer(s, e, g, p, key) ==
  /\ ent' = RemoveEntity(e, key)
  /\ game' = g
  /\ aoi' = Without(aoi, s)
  /\ UNCHANGED <<reg, initial, nextPlayer, out>>

\* RollbackPreparedJoin: the entity goes, the player if it was registered, and
\* the view; e and g are the world as the join has changed it so far.
RollbackPreparedJoin(s, e, g, p, key) ==
  /\ ent' = RemoveEntity(e, key)
  /\ game' = IF p \in Players(g) THEN RemovePlayer(g, p) ELSE g
  /\ aoi' = Without(aoi, s)
  /\ UNCHANGED <<reg, initial, nextPlayer, out>>

\* HandleJoin, with the stage at which it fails or "none".  An outbound slot that
\* is full fails the batch as well; what was recorded before stays in the slot.
HandleJoin(s) ==
  LET base     == ResetEndedRoundIfEmpty(ent, game)
      p        == nextPlayer
      key      == NextKey(base.e)
      e1       == TryCreate(base.e, PlayerEntity(p))
      g1       == TryRegisterPlayer(base.g, p, key)
      refused  == base.g.phase = "Ended" \/ nextPlayer > MaxPlayerId \/ SessionOf(reg, s).role # "Connected"
      Rollback(g) == RollbackPreparedJoin(s, e1, g, p, key)
  IN  /\ Head1(s, "Join")
      /\ Consumed(s)
      /\ area' = (area /\ ~ResetNeeded(game))
      /\ \/ /\ refused
            /\ ent' = base.e /\ game' = base.g
            /\ UNCHANGED <<reg, aoi, initial, out, failed, nextPlayer>>
         \/ /\ ~refused
            /\ "BaselineEncoding" \in JoinFaults
            /\ Rollback(base.g)
            /\ UNCHANGED failed
         \/ /\ ~refused
            /\ CanRegisterPlayer(base.g, p, key)
            /\ "OutboundFull" \in JoinFaults
            /\ Rollback(g1)
            /\ failed' = "capacity"
         \/ /\ ~refused
            /\ CanRegisterPlayer(base.g, p, key)
            /\ \E hidden \in {h \in SUBSET (Live(e1) \ {key}) : Cardinality(h) <= MaxHidden} :
                 LET seen == Live(e1) \ ({key} \cup hidden)
                     \* players in sight that no session owns cannot be announced
                     known == {key} \cup {x.key : x \in JoinedSessions(reg)}
                     fits  == /\ \A k \in seen : e1.comps[k].kind = "Player" => k \in known
                              /\ StateBuildable(seen, e1, g1) /\ BaselineBuildable(g1)
                              /\ CanBindPlayer(reg, s, key)
                 IN  IF fits
                     THEN /\ aoi' = With(aoi, s, seen)
                          /\ out' = Told(s, <<Spawn(key, e1, tick)>>
                                       \o Spawns(seen, e1, tick) \o Scores(Players(g1), tick) \o Round(g1, tick)
                                       \o <<[type |-> "Ready", player |-> p, key |-> key]>>
                                       \o StateGroup(seen, e1, tick))
                          /\ ent' = e1 /\ game' = g1
                          /\ reg' = TryBindPlayer(reg, s, p, key)
                          /\ nextPlayer' = nextPlayer + 1
                          /\ initial' = initial \cup {s}
                          /\ UNCHANGED failed
                     ELSE Rollback(g1) /\ failed' = "plan"
      /\ UNCHANGED <<pc, tick, first, channels, drops, spawned, bcast, stop, client>>

\* HandleObserve: a baseline that cannot be built fails the whole batch.
HandleObserve(s) ==
  LET base == ResetEndedRoundIfEmpty(ent, game)
  IN  /\ Head1(s, "Observe")
      /\ Consumed(s)
      /\ IF SessionOf(reg, s).role # "Connected"
         THEN UNCHANGED <<ent, game, area, reg, out, failed>>
         ELSE /\ ent' = base.e /\ game' = base.g
              /\ area' = (area /\ ~ResetNeeded(game))
              /\ IF BaselineBuildable(base.g)
                 THEN /\ out' = Told(s, Round(base.g, tick) \o <<[type |-> "ObserverReady"]>>)
                      /\ reg' = TryBindObserver(reg, s)
                      /\ UNCHANGED failed
                 ELSE failed' = "observer" /\ UNCHANGED <<out, reg>>
      /\ UNCHANGED <<pc, tick, first, channels, aoi, initial, drops, spawned, bcast, nextPlayer, stop, client>>

\* HandleTimeSync answers joined sessions only.
HandleTimeSync(s) ==
  /\ Head1(s, "Sync")
  /\ Consumed(s)
  /\ out' = IF SessionOf(reg, s).role = "Player" THEN Told(s, <<[type |-> "Sync"]>>) ELSE out
  /\ UNCHANGED <<pc, tick, first, sessionVars, worldVars, spawned, bcast, area, failed, nextPlayer, stop, client>>

\* WorldControlCommandAdmission::Admit compares the generation of the controlled
\* entity only.
Admitted(s, r) == SessionOf(reg, s).role = "Player" /\ r.gen = SessionOf(reg, s).key[2]

\* HandlePacket and ApplyControlCommand: no commands in an ended round; the
\* sequence has to grow, counted per entity.
HandleControl(s) ==
  LET r   == IF IsWild(s) THEN [type |-> "Control", gen |-> 1, seq |-> 1] ELSE Head(net[s])
      key == SessionOf(reg, s).key
  IN  /\ Head1(s, "Control")
      /\ Consumed(s)
      /\ ent' = IF /\ game.phase # "Ended" /\ Admitted(s, r)
                   /\ key \in Live(ent) /\ ent.comps[key].player = SessionOf(reg, s).player
                   /\ r.seq > ent.comps[key].seq
                THEN [ent EXCEPT !.comps[key].seq = r.seq]
                ELSE ent
      /\ UNCHANGED <<pc, tick, first, sessionVars, game, drops, outVars, nextPlayer, stop, client>>

\* A request that does not decode only asks for the session to be closed.
HandleMalformed(s) ==
  /\ Head1(s, "Malformed")
  /\ Consumed(s)
  /\ UNCHANGED <<pc, tick, first, sessionVars, worldVars, outVars, nextPlayer, stop, client>>

-------------------------------------------------------------------------------
(* One step *)

\* TryBuildSimulationSessions and ResolveActiveArea.
TickValid ==
  /\ \A x \in JoinedSessions(reg) : x.player \in Players(game) /\ game.scores[x.player].key = x.key
  /\ game.phase = "Running" => tick + RoundDuration >= game.ends /\ tick <= game.ends

\* The checks of CommitPlayerSpawns for the players to respawn.
Respawnable(ps, e, g) ==
  \A p \in ps :
    /\ g.scores[p].life = "SpawnPending" /\ g.scores[p].score = 0
    /\ g.scores[p].key \notin Live(e)
    /\ \E x \in JoinedSessions(reg) : x.player = p /\ x.key = g.scores[p].key

SessionOfPlayer(p) == (CHOOSE x \in JoinedSessions(reg) : x.player = p).session

\* FinalizePlayerBodies
BodiesFinalized(e, g) ==
  \A p \in AlivePlayers(g) : g.scores[p].key \in Live(e) /\ e.comps[g.scores[p].key].player = p

StopWorld(reason) ==
  /\ pc' = "Stopped" /\ stop' = reason
  /\ UNCHANGED <<tick, first, sessionVars, worldVars, outVars, nextPlayer, net, client>>

\* RecordGameplayEntityRemovals: everyone who saw a removed entity hears of it,
\* and so does the owner of a dead one.
RemovalsFor(s, o) ==
  LET gone == Removals(o, game)
      seen == IF s \in DOMAIN aoi THEN aoi[s] \cap DOMAIN gone ELSE {}
      own  == {x.key : x \in {y \in JoinedSessions(reg) : y.session = s /\ y.player \in Dead(o)}}
  IN  Removes(seen \cup own, gone)

\* Mutant: removed entities stay in the visible sets.
NotPruned(views, gone) == views

\* PruneVisibleEntities
Pruned(views, gone) == [s \in DOMAIN views |-> views[s] \ gone]

\* ProcessGameplayTick for outcome o, committed as done, with respawns ps.
GameplayTick(o, done, ps) ==
  LET joined == {x.session : x \in JoinedSessions(reg)}
  IN  \E respawn \in {CommitPlayerSpawns(ps, done.e, done.g)} :
        /\ ent' = respawn.e /\ game' = respawn.g /\ drops' = {}
        /\ reg' = RebindControlledEntities(reg, ps, respawn.keys)
        /\ spawned' = {[session |-> SessionOfPlayer(p), player |-> p,
                        prev |-> game.scores[p].key, key |-> respawn.keys[p]] : p \in ps}
        /\ aoi' = Pruned(aoi, DOMAIN Removals(o, game))
        /\ out' = AllTold([s \in Sessions |-> RemovalsFor(s, o)])
        /\ bcast' = [scores |-> ScoreSnapshots(o, game), round |-> o.transition = "Started",
                     result |-> o.transition = "Ended" /\ joined # {}, to |-> joined, tick |-> tick]
        /\ area' = TRUE
        /\ pc' = "Record"
        /\ UNCHANGED <<tick, first, channels, initial, failed, nextPlayer, stop, net, client>>

\* ShouldProcessSimulation: no step of an ended round has a simulation.
Tick ==
  /\ pc \in {"Drain", "Tick"} /\ game.phase # "Ended"
  /\ IF ~TickValid
     THEN StopWorld("tick")
     ELSE \E o \in Outcomes(tick, game, drops), ps \in SUBSET PendingPlayers(game) :
          \E done \in {Commit(tick, o, ent, game)} :
            IF /\ Committable(o, ent, game, drops)
               /\ Respawnable(ps, done.e, done.g)
               /\ BodiesFinalized(done.e, done.g)
            THEN GameplayTick(o, done, ps)
            ELSE StopWorld("tick")

\* Mutant: a player that waits for its respawn has an area of interest too.
AoiRecipientsWithDead == {x \in JoinedSessions(reg) : x.session \notin initial}

\* The sessions whose area of interest is computed: joined before this batch or
\* no longer initial, and alive.
AoiRecipients == {x \in JoinedSessions(reg) : x.session \notin initial /\ x.player \in AlivePlayers(game)}

\* RecordAoiReplication's demands: sessions agree with their scores, and every
\* player entity in sight belongs to a joined session.
AoiPlannable(view) ==
  /\ \A x \in JoinedSessions(reg) :
       x.session \notin initial => x.player \in Players(game) /\ game.scores[x.player].key = x.key
  /\ \A x \in AoiRecipients :
       /\ x.key \in Live(ent)
       /\ \A k \in view[x.session] :
            ent.comps[k].kind = "Player" => \E y \in JoinedSessions(reg) : y.player = ent.comps[k].player

\* Mutant: the observers are not told the result.
BroadcastToPlayers(s) ==
  LET observer == s \in Observers(reg)
  IN  (IF s \in bcast.to THEN Scores(bcast.scores, bcast.tick) ELSE <<>>)
        \o (IF bcast.round /\ (s \in bcast.to \/ observer) THEN Round(game, bcast.tick) ELSE <<>>)
        \o (IF bcast.result /\ s \in bcast.to THEN <<[type |-> "Result"]>> ELSE <<>>)

\* FlushGameplayBroadcast: scores, round and result to the players, round and
\* result to the observers.
BroadcastTo(s) ==
  LET observer == s \in Observers(reg)
  IN  (IF s \in bcast.to THEN Scores(bcast.scores, bcast.tick) ELSE <<>>)
        \o (IF bcast.round /\ (s \in bcast.to \/ observer) THEN Round(game, bcast.tick) ELSE <<>>)
        \o (IF bcast.result /\ (s \in bcast.to \/ observer) THEN <<[type |-> "Result"]>> ELSE <<>>)

RebindMessage(w) == [type |-> "Rebind", prev |-> w.prev, key |-> w.key, player |-> w.player, tick |-> tick]

\* Mutant: the rebind is recorded ahead of the spawn it refers to.
RebindBeforeSpawn(w) == <<RebindMessage(w), Spawn(w.key, ent, tick)>>

\* FlushPlayerSpawnPublications: the new entity of a respawned player, then the
\* rebind to it.
OwnSpawn(w) == <<Spawn(w.key, ent, tick), RebindMessage(w)>>

\* What the sessions with an area of interest see in a step.  In a round that has
\* ended nothing moves, so what was visible stays so.
Views ==
  LET viewers == {x.session : x \in AoiRecipients}
  IN  IF pc = "Record"
      THEN {[s \in viewers |-> Live(ent) \ ({SessionOf(reg, s).key} \cup hidden)]
            : hidden \in {h \in SUBSET Live(ent) : Cardinality(h) <= MaxHidden}}
      ELSE {[s \in viewers |-> aoi[s] \cap Live(ent)]}

-------------------------------------------------------------------------------
(* The end of a step and of the batch *)

SnapshotDue == \E t \in first .. tick : t % SnapshotInterval = 0

\* PublishControlledEntityStates: the own state of every player that is alive,
\* then the state group of every view.
StatesFor(s) ==
  LET x == SessionOf(reg, s)
  IN  IF s \in Registered(reg) /\ x \in JoinedSessions(reg) /\ x.player \in AlivePlayers(game)
      THEN <<[type |-> "Control", gen |-> x.key[2], ack |-> ent.comps[x.key].seq]>>
             \o (IF s \in initial THEN <<>> ELSE StateGroup(aoi'[s], ent, tick))
      ELSE <<>>

SnapshotBuildable == \A x \in AoiRecipients : StateBuildable(aoi'[x.session], ent, game)

\* The batch ends with this step, with the messages of its steps and the failure
\* it has met: publication, the overview (due with every batch here), which
\* needs the area of a processed tick even when nobody would receive it, and the
\* seal.  A failed batch ends the World and reaches nobody.
Publish(messages, failure) ==
  LET cause == IF failure # "no" THEN failure
               ELSE IF (SnapshotDue /\ ~SnapshotBuildable) \/ ~area THEN "plan" ELSE "no"
      heard(s) == messages[s] \o (IF SnapshotDue THEN StatesFor(s) ELSE <<>>)
      received(s) == IF client[s].mode \in {"Player", "Observer"} THEN Receive(client[s], heard(s)) ELSE client[s]
      \* a client that becomes ready asks for the time (BeginAndSendTimeSyncProbe)
      asks(s) == client[s].state = "AwaitingBaseline" /\ client'[s].state = "AwaitingFirstTimeSync"
  IN  /\ IF cause # "no"
         THEN pc' = "Stopped" /\ stop' = cause /\ UNCHANGED <<client, net>>
         ELSE /\ pc' = "Idle"
              /\ client' = [s \in Sessions |-> received(s)]
              /\ net' = [s \in Sessions |-> IF asks(s) THEN Append(net[s], [type |-> "Sync", gen |-> 0, seq |-> 0]) ELSE net[s]]
              /\ UNCHANGED stop
      /\ out' = [s \in Sessions |-> <<>>]
      /\ failed' = "no" /\ first' = tick'

\* The batch has another step.
NextStep(messages) ==
  /\ tick < MaxTick /\ tick - first + 1 < MaxSteps
  /\ pc' = "Tick" /\ out' = messages
  /\ UNCHANGED <<first, failed, stop, net, client>>

\* RecordDurableTickOutbound: what left and entered each view, then the own
\* entity of a respawned player and its rebind, then the broadcast.  Nobody
\* interferes with the World's thread before the batch is sealed.
Record ==
  /\ pc = "Record" \/ (pc \in {"Drain", "Tick"} /\ game.phase = "Ended")
  /\ \E view \in Views :
       LET old(s) == IF s \in DOMAIN aoi THEN aoi[s] ELSE {}
           own(s) == {w \in spawned : w.session = s}
           aoiPart(s) == IF s \in DOMAIN view
                         THEN Removes(old(s) \ view[s], [k \in old(s) |-> "LeftAoi"]) \o Spawns(view[s] \ old(s), ent, tick)
                         ELSE <<>>
           ownPart(s) == IF own(s) = {} THEN <<>> ELSE OwnSpawn(CHOOSE w \in own(s) : TRUE)
           messages == AllTold([s \in Sessions |-> aoiPart(s) \o ownPart(s) \o BroadcastTo(s)])
       IN  IF AoiPlannable(view) /\ {w.session : w \in spawned} \cup bcast.to \subseteq channels
           THEN /\ aoi' = Over(view, aoi)
                /\ spawned' = {} /\ bcast' = NoBroadcast
                /\ tick' = tick + 1
                /\ \E ms \in {messages} : NextStep(ms) \/ Publish(ms, failed)
           ELSE /\ UNCHANGED <<aoi, spawned, bcast, tick>>
                /\ Publish(out, IF failed = "no" THEN "plan" ELSE failed)
  /\ UNCHANGED <<reg, channels, initial, worldVars, area, nextPlayer>>

-------------------------------------------------------------------------------

Next ==
  \/ \E s \in Sessions :
       \/ ClientControl(s)
       \/ HandleSessionAccepted(s)
       \/ HandleSessionClosed(s)
       \/ HandleJoin(s)
       \/ HandleObserve(s)
       \/ HandleTimeSync(s)
       \/ HandleControl(s)
       \/ HandleMalformed(s)
  \/ BeginBatch
  \/ Tick
  \/ Record

Spec == Init /\ [][Next]_vars

-------------------------------------------------------------------------------
(* Properties *)

\* The session table is one table: the index finds every session at its place
\* and the joined prefix holds exactly the players, after any sequence of binds,
\* respawns and removals from the middle (WorldSessionRegistry::Remove swaps twice).
PlacesConsistent ==
  /\ reg.joined <= Len(reg.dense)
  /\ Registered(reg) = {d.session : d \in ToSet(reg.dense)}
  /\ \A i \in 1 .. Len(reg.dense) :
       /\ reg.index[reg.dense[i].session] = i
       /\ (i <= reg.joined) <=> (reg.dense[i].role = "Player")

\* The table, the send channels, the visible sets and the scores speak of the
\* same sessions: whatever a join that failed half way, a respawn, the end of a
\* round or the close of a session left behind would show here as a channel, a
\* view or a score without its session, or with another entity than its session's.
SessionsAreOneWorld ==
  /\ PlacesConsistent
  /\ channels = Registered(reg)
  /\ DOMAIN aoi = {x.session : x \in JoinedSessions(reg)}
  /\ Players(game) = {x.player : x \in JoinedSessions(reg)}
  /\ \A x \in JoinedSessions(reg) : game.scores[x.player].key = x.key

\* The owner map names exactly the entity of each joined session.
OwnersConsistent ==
  reg.owner = [k \in {x.key : x \in JoinedSessions(reg)} |->
                 (CHOOSE x \in JoinedSessions(reg) : x.key = k).session]

\* Scores, entities, their owners and resource slots describe one world: an
\* entity is a player that is alive or a resource, every slot that says so has its
\* resource, and a slot of the entity registry at its last generation is retired,
\* not reused (WorldEntityRegistry).
EntitiesAreOneWorld ==
  /\ TypeOK
  /\ OwnersConsistent
  /\ Live(ent) = {game.scores[p].key : p \in AlivePlayers(game)} \cup DOMAIN game.res
  /\ \A p \in AlivePlayers(game) : ent.comps[game.scores[p].key].player = p
  /\ \A k \in DOMAIN game.res : ent.comps[k].kind = "Resource"
  /\ \A i \in AmbientSlots :
       Cardinality({k \in DOMAIN game.res : game.res[k].slot = i}) = IF game.slots[i] = "Active" THEN 1 ELSE 0
  /\ game.phase = "Waiting" => game.res = <<>> /\ drops = {}

\* No sequence of joins, observations, deaths, respawns and closes brings the
\* World to a state that it refuses itself: the validations of the tick, of the
\* commit and of the replication plans never end it.
WorldNeverStopsItself == stop \notin {"plan", "tick"} /\ failed # "plan"

\* The messages of the batches, in the order in which they are recorded, never
\* break a rule of the game client: no state before its spawn, no rebind before
\* the removal, no score or round from the past, no packet in the wrong state.  Nor
\* does a client become ready twice: it asks for the time once.
ClientNeverFaults ==
  \A s \in Sessions :
    /\ client[s].fault \in {"none", "Acknowledgement"}
    /\ Len(net[s]) <= MaxFlight + 1

\* Between batches a client that is ready shows exactly what the World thinks it
\* shows: the entities of its visible set, its own entity, or the wait for the
\* respawn.
ClientSeesItsWorld ==
  pc = "Idle" =>
    \A s \in Sessions : client[s].mode = "Player" /\ Ready(client[s]) =>
      LET x == SessionOf(reg, s)
      IN  /\ client[s].player = x.player /\ client[s].key = x.key
          /\ DOMAIN client[s].replicas = aoi[s]
          /\ client[s].pending <=> game.scores[x.player].life = "SpawnPending"

\* As long as somebody who played is there, an ended round is an end for every
\* client: each has its result and leaves, and none stays active in it.
EveryoneHearsTheEnd ==
  pc = "Idle" /\ game.phase = "Ended" /\ Players(game) # {} => \A s \in Sessions : ~Ready(client[s])

\* A new round begins only in an empty world, and what was left of the old one
\* goes with it.
RoundsBeginEmpty ==
  [][game'.round # game.round =>
       /\ game'.round = game.round + 1 /\ game.phase = "Ended"
       /\ game'.res = <<>> /\ drops' = {}
       /\ \A x \in JoinedSessions(reg') : x \notin JoinedSessions(reg)]_vars

\* What the documents promise and the code does not keep.

\* gameplay-protocol-reference.md: the generation of the controlled entity keeps
\* out the input of an earlier life, so the World never acknowledges a command
\* that the client has not sent for its present entity.
AcknowledgesOnlySent == \A s \in Sessions : client[s].fault # "Acknowledgement"

\* end-to-end-game-cycle.md: an observer whose baseline cannot be made is refused
\* or closed; the World goes on.
ObserverFailureIsLocal == stop # "observer"

================================================================================
