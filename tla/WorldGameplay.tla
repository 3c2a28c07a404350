----------------------------- MODULE WorldGameplay -----------------------------
(* The rules of a round: what a tick computes from the players, the resources   *)
(* and the outcome of the physics step (WorldGameplayPhase::Compute), and how   *)
(* the result is committed (WorldGameplayCommitter).  Positions, areas and      *)
(* bodies are abstracted to the outcomes they decide: who collided or left the  *)
(* area, who touched which resource, which resources fell outside, how many     *)
(* drops found a place, which slots are refilled.  A tick's outcome is a record *)
(* o taken from Outcomes; every other operator is a function of it.             *)
(*                                                                              *)
(*   e     the entities (WorldEntityRegistry)                                   *)
(*   g     [round, phase, ends, scores, slots, res]: WorldGameplayState         *)
(*   drops the pending disconnect drop snapshots [player, key, growth]          *)
EXTENDS WorldEntityRegistry, FiniteSets, FiniteSetsExt, Functions

CONSTANTS AmbientSlots,        \* ids of the ambient resource slots
          MinimumPlayers,      \* minimumPlayersToStart
          RoundDuration,       \* roundDurationTicks
          MaxScore,            \* bound on a player's growth points
          MaxHappenings        \* bound on the deaths, boosts, pickups and removals of a tick

ASSUME GameplayAssumption ==
  /\ AmbientSlots \subseteq Nat \ {0} /\ IsFiniteSet(AmbientSlots)
  /\ MinimumPlayers \in Nat \ {0}
  /\ RoundDuration \in Nat \ {0}
  /\ {MaxScore, MaxHappenings} \subseteq Nat

InitialGameplay ==
  [round |-> 1, phase |-> "Waiting", ends |-> 0, scores |-> <<>>,
   slots |-> [i \in AmbientSlots |-> "Dormant"], res |-> <<>>]

Players(g) == DOMAIN g.scores

AlivePlayers(g) == {p \in Players(g) : g.scores[p].life = "Alive"}

PendingPlayers(g) == {p \in Players(g) : g.scores[p].life = "SpawnPending"}

PlayerEntity(p) == [kind |-> "Player", player |-> p, seq |-> 0]

ResourceEntity == [kind |-> "Resource", player |-> 0, seq |-> 0]

CanRegisterPlayer(g, p, key) ==
  p \notin Players(g) /\ \A q \in Players(g) : g.scores[q].key # key

TryRegisterPlayer(g, p, key) ==
  [g EXCEPT !.scores = [q \in Players(g) \cup {p} |->
                          IF q = p THEN [key |-> key, score |-> 0, life |-> "Alive"]
                          ELSE g.scores[q]]]

RemovePlayer(g, p) == [g EXCEPT !.scores = [q \in Players(g) \ {p} |-> g.scores[q]]]

-------------------------------------------------------------------------------
(* Compute *)

Quiet == [transition |-> "None", collided |-> {}, outside |-> {}, lost |-> 0, boosted |-> {},
          pickups |-> <<>>, removed |-> {}, refill |-> {}]

Dead(o) == o.collided \cup o.outside

\* Slots that a tick may fill: the ones waiting for a resource and the ones the
\* tick itself empties.
Vacated(g, picked, removed) ==
  {i \in AmbientSlots :
     \/ g.slots[i] = "Respawning"
     \/ \E k \in picked \cup removed : g.res[k].slot = i}

\* Pure collisions leave drops, deaths at the boundary do not; a player that
\* disconnected leaves drops for its growth points.  Every drop may fail to find
\* a place, so a tick makes any number of them up to the sum.
DropCounts(g, drops, collided) ==
  0 .. MapThenSumSet(LAMBDA p : g.scores[p].score, collided) + MapThenSumSet(LAMBDA d : d.growth, drops)

\* A resource goes to one player that is still alive after the tick's deaths.
PickupChoices(g, alive) ==
  UNION {{f \in [K -> alive] :
            \A p \in alive : g.scores[p].score + Cardinality({k \in K : f[k] = p}) <= MaxScore}
         : K \in SUBSET DOMAIN g.res}

\* The outcomes after deaths by a collision (c) or at the boundary (b) and the
\* pickups (f): the drops (n), boosts (w), resources outside the area (x[1]) and
\* refills (x[2]).
OutcomesAfter(t, g, drops, c, b, f) ==
  {[transition |-> IF t >= g.ends THEN "Ended" ELSE "None",
    collided |-> c, outside |-> b, lost |-> n, boosted |-> w, pickups |-> f,
    removed |-> x[1], refill |-> x[2]]
   : n \in DropCounts(g, drops, c),
     w \in SUBSET {p \in AlivePlayers(g) \ (c \cup b) : g.scores[p].score > 0},
     x \in UNION {{<<r, s>> : s \in IF t >= g.ends THEN {{}} ELSE SUBSET Vacated(g, DOMAIN f, r)}
                  : r \in SUBSET (DOMAIN g.res \ DOMAIN f)}}

\* A death of both causes leaves no drops and so counts as one at the boundary.
RunningOutcomes(t, g, drops) ==
  LET alive == AlivePlayers(g)
      deaths == {d \in (SUBSET alive) \X (SUBSET alive) : d[1] \cap d[2] = {}}
      all == UNION {UNION {OutcomesAfter(t, g, drops, d[1], d[2], f)
                           : f \in PickupChoices(g, alive \ (d[1] \cup d[2]))} : d \in deaths}
  IN  {o \in all : Cardinality(Dead(o)) + Cardinality(o.boosted) + Cardinality(DOMAIN o.pickups)
                     + Cardinality(o.removed) <= MaxHappenings}

\* WorldGameplayPhase::Compute: every outcome of tick t.
Outcomes(t, g, drops) ==
  CASE g.phase = "Waiting" /\ Cardinality(Players(g)) < MinimumPlayers -> {Quiet}
    [] g.phase = "Waiting" /\ Cardinality(Players(g)) >= MinimumPlayers ->
         {[Quiet EXCEPT !.transition = "Started", !.refill = AmbientSlots]}
    [] g.phase = "Running" -> RunningOutcomes(t, g, drops)
    [] g.phase = "Ended" -> {Quiet}

-------------------------------------------------------------------------------
(* Commit *)

\* The validations of Commit and CommitPickups, and those of Compute for the drop
\* snapshots: anything else is a violation of the state, which ends the World.
Committable(o, e, g, drops) ==
  /\ \A p \in Dead(o) \cup Range(o.pickups) :
       /\ g.scores[p].life = "Alive"
       /\ g.scores[p].key \in Live(e)
       /\ e.comps[g.scores[p].key].kind = "Player"
       /\ e.comps[g.scores[p].key].player = p
  /\ \A k \in DOMAIN o.pickups \cup o.removed :
       /\ k \in Live(e)
       /\ e.comps[k].kind = "Resource"
       /\ g.res[k].origin = "Ambient" => g.slots[g.res[k].slot] = "Active"
  /\ \A k1, k2 \in DOMAIN o.pickups : g.res[k1].slot = g.res[k2].slot /\ g.res[k1].slot # 0 => k1 = k2
  /\ o.transition # "Started" \/ \A i \in AmbientSlots : g.slots[i] = "Dormant"
  /\ drops # {} => g.phase = "Running"
  /\ \A d \in drops : /\ d.player \notin Players(g) /\ d.key \notin Live(e)
                      /\ \A p \in Players(g) : g.scores[p].key # d.key
  /\ \A d1, d2 \in drops : d1.key = d2.key => d1 = d2

\* Resources are created first, the drops and then one per refilled slot in the
\* order of the slots, and only then are the dead, the picked and the outside
\* entities removed: a freed slot is reused by a later tick at the earliest.
SpawnRequests(o) ==
  LET refills == InOrder(o.refill, NumberOrder(o.refill))
  IN  [j \in 1 .. o.lost |-> [origin |-> "DeathDrop", slot |-> 0]]
        \o [j \in 1 .. Len(refills) |-> [origin |-> "Ambient", slot |-> refills[j]]]

\* CommitPickups: deaths, pickups, boost costs and the scores they leave. The
\* configured cost of a boost is one point here.
CommittedScores(o, g) ==
  [p \in Players(g) |->
     IF o.transition = "Started" THEN [g.scores[p] EXCEPT !.score = 0]
     ELSE IF p \in Dead(o) THEN [key |-> g.scores[p].key, score |-> 0, life |-> "SpawnPending"]
     ELSE [g.scores[p] EXCEPT !.score =
             @ - (IF p \in o.boosted THEN 1 ELSE 0) + Cardinality({k \in DOMAIN o.pickups : o.pickups[k] = p})]]

\* Players whose score is published after the commit.
ScoreSnapshots(o, g) ==
  IF o.transition = "Started" THEN Players(g) ELSE Dead(o) \cup o.boosted \cup Range(o.pickups)

\* The entities the commit removes, with the reason the clients are told.
Removals(o, g) ==
  [k \in {g.scores[p].key : p \in Dead(o)} \cup o.removed \cup DOMAIN o.pickups |->
     IF k \in DOMAIN o.pickups THEN "Collected" ELSE "Destroyed"]

Commit(t, o, e, g) ==
  LET requests == SpawnRequests(o)
      made  == CreateEntities(e, [i \in 1 .. Len(requests) |-> ResourceEntity])
      new   == [k \in ToSet(made.keys) |-> requests[PlaceIn(made.keys, k)]]
      gone  == DOMAIN o.pickups \cup o.removed
      e1    == RemoveEntities(made.e, {g.scores[p].key : p \in Dead(o)})
      e2    == RemoveEntities(e1, DOMAIN o.pickups)
      slots == [i \in AmbientSlots |->
                  IF i \in o.refill THEN "Active"
                  ELSE IF \E k \in gone : g.res[k].slot = i THEN "Respawning"
                  ELSE g.slots[i]]
  IN  [e |-> RemoveEntities(e2, o.removed),
       g |-> [round  |-> g.round,
              phase  |-> CASE o.transition = "None" -> g.phase
                           [] o.transition = "Started" -> "Running"
                           [] o.transition = "Ended" -> "Ended",
              ends   |-> CASE o.transition = "None" -> g.ends
                           [] o.transition = "Started" -> t + RoundDuration
                           [] o.transition = "Ended" -> t,
              scores |-> CommittedScores(o, g),
              slots  |-> slots,
              res    |-> Over(new, [k \in DOMAIN g.res \ gone |-> g.res[k]])]]

\* Mutant: the reset does not wait for the last player to leave.
ResetAtOnce(g) == g.phase = "Ended"

\* Commit of ResetToWaiting, which ResetEndedRoundIfEmpty asks for when the last
\* player of an ended round is gone.
ResetNeeded(g) == g.phase = "Ended" /\ Players(g) = {}

CommitReset(e, g) ==
  [e |-> RemoveEntities(e, DOMAIN g.res),
   g |-> [round |-> g.round + 1, phase |-> "Waiting", ends |-> 0, scores |-> g.scores,
          slots |-> [i \in AmbientSlots |-> "Dormant"], res |-> <<>>]]

-------------------------------------------------------------------------------
(* CommitPlayerSpawns *)

\* Respawns ps, in the order of the player ids: [e, g, keys].
CommitPlayerSpawns(ps, e, g) ==
  LET order == InOrder(ps, NumberOrder(ps))
      made  == CreateEntities(e, [i \in 1 .. Len(order) |-> PlayerEntity(order[i])])
      keys  == [p \in ps |-> made.keys[PlaceIn(order, p)]]
  IN  [e    |-> made.e,
       keys |-> keys,
       g    |-> [g EXCEPT !.scores = [p \in Players(g) |->
                   IF p \in ps
                   THEN [key |-> keys[p], score |-> g.scores[p].score, life |-> "Alive"]
                   ELSE g.scores[p]]]]

================================================================================
