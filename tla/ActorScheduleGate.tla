------------------------- MODULE ActorScheduleGate -------------------------
(***************************************************************************)
(* NrActorScheduleGate: the atomic word every session actor owns.  Its     *)
(* phase says whether the actor is idle, has a producer reserving its      *)
(* runnable permit, waits in a ready queue, or is being drained; its       *)
(* counter says how many producers are between TryBeginAdmission and       *)
(* CompleteAdmission.  Each operation of the class is one successful       *)
(* compare-and-swap, so it is one operator from the old word to the new    *)
(* word and the value returned; a failed compare-and-swap changes nothing. *)
(***************************************************************************)
EXTENDS Naturals

CONSTANT MaxProducerInFlight   \* the counter's largest value, 2^32 - 1 in the code

ASSUME MaxProducerInFlightAssumption == MaxProducerInFlight \in Nat \ {0}

Phases == {"Idle", "Admitting", "Scheduled", "Draining", "DrainCompleting"}

Tickets == {"Rejected", "RequiresNewPermit", "UsesExistingPermit"}

Resolutions == {"CapacityRejected", "MailboxRejected", "MailboxCommitted"}

Directives == {"NoAction", "FinalizationDeferred", "EnqueueReadyToken",
               "ReleasePermit"}

\* The packed word: phase, Pending bit, DrainNeedsReschedule bit, counter.
GateWord == [phase : Phases, pending : BOOLEAN, resched : BOOLEAN,
             inFlight : 0 .. MaxProducerInFlight]

InitialWord == [phase |-> "Idle", pending |-> FALSE, resched |-> FALSE,
                inFlight |-> 0]

ClearDrainFlags(g) == [g EXCEPT !.pending = FALSE, !.resched = FALSE]

-----------------------------------------------------------------------------
\* TryBeginAdmission returns Rejected, and leaves the word alone, unless:
CanBeginAdmission(g) ==
    /\ g.phase # "Admitting"
    /\ g.inFlight # MaxProducerInFlight

AdmissionDecision(g) ==
    IF g.phase = "Idle" THEN "RequiresNewPermit" ELSE "UsesExistingPermit"

TryBeginAdmission(g) ==
    IF g.phase = "Idle"
    THEN [ClearDrainFlags(g) EXCEPT !.phase = "Admitting", !.inFlight = 1]
    ELSE [g EXCEPT !.inFlight = @ + 1]

\* The state a finished drain settles in once no producer is in flight.
Settle(g) ==
    [ClearDrainFlags(g) EXCEPT
        !.phase = IF g.pending \/ g.resched THEN "Scheduled" ELSE "Idle"]

SettleDirective(g) ==
    IF g.pending \/ g.resched THEN "EnqueueReadyToken" ELSE "ReleasePermit"

-----------------------------------------------------------------------------
\* CompleteAdmission of the producer that took an idle actor.
CompleteNewPermit(g, resolution) ==
    IF g.phase # "Admitting" \/ g.inFlight # 1
    THEN [word |-> g, directive |-> "NoAction"]
    ELSE [word |-> [ClearDrainFlags(g) EXCEPT
                      !.inFlight = 0,
                      !.phase = IF resolution = "MailboxCommitted"
                                THEN "Scheduled" ELSE "Idle"],
          directive |-> CASE resolution = "CapacityRejected" -> "NoAction"
                          [] resolution = "MailboxRejected"  -> "ReleasePermit"
                          [] resolution = "MailboxCommitted" -> "EnqueueReadyToken"]

\* A commit that overlaps a drain leaves the Pending bit behind.
MarkPending(g, resolution) ==
    [g EXCEPT !.pending = @ \/ (/\ resolution = "MailboxCommitted"
                                /\ g.phase \in {"Draining", "DrainCompleting"})]

\* Mutant: the last producer settles the state without looking at the phase.
CompleteExistingPermit_AnyPhase(g, resolution) ==
    LET d == [MarkPending(g, resolution) EXCEPT !.inFlight = @ - 1]
    IN  IF g.inFlight = 1
        THEN [word |-> Settle(d), directive |-> SettleDirective(d)]
        ELSE [word |-> d, directive |-> "NoAction"]

\* CompleteAdmission of a producer that pinned an actor already runnable.  The
\* last one out of a drain the worker has left settles the actor's state.
CompleteExistingPermit(g, resolution) ==
    IF resolution = "CapacityRejected" \/ g.phase \in {"Idle", "Admitting"}
    THEN [word |-> g, directive |-> "NoAction"]
    ELSE LET d == [MarkPending(g, resolution) EXCEPT !.inFlight = @ - 1]
         IN  IF g.phase = "DrainCompleting" /\ g.inFlight = 1
             THEN [word |-> Settle(d), directive |-> SettleDirective(d)]
             ELSE [word |-> d, directive |-> "NoAction"]

CompleteAdmission(g, ticket, resolution) ==
    IF ticket = "Rejected" \/ g.inFlight = 0
    THEN [word |-> g, directive |-> "NoAction"]
    ELSE IF ticket = "RequiresNewPermit"
         THEN CompleteNewPermit(g, resolution)
         ELSE CompleteExistingPermit(g, resolution)

-----------------------------------------------------------------------------
CanBeginDrain(g) == g.phase = "Scheduled"

TryBeginDrain(g) == [ClearDrainFlags(g) EXCEPT !.phase = "Draining"]

\* CompleteDrain: the worker never waits for producers; with one in flight it
\* leaves the decision to the last of them.
CompleteDrain(g, shouldReschedule) ==
    LET d == [g EXCEPT !.resched = @ \/ shouldReschedule]
    IN  IF g.phase # "Draining"
        THEN [word |-> g, directive |-> "NoAction"]
        ELSE IF g.inFlight > 0
             THEN [word |-> [d EXCEPT !.phase = "DrainCompleting"],
                   directive |-> "FinalizationDeferred"]
             ELSE [word |-> Settle(d), directive |-> SettleDirective(d)]

=============================================================================
