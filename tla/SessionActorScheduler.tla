----------------------- MODULE SessionActorScheduler -----------------------
(***************************************************************************)
(* NrSessionActorScheduler, NrActorExecutor and the leases of              *)
(* NrSessionActorRegistry.  Producers (I/O completion threads and world    *)
(* threads) enqueue events for session actors; every worker owns a shard   *)
(* of the actors, with a ready queue of session keys and a counter of      *)
(* runnable permits, and drains the actors its queue names.                *)
(*                                                                         *)
(* A mailbox lane is an NrBoundedMpscQueue: a push first reserves a slot   *)
(* and later publishes it, and a consumer that meets a reserved slot       *)
(* reports the queue empty.  A slot is the producer that reserved it, or   *)
(* Mail once published.  What an event does to its actor (module           *)
(* SessionIoActor) is left open here: a drained event may fail the drain   *)
(* and a run may end with the session closed, with or without pending I/O. *)
(***************************************************************************)
EXTENDS ActorScheduleGate, FiniteSets, Sequences

CONSTANTS Actors,                     \* session keys
          Producers,                  \* threads that call Enqueue
          Workers,                    \* actor worker threads, one per shard
          Shard,                      \* ShardIndex: which worker owns a key
          MailboxCapacity,            \* slots of each mailbox lane
          MaxAdmittedRunnableActors,  \* permits and ready slots per worker
          DrainBudget,                \* events per drain
          Mail                        \* a published mailbox slot

ASSUME SchedulerAssumption ==
    /\ IsFiniteSet(Actors) /\ Actors # {}
    /\ IsFiniteSet(Producers)
    /\ Shard \in [Actors -> Workers]
    /\ MailboxCapacity \in Nat \ {0}
    /\ MaxAdmittedRunnableActors \in Nat \ {0}
    /\ DrainBudget \in Nat \ {0}
    /\ Mail \notin Producers

VARIABLES
    gate,         \* the schedule word of each actor
    mailbox,      \* mailbox lanes: acceptRecvMailbox_ and sendMailbox_
    permits,      \* NrRunnableActorPermitCounter of each worker
    ready,        \* ready queue of each worker
    lifecycle,    \* registry entry of each actor
    leases,       \* activeLeaseCount of each entry
    closedKeys,   \* closedActorKeys_
    stop,         \* stopRequested_
    toWake,       \* workers WakeAllWorkers still has to notify
    prod,         \* the Enqueue call each producer is in
    work,         \* the loop iteration each worker is in
    drainFailed   \* history: actors whose latest drain returned a failure

vars == <<gate, mailbox, permits, ready, lifecycle, leases, closedKeys, stop,
          toWake, prod, work, drainFailed>>

Lanes == {"AcceptRecv", "Send"}

Lifecycles == {"Active", "AwaitingDrain", "ReadyToDeregister", "Erased"}

ProducerSteps == {"Outside", "Admit", "Permit", "Reserve", "Publish",
                  "Complete", "Apply", "Wake", "Leave"}

WorkerSteps == {"Pop", "Wait", "Sleep", "Asleep", "Lease", "Begin",
                "DrainAcceptRecv", "DrainSend", "EndDrain", "Report", "Apply",
                "Release", "Cleanup", "Exited"}

ProducerState == [pc : ProducerSteps, key : Actors, lane : Lanes,
                  ticket : Tickets, resolution : Resolutions,
                  directive : Directives]

WorkerState == [pc : WorkerSteps, key : Actors, drained : 0 .. DrainBudget,
                recvDrained : BOOLEAN, reschedule : BOOLEAN, failed : BOOLEAN,
                directive : Directives, track : BOOLEAN, deregister : BOOLEAN,
                ran : BOOLEAN]

\* Outside a call, and between two runs, the locals hold nothing of interest.
AnyKey == CHOOSE a \in Actors : TRUE

IdleProducer == [pc |-> "Outside", key |-> AnyKey, lane |-> "Send",
                 ticket |-> "Rejected", resolution |-> "MailboxRejected",
                 directive |-> "NoAction"]

IdleWorker == [pc |-> "Pop", key |-> AnyKey, drained |-> 0,
               recvDrained |-> FALSE, reschedule |-> FALSE, failed |-> FALSE,
               directive |-> "NoAction", track |-> FALSE, deregister |-> FALSE,
               ran |-> FALSE]

TypeOK ==
    /\ gate \in [Actors -> GateWord]
    /\ mailbox \in [Actors -> [Lanes -> Seq(Producers \cup {Mail})]]
    /\ permits \in [Workers -> Nat]
    /\ ready \in [Workers -> Seq(Actors)]
    /\ lifecycle \in [Actors -> Lifecycles]
    /\ leases \in [Actors -> Nat]
    /\ closedKeys \subseteq Actors
    /\ stop \in BOOLEAN
    /\ toWake \subseteq Workers
    /\ prod \in [Producers -> ProducerState]
    /\ work \in [Workers -> WorkerState]
    /\ drainFailed \subseteq Actors

\* Start has run: the workers enter WorkerLoop, nothing is enqueued yet.
Init ==
    /\ gate = [a \in Actors |-> InitialWord]
    /\ mailbox = [a \in Actors |-> [l \in Lanes |-> <<>>]]
    /\ permits = [w \in Workers |-> 0]
    /\ ready = [w \in Workers |-> <<>>]
    /\ lifecycle = [a \in Actors |-> "Active"]
    /\ leases = [a \in Actors |-> 0]
    /\ closedKeys = {}
    /\ stop = FALSE
    /\ toWake = {}
    /\ prod = [p \in Producers |-> IdleProducer]
    /\ work = [w \in Workers |-> IdleWorker]
    /\ drainFailed = {}

-----------------------------------------------------------------------------
registryVars == <<lifecycle, leases, closedKeys>>
stopVars     == <<stop, toWake>>

Registered(a) == lifecycle[a] # "Erased"

AcquireLease(a) == leases' = [leases EXCEPT ![a] = @ + 1]
ReleaseLease(a) == leases' = [leases EXCEPT ![a] = IF @ = 0 THEN 0 ELSE @ - 1]

\* NrRunnableActorPermitCounter::Release does not go below zero.
ReleaseRunnablePermit(w) ==
    permits' = [permits EXCEPT ![w] = IF @ = 0 THEN 0 ELSE @ - 1]

\* TryPushReadyQueue: a full queue is an anomaly, and the token is lost.
ReadyQueueFull(w) == Len(ready[w]) >= MaxAdmittedRunnableActors

PushReadyToken(a) ==
    ready' = [ready EXCEPT ![Shard[a]] =
                IF ReadyQueueFull(Shard[a]) THEN @ ELSE Append(@, a)]

\* ApplyScheduleDirective pushed the key, and goes on to WakeWorker.
PushesToken(a, directive) ==
    directive = "EnqueueReadyToken" /\ ~ReadyQueueFull(Shard[a])

SetWorker(w, locals) == work' = [work EXCEPT ![w] = locals]

Goto(w, step) == SetWorker(w, [work[w] EXCEPT !.pc = step])

\* Mutant: the notification skips the waitLock handshake.
WakeWorker_NoHandshake(w) ==
    Goto(w, IF work[w].pc = "Asleep" THEN "Wait" ELSE work[w].pc)

\* WakeWorker takes the worker's waitLock before it notifies, so it cannot run
\* while the worker is between its false predicate and its wait.
WakeWorker(w) ==
    /\ work[w].pc # "Sleep"
    /\ Goto(w, IF work[w].pc = "Asleep" THEN "Wait" ELSE work[w].pc)

ApplyScheduleDirective(a, directive) ==
    CASE directive = "EnqueueReadyToken" ->
            PushReadyToken(a) /\ UNCHANGED permits
      [] directive = "ReleasePermit" ->
            ReleaseRunnablePermit(Shard[a]) /\ UNCHANGED ready
      [] OTHER -> UNCHANGED <<ready, permits>>

-----------------------------------------------------------------------------
(***************************************************************************)
(* NrSessionActorScheduler::Enqueue, one step per atomic operation.        *)
(***************************************************************************)
ProducerAt(p, step) == prod[p].pc = step

SetProducer(p, locals) == prod' = [prod EXCEPT ![p] = locals]

\* The started/stopRequested check and TryAcquireLease.
Enqueue(p, a, l) ==
    /\ ProducerAt(p, "Outside")
    /\ ~stop
    /\ Registered(a)
    /\ AcquireLease(a)
    /\ SetProducer(p, [IdleProducer EXCEPT !.pc = "Admit", !.key = a,
                                           !.lane = l])
    /\ UNCHANGED <<gate, mailbox, permits, ready, lifecycle, closedKeys,
                   stopVars, work, drainFailed>>

\* BeginAdmission yields while the gate rejects it, until a stop is requested.
BeginAdmission(p) ==
    LET a == prod[p].key IN
    /\ ProducerAt(p, "Admit")
    /\ \/ /\ stop
          /\ SetProducer(p, [prod[p] EXCEPT !.pc = "Leave"])
          /\ UNCHANGED gate
       \/ /\ ~stop
          /\ CanBeginAdmission(gate[a])
          /\ gate' = [gate EXCEPT ![a] = TryBeginAdmission(@)]
          /\ SetProducer(p, [prod[p] EXCEPT
                               !.ticket = AdmissionDecision(gate[a]),
                               !.pc = IF gate[a].phase = "Idle" THEN "Permit"
                                                                ELSE "Reserve"])
    /\ UNCHANGED <<mailbox, permits, ready, registryVars, stopVars, work,
                   drainFailed>>

TryAcquireRunnablePermit(p) ==
    LET w == Shard[prod[p].key] IN
    /\ ProducerAt(p, "Permit")
    /\ IF permits[w] < MaxAdmittedRunnableActors
       THEN /\ permits' = [permits EXCEPT ![w] = @ + 1]
            /\ SetProducer(p, [prod[p] EXCEPT !.pc = "Reserve"])
       ELSE /\ SetProducer(p, [prod[p] EXCEPT !.resolution = "CapacityRejected",
                                              !.pc = "Complete"])
            /\ UNCHANGED permits
    /\ UNCHANGED <<gate, mailbox, ready, registryVars, stopVars, work,
                   drainFailed>>

\* lease.TryEnqueue: the push reserves a slot of the lane or finds it full ...
ReserveMailboxSlot(p) ==
    LET a == prod[p].key
        l == prod[p].lane IN
    /\ ProducerAt(p, "Reserve")
    /\ IF Len(mailbox[a][l]) < MailboxCapacity
       THEN /\ mailbox' = [mailbox EXCEPT ![a][l] = Append(@, p)]
            /\ SetProducer(p, [prod[p] EXCEPT !.pc = "Publish"])
       ELSE /\ SetProducer(p, [prod[p] EXCEPT !.resolution = "MailboxRejected",
                                              !.pc = "Complete"])
            /\ UNCHANGED mailbox
    /\ UNCHANGED <<gate, permits, ready, registryVars, stopVars, work,
                   drainFailed>>

\* ... and publishes it.
PublishMailboxSlot(p) ==
    LET a == prod[p].key
        l == prod[p].lane IN
    /\ ProducerAt(p, "Publish")
    /\ mailbox' = [mailbox EXCEPT ![a][l] =
                     [i \in 1 .. Len(@) |-> IF @[i] = p THEN Mail ELSE @[i]]]
    /\ SetProducer(p, [prod[p] EXCEPT !.resolution = "MailboxCommitted",
                                      !.pc = "Complete"])
    /\ UNCHANGED <<gate, permits, ready, registryVars, stopVars, work,
                   drainFailed>>

FinishAdmission(p) ==
    LET a == prod[p].key
        r == CompleteAdmission(gate[a], prod[p].ticket, prod[p].resolution) IN
    /\ ProducerAt(p, "Complete")
    /\ gate' = [gate EXCEPT ![a] = r.word]
    /\ SetProducer(p, [IdleProducer EXCEPT !.pc = "Apply", !.key = a,
                                           !.directive = r.directive])
    /\ UNCHANGED <<mailbox, permits, ready, registryVars, stopVars, work,
                   drainFailed>>

ProducerAppliesDirective(p) ==
    /\ ProducerAt(p, "Apply")
    /\ ApplyScheduleDirective(prod[p].key, prod[p].directive)
    /\ SetProducer(p, [prod[p] EXCEPT
                         !.directive = "NoAction",
                         !.pc = IF PushesToken(prod[p].key, prod[p].directive)
                                THEN "Wake" ELSE "Leave"])
    /\ UNCHANGED <<gate, mailbox, registryVars, stopVars, work, drainFailed>>

ProducerWakesWorker(p) ==
    /\ ProducerAt(p, "Wake")
    /\ WakeWorker(Shard[prod[p].key])
    /\ SetProducer(p, [prod[p] EXCEPT !.pc = "Leave"])
    /\ UNCHANGED <<gate, mailbox, permits, ready, registryVars, stopVars,
                   drainFailed>>

\* Enqueue returns; the lease's destructor gives it back.
ProducerReleasesLease(p) ==
    /\ ProducerAt(p, "Leave")
    /\ ReleaseLease(prod[p].key)
    /\ SetProducer(p, IdleProducer)
    /\ UNCHANGED <<gate, mailbox, permits, ready, lifecycle, closedKeys,
                   stopVars, work, drainFailed>>

-----------------------------------------------------------------------------
(***************************************************************************)
(* NrSessionActorScheduler::WorkerLoop and RunReadyActor.                  *)
(***************************************************************************)
WorkerAt(w, step) == work[w].pc = step


TryPopReadyQueue(w) ==
    /\ WorkerAt(w, "Pop")
    /\ IF ready[w] # <<>>
       THEN /\ SetWorker(w, [work[w] EXCEPT !.pc = "Lease",
                                            !.key = Head(ready[w])])
            /\ ready' = [ready EXCEPT ![w] = Tail(@)]
       ELSE Goto(w, "Wait") /\ UNCHANGED ready
    /\ UNCHANGED <<gate, mailbox, permits, registryVars, stopVars, prod,
                   drainFailed>>

\* Mutant: the predicate looks at the queue only, not at stopRequested_.
EvaluateWaitPredicate_IgnoresStop(w) ==
    /\ WorkerAt(w, "Wait")
    /\ Goto(w, IF ready[w] # <<>> THEN "Pop" ELSE "Sleep")
    /\ UNCHANGED <<gate, mailbox, permits, ready, registryVars, stopVars, prod,
                   drainFailed>>

\* The wait's predicate, evaluated under waitLock, and the exit test after it.
EvaluateWaitPredicate(w) ==
    /\ WorkerAt(w, "Wait")
    /\ Goto(w, IF ready[w] # <<>> THEN "Pop"
               ELSE IF stop THEN "Exited" ELSE "Sleep")
    /\ UNCHANGED <<gate, mailbox, permits, ready, registryVars, stopVars, prod,
                   drainFailed>>

\* The wait proper: releases waitLock and blocks.
BlockOnWakeup(w) ==
    /\ WorkerAt(w, "Sleep")
    /\ Goto(w, "Asleep")
    /\ UNCHANGED <<gate, mailbox, permits, ready, registryVars, stopVars, prod,
                   drainFailed>>

\* Mutant: a key whose actor is gone is skipped, its permit forgotten.
LeaseReadyActor_LeaksPermit(w) ==
    LET a == work[w].key IN
    /\ WorkerAt(w, "Lease")
    /\ IF Registered(a)
       THEN AcquireLease(a) /\ Goto(w, "Begin")
       ELSE SetWorker(w, IdleWorker) /\ UNCHANGED leases
    /\ UNCHANGED <<gate, mailbox, permits, ready, lifecycle, closedKeys,
                   stopVars, prod, drainFailed>>

\* A key whose actor has left the registry only gives its permit back.
LeaseReadyActor(w) ==
    LET a == work[w].key IN
    /\ WorkerAt(w, "Lease")
    /\ IF Registered(a)
       THEN AcquireLease(a) /\ Goto(w, "Begin") /\ UNCHANGED permits
       ELSE /\ ReleaseRunnablePermit(w)
            /\ SetWorker(w, IdleWorker)
            /\ UNCHANGED leases
    /\ UNCHANGED <<gate, mailbox, ready, lifecycle, closedKeys, stopVars, prod,
                   drainFailed>>

\* NrActorExecutor::TryRun, from TryBeginDrain.  A gate that is not Scheduled
\* makes the run AlreadyDraining: no drain, no directive.
BeginDrain(w) ==
    LET a == work[w].key IN
    /\ WorkerAt(w, "Begin")
    /\ IF CanBeginDrain(gate[a])
       THEN /\ gate' = [gate EXCEPT ![a] = TryBeginDrain(@)]
            /\ Goto(w, "DrainAcceptRecv")
       ELSE Goto(w, "Report") /\ UNCHANGED gate
    /\ UNCHANGED <<mailbox, permits, ready, registryVars, stopVars, prod,
                   drainFailed>>

HeadPublished(q) == q # <<>> /\ Head(q) = Mail

\* Mutant: the budget test comes one event late.
DrainOne_OverBudget(w, l, next) ==
    LET a == work[w].key
        n == work[w].drained + 1 IN
    /\ mailbox' = [mailbox EXCEPT ![a][l] = Tail(@)]
    /\ SetWorker(w, [work[w] EXCEPT
                       !.drained = n,
                       !.recvDrained = (l = "AcceptRecv"),
                       !.reschedule = (n > DrainBudget),
                       !.pc = IF n > DrainBudget THEN "EndDrain" ELSE next])

\* Draining one event: it is handled, or its handler fails the drain.
DrainOne(w, l, next) ==
    LET a == work[w].key
        n == work[w].drained + 1 IN
    /\ mailbox' = [mailbox EXCEPT ![a][l] = Tail(@)]
    /\ \/ SetWorker(w, [work[w] EXCEPT !.failed = TRUE, !.pc = "EndDrain"])
       \/ SetWorker(w, [work[w] EXCEPT
                          !.drained = n,
                          !.recvDrained = (l = "AcceptRecv"),
                          !.reschedule = (n = DrainBudget),
                          !.pc = IF n = DrainBudget THEN "EndDrain" ELSE next])

TryDrainOneAcceptRecvEvent(w) ==
    /\ WorkerAt(w, "DrainAcceptRecv")
    /\ IF HeadPublished(mailbox[work[w].key]["AcceptRecv"])
       THEN DrainOne(w, "AcceptRecv", "DrainSend")
       ELSE /\ SetWorker(w, [work[w] EXCEPT !.recvDrained = FALSE,
                                            !.pc = "DrainSend"])
            /\ UNCHANGED mailbox
    /\ UNCHANGED <<gate, permits, ready, registryVars, stopVars, prod,
                   drainFailed>>

\* Mutant: one round over the lanes, although the receive lane had an event.
TryDrainOneSendEvent_OneRound(w) ==
    /\ WorkerAt(w, "DrainSend")
    /\ IF HeadPublished(mailbox[work[w].key]["Send"])
       THEN DrainOne(w, "Send", "DrainAcceptRecv")
       ELSE Goto(w, "EndDrain") /\ UNCHANGED mailbox
    /\ UNCHANGED <<gate, permits, ready, registryVars, stopVars, prod,
                   drainFailed>>

TryDrainOneSendEvent(w) ==
    /\ WorkerAt(w, "DrainSend")
    /\ IF HeadPublished(mailbox[work[w].key]["Send"])
       THEN DrainOne(w, "Send", "DrainAcceptRecv")
       ELSE /\ Goto(w, IF work[w].recvDrained THEN "DrainAcceptRecv"
                                              ELSE "EndDrain")
            /\ UNCHANGED mailbox
    /\ UNCHANGED <<gate, permits, ready, registryVars, stopVars, prod,
                   drainFailed>>

\* A failed drain asks for no reschedule.
EndDrain(w) ==
    LET a == work[w].key
        r == CompleteDrain(gate[a], ~work[w].failed /\ work[w].reschedule) IN
    /\ WorkerAt(w, "EndDrain")
    /\ gate' = [gate EXCEPT ![a] = r.word]
    /\ SetWorker(w, [IdleWorker EXCEPT
                       !.pc = "Report", !.key = a, !.ran = TRUE,
                       !.failed = work[w].failed, !.directive = r.directive])
    /\ drainFailed' = IF work[w].failed THEN drainFailed \cup {a}
                                        ELSE drainFailed \ {a}
    /\ UNCHANGED <<mailbox, permits, ready, registryVars, stopVars, prod>>

\* NrSessionActorLease::TryRun after the executor: ApplyDrainReport.  Whether
\* the session asked to close, and has no pending I/O, is the actor's matter.
ApplyDrainReport(w) ==
    LET a == work[w].key IN
    /\ WorkerAt(w, "Report")
    /\ \E closeRequested \in BOOLEAN, closeReady \in BOOLEAN :
         LET closing == work[w].failed \/ closeRequested
             after   == IF \/ lifecycle[a] = "Active" /\ closing
                           \/ lifecycle[a] = "AwaitingDrain" /\ closeReady
                        THEN IF closeReady THEN "ReadyToDeregister"
                                           ELSE "AwaitingDrain"
                        ELSE lifecycle[a]
         IN /\ lifecycle' = [lifecycle EXCEPT ![a] = after]
            /\ SetWorker(w, [work[w] EXCEPT
                               !.track = lifecycle[a] = "Active" /\ closing,
                               !.deregister = after = "ReadyToDeregister",
                               !.failed = FALSE,
                               !.pc = "Apply"])
    /\ UNCHANGED <<gate, mailbox, permits, ready, leases, closedKeys, stopVars,
                   prod, drainFailed>>

\* CompleteActorRun: a run is Skipped (it drained nothing), Deferred,
\* Rescheduled or Finished, and only a Finished one may deregister its actor.
RunFinished(w) ==
    /\ work[w].ran
    /\ work[w].directive # "FinalizationDeferred"
    /\ ~PushesToken(work[w].key, work[w].directive)

CompleteActorRun(w) ==
    /\ WorkerAt(w, "Apply")
    /\ ApplyScheduleDirective(work[w].key, work[w].directive)
    /\ SetWorker(w, [work[w] EXCEPT
                       !.deregister = @ /\ RunFinished(w),
                       !.directive = "NoAction", !.ran = FALSE,
                       !.pc = "Release"])
    /\ UNCHANGED <<gate, mailbox, registryVars, stopVars, prod, drainFailed>>

WorkerReleasesLease(w) ==
    /\ WorkerAt(w, "Release")
    /\ ReleaseLease(work[w].key)
    /\ Goto(w, "Cleanup")
    /\ UNCHANGED <<gate, mailbox, permits, ready, lifecycle, closedKeys,
                   stopVars, prod, drainFailed>>

\* Mutant: the leases of other threads are not looked at.
MayErase_IgnoresLeases(a) ==
    lifecycle[a] \in {"AwaitingDrain", "ReadyToDeregister"}

\* CanEraseLocked, but for the actor's pending I/O.
MayErase(a) == lifecycle[a] \in {"AwaitingDrain", "ReadyToDeregister"}
               /\ leases[a] = 0

\* TrackClosedActorKey and then TryDeregisterClosedActor.  The run asks for it
\* only once the actor has no pending I/O left, so the entry is erased unless
\* another thread holds a lease; then the call succeeds and does nothing.
RunRegistryCleanup(w) ==
    LET a == work[w].key
        tracked == IF work[w].track /\ Registered(a) THEN closedKeys \cup {a}
                                                     ELSE closedKeys IN
    /\ WorkerAt(w, "Cleanup")
    /\ IF work[w].deregister /\ MayErase(a)
       THEN /\ lifecycle' = [lifecycle EXCEPT ![a] = "Erased"]
            /\ closedKeys' = tracked \ {a}
       ELSE /\ closedKeys' = IF work[w].deregister /\ ~Registered(a)
                             THEN tracked \ {a} ELSE tracked
            /\ UNCHANGED lifecycle
    /\ SetWorker(w, IdleWorker)
    /\ UNCHANGED <<gate, mailbox, permits, ready, leases, stopVars, prod,
                   drainFailed>>

-----------------------------------------------------------------------------
\* DeregisterClosedActors, called when the bootstrap of another session fails:
\* it erases every tracked entry it can.
DeregisterClosedActors ==
    /\ \E gone \in (SUBSET {a \in closedKeys : MayErase(a)}) \ {{}} :
         /\ lifecycle' = [a \in Actors |-> IF a \in gone THEN "Erased"
                                                         ELSE lifecycle[a]]
         /\ closedKeys' = {a \in closedKeys \ gone : Registered(a)}
    /\ UNCHANGED <<gate, mailbox, permits, ready, leases, stopVars, prod, work,
                   drainFailed>>

\* RequestStop (and the first half of Shutdown): the flags, then every worker.
RequestStop ==
    /\ ~stop
    /\ stop' = TRUE
    /\ toWake' = Workers
    /\ UNCHANGED <<gate, mailbox, permits, ready, registryVars, prod, work,
                   drainFailed>>

WakeAllWorkers(w) ==
    /\ w \in toWake
    /\ WakeWorker(w)
    /\ toWake' = toWake \ {w}
    /\ UNCHANGED <<gate, mailbox, permits, ready, registryVars, stop, prod,
                   drainFailed>>

ProducerStep(p) ==
    \/ BeginAdmission(p)
    \/ TryAcquireRunnablePermit(p)
    \/ ReserveMailboxSlot(p)
    \/ PublishMailboxSlot(p)
    \/ FinishAdmission(p)
    \/ ProducerAppliesDirective(p)
    \/ ProducerWakesWorker(p)
    \/ ProducerReleasesLease(p)

WorkerStep(w) ==
    \/ TryPopReadyQueue(w)
    \/ EvaluateWaitPredicate(w)
    \/ BlockOnWakeup(w)
    \/ LeaseReadyActor(w)
    \/ BeginDrain(w)
    \/ TryDrainOneAcceptRecvEvent(w)
    \/ TryDrainOneSendEvent(w)
    \/ EndDrain(w)
    \/ ApplyDrainReport(w)
    \/ CompleteActorRun(w)
    \/ WorkerReleasesLease(w)
    \/ RunRegistryCleanup(w)

\* Every thread has left: the only state in which nothing more can happen.
Joined ==
    /\ stop /\ toWake = {}
    /\ \A w \in Workers : work[w].pc = "Exited"
    /\ \A p \in Producers : prod[p].pc = "Outside"
    /\ UNCHANGED vars

SomeEnqueue == \E p \in Producers, a \in Actors, l \in Lanes : Enqueue(p, a, l)

Continue ==
    \/ \E p \in Producers : ProducerStep(p)
    \/ \E w \in Workers : WorkerStep(w) \/ WakeAllWorkers(w)
    \/ DeregisterClosedActors
    \/ RequestStop
    \/ Joined

Next == SomeEnqueue \/ Continue

Spec == Init /\ [][Next]_vars

\* Every thread that is inside a call, or in its loop, keeps running.
Fairness ==
    /\ \A p \in Producers : WF_vars(ProducerStep(p))
    /\ \A w \in Workers : WF_vars(WorkerStep(w))
    /\ \A w \in Workers : WF_vars(WakeAllWorkers(w))

FairSpec == Spec /\ Fairness

-----------------------------------------------------------------------------
(***************************************************************************)
(* Properties.                                                             *)
(***************************************************************************)
\* The producers whose ticket counts in the gate of actor a.
TicketHolders(a) ==
    {p \in Producers : prod[p].key = a /\ prod[p].ticket # "Rejected"}

\* producerInFlight is exactly the number of Enqueue calls between
\* TryBeginAdmission and CompleteAdmission.  Were it ever lower, a worker could
\* settle the actor's state under a producer that is about to commit a mail.
InFlightIsTicketCount ==
    \A a \in Actors :
        Registered(a) => gate[a].inFlight = Cardinality(TicketHolders(a))

\* Where a ready token of actor a can be: in its shard's queue, in the hands of
\* the worker that popped it, or still owed by the thread told to enqueue it.
TokensQueued(a) == {i \in DOMAIN ready[Shard[a]] : ready[Shard[a]][i] = a}

TokenPopped(a, w) == work[w].key = a /\ work[w].pc \in {"Lease", "Begin"}

TokenOwedBy(s, a) == s.key = a /\ s.directive = "EnqueueReadyToken"

TokenPlaces(a) ==
    {<<"queued", i>> : i \in TokensQueued(a)}
    \cup {<<"popped", w>> : w \in {v \in Workers : TokenPopped(a, v)}}
    \cup {<<"producer", p>> : p \in {q \in Producers : TokenOwedBy(prod[q], a)}}
    \cup {<<"worker", w>> : w \in {v \in Workers : TokenOwedBy(work[v], a)}}

\* A scheduled actor has exactly one ready token on its way to a worker and any
\* other has none: no lost token (the actor would never run again), no duplicate
\* (two runs, and NrActorExecutor would answer AlreadyDraining).  The token of
\* an erased actor may outlive it, once.
OneTokenPerScheduledActor ==
    \A a \in Actors :
        IF Registered(a)
        THEN Cardinality(TokenPlaces(a)) =
                IF gate[a].phase = "Scheduled" THEN 1 ELSE 0
        ELSE Cardinality(TokenPlaces(a)) <= 1

\* Both counts a settled actor depends on are exact in every interleaving: the
\* gate's producers in flight, and the ready tokens of its key.
TicketsAndTokens == InFlightIsTicketCount /\ OneTokenPerScheduledActor

\* Who a runnable permit of worker w stands for.
PermitUses(w) ==
    {<<"token", a>> : a \in {b \in Actors : Shard[b] = w /\ TokenPlaces(b) # {}}}
    \cup {<<"drain", a>> : a \in {b \in Actors : /\ Shard[b] = w
                   /\ gate[b].phase \in {"Draining", "DrainCompleting"}}}
    \cup {<<"admit", p>> : p \in {q \in Producers :
                   /\ Shard[prod[q].key] = w
                   /\ prod[q].ticket = "RequiresNewPermit"
                   /\ prod[q].pc # "Permit"
                   /\ ~(prod[q].pc = "Complete"
                         /\ prod[q].resolution = "CapacityRejected")}}
    \cup {<<"release", p>> : p \in {q \in Producers :
                   /\ Shard[prod[q].key] = w
                   /\ prod[q].directive = "ReleasePermit"}}
    \cup {<<"worker", v>> : v \in {u \in Workers :
                   u = w /\ work[u].directive = "ReleasePermit"}}

\* The permit counter never drifts: it counts the actors being admitted, queued
\* or drained, and the releases still to be made, whatever path an Enqueue or a
\* run took, the run of an erased actor included.
PermitsConserved == \A w \in Workers : permits[w] = Cardinality(PermitUses(w))

\* The assertion of ApplyScheduleDirective: "a reserved runnable permit must
\* guarantee ready queue capacity".
ReadyCapacityReserved ==
    \A a \in Actors :
        (\/ \E p \in Producers : TokenOwedBy(prod[p], a)
         \/ \E w \in Workers : TokenOwedBy(work[w], a))
            => ~ReadyQueueFull(Shard[a])

\* A permit is counted from admission to its release, and that is enough for a
\* push of a ready token never to fail.
PermitsSuffice == PermitsConserved /\ ReadyCapacityReserved

\* An actor that settled Idle left no mail behind, not even one whose slot was
\* reserved ahead of, and published after, the worker's last look, unless its
\* latest drain failed.
NoStrandedMail ==
    \A a \in Actors :
        (Registered(a) /\ gate[a].phase = "Idle" /\ a \notin drainFailed)
            => \A l \in Lanes : mailbox[a][l] = <<>>

\* A registry entry is never erased while some thread still works on its actor:
\* a producer in Enqueue, or a worker between its lease and its release.
LeasedActorNotErased ==
    /\ \A p \in Producers :
          prod[p].pc # "Outside" => Registered(prod[p].key)
    /\ \A w \in Workers :
          work[w].pc \in {"Begin", "DrainAcceptRecv", "DrainSend", "EndDrain",
                          "Report", "Apply", "Release"}
            => Registered(work[w].key)

\* A published mail is not left waiting: its actor is drained, unless its last
\* drain failed, it left the registry or the scheduler was stopped.
MailIsServed ==
    \A a \in Actors :
        (\E l \in Lanes : HeadPublished(mailbox[a][l]))
            ~> (\/ gate[a].phase = "Draining" \/ a \in drainFailed
                \/ ~Registered(a) \/ stop)

\* The wiki's rule for an ordinary close: an actor that is ready to deregister is
\* removed from the registry (once no lease holds it, as every lease is released).
ReadyActorIsReclaimed ==
    \A a \in Actors :
        lifecycle[a] = "ReadyToDeregister" ~> (~Registered(a) \/ stop)

\* Shutdown can join every worker once a stop is requested.
StopJoinsWorkers == stop ~> (\A w \in Workers : work[w].pc = "Exited")

=============================================================================
