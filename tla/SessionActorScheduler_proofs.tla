-------------------- MODULE SessionActorScheduler_proofs --------------------
(***************************************************************************)
(* Proofs about SessionActorScheduler, for any number of actors, producers *)
(* and workers and any capacity: its types, then its safety.               *)
(*                                                                         *)
(* None of the run's invariants is inductive as it stands: what an actor's *)
(* word promises is kept by threads that are half way through a call.      *)
(* SchedInv says, for each counter of the scheduler, exactly which thread  *)
(* stands behind each unit of it (LeaseInv: leases; GateInv: tickets in    *)
(* flight; TokenInv: ready tokens; PermitInv: runnable permits), and, for  *)
(* each phase of a drain, why a mail left in a lane will be found again    *)
(* (MailInv).  One lemma per action shows that the action keeps it; the    *)
(* theorems at the end read the properties of the runs off it.             *)
(***************************************************************************)
EXTENDS SessionActorScheduler, FiniteSetTheorems, TLAPS

\* Changing the counter of a schedule word.
LEMMA InFlightUpdate ==
    ASSUME NEW g \in GateWord, NEW n \in 0 .. MaxProducerInFlight
    PROVE  [g EXCEPT !.inFlight = n] \in GateWord
  BY DEF GateWord

LEMMA InFlightArithmetic ==
    ASSUME NEW g \in GateWord
    PROVE  /\ g.inFlight \in Nat
           /\ 0 \in 0 .. MaxProducerInFlight
           /\ 1 \in 0 .. MaxProducerInFlight
           /\ g.inFlight # MaxProducerInFlight
                => g.inFlight + 1 \in 0 .. MaxProducerInFlight
           /\ g.inFlight # 0
                => g.inFlight - 1 \in 0 .. MaxProducerInFlight
<1>1. g.inFlight \in 0 .. MaxProducerInFlight
  BY DEF GateWord
<1>2. QED
  BY <1>1, MaxProducerInFlightAssumption

LEMMA GateOpsTyped ==
    ASSUME NEW g \in GateWord
    PROVE  /\ ClearDrainFlags(g) \in GateWord
           /\ Settle(g) \in GateWord
           /\ SettleDirective(g) \in Directives
           /\ CanBeginAdmission(g) => TryBeginAdmission(g) \in GateWord
           /\ AdmissionDecision(g) \in Tickets
           /\ TryBeginDrain(g) \in GateWord
<1>1. ClearDrainFlags(g) \in GateWord
  BY DEF GateWord, ClearDrainFlags
<1>2. Settle(g) \in GateWord
  BY DEF GateWord, ClearDrainFlags, Settle, Phases
<1>3. SettleDirective(g) \in Directives
  BY DEF SettleDirective, Directives
<1>4. CanBeginAdmission(g) => TryBeginAdmission(g) \in GateWord
  BY InFlightArithmetic
  DEF GateWord, ClearDrainFlags, Phases, CanBeginAdmission, TryBeginAdmission
<1>5. AdmissionDecision(g) \in Tickets
  BY DEF AdmissionDecision, Tickets
<1>6. TryBeginDrain(g) \in GateWord
  BY DEF GateWord, ClearDrainFlags, Phases, TryBeginDrain
<1>7. QED
  BY <1>1, <1>2, <1>3, <1>4, <1>5, <1>6

LEMMA CompleteAdmissionTyped ==
    ASSUME NEW g \in GateWord, NEW t \in Tickets, NEW r \in Resolutions
    PROVE  /\ CompleteAdmission(g, t, r).word \in GateWord
           /\ CompleteAdmission(g, t, r).directive \in Directives
<1>1. /\ CompleteNewPermit(g, r).word \in GateWord
      /\ CompleteNewPermit(g, r).directive \in Directives
  BY InFlightArithmetic
  DEF CompleteNewPermit, GateWord, ClearDrainFlags, Phases, Directives,
      Resolutions
<1>2. ASSUME g.inFlight # 0
      PROVE  /\ CompleteExistingPermit(g, r).word \in GateWord
             /\ CompleteExistingPermit(g, r).directive \in Directives
  <2> DEFINE d == [MarkPending(g, r) EXCEPT !.inFlight = @ - 1]
  <2>1. d \in GateWord
    <3>1. MarkPending(g, r) \in GateWord /\ MarkPending(g, r).inFlight = g.inFlight
      BY DEF MarkPending, GateWord
    <3>2. QED
      BY <1>2, <3>1, InFlightArithmetic, InFlightUpdate
  <2>2. Settle(d) \in GateWord /\ SettleDirective(d) \in Directives
    BY <2>1, GateOpsTyped
  <2>3. QED
    BY <2>1, <2>2 DEF CompleteExistingPermit, Directives
<1>3. QED
  BY <1>1, <1>2 DEF CompleteAdmission, Directives

LEMMA CompleteDrainTyped ==
    ASSUME NEW g \in GateWord, NEW b \in BOOLEAN
    PROVE  /\ CompleteDrain(g, b).word \in GateWord
           /\ CompleteDrain(g, b).directive \in Directives
<1> DEFINE d == [g EXCEPT !.resched = @ \/ b]
<1>1. d \in GateWord /\ [d EXCEPT !.phase = "DrainCompleting"] \in GateWord
  BY DEF GateWord, Phases
<1>2. Settle(d) \in GateWord /\ SettleDirective(d) \in Directives
  BY <1>1, GateOpsTyped
<1>3. QED
  BY <1>1, <1>2 DEF CompleteDrain, Directives

-----------------------------------------------------------------------------
(***************************************************************************)
(* Type correctness.                                                       *)
(***************************************************************************)
\* TypeOK bounds the events a drain has counted; for that bound to be inductive
\* the budget must still be open whenever the drain goes on.
WorkerLocals ==
    {s \in WorkerState : s.pc # "EndDrain" => s.drained < DrainBudget}

TypeInv == TypeOK /\ work \in [Workers -> WorkerLocals]

LEMMA IdleLocalsTyped ==
    /\ AnyKey \in Actors
    /\ IdleProducer \in ProducerState
    /\ IdleWorker \in WorkerLocals
<1>1. AnyKey \in Actors
  BY SchedulerAssumption DEF AnyKey
<1>2. IdleProducer \in ProducerState
  BY <1>1 DEF IdleProducer, ProducerState, ProducerSteps, Lanes, Tickets,
              Resolutions, Directives
<1>3. IdleWorker \in WorkerLocals
  <2>1. 0 \in 0 .. DrainBudget /\ 0 < DrainBudget
    BY SchedulerAssumption
  <2>2. QED
    BY <1>1, <2>1
    DEF IdleWorker, WorkerLocals, WorkerState, WorkerSteps, Directives
<1>4. QED
  BY <1>1, <1>2, <1>3

LEMMA InitTyped == Init => TypeInv
<1> SUFFICES ASSUME Init PROVE TypeInv
  OBVIOUS
<1>1. InitialWord \in GateWord
  BY MaxProducerInFlightAssumption DEF InitialWord, GateWord, Phases
<1>2. gate \in [Actors -> GateWord]
  BY <1>1 DEF Init
<1>3. mailbox \in [Actors -> [Lanes -> Seq(Producers \cup {Mail})]]
  BY DEF Init
<1>4. permits \in [Workers -> Nat] /\ ready \in [Workers -> Seq(Actors)]
  BY DEF Init
<1>5. lifecycle \in [Actors -> Lifecycles] /\ leases \in [Actors -> Nat]
  BY DEF Init, Lifecycles
<1>6. prod \in [Producers -> ProducerState] /\ work \in [Workers -> WorkerLocals]
  BY IdleLocalsTyped DEF Init
<1>7. work \in [Workers -> WorkerState]
  BY <1>6 DEF WorkerLocals
<1>8. QED
  BY <1>2, <1>3, <1>4, <1>5, <1>6, <1>7 DEF Init, TypeOK, TypeInv

LEMMA ReleasePermitTyped ==
    ASSUME permits \in [Workers -> Nat], NEW w \in Workers,
           ReleaseRunnablePermit(w)
    PROVE  permits' \in [Workers -> Nat]
<1>1. permits[w] \in Nat
  OBVIOUS
<1>2. (IF permits[w] = 0 THEN 0 ELSE permits[w] - 1) \in Nat
  BY <1>1
<1>3. QED
  BY <1>2 DEF ReleaseRunnablePermit

LEMMA ReleaseLeaseTyped ==
    ASSUME leases \in [Actors -> Nat], NEW a \in Actors, ReleaseLease(a)
    PROVE  leases' \in [Actors -> Nat]
<1>1. leases[a] \in Nat
  OBVIOUS
<1>2. (IF leases[a] = 0 THEN 0 ELSE leases[a] - 1) \in Nat
  BY <1>1
<1>3. QED
  BY <1>2 DEF ReleaseLease

LEMMA AcquireLeaseTyped ==
    ASSUME leases \in [Actors -> Nat], NEW a \in Actors, AcquireLease(a)
    PROVE  leases' \in [Actors -> Nat]
  BY DEF AcquireLease

\* A directive keeps the counters and the ready queues well typed.
LEMMA DirectiveTyped ==
    ASSUME TypeOK, NEW a \in Actors, NEW d \in Directives,
           ApplyScheduleDirective(a, d)
    PROVE  permits' \in [Workers -> Nat] /\ ready' \in [Workers -> Seq(Actors)]
<1>1. Shard[a] \in Workers
  BY SchedulerAssumption
<1>2. CASE d = "EnqueueReadyToken"
  <2>1. PushReadyToken(a) /\ permits' = permits
    BY <1>2 DEF ApplyScheduleDirective
  <2>2. ready' = ready \/ ready' = [ready EXCEPT ![Shard[a]] = Append(@, a)]
    BY <1>1, <2>1 DEF PushReadyToken, TypeOK
  <2>3. Append(ready[Shard[a]], a) \in Seq(Actors)
    BY <1>1 DEF TypeOK
  <2>4. QED
    BY <1>1, <2>1, <2>2, <2>3 DEF TypeOK
<1>3. CASE d = "ReleasePermit"
  <2>1. ReleaseRunnablePermit(Shard[a]) /\ ready' = ready
    BY <1>3 DEF ApplyScheduleDirective
  <2>2. QED
    BY <1>1, <2>1, ReleasePermitTyped DEF TypeOK
<1>4. CASE d \notin {"EnqueueReadyToken", "ReleasePermit"}
  BY <1>4 DEF TypeOK, ApplyScheduleDirective
<1>5. QED
  BY <1>2, <1>3, <1>4

\* Assigning to the locals of one thread.
LEMMA SetProducerTyped ==
    ASSUME prod \in [Producers -> ProducerState], NEW p \in Producers,
           NEW s \in ProducerState, SetProducer(p, s)
    PROVE  prod' \in [Producers -> ProducerState]
  BY DEF SetProducer

LEMMA SetWorkerTyped ==
    ASSUME work \in [Workers -> WorkerLocals], NEW w \in Workers,
           NEW s \in WorkerLocals, SetWorker(w, s)
    PROVE  work' \in [Workers -> WorkerLocals]
  BY DEF SetWorker

LEMMA GotoTyped ==
    ASSUME work \in [Workers -> WorkerLocals], NEW w \in Workers,
           NEW s \in WorkerSteps, s # "EndDrain", work[w].pc # "EndDrain",
           Goto(w, s)
    PROVE  work' \in [Workers -> WorkerLocals]
<1>1. [work[w] EXCEPT !.pc = s] \in WorkerLocals
  BY DEF WorkerLocals, WorkerState
<1>2. QED
  BY <1>1, SetWorkerTyped DEF Goto

LEMMA WorkerLocalsWeaken ==
    ASSUME work' \in [Workers -> WorkerLocals]
    PROVE  work' \in [Workers -> WorkerState]
  BY DEF WorkerLocals

LEMMA WakeWorkerTyped ==
    ASSUME work \in [Workers -> WorkerLocals], NEW w \in Workers, WakeWorker(w)
    PROVE  work' \in [Workers -> WorkerLocals]
<1> DEFINE s == IF work[w].pc = "Asleep" THEN "Wait" ELSE work[w].pc
<1>1. [work[w] EXCEPT !.pc = s] \in WorkerLocals
  BY DEF WorkerLocals, WorkerState, WorkerSteps
<1>2. SetWorker(w, [work[w] EXCEPT !.pc = s])
  BY DEF WakeWorker, Goto
<1>3. QED
  BY <1>1, <1>2, SetWorkerTyped

\* A mailbox lane of one actor replaced by another sequence of slots.
LEMMA LaneTyped ==
    ASSUME mailbox \in [Actors -> [Lanes -> Seq(Producers \cup {Mail})]],
           NEW a \in Actors, NEW l \in Lanes,
           NEW q \in Seq(Producers \cup {Mail}),
           mailbox' = [mailbox EXCEPT ![a][l] = q]
    PROVE  mailbox' \in [Actors -> [Lanes -> Seq(Producers \cup {Mail})]]
  OBVIOUS

\* A step of a producer inside Enqueue.
LEMMA ProducerTyped ==
    ASSUME TypeInv, NEW p \in Producers, ProducerStep(p)
    PROVE  TypeInv'
<1> USE DEF TypeOK, TypeInv
<1> DEFINE a == prod[p].key
           l == prod[p].lane
           At(step) == [prod[p] EXCEPT !.pc = step]
           Resolved(r) == [prod[p] EXCEPT !.resolution = r, !.pc = "Complete"]
<1>a. /\ prod[p] \in ProducerState
      /\ a \in Actors /\ l \in Lanes /\ gate[a] \in GateWord
      /\ Shard[a] \in Workers
  BY SchedulerAssumption DEF ProducerState
<1>b. \A step \in ProducerSteps : At(step) \in ProducerState
  BY <1>a DEF ProducerState
<1>c. \A r \in Resolutions : Resolved(r) \in ProducerState
  BY <1>a DEF ProducerState, ProducerSteps
<1>d. ASSUME NEW s \in ProducerState, SetProducer(p, s)
      PROVE  prod' \in [Producers -> ProducerState]
  BY <1>d, SetProducerTyped
<1>1. CASE BeginAdmission(p)
  <2>1. CASE stop
    <3>1. SetProducer(p, At("Leave")) /\ gate' = gate
      BY <1>1, <2>1 DEF BeginAdmission
    <3>2. prod' \in [Producers -> ProducerState]
      BY <1>b, <1>d, <3>1 DEF ProducerSteps
    <3>3. QED
      BY <1>1, <3>1, <3>2 DEF BeginAdmission, registryVars, stopVars
  <2>2. CASE ~stop
    <3> DEFINE s == [prod[p] EXCEPT
                       !.ticket = AdmissionDecision(gate[a]),
                       !.pc = IF gate[a].phase = "Idle" THEN "Permit"
                                                        ELSE "Reserve"]
    <3>1. /\ SetProducer(p, s)
          /\ CanBeginAdmission(gate[a])
          /\ gate' = [gate EXCEPT ![a] = TryBeginAdmission(@)]
      BY <1>1, <2>2 DEF BeginAdmission
    <3>2. AdmissionDecision(gate[a]) \in Tickets
      BY <1>a, GateOpsTyped
    <3>3. s \in ProducerState
      BY <1>a, <3>2 DEF ProducerState, ProducerSteps
    <3>4. TryBeginAdmission(gate[a]) \in GateWord
      BY <1>a, <3>1, GateOpsTyped
    <3>5. gate' \in [Actors -> GateWord]
      BY <1>a, <3>1, <3>4
    <3>6. prod' \in [Producers -> ProducerState]
      BY <1>d, <3>1, <3>3
    <3>7. QED
      BY <1>1, <3>5, <3>6 DEF BeginAdmission, registryVars, stopVars
  <2>3. QED
    BY <2>1, <2>2
<1>2. CASE TryAcquireRunnablePermit(p)
  <2>1. \/ /\ permits' = [permits EXCEPT ![Shard[a]] = @ + 1]
           /\ SetProducer(p, At("Reserve"))
        \/ permits' = permits /\ SetProducer(p, Resolved("CapacityRejected"))
    BY <1>2 DEF TryAcquireRunnablePermit
  <2>2. permits' \in [Workers -> Nat]
    <3>1. permits[Shard[a]] + 1 \in Nat
      BY <1>a
    <3>2. QED
      BY <1>a, <2>1, <3>1
  <2>3. prod' \in [Producers -> ProducerState]
    BY <1>b, <1>c, <1>d, <2>1 DEF ProducerSteps, Resolutions
  <2>4. QED
    BY <1>2, <2>2, <2>3 DEF TryAcquireRunnablePermit, registryVars, stopVars
<1>3. CASE ReserveMailboxSlot(p)
  <2>1. \/ /\ mailbox' = [mailbox EXCEPT ![a][l] = Append(mailbox[a][l], p)]
           /\ SetProducer(p, At("Publish"))
        \/ mailbox' = mailbox /\ SetProducer(p, Resolved("MailboxRejected"))
    BY <1>3 DEF ReserveMailboxSlot
  <2>2. Append(mailbox[a][l], p) \in Seq(Producers \cup {Mail})
    BY <1>a
  <2>3. mailbox' \in [Actors -> [Lanes -> Seq(Producers \cup {Mail})]]
    BY <1>a, <2>1, <2>2, LaneTyped
  <2>4. prod' \in [Producers -> ProducerState]
    BY <1>b, <1>c, <1>d, <2>1 DEF ProducerSteps, Resolutions
  <2>5. QED
    BY <1>3, <2>3, <2>4 DEF ReserveMailboxSlot, registryVars, stopVars
<1>4. CASE PublishMailboxSlot(p)
  <2> DEFINE q == mailbox[a][l]
             published == [i \in 1 .. Len(q) |-> IF q[i] = p THEN Mail ELSE q[i]]
  <2>1. /\ mailbox' = [mailbox EXCEPT ![a][l] = published]
        /\ SetProducer(p, Resolved("MailboxCommitted"))
    BY <1>4 DEF PublishMailboxSlot
  <2>2. published \in Seq(Producers \cup {Mail})
    <3>1. q \in Seq(Producers \cup {Mail})
      BY <1>a
    <3>2. QED
      BY <3>1
  <2>3. mailbox' \in [Actors -> [Lanes -> Seq(Producers \cup {Mail})]]
    BY <1>a, <2>1, <2>2, LaneTyped
  <2>4. prod' \in [Producers -> ProducerState]
    BY <1>c, <1>d, <2>1 DEF Resolutions
  <2>5. QED
    BY <1>4, <2>3, <2>4 DEF PublishMailboxSlot, registryVars, stopVars
<1>5. CASE FinishAdmission(p)
  <2> DEFINE r == CompleteAdmission(gate[a], prod[p].ticket, prod[p].resolution)
             s == [IdleProducer EXCEPT !.pc = "Apply", !.key = a,
                                       !.directive = r.directive]
  <2>1. r.word \in GateWord /\ r.directive \in Directives
    BY <1>a, CompleteAdmissionTyped DEF ProducerState
  <2>2. s \in ProducerState
    BY <1>a, <2>1, IdleLocalsTyped DEF ProducerState, ProducerSteps
  <2>3. SetProducer(p, s) /\ gate' = [gate EXCEPT ![a] = r.word]
    BY <1>5 DEF FinishAdmission
  <2>4. prod' \in [Producers -> ProducerState]
    BY <1>d, <2>2, <2>3
  <2>5. gate' \in [Actors -> GateWord]
    BY <1>a, <2>1, <2>3
  <2>6. QED
    BY <1>5, <2>4, <2>5 DEF FinishAdmission, registryVars, stopVars
<1>6. CASE ProducerAppliesDirective(p)
  <2> DEFINE s == [prod[p] EXCEPT !.directive = "NoAction",
                     !.pc = IF PushesToken(a, prod[p].directive)
                            THEN "Wake" ELSE "Leave"]
  <2>1. s \in ProducerState
    BY <1>a DEF ProducerState, ProducerSteps, Directives
  <2>2. prod' \in [Producers -> ProducerState]
    BY <1>6, <1>d, <2>1 DEF ProducerAppliesDirective
  <2>3. permits' \in [Workers -> Nat] /\ ready' \in [Workers -> Seq(Actors)]
    BY <1>a, <1>6, DirectiveTyped DEF ProducerAppliesDirective, ProducerState
  <2>4. QED
    BY <1>6, <2>2, <2>3 DEF ProducerAppliesDirective, registryVars, stopVars
<1>7. CASE ProducerWakesWorker(p)
  <2>1. prod' \in [Producers -> ProducerState]
    BY <1>b, <1>d, <1>7 DEF ProducerWakesWorker, ProducerSteps
  <2>2. work' \in [Workers -> WorkerLocals]
    BY <1>a, <1>7, WakeWorkerTyped DEF ProducerWakesWorker
  <2>3. QED
    BY <1>7, <2>1, <2>2, WorkerLocalsWeaken
    DEF ProducerWakesWorker, registryVars, stopVars
<1>8. CASE ProducerReleasesLease(p)
  <2>1. prod' \in [Producers -> ProducerState]
    BY <1>d, <1>8, IdleLocalsTyped DEF ProducerReleasesLease
  <2>2. leases' \in [Actors -> Nat]
    BY <1>a, <1>8, ReleaseLeaseTyped DEF ProducerReleasesLease
  <2>3. QED
    BY <1>8, <2>1, <2>2 DEF ProducerReleasesLease, stopVars
<1>9. QED
  BY <1>1, <1>2, <1>3, <1>4, <1>5, <1>6, <1>7, <1>8 DEF ProducerStep

\* A step of a worker in WorkerLoop.
LEMMA WorkerTyped ==
    ASSUME TypeInv, NEW w \in Workers, WorkerStep(w)
    PROVE  TypeInv'
<1> USE DEF TypeOK, TypeInv
<1> DEFINE a == work[w].key
<1>a. /\ work[w] \in WorkerState
      /\ a \in Actors /\ gate[a] \in GateWord
  BY DEF WorkerState
<1>d. work[w] \in WorkerLocals
  OBVIOUS
<1>b. ASSUME NEW s \in WorkerLocals, SetWorker(w, s)
      PROVE  work' \in [Workers -> WorkerLocals]
  BY <1>b, SetWorkerTyped
<1>c. ASSUME NEW s \in WorkerSteps, s # "EndDrain", work[w].pc # "EndDrain",
             Goto(w, s)
      PROVE  work' \in [Workers -> WorkerLocals]
  BY <1>c, GotoTyped
<1>1. CASE TryPopReadyQueue(w)
  <2>1. CASE ready[w] # <<>>
    <3> DEFINE s == [work[w] EXCEPT !.pc = "Lease", !.key = Head(ready[w])]
    <3>1. SetWorker(w, s) /\ ready' = [ready EXCEPT ![w] = Tail(ready[w])]
      BY <1>1, <2>1 DEF TryPopReadyQueue
    <3>2. Head(ready[w]) \in Actors /\ Tail(ready[w]) \in Seq(Actors)
      BY <2>1
    <3>3. s \in WorkerLocals
      BY <1>1, <1>d, <3>2
      DEF TryPopReadyQueue, WorkerAt, WorkerLocals, WorkerState, WorkerSteps
    <3>4. work' \in [Workers -> WorkerLocals]
      BY <1>b, <3>1, <3>3
    <3>5. ready' \in [Workers -> Seq(Actors)]
      BY <3>1, <3>2
    <3>6. QED
      BY <1>1, <3>4, <3>5, WorkerLocalsWeaken
      DEF TryPopReadyQueue, registryVars, stopVars
  <2>2. CASE ready[w] = <<>>
    <3>1. Goto(w, "Wait") /\ ready' = ready
      BY <1>1, <2>2 DEF TryPopReadyQueue
    <3>2. work' \in [Workers -> WorkerLocals]
      BY <1>1, <1>c, <3>1 DEF WorkerSteps, TryPopReadyQueue, WorkerAt
    <3>3. QED
      BY <1>1, <3>1, <3>2, WorkerLocalsWeaken
      DEF TryPopReadyQueue, registryVars, stopVars
  <2>3. QED
    BY <2>1, <2>2
<1>2. CASE EvaluateWaitPredicate(w)
  <2>1. \E s \in {"Pop", "Exited", "Sleep"} : Goto(w, s)
    BY <1>2 DEF EvaluateWaitPredicate
  <2>2. work' \in [Workers -> WorkerLocals]
    BY <1>2, <1>c, <2>1 DEF EvaluateWaitPredicate, WorkerAt, WorkerSteps
  <2>3. QED
    BY <1>2, <2>2, WorkerLocalsWeaken
    DEF EvaluateWaitPredicate, registryVars, stopVars
<1>3. CASE BlockOnWakeup(w)
  <2>1. work' \in [Workers -> WorkerLocals]
    BY <1>3, <1>c DEF BlockOnWakeup, WorkerAt, WorkerSteps
  <2>2. QED
    BY <1>3, <2>1, WorkerLocalsWeaken
    DEF BlockOnWakeup, registryVars, stopVars
<1>4. CASE LeaseReadyActor(w)
  <2>1. CASE Registered(a)
    <3>1. AcquireLease(a) /\ Goto(w, "Begin") /\ permits' = permits
      BY <1>4, <2>1 DEF LeaseReadyActor
    <3>2. work' \in [Workers -> WorkerLocals]
      BY <1>4, <1>c, <3>1 DEF LeaseReadyActor, WorkerAt, WorkerSteps
    <3>3. leases' \in [Actors -> Nat]
      BY <1>a, <3>1, AcquireLeaseTyped
    <3>4. QED
      BY <1>4, <3>1, <3>2, <3>3, WorkerLocalsWeaken
      DEF LeaseReadyActor, stopVars
  <2>2. CASE ~Registered(a)
    <3>1. /\ ReleaseRunnablePermit(w) /\ SetWorker(w, IdleWorker)
          /\ leases' = leases
      BY <1>4, <2>2 DEF LeaseReadyActor
    <3>2. work' \in [Workers -> WorkerLocals]
      BY <1>b, <3>1, IdleLocalsTyped
    <3>3. permits' \in [Workers -> Nat]
      BY <3>1, ReleasePermitTyped
    <3>4. QED
      BY <1>4, <3>1, <3>2, <3>3, WorkerLocalsWeaken
      DEF LeaseReadyActor, stopVars
  <2>3. QED
    BY <2>1, <2>2
<1>5. CASE BeginDrain(w)
  <2>1. \/ /\ gate' = [gate EXCEPT ![a] = TryBeginDrain(gate[a])]
           /\ Goto(w, "DrainAcceptRecv")
        \/ gate' = gate /\ Goto(w, "Report")
    BY <1>5 DEF BeginDrain
  <2>2. TryBeginDrain(gate[a]) \in GateWord
    BY <1>a, GateOpsTyped
  <2>3. gate' \in [Actors -> GateWord]
    BY <1>a, <2>1, <2>2
  <2>4. work' \in [Workers -> WorkerLocals]
    BY <1>5, <1>c, <2>1 DEF BeginDrain, WorkerAt, WorkerSteps
  <2>5. QED
    BY <1>5, <2>3, <2>4, WorkerLocalsWeaken
    DEF BeginDrain, registryVars, stopVars
<1>e. ASSUME NEW l \in Lanes, NEW next \in {"DrainSend", "DrainAcceptRecv"},
             work[w].pc # "EndDrain", mailbox[a][l] # <<>>, DrainOne(w, l, next)
      PROVE  /\ work' \in [Workers -> WorkerLocals]
             /\ mailbox' \in [Actors -> [Lanes -> Seq(Producers \cup {Mail})]]
  <2> DEFINE n == work[w].drained + 1
             failed == [work[w] EXCEPT !.failed = TRUE, !.pc = "EndDrain"]
             handled == [work[w] EXCEPT
                           !.drained = n,
                           !.recvDrained = (l = "AcceptRecv"),
                           !.reschedule = (n = DrainBudget),
                           !.pc = IF n = DrainBudget THEN "EndDrain" ELSE next]
  <2>1. /\ mailbox' = [mailbox EXCEPT ![a][l] = Tail(mailbox[a][l])]
        /\ SetWorker(w, failed) \/ SetWorker(w, handled)
    BY <1>e DEF DrainOne
  <2>2. Tail(mailbox[a][l]) \in Seq(Producers \cup {Mail})
    BY <1>a, <1>e
  <2>3. failed \in WorkerLocals
    BY <1>a, <1>d DEF WorkerLocals, WorkerState, WorkerSteps
  <2>4. n \in 0 .. DrainBudget /\ (n # DrainBudget => n < DrainBudget)
    <3>1. work[w].drained \in 0 .. DrainBudget /\ work[w].drained < DrainBudget
      BY <1>d, <1>e DEF WorkerLocals, WorkerState
    <3>2. QED
      BY <3>1, SchedulerAssumption
  <2>5. handled \in WorkerLocals
    BY <1>a, <1>e, <2>4 DEF WorkerLocals, WorkerState, WorkerSteps
  <2>6. QED
    BY <1>a, <1>b, <1>e, <2>1, <2>2, <2>3, <2>5, LaneTyped
<1>6. CASE TryDrainOneAcceptRecvEvent(w)
  <2> DEFINE s == [work[w] EXCEPT !.recvDrained = FALSE, !.pc = "DrainSend"]
  <2>1. \/ /\ mailbox[a]["AcceptRecv"] # <<>>
           /\ DrainOne(w, "AcceptRecv", "DrainSend")
        \/ SetWorker(w, s) /\ mailbox' = mailbox
    BY <1>6 DEF TryDrainOneAcceptRecvEvent, HeadPublished
  <2>2. work[w].pc # "EndDrain"
    BY <1>6 DEF TryDrainOneAcceptRecvEvent, WorkerAt
  <2>3. s \in WorkerLocals
    BY <1>d, <2>2 DEF WorkerLocals, WorkerState, WorkerSteps
  <2>4. /\ work' \in [Workers -> WorkerLocals]
        /\ mailbox' \in [Actors -> [Lanes -> Seq(Producers \cup {Mail})]]
    BY <1>b, <1>e, <2>1, <2>2, <2>3 DEF Lanes
  <2>5. QED
    BY <1>6, <2>4, WorkerLocalsWeaken
    DEF TryDrainOneAcceptRecvEvent, registryVars, stopVars
<1>7. CASE TryDrainOneSendEvent(w)
  <2> DEFINE next == IF work[w].recvDrained THEN "DrainAcceptRecv"
                                            ELSE "EndDrain"
             s == [work[w] EXCEPT !.pc = next]
  <2>1. \/ /\ mailbox[a]["Send"] # <<>>
           /\ DrainOne(w, "Send", "DrainAcceptRecv")
        \/ SetWorker(w, s) /\ mailbox' = mailbox
    BY <1>7 DEF TryDrainOneSendEvent, HeadPublished, Goto
  <2>2. work[w].pc # "EndDrain"
    BY <1>7 DEF TryDrainOneSendEvent, WorkerAt
  <2>3. s \in WorkerLocals
    BY <1>d, <2>2 DEF WorkerLocals, WorkerState, WorkerSteps
  <2>4. /\ work' \in [Workers -> WorkerLocals]
        /\ mailbox' \in [Actors -> [Lanes -> Seq(Producers \cup {Mail})]]
    BY <1>b, <1>e, <2>1, <2>2, <2>3 DEF Lanes
  <2>5. QED
    BY <1>7, <2>4, WorkerLocalsWeaken
    DEF TryDrainOneSendEvent, registryVars, stopVars
<1>8. CASE EndDrain(w)
  <2> DEFINE b == ~work[w].failed /\ work[w].reschedule
             r == CompleteDrain(gate[a], b)
             s == [IdleWorker EXCEPT
                     !.pc = "Report", !.key = a, !.ran = TRUE,
                     !.failed = work[w].failed, !.directive = r.directive]
  <2>1. r.word \in GateWord /\ r.directive \in Directives
    BY <1>a, CompleteDrainTyped
  <2>2. SetWorker(w, s) /\ gate' = [gate EXCEPT ![a] = r.word]
    BY <1>8 DEF EndDrain
  <2>3. s \in WorkerLocals
    <3>1. IdleWorker.pc = "Pop"
      BY DEF IdleWorker
    <3>2. QED
      BY <1>a, <2>1, <3>1, IdleLocalsTyped
      DEF WorkerLocals, WorkerState, WorkerSteps
  <2>4. work' \in [Workers -> WorkerLocals]
    BY <1>b, <2>2, <2>3
  <2>5. gate' \in [Actors -> GateWord]
    BY <1>a, <2>1, <2>2
  <2>6. drainFailed' \subseteq Actors
    BY <1>a, <1>8 DEF EndDrain
  <2>7. QED
    BY <1>8, <2>4, <2>5, <2>6, WorkerLocalsWeaken
    DEF EndDrain, registryVars, stopVars
<1>9. CASE ApplyDrainReport(w)
  <2>1. PICK track \in BOOLEAN, deregister \in BOOLEAN, after \in Lifecycles :
          /\ lifecycle' = [lifecycle EXCEPT ![a] = after]
          /\ SetWorker(w, [work[w] EXCEPT !.track = track,
                             !.deregister = deregister, !.failed = FALSE,
                             !.pc = "Apply"])
    BY <1>9, <1>a DEF ApplyDrainReport, Lifecycles
  <2>2. work[w].pc # "EndDrain"
    BY <1>9 DEF ApplyDrainReport, WorkerAt
  <2>3. [work[w] EXCEPT !.track = track, !.deregister = deregister,
                        !.failed = FALSE, !.pc = "Apply"] \in WorkerLocals
    BY <1>d, <2>2 DEF WorkerLocals, WorkerState, WorkerSteps
  <2>4. work' \in [Workers -> WorkerLocals]
    BY <1>b, <2>1, <2>3
  <2>5. lifecycle' \in [Actors -> Lifecycles]
    BY <1>a, <2>1
  <2>6. QED
    BY <1>9, <2>4, <2>5, WorkerLocalsWeaken DEF ApplyDrainReport, stopVars
<1>10. CASE CompleteActorRun(w)
  <2> DEFINE s == [work[w] EXCEPT
                     !.deregister = @ /\ RunFinished(w),
                     !.directive = "NoAction", !.ran = FALSE, !.pc = "Release"]
  <2>1. work[w].pc # "EndDrain"
    BY <1>10 DEF CompleteActorRun, WorkerAt
  <2>2. s \in WorkerLocals
    BY <1>d, <2>1 DEF WorkerLocals, WorkerState, WorkerSteps, Directives
  <2>3. work' \in [Workers -> WorkerLocals]
    BY <1>10, <1>b, <2>2 DEF CompleteActorRun
  <2>4. permits' \in [Workers -> Nat] /\ ready' \in [Workers -> Seq(Actors)]
    BY <1>a, <1>10, DirectiveTyped DEF CompleteActorRun, WorkerState
  <2>5. QED
    BY <1>10, <2>3, <2>4, WorkerLocalsWeaken
    DEF CompleteActorRun, registryVars, stopVars
<1>11. CASE WorkerReleasesLease(w)
  <2>1. work' \in [Workers -> WorkerLocals]
    BY <1>11, <1>c DEF WorkerReleasesLease, WorkerAt, WorkerSteps
  <2>2. leases' \in [Actors -> Nat]
    BY <1>11, <1>a, ReleaseLeaseTyped DEF WorkerReleasesLease
  <2>3. QED
    BY <1>11, <2>1, <2>2, WorkerLocalsWeaken DEF WorkerReleasesLease, stopVars
<1>12. CASE RunRegistryCleanup(w)
  <2>1. work' \in [Workers -> WorkerLocals]
    BY <1>12, <1>b, IdleLocalsTyped DEF RunRegistryCleanup
  <2>2. \/ lifecycle' = lifecycle
        \/ lifecycle' = [lifecycle EXCEPT ![a] = "Erased"]
    BY <1>12 DEF RunRegistryCleanup
  <2>3. lifecycle' \in [Actors -> Lifecycles]
    BY <1>a, <2>2 DEF Lifecycles
  <2>4. closedKeys' \subseteq Actors
    <3>1. closedKeys' \subseteq closedKeys \cup {a}
      <4>1. CASE work[w].deregister /\ MayErase(a)
        BY <1>12, <4>1 DEF RunRegistryCleanup
      <4>2. CASE ~(work[w].deregister /\ MayErase(a))
        BY <1>12, <4>2 DEF RunRegistryCleanup
      <4>3. QED
        BY <4>1, <4>2
    <3>2. QED
      BY <1>a, <3>1
  <2>5. QED
    BY <1>12, <2>1, <2>3, <2>4, WorkerLocalsWeaken
    DEF RunRegistryCleanup, stopVars
<1>13. QED
  BY <1>1, <1>2, <1>3, <1>4, <1>5, <1>6, <1>7, <1>8, <1>9, <1>10, <1>11, <1>12
  DEF WorkerStep

LEMMA TypeStep == TypeInv /\ [Next]_vars => TypeInv'
<1> SUFFICES ASSUME TypeInv, [Next]_vars PROVE TypeInv'
  OBVIOUS
<1> USE DEF TypeInv, TypeOK
<1>1. CASE SomeEnqueue
  <2>1. PICK p \in Producers, a \in Actors, l \in Lanes : Enqueue(p, a, l)
    BY <1>1 DEF SomeEnqueue
  <2> DEFINE s == [IdleProducer EXCEPT !.pc = "Admit", !.key = a, !.lane = l]
  <2>2. s \in ProducerState
    BY IdleLocalsTyped DEF ProducerState, ProducerSteps
  <2>3. prod' \in [Producers -> ProducerState]
    BY <2>1, <2>2, SetProducerTyped DEF Enqueue
  <2>4. leases' \in [Actors -> Nat]
    BY <2>1, AcquireLeaseTyped DEF Enqueue
  <2>5. QED
    BY <2>1, <2>3, <2>4 DEF Enqueue, stopVars
<1>2. ASSUME NEW p \in Producers, ProducerStep(p) PROVE TypeInv'
  BY <1>2, ProducerTyped
<1>3. ASSUME NEW w \in Workers, WorkerStep(w) PROVE TypeInv'
  BY <1>3, WorkerTyped
<1>4. ASSUME NEW w \in Workers, WakeAllWorkers(w) PROVE TypeInv'
  <2>1. work' \in [Workers -> WorkerLocals]
    BY <1>4, WakeWorkerTyped DEF WakeAllWorkers
  <2>2. QED
    BY <1>4, <2>1, WorkerLocalsWeaken DEF WakeAllWorkers, registryVars
<1>5. CASE DeregisterClosedActors
  BY <1>5 DEF DeregisterClosedActors, stopVars, Lifecycles
<1>6. CASE RequestStop
  BY <1>6 DEF RequestStop, registryVars
<1>7. CASE UNCHANGED vars
  BY <1>7 DEF vars
<1>8. QED
  BY <1>1, <1>2, <1>3, <1>4, <1>5, <1>6, <1>7 DEF Next, Continue, Joined

\* Every behaviour of the scheduler keeps its state well typed: in particular a
\* drain never counts more events than its budget.
THEOREM TypeCorrect == Spec => []TypeOK
<1>1. TypeInv => TypeOK
  BY DEF TypeInv
<1>2. QED
  BY <1>1, InitTyped, TypeStep, PTL DEF Spec

-----------------------------------------------------------------------------
(***************************************************************************)
(* What the locals of a thread say at each of its steps.                   *)
(***************************************************************************)
TicketSteps == {"Permit", "Reserve", "Publish", "Complete"}

ProducerShape(s) ==
    /\ s.ticket # "Rejected" <=> s.pc \in TicketSteps
    /\ s.directive # "NoAction" => s.pc = "Apply"
    /\ s.pc = "Permit" => s.ticket = "RequiresNewPermit"
    /\ (s.pc = "Complete" /\ s.resolution = "CapacityRejected")
          => s.ticket = "RequiresNewPermit"

DrainSteps == {"DrainAcceptRecv", "DrainSend", "EndDrain"}

LeasedSteps == {"Begin"} \cup DrainSteps \cup {"Report", "Apply", "Release"}

WorkerShape(w, s) ==
    /\ s.pc \in {"Lease"} \cup LeasedSteps => Shard[s.key] = w
    /\ s.directive # "NoAction" => s.pc \in {"Report", "Apply"}

QueuesSharded ==
    \A w \in Workers : \A i \in 1 .. Len(ready[w]) : Shard[ready[w][i]] = w

\* A key travels only through the queue and the locals of its own shard.
Shapes ==
    /\ \A p \in Producers : ProducerShape(prod[p])
    /\ \A w \in Workers : WorkerShape(w, work[w])
    /\ QueuesSharded

-----------------------------------------------------------------------------
(***************************************************************************)
(* Leases.                                                                 *)
(***************************************************************************)
LeaseHolders(a) == {p \in Producers : prod[p].pc # "Outside" /\ prod[p].key = a}

WorkerIn(a, steps) == work[Shard[a]].key = a /\ work[Shard[a]].pc \in steps

LeaseInv ==
    /\ \A a \in Actors :
          leases[a] = Cardinality(LeaseHolders(a))
                      + (IF WorkerIn(a, LeasedSteps) THEN 1 ELSE 0)
    /\ \A p \in Producers : prod[p].pc # "Outside" => Registered(prod[p].key)
    /\ \A w \in Workers : work[w].pc \in LeasedSteps => Registered(work[w].key)

-----------------------------------------------------------------------------
(***************************************************************************)
(* The schedule word: its counter and what each phase stands for.          *)
(***************************************************************************)
GateShape(a) ==
    /\ gate[a].phase = "Idle" => gate[a].inFlight = 0
    /\ gate[a].phase = "Admitting" =>
          /\ gate[a].inFlight = 1
          /\ \E p \in Producers : prod[p].key = a /\ prod[p].ticket = "RequiresNewPermit"
    /\ gate[a].phase = "DrainCompleting" => gate[a].inFlight # 0
    /\ gate[a].phase = "Draining" <=> WorkerIn(a, DrainSteps)

GateInv ==
    /\ \A a \in Actors : gate[a].inFlight = Cardinality(TicketHolders(a))
    /\ \A a \in Actors : GateShape(a)
    /\ \A p \in Producers :
          prod[p].ticket = "RequiresNewPermit" => gate[prod[p].key].phase = "Admitting"

-----------------------------------------------------------------------------
(***************************************************************************)
(* Ready tokens.                                                           *)
(***************************************************************************)
InQueue(a) == \E i \in 1 .. Len(ready[Shard[a]]) : ready[Shard[a]][i] = a

OwedByWorker(a) == TokenOwedBy(work[Shard[a]], a)

OwedByProducer(a) == \E p \in Producers : TokenOwedBy(prod[p], a)

HasToken(a) == InQueue(a) \/ WorkerIn(a, {"Lease", "Begin"})
               \/ OwedByWorker(a) \/ OwedByProducer(a)

OneToken(a) ==
    /\ InQueue(a) => ~WorkerIn(a, {"Lease", "Begin"}) /\ ~OwedByWorker(a)
                     /\ ~OwedByProducer(a)
    /\ WorkerIn(a, {"Lease", "Begin"}) => ~OwedByProducer(a)
    /\ OwedByWorker(a) => ~OwedByProducer(a)
    /\ \A p, q \in Producers :
          TokenOwedBy(prod[p], a) /\ TokenOwedBy(prod[q], a) => p = q

QueuesDistinct ==
    \A w \in Workers : \A i, j \in 1 .. Len(ready[w]) :
        ready[w][i] = ready[w][j] => i = j

TokenInv ==
    /\ QueuesDistinct
    /\ \A a \in Actors :
          /\ OneToken(a)
          /\ HasToken(a) => gate[a].phase = "Scheduled"
          /\ Registered(a) /\ gate[a].phase = "Scheduled" => HasToken(a)

-----------------------------------------------------------------------------
(***************************************************************************)
(* Runnable permits.                                                       *)
(***************************************************************************)
ActorUses(w) ==
    {a \in Actors : /\ Shard[a] = w
                    /\ \/ HasToken(a)
                       \/ gate[a].phase \in {"Draining", "DrainCompleting"}}

HoldsPermit(s) ==
    \/ /\ s.ticket = "RequiresNewPermit"
       /\ s.pc # "Permit"
       /\ ~(s.pc = "Complete" /\ s.resolution = "CapacityRejected")
    \/ s.directive = "ReleasePermit"

ProducerUses(w) == {p \in Producers : Shard[prod[p].key] = w /\ HoldsPermit(prod[p])}

PermitInv ==
    \A w \in Workers :
        /\ permits[w] <= MaxAdmittedRunnableActors
        /\ permits[w] = Cardinality(ActorUses(w)) + Cardinality(ProducerUses(w))
                        + (IF work[w].directive = "ReleasePermit" THEN 1 ELSE 0)

-----------------------------------------------------------------------------
(***************************************************************************)
(* Mail.                                                                   *)
(***************************************************************************)
\* A producer that will mark the gate's Pending bit when it completes.
WillMark(p, a) ==
    /\ prod[p].key = a
    /\ \/ prod[p].pc = "Publish"
       \/ prod[p].pc = "Complete" /\ prod[p].resolution = "MailboxCommitted"

\* Whatever is in the lane, the actor will be scheduled again after this drain.
Promised(a, l) ==
    mailbox[a][l] = <<>> \/ gate[a].pending \/ \E p \in Producers : WillMark(p, a)

\* A slot that is reserved and not published is that of a push in progress.
SlotsOwned ==
    \A a \in Actors, l \in Lanes : \A i \in 1 .. Len(mailbox[a][l]) :
        mailbox[a][l][i] # Mail =>
            \E p \in Producers : /\ mailbox[a][l][i] = p
                                 /\ prod[p].pc = "Publish"
                                 /\ prod[p].key = a /\ prod[p].lane = l

IdleIsEmpty ==
    \A a \in Actors : gate[a].phase = "Idle" /\ a \notin drainFailed
        => \A l \in Lanes : mailbox[a][l] = <<>>

AdmittingPromised ==
    \A a \in Actors : gate[a].phase = "Admitting" /\ a \notin drainFailed
        => \A l \in Lanes : mailbox[a][l] = <<>> \/ \E p \in Producers : WillMark(p, a)

\* The worker has found the receive lane without a published head in this round.
ReceiveLanePromised ==
    \A w \in Workers : work[w].pc = "DrainSend" /\ ~work[w].recvDrained
        => Promised(work[w].key, "AcceptRecv")

DrainPromised ==
    \A w \in Workers : work[w].pc = "EndDrain" /\ ~work[w].failed /\ ~work[w].reschedule
        => \A l \in Lanes : Promised(work[w].key, l)

CompletingPromised ==
    \A a \in Actors : gate[a].phase = "DrainCompleting" /\ a \notin drainFailed
        => gate[a].resched \/ \A l \in Lanes : Promised(a, l)

MailInv ==
    /\ SlotsOwned
    /\ IdleIsEmpty
    /\ AdmittingPromised
    /\ ReceiveLanePromised
    /\ DrainPromised
    /\ CompletingPromised

SchedInv == TypeInv /\ Shapes /\ LeaseInv /\ GateInv /\ TokenInv /\ PermitInv /\ MailInv

-----------------------------------------------------------------------------
\* Two subsets that differ at most in x: how their sizes compare.
LEMMA CountStep ==
    ASSUME NEW F, IsFiniteSet(F), NEW S \in SUBSET F, NEW T \in SUBSET F,
           NEW x \in F, \A y \in F : y # x => (y \in S <=> y \in T)
    PROVE  /\ Cardinality(S) \in Nat /\ Cardinality(T) \in Nat
           /\ (x \in S <=> x \in T) => Cardinality(T) = Cardinality(S)
           /\ x \notin S /\ x \in T => Cardinality(T) = Cardinality(S) + 1
           /\ x \in S /\ x \notin T => Cardinality(S) = Cardinality(T) + 1
<1>1. /\ IsFiniteSet(S) /\ IsFiniteSet(T)
      /\ Cardinality(S) \in Nat /\ Cardinality(T) \in Nat
  BY FS_Subset, FS_CardinalityType
<1>2. ASSUME x \in S <=> x \in T PROVE Cardinality(T) = Cardinality(S)
  <2>1. S = T
    BY <1>2
  <2> QED
    BY <2>1
<1>3. ASSUME x \notin S, x \in T PROVE Cardinality(T) = Cardinality(S) + 1
  <2>1. T = S \cup {x}
    BY <1>3
  <2> QED
    BY <1>1, <1>3, <2>1, FS_AddElement
<1>4. ASSUME x \in S, x \notin T PROVE Cardinality(S) = Cardinality(T) + 1
  <2>1. S = T \cup {x}
    BY <1>4
  <2> QED
    BY <1>1, <1>4, <2>1, FS_AddElement
<1> QED
  BY <1>1, <1>2, <1>3, <1>4

\* The counts of the invariant are numbers.
LEMMA CountsAreNumbers ==
    ASSUME NEW a, NEW w
    PROVE  /\ IsFiniteSet(TicketHolders(a)) /\ Cardinality(TicketHolders(a)) \in Nat
           /\ IsFiniteSet(LeaseHolders(a)) /\ Cardinality(LeaseHolders(a)) \in Nat
           /\ IsFiniteSet(ProducerUses(w)) /\ Cardinality(ProducerUses(w)) \in Nat
           /\ IsFiniteSet(ActorUses(w)) /\ Cardinality(ActorUses(w)) \in Nat
<1>1. /\ TicketHolders(a) \in SUBSET Producers /\ LeaseHolders(a) \in SUBSET Producers
      /\ ProducerUses(w) \in SUBSET Producers /\ ActorUses(w) \in SUBSET Actors
  BY DEF TicketHolders, LeaseHolders, ProducerUses, ActorUses
<1>2. IsFiniteSet(Producers) /\ IsFiniteSet(Actors)
  BY SchedulerAssumption
<1>3. /\ IsFiniteSet(TicketHolders(a)) /\ IsFiniteSet(LeaseHolders(a))
      /\ IsFiniteSet(ProducerUses(w)) /\ IsFiniteSet(ActorUses(w))
  BY <1>1, <1>2, FS_Subset
<1> QED
  BY <1>3, FS_CardinalityType

\* What the counter says about the calls in flight.
LEMMA TicketFacts ==
    ASSUME TypeInv, GateInv, NEW a \in Actors
    PROVE  /\ \A p \in TicketHolders(a) : gate[a].inFlight # 0
           /\ gate[a].inFlight = 1 =>
                 \A p, q \in TicketHolders(a) : p = q
           /\ \A p \in TicketHolders(a) :
                 prod[p].ticket = "UsesExistingPermit"
                   => gate[a].phase \notin {"Idle", "Admitting"}
<1>1. /\ IsFiniteSet(TicketHolders(a))
      /\ gate[a].inFlight = Cardinality(TicketHolders(a))
  BY CountsAreNumbers DEF GateInv
<1>2. \A p \in TicketHolders(a) : gate[a].inFlight # 0
  BY <1>1, FS_EmptySet
<1>3. gate[a].inFlight = 1 => \A p, q \in TicketHolders(a) : p = q
  <2> SUFFICES ASSUME gate[a].inFlight = 1 PROVE \A p, q \in TicketHolders(a) : p = q
    OBVIOUS
  <2>1. PICK x : TicketHolders(a) = {x}
    BY <1>1, FS_Singleton
  <2> QED
    BY <2>1
<1>4. ASSUME NEW p \in TicketHolders(a), prod[p].ticket = "UsesExistingPermit"
      PROVE  gate[a].phase \notin {"Idle", "Admitting"}
  <2>1. gate[a].phase # "Idle"
    BY <1>2 DEF GateInv, GateShape
  <2>2. gate[a].phase # "Admitting"
    <3> SUFFICES ASSUME gate[a].phase = "Admitting" PROVE FALSE
      OBVIOUS
    <3>1. PICK q \in Producers : prod[q].key = a /\ prod[q].ticket = "RequiresNewPermit"
      BY DEF GateInv, GateShape
    <3>2. q \in TicketHolders(a) /\ gate[a].inFlight = 1
      BY <3>1 DEF TicketHolders, GateInv, GateShape
    <3>3. p = q
      BY <1>3, <3>2
    <3> QED
      BY <1>4, <3>1, <3>3
  <2> QED
    BY <2>1, <2>2
<1> QED
  BY <1>2, <1>3, <1>4

\* A queue after a push and after a pop.
LEMMA AppendFacts ==
    ASSUME NEW S, NEW q \in Seq(S), NEW x \in S
    PROVE  /\ Len(q) \in Nat /\ Len(Append(q, x)) = Len(q) + 1
           /\ Append(q, x)[Len(q) + 1] = x
           /\ \A i \in 1 .. Len(q) : Append(q, x)[i] = q[i]
           /\ \A i \in 1 .. Len(Append(q, x)) : i = Len(q) + 1 \/ i \in 1 .. Len(q)
  OBVIOUS

\* What a pop leaves behind.
LEMMA TailFacts ==
    ASSUME NEW S, NEW q \in Seq(S), q # <<>>
    PROVE  /\ Len(q) \in Nat \ {0} /\ Len(Tail(q)) = Len(q) - 1
           /\ Head(q) = q[1] /\ 1 \in 1 .. Len(q)
           /\ \A i \in 1 .. Len(Tail(q)) : Tail(q)[i] = q[i + 1] /\ i + 1 \in 1 .. Len(q)
  OBVIOUS

-----------------------------------------------------------------------------
(***************************************************************************)
(* Frames.  Most steps leave most parts of the invariant alone: what a     *)
(* step must not touch for a part to be kept.                              *)
(***************************************************************************)
Keyed ==
    /\ \A p \in Producers : prod[p].key \in Actors /\ prod[p].lane \in Lanes
    /\ \A w \in Workers : work[w].key \in Actors
    /\ \A a \in Actors : Shard[a] \in Workers

\* The keys and shards in the locals of the threads are actors and workers.
LEMMA KeysTyped == TypeInv => Keyed
  BY SchedulerAssumption
  DEF TypeInv, TypeOK, ProducerState, WorkerState, Keyed

\* Nobody takes or returns a lease, and no entry is erased.
SameLeases ==
    /\ leases' = leases
    /\ \A a \in Actors : Registered(a) => Registered(a)'
    /\ \A q \in Producers : /\ prod'[q].pc # "Outside" <=> prod[q].pc # "Outside"
                            /\ prod[q].pc # "Outside" => prod'[q].key = prod[q].key
    /\ \A v \in Workers : /\ work'[v].pc \in LeasedSteps <=> work[v].pc \in LeasedSteps
                          /\ work[v].pc \in LeasedSteps => work'[v].key = work[v].key

\* A step that keeps who is inside a call, and the registry, keeps LeaseInv.
LEMMA LeaseKept ==
    ASSUME Keyed, LeaseInv, SameLeases
    PROVE  LeaseInv'
<1>1. \A a \in Actors : LeaseHolders(a)' = LeaseHolders(a)
  BY DEF SameLeases, LeaseHolders
<1>2. \A a \in Actors : WorkerIn(a, LeasedSteps)' <=> WorkerIn(a, LeasedSteps)
  BY DEF SameLeases, WorkerIn, Keyed
<1>3. \A p \in Producers : prod'[p].pc # "Outside" => Registered(prod[p].key)'
  BY DEF SameLeases, LeaseInv, Keyed
<1>4. \A w \in Workers : work'[w].pc \in LeasedSteps => Registered(work[w].key)'
  BY DEF SameLeases, LeaseInv, Keyed
<1> QED
  BY <1>1, <1>2, <1>3, <1>4 DEF SameLeases, LeaseInv

\* No schedule word changes, nor a ticket, nor the worker that drains.
SameTickets ==
    /\ gate' = gate
    /\ \A q \in Producers : /\ prod'[q].ticket = prod[q].ticket
                            /\ prod[q].ticket # "Rejected" => prod'[q].key = prod[q].key
    /\ \A v \in Workers : /\ work'[v].pc \in DrainSteps <=> work[v].pc \in DrainSteps
                          /\ work[v].pc \in DrainSteps => work'[v].key = work[v].key

\* A step that keeps the words and the tickets keeps GateInv.
LEMMA GateKept ==
    ASSUME Keyed, GateInv, SameTickets
    PROVE  GateInv'
<1>1. \A a \in Actors : TicketHolders(a)' = TicketHolders(a)
  BY DEF SameTickets, TicketHolders
<1>2. \A a \in Actors : WorkerIn(a, DrainSteps)' <=> WorkerIn(a, DrainSteps)
  BY DEF SameTickets, WorkerIn, Keyed
<1>3. \A a \in Actors : GateShape(a)'
  BY <1>2 DEF SameTickets, GateInv, GateShape
<1> QED
  BY <1>1, <1>3 DEF SameTickets, GateInv

\* Tokens stay where they are.
SameTokens ==
    /\ \A w \in Workers : ready'[w] = ready[w]
    /\ \A a \in Actors : gate'[a].phase = "Scheduled" <=> gate[a].phase = "Scheduled"
    /\ \A a \in Actors : Registered(a)' => Registered(a)
    /\ \A q \in Producers :
          /\ prod'[q].directive = "EnqueueReadyToken" <=> prod[q].directive = "EnqueueReadyToken"
          /\ prod[q].directive = "EnqueueReadyToken" => prod'[q].key = prod[q].key
    /\ \A v \in Workers :
          /\ work'[v].directive = "EnqueueReadyToken" <=> work[v].directive = "EnqueueReadyToken"
          /\ work'[v].pc \in {"Lease", "Begin"} <=> work[v].pc \in {"Lease", "Begin"}
          /\ (\/ work[v].directive = "EnqueueReadyToken"
              \/ work[v].pc \in {"Lease", "Begin"}) => work'[v].key = work[v].key

\* A step that keeps the queues, the phases and the debts keeps TokenInv.
LEMMA TokenKept ==
    ASSUME Keyed, TokenInv, SameTokens
    PROVE  TokenInv' /\ \A a \in Actors : HasToken(a)' <=> HasToken(a)
<1>1. \A a \in Actors :
         /\ InQueue(a)' <=> InQueue(a)
         /\ WorkerIn(a, {"Lease", "Begin"})' <=> WorkerIn(a, {"Lease", "Begin"})
         /\ OwedByWorker(a)' <=> OwedByWorker(a)
         /\ \A p \in Producers : TokenOwedBy(prod[p], a)' <=> TokenOwedBy(prod[p], a)
  BY DEF SameTokens, Keyed, InQueue, WorkerIn, OwedByWorker, TokenOwedBy
<1>2. \A a \in Actors : HasToken(a)' <=> HasToken(a)
  BY <1>1 DEF HasToken, OwedByProducer
<1>3. \A a \in Actors : OneToken(a)'
  BY <1>1 DEF TokenInv, OneToken, OwedByProducer
<1>4. \A a \in Actors : /\ HasToken(a)' => gate'[a].phase = "Scheduled"
                        /\ Registered(a)' /\ gate'[a].phase = "Scheduled" => HasToken(a)'
  BY <1>2 DEF SameTokens, TokenInv
<1>5. QueuesDistinct'
  BY DEF SameTokens, TokenInv, QueuesDistinct
<1> QED
  BY <1>2, <1>3, <1>4, <1>5 DEF TokenInv

\* Permits stay with whom they are.
SamePermits ==
    /\ permits' = permits
    /\ \A a \in Actors : /\ HasToken(a)' \/ gate'[a].phase \in {"Draining", "DrainCompleting"}
                         <=> HasToken(a) \/ gate[a].phase \in {"Draining", "DrainCompleting"}
    /\ \A q \in Producers : /\ HoldsPermit(prod[q])' <=> HoldsPermit(prod[q])
                            /\ HoldsPermit(prod[q]) => prod'[q].key = prod[q].key
    /\ \A v \in Workers : work'[v].directive = "ReleasePermit" <=> work[v].directive = "ReleasePermit"

\* A step that keeps the counters and what they stand for keeps PermitInv.
LEMMA PermitKept ==
    ASSUME Keyed, PermitInv, SamePermits
    PROVE  PermitInv'
<1>1. \A w \in Workers : ActorUses(w)' = ActorUses(w)
  BY DEF SamePermits, ActorUses
<1>2. \A w \in Workers : ProducerUses(w)' = ProducerUses(w)
  BY DEF SamePermits, ProducerUses
<1> QED
  BY <1>1, <1>2 DEF SamePermits, PermitInv

\* The mailboxes are left alone, and with them the promises made about them.
SameMail ==
    /\ UNCHANGED <<mailbox, gate, drainFailed>>
    /\ \A q \in Producers :
          /\ prod'[q].pc = "Publish" <=> prod[q].pc = "Publish"
          /\ \A a \in Actors : WillMark(q, a) => WillMark(q, a)'
          /\ prod[q].pc = "Publish" => /\ prod'[q].key = prod[q].key
                                       /\ prod'[q].lane = prod[q].lane
    /\ \A v \in Workers : work'[v].pc \in {"DrainSend", "EndDrain"} =>
          /\ work'[v].pc = work[v].pc
          /\ work'[v].key = work[v].key
          /\ work'[v].recvDrained = work[v].recvDrained
          /\ work'[v].failed = work[v].failed
          /\ work'[v].reschedule = work[v].reschedule

\* A step that keeps the lanes and the promises keeps MailInv.
LEMMA MailKept ==
    ASSUME Keyed, MailInv, SameMail
    PROVE  MailInv'
<1>1. \A a \in Actors, l \in Lanes : Promised(a, l) => Promised(a, l)'
  BY DEF SameMail, Promised
<1>2. SlotsOwned'
  BY DEF SameMail, MailInv, SlotsOwned
<1>3. IdleIsEmpty' /\ AdmittingPromised' /\ CompletingPromised'
  BY <1>1
  DEF SameMail, MailInv, IdleIsEmpty, AdmittingPromised, CompletingPromised
<1>4. ReceiveLanePromised' /\ DrainPromised'
  BY <1>1 DEF SameMail, MailInv, ReceiveLanePromised, DrainPromised, Keyed, Lanes
<1> QED
  BY <1>2, <1>3, <1>4 DEF MailInv

-----------------------------------------------------------------------------
RestSteps == {"Pop", "Wait", "Sleep", "Asleep", "Exited"}

\* The steps by which no thread moves mail, tokens, permits or leases: a worker
\* goes to sleep or is woken, a producer has woken one or gives up at a stop.
Quiet ==
    /\ UNCHANGED <<gate, mailbox, permits, ready, lifecycle, leases, drainFailed>>
    /\ \A q \in Producers :
          /\ prod'[q].key = prod[q].key /\ prod'[q].lane = prod[q].lane
          /\ prod'[q].ticket = prod[q].ticket
          /\ prod'[q].resolution = prod[q].resolution
          /\ prod'[q].directive = prod[q].directive
          /\ \/ prod'[q].pc = prod[q].pc
             \/ prod[q].pc \in {"Admit", "Wake"} /\ prod'[q].pc = "Leave"
    /\ \A v \in Workers :
          /\ work'[v].key = work[v].key
          /\ work'[v].recvDrained = work[v].recvDrained
          /\ work'[v].reschedule = work[v].reschedule
          /\ work'[v].failed = work[v].failed
          /\ work'[v].directive = work[v].directive
          /\ \/ work'[v].pc = work[v].pc
             \/ work[v].pc \in RestSteps /\ work'[v].pc \in RestSteps

-----------------------------------------------------------------------------
\* A quiet step of one thread keeps everything.
LEMMA QuietKeeps ==
    ASSUME SchedInv, TypeInv', Quiet
    PROVE  SchedInv'
<1>1. /\ Keyed /\ Shapes /\ LeaseInv /\ GateInv /\ TokenInv /\ PermitInv /\ MailInv
  BY KeysTyped DEF SchedInv
<1>2. Shapes'
  BY <1>1 DEF Quiet, Shapes, QueuesSharded, ProducerShape, WorkerShape, TicketSteps, LeasedSteps,
              DrainSteps, RestSteps
<1>3. LeaseInv'
  BY <1>1, LeaseKept
  DEF Quiet, SameLeases, Registered, LeasedSteps, DrainSteps, RestSteps
<1>4. GateInv'
  BY <1>1, GateKept DEF Quiet, SameTickets, DrainSteps, RestSteps
<1>5. TokenInv' /\ \A a \in Actors : HasToken(a)' <=> HasToken(a)
  <2>1. SameTokens
    BY DEF Quiet, SameTokens, Registered, RestSteps
  <2> QED
    BY <1>1, <2>1, TokenKept
<1>6. PermitInv'
  BY <1>1, <1>5, PermitKept DEF Quiet, SamePermits, HoldsPermit
<1>7. MailInv'
  <2>1. SameMail
    BY DEF Quiet, SameMail, WillMark, RestSteps
  <2> QED
    BY <1>1, <2>1, MailKept
<1> QED
  BY <1>2, <1>3, <1>4, <1>5, <1>6, <1>7 DEF SchedInv

\* Enqueue finds its actor and takes a lease, or rejects the event.
LEMMA EnqueueKeeps ==
    ASSUME SchedInv, TypeInv', NEW p \in Producers, NEW a \in Actors,
           NEW l \in Lanes, Enqueue(p, a, l)
    PROVE  SchedInv'
<1>1. /\ Keyed /\ Shapes /\ LeaseInv /\ GateInv /\ TokenInv /\ PermitInv /\ MailInv
      /\ TypeInv
  BY KeysTyped DEF SchedInv
<1>2. /\ prod[p].pc = "Outside" /\ Registered(a)
      /\ prod'[p].pc = "Admit" /\ prod'[p].key = a
      /\ prod'[p].ticket = "Rejected" /\ prod'[p].directive = "NoAction"
      /\ \A q \in Producers : q # p => prod'[q] = prod[q]
  <2>1. prod \in [Producers -> ProducerState]
    BY <1>1 DEF TypeInv, TypeOK
  <2> QED
    BY <2>1 DEF Enqueue, SetProducer, ProducerAt, IdleProducer
<1>3. /\ \A b \in Actors : leases'[b] = IF b = a THEN leases[b] + 1 ELSE leases[b]
      /\ UNCHANGED <<gate, mailbox, permits, ready, lifecycle, work, drainFailed>>
  BY <1>1 DEF Enqueue, AcquireLease, TypeInv, TypeOK
<1>4. prod[p].ticket = "Rejected" /\ prod[p].directive = "NoAction"
  BY <1>1, <1>2 DEF Shapes, QueuesSharded, ProducerShape, TicketSteps
<1>5. Shapes'
  BY <1>1, <1>2, <1>3 DEF Shapes, QueuesSharded, ProducerShape, TicketSteps
<1>6. LeaseInv'
  <2>1. \A b \in Actors : leases'[b] = Cardinality(LeaseHolders(b)')
                          + (IF WorkerIn(b, LeasedSteps)' THEN 1 ELSE 0)
    <3> SUFFICES ASSUME NEW b \in Actors
                 PROVE  leases'[b] = Cardinality(LeaseHolders(b)')
                          + (IF WorkerIn(b, LeasedSteps)' THEN 1 ELSE 0)
      OBVIOUS
    <3>1. Cardinality(LeaseHolders(b)') = Cardinality(LeaseHolders(b))
                                          + (IF b = a THEN 1 ELSE 0)
      <4>1. /\ LeaseHolders(b) \in SUBSET Producers /\ LeaseHolders(b)' \in SUBSET Producers
            /\ \A q \in Producers : q # p => (q \in LeaseHolders(b) <=> q \in LeaseHolders(b)')
            /\ p \notin LeaseHolders(b) /\ (p \in LeaseHolders(b)' <=> b = a)
        BY <1>2 DEF LeaseHolders
      <4> QED
        BY <4>1, CountStep, SchedulerAssumption
    <3>2. WorkerIn(b, LeasedSteps)' <=> WorkerIn(b, LeasedSteps)
      BY <1>3 DEF WorkerIn
    <3>3. Cardinality(LeaseHolders(b)) \in Nat
      BY CountsAreNumbers
    <3> QED
      BY <1>1, <1>3, <3>1, <3>2, <3>3 DEF LeaseInv
  <2> QED
    BY <1>1, <1>2, <1>3, <2>1 DEF LeaseInv, Registered
<1>7. GateInv'
  BY <1>1, <1>2, <1>3, <1>4, GateKept DEF SameTickets
<1>8. TokenInv' /\ \A b \in Actors : HasToken(b)' <=> HasToken(b)
  <2>1. SameTokens
    BY <1>2, <1>3, <1>4 DEF SameTokens, Registered
  <2> QED
    BY <1>1, <2>1, TokenKept
<1>9. PermitInv'
  BY <1>1, <1>2, <1>3, <1>4, <1>8, PermitKept DEF SamePermits, HoldsPermit
<1>10. MailInv'
  <2>1. SameMail
    BY <1>2, <1>3 DEF SameMail, WillMark
  <2> QED
    BY <1>1, <2>1, MailKept
<1> QED
  BY <1>5, <1>6, <1>7, <1>8, <1>9, <1>10 DEF SchedInv

\* Enqueue returns.
LEMMA ProducerReleasesLeaseKeeps ==
    ASSUME SchedInv, TypeInv', NEW p \in Producers, ProducerReleasesLease(p)
    PROVE  SchedInv'
<1> DEFINE a == prod[p].key
<1>1. /\ Keyed /\ Shapes /\ LeaseInv /\ GateInv /\ TokenInv /\ PermitInv /\ MailInv
      /\ TypeInv /\ a \in Actors
  BY KeysTyped DEF SchedInv, Keyed
<1>2. /\ prod[p].pc = "Leave" /\ prod'[p].pc = "Outside"
      /\ prod'[p].ticket = "Rejected" /\ prod'[p].directive = "NoAction"
      /\ \A q \in Producers : q # p => prod'[q] = prod[q]
  <2>1. prod \in [Producers -> ProducerState]
    BY <1>1 DEF TypeInv, TypeOK
  <2> QED
    BY <2>1 DEF ProducerReleasesLease, SetProducer, ProducerAt, IdleProducer
<1>3. /\ \A b \in Actors : leases[b] \in Nat
      /\ \A b \in Actors : b # a => leases'[b] = leases[b]
      /\ leases[a] # 0 => leases'[a] = leases[a] - 1
      /\ UNCHANGED <<gate, mailbox, permits, ready, lifecycle, work, drainFailed>>
  <2>1. leases \in [Actors -> Nat]
    BY <1>1 DEF TypeInv, TypeOK
  <2> QED
    BY <1>1, <2>1 DEF ProducerReleasesLease, ReleaseLease
<1>4. prod[p].ticket = "Rejected" /\ prod[p].directive = "NoAction"
  BY <1>1, <1>2 DEF Shapes, QueuesSharded, ProducerShape, TicketSteps
<1>5. Shapes'
  BY <1>1, <1>2, <1>3 DEF Shapes, QueuesSharded, ProducerShape, TicketSteps
<1>6. LeaseInv'
  <2>1. \A b \in Actors : leases'[b] = Cardinality(LeaseHolders(b)')
                          + (IF WorkerIn(b, LeasedSteps)' THEN 1 ELSE 0)
    <3> SUFFICES ASSUME NEW b \in Actors
                 PROVE  leases'[b] = Cardinality(LeaseHolders(b)')
                          + (IF WorkerIn(b, LeasedSteps)' THEN 1 ELSE 0)
      OBVIOUS
    <3>1. /\ Cardinality(LeaseHolders(b)) = Cardinality(LeaseHolders(b)')
                                            + (IF b = a THEN 1 ELSE 0)
          /\ Cardinality(LeaseHolders(b)') \in Nat
      <4>1. /\ LeaseHolders(b) \in SUBSET Producers /\ LeaseHolders(b)' \in SUBSET Producers
            /\ \A q \in Producers : q # p => (q \in LeaseHolders(b) <=> q \in LeaseHolders(b)')
            /\ p \notin LeaseHolders(b)' /\ (p \in LeaseHolders(b) <=> b = a)
        BY <1>2 DEF LeaseHolders
      <4> QED
        BY <4>1, CountStep, SchedulerAssumption
    <3>2. WorkerIn(b, LeasedSteps)' <=> WorkerIn(b, LeasedSteps)
      BY <1>3 DEF WorkerIn
    <3>3. leases[b] = Cardinality(LeaseHolders(b))
                      + (IF WorkerIn(b, LeasedSteps) THEN 1 ELSE 0)
      BY <1>1 DEF LeaseInv
    <3> QED
      BY <1>1, <1>3, <3>1, <3>2, <3>3
  <2> QED
    BY <1>1, <1>2, <1>3, <2>1 DEF LeaseInv, Registered
<1>7. GateInv'
  BY <1>1, <1>2, <1>3, <1>4, GateKept DEF SameTickets
<1>8. TokenInv' /\ \A b \in Actors : HasToken(b)' <=> HasToken(b)
  <2>1. SameTokens
    BY <1>2, <1>3, <1>4 DEF SameTokens, Registered
  <2> QED
    BY <1>1, <2>1, TokenKept
<1>9. PermitInv'
  BY <1>1, <1>2, <1>3, <1>4, <1>8, PermitKept DEF SamePermits, HoldsPermit
<1>10. MailInv'
  <2>1. SameMail
    BY <1>2, <1>3 DEF SameMail, WillMark
  <2> QED
    BY <1>1, <2>1, MailKept
<1> QED
  BY <1>5, <1>6, <1>7, <1>8, <1>9, <1>10 DEF SchedInv

\* A worker inside a drain is draining the actor of its key.
LEMMA DrainFacts ==
    ASSUME Keyed, Shapes, GateInv, NEW w \in Workers, work[w].pc \in DrainSteps
    PROVE  gate[work[w].key].phase = "Draining" /\ Shard[work[w].key] = w
  BY DEF Keyed, Shapes, WorkerShape, LeasedSteps, GateInv, GateShape, WorkerIn

\* TryBeginAdmission: a new ticket, and Admitting for an actor at rest.
LEMMA BeginAdmissionKeeps ==
    ASSUME SchedInv, TypeInv', NEW p \in Producers, BeginAdmission(p)
    PROVE  SchedInv'
<1> DEFINE a == prod[p].key
<1>1. /\ Keyed /\ Shapes /\ LeaseInv /\ GateInv /\ TokenInv /\ PermitInv /\ MailInv
      /\ TypeInv /\ a \in Actors
  BY KeysTyped DEF SchedInv, Keyed
<1>t. /\ prod \in [Producers -> ProducerState] /\ prod[p] \in ProducerState
      /\ gate \in [Actors -> GateWord] /\ gate[a] \in GateWord
  BY <1>1 DEF TypeInv, TypeOK
<1>2. /\ prod[p].pc = "Admit"
      /\ \A q \in Producers : q # p => prod'[q] = prod[q]
      /\ UNCHANGED <<mailbox, permits, ready, lifecycle, leases, work, drainFailed>>
  <2>1. \E s : SetProducer(p, s)
    BY DEF BeginAdmission
  <2> QED
    BY <1>t, <2>1 DEF BeginAdmission, SetProducer, ProducerAt, registryVars
<1>3. prod[p].ticket = "Rejected" /\ prod[p].directive = "NoAction"
  BY <1>1, <1>2 DEF Shapes, QueuesSharded, ProducerShape, TicketSteps
<1>4. CASE stop
  <2> DEFINE s == [prod[p] EXCEPT !.pc = "Leave"]
  <2>1. gate' = gate /\ prod'[p] = s
    BY <1>4, <1>t DEF BeginAdmission, SetProducer
  <2>a. /\ s.pc = "Leave" /\ s.key = a /\ s.lane = prod[p].lane
        /\ s.ticket = prod[p].ticket /\ s.directive = prod[p].directive
        /\ s.resolution = prod[p].resolution
    BY <1>t DEF ProducerState
  <2>2. Quiet
    BY <1>2, <2>1, <2>a DEF Quiet
  <2> QED
    BY <2>2, QuietKeeps
<1>5. CASE ~stop
  <2> DEFINE idle == gate[a].phase = "Idle"
  <2>1. /\ gate[a].phase # "Admitting"
        /\ prod'[p].key = a /\ prod'[p].lane = prod[p].lane
        /\ prod'[p].directive = prod[p].directive
        /\ prod'[p].pc = IF idle THEN "Permit" ELSE "Reserve"
        /\ prod'[p].ticket = IF idle THEN "RequiresNewPermit" ELSE "UsesExistingPermit"
        /\ \A b \in Actors : b # a => gate'[b] = gate[b]
        /\ gate'[a].phase = IF idle THEN "Admitting" ELSE gate[a].phase
        /\ gate'[a].inFlight = IF idle THEN 1 ELSE gate[a].inFlight + 1
        /\ ~idle => gate'[a].pending = gate[a].pending /\ gate'[a].resched = gate[a].resched
    <3> DEFINE s == [prod[p] EXCEPT
                       !.ticket = AdmissionDecision(gate[a]),
                       !.pc = IF gate[a].phase = "Idle" THEN "Permit" ELSE "Reserve"]
               g == TryBeginAdmission(gate[a])
    <3>1. /\ CanBeginAdmission(gate[a]) /\ SetProducer(p, s)
          /\ gate' = [gate EXCEPT ![a] = g]
      BY <1>5 DEF BeginAdmission
    <3>2. prod'[p] = s /\ gate'[a] = g /\ \A b \in Actors : b # a => gate'[b] = gate[b]
      BY <1>1, <1>t, <3>1 DEF SetProducer
    <3>3. /\ s.key = a /\ s.lane = prod[p].lane /\ s.directive = prod[p].directive
          /\ s.pc = IF idle THEN "Permit" ELSE "Reserve"
          /\ s.ticket = IF idle THEN "RequiresNewPermit" ELSE "UsesExistingPermit"
      BY <1>t DEF ProducerState, AdmissionDecision
    <3>4. /\ g.phase = IF idle THEN "Admitting" ELSE gate[a].phase
          /\ g.inFlight = IF idle THEN 1 ELSE gate[a].inFlight + 1
          /\ ~idle => g.pending = gate[a].pending /\ g.resched = gate[a].resched
      BY <1>t DEF GateWord, TryBeginAdmission, ClearDrainFlags
    <3> QED
      BY <3>1, <3>2, <3>3, <3>4 DEF CanBeginAdmission
  <2>2. Shapes'
    BY <1>1, <1>2, <1>3, <2>1 DEF Shapes, QueuesSharded, ProducerShape, TicketSteps
  <2>3. LeaseInv'
    BY <1>1, <1>2, <2>1, LeaseKept DEF SameLeases, Registered
  <2>4. GateInv'
    <3>1. ASSUME NEW b \in Actors
          PROVE  gate'[b].inFlight = Cardinality(TicketHolders(b)')
      <4>1. /\ TicketHolders(b) \in SUBSET Producers /\ TicketHolders(b)' \in SUBSET Producers
            /\ \A q \in Producers : q # p => (q \in TicketHolders(b) <=> q \in TicketHolders(b)')
            /\ p \notin TicketHolders(b) /\ (p \in TicketHolders(b)' <=> b = a)
        BY <1>2, <1>3, <2>1 DEF TicketHolders
      <4>2. Cardinality(TicketHolders(b)') = Cardinality(TicketHolders(b))
                                             + (IF b = a THEN 1 ELSE 0)
        BY <4>1, CountStep, SchedulerAssumption
      <4>3. gate[b].inFlight = Cardinality(TicketHolders(b))
        BY <1>1 DEF GateInv
      <4>4. gate[b].phase = "Idle" => gate[b].inFlight = 0
        BY <1>1 DEF GateInv, GateShape
      <4>5. Cardinality(TicketHolders(b)) \in Nat
        BY CountsAreNumbers
      <4> QED
        BY <2>1, <4>2, <4>3, <4>4, <4>5
    <3>2. ASSUME NEW b \in Actors PROVE GateShape(b)'
      <4>1. GateShape(b) /\ (WorkerIn(b, DrainSteps)' <=> WorkerIn(b, DrainSteps))
        BY <1>1, <1>2 DEF GateInv, WorkerIn
      <4>2. gate[a].inFlight \in Nat
        BY <1>t DEF GateWord
      <4> QED
        BY <1>2, <1>3, <2>1, <4>1, <4>2 DEF GateShape
    <3>3. ASSUME NEW q \in Producers, prod'[q].ticket = "RequiresNewPermit"
          PROVE  gate'[prod'[q].key].phase = "Admitting"
      BY <1>1, <1>2, <2>1, <3>3 DEF GateInv, Keyed
    <3> QED
      BY <3>1, <3>2, <3>3 DEF GateInv
  <2>5. TokenInv' /\ \A b \in Actors : HasToken(b)' <=> HasToken(b)
    <3>1. SameTokens
      BY <1>2, <1>3, <2>1 DEF SameTokens, Registered
    <3> QED
      BY <1>1, <3>1, TokenKept
  <2>6. PermitInv'
    <3>1. SamePermits
      BY <1>2, <1>3, <2>1, <2>5 DEF SamePermits, HoldsPermit
    <3> QED
      BY <1>1, <3>1, PermitKept
  <2>7. MailInv'
    <3>1. \A q \in Producers, b \in Actors : WillMark(q, b) => WillMark(q, b)'
      BY <1>2, <2>1 DEF WillMark
    <3>2. \A b \in Actors, l \in Lanes :
             Promised(b, l) /\ (b # a \/ gate[a].phase # "Idle") => Promised(b, l)'
      BY <1>2, <2>1, <3>1 DEF Promised
    <3>3. SlotsOwned'
      BY <1>1, <1>2 DEF MailInv, SlotsOwned
    <3>4. IdleIsEmpty' /\ AdmittingPromised' /\ CompletingPromised'
      BY <1>1, <1>2, <2>1, <3>1, <3>2
      DEF MailInv, IdleIsEmpty, AdmittingPromised, CompletingPromised
    <3>5. ReceiveLanePromised' /\ DrainPromised'
      BY <1>1, <1>2, <3>2, DrainFacts
      DEF MailInv, ReceiveLanePromised, DrainPromised, Keyed, Lanes, DrainSteps
    <3> QED
      BY <3>3, <3>4, <3>5 DEF MailInv
  <2> QED
    BY <2>2, <2>3, <2>4, <2>5, <2>6, <2>7 DEF SchedInv
<1> QED
  BY <1>4, <1>5

\* The permit of a new admission, or a capacity rejection.
LEMMA TryAcquireRunnablePermitKeeps ==
    ASSUME SchedInv, TypeInv', NEW p \in Producers, TryAcquireRunnablePermit(p)
    PROVE  SchedInv'
<1> DEFINE a == prod[p].key
           free == permits[Shard[a]] < MaxAdmittedRunnableActors
<1>1. /\ Keyed /\ Shapes /\ LeaseInv /\ GateInv /\ TokenInv /\ PermitInv /\ MailInv
      /\ TypeInv /\ a \in Actors /\ Shard[a] \in Workers
  BY KeysTyped DEF SchedInv, Keyed
<1>t. /\ prod \in [Producers -> ProducerState] /\ prod[p] \in ProducerState
      /\ permits \in [Workers -> Nat]
  BY <1>1 DEF TypeInv, TypeOK
<1>2. /\ prod[p].pc = "Permit"
      /\ prod' = [prod EXCEPT ![p] =
                    IF free THEN [prod[p] EXCEPT !.pc = "Reserve"]
                    ELSE [prod[p] EXCEPT !.resolution = "CapacityRejected",
                                         !.pc = "Complete"]]
      /\ permits' = [permits EXCEPT ![Shard[a]] = IF free THEN @ + 1 ELSE @]
      /\ UNCHANGED <<gate, mailbox, ready, lifecycle, leases, work, drainFailed>>
  BY <1>t DEF TryAcquireRunnablePermit, SetProducer, ProducerAt, registryVars
<1>3. /\ prod'[p].key = a /\ prod'[p].lane = prod[p].lane
      /\ prod'[p].ticket = prod[p].ticket
      /\ prod'[p].directive = prod[p].directive
      /\ prod'[p].pc = IF free THEN "Reserve" ELSE "Complete"
      /\ ~free => prod'[p].resolution = "CapacityRejected"
      /\ \A q \in Producers : q # p => prod'[q] = prod[q]
  BY <1>t, <1>2 DEF ProducerState
<1>4. /\ prod[p].ticket = "RequiresNewPermit" /\ prod[p].directive = "NoAction"
  BY <1>1, <1>2 DEF Shapes, ProducerShape
<1>5. Shapes'
  BY <1>1, <1>2, <1>3, <1>4 DEF Shapes, QueuesSharded, ProducerShape, TicketSteps
<1>6. LeaseInv'
  BY <1>1, <1>2, <1>3, LeaseKept DEF SameLeases, Registered
<1>7. GateInv'
  BY <1>1, <1>2, <1>3, GateKept DEF SameTickets
<1>8. TokenInv' /\ \A b \in Actors : HasToken(b)' <=> HasToken(b)
  <2>1. SameTokens
    BY <1>2, <1>3 DEF SameTokens, Registered
  <2> QED
    BY <1>1, <2>1, TokenKept
<1>9. PermitInv'
  <2> SUFFICES ASSUME NEW w \in Workers
               PROVE  /\ permits'[w] <= MaxAdmittedRunnableActors
                      /\ permits'[w] = Cardinality(ActorUses(w)') + Cardinality(ProducerUses(w)')
                           + (IF work'[w].directive = "ReleasePermit" THEN 1 ELSE 0)
    BY DEF PermitInv
  <2>1. ActorUses(w)' = ActorUses(w)
    BY <1>2, <1>8 DEF ActorUses
  <2>2. Cardinality(ProducerUses(w)') = Cardinality(ProducerUses(w))
                                        + (IF free /\ w = Shard[a] THEN 1 ELSE 0)
    <3>1. /\ ProducerUses(w) \in SUBSET Producers /\ ProducerUses(w)' \in SUBSET Producers
          /\ \A q \in Producers : q # p => (q \in ProducerUses(w) <=> q \in ProducerUses(w)')
          /\ p \notin ProducerUses(w)
          /\ p \in ProducerUses(w)' <=> free /\ w = Shard[a]
      BY <1>2, <1>3, <1>4 DEF ProducerUses, HoldsPermit
    <3> QED
      BY <3>1, CountStep, SchedulerAssumption
  <2>3. /\ permits[w] <= MaxAdmittedRunnableActors
        /\ permits[w] = Cardinality(ActorUses(w)) + Cardinality(ProducerUses(w))
                        + (IF work[w].directive = "ReleasePermit" THEN 1 ELSE 0)
    BY <1>1 DEF PermitInv
  <2>4. permits'[w] = permits[w] + (IF free /\ w = Shard[a] THEN 1 ELSE 0)
    BY <1>1, <1>2, <1>t
  <2>5. Cardinality(ActorUses(w)) \in Nat /\ Cardinality(ProducerUses(w)) \in Nat
    BY CountsAreNumbers
  <2> QED
    BY <1>2, <2>1, <2>2, <2>3, <2>4, <2>5, SchedulerAssumption
<1>10. MailInv'
  <2>1. SameMail
    BY <1>2, <1>3 DEF SameMail, WillMark
  <2> QED
    BY <1>1, <2>1, MailKept
<1> QED
  BY <1>5, <1>6, <1>7, <1>8, <1>9, <1>10 DEF SchedInv

\* A slot in the lane, or a full lane.
LEMMA ReserveMailboxSlotKeeps ==
    ASSUME SchedInv, TypeInv', NEW p \in Producers, ReserveMailboxSlot(p)
    PROVE  SchedInv'
<1> DEFINE a == prod[p].key
           l == prod[p].lane
           room == Len(mailbox[a][l]) < MailboxCapacity
<1>1. /\ Keyed /\ Shapes /\ LeaseInv /\ GateInv /\ TokenInv /\ PermitInv /\ MailInv
      /\ TypeInv /\ a \in Actors /\ l \in Lanes
  BY KeysTyped DEF SchedInv, Keyed
<1>t. /\ prod \in [Producers -> ProducerState] /\ prod[p] \in ProducerState
      /\ mailbox \in [Actors -> [Lanes -> Seq(Producers \cup {Mail})]]
  BY <1>1 DEF TypeInv, TypeOK
<1>2. /\ prod[p].pc = "Reserve"
      /\ prod' = [prod EXCEPT ![p] =
                    IF room THEN [prod[p] EXCEPT !.pc = "Publish"]
                    ELSE [prod[p] EXCEPT !.resolution = "MailboxRejected",
                                         !.pc = "Complete"]]
      /\ IF room THEN mailbox' = [mailbox EXCEPT ![a][l] = Append(mailbox[a][l], p)]
                 ELSE mailbox' = mailbox
      /\ UNCHANGED <<gate, permits, ready, lifecycle, leases, work, drainFailed>>
  BY <1>t DEF ReserveMailboxSlot, SetProducer, ProducerAt, registryVars
<1>3. /\ prod'[p].key = a /\ prod'[p].lane = l
      /\ prod'[p].ticket = prod[p].ticket
      /\ prod'[p].directive = prod[p].directive
      /\ prod'[p].pc = IF room THEN "Publish" ELSE "Complete"
      /\ ~room => prod'[p].resolution = "MailboxRejected"
      /\ \A q \in Producers : q # p => prod'[q] = prod[q]
  BY <1>t, <1>2 DEF ProducerState
<1>4. prod[p].ticket # "Rejected" /\ prod[p].directive = "NoAction"
  BY <1>1, <1>2 DEF Shapes, QueuesSharded, ProducerShape, TicketSteps
<1>5. Shapes'
  BY <1>1, <1>2, <1>3, <1>4 DEF Shapes, QueuesSharded, ProducerShape, TicketSteps
<1>6. LeaseInv'
  BY <1>1, <1>2, <1>3, LeaseKept DEF SameLeases, Registered
<1>7. GateInv'
  BY <1>1, <1>2, <1>3, GateKept DEF SameTickets
<1>8. TokenInv' /\ \A b \in Actors : HasToken(b)' <=> HasToken(b)
  <2>1. SameTokens
    BY <1>2, <1>3 DEF SameTokens, Registered
  <2> QED
    BY <1>1, <2>1, TokenKept
<1>9. PermitInv'
  <2>1. SamePermits
    BY <1>2, <1>3, <1>4, <1>8 DEF SamePermits, HoldsPermit
  <2> QED
    BY <1>1, <2>1, PermitKept
<1>10. MailInv'
  <2>1. CASE room
    <3>1. \A b \in Actors, k \in Lanes : b # a \/ k # l => mailbox'[b][k] = mailbox[b][k]
      BY <1>t, <1>1, <1>2, <2>1
    <3>2. mailbox'[a][l] = Append(mailbox[a][l], p)
      BY <1>t, <1>1, <1>2, <2>1
    <3>3. \A q \in Producers, b \in Actors : WillMark(q, b) => WillMark(q, b)'
      BY <1>2, <1>3 DEF WillMark
    <3>4. WillMark(p, a)'
      BY <1>3, <2>1 DEF WillMark
    <3>5. \A b \in Actors, k \in Lanes : Promised(b, k) => Promised(b, k)'
      BY <1>2, <3>1, <3>3, <3>4 DEF Promised
    <3>6. gate[a].phase # "Idle"
      <4>1. p \in TicketHolders(a)
        BY <1>4 DEF TicketHolders
      <4> QED
        BY <1>1, <4>1, TicketFacts DEF GateInv, GateShape
    <3>7. SlotsOwned'
      <4> SUFFICES ASSUME NEW b \in Actors, NEW k \in Lanes,
                          NEW i \in 1 .. Len(mailbox'[b][k]), mailbox'[b][k][i] # Mail
                   PROVE  \E q \in Producers : /\ mailbox'[b][k][i] = q
                                               /\ prod'[q].pc = "Publish"
                                               /\ prod'[q].key = b /\ prod'[q].lane = k
        BY DEF SlotsOwned
      <4>a. mailbox[a][l] \in Seq(Producers \cup {Mail})
        BY <1>t, <1>1
      <4>b. /\ mailbox'[a][l][Len(mailbox[a][l]) + 1] = p
            /\ \A j \in 1 .. Len(mailbox[a][l]) : mailbox'[a][l][j] = mailbox[a][l][j]
            /\ \A j \in 1 .. Len(mailbox'[a][l]) :
                  j = Len(mailbox[a][l]) + 1 \/ j \in 1 .. Len(mailbox[a][l])
        <5> DEFINE q == mailbox[a][l]
        <5>1. p \in Producers \cup {Mail} /\ q \in Seq(Producers \cup {Mail})
          BY <4>a
        <5>2. /\ Append(q, p)[Len(q) + 1] = p
              /\ \A j \in 1 .. Len(q) : Append(q, p)[j] = q[j]
              /\ \A j \in 1 .. Len(Append(q, p)) : j = Len(q) + 1 \/ j \in 1 .. Len(q)
          <6> HIDE DEF q
          <6> QED
            BY <5>1, AppendFacts
        <5>3. mailbox'[a][l] = Append(q, p)
          BY <3>2
        <5> QED
          BY <5>2, <5>3, Zenon
      <4>1. CASE b = a /\ k = l /\ i = Len(mailbox[a][l]) + 1
        <5>1. mailbox'[b][k][i] = p
          BY <4>b, <4>1
        <5> QED
          BY <1>3, <2>1, <4>1, <5>1
      <4>2. CASE ~(b = a /\ k = l /\ i = Len(mailbox[a][l]) + 1)
        <5>1. i \in 1 .. Len(mailbox[b][k]) /\ mailbox'[b][k][i] = mailbox[b][k][i]
          <6>1. CASE b = a /\ k = l
            BY <4>b, <4>2, <6>1
          <6>2. CASE ~(b = a /\ k = l)
            BY <3>1, <6>2
          <6> QED
            BY <6>1, <6>2
        <5>2. PICK q \in Producers : /\ mailbox[b][k][i] = q /\ prod[q].pc = "Publish"
                                     /\ prod[q].key = b /\ prod[q].lane = k
          BY <1>1, <5>1 DEF MailInv, SlotsOwned
        <5> QED
          BY <1>2, <1>3, <5>1, <5>2
      <4> QED
        BY <4>1, <4>2
    <3>8. IdleIsEmpty'
      BY <1>1, <1>2, <3>1, <3>6 DEF MailInv, IdleIsEmpty
    <3>9. AdmittingPromised' /\ CompletingPromised'
      BY <1>1, <1>2, <3>1, <3>3, <3>4, <3>5
      DEF MailInv, AdmittingPromised, CompletingPromised
    <3>10. ReceiveLanePromised' /\ DrainPromised'
      BY <1>1, <1>2, <3>5 DEF MailInv, ReceiveLanePromised, DrainPromised, Keyed, Lanes
    <3> QED
      BY <3>7, <3>8, <3>9, <3>10 DEF MailInv
  <2>2. CASE ~room
    <3>1. SameMail
      BY <1>2, <1>3, <2>2 DEF SameMail, WillMark
    <3> QED
      BY <1>1, <3>1, MailKept
  <2> QED
    BY <2>1, <2>2
<1> QED
  BY <1>5, <1>6, <1>7, <1>8, <1>9, <1>10 DEF SchedInv

\* The reserved slot becomes a mail; the Pending mark is still to come.
LEMMA PublishMailboxSlotKeeps ==
    ASSUME SchedInv, TypeInv', NEW p \in Producers, PublishMailboxSlot(p)
    PROVE  SchedInv'
<1> DEFINE a == prod[p].key
           l == prod[p].lane
           slots == mailbox[a][l]
           published == [i \in 1 .. Len(slots) |-> IF slots[i] = p THEN Mail ELSE slots[i]]
<1>1. /\ Keyed /\ Shapes /\ LeaseInv /\ GateInv /\ TokenInv /\ PermitInv /\ MailInv
      /\ TypeInv /\ a \in Actors /\ l \in Lanes
  BY KeysTyped DEF SchedInv, Keyed
<1>t. /\ prod \in [Producers -> ProducerState] /\ prod[p] \in ProducerState
      /\ mailbox \in [Actors -> [Lanes -> Seq(Producers \cup {Mail})]]
  BY <1>1 DEF TypeInv, TypeOK
<1>2. /\ prod[p].pc = "Publish"
      /\ prod' = [prod EXCEPT ![p] = [prod[p] EXCEPT !.resolution = "MailboxCommitted",
                                                     !.pc = "Complete"]]
      /\ mailbox' = [mailbox EXCEPT ![a][l] = published]
      /\ UNCHANGED <<gate, permits, ready, lifecycle, leases, work, drainFailed>>
  BY <1>t DEF PublishMailboxSlot, SetProducer, ProducerAt, registryVars
<1>3. /\ prod'[p].key = a /\ prod'[p].lane = l
      /\ prod'[p].ticket = prod[p].ticket
      /\ prod'[p].directive = prod[p].directive
      /\ prod'[p].pc = "Complete" /\ prod'[p].resolution = "MailboxCommitted"
      /\ \A q \in Producers : q # p => prod'[q] = prod[q]
  BY <1>t, <1>2 DEF ProducerState
<1>4. prod[p].ticket # "Rejected" /\ prod[p].directive = "NoAction"
  BY <1>1, <1>2 DEF Shapes, QueuesSharded, ProducerShape, TicketSteps
<1>5. Shapes'
  BY <1>1, <1>2, <1>3, <1>4 DEF Shapes, QueuesSharded, ProducerShape, TicketSteps
<1>6. LeaseInv'
  BY <1>1, <1>2, <1>3, LeaseKept DEF SameLeases, Registered
<1>7. GateInv'
  BY <1>1, <1>2, <1>3, GateKept DEF SameTickets
<1>8. TokenInv' /\ \A b \in Actors : HasToken(b)' <=> HasToken(b)
  <2>1. SameTokens
    BY <1>2, <1>3 DEF SameTokens, Registered
  <2> QED
    BY <1>1, <2>1, TokenKept
<1>9. PermitInv'
  <2>1. SamePermits
    BY <1>2, <1>3, <1>4, <1>8 DEF SamePermits, HoldsPermit
  <2> QED
    BY <1>1, <2>1, PermitKept
<1>10. MailInv'
  <2>1. \A b \in Actors, k \in Lanes : b # a \/ k # l => mailbox'[b][k] = mailbox[b][k]
    BY <1>t, <1>1, <1>2
  <2>2. mailbox'[a][l] = published
    BY <1>t, <1>1, <1>2
  <2>3. slots \in Seq(Producers \cup {Mail}) /\ Len(slots) \in Nat
    BY <1>t, <1>1
  <2>4. /\ Len(published) = Len(slots)
        /\ slots = <<>> => published = <<>>
    BY <2>3
  <2>5. \A q \in Producers, b \in Actors : WillMark(q, b) => WillMark(q, b)'
    BY <1>2, <1>3 DEF WillMark
  <2>6. \A b \in Actors, k \in Lanes : mailbox[b][k] = <<>> => mailbox'[b][k] = <<>>
    BY <2>1, <2>2, <2>4
  <2>7. \A b \in Actors, k \in Lanes : Promised(b, k) => Promised(b, k)'
    BY <1>2, <2>5, <2>6 DEF Promised
  <2>8. SlotsOwned'
    <3> SUFFICES ASSUME NEW b \in Actors, NEW k \in Lanes,
                        NEW i \in 1 .. Len(mailbox'[b][k]), mailbox'[b][k][i] # Mail
                 PROVE  \E q \in Producers : /\ mailbox'[b][k][i] = q
                                             /\ prod'[q].pc = "Publish"
                                             /\ prod'[q].key = b /\ prod'[q].lane = k
      BY DEF SlotsOwned
    <3>1. /\ i \in 1 .. Len(mailbox[b][k]) /\ mailbox'[b][k][i] = mailbox[b][k][i]
          /\ b = a /\ k = l => mailbox[b][k][i] # p
      <4>1. CASE b = a /\ k = l
        BY <2>2, <2>3, <2>4, <4>1
      <4>2. CASE ~(b = a /\ k = l)
        BY <2>1, <4>2
      <4> QED
        BY <4>1, <4>2
    <3>2. PICK q \in Producers : /\ mailbox[b][k][i] = q /\ prod[q].pc = "Publish"
                                 /\ prod[q].key = b /\ prod[q].lane = k
      BY <1>1, <3>1 DEF MailInv, SlotsOwned
    <3> QED
      BY <1>3, <3>1, <3>2
  <2>9. IdleIsEmpty' /\ AdmittingPromised' /\ CompletingPromised'
    BY <1>1, <1>2, <2>5, <2>6, <2>7
    DEF MailInv, IdleIsEmpty, AdmittingPromised, CompletingPromised
  <2>10. ReceiveLanePromised' /\ DrainPromised'
    BY <1>1, <1>2, <2>7 DEF MailInv, ReceiveLanePromised, DrainPromised, Keyed, Lanes
  <2> QED
    BY <2>8, <2>9, <2>10 DEF MailInv
<1> QED
  BY <1>5, <1>6, <1>7, <1>8, <1>9, <1>10 DEF SchedInv

\* A producer that will mark the gate is one of those the gate counts.
LEMMA MarkersHoldTickets ==
    ASSUME Shapes, NEW q \in Producers, NEW a, WillMark(q, a)
    PROVE  q \in TicketHolders(a)
  BY DEF Shapes, ProducerShape, TicketSteps, WillMark, TicketHolders

\* What completing an admission does to the word, case by case.
LEMMA NewPermitOutcome ==
    ASSUME NEW g \in GateWord, NEW r \in Resolutions,
           g.phase = "Admitting", g.inFlight = 1
    PROVE  LET c == CompleteAdmission(g, "RequiresNewPermit", r) IN
           /\ c.word.inFlight = 0
           /\ c.word.phase = IF r = "MailboxCommitted" THEN "Scheduled" ELSE "Idle"
           /\ r = "CapacityRejected" => c.directive = "NoAction"
           /\ r = "MailboxRejected" => c.directive = "ReleasePermit"
           /\ r = "MailboxCommitted" => c.directive = "EnqueueReadyToken"
<1> DEFINE word == [ClearDrainFlags(g) EXCEPT
                      !.inFlight = 0,
                      !.phase = IF r = "MailboxCommitted" THEN "Scheduled" ELSE "Idle"]
           directive == CASE r = "CapacityRejected" -> "NoAction"
                          [] r = "MailboxRejected"  -> "ReleasePermit"
                          [] r = "MailboxCommitted" -> "EnqueueReadyToken"
<1>1. CompleteAdmission(g, "RequiresNewPermit", r) = [word |-> word, directive |-> directive]
  BY DEF CompleteAdmission, CompleteNewPermit
<1>2. /\ word.inFlight = 0
      /\ word.phase = IF r = "MailboxCommitted" THEN "Scheduled" ELSE "Idle"
  BY DEF GateWord, ClearDrainFlags
<1>3. /\ r = "CapacityRejected" => directive = "NoAction"
      /\ r = "MailboxRejected" => directive = "ReleasePermit"
      /\ r = "MailboxCommitted" => directive = "EnqueueReadyToken"
  OBVIOUS
<1> HIDE DEF word, directive
<1> QED
  BY <1>1, <1>2, <1>3

\* The same for a ticket that found the actor already scheduled or draining.
LEMMA ExistingPermitOutcome ==
    ASSUME NEW g \in GateWord, NEW r \in {"MailboxRejected", "MailboxCommitted"},
           g.phase \notin {"Idle", "Admitting"}, g.inFlight # 0
    PROVE  LET c == CompleteAdmission(g, "UsesExistingPermit", r)
               again == \/ g.pending \/ g.resched
                        \/ r = "MailboxCommitted" IN
           /\ c.word.inFlight = g.inFlight - 1
           /\ (g.phase = "DrainCompleting" /\ g.inFlight = 1) =>
                 /\ c.word.phase = IF again THEN "Scheduled" ELSE "Idle"
                 /\ c.directive = IF again THEN "EnqueueReadyToken" ELSE "ReleasePermit"
           /\ ~(g.phase = "DrainCompleting" /\ g.inFlight = 1) =>
                 /\ c.word.phase = g.phase /\ c.word.resched = g.resched
                 /\ g.pending => c.word.pending
                 /\ r = "MailboxCommitted" /\ g.phase \in {"Draining", "DrainCompleting"}
                       => c.word.pending
                 /\ c.directive = "NoAction"
<1> DEFINE d == [MarkPending(g, r) EXCEPT !.inFlight = g.inFlight - 1]
           marks == r = "MailboxCommitted" /\ g.phase \in {"Draining", "DrainCompleting"}
<1>1. /\ d.inFlight = g.inFlight - 1 /\ d.phase = g.phase /\ d.resched = g.resched
      /\ d.pending <=> (g.pending \/ marks)
      /\ MarkPending(g, r).inFlight = g.inFlight
  BY DEF GateWord, MarkPending
<1>2. d \in [phase : Phases, pending : BOOLEAN, resched : BOOLEAN, inFlight : Int]
  <2>1. MarkPending(g, r) \in GateWord
    BY DEF GateWord, MarkPending
  <2>2. g.inFlight - 1 \in Int
    BY InFlightArithmetic
  <2> QED
    BY <2>1, <2>2 DEF GateWord
<1>3. CompleteAdmission(g, "UsesExistingPermit", r) =
        IF g.phase = "DrainCompleting" /\ g.inFlight = 1
        THEN [word |-> Settle(d), directive |-> SettleDirective(d)]
        ELSE [word |-> d, directive |-> "NoAction"]
  BY <1>1 DEF CompleteAdmission, CompleteExistingPermit
<1>4. /\ Settle(d).inFlight = d.inFlight
      /\ Settle(d).phase = IF d.pending \/ d.resched THEN "Scheduled" ELSE "Idle"
      /\ SettleDirective(d) = IF d.pending \/ d.resched THEN "EnqueueReadyToken"
                                                        ELSE "ReleasePermit"
  <2> HIDE DEF d
  <2> QED
    BY <1>2 DEF Settle, SettleDirective, ClearDrainFlags
<1> HIDE DEF d
<1> QED
  BY <1>1, <1>3, <1>4

\* CompleteAdmission gives the ticket back and decides the directive.
LEMMA FinishAdmissionKeeps ==
    ASSUME SchedInv, TypeInv', NEW p \in Producers, FinishAdmission(p)
    PROVE  SchedInv'
<1>0. PICK a \in Actors : a = prod[p].key
  BY KeysTyped DEF SchedInv, Keyed
<1> DEFINE t == prod[p].ticket
           r == prod[p].resolution
           c == CompleteAdmission(gate[a], t, r)
           committed == r = "MailboxCommitted"
           again == gate[a].pending \/ gate[a].resched \/ committed
           newcomer == /\ t = "RequiresNewPermit" /\ gate[a].phase = "Admitting"
                       /\ gate[a].inFlight = 1 /\ gate'[a].inFlight = 0
                       /\ gate'[a].phase = IF committed THEN "Scheduled" ELSE "Idle"
                       /\ r = "CapacityRejected" => prod'[p].directive = "NoAction"
                       /\ r = "MailboxRejected" => prod'[p].directive = "ReleasePermit"
                       /\ committed => prod'[p].directive = "EnqueueReadyToken"
           settles == /\ t = "UsesExistingPermit" /\ gate[a].phase = "DrainCompleting"
                      /\ gate[a].inFlight = 1 /\ gate'[a].inFlight = 0
                      /\ gate'[a].phase = IF again THEN "Scheduled" ELSE "Idle"
                      /\ prod'[p].directive = IF again THEN "EnqueueReadyToken"
                                                       ELSE "ReleasePermit"
           leaves == /\ t = "UsesExistingPermit" /\ gate[a].phase \notin {"Idle", "Admitting"}
                     /\ ~(gate[a].phase = "DrainCompleting" /\ gate[a].inFlight = 1)
                     /\ gate'[a].inFlight = gate[a].inFlight - 1
                     /\ gate'[a].phase = gate[a].phase /\ gate'[a].resched = gate[a].resched
                     /\ gate[a].pending => gate'[a].pending
                     /\ committed /\ gate[a].phase \in {"Draining", "DrainCompleting"}
                            => gate'[a].pending
                     /\ prod'[p].directive = "NoAction"
<1>1. /\ Keyed /\ Shapes /\ LeaseInv /\ GateInv /\ TokenInv /\ PermitInv /\ MailInv
      /\ TypeInv /\ Shard[a] \in Workers
  BY KeysTyped DEF SchedInv, Keyed
<1>t. /\ prod \in [Producers -> ProducerState] /\ prod[p] \in ProducerState
      /\ gate \in [Actors -> GateWord] /\ gate[a] \in GateWord
      /\ t \in Tickets /\ r \in Resolutions
  BY <1>1 DEF TypeInv, TypeOK, ProducerState
<1>2. /\ prod[p].pc = "Complete"
      /\ prod' = [prod EXCEPT ![p] = [IdleProducer EXCEPT !.pc = "Apply", !.key = a,
                                                          !.directive = c.directive]]
      /\ gate' = [gate EXCEPT ![a] = c.word]
      /\ UNCHANGED <<mailbox, permits, ready, lifecycle, leases, work, drainFailed>>
  BY <1>0 DEF FinishAdmission, SetProducer, ProducerAt, registryVars
<1> HIDE DEF c
<1>3. /\ prod'[p].key = a /\ prod'[p].pc = "Apply" /\ prod'[p].ticket = "Rejected"
      /\ prod'[p].directive = c.directive
      /\ \A q \in Producers : q # p => prod'[q] = prod[q]
      /\ gate'[a] = c.word /\ \A b \in Actors : b # a => gate'[b] = gate[b]
  BY <1>1, <1>t, <1>2 DEF IdleProducer
<1>4. /\ t # "Rejected" /\ prod[p].directive = "NoAction"
      /\ r = "CapacityRejected" => t = "RequiresNewPermit"
      /\ p \in TicketHolders(a)
  BY <1>0, <1>1, <1>2 DEF Shapes, ProducerShape, TicketSteps, TicketHolders
<1>5. newcomer \/ settles \/ leaves
  <2>1. CASE t = "RequiresNewPermit"
    <3>1. gate[a].phase = "Admitting" /\ gate[a].inFlight = 1
      BY <1>0, <1>1, <2>1 DEF GateInv, GateShape
    <3> QED
      BY <1>t, <1>3, <2>1, <3>1, NewPermitOutcome DEF c
  <2>2. CASE t = "UsesExistingPermit"
    <3>1. gate[a].phase \notin {"Idle", "Admitting"} /\ gate[a].inFlight # 0
      BY <1>1, <1>4, <2>2, TicketFacts
    <3>2. r \in {"MailboxRejected", "MailboxCommitted"}
      BY <1>t, <1>4, <2>2 DEF Resolutions
    <3> QED
      BY <1>t, <1>3, <2>2, <3>1, <3>2, ExistingPermitOutcome DEF c
  <2> QED
    BY <1>t, <1>4, <2>1, <2>2 DEF Tickets
<1>6. gate[a].inFlight = 1 => \A q \in TicketHolders(a) : q = p
  BY <1>1, <1>4, TicketFacts
<1> HIDE DEF newcomer, settles, leaves
<1>7. Shapes'
  BY <1>1, <1>2, <1>3 DEF Shapes, QueuesSharded, ProducerShape, TicketSteps
<1>8. LeaseInv'
  BY <1>0, <1>1, <1>2, <1>3, LeaseKept DEF SameLeases, Registered
<1>9. GateInv'
  <2>1. ASSUME NEW b \in Actors
        PROVE  gate'[b].inFlight = Cardinality(TicketHolders(b)')
    <3>1. /\ TicketHolders(b) \in SUBSET Producers /\ TicketHolders(b)' \in SUBSET Producers
          /\ \A q \in Producers : q # p => (q \in TicketHolders(b) <=> q \in TicketHolders(b)')
          /\ p \notin TicketHolders(b)' /\ (p \in TicketHolders(b) <=> b = a)
      BY <1>0, <1>3, <1>4 DEF TicketHolders
    <3>2. /\ Cardinality(TicketHolders(b)) = Cardinality(TicketHolders(b)')
                                             + (IF b = a THEN 1 ELSE 0)
          /\ Cardinality(TicketHolders(b)') \in Nat
      BY <3>1, CountStep, SchedulerAssumption
    <3>3. gate[b].inFlight = Cardinality(TicketHolders(b))
      BY <1>1 DEF GateInv
    <3> QED
      BY <1>3, <1>5, <3>2, <3>3 DEF newcomer, settles, leaves
  <2>2. ASSUME NEW b \in Actors PROVE GateShape(b)'
    <3>1. GateShape(b) /\ (WorkerIn(b, DrainSteps)' <=> WorkerIn(b, DrainSteps))
      BY <1>1, <1>2 DEF GateInv, WorkerIn
    <3>2. gate[a].inFlight \in Nat
      BY <1>t DEF GateWord
    <3>3. CASE b = a
      BY <1>5, <3>1, <3>2, <3>3 DEF GateShape, newcomer, settles, leaves
    <3>4. CASE b # a
      BY <1>0, <1>3, <3>1, <3>4 DEF GateShape
    <3> QED
      BY <3>3, <3>4
  <2>3. ASSUME NEW q \in Producers, prod'[q].ticket = "RequiresNewPermit"
        PROVE  gate'[prod'[q].key].phase = "Admitting"
    <3>1. q # p /\ prod'[q] = prod[q]
      BY <1>3, <2>3
    <3>2. gate[prod[q].key].phase = "Admitting" /\ prod[q].key \in Actors
      BY <1>1, <2>3, <3>1 DEF GateInv, Keyed
    <3>3. prod[q].key # a
      <4> SUFFICES ASSUME prod[q].key = a PROVE FALSE
        OBVIOUS
      <4>1. q \in TicketHolders(a)
        BY <2>3, <3>1 DEF TicketHolders
      <4> QED
        BY <1>5, <1>6, <3>1, <3>2, <4>1 DEF newcomer, settles, leaves
    <3> QED
      BY <1>3, <3>1, <3>2, <3>3
  <2> QED
    BY <2>1, <2>2, <2>3 DEF GateInv
<1> DEFINE owes == prod'[p].directive = "EnqueueReadyToken"
<1>10. /\ owes => /\ gate[a].phase # "Scheduled" /\ gate'[a].phase = "Scheduled"
       /\ ~owes => (gate'[a].phase = "Scheduled" <=> gate[a].phase = "Scheduled")
  BY <1>t, <1>5 DEF newcomer, settles, leaves, Resolutions
<1>11. /\ TokenInv'
       /\ \A b \in Actors : b # a => (HasToken(b)' <=> HasToken(b))
       /\ HasToken(a)' <=> HasToken(a) \/ owes
  <2>1. CASE ~owes
    <3>1. SameTokens
      BY <1>2, <1>3, <1>4, <1>10, <2>1 DEF SameTokens, Registered
    <3> QED
      BY <1>1, <2>1, <3>1, TokenKept
  <2>2. CASE owes
    <3>1. \A b \in Actors :
             /\ InQueue(b)' <=> InQueue(b)
             /\ WorkerIn(b, {"Lease", "Begin"})' <=> WorkerIn(b, {"Lease", "Begin"})
             /\ OwedByWorker(b)' <=> OwedByWorker(b)
      BY <1>2 DEF InQueue, WorkerIn, OwedByWorker, TokenOwedBy
    <3>2. \A b \in Actors, q \in Producers :
             TokenOwedBy(prod[q], b)' <=> TokenOwedBy(prod[q], b) \/ (q = p /\ b = a)
      BY <1>0, <1>3, <1>4, <2>2 DEF TokenOwedBy
    <3>3. ~HasToken(a)
      BY <1>1, <1>10, <2>2 DEF TokenInv
    <3>4. ~InQueue(a) /\ ~WorkerIn(a, {"Lease", "Begin"}) /\ ~OwedByWorker(a)
          /\ \A q \in Producers : ~TokenOwedBy(prod[q], a)
      BY <3>3 DEF HasToken, OwedByProducer
    <3>5. \A b \in Actors : /\ b # a => (HasToken(b)' <=> HasToken(b))
                            /\ HasToken(a)'
      BY <3>1, <3>2 DEF HasToken, OwedByProducer
    <3>6. \A b \in Actors : OneToken(b)'
      BY <1>1, <3>1, <3>2, <3>4 DEF TokenInv, OneToken, OwedByProducer
    <3>7. \A b \in Actors : /\ HasToken(b)' => gate'[b].phase = "Scheduled"
                            /\ Registered(b)' /\ gate'[b].phase = "Scheduled" => HasToken(b)'
      BY <1>1, <1>2, <1>3, <1>10, <2>2, <3>5 DEF TokenInv, Registered
    <3> QED
      BY <1>1, <1>2, <2>2, <3>5, <3>6, <3>7 DEF TokenInv, QueuesDistinct
  <2> QED
    BY <2>1, <2>2
<1>12. PermitInv'
  <2> SUFFICES ASSUME NEW w \in Workers
               PROVE  /\ permits'[w] <= MaxAdmittedRunnableActors
                      /\ permits'[w] = Cardinality(ActorUses(w)') + Cardinality(ProducerUses(w)')
                           + (IF work'[w].directive = "ReleasePermit" THEN 1 ELSE 0)
    BY DEF PermitInv
  <2> DEFINE Num(b) == IF b THEN 1 ELSE 0
  <2>1. /\ ActorUses(w) \in SUBSET Actors /\ ActorUses(w)' \in SUBSET Actors
        /\ \A b \in Actors : b # a => (b \in ActorUses(w) <=> b \in ActorUses(w)')
        /\ ProducerUses(w) \in SUBSET Producers /\ ProducerUses(w)' \in SUBSET Producers
        /\ \A q \in Producers : q # p => (q \in ProducerUses(w) <=> q \in ProducerUses(w)')
    BY <1>0, <1>3, <1>11 DEF ActorUses, ProducerUses
  <2>2. /\ a \in ActorUses(w)' \/ p \in ProducerUses(w)'
             <=> a \in ActorUses(w) \/ p \in ProducerUses(w)
        /\ ~(a \in ActorUses(w)' /\ p \in ProducerUses(w)')
        /\ ~(a \in ActorUses(w) /\ p \in ProducerUses(w))
    <3>a. HasToken(a) => gate[a].phase = "Scheduled"
      BY <1>1 DEF TokenInv
    <3>b. /\ a \in ActorUses(w) <=> /\ Shard[a] = w
                                    /\ \/ HasToken(a)
                                       \/ gate[a].phase \in {"Draining", "DrainCompleting"}
          /\ a \in ActorUses(w)' <=> /\ Shard[a] = w
                                     /\ \/ HasToken(a) \/ owes
                                        \/ gate'[a].phase \in {"Draining", "DrainCompleting"}
          /\ p \in ProducerUses(w) <=> /\ Shard[a] = w /\ t = "RequiresNewPermit"
                                       /\ r # "CapacityRejected"
          /\ p \in ProducerUses(w)' <=> /\ Shard[a] = w
                                        /\ prod'[p].directive = "ReleasePermit"
      BY <1>0, <1>1, <1>2, <1>3, <1>4, <1>11 DEF ActorUses, ProducerUses, HoldsPermit
    <3>1. CASE newcomer
      BY <1>t, <3>a, <3>b, <3>1 DEF newcomer, Resolutions
    <3>2. CASE settles
      BY <3>a, <3>b, <3>2 DEF settles
    <3>3. CASE leaves
      BY <3>a, <3>b, <3>3 DEF leaves
    <3> QED
      BY <1>5, <3>1, <3>2, <3>3
  <2>3. /\ Cardinality(ActorUses(w)') + Num(a \in ActorUses(w))
             = Cardinality(ActorUses(w)) + Num(a \in ActorUses(w)')
        /\ Cardinality(ActorUses(w)) \in Nat /\ Cardinality(ActorUses(w)') \in Nat
    BY <1>1, <2>1, CountStep, SchedulerAssumption
  <2>4. /\ Cardinality(ProducerUses(w)') + Num(p \in ProducerUses(w))
             = Cardinality(ProducerUses(w)) + Num(p \in ProducerUses(w)')
        /\ Cardinality(ProducerUses(w)) \in Nat /\ Cardinality(ProducerUses(w)') \in Nat
    BY <2>1, CountStep, SchedulerAssumption
  <2>5. Cardinality(ActorUses(w)') + Cardinality(ProducerUses(w)')
          = Cardinality(ActorUses(w)) + Cardinality(ProducerUses(w))
    BY <2>2, <2>3, <2>4
  <2> QED
    BY <1>1, <1>2, <2>5 DEF PermitInv
<1>13. MailInv'
  <2>1. \A q \in Producers, b \in Actors : WillMark(q, b) =>
           WillMark(q, b)' \/ (q = p /\ b = a /\ committed)
    BY <1>0, <1>2, <1>3 DEF WillMark
  <2>2. ASSUME gate[a].inFlight = 1, NEW q \in Producers, WillMark(q, a)
        PROVE  q = p /\ committed
    <3>1. q = p
      BY <1>1, <1>6, <2>2, MarkersHoldTickets
    <3> QED
      BY <1>2, <2>2, <3>1 DEF WillMark
  <2>3. \A b \in Actors, l \in Lanes :
           /\ Promised(b, l)
           /\ gate[b].phase \in {"Draining", "DrainCompleting"}
           /\ gate'[b].phase = gate[b].phase
           => Promised(b, l)'
    BY <1>2, <1>3, <1>5, <2>1 DEF Promised, newcomer, settles, leaves
  <2>4. SlotsOwned'
    BY <1>1, <1>2, <1>3 DEF MailInv, SlotsOwned
  <2>5. IdleIsEmpty'
    <3> SUFFICES ASSUME NEW b \in Actors, gate'[b].phase = "Idle", b \notin drainFailed',
                        NEW l \in Lanes
                 PROVE  mailbox'[b][l] = <<>>
      BY DEF IdleIsEmpty
    <3>1. CASE b # a
      BY <1>1, <1>2, <1>3, <3>1 DEF MailInv, IdleIsEmpty
    <3>2. CASE b = a /\ newcomer
      <4>1. ~committed /\ gate[a].inFlight = 1 /\ gate[a].phase = "Admitting"
        BY <3>2 DEF newcomer
      <4>2. mailbox[a][l] = <<>> \/ \E q \in Producers : WillMark(q, a)
        BY <1>1, <1>2, <3>2, <4>1 DEF MailInv, AdmittingPromised
      <4> QED
        BY <1>2, <2>2, <3>2, <4>1, <4>2
    <3>3. CASE b = a /\ settles
      <4>1. /\ ~again /\ gate[a].inFlight = 1 /\ gate[a].phase = "DrainCompleting"
        BY <3>3 DEF settles
      <4>2. Promised(a, l)
        BY <1>1, <1>2, <3>3, <4>1 DEF MailInv, CompletingPromised
      <4> QED
        BY <1>2, <2>2, <3>3, <4>1, <4>2 DEF Promised
    <3>4. CASE b = a /\ leaves
      BY <3>4 DEF leaves
    <3> QED
      BY <1>5, <3>1, <3>2, <3>3, <3>4
  <2>6. AdmittingPromised'
    <3>1. gate'[a].phase # "Admitting"
      BY <1>5 DEF newcomer, settles, leaves
    <3> QED
      BY <1>1, <1>2, <1>3, <2>1, <3>1 DEF MailInv, AdmittingPromised
  <2>7. CompletingPromised'
    <3>1. gate'[a].phase = "DrainCompleting" => /\ gate[a].phase = "DrainCompleting"
                                                /\ gate'[a].resched = gate[a].resched
      BY <1>5 DEF newcomer, settles, leaves
    <3> QED
      BY <1>1, <1>2, <1>3, <2>3, <3>1 DEF MailInv, CompletingPromised
  <2>8. ReceiveLanePromised' /\ DrainPromised'
    <3>1. \A b \in Actors : gate[b].phase = "Draining" => gate'[b].phase = "Draining"
      BY <1>3, <1>5 DEF newcomer, settles, leaves
    <3> QED
      BY <1>1, <1>2, <2>3, <3>1, DrainFacts
      DEF MailInv, ReceiveLanePromised, DrainPromised, Keyed, Lanes, DrainSteps
  <2> QED
    BY <2>4, <2>5, <2>6, <2>7, <2>8 DEF MailInv
<1> QED
  BY <1>7, <1>8, <1>9, <1>11, <1>12, <1>13 DEF SchedInv

-----------------------------------------------------------------------------
(***************************************************************************)
(* The ready queue.                                                        *)
(***************************************************************************)
\* Pushing the token of an actor that is not in its queue.
LEMMA PushFacts ==
    ASSUME TypeInv, QueuesSharded, QueuesDistinct, NEW a \in Actors, ~InQueue(a),
           ready' = [ready EXCEPT ![Shard[a]] = Append(ready[Shard[a]], a)]
    PROVE  /\ QueuesSharded' /\ QueuesDistinct'
           /\ \A b \in Actors : InQueue(b)' <=> InQueue(b) \/ b = a
<1> DEFINE w == Shard[a]
           q == ready[w]
<1>1. /\ w \in Workers /\ q \in Seq(Actors)
      /\ ready'[w] = Append(q, a)
      /\ \A v \in Workers : v # w => ready'[v] = ready[v]
  BY SchedulerAssumption DEF TypeInv, TypeOK
<1>2. /\ Len(q) \in Nat /\ Len(Append(q, a)) = Len(q) + 1
      /\ Append(q, a)[Len(q) + 1] = a
      /\ \A i \in 1 .. Len(q) : Append(q, a)[i] = q[i]
      /\ \A i \in 1 .. Len(Append(q, a)) : i = Len(q) + 1 \/ i \in 1 .. Len(q)
  <2> HIDE DEF q
  <2> QED
    BY <1>1, AppendFacts
<1>3. \A i \in 1 .. Len(q) : q[i] # a
  BY DEF InQueue
<1>4. QueuesSharded'
  BY <1>1, <1>2 DEF QueuesSharded
<1>5. QueuesDistinct'
  BY <1>1, <1>2, <1>3 DEF QueuesDistinct
<1>6. Len(q) + 1 \in 1 .. Len(Append(q, a)) /\ 1 .. Len(q) \subseteq 1 .. Len(Append(q, a))
  BY <1>2
<1>7. \A b \in Actors : Shard[b] \in Workers
  BY SchedulerAssumption
<1>8. ASSUME NEW b \in Actors PROVE InQueue(b)' <=> InQueue(b) \/ b = a
  <2>1. CASE Shard[b] # w
    BY <1>1, <1>7, <2>1 DEF InQueue
  <2>2. CASE Shard[b] = w
    BY <1>1, <1>2, <1>6, <2>2 DEF InQueue
  <2> QED
    BY <2>1, <2>2
<1> QED
  BY <1>4, <1>5, <1>8

\* Popping the head of a queue takes exactly that token out.
LEMMA PopFacts ==
    ASSUME TypeInv, QueuesSharded, QueuesDistinct, NEW w \in Workers, ready[w] # <<>>,
           ready' = [ready EXCEPT ![w] = Tail(ready[w])]
    PROVE  /\ QueuesSharded' /\ QueuesDistinct'
           /\ Head(ready[w]) \in Actors /\ Shard[Head(ready[w])] = w
           /\ InQueue(Head(ready[w]))
           /\ \A b \in Actors : InQueue(b)' <=> InQueue(b) /\ b # Head(ready[w])
<1> DEFINE q == ready[w]
<1>1. /\ q \in Seq(Actors) /\ q # <<>>
      /\ ready'[w] = Tail(q)
      /\ \A v \in Workers : v # w => ready'[v] = ready[v]
  BY DEF TypeInv, TypeOK
<1>2. /\ Len(q) \in Nat \ {0} /\ Len(Tail(q)) = Len(q) - 1
      /\ Head(q) = q[1] /\ 1 \in 1 .. Len(q)
      /\ \A i \in 1 .. Len(Tail(q)) : Tail(q)[i] = q[i + 1] /\ i + 1 \in 1 .. Len(q)
  <2> HIDE DEF q
  <2> QED
    BY <1>1, TailFacts
<1>3. /\ Head(q) \in Actors /\ Shard[Head(q)] = w /\ InQueue(Head(q))
  BY <1>1, <1>2 DEF QueuesSharded, InQueue
<1>4. QueuesSharded'
  BY <1>1, <1>2 DEF QueuesSharded
<1>5. QueuesDistinct'
  <2> SUFFICES ASSUME NEW v \in Workers, NEW i \in 1 .. Len(ready'[v]),
                      NEW j \in 1 .. Len(ready'[v]), ready'[v][i] = ready'[v][j]
               PROVE  i = j
    BY DEF QueuesDistinct
  <2>1. CASE v = w
    <3>1. i + 1 = j + 1
      BY <1>1, <1>2, <2>1 DEF QueuesDistinct
    <3> QED
      BY <3>1
  <2>2. CASE v # w
    BY <1>1, <2>2 DEF QueuesDistinct
  <2> QED
    BY <2>1, <2>2
<1>7. \A b \in Actors : Shard[b] \in Workers
  BY SchedulerAssumption
<1>8. ASSUME NEW b \in Actors PROVE InQueue(b)' <=> InQueue(b) /\ b # Head(q)
  <2>1. CASE Shard[b] # w
    BY <1>1, <1>3, <1>7, <2>1 DEF InQueue
  <2>2. CASE Shard[b] = w
    <3>1. ASSUME InQueue(b)' PROVE InQueue(b) /\ b # Head(q)
      <4>1. PICK i \in 1 .. Len(Tail(q)) : Tail(q)[i] = b
        BY <1>1, <2>2, <3>1 DEF InQueue
      <4>2. q[i + 1] = b /\ i + 1 \in 1 .. Len(q) /\ i + 1 # 1
        BY <1>2, <4>1
      <4>3. q[i + 1] # q[1]
        BY <1>2, <4>2 DEF QueuesDistinct
      <4> QED
        BY <1>2, <2>2, <4>2, <4>3 DEF InQueue
    <3>2. ASSUME InQueue(b), b # Head(q) PROVE InQueue(b)'
      <4>1. PICK i \in 1 .. Len(q) : q[i] = b
        BY <2>2, <3>2 DEF InQueue
      <4>2. i # 1
        BY <1>2, <3>2, <4>1
      <4>3. i - 1 \in 1 .. Len(Tail(q)) /\ (i - 1) + 1 = i
        BY <1>2, <4>2
      <4>4. Tail(q)[i - 1] = b
        BY <1>2, <4>1, <4>3
      <4> QED
        BY <1>1, <2>2, <4>3, <4>4 DEF InQueue
    <3> QED
      BY <3>1, <3>2
  <2> QED
    BY <2>1, <2>2
<1> QED
  BY <1>3, <1>4, <1>5, <1>8

\* The actors of a queue, and one more that is still to be pushed, all use a
\* permit of the worker: there is room.
LEMMA ReadyRoom ==
    ASSUME SchedInv, NEW a \in Actors, OwedByWorker(a) \/ OwedByProducer(a)
    PROVE  ~ReadyQueueFull(Shard[a])
<1> DEFINE w == Shard[a]
           q == ready[w]
           others == ActorUses(w) \ {a}
           f == [i \in 1 .. Len(q) |-> q[i]]
<1>1. /\ w \in Workers /\ q \in Seq(Actors) /\ Len(q) \in Nat
      /\ QueuesSharded /\ QueuesDistinct /\ TokenInv /\ PermitInv
  BY SchedulerAssumption DEF SchedInv, TypeInv, TypeOK, Shapes, TokenInv
<1>2. a \in ActorUses(w) /\ ~InQueue(a)
  BY <1>1 DEF ActorUses, HasToken, TokenInv, OneToken
<1>3. \A i \in 1 .. Len(q) : q[i] \in others
  <2> SUFFICES ASSUME NEW i \in 1 .. Len(q) PROVE q[i] \in others
    OBVIOUS
  <2>1. q[i] \in Actors /\ Shard[q[i]] = w
    BY <1>1 DEF QueuesSharded
  <2>2. InQueue(q[i])
    BY <2>1 DEF InQueue
  <2>3. q[i] # a
    BY <1>2, <2>2
  <2> QED
    BY <2>1, <2>2, <2>3 DEF ActorUses, HasToken
<1>4. f \in Injection(1 .. Len(q), others)
  <2>1. f \in [1 .. Len(q) -> others]
    BY <1>3
  <2>2. \A i, j \in 1 .. Len(q) : f[i] = f[j] => i = j
    BY <1>1 DEF QueuesDistinct
  <2> QED
    BY <2>1, <2>2 DEF Injection, IsInjective
<1>5. /\ IsFiniteSet(ActorUses(w)) /\ Cardinality(ActorUses(w)) \in Nat
      /\ Cardinality(ProducerUses(w)) \in Nat
  BY CountsAreNumbers
<1>6. IsFiniteSet(others) /\ Cardinality(others) = Cardinality(ActorUses(w)) - 1
  BY <1>2, <1>5, FS_RemoveElement
<1>7. Cardinality(1 .. Len(q)) <= Cardinality(others)
  BY <1>4, <1>6, FS_Injection
<1>8. Cardinality(1 .. Len(q)) = Len(q)
  BY <1>1, FS_Interval
<1>9. /\ permits[w] <= MaxAdmittedRunnableActors
      /\ Cardinality(ActorUses(w)) <= permits[w] /\ permits[w] \in Nat
  <2>1. permits[w] = Cardinality(ActorUses(w)) + Cardinality(ProducerUses(w))
                     + (IF work[w].directive = "ReleasePermit" THEN 1 ELSE 0)
    BY <1>1 DEF PermitInv
  <2> QED
    BY <1>1, <1>5, <2>1 DEF PermitInv
<1>10. Len(q) < MaxAdmittedRunnableActors
  BY <1>1, <1>5, <1>6, <1>7, <1>8, <1>9, SchedulerAssumption
<1> QED
  BY <1>1, <1>10, SchedulerAssumption DEF ReadyQueueFull

\* A directive applied to actor a: what becomes of the ready queue and the permits.
LEMMA DirectiveEffect ==
    ASSUME SchedInv, NEW a \in Actors, NEW d, ApplyScheduleDirective(a, d),
           d = "EnqueueReadyToken" => OwedByWorker(a) \/ OwedByProducer(a)
    PROVE  /\ d = "EnqueueReadyToken" =>
                 ready' = [ready EXCEPT ![Shard[a]] = Append(ready[Shard[a]], a)]
           /\ d # "EnqueueReadyToken" => ready' = ready
           /\ d # "ReleasePermit" => permits' = permits
           /\ d = "ReleasePermit" =>
                 permits' = [permits EXCEPT ![Shard[a]] = IF @ = 0 THEN 0 ELSE @ - 1]
<1>1. CASE d = "EnqueueReadyToken"
  <2>1. ~ReadyQueueFull(Shard[a])
    BY <1>1, ReadyRoom
  <2> QED
    BY <1>1, <2>1 DEF ApplyScheduleDirective, PushReadyToken
<1>2. CASE d = "ReleasePermit"
  BY <1>2 DEF ApplyScheduleDirective, ReleaseRunnablePermit
<1>3. CASE d \notin {"EnqueueReadyToken", "ReleasePermit"}
  BY <1>3 DEF ApplyScheduleDirective
<1> QED
  BY <1>1, <1>2, <1>3

\* The producer pushes the token it owes, or releases the permit.
LEMMA ProducerAppliesDirectiveKeeps ==
    ASSUME SchedInv, TypeInv', NEW p \in Producers, ProducerAppliesDirective(p)
    PROVE  SchedInv'
<1>0. PICK a \in Actors : a = prod[p].key
  BY KeysTyped DEF SchedInv, Keyed
<1> DEFINE d == prod[p].directive
           w == Shard[a]
<1>1. /\ Keyed /\ Shapes /\ LeaseInv /\ GateInv /\ TokenInv /\ PermitInv /\ MailInv
      /\ TypeInv /\ w \in Workers
  BY KeysTyped DEF SchedInv, Keyed
<1>t. /\ prod \in [Producers -> ProducerState] /\ prod[p] \in ProducerState
      /\ permits \in [Workers -> Nat]
  BY <1>1 DEF TypeInv, TypeOK
<1>2. /\ prod[p].pc = "Apply" /\ ApplyScheduleDirective(a, d)
      /\ prod' = [prod EXCEPT ![p] = [prod[p] EXCEPT !.directive = "NoAction",
                    !.pc = IF PushesToken(a, d) THEN "Wake" ELSE "Leave"]]
      /\ UNCHANGED <<gate, mailbox, lifecycle, leases, work, drainFailed>>
  BY <1>0 DEF ProducerAppliesDirective, SetProducer, ProducerAt, registryVars
<1>3. /\ prod'[p].key = a /\ prod'[p].pc \in {"Wake", "Leave"}
      /\ prod'[p].ticket = prod[p].ticket /\ prod'[p].directive = "NoAction"
      /\ \A q \in Producers : q # p => prod'[q] = prod[q]
  BY <1>0, <1>t, <1>2 DEF ProducerState
<1>4. prod[p].ticket = "Rejected"
  BY <1>1, <1>2 DEF Shapes, ProducerShape, TicketSteps
<1>5. /\ d = "EnqueueReadyToken" =>
            ready' = [ready EXCEPT ![w] = Append(ready[w], a)]
      /\ d # "EnqueueReadyToken" => ready' = ready
      /\ d # "ReleasePermit" => permits' = permits
      /\ d = "ReleasePermit" => permits' = [permits EXCEPT ![w] = IF @ = 0 THEN 0 ELSE @ - 1]
  <2>1. d = "EnqueueReadyToken" => TokenOwedBy(prod[p], a)
    BY <1>0 DEF TokenOwedBy
  <2>2. d = "EnqueueReadyToken" => OwedByProducer(a)
    BY <2>1 DEF OwedByProducer
  <2> QED
    BY <1>2, <2>2, DirectiveEffect
<1>6. ASSUME d = "EnqueueReadyToken" PROVE Shapes' /\ TokenInv' /\ PermitInv'
  <2>1. TokenOwedBy(prod[p], a)
    BY <1>0, <1>6 DEF TokenOwedBy
  <2>2. /\ ~InQueue(a) /\ ~WorkerIn(a, {"Lease", "Begin"}) /\ ~OwedByWorker(a)
        /\ \A q \in Producers : TokenOwedBy(prod[q], a) => q = p
    BY <1>1, <2>1 DEF TokenInv, OneToken, OwedByProducer
  <2>3. /\ QueuesSharded' /\ QueuesDistinct'
        /\ \A b \in Actors : InQueue(b)' <=> InQueue(b) \/ b = a
    BY <1>1, <1>5, <1>6, <2>2, PushFacts DEF Shapes, TokenInv
  <2>4. \A b \in Actors, q \in Producers :
           TokenOwedBy(prod[q], b)' <=> TokenOwedBy(prod[q], b) /\ q # p
    BY <1>3 DEF TokenOwedBy
  <2>5. \A b \in Actors :
           /\ WorkerIn(b, {"Lease", "Begin"})' <=> WorkerIn(b, {"Lease", "Begin"})
           /\ OwedByWorker(b)' <=> OwedByWorker(b)
    BY <1>2 DEF WorkerIn, OwedByWorker, TokenOwedBy
  <2>a. \A b \in Actors : TokenOwedBy(prod[p], b) => b = a
    BY <1>0 DEF TokenOwedBy
  <2>6. \A b \in Actors : HasToken(b)' <=> HasToken(b)
    BY <2>1, <2>2, <2>3, <2>4, <2>5, <2>a DEF HasToken, OwedByProducer
  <2>7. TokenInv'
    <3>1. \A b \in Actors : OneToken(b)'
      BY <1>1, <2>2, <2>3, <2>4, <2>5 DEF TokenInv, OneToken, OwedByProducer
    <3> QED
      BY <1>1, <1>2, <2>3, <2>6, <3>1 DEF TokenInv, Registered
  <2>8. Shapes'
    BY <1>1, <1>2, <1>3, <1>4, <2>3 DEF Shapes, ProducerShape, TicketSteps
  <2>9. PermitInv'
    <3>1. SamePermits
      BY <1>2, <1>3, <1>4, <1>5, <1>6, <2>6 DEF SamePermits, HoldsPermit
    <3> QED
      BY <1>1, <3>1, PermitKept
  <2> QED
    BY <2>7, <2>8, <2>9
<1>7. ASSUME d # "EnqueueReadyToken" PROVE Shapes' /\ TokenInv' /\ PermitInv'
  <2>1. Shapes'
    BY <1>1, <1>2, <1>3, <1>4, <1>5, <1>7 DEF Shapes, QueuesSharded, ProducerShape, TicketSteps
  <2>2. TokenInv' /\ \A b \in Actors : HasToken(b)' <=> HasToken(b)
    <3>1. SameTokens
      BY <1>2, <1>3, <1>5, <1>7 DEF SameTokens, Registered
    <3> QED
      BY <1>1, <3>1, TokenKept
  <2>3. PermitInv'
    <3> SUFFICES ASSUME NEW v \in Workers
                 PROVE  /\ permits'[v] <= MaxAdmittedRunnableActors
                        /\ permits'[v] = Cardinality(ActorUses(v)') + Cardinality(ProducerUses(v)')
                             + (IF work'[v].directive = "ReleasePermit" THEN 1 ELSE 0)
      BY DEF PermitInv
    <3> DEFINE releases == d = "ReleasePermit" /\ v = w
    <3>1. ActorUses(v)' = ActorUses(v)
      BY <1>2, <2>2 DEF ActorUses
    <3>2. /\ Cardinality(ProducerUses(v)) = Cardinality(ProducerUses(v)')
                                            + (IF releases THEN 1 ELSE 0)
          /\ Cardinality(ProducerUses(v)') \in Nat
      <4>1. /\ ProducerUses(v) \in SUBSET Producers /\ ProducerUses(v)' \in SUBSET Producers
            /\ \A q \in Producers : q # p => (q \in ProducerUses(v) <=> q \in ProducerUses(v)')
            /\ p \notin ProducerUses(v)' /\ (p \in ProducerUses(v) <=> releases)
        BY <1>0, <1>3, <1>4 DEF ProducerUses, HoldsPermit
      <4> QED
        BY <4>1, CountStep, SchedulerAssumption
    <3>3. /\ permits[v] <= MaxAdmittedRunnableActors
          /\ permits[v] = Cardinality(ActorUses(v)) + Cardinality(ProducerUses(v))
                          + (IF work[v].directive = "ReleasePermit" THEN 1 ELSE 0)
      BY <1>1 DEF PermitInv
    <3>4. /\ permits[v] \in Nat
          /\ releases /\ permits[v] # 0 => permits'[v] = permits[v] - 1
          /\ ~releases => permits'[v] = permits[v]
      BY <1>1, <1>t, <1>5
    <3>5. Cardinality(ActorUses(v)) \in Nat
      BY CountsAreNumbers
    <3> HIDE DEF releases
    <3> QED
      BY <1>2, <3>1, <3>2, <3>3, <3>4, <3>5, SchedulerAssumption
  <2> QED
    BY <2>1, <2>2, <2>3
<1>8. LeaseInv'
  BY <1>0, <1>1, <1>2, <1>3, LeaseKept DEF SameLeases, Registered
<1>9. GateInv'
  BY <1>1, <1>2, <1>3, <1>4, GateKept DEF SameTickets
<1>10. MailInv'
  <2>1. SameMail
    BY <1>2, <1>3 DEF SameMail, WillMark
  <2> QED
    BY <1>1, <2>1, MailKept
<1> QED
  BY <1>6, <1>7, <1>8, <1>9, <1>10 DEF SchedInv

-----------------------------------------------------------------------------
(***************************************************************************)
(* The steps of a worker.                                                  *)
(***************************************************************************)
LEMMA CompleteActorRunKeeps ==
    ASSUME SchedInv, TypeInv', NEW w \in Workers, CompleteActorRun(w)
    PROVE  SchedInv'
<1>0. PICK a \in Actors : a = work[w].key
  BY KeysTyped DEF SchedInv, Keyed
<1> DEFINE d == work[w].directive
<1>1. /\ Keyed /\ Shapes /\ LeaseInv /\ GateInv /\ TokenInv /\ PermitInv /\ MailInv
      /\ TypeInv
  BY KeysTyped DEF SchedInv
<1>t. /\ work \in [Workers -> WorkerState] /\ work[w] \in WorkerState
      /\ permits \in [Workers -> Nat]
  BY <1>1 DEF TypeInv, TypeOK
<1>2. /\ work[w].pc = "Apply" /\ ApplyScheduleDirective(a, d)
      /\ work' = [work EXCEPT ![w] = [work[w] EXCEPT
                    !.deregister = @ /\ RunFinished(w),
                    !.directive = "NoAction", !.ran = FALSE, !.pc = "Release"]]
      /\ UNCHANGED <<gate, mailbox, lifecycle, leases, prod, drainFailed>>
  BY <1>0 DEF CompleteActorRun, SetWorker, WorkerAt, registryVars
<1>3. /\ work'[w].key = a /\ work'[w].pc = "Release"
      /\ work'[w].directive = "NoAction"
      /\ \A v \in Workers : v # w => work'[v] = work[v]
  BY <1>0, <1>t, <1>2 DEF WorkerState
<1>4. Shard[a] = w
  BY <1>0, <1>1, <1>2 DEF Shapes, WorkerShape, LeasedSteps
<1>5. /\ d = "EnqueueReadyToken" =>
            ready' = [ready EXCEPT ![w] = Append(ready[w], a)]
      /\ d # "EnqueueReadyToken" => ready' = ready
      /\ d # "ReleasePermit" => permits' = permits
      /\ d = "ReleasePermit" => permits' = [permits EXCEPT ![w] = IF @ = 0 THEN 0 ELSE @ - 1]
  <2>1. d = "EnqueueReadyToken" => OwedByWorker(a)
    BY <1>0, <1>4 DEF OwedByWorker, TokenOwedBy
  <2> QED
    BY <1>2, <1>4, <2>1, DirectiveEffect
<1>6. ASSUME d = "EnqueueReadyToken" PROVE Shapes' /\ TokenInv' /\ PermitInv'
  <2>1. OwedByWorker(a)
    BY <1>0, <1>4, <1>6 DEF OwedByWorker, TokenOwedBy
  <2>2. /\ ~InQueue(a) /\ ~WorkerIn(a, {"Lease", "Begin"}) /\ ~OwedByProducer(a)
    BY <1>0, <1>1, <1>2, <1>4, <2>1 DEF TokenInv, OneToken, WorkerIn
  <2>3. /\ QueuesSharded' /\ QueuesDistinct'
        /\ \A b \in Actors : InQueue(b)' <=> InQueue(b) \/ b = a
    BY <1>1, <1>4, <1>5, <1>6, <2>2, PushFacts DEF Shapes, TokenInv
  <2>4. \A b \in Actors :
           /\ OwedByWorker(b)' <=> OwedByWorker(b) /\ b # a
           /\ OwedByProducer(b)' <=> OwedByProducer(b)
           /\ \A q \in Producers : TokenOwedBy(prod[q], b)' <=> TokenOwedBy(prod[q], b)
           /\ WorkerIn(b, {"Lease", "Begin"})' <=> WorkerIn(b, {"Lease", "Begin"})
    BY <1>0, <1>1, <1>2, <1>3, <1>4
    DEF WorkerIn, OwedByWorker, OwedByProducer, TokenOwedBy, Keyed
  <2>6. \A b \in Actors : HasToken(b)' <=> HasToken(b)
    BY <2>1, <2>3, <2>4 DEF HasToken
  <2>7. TokenInv'
    <3>1. \A b \in Actors : OneToken(b)'
      BY <1>1, <2>2, <2>3, <2>4 DEF TokenInv, OneToken
    <3> QED
      BY <1>1, <1>2, <2>3, <2>6, <3>1 DEF TokenInv, Registered
  <2>8. Shapes'
    BY <1>1, <1>2, <1>3, <1>4, <2>3 DEF Shapes, WorkerShape, LeasedSteps
  <2>9. PermitInv'
    <3>1. SamePermits
      BY <1>2, <1>3, <1>5, <1>6, <2>6 DEF SamePermits, HoldsPermit
    <3> QED
      BY <1>1, <3>1, PermitKept
  <2> QED
    BY <2>7, <2>8, <2>9
<1>7. ASSUME d # "EnqueueReadyToken" PROVE Shapes' /\ TokenInv' /\ PermitInv'
  <2>1. Shapes'
    BY <1>1, <1>2, <1>3, <1>4, <1>5, <1>7 DEF Shapes, QueuesSharded, WorkerShape, LeasedSteps
  <2>2. TokenInv' /\ \A b \in Actors : HasToken(b)' <=> HasToken(b)
    <3>1. SameTokens
      BY <1>2, <1>3, <1>5, <1>7 DEF SameTokens, Registered
    <3> QED
      BY <1>1, <3>1, TokenKept
  <2>3. PermitInv'
    <3> SUFFICES ASSUME NEW v \in Workers
                 PROVE  /\ permits'[v] <= MaxAdmittedRunnableActors
                        /\ permits'[v] = Cardinality(ActorUses(v)') + Cardinality(ProducerUses(v)')
                             + (IF work'[v].directive = "ReleasePermit" THEN 1 ELSE 0)
      BY DEF PermitInv
    <3> DEFINE releases == d = "ReleasePermit" /\ v = w
    <3>1. ActorUses(v)' = ActorUses(v) /\ ProducerUses(v)' = ProducerUses(v)
      BY <1>2, <2>2 DEF ActorUses, ProducerUses, HoldsPermit
    <3>2. /\ permits[v] <= MaxAdmittedRunnableActors
          /\ permits[v] = Cardinality(ActorUses(v)) + Cardinality(ProducerUses(v))
                          + (IF work[v].directive = "ReleasePermit" THEN 1 ELSE 0)
      BY <1>1 DEF PermitInv
    <3>3. /\ permits[v] \in Nat
          /\ releases /\ permits[v] # 0 => permits'[v] = permits[v] - 1
          /\ ~releases => permits'[v] = permits[v]
      BY <1>1, <1>t, <1>5
    <3>4. /\ releases => work[v].directive = "ReleasePermit" /\ work'[v].directive = "NoAction"
          /\ ~releases => (work'[v].directive = "ReleasePermit" <=> work[v].directive = "ReleasePermit")
      BY <1>3
    <3>5. Cardinality(ActorUses(v)) \in Nat /\ Cardinality(ProducerUses(v)) \in Nat
      BY CountsAreNumbers
    <3> HIDE DEF releases
    <3> QED
      BY <3>1, <3>2, <3>3, <3>4, <3>5, SchedulerAssumption
  <2> QED
    BY <2>1, <2>2, <2>3
<1>8. LeaseInv'
  BY <1>0, <1>1, <1>2, <1>3, LeaseKept DEF SameLeases, Registered, LeasedSteps
<1>9. GateInv'
  BY <1>1, <1>2, <1>3, GateKept DEF SameTickets, DrainSteps
<1>10. MailInv'
  <2>1. SameMail
    BY <1>2, <1>3 DEF SameMail, WillMark
  <2> QED
    BY <1>1, <2>1, MailKept
<1> QED
  BY <1>6, <1>7, <1>8, <1>9, <1>10 DEF SchedInv

\* The worker takes the token at the head of its queue.
LEMMA TryPopReadyQueueKeeps ==
    ASSUME SchedInv, TypeInv', NEW w \in Workers, TryPopReadyQueue(w)
    PROVE  SchedInv'
<1>1. /\ Keyed /\ Shapes /\ LeaseInv /\ GateInv /\ TokenInv /\ PermitInv /\ MailInv
      /\ TypeInv
  BY KeysTyped DEF SchedInv
<1>t. work \in [Workers -> WorkerState] /\ work[w] \in WorkerState
  BY <1>1 DEF TypeInv, TypeOK
<1>2. /\ work[w].pc = "Pop"
      /\ UNCHANGED <<gate, mailbox, permits, lifecycle, leases, prod, drainFailed>>
  BY DEF TryPopReadyQueue, WorkerAt, registryVars
<1>3. work[w].directive = "NoAction"
  BY <1>1, <1>2 DEF Shapes, WorkerShape
<1>4. CASE ready[w] = <<>>
  <2> DEFINE s == [work[w] EXCEPT !.pc = "Wait"]
  <2>1. ready' = ready /\ work'[w] = s /\ \A v \in Workers : v # w => work'[v] = work[v]
    BY <1>t, <1>4 DEF TryPopReadyQueue, Goto, SetWorker
  <2>2. /\ s.pc = "Wait" /\ s.key = work[w].key /\ s.recvDrained = work[w].recvDrained
        /\ s.reschedule = work[w].reschedule /\ s.failed = work[w].failed
        /\ s.directive = work[w].directive
    BY <1>t DEF WorkerState
  <2>3. Quiet
    BY <1>2, <2>1, <2>2 DEF Quiet, RestSteps
  <2> QED
    BY <2>3, QuietKeeps
<1>5. CASE ready[w] # <<>>
  <2>0. PICK a : a = Head(ready[w])
    OBVIOUS
  <2>1. /\ ready' = [ready EXCEPT ![w] = Tail(ready[w])]
        /\ work' = [work EXCEPT ![w] = [work[w] EXCEPT !.pc = "Lease", !.key = a]]
    BY <1>5, <2>0 DEF TryPopReadyQueue, SetWorker
  <2>2. /\ work'[w].pc = "Lease" /\ work'[w].key = a /\ work'[w].directive = "NoAction"
        /\ \A v \in Workers : v # w => work'[v] = work[v]
    BY <1>t, <1>3, <2>1 DEF WorkerState
  <2>3. /\ QueuesSharded' /\ QueuesDistinct'
        /\ a \in Actors /\ Shard[a] = w /\ InQueue(a)
        /\ \A b \in Actors : InQueue(b)' <=> InQueue(b) /\ b # a
    BY <1>1, <1>5, <2>0, <2>1, PopFacts DEF Shapes, TokenInv
  <2>4. Shapes'
    BY <1>1, <1>2, <2>2, <2>3 DEF Shapes, WorkerShape, LeasedSteps, DrainSteps
  <2>5. LeaseInv'
    BY <1>1, <1>2, <2>2, LeaseKept DEF SameLeases, Registered, LeasedSteps, DrainSteps
  <2>6. GateInv'
    BY <1>1, <1>2, <2>2, GateKept DEF SameTickets, DrainSteps
  <2>7. \A b \in Actors :
           /\ WorkerIn(b, {"Lease", "Begin"})' <=> WorkerIn(b, {"Lease", "Begin"}) \/ b = a
           /\ OwedByWorker(b)' <=> OwedByWorker(b)
           /\ OwedByProducer(b)' <=> OwedByProducer(b)
           /\ \A q \in Producers : TokenOwedBy(prod[q], b)' <=> TokenOwedBy(prod[q], b)
    BY <1>1, <1>2, <1>3, <2>2, <2>3
    DEF Keyed, WorkerIn, OwedByWorker, OwedByProducer, TokenOwedBy
  <2>8. \A b \in Actors : HasToken(b)' <=> HasToken(b)
    BY <2>3, <2>7 DEF HasToken
  <2>9. TokenInv'
    <3>1. \A b \in Actors : OneToken(b)'
      BY <1>1, <2>3, <2>7 DEF TokenInv, OneToken
    <3> QED
      BY <1>1, <1>2, <2>3, <2>8, <3>1 DEF TokenInv, Registered
  <2>10. PermitInv'
    <3>1. SamePermits
      BY <1>2, <1>3, <2>2, <2>8 DEF SamePermits, HoldsPermit
    <3> QED
      BY <1>1, <3>1, PermitKept
  <2>11. MailInv'
    <3>1. SameMail
      BY <1>2, <2>2 DEF SameMail, WillMark
    <3> QED
      BY <1>1, <3>1, MailKept
  <2> QED
    BY <2>4, <2>5, <2>6, <2>9, <2>10, <2>11 DEF SchedInv
<1> QED
  BY <1>4, <1>5

\* The worker leases the actor of the token, or drops the token of an erased one.
LEMMA LeaseReadyActorKeeps ==
    ASSUME SchedInv, TypeInv', NEW w \in Workers, LeaseReadyActor(w)
    PROVE  SchedInv'
<1>0. PICK a \in Actors : a = work[w].key
  BY KeysTyped DEF SchedInv, Keyed
<1>1. /\ Keyed /\ Shapes /\ LeaseInv /\ GateInv /\ TokenInv /\ PermitInv /\ MailInv
      /\ TypeInv
  BY KeysTyped DEF SchedInv
<1>t. /\ work \in [Workers -> WorkerState] /\ work[w] \in WorkerState
      /\ leases \in [Actors -> Nat] /\ permits \in [Workers -> Nat]
  BY <1>1 DEF TypeInv, TypeOK
<1>2. /\ work[w].pc = "Lease"
      /\ UNCHANGED <<gate, mailbox, ready, lifecycle, prod, drainFailed>>
  BY DEF LeaseReadyActor, WorkerAt, stopVars
<1>3. work[w].directive = "NoAction" /\ Shard[a] = w
  BY <1>0, <1>1, <1>2 DEF Shapes, WorkerShape
<1>4. CASE Registered(a)
  <2>1. /\ leases' = [leases EXCEPT ![a] = @ + 1] /\ permits' = permits
        /\ work' = [work EXCEPT ![w] = [work[w] EXCEPT !.pc = "Begin"]]
    BY <1>0, <1>4 DEF LeaseReadyActor, AcquireLease, Goto, SetWorker
  <2>2. /\ work'[w].pc = "Begin" /\ work'[w].key = a /\ work'[w].directive = "NoAction"
        /\ \A v \in Workers : v # w => work'[v] = work[v]
        /\ \A b \in Actors : leases'[b] = IF b = a THEN leases[b] + 1 ELSE leases[b]
    BY <1>0, <1>t, <1>3, <2>1 DEF WorkerState
  <2>3. Shapes'
    BY <1>1, <1>2, <1>3, <2>2
    DEF Shapes, QueuesSharded, WorkerShape, LeasedSteps, DrainSteps
  <2>4. LeaseInv'
    <3>1. \A b \in Actors : LeaseHolders(b)' = LeaseHolders(b)
      BY <1>2 DEF LeaseHolders
    <3>2. /\ ~WorkerIn(a, LeasedSteps) /\ WorkerIn(a, LeasedSteps)'
          /\ \A b \in Actors : b # a => (WorkerIn(b, LeasedSteps)' <=> WorkerIn(b, LeasedSteps))
      BY <1>0, <1>1, <1>2, <1>3, <2>2 DEF Keyed, WorkerIn, LeasedSteps, DrainSteps
    <3>3. ASSUME NEW b \in Actors
          PROVE  leases'[b] = Cardinality(LeaseHolders(b)')
                              + (IF WorkerIn(b, LeasedSteps)' THEN 1 ELSE 0)
      <4>1. leases[b] = Cardinality(LeaseHolders(b))
                        + (IF WorkerIn(b, LeasedSteps) THEN 1 ELSE 0)
        BY <1>1 DEF LeaseInv
      <4>2. Cardinality(LeaseHolders(b)) \in Nat
        BY CountsAreNumbers
      <4> QED
        BY <2>2, <3>1, <3>2, <4>1, <4>2
    <3>4. \A v \in Workers : work'[v].pc \in LeasedSteps => Registered(work[v].key)'
      BY <1>0, <1>1, <1>2, <1>4, <2>2 DEF LeaseInv, Registered
    <3> QED
      BY <1>1, <1>2, <3>3, <3>4 DEF LeaseInv, Registered
  <2>5. GateInv'
    BY <1>1, <1>2, <2>2, GateKept DEF SameTickets, DrainSteps
  <2>6. TokenInv' /\ \A b \in Actors : HasToken(b)' <=> HasToken(b)
    <3>1. SameTokens
      BY <1>0, <1>2, <1>3, <2>2 DEF SameTokens, Registered
    <3> QED
      BY <1>1, <3>1, TokenKept
  <2>7. PermitInv'
    <3>1. SamePermits
      BY <1>2, <1>3, <2>1, <2>2, <2>6 DEF SamePermits, HoldsPermit
    <3> QED
      BY <1>1, <3>1, PermitKept
  <2>8. MailInv'
    <3>1. SameMail
      BY <1>2, <2>2 DEF SameMail, WillMark
    <3> QED
      BY <1>1, <3>1, MailKept
  <2> QED
    BY <2>3, <2>4, <2>5, <2>6, <2>7, <2>8 DEF SchedInv
<1>5. CASE ~Registered(a)
  <2>1. /\ leases' = leases /\ work' = [work EXCEPT ![w] = IdleWorker]
        /\ permits' = [permits EXCEPT ![w] = IF @ = 0 THEN 0 ELSE @ - 1]
    BY <1>0, <1>5 DEF LeaseReadyActor, ReleaseRunnablePermit, SetWorker
  <2>2. /\ work'[w].pc = "Pop" /\ work'[w].directive = "NoAction"
        /\ \A v \in Workers : v # w => work'[v] = work[v]
    BY <1>t, <2>1 DEF IdleWorker
  <2>3. Shapes'
    BY <1>1, <1>2, <2>2 DEF Shapes, QueuesSharded, WorkerShape, LeasedSteps, DrainSteps
  <2>4. LeaseInv'
    BY <1>1, <1>2, <2>1, <2>2, LeaseKept DEF SameLeases, Registered, LeasedSteps, DrainSteps
  <2>5. GateInv'
    BY <1>1, <1>2, <2>2, GateKept DEF SameTickets, DrainSteps
  <2>6. \A b \in Actors :
           /\ InQueue(b)' <=> InQueue(b)
           /\ WorkerIn(b, {"Lease", "Begin"})' <=> WorkerIn(b, {"Lease", "Begin"}) /\ b # a
           /\ OwedByWorker(b)' <=> OwedByWorker(b)
           /\ OwedByProducer(b)' <=> OwedByProducer(b)
           /\ \A q \in Producers : TokenOwedBy(prod[q], b)' <=> TokenOwedBy(prod[q], b)
    BY <1>0, <1>1, <1>2, <1>3, <2>2
    DEF Keyed, InQueue, WorkerIn, OwedByWorker, OwedByProducer, TokenOwedBy
  <2>7. /\ WorkerIn(a, {"Lease", "Begin"}) /\ ~OwedByWorker(a)
        /\ ~InQueue(a) /\ ~OwedByProducer(a)
    BY <1>0, <1>1, <1>2, <1>3 DEF TokenInv, OneToken, WorkerIn, OwedByWorker, TokenOwedBy
  <2>8. \A b \in Actors : HasToken(b)' <=> HasToken(b) /\ b # a
    BY <2>6, <2>7 DEF HasToken
  <2>9. TokenInv'
    <3>1. \A b \in Actors : OneToken(b)'
      BY <1>1, <2>6 DEF TokenInv, OneToken
    <3> QED
      BY <1>1, <1>2, <1>5, <2>8, <3>1 DEF TokenInv, QueuesDistinct, Registered
  <2>10. PermitInv'
    <3> SUFFICES ASSUME NEW v \in Workers
                 PROVE  /\ permits'[v] <= MaxAdmittedRunnableActors
                        /\ permits'[v] = Cardinality(ActorUses(v)') + Cardinality(ProducerUses(v)')
                             + (IF work'[v].directive = "ReleasePermit" THEN 1 ELSE 0)
      BY DEF PermitInv
    <3>1. ProducerUses(v)' = ProducerUses(v)
      BY <1>2 DEF ProducerUses, HoldsPermit
    <3>2. /\ Cardinality(ActorUses(v)) = Cardinality(ActorUses(v)') + (IF v = w THEN 1 ELSE 0)
          /\ Cardinality(ActorUses(v)') \in Nat
      <4>1. gate[a].phase = "Scheduled" /\ HasToken(a)
        BY <1>1, <2>7 DEF TokenInv, HasToken
      <4>2. /\ ActorUses(v) \in SUBSET Actors /\ ActorUses(v)' \in SUBSET Actors
            /\ \A b \in Actors : b # a => (b \in ActorUses(v) <=> b \in ActorUses(v)')
            /\ a \notin ActorUses(v)' /\ (a \in ActorUses(v) <=> v = w)
        BY <1>2, <1>3, <2>8, <4>1 DEF ActorUses
      <4> QED
        BY <4>2, CountStep, SchedulerAssumption
    <3>3. /\ permits[v] <= MaxAdmittedRunnableActors
          /\ permits[v] = Cardinality(ActorUses(v)) + Cardinality(ProducerUses(v))
                          + (IF work[v].directive = "ReleasePermit" THEN 1 ELSE 0)
      BY <1>1 DEF PermitInv
    <3>4. /\ permits[v] \in Nat
          /\ v = w /\ permits[v] # 0 => permits'[v] = permits[v] - 1
          /\ v # w => permits'[v] = permits[v]
          /\ work'[v].directive = "ReleasePermit" <=> work[v].directive = "ReleasePermit"
      BY <1>t, <1>3, <2>1, <2>2
    <3>5. Cardinality(ProducerUses(v)) \in Nat
      BY CountsAreNumbers
    <3> QED
      BY <3>1, <3>2, <3>3, <3>4, <3>5, SchedulerAssumption
  <2>11. MailInv'
    <3>1. SameMail
      BY <1>2, <2>2 DEF SameMail, WillMark
    <3> QED
      BY <1>1, <3>1, MailKept
  <2> QED
    BY <2>3, <2>4, <2>5, <2>9, <2>10, <2>11 DEF SchedInv
<1> QED
  BY <1>4, <1>5

\* TryBeginDrain: the token is spent and the actor is draining.
LEMMA BeginDrainKeeps ==
    ASSUME SchedInv, TypeInv', NEW w \in Workers, BeginDrain(w)
    PROVE  SchedInv'
<1>0. PICK a \in Actors : a = work[w].key
  BY KeysTyped DEF SchedInv, Keyed
<1>1. /\ Keyed /\ Shapes /\ LeaseInv /\ GateInv /\ TokenInv /\ PermitInv /\ MailInv
      /\ TypeInv
  BY KeysTyped DEF SchedInv
<1>t. /\ work \in [Workers -> WorkerState] /\ work[w] \in WorkerState
      /\ gate \in [Actors -> GateWord] /\ gate[a] \in GateWord
  BY <1>1 DEF TypeInv, TypeOK
<1>2. /\ work[w].pc = "Begin"
      /\ UNCHANGED <<mailbox, permits, ready, lifecycle, leases, prod, drainFailed>>
  BY DEF BeginDrain, WorkerAt, registryVars
<1>3. work[w].directive = "NoAction" /\ Shard[a] = w
  BY <1>0, <1>1, <1>2 DEF Shapes, WorkerShape, LeasedSteps
<1>4. /\ WorkerIn(a, {"Lease", "Begin"}) /\ ~OwedByWorker(a)
      /\ ~InQueue(a) /\ ~OwedByProducer(a)
  BY <1>0, <1>1, <1>2, <1>3 DEF TokenInv, OneToken, WorkerIn, OwedByWorker, TokenOwedBy
<1>5. gate[a].phase = "Scheduled"
  BY <1>1, <1>4 DEF TokenInv, HasToken
<1>6. /\ gate' = [gate EXCEPT ![a] = TryBeginDrain(gate[a])]
      /\ work' = [work EXCEPT ![w] = [work[w] EXCEPT !.pc = "DrainAcceptRecv"]]
  BY <1>0, <1>5 DEF BeginDrain, CanBeginDrain, Goto, SetWorker
<1>7. /\ work'[w].pc = "DrainAcceptRecv" /\ work'[w].key = a
      /\ work'[w].directive = "NoAction"
      /\ \A v \in Workers : v # w => work'[v] = work[v]
  BY <1>0, <1>t, <1>3, <1>6 DEF WorkerState
<1>8. /\ gate'[a].phase = "Draining" /\ gate'[a].inFlight = gate[a].inFlight
      /\ \A b \in Actors : b # a => gate'[b] = gate[b]
  <2>1. /\ gate'[a] = TryBeginDrain(gate[a])
        /\ \A b \in Actors : b # a => gate'[b] = gate[b]
    BY <1>t, <1>6
  <2> QED
    BY <1>t, <2>1 DEF TryBeginDrain, ClearDrainFlags, GateWord
<1>9. Shapes'
  BY <1>1, <1>2, <1>3, <1>7
  DEF Shapes, QueuesSharded, WorkerShape, LeasedSteps, DrainSteps
<1>10. LeaseInv'
  BY <1>0, <1>1, <1>2, <1>7, LeaseKept DEF SameLeases, Registered, LeasedSteps, DrainSteps
<1>11. GateInv'
  <2>1. \A b \in Actors : TicketHolders(b)' = TicketHolders(b)
    BY <1>2 DEF TicketHolders
  <2>2. \A b \in Actors : WorkerIn(b, DrainSteps)' <=> WorkerIn(b, DrainSteps) \/ b = a
    BY <1>0, <1>1, <1>2, <1>3, <1>7 DEF Keyed, WorkerIn, DrainSteps
  <2>3. \A b \in Actors : GateShape(b)'
    BY <1>1, <1>2, <1>8, <2>2 DEF GateInv, GateShape
  <2>4. \A q \in Producers : prod'[q].ticket = "RequiresNewPermit"
           => gate'[prod'[q].key].phase = "Admitting"
    BY <1>1, <1>2, <1>5, <1>8 DEF GateInv, Keyed
  <2> QED
    BY <1>1, <1>8, <2>1, <2>3, <2>4 DEF GateInv
<1>12. \A b \in Actors :
         /\ InQueue(b)' <=> InQueue(b)
         /\ WorkerIn(b, {"Lease", "Begin"})' <=> WorkerIn(b, {"Lease", "Begin"}) /\ b # a
         /\ OwedByWorker(b)' <=> OwedByWorker(b)
         /\ OwedByProducer(b)' <=> OwedByProducer(b)
         /\ \A q \in Producers : TokenOwedBy(prod[q], b)' <=> TokenOwedBy(prod[q], b)
  BY <1>0, <1>1, <1>2, <1>3, <1>7
  DEF Keyed, InQueue, WorkerIn, OwedByWorker, OwedByProducer, TokenOwedBy
<1>13. \A b \in Actors : HasToken(b)' <=> HasToken(b) /\ b # a
  BY <1>4, <1>12 DEF HasToken
<1>14. TokenInv'
  <2>1. \A b \in Actors : OneToken(b)'
    BY <1>1, <1>12 DEF TokenInv, OneToken
  <2> QED
    BY <1>1, <1>2, <1>8, <1>13, <2>1 DEF TokenInv, QueuesDistinct, Registered
<1>15. PermitInv'
  <2>1. SamePermits
    BY <1>2, <1>3, <1>4, <1>7, <1>8, <1>13 DEF SamePermits, HoldsPermit, HasToken
  <2> QED
    BY <1>1, <2>1, PermitKept
<1>16. MailInv'
  <2>1. \A b \in Actors, l \in Lanes : b # a => (Promised(b, l)' <=> Promised(b, l))
    BY <1>2, <1>8 DEF Promised, WillMark
  <2>2. SlotsOwned'
    BY <1>1, <1>2 DEF MailInv, SlotsOwned
  <2>3. IdleIsEmpty' /\ AdmittingPromised' /\ CompletingPromised'
    BY <1>1, <1>2, <1>8, <2>1
    DEF MailInv, IdleIsEmpty, AdmittingPromised, CompletingPromised, WillMark
  <2>4. ASSUME NEW v \in Workers, work'[v].pc \in {"DrainSend", "EndDrain"}
        PROVE  v # w /\ work'[v] = work[v] /\ work[v].key # a /\ work[v].key \in Actors
    <3>1. v # w /\ work'[v] = work[v]
      BY <1>7, <2>4
    <3>2. gate[work[v].key].phase = "Draining"
      BY <1>1, <2>4, <3>1, DrainFacts DEF DrainSteps
    <3> QED
      BY <1>1, <1>5, <3>1, <3>2 DEF Keyed
  <2>5. ReceiveLanePromised'
    BY <1>1, <2>1, <2>4 DEF MailInv, ReceiveLanePromised, Lanes
  <2>6. DrainPromised'
    BY <1>1, <2>1, <2>4 DEF MailInv, DrainPromised
  <2> QED
    BY <2>2, <2>3, <2>5, <2>6 DEF MailInv
<1> QED
  BY <1>9, <1>10, <1>11, <1>14, <1>15, <1>16 DEF SchedInv

\* A step inside a drain touches nothing but the mailbox and the worker's locals.
LEMMA InsideDrainKeeps ==
    ASSUME SchedInv, TypeInv', NEW w \in Workers,
           work[w].pc \in DrainSteps, work'[w].pc \in DrainSteps,
           work'[w].key = work[w].key, work'[w].directive = work[w].directive,
           \A v \in Workers : v # w => work'[v] = work[v],
           UNCHANGED <<gate, permits, ready, lifecycle, leases, prod, drainFailed>>,
           MailInv'
    PROVE  SchedInv'
<1>1. /\ Keyed /\ Shapes /\ LeaseInv /\ GateInv /\ TokenInv /\ PermitInv
  BY KeysTyped DEF SchedInv
<1>2. Shapes'
  BY <1>1 DEF Shapes, QueuesSharded, WorkerShape, LeasedSteps, DrainSteps
<1>3. LeaseInv'
  BY <1>1, LeaseKept DEF SameLeases, Registered, LeasedSteps, DrainSteps
<1>4. GateInv'
  BY <1>1, GateKept DEF SameTickets, DrainSteps
<1>5. TokenInv' /\ \A b \in Actors : HasToken(b)' <=> HasToken(b)
  <2>1. SameTokens
    BY DEF SameTokens, Registered, DrainSteps
  <2> QED
    BY <1>1, <2>1, TokenKept
<1>6. PermitInv'
  <2>1. SamePermits
    BY <1>5 DEF SamePermits, HoldsPermit
  <2> QED
    BY <1>1, <2>1, PermitKept
<1> QED
  BY <1>2, <1>3, <1>4, <1>5, <1>6 DEF SchedInv

\* Taking the published head out of a lane keeps every promise, and a lane whose
\* head is not published is promised: a producer is about to publish it.
LEMMA DrainOneMail ==
    ASSUME SchedInv, NEW a \in Actors, NEW l \in Lanes,
           mailbox[a][l] # <<>>, gate[a].phase = "Draining",
           mailbox' = [mailbox EXCEPT ![a][l] = Tail(mailbox[a][l])],
           UNCHANGED <<gate, prod, drainFailed>>
    PROVE  /\ SlotsOwned' /\ IdleIsEmpty' /\ AdmittingPromised' /\ CompletingPromised'
           /\ \A b \in Actors, k \in Lanes : Promised(b, k) => Promised(b, k)'
<1>1. MailInv /\ mailbox \in [Actors -> [Lanes -> Seq(Producers \cup {Mail})]]
  BY DEF SchedInv, TypeInv, TypeOK
<1>2. \A b \in Actors, k \in Lanes : b # a \/ k # l => mailbox'[b][k] = mailbox[b][k]
  BY <1>1
<1>3. mailbox'[a][l] = Tail(mailbox[a][l])
  BY <1>1
<1>4. \A b \in Actors, k \in Lanes : Promised(b, k) => Promised(b, k)'
  BY <1>2 DEF Promised, WillMark
<1>5. SlotsOwned'
  <2> SUFFICES ASSUME NEW b \in Actors, NEW k \in Lanes,
                      NEW i \in 1 .. Len(mailbox'[b][k]), mailbox'[b][k][i] # Mail
               PROVE  \E q \in Producers : /\ mailbox'[b][k][i] = q
                                           /\ prod'[q].pc = "Publish"
                                           /\ prod'[q].key = b /\ prod'[q].lane = k
    BY DEF SlotsOwned
  <2>1. CASE b # a \/ k # l
    BY <1>1, <1>2, <2>1 DEF MailInv, SlotsOwned
  <2>2. CASE b = a /\ k = l
    <3> DEFINE q == mailbox[a][l]
    <3>1. q \in Seq(Producers \cup {Mail}) /\ q # <<>>
      BY <1>1
    <3>2. \A j \in 1 .. Len(Tail(q)) : Tail(q)[j] = q[j + 1] /\ j + 1 \in 1 .. Len(q)
      <4> HIDE DEF q
      <4> QED
        BY <3>1, TailFacts
    <3>3. mailbox'[b][k][i] = mailbox[b][k][i + 1] /\ i + 1 \in 1 .. Len(mailbox[b][k])
      BY <1>3, <2>2, <3>2
    <3> QED
      BY <1>1, <3>3 DEF MailInv, SlotsOwned
  <2> QED
    BY <2>1, <2>2
<1>6. IdleIsEmpty' /\ AdmittingPromised' /\ CompletingPromised'
  BY <1>1, <1>2, <1>4
  DEF MailInv, IdleIsEmpty, AdmittingPromised, CompletingPromised, WillMark
<1> QED
  BY <1>4, <1>5, <1>6

\* A lane whose head is not published is promised.
LEMMA UnpublishedIsPromised ==
    ASSUME SchedInv, NEW a \in Actors, NEW l \in Lanes, ~HeadPublished(mailbox[a][l])
    PROVE  Promised(a, l)
<1> SUFFICES ASSUME mailbox[a][l] # <<>> PROVE \E p \in Producers : WillMark(p, a)
  BY DEF Promised
<1> DEFINE q == mailbox[a][l]
<1>1. q \in Seq(Producers \cup {Mail}) /\ q # <<>> /\ Head(q) # Mail
  BY DEF SchedInv, TypeInv, TypeOK, HeadPublished
<1>2. Head(q) = q[1] /\ 1 \in 1 .. Len(q)
  <2> HIDE DEF q
  <2> QED
    BY <1>1, TailFacts
<1>3. \E p \in Producers : q[1] = p /\ prod[p].pc = "Publish" /\ prod[p].key = a
  BY <1>1, <1>2 DEF SchedInv, MailInv, SlotsOwned
<1> QED
  BY <1>3 DEF WillMark

\* Draining one event of a lane, whatever its handler answers.
LEMMA DrainOneKeeps ==
    ASSUME SchedInv, TypeInv', NEW w \in Workers, NEW l \in Lanes, NEW next,
           work[w].pc \in {"DrainAcceptRecv", "DrainSend"},
           HeadPublished(mailbox[work[w].key][l]), DrainOne(w, l, next),
           \/ l = "AcceptRecv" /\ next = "DrainSend"
           \/ l = "Send" /\ next = "DrainAcceptRecv",
           UNCHANGED <<gate, permits, ready, lifecycle, leases, prod, drainFailed>>
    PROVE  SchedInv'
<1>0. PICK a \in Actors : a = work[w].key
  BY KeysTyped DEF SchedInv, Keyed
<1> DEFINE n == work[w].drained + 1
           failed == [work[w] EXCEPT !.failed = TRUE, !.pc = "EndDrain"]
           handled == [work[w] EXCEPT
                         !.drained = n, !.recvDrained = (l = "AcceptRecv"),
                         !.reschedule = (n = DrainBudget),
                         !.pc = IF n = DrainBudget THEN "EndDrain" ELSE next]
<1>1. /\ Keyed /\ Shapes /\ GateInv /\ MailInv /\ TypeInv
  BY KeysTyped DEF SchedInv
<1>t. work \in [Workers -> WorkerState] /\ work[w] \in WorkerState
  BY <1>1 DEF TypeInv, TypeOK
<1>2. /\ mailbox[a][l] # <<>>
      /\ mailbox' = [mailbox EXCEPT ![a][l] = Tail(mailbox[a][l])]
      /\ work' = [work EXCEPT ![w] = failed] \/ work' = [work EXCEPT ![w] = handled]
  BY <1>0 DEF DrainOne, SetWorker, HeadPublished
<1>3. /\ work'[w] = failed \/ work'[w] = handled
      /\ \A v \in Workers : v # w => work'[v] = work[v]
  <2> HIDE DEF failed, handled
  <2> QED
    BY <1>t, <1>2
<1>4. /\ failed.pc = "EndDrain" /\ failed.failed = TRUE
      /\ failed.key = a /\ failed.directive = work[w].directive
      /\ handled.pc = (IF n = DrainBudget THEN "EndDrain" ELSE next)
      /\ handled.reschedule = (n = DrainBudget)
      /\ handled.recvDrained = (l = "AcceptRecv")
      /\ handled.key = a /\ handled.directive = work[w].directive
  BY <1>0, <1>t DEF WorkerState
<1> HIDE DEF failed, handled
<1>5. /\ work'[w].key = a /\ work'[w].directive = work[w].directive
      /\ work'[w].pc \in DrainSteps
      /\ work'[w].pc = "DrainSend" => work'[w].recvDrained
      /\ work'[w].pc = "EndDrain" => work'[w].failed \/ work'[w].reschedule
  BY <1>3, <1>4 DEF DrainSteps
<1>6. gate[a].phase = "Draining"
  BY <1>0, <1>1, DrainFacts DEF DrainSteps
<1>7. /\ SlotsOwned' /\ IdleIsEmpty' /\ AdmittingPromised' /\ CompletingPromised'
      /\ \A b \in Actors, k \in Lanes : Promised(b, k) => Promised(b, k)'
  BY <1>2, <1>6, DrainOneMail
<1>8. ReceiveLanePromised' /\ DrainPromised'
  BY <1>1, <1>3, <1>5, <1>7
  DEF MailInv, ReceiveLanePromised, DrainPromised, Keyed, Lanes
<1>9. MailInv'
  BY <1>7, <1>8 DEF MailInv
<1> QED
  BY <1>0, <1>3, <1>5, <1>9, InsideDrainKeeps DEF DrainSteps

\* One receive event, or on to the send lane.
LEMMA TryDrainOneAcceptRecvEventKeeps ==
    ASSUME SchedInv, TypeInv', NEW w \in Workers, TryDrainOneAcceptRecvEvent(w)
    PROVE  SchedInv'
<1>0. PICK a \in Actors : a = work[w].key
  BY KeysTyped DEF SchedInv, Keyed
<1>1. /\ Keyed /\ MailInv /\ TypeInv
  BY KeysTyped DEF SchedInv
<1>t. work \in [Workers -> WorkerState] /\ work[w] \in WorkerState
  BY <1>1 DEF TypeInv, TypeOK
<1>2. /\ work[w].pc = "DrainAcceptRecv"
      /\ UNCHANGED <<gate, permits, ready, lifecycle, leases, prod, drainFailed>>
  BY DEF TryDrainOneAcceptRecvEvent, WorkerAt, registryVars
<1>3. CASE HeadPublished(mailbox[a]["AcceptRecv"])
  <2>1. DrainOne(w, "AcceptRecv", "DrainSend")
    BY <1>0, <1>3 DEF TryDrainOneAcceptRecvEvent
  <2> QED
    BY <1>0, <1>2, <1>3, <2>1, DrainOneKeeps DEF Lanes
<1>4. CASE ~HeadPublished(mailbox[a]["AcceptRecv"])
  <2>1. /\ mailbox' = mailbox
        /\ work' = [work EXCEPT ![w] = [work[w] EXCEPT !.recvDrained = FALSE,
                                                       !.pc = "DrainSend"]]
    BY <1>0, <1>4 DEF TryDrainOneAcceptRecvEvent, SetWorker
  <2>2. /\ work'[w].pc = "DrainSend" /\ work'[w].key = a
        /\ work'[w].directive = work[w].directive
        /\ \A v \in Workers : v # w => work'[v] = work[v]
    BY <1>0, <1>t, <2>1 DEF WorkerState
  <2>3. \A b \in Actors, l \in Lanes : Promised(b, l)' <=> Promised(b, l)
    BY <1>2, <2>1 DEF Promised, WillMark
  <2>4. Promised(a, "AcceptRecv")
    BY <1>4, UnpublishedIsPromised DEF Lanes
  <2>5. ReceiveLanePromised'
    BY <1>1, <2>2, <2>3, <2>4 DEF MailInv, ReceiveLanePromised, Keyed, Lanes
  <2>6. DrainPromised'
    BY <1>1, <2>2, <2>3 DEF MailInv, DrainPromised, Keyed
  <2>7. SlotsOwned' /\ IdleIsEmpty' /\ AdmittingPromised' /\ CompletingPromised'
    BY <1>1, <1>2, <2>1, <2>3
    DEF MailInv, SlotsOwned, IdleIsEmpty, AdmittingPromised, CompletingPromised, WillMark
  <2>8. MailInv'
    BY <2>5, <2>6, <2>7 DEF MailInv
  <2> QED
    BY <1>0, <1>2, <2>2, <2>8, InsideDrainKeeps DEF DrainSteps
<1> QED
  BY <1>3, <1>4

\* One send event, another round, or the end of the drain.
LEMMA TryDrainOneSendEventKeeps ==
    ASSUME SchedInv, TypeInv', NEW w \in Workers, TryDrainOneSendEvent(w)
    PROVE  SchedInv'
<1>0. PICK a \in Actors : a = work[w].key
  BY KeysTyped DEF SchedInv, Keyed
<1>1. /\ Keyed /\ MailInv /\ TypeInv
  BY KeysTyped DEF SchedInv
<1>t. work \in [Workers -> WorkerState] /\ work[w] \in WorkerState
  BY <1>1 DEF TypeInv, TypeOK
<1>2. /\ work[w].pc = "DrainSend"
      /\ UNCHANGED <<gate, permits, ready, lifecycle, leases, prod, drainFailed>>
  BY DEF TryDrainOneSendEvent, WorkerAt, registryVars
<1>3. CASE HeadPublished(mailbox[a]["Send"])
  <2>1. DrainOne(w, "Send", "DrainAcceptRecv")
    BY <1>0, <1>3 DEF TryDrainOneSendEvent
  <2> QED
    BY <1>0, <1>2, <1>3, <2>1, DrainOneKeeps DEF Lanes
<1>4. CASE ~HeadPublished(mailbox[a]["Send"])
  <2> DEFINE next == IF work[w].recvDrained THEN "DrainAcceptRecv" ELSE "EndDrain"
  <2>1. /\ mailbox' = mailbox
        /\ work' = [work EXCEPT ![w] = [work[w] EXCEPT !.pc = next]]
    BY <1>0, <1>4 DEF TryDrainOneSendEvent, Goto, SetWorker
  <2>2. /\ work'[w].pc = next /\ work'[w].key = a
        /\ work'[w].directive = work[w].directive
        /\ work'[w].recvDrained = work[w].recvDrained
        /\ \A v \in Workers : v # w => work'[v] = work[v]
    BY <1>0, <1>t, <2>1 DEF WorkerState
  <2>3. \A b \in Actors, l \in Lanes : Promised(b, l)' <=> Promised(b, l)
    BY <1>2, <2>1 DEF Promised, WillMark
  <2>4. Promised(a, "Send")
    BY <1>4, UnpublishedIsPromised DEF Lanes
  <2>5. ReceiveLanePromised'
    BY <1>1, <2>2, <2>3 DEF MailInv, ReceiveLanePromised, Keyed, Lanes
  <2>6. DrainPromised'
    <3>1. ~work[w].recvDrained => Promised(a, "AcceptRecv")
      BY <1>0, <1>1, <1>2 DEF MailInv, ReceiveLanePromised
    <3> QED
      BY <1>1, <2>2, <2>3, <2>4, <3>1 DEF MailInv, DrainPromised, Keyed, Lanes
  <2>7. SlotsOwned' /\ IdleIsEmpty' /\ AdmittingPromised' /\ CompletingPromised'
    BY <1>1, <1>2, <2>1, <2>3
    DEF MailInv, SlotsOwned, IdleIsEmpty, AdmittingPromised, CompletingPromised, WillMark
  <2>8. MailInv'
    BY <2>5, <2>6, <2>7 DEF MailInv
  <2> QED
    BY <1>0, <1>2, <2>2, <2>8, InsideDrainKeeps DEF DrainSteps
<1> QED
  BY <1>3, <1>4

\* What completing a drain does to the word, case by case.
LEMMA CompleteDrainOutcome ==
    ASSUME NEW g \in GateWord, NEW b \in BOOLEAN, g.phase = "Draining"
    PROVE  LET c == CompleteDrain(g, b)
               again == g.pending \/ g.resched \/ b IN
           /\ c.word.inFlight = g.inFlight
           /\ g.inFlight # 0 =>
                 /\ c.word.phase = "DrainCompleting" /\ c.directive = "FinalizationDeferred"
                 /\ c.word.pending = g.pending
                 /\ b => c.word.resched
           /\ g.inFlight = 0 =>
                 /\ c.word.phase = IF again THEN "Scheduled" ELSE "Idle"
                 /\ c.directive = IF again THEN "EnqueueReadyToken" ELSE "ReleasePermit"
<1> DEFINE d == [g EXCEPT !.resched = @ \/ b]
           held == [d EXCEPT !.phase = "DrainCompleting"]
<1>1. /\ d \in GateWord /\ d.inFlight = g.inFlight /\ d.pending = g.pending
      /\ d.resched <=> (g.resched \/ b)
  BY DEF GateWord
<1>2. /\ held.inFlight = g.inFlight /\ held.phase = "DrainCompleting"
      /\ held.pending = g.pending /\ held.resched = d.resched
  <2> HIDE DEF d
  <2> QED
    BY <1>1 DEF GateWord
<1>3. /\ Settle(d).inFlight = d.inFlight
      /\ Settle(d).phase = IF d.pending \/ d.resched THEN "Scheduled" ELSE "Idle"
      /\ SettleDirective(d) = IF d.pending \/ d.resched THEN "EnqueueReadyToken"
                                                        ELSE "ReleasePermit"
  <2> HIDE DEF d
  <2> QED
    BY <1>1 DEF Settle, SettleDirective, ClearDrainFlags, GateWord
<1>4. CompleteDrain(g, b) = IF g.inFlight > 0
                            THEN [word |-> held, directive |-> "FinalizationDeferred"]
                            ELSE [word |-> Settle(d), directive |-> SettleDirective(d)]
  BY DEF CompleteDrain
<1>5. g.inFlight \in Nat
  BY InFlightArithmetic
<1> HIDE DEF d, held
<1> QED
  BY <1>1, <1>2, <1>3, <1>4, <1>5

\* CompleteDrain settles the word, or leaves that to the last producer.
LEMMA EndDrainKeeps ==
    ASSUME SchedInv, TypeInv', NEW w \in Workers, EndDrain(w)
    PROVE  SchedInv'
<1>0. PICK a \in Actors : a = work[w].key
  BY KeysTyped DEF SchedInv, Keyed
<1> DEFINE b == ~work[w].failed /\ work[w].reschedule
           c == CompleteDrain(gate[a], b)
           again == gate[a].pending \/ gate[a].resched \/ b
           d == work'[w].directive
<1>1. /\ Keyed /\ Shapes /\ LeaseInv /\ GateInv /\ TokenInv /\ PermitInv /\ MailInv
      /\ TypeInv
  BY KeysTyped DEF SchedInv
<1>t. /\ work \in [Workers -> WorkerState] /\ work[w] \in WorkerState
      /\ gate \in [Actors -> GateWord] /\ gate[a] \in GateWord
  BY <1>1 DEF TypeInv, TypeOK
<1>2. /\ work[w].pc = "EndDrain"
      /\ gate' = [gate EXCEPT ![a] = c.word]
      /\ work' = [work EXCEPT ![w] = [IdleWorker EXCEPT
                    !.pc = "Report", !.key = a, !.ran = TRUE,
                    !.failed = work[w].failed, !.directive = c.directive]]
      /\ drainFailed' = IF work[w].failed THEN drainFailed \cup {a} ELSE drainFailed \ {a}
      /\ UNCHANGED <<mailbox, permits, ready, lifecycle, leases, prod>>
  BY <1>0 DEF EndDrain, SetWorker, WorkerAt, registryVars
<1>3. gate[a].phase = "Draining" /\ Shard[a] = w
  BY <1>0, <1>1, <1>2, DrainFacts DEF DrainSteps
<1>4. work[w].directive = "NoAction"
  BY <1>1, <1>2 DEF Shapes, WorkerShape
<1>5. /\ c.word.inFlight = gate[a].inFlight
      /\ gate[a].inFlight # 0 =>
            /\ c.word.phase = "DrainCompleting" /\ c.directive = "FinalizationDeferred"
            /\ c.word.pending = gate[a].pending
            /\ b => c.word.resched
      /\ gate[a].inFlight = 0 =>
            /\ c.word.phase = IF again THEN "Scheduled" ELSE "Idle"
            /\ c.directive = IF again THEN "EnqueueReadyToken" ELSE "ReleasePermit"
  <2>1. b \in BOOLEAN
    OBVIOUS
  <2> HIDE DEF b
  <2> QED
    BY <1>t, <1>3, <2>1, CompleteDrainOutcome
<1> HIDE DEF c
<1>6. /\ work'[w].pc = "Report" /\ work'[w].key = a /\ d = c.directive
      /\ \A v \in Workers : v # w => work'[v] = work[v]
      /\ gate'[a] = c.word /\ \A e \in Actors : e # a => gate'[e] = gate[e]
  BY <1>t, <1>2 DEF IdleWorker
<1> DEFINE defers == /\ gate[a].inFlight # 0 /\ gate'[a].inFlight = gate[a].inFlight
                     /\ gate'[a].phase = "DrainCompleting" /\ d = "FinalizationDeferred"
                     /\ gate'[a].pending = gate[a].pending
                     /\ b => gate'[a].resched
           settles == /\ gate[a].inFlight = 0 /\ gate'[a].inFlight = 0
                      /\ gate'[a].phase = IF again THEN "Scheduled" ELSE "Idle"
                      /\ d = IF again THEN "EnqueueReadyToken" ELSE "ReleasePermit"
<1>7. defers \/ settles
  BY <1>5, <1>6
<1> HIDE DEF defers, settles
<1>8. Shapes'
  BY <1>1, <1>2, <1>3, <1>6 DEF Shapes, QueuesSharded, WorkerShape, LeasedSteps, DrainSteps
<1>9. LeaseInv'
  BY <1>0, <1>1, <1>2, <1>6, LeaseKept DEF SameLeases, Registered, LeasedSteps, DrainSteps
<1>10. GateInv'
  <2>1. \A e \in Actors : TicketHolders(e)' = TicketHolders(e)
    BY <1>2 DEF TicketHolders
  <2>2. \A e \in Actors : WorkerIn(e, DrainSteps)' <=> WorkerIn(e, DrainSteps) /\ e # a
    BY <1>0, <1>1, <1>2, <1>3, <1>6 DEF Keyed, WorkerIn, DrainSteps
  <2>3. ASSUME NEW e \in Actors PROVE GateShape(e)'
    <3>1. GateShape(e)
      BY <1>1 DEF GateInv
    <3>2. CASE e = a
      BY <1>7, <2>2, <3>2 DEF GateShape, defers, settles
    <3>3. CASE e # a
      BY <1>2, <1>6, <2>2, <3>1, <3>3 DEF GateShape
    <3> QED
      BY <3>2, <3>3
  <2>4. \A q \in Producers : prod'[q].ticket = "RequiresNewPermit"
           => gate'[prod'[q].key].phase = "Admitting"
    BY <1>1, <1>2, <1>3, <1>6 DEF GateInv, Keyed
  <2>5. \A e \in Actors : gate'[e].inFlight = gate[e].inFlight
    BY <1>6, <1>7 DEF defers, settles
  <2> QED
    BY <1>1, <2>1, <2>3, <2>4, <2>5 DEF GateInv
<1> DEFINE owes == d = "EnqueueReadyToken"
<1>11. owes <=> gate'[a].phase = "Scheduled"
  BY <1>7 DEF defers, settles
<1>12. \A e \in Actors :
         /\ InQueue(e)' <=> InQueue(e)
         /\ WorkerIn(e, {"Lease", "Begin"})' <=> WorkerIn(e, {"Lease", "Begin"})
         /\ OwedByWorker(e)' <=> OwedByWorker(e) \/ (e = a /\ owes)
         /\ OwedByProducer(e)' <=> OwedByProducer(e)
         /\ \A q \in Producers : TokenOwedBy(prod[q], e)' <=> TokenOwedBy(prod[q], e)
  BY <1>0, <1>1, <1>2, <1>3, <1>4, <1>6
  DEF Keyed, InQueue, WorkerIn, OwedByWorker, OwedByProducer, TokenOwedBy
<1>13. /\ ~HasToken(a) /\ ~InQueue(a) /\ ~WorkerIn(a, {"Lease", "Begin"})
       /\ ~OwedByProducer(a)
  BY <1>1, <1>3 DEF TokenInv, HasToken
<1>14. \A e \in Actors : HasToken(e)' <=> HasToken(e) \/ (e = a /\ owes)
  BY <1>12 DEF HasToken
<1>15. TokenInv'
  <2>1. \A e \in Actors : OneToken(e)'
    BY <1>1, <1>12, <1>13 DEF TokenInv, OneToken
  <2>2. \A e \in Actors : /\ HasToken(e)' => gate'[e].phase = "Scheduled"
                          /\ Registered(e)' /\ gate'[e].phase = "Scheduled" => HasToken(e)'
    BY <1>1, <1>2, <1>6, <1>11, <1>13, <1>14 DEF TokenInv, Registered
  <2> QED
    BY <1>1, <1>2, <2>1, <2>2 DEF TokenInv, QueuesDistinct
<1>16. PermitInv'
  <2> SUFFICES ASSUME NEW v \in Workers
               PROVE  /\ permits'[v] <= MaxAdmittedRunnableActors
                      /\ permits'[v] = Cardinality(ActorUses(v)') + Cardinality(ProducerUses(v)')
                           + (IF work'[v].directive = "ReleasePermit" THEN 1 ELSE 0)
    BY DEF PermitInv
  <2> DEFINE frees == v = w /\ d = "ReleasePermit"
  <2>1. ProducerUses(v)' = ProducerUses(v)
    BY <1>2 DEF ProducerUses, HoldsPermit
  <2>2. /\ Cardinality(ActorUses(v)) = Cardinality(ActorUses(v)') + (IF frees THEN 1 ELSE 0)
        /\ Cardinality(ActorUses(v)') \in Nat
    <3>1. /\ ActorUses(v) \in SUBSET Actors /\ ActorUses(v)' \in SUBSET Actors
          /\ \A e \in Actors : e # a => (e \in ActorUses(v) <=> e \in ActorUses(v)')
      BY <1>6, <1>14 DEF ActorUses
    <3>2. /\ a \in ActorUses(v) <=> v = w
          /\ a \in ActorUses(v)' <=> /\ v = w
                                     /\ owes \/ gate'[a].phase \in {"Draining", "DrainCompleting"}
      BY <1>3, <1>13, <1>14 DEF ActorUses
    <3>3. d # "ReleasePermit" <=> owes \/ gate'[a].phase \in {"Draining", "DrainCompleting"}
      BY <1>7 DEF defers, settles
    <3> QED
      BY <3>1, <3>2, <3>3, CountStep, SchedulerAssumption
  <2>3. /\ permits[v] <= MaxAdmittedRunnableActors
        /\ permits[v] = Cardinality(ActorUses(v)) + Cardinality(ProducerUses(v))
                        + (IF work[v].directive = "ReleasePermit" THEN 1 ELSE 0)
    BY <1>1 DEF PermitInv
  <2>4. /\ frees => work[v].directive = "NoAction" /\ work'[v].directive = "ReleasePermit"
        /\ ~frees => (work'[v].directive = "ReleasePermit" <=> work[v].directive = "ReleasePermit")
    BY <1>4, <1>6
  <2>5. Cardinality(ProducerUses(v)) \in Nat
    BY CountsAreNumbers
  <2> HIDE DEF frees
  <2> QED
    BY <1>2, <2>1, <2>2, <2>3, <2>4, <2>5
<1>17. MailInv'
  <2>1. \A e \in Actors, l \in Lanes : Promised(e, l) =>
           Promised(e, l)' \/ (e = a /\ settles)
    BY <1>2, <1>6, <1>7 DEF Promised, WillMark, defers
  <2>2. SlotsOwned'
    BY <1>1, <1>2 DEF MailInv, SlotsOwned
  <2>3. a \notin drainFailed' /\ ~b => \A l \in Lanes : Promised(a, l)
    BY <1>0, <1>1, <1>2 DEF MailInv, DrainPromised
  <2>4. \A e \in Actors : e # a => (e \in drainFailed' <=> e \in drainFailed)
    BY <1>2
  <2>5. IdleIsEmpty'
    <3> SUFFICES ASSUME NEW e \in Actors, gate'[e].phase = "Idle", e \notin drainFailed',
                        NEW l \in Lanes
                 PROVE  mailbox'[e][l] = <<>>
      BY DEF IdleIsEmpty
    <3>1. CASE e # a
      BY <1>1, <1>2, <1>6, <2>4, <3>1 DEF MailInv, IdleIsEmpty
    <3>2. CASE e = a
      <4>1. ~again /\ gate[a].inFlight = 0
        BY <1>7, <3>2 DEF defers, settles
      <4>2. Promised(a, l)
        BY <2>3, <3>2, <4>1
      <4>3. \A q \in Producers : ~WillMark(q, a)
        BY <1>1, <4>1, MarkersHoldTickets, TicketFacts
      <4> QED
        BY <1>2, <3>2, <4>1, <4>2, <4>3 DEF Promised
    <3> QED
      BY <3>1, <3>2
  <2>6. AdmittingPromised'
    <3>1. gate'[a].phase # "Admitting"
      BY <1>7 DEF defers, settles
    <3> QED
      BY <1>1, <1>2, <1>6, <2>4, <3>1 DEF MailInv, AdmittingPromised, WillMark
  <2>7. CompletingPromised'
    <3> SUFFICES ASSUME NEW e \in Actors, gate'[e].phase = "DrainCompleting",
                        e \notin drainFailed'
                 PROVE  gate'[e].resched \/ \A l \in Lanes : Promised(e, l)'
      BY DEF CompletingPromised
    <3>1. CASE e # a
      BY <1>1, <1>2, <1>6, <2>1, <2>4, <3>1 DEF MailInv, CompletingPromised
    <3>2. CASE e = a
      <4>1. ~settles /\ defers
        BY <1>7, <3>2 DEF settles
      <4> QED
        BY <2>1, <2>3, <3>2, <4>1 DEF defers
    <3> QED
      BY <3>1, <3>2
  <2>8. ASSUME NEW v \in Workers, work'[v].pc \in {"DrainSend", "EndDrain"}
        PROVE  v # w /\ work'[v] = work[v] /\ work[v].key # a /\ work[v].key \in Actors
    <3>1. v # w /\ work'[v] = work[v]
      BY <1>6, <2>8
    <3>2. Shard[work[v].key] = v
      BY <1>1, <2>8, <3>1, DrainFacts DEF DrainSteps
    <3> QED
      BY <1>1, <1>3, <3>1, <3>2 DEF Keyed
  <2>9. ReceiveLanePromised'
    BY <1>1, <2>1, <2>8 DEF MailInv, ReceiveLanePromised, Lanes
  <2>10. DrainPromised'
    BY <1>1, <2>1, <2>8 DEF MailInv, DrainPromised
  <2> QED
    BY <2>2, <2>5, <2>6, <2>7, <2>9, <2>10 DEF MailInv
<1> QED
  BY <1>8, <1>9, <1>10, <1>15, <1>16, <1>17 DEF SchedInv

\* The report of the run and the directive it asks for.
LEMMA ApplyDrainReportKeeps ==
    ASSUME SchedInv, TypeInv', NEW w \in Workers, ApplyDrainReport(w)
    PROVE  SchedInv'
<1>0. PICK a \in Actors : a = work[w].key
  BY KeysTyped DEF SchedInv, Keyed
<1>1. /\ Keyed /\ Shapes /\ LeaseInv /\ GateInv /\ TokenInv /\ PermitInv /\ MailInv
      /\ TypeInv
  BY KeysTyped DEF SchedInv
<1>t. /\ work \in [Workers -> WorkerState] /\ work[w] \in WorkerState
      /\ lifecycle \in [Actors -> Lifecycles]
  BY <1>1 DEF TypeInv, TypeOK
<1>2. /\ work[w].pc = "Report"
      /\ UNCHANGED <<gate, mailbox, permits, ready, leases, prod, drainFailed>>
  BY DEF ApplyDrainReport, WorkerAt
<1>3. PICK track, deregister, after :
        /\ after = "Erased" => lifecycle[a] = "Erased"
        /\ lifecycle[a] = "Erased" => after = "Erased"
        /\ lifecycle' = [lifecycle EXCEPT ![a] = after]
        /\ work' = [work EXCEPT ![w] = [work[w] EXCEPT
                      !.track = track, !.deregister = deregister, !.failed = FALSE,
                      !.pc = "Apply"]]
  <2>1. PICK closeRequested \in BOOLEAN, closeReady \in BOOLEAN :
          LET closing == work[w].failed \/ closeRequested
              after == IF \/ lifecycle[a] = "Active" /\ closing
                          \/ lifecycle[a] = "AwaitingDrain" /\ closeReady
                       THEN IF closeReady THEN "ReadyToDeregister" ELSE "AwaitingDrain"
                       ELSE lifecycle[a]
          IN  /\ lifecycle' = [lifecycle EXCEPT ![a] = after]
              /\ work' = [work EXCEPT ![w] = [work[w] EXCEPT
                            !.track = lifecycle[a] = "Active" /\ closing,
                            !.deregister = after = "ReadyToDeregister",
                            !.failed = FALSE,
                            !.pc = "Apply"]]
    BY <1>0 DEF ApplyDrainReport, SetWorker
  <2> DEFINE closing == work[w].failed \/ closeRequested
             after == IF \/ lifecycle[a] = "Active" /\ closing
                         \/ lifecycle[a] = "AwaitingDrain" /\ closeReady
                      THEN IF closeReady THEN "ReadyToDeregister" ELSE "AwaitingDrain"
                      ELSE lifecycle[a]
             track == lifecycle[a] = "Active" /\ closing
             deregister == after = "ReadyToDeregister"
  <2>2. /\ after = "Erased" => lifecycle[a] = "Erased"
        /\ lifecycle[a] = "Erased" => after = "Erased"
    OBVIOUS
  <2>3. /\ lifecycle' = [lifecycle EXCEPT ![a] = after]
        /\ work' = [work EXCEPT ![w] = [work[w] EXCEPT
                      !.track = track, !.deregister = deregister, !.failed = FALSE,
                      !.pc = "Apply"]]
    BY <2>1
  <2> HIDE DEF after, track, deregister
  <2> QED
    BY <2>2, <2>3
<1>4. /\ work'[w].pc = "Apply" /\ work'[w].key = a
      /\ work'[w].directive = work[w].directive
      /\ \A v \in Workers : v # w => work'[v] = work[v]
  BY <1>0, <1>t, <1>3 DEF WorkerState
<1>5. \A b \in Actors : Registered(b)' <=> Registered(b)
  BY <1>t, <1>3 DEF Registered
<1>6. Shapes'
  BY <1>0, <1>1, <1>2, <1>4 DEF Shapes, QueuesSharded, WorkerShape, LeasedSteps, DrainSteps
<1>7. LeaseInv'
  BY <1>0, <1>1, <1>2, <1>4, <1>5, LeaseKept DEF SameLeases, LeasedSteps, DrainSteps
<1>8. GateInv'
  BY <1>1, <1>2, <1>4, GateKept DEF SameTickets, DrainSteps
<1>9. TokenInv' /\ \A b \in Actors : HasToken(b)' <=> HasToken(b)
  <2>1. SameTokens
    BY <1>0, <1>2, <1>4, <1>5 DEF SameTokens
  <2> QED
    BY <1>1, <2>1, TokenKept
<1>10. PermitInv'
  <2>1. SamePermits
    BY <1>2, <1>4, <1>9 DEF SamePermits, HoldsPermit
  <2> QED
    BY <1>1, <2>1, PermitKept
<1>11. MailInv'
  <2>1. SameMail
    BY <1>2, <1>4 DEF SameMail, WillMark
  <2> QED
    BY <1>1, <2>1, MailKept
<1> QED
  BY <1>6, <1>7, <1>8, <1>9, <1>10, <1>11 DEF SchedInv

\* The worker gives its lease back.
LEMMA WorkerReleasesLeaseKeeps ==
    ASSUME SchedInv, TypeInv', NEW w \in Workers, WorkerReleasesLease(w)
    PROVE  SchedInv'
<1>0. PICK a \in Actors : a = work[w].key
  BY KeysTyped DEF SchedInv, Keyed
<1>1. /\ Keyed /\ Shapes /\ LeaseInv /\ GateInv /\ TokenInv /\ PermitInv /\ MailInv
      /\ TypeInv
  BY KeysTyped DEF SchedInv
<1>t. /\ work \in [Workers -> WorkerState] /\ work[w] \in WorkerState
      /\ leases \in [Actors -> Nat]
  BY <1>1 DEF TypeInv, TypeOK
<1>2. /\ work[w].pc = "Release"
      /\ leases' = [leases EXCEPT ![a] = IF @ = 0 THEN 0 ELSE @ - 1]
      /\ work' = [work EXCEPT ![w] = [work[w] EXCEPT !.pc = "Cleanup"]]
      /\ UNCHANGED <<gate, mailbox, permits, ready, lifecycle, prod, drainFailed>>
  BY <1>0 DEF WorkerReleasesLease, WorkerAt, ReleaseLease, Goto, SetWorker
<1>3. /\ work'[w].pc = "Cleanup" /\ work'[w].key = a
      /\ work'[w].directive = work[w].directive
      /\ \A v \in Workers : v # w => work'[v] = work[v]
  BY <1>0, <1>t, <1>2 DEF WorkerState
<1>4. work[w].directive = "NoAction" /\ Shard[a] = w
  BY <1>0, <1>1, <1>2 DEF Shapes, WorkerShape, LeasedSteps
<1>5. Shapes'
  BY <1>1, <1>2, <1>3, <1>4 DEF Shapes, QueuesSharded, WorkerShape, LeasedSteps, DrainSteps
<1>6. LeaseInv'
  <2>1. \A b \in Actors : LeaseHolders(b)' = LeaseHolders(b)
    BY <1>2 DEF LeaseHolders
  <2>2. /\ WorkerIn(a, LeasedSteps) /\ ~WorkerIn(a, LeasedSteps)'
        /\ \A b \in Actors : b # a => (WorkerIn(b, LeasedSteps)' <=> WorkerIn(b, LeasedSteps))
    BY <1>0, <1>1, <1>2, <1>3, <1>4 DEF Keyed, WorkerIn, LeasedSteps, DrainSteps
  <2>3. ASSUME NEW b \in Actors
        PROVE  leases'[b] = Cardinality(LeaseHolders(b)')
                            + (IF WorkerIn(b, LeasedSteps)' THEN 1 ELSE 0)
    <3>1. leases[b] = Cardinality(LeaseHolders(b))
                      + (IF WorkerIn(b, LeasedSteps) THEN 1 ELSE 0)
      BY <1>1 DEF LeaseInv
    <3>2. Cardinality(LeaseHolders(b)) \in Nat
      BY CountsAreNumbers
    <3>3. /\ b # a => leases'[b] = leases[b]
          /\ b = a /\ leases[b] # 0 => leases'[b] = leases[b] - 1
      BY <1>t, <1>2
    <3> QED
      BY <2>1, <2>2, <3>1, <3>2, <3>3
  <2>4. \A v \in Workers : work'[v].pc \in LeasedSteps => Registered(work'[v].key)
    BY <1>1, <1>3 DEF LeaseInv, LeasedSteps, DrainSteps
  <2> QED
    BY <1>1, <1>2, <2>3, <2>4 DEF LeaseInv, Registered
<1>7. GateInv'
  BY <1>1, <1>2, <1>3, GateKept DEF SameTickets, DrainSteps
<1>8. TokenInv' /\ \A b \in Actors : HasToken(b)' <=> HasToken(b)
  <2>1. SameTokens
    BY <1>0, <1>2, <1>3 DEF SameTokens, Registered
  <2> QED
    BY <1>1, <2>1, TokenKept
<1>9. PermitInv'
  <2>1. SamePermits
    BY <1>2, <1>3, <1>8 DEF SamePermits, HoldsPermit
  <2> QED
    BY <1>1, <2>1, PermitKept
<1>10. MailInv'
  <2>1. SameMail
    BY <1>2, <1>3 DEF SameMail, WillMark
  <2> QED
    BY <1>1, <2>1, MailKept
<1> QED
  BY <1>5, <1>6, <1>7, <1>8, <1>9, <1>10 DEF SchedInv

-----------------------------------------------------------------------------
(***************************************************************************)
(* Erasing an entry.                                                       *)
(***************************************************************************)
\* Nobody works on an actor whose entry counts no lease.
LEMMA UnleasedIsFree ==
    ASSUME Keyed, Shapes, LeaseInv, NEW a \in Actors, leases[a] = 0
    PROVE  /\ \A p \in Producers : prod[p].pc # "Outside" => prod[p].key # a
           /\ \A w \in Workers : work[w].pc \in LeasedSteps => work[w].key # a
<1>1. /\ IsFiniteSet(LeaseHolders(a)) /\ Cardinality(LeaseHolders(a)) \in Nat
      /\ 0 = Cardinality(LeaseHolders(a)) + (IF WorkerIn(a, LeasedSteps) THEN 1 ELSE 0)
  BY CountsAreNumbers DEF LeaseInv
<1>2. Cardinality(LeaseHolders(a)) = 0 /\ ~WorkerIn(a, LeasedSteps)
  BY <1>1
<1>3. LeaseHolders(a) = {}
  BY <1>1, <1>2, FS_EmptySet
<1>4. \A p \in Producers : prod[p].pc # "Outside" => prod[p].key # a
  BY <1>3 DEF LeaseHolders
<1>5. \A w \in Workers : work[w].pc \in LeasedSteps => work[w].key # a
  BY <1>2 DEF Shapes, WorkerShape, WorkerIn
<1> QED
  BY <1>4, <1>5

\* Erasing entries that count no lease, with every thread where it was, but for
\* a worker that goes back to its loop.
LEMMA EraseKeeps ==
    ASSUME SchedInv, TypeInv', NEW gone \in SUBSET Actors,
           \A a \in gone : leases[a] = 0,
           \A a \in Actors : Registered(a)' <=> Registered(a) /\ a \notin gone,
           UNCHANGED <<gate, mailbox, permits, ready, leases, prod, drainFailed>>,
           \A v \in Workers : \/ work'[v] = work[v]
                              \/ work[v].pc = "Cleanup" /\ work'[v] = IdleWorker
    PROVE  SchedInv'
<1>1. /\ Keyed /\ Shapes /\ LeaseInv /\ GateInv /\ TokenInv /\ PermitInv /\ MailInv
      /\ TypeInv
  BY KeysTyped DEF SchedInv
<1>2. \A v \in Workers :
        \/ work'[v] = work[v]
        \/ /\ work[v].pc = "Cleanup" /\ work'[v].pc = "Pop"
           /\ work[v].directive = "NoAction" /\ work'[v].directive = "NoAction"
  BY <1>1 DEF IdleWorker, Shapes, WorkerShape
<1>3. Shapes'
  BY <1>1, <1>2 DEF Shapes, QueuesSharded, WorkerShape, LeasedSteps, DrainSteps
<1>4. LeaseInv'
  <2>1. \A a \in Actors : LeaseHolders(a)' = LeaseHolders(a)
    BY DEF LeaseHolders
  <2>2. \A a \in Actors : WorkerIn(a, LeasedSteps)' <=> WorkerIn(a, LeasedSteps)
    BY <1>1, <1>2 DEF Keyed, WorkerIn, LeasedSteps, DrainSteps
  <2>3. \A p \in Producers : prod'[p].pc # "Outside" => Registered(prod[p].key)'
    BY <1>1, UnleasedIsFree DEF LeaseInv, Keyed
  <2>4. \A w \in Workers : work'[w].pc \in LeasedSteps => Registered(work[w].key)'
    <3>1. \A w \in Workers : work[w].pc \in LeasedSteps => Registered(work[w].key)'
      <4> SUFFICES ASSUME NEW w \in Workers, work[w].pc \in LeasedSteps
                   PROVE  Registered(work[w].key)'
        OBVIOUS
      <4>0. PICK a \in Actors : a = work[w].key
        BY <1>1 DEF Keyed
      <4>1. a \notin gone /\ Registered(a)
        BY <1>1, <4>0, UnleasedIsFree DEF LeaseInv
      <4>2. work'[w] = work[w]
        BY <1>2 DEF LeasedSteps, DrainSteps
      <4> QED
        BY <4>0, <4>1, <4>2
    <3> QED
      BY <1>2, <3>1 DEF LeasedSteps, DrainSteps
  <2> QED
    BY <1>1, <2>1, <2>2, <2>3, <2>4 DEF LeaseInv
<1>5. GateInv'
  BY <1>1, <1>2, GateKept DEF SameTickets, DrainSteps
<1>6. TokenInv' /\ \A b \in Actors : HasToken(b)' <=> HasToken(b)
  <2>1. SameTokens
    BY <1>2 DEF SameTokens
  <2> QED
    BY <1>1, <2>1, TokenKept
<1>7. PermitInv'
  <2>1. SamePermits
    BY <1>2, <1>6 DEF SamePermits, HoldsPermit
  <2> QED
    BY <1>1, <2>1, PermitKept
<1>8. MailInv'
  <2>1. SameMail
    BY <1>2 DEF SameMail, WillMark
  <2> QED
    BY <1>1, <2>1, MailKept
<1> QED
  BY <1>3, <1>4, <1>5, <1>6, <1>7, <1>8 DEF SchedInv

\* The registry erases a closed actor nobody leases.
LEMMA RunRegistryCleanupKeeps ==
    ASSUME SchedInv, TypeInv', NEW w \in Workers, RunRegistryCleanup(w)
    PROVE  SchedInv'
<1>0. PICK a \in Actors : a = work[w].key
  BY KeysTyped DEF SchedInv, Keyed
<1>t. work \in [Workers -> WorkerState] /\ lifecycle \in [Actors -> Lifecycles]
  BY DEF SchedInv, TypeInv, TypeOK
<1> DEFINE erases == work[w].deregister /\ MayErase(a)
           gone == IF erases THEN {a} ELSE {}
<1>1. /\ lifecycle' = IF erases THEN [lifecycle EXCEPT ![a] = "Erased"] ELSE lifecycle
      /\ work[w].pc = "Cleanup" /\ work' = [work EXCEPT ![w] = IdleWorker]
      /\ UNCHANGED <<gate, mailbox, permits, ready, leases, prod, drainFailed>>
  BY <1>0 DEF RunRegistryCleanup, WorkerAt, SetWorker
<1>2. \A b \in Actors : Registered(b)' <=> Registered(b) /\ b \notin gone
  BY <1>t, <1>1 DEF Registered
<1>3. gone \in SUBSET Actors /\ \A b \in gone : leases[b] = 0
  BY DEF MayErase
<1>4. \A v \in Workers : \/ work'[v] = work[v]
                         \/ work[v].pc = "Cleanup" /\ work'[v] = IdleWorker
  BY <1>t, <1>1
<1> HIDE DEF gone
<1> QED
  BY <1>1, <1>2, <1>3, <1>4, EraseKeeps

\* The same from the owner thread.
LEMMA DeregisterClosedActorsKeeps ==
    ASSUME SchedInv, TypeInv', DeregisterClosedActors
    PROVE  SchedInv'
<1>t. closedKeys \subseteq Actors
  BY DEF SchedInv, TypeInv, TypeOK
<1>1. PICK gone \in (SUBSET {a \in closedKeys : MayErase(a)}) \ {{}} :
        lifecycle' = [a \in Actors |-> IF a \in gone THEN "Erased" ELSE lifecycle[a]]
  BY DEF DeregisterClosedActors
<1>2. \A b \in Actors : Registered(b)' <=> Registered(b) /\ b \notin gone
  BY <1>1 DEF Registered
<1>3. gone \in SUBSET Actors /\ \A b \in gone : leases[b] = 0
  BY <1>t DEF MayErase
<1>4. UNCHANGED <<gate, mailbox, permits, ready, leases, prod, work, drainFailed>>
  BY DEF DeregisterClosedActors
<1> QED
  BY <1>2, <1>3, <1>4, EraseKeeps

-----------------------------------------------------------------------------
\* A worker that evaluates its wait predicate, blocks or is woken stays at rest.
LEMMA GotoIsQuiet ==
    ASSUME TypeInv, NEW w \in Workers, NEW step, Goto(w, step),
           \/ step = work[w].pc
           \/ work[w].pc \in RestSteps /\ step \in RestSteps,
           UNCHANGED <<gate, mailbox, permits, ready, lifecycle, leases, drainFailed>>,
           \A q \in Producers :
              /\ prod'[q].key = prod[q].key /\ prod'[q].lane = prod[q].lane
              /\ prod'[q].ticket = prod[q].ticket
              /\ prod'[q].resolution = prod[q].resolution
              /\ prod'[q].directive = prod[q].directive
              /\ \/ prod'[q].pc = prod[q].pc
                 \/ prod[q].pc \in {"Admit", "Wake"} /\ prod'[q].pc = "Leave"
    PROVE  Quiet
<1> DEFINE s == [work[w] EXCEPT !.pc = step]
<1>1. work \in [Workers -> WorkerState] /\ work[w] \in WorkerState
  BY DEF TypeInv, TypeOK
<1>2. work'[w] = s /\ \A v \in Workers : v # w => work'[v] = work[v]
  BY <1>1 DEF Goto, SetWorker
<1>3. /\ s.pc = step /\ s.key = work[w].key /\ s.recvDrained = work[w].recvDrained
      /\ s.reschedule = work[w].reschedule /\ s.failed = work[w].failed
      /\ s.directive = work[w].directive
  BY <1>1 DEF WorkerState
<1> HIDE DEF s
<1> QED
  BY <1>2, <1>3 DEF Quiet

\* Waking the worker changes no count.
LEMMA ProducerWakesWorkerKeeps ==
    ASSUME SchedInv, TypeInv', NEW p \in Producers, ProducerWakesWorker(p)
    PROVE  SchedInv'
<1> DEFINE w == Shard[prod[p].key]
           step == IF work[w].pc = "Asleep" THEN "Wait" ELSE work[w].pc
           s == [prod[p] EXCEPT !.pc = "Leave"]
<1>1. /\ prod \in [Producers -> ProducerState] /\ prod[p] \in ProducerState
      /\ w \in Workers /\ TypeInv
  BY KeysTyped DEF SchedInv, TypeInv, TypeOK, Keyed
<1>2. /\ prod[p].pc = "Wake" /\ prod'[p] = s
      /\ \A q \in Producers : q # p => prod'[q] = prod[q]
      /\ Goto(w, step)
      /\ UNCHANGED <<gate, mailbox, permits, ready, lifecycle, leases, drainFailed>>
  BY <1>1 DEF ProducerWakesWorker, ProducerAt, SetProducer, WakeWorker, registryVars
<1>3. /\ s.pc = "Leave" /\ s.key = prod[p].key /\ s.lane = prod[p].lane
      /\ s.ticket = prod[p].ticket /\ s.resolution = prod[p].resolution
      /\ s.directive = prod[p].directive
  BY <1>1 DEF ProducerState
<1>4. \A q \in Producers :
        /\ prod'[q].key = prod[q].key /\ prod'[q].lane = prod[q].lane
        /\ prod'[q].ticket = prod[q].ticket
        /\ prod'[q].resolution = prod[q].resolution
        /\ prod'[q].directive = prod[q].directive
        /\ \/ prod'[q].pc = prod[q].pc
           \/ prod[q].pc \in {"Admit", "Wake"} /\ prod'[q].pc = "Leave"
  BY <1>2, <1>3
<1>5. step = work[w].pc \/ (work[w].pc \in RestSteps /\ step \in RestSteps)
  BY DEF RestSteps
<1> HIDE DEF w, step, s
<1>6. Quiet
  BY <1>1, <1>2, <1>4, <1>5, GotoIsQuiet
<1> QED
  BY <1>6, QuietKeeps

\* Neither does waiting, nor stopping.
LEMMA WaitingKeeps ==
    ASSUME SchedInv, TypeInv', NEW w \in Workers,
           EvaluateWaitPredicate(w) \/ BlockOnWakeup(w) \/ WakeAllWorkers(w)
    PROVE  SchedInv'
<1>1. TypeInv
  BY DEF SchedInv
<1>2. UNCHANGED <<gate, mailbox, permits, ready, lifecycle, leases, prod, drainFailed>>
  BY DEF EvaluateWaitPredicate, BlockOnWakeup, WakeAllWorkers, registryVars
<1>3. \E step : Goto(w, step) /\ (\/ step = work[w].pc
                                  \/ work[w].pc \in RestSteps /\ step \in RestSteps)
  <2>1. CASE EvaluateWaitPredicate(w)
    BY <2>1 DEF EvaluateWaitPredicate, WorkerAt, RestSteps
  <2>2. CASE BlockOnWakeup(w)
    BY <2>2 DEF BlockOnWakeup, WorkerAt, RestSteps
  <2>3. CASE WakeAllWorkers(w)
    BY <2>3 DEF WakeAllWorkers, WakeWorker, RestSteps
  <2> QED
    BY <2>1, <2>2, <2>3
<1>4. Quiet
  BY <1>1, <1>2, <1>3, GotoIsQuiet
<1> QED
  BY <1>4, QuietKeeps

\* A scheduler that was just built.
LEMMA InitSafe == Init => SchedInv
<1> SUFFICES ASSUME Init PROVE SchedInv
  OBVIOUS
<1>1. TypeInv
  BY InitTyped
<1>2. /\ \A p \in Producers : /\ prod[p].pc = "Outside" /\ prod[p].ticket = "Rejected"
                              /\ prod[p].directive = "NoAction"
      /\ \A w \in Workers : work[w].pc = "Pop" /\ work[w].directive = "NoAction"
      /\ \A w \in Workers : ready[w] = <<>> /\ permits[w] = 0
  BY DEF Init, IdleProducer, IdleWorker
<1>3. /\ \A a \in Actors : gate[a].phase = "Idle" /\ gate[a].inFlight = 0
      /\ \A a \in Actors : leases[a] = 0
      /\ \A a \in Actors, l \in Lanes : mailbox[a][l] = <<>>
      /\ \A a \in Actors : Shard[a] \in Workers
  BY SchedulerAssumption DEF Init, InitialWord
<1>4. Shapes
  BY <1>2 DEF Shapes, QueuesSharded, ProducerShape, WorkerShape, TicketSteps,
              LeasedSteps, DrainSteps
<1>5. LeaseInv
  <2>1. \A a \in Actors : LeaseHolders(a) = {} /\ ~WorkerIn(a, LeasedSteps)
    BY <1>2, <1>3 DEF LeaseHolders, WorkerIn, LeasedSteps, DrainSteps
  <2>2. \A a \in Actors : Cardinality(LeaseHolders(a)) = 0
    BY <2>1, FS_EmptySet
  <2>3. \A a \in Actors : leases[a] = Cardinality(LeaseHolders(a))
                             + (IF WorkerIn(a, LeasedSteps) THEN 1 ELSE 0)
    BY <1>3, <2>1, <2>2
  <2> QED
    BY <1>2, <2>3 DEF LeaseInv, LeasedSteps, DrainSteps
<1>6. GateInv
  <2>1. \A a \in Actors : TicketHolders(a) = {} /\ ~WorkerIn(a, DrainSteps)
    BY <1>2, <1>3 DEF TicketHolders, WorkerIn, DrainSteps
  <2> QED
    BY <1>2, <1>3, <2>1, FS_EmptySet DEF GateInv, GateShape
<1>7. \A a \in Actors : /\ ~InQueue(a) /\ ~WorkerIn(a, {"Lease", "Begin"})
                        /\ ~OwedByWorker(a) /\ ~OwedByProducer(a)
                        /\ \A p \in Producers : ~TokenOwedBy(prod[p], a)
  BY <1>2, <1>3 DEF InQueue, WorkerIn, OwedByWorker, OwedByProducer, TokenOwedBy
<1>8. TokenInv
  BY <1>2, <1>3, <1>7 DEF TokenInv, QueuesDistinct, OneToken, HasToken
<1>9. PermitInv
  <2>1. \A w \in Workers : ActorUses(w) = {} /\ ProducerUses(w) = {}
    BY <1>2, <1>3, <1>7 DEF ActorUses, ProducerUses, HasToken, HoldsPermit
  <2>2. \A w \in Workers : /\ Cardinality(ActorUses(w)) = 0
                            /\ Cardinality(ProducerUses(w)) = 0
    BY <2>1, FS_EmptySet
  <2>3. \A w \in Workers : /\ permits[w] = 0 /\ permits[w] <= MaxAdmittedRunnableActors
                            /\ work[w].directive # "ReleasePermit"
    BY <1>2, SchedulerAssumption
  <2> QED
    BY <2>2, <2>3 DEF PermitInv
<1>10. MailInv
  BY <1>2, <1>3
  DEF MailInv, SlotsOwned, IdleIsEmpty, AdmittingPromised, ReceiveLanePromised,
      DrainPromised, CompletingPromised
<1> QED
  BY <1>1, <1>4, <1>5, <1>6, <1>8, <1>9, <1>10 DEF SchedInv

\* No step of any thread breaks the invariant.
LEMMA StepSafe == SchedInv /\ [Next]_vars => SchedInv'
<1> SUFFICES ASSUME SchedInv, [Next]_vars PROVE SchedInv'
  OBVIOUS
<1>1. TypeInv'
  BY TypeStep DEF SchedInv
<1>2. CASE SomeEnqueue
  BY <1>1, <1>2, EnqueueKeeps DEF SomeEnqueue
<1>3. ASSUME NEW p \in Producers, ProducerStep(p) PROVE SchedInv'
  BY <1>1, <1>3, BeginAdmissionKeeps, TryAcquireRunnablePermitKeeps,
     ReserveMailboxSlotKeeps, PublishMailboxSlotKeeps, FinishAdmissionKeeps,
     ProducerAppliesDirectiveKeeps, ProducerWakesWorkerKeeps,
     ProducerReleasesLeaseKeeps
  DEF ProducerStep
<1>4. ASSUME NEW w \in Workers, WorkerStep(w) PROVE SchedInv'
  BY <1>1, <1>4, TryPopReadyQueueKeeps, WaitingKeeps, LeaseReadyActorKeeps,
     BeginDrainKeeps, TryDrainOneAcceptRecvEventKeeps, TryDrainOneSendEventKeeps,
     EndDrainKeeps, ApplyDrainReportKeeps, CompleteActorRunKeeps,
     WorkerReleasesLeaseKeeps, RunRegistryCleanupKeeps
  DEF WorkerStep
<1>5. ASSUME NEW w \in Workers, WakeAllWorkers(w) PROVE SchedInv'
  BY <1>1, <1>5, WaitingKeeps
<1>6. CASE DeregisterClosedActors
  BY <1>1, <1>6, DeregisterClosedActorsKeeps
<1>7. CASE RequestStop \/ UNCHANGED vars
  <2>1. Quiet
    BY <1>7 DEF RequestStop, vars, registryVars, Quiet
  <2> QED
    BY <1>1, <2>1, QuietKeeps
<1> QED
  BY <1>2, <1>3, <1>4, <1>5, <1>6, <1>7 DEF Next, Continue, Joined

\* Every reachable state of the scheduler satisfies the inductive invariant.
THEOREM SchedulerIsSafe == Spec => []SchedInv
  BY InitSafe, StepSafe, PTL DEF Spec

-----------------------------------------------------------------------------
(***************************************************************************)
(* The properties of the runs, from the inductive invariant.               *)
(***************************************************************************)
\* LeasedActorNotErased holds in every interleaving of every number of producers
\* and workers: the registry (Erase, TryAcquireLease, ReleaseLease) never drops
\* an entry that a thread still works on.
THEOREM LeasedActorIsSafe == Spec => []LeasedActorNotErased
<1>1. SchedInv => LeasedActorNotErased
  BY DEF SchedInv, LeaseInv, LeasedActorNotErased, LeasedSteps, DrainSteps
<1> QED
  BY <1>1, SchedulerIsSafe, PTL

\* NoStrandedMail holds for every number of producers, workers and actors: an
\* actor whose gate settled Idle has left no mail in its mailbox lanes, however
\* the pushes interleaved with the drain's last look at them.
THEOREM MailIsNeverStranded == Spec => []NoStrandedMail
<1>1. SchedInv => NoStrandedMail
  BY DEF SchedInv, MailInv, IdleIsEmpty, NoStrandedMail
<1> QED
  BY <1>1, SchedulerIsSafe, PTL

-----------------------------------------------------------------------------
\* Naming the members of a set does not change how many there are.
LEMMA TagCount ==
    ASSUME NEW t, NEW S, IsFiniteSet(S)
    PROVE  /\ IsFiniteSet({<<t, x>> : x \in S})
           /\ Cardinality({<<t, x>> : x \in S}) = Cardinality(S)
           /\ Cardinality(S) \in Nat
<1> DEFINE T == {<<t, x>> : x \in S}
           f == [x \in S |-> <<t, x>>]
<1>1. f \in Bijection(S, T)
  <2>1. f \in [S -> T]
    OBVIOUS
  <2>2. \A x, y \in S : f[x] = f[y] => x = y
    OBVIOUS
  <2>3. \A y \in T : \E x \in S : f[x] = y
    OBVIOUS
  <2> QED
    BY <2>1, <2>2, <2>3 DEF Bijection, Injection, IsInjective, Surjection
<1>2. ExistsBijection(S, T)
  BY <1>1 DEF ExistsBijection
<1> QED
  BY <1>2, FS_Bijection, FS_CardinalityType

\* Two sets that share nothing count separately.
LEMMA DisjointCount ==
    ASSUME NEW S, NEW T, IsFiniteSet(S), IsFiniteSet(T), S \cap T = {}
    PROVE  /\ IsFiniteSet(S \cup T)
           /\ Cardinality(S \cup T) = Cardinality(S) + Cardinality(T)
<1>1. /\ Cardinality(S) \in Nat /\ Cardinality(T) \in Nat
      /\ Cardinality(S \cap T) = 0
  BY FS_CardinalityType, FS_EmptySet
<1>2. /\ IsFiniteSet(S \cup T)
      /\ Cardinality(S \cup T) = Cardinality(S) + Cardinality(T) - Cardinality(S \cap T)
  BY FS_Union
<1> QED
  BY <1>1, <1>2

\* A worker that holds a token, or owes one, is the worker of the token's shard.
LEMMA TokenOfShard ==
    ASSUME SchedInv, NEW a \in Actors, NEW w \in Workers
    PROVE  /\ TokenPopped(a, w) <=> w = Shard[a] /\ WorkerIn(a, {"Lease", "Begin"})
           /\ TokenOwedBy(work[w], a) <=> w = Shard[a] /\ OwedByWorker(a)
<1>1. WorkerShape(w, work[w])
  BY DEF SchedInv, Shapes
<1>2. TokenPopped(a, w) <=> w = Shard[a] /\ WorkerIn(a, {"Lease", "Begin"})
  BY <1>1 DEF TokenPopped, WorkerShape, LeasedSteps, WorkerIn
<1>3. TokenOwedBy(work[w], a) <=> w = Shard[a] /\ OwedByWorker(a)
  BY <1>1 DEF TokenOwedBy, WorkerShape, LeasedSteps, OwedByWorker
<1> QED
  BY <1>2, <1>3

\* The places where an actor has a token are none or one.
LEMMA TokenCount ==
    ASSUME SchedInv, NEW a \in Actors
    PROVE  /\ HasToken(a) <=> TokenPlaces(a) # {}
           /\ Cardinality(TokenPlaces(a)) = IF HasToken(a) THEN 1 ELSE 0
<1> DEFINE v == Shard[a]
           Queued == {<<"queued", i>> : i \in TokensQueued(a)}
           Popped == {<<"popped", w>> : w \in {u \in Workers : TokenPopped(a, u)}}
           OfProducer == {<<"producer", p>> :
                             p \in {q \in Producers : TokenOwedBy(prod[q], a)}}
           OfWorker == {<<"worker", w>> : w \in {u \in Workers : TokenOwedBy(work[u], a)}}
<1>1. /\ v \in Workers /\ ready[v] \in Seq(Actors)
      /\ OneToken(a) /\ QueuesDistinct
  BY SchedulerAssumption DEF SchedInv, TypeInv, TypeOK, TokenInv
<1>2. TokenPlaces(a) = Queued \cup Popped \cup OfProducer \cup OfWorker
  BY DEF TokenPlaces
<1>3. TokensQueued(a) = {i \in 1 .. Len(ready[v]) : ready[v][i] = a}
  BY <1>1 DEF TokensQueued
<1>4. /\ InQueue(a) => \E i : Queued = {<<"queued", i>>}
      /\ ~InQueue(a) => Queued = {}
  <2>1. ~InQueue(a) => TokensQueued(a) = {}
    BY <1>3 DEF InQueue
  <2>2. ASSUME InQueue(a) PROVE \E i : Queued = {<<"queued", i>>}
    <3>1. PICK i \in 1 .. Len(ready[v]) : ready[v][i] = a
      BY <2>2 DEF InQueue
    <3>2. TokensQueued(a) = {i}
      BY <1>1, <1>3, <3>1 DEF QueuesDistinct
    <3> QED
      BY <3>2
  <2> QED
    BY <2>1, <2>2
<1>5. /\ WorkerIn(a, {"Lease", "Begin"}) => Popped = {<<"popped", v>>}
      /\ ~WorkerIn(a, {"Lease", "Begin"}) => Popped = {}
  BY <1>1, TokenOfShard
<1>6. /\ OwedByWorker(a) => OfWorker = {<<"worker", v>>}
      /\ ~OwedByWorker(a) => OfWorker = {}
  BY <1>1, TokenOfShard
<1>7. /\ OwedByProducer(a) => \E p : OfProducer = {<<"producer", p>>}
      /\ ~OwedByProducer(a) => OfProducer = {}
  <2>1. ~OwedByProducer(a) => OfProducer = {}
    BY DEF OwedByProducer
  <2>2. ASSUME OwedByProducer(a) PROVE \E p : OfProducer = {<<"producer", p>>}
    <3>1. PICK p \in Producers : TokenOwedBy(prod[p], a)
      BY <2>2 DEF OwedByProducer
    <3>2. {q \in Producers : TokenOwedBy(prod[q], a)} = {p}
      BY <1>1, <3>1 DEF OneToken
    <3> QED
      BY <3>2
  <2> QED
    BY <2>1, <2>2
<1>8. ~(WorkerIn(a, {"Lease", "Begin"}) /\ OwedByWorker(a))
  <2>1. WorkerShape(v, work[v])
    BY <1>1 DEF SchedInv, Shapes
  <2> QED
    BY <2>1 DEF WorkerIn, OwedByWorker, TokenOwedBy, WorkerShape
<1> HIDE DEF Queued, Popped, OfProducer, OfWorker
<1>9. /\ HasToken(a) => \E x : TokenPlaces(a) = {x}
      /\ ~HasToken(a) => TokenPlaces(a) = {}
  <2>1. CASE InQueue(a)
    <3>1. PICK x : Queued = {x}
      BY <1>4, <2>1
    <3>2. TokenPlaces(a) = {x}
      BY <1>1, <1>2, <1>5, <1>6, <1>7, <2>1, <3>1 DEF OneToken
    <3> QED
      BY <2>1, <3>2 DEF HasToken
  <2>2. CASE WorkerIn(a, {"Lease", "Begin"})
    BY <1>1, <1>2, <1>4, <1>5, <1>6, <1>7, <1>8, <2>2 DEF OneToken, HasToken
  <2>3. CASE OwedByWorker(a)
    BY <1>1, <1>2, <1>4, <1>5, <1>6, <1>7, <1>8, <2>3 DEF OneToken, HasToken
  <2>4. CASE OwedByProducer(a)
    <3>1. PICK x : OfProducer = {x}
      BY <1>7, <2>4
    <3>2. TokenPlaces(a) = {x}
      BY <1>1, <1>2, <1>4, <1>5, <1>6, <2>4, <3>1 DEF OneToken
    <3> QED
      BY <2>4, <3>2 DEF HasToken
  <2>5. CASE ~HasToken(a)
    BY <1>2, <1>4, <1>5, <1>6, <1>7, <2>5 DEF HasToken
  <2> QED
    BY <2>1, <2>2, <2>3, <2>4, <2>5 DEF HasToken
<1> QED
  BY <1>9, FS_Singleton, FS_EmptySet

\* TicketsAndTokens holds for every number of threads and actors: the gate's
\* producer count is exact, and a registered actor has one ready token when its
\* gate says Scheduled (NrActorScheduleGate.h) and none otherwise.
THEOREM TicketsAndTokensAreExact == Spec => []TicketsAndTokens
<1>1. SchedInv => InFlightIsTicketCount
  BY DEF SchedInv, GateInv, InFlightIsTicketCount
<1>2. SchedInv => OneTokenPerScheduledActor
  <2> SUFFICES ASSUME SchedInv, NEW a \in Actors
               PROVE  /\ Registered(a) => Cardinality(TokenPlaces(a)) =
                            IF gate[a].phase = "Scheduled" THEN 1 ELSE 0
                      /\ Cardinality(TokenPlaces(a)) <= 1
    BY DEF OneTokenPerScheduledActor
  <2>1. /\ HasToken(a) => gate[a].phase = "Scheduled"
        /\ Registered(a) /\ gate[a].phase = "Scheduled" => HasToken(a)
    BY DEF SchedInv, TokenInv
  <2> QED
    BY <2>1, TokenCount
<1> QED
  BY <1>1, <1>2, SchedulerIsSafe, PTL DEF TicketsAndTokens

\* The permits the invariant counts are those the property names.
LEMMA PermitCount ==
    ASSUME SchedInv, NEW w \in Workers
    PROVE  permits[w] = Cardinality(PermitUses(w))
<1> DEFINE Tokens == {b \in Actors : Shard[b] = w /\ TokenPlaces(b) # {}}
           Drains == {b \in Actors : /\ Shard[b] = w
                        /\ gate[b].phase \in {"Draining", "DrainCompleting"}}
           Admits == {q \in Producers :
                        /\ Shard[prod[q].key] = w
                        /\ prod[q].ticket = "RequiresNewPermit"
                        /\ prod[q].pc # "Permit"
                        /\ ~(prod[q].pc = "Complete"
                              /\ prod[q].resolution = "CapacityRejected")}
           Releases == {q \in Producers : /\ Shard[prod[q].key] = w
                                          /\ prod[q].directive = "ReleasePermit"}
           Own == {u \in Workers : u = w /\ work[u].directive = "ReleasePermit"}
           tT == {<<"token", a>> : a \in Tokens}
           tD == {<<"drain", a>> : a \in Drains}
           tA == {<<"admit", p>> : p \in Admits}
           tR == {<<"release", p>> : p \in Releases}
           tW == {<<"worker", v>> : v \in Own}
<1>1. /\ IsFiniteSet(Tokens) /\ IsFiniteSet(Drains)
      /\ IsFiniteSet(Admits) /\ IsFiniteSet(Releases)
  <2>1. /\ Tokens \in SUBSET Actors /\ Drains \in SUBSET Actors
        /\ Admits \in SUBSET Producers /\ Releases \in SUBSET Producers
    OBVIOUS
  <2> QED
    BY <2>1, SchedulerAssumption, FS_Subset
<1>2. /\ IsFiniteSet(Own)
      /\ Cardinality(Own) = IF work[w].directive = "ReleasePermit" THEN 1 ELSE 0
  <2>1. /\ work[w].directive = "ReleasePermit" => Own = {w}
        /\ work[w].directive # "ReleasePermit" => Own = {}
    OBVIOUS
  <2> QED
    BY <2>1, FS_Singleton, FS_EmptySet
<1>3. Cardinality(ActorUses(w)) = Cardinality(Tokens) + Cardinality(Drains)
  <2>1. \A a \in Actors : /\ HasToken(a) <=> TokenPlaces(a) # {}
                          /\ HasToken(a) => gate[a].phase = "Scheduled"
    BY TokenCount DEF SchedInv, TokenInv
  <2>2. ActorUses(w) = Tokens \cup Drains /\ Tokens \cap Drains = {}
    BY <2>1 DEF ActorUses
  <2> HIDE DEF Tokens, Drains
  <2> QED
    BY <1>1, <2>2, DisjointCount
<1>4. Cardinality(ProducerUses(w)) = Cardinality(Admits) + Cardinality(Releases)
  <2>1. \A p \in Producers : ProducerShape(prod[p])
    BY DEF SchedInv, Shapes
  <2>2. ProducerUses(w) = Admits \cup Releases /\ Admits \cap Releases = {}
    BY <2>1 DEF ProducerUses, HoldsPermit, ProducerShape, TicketSteps
  <2> HIDE DEF Admits, Releases
  <2> QED
    BY <1>1, <2>2, DisjointCount
<1>5. PermitUses(w) = tT \cup tD \cup tA \cup tR \cup tW
  BY DEF PermitUses
<1>6. /\ permits[w] = Cardinality(ActorUses(w)) + Cardinality(ProducerUses(w))
                      + (IF work[w].directive = "ReleasePermit" THEN 1 ELSE 0)
  BY DEF SchedInv, PermitInv
<1> HIDE DEF Tokens, Drains, Admits, Releases, Own
<1>7. /\ IsFiniteSet(tT) /\ Cardinality(tT) = Cardinality(Tokens)
      /\ IsFiniteSet(tD) /\ Cardinality(tD) = Cardinality(Drains)
      /\ IsFiniteSet(tA) /\ Cardinality(tA) = Cardinality(Admits)
      /\ IsFiniteSet(tR) /\ Cardinality(tR) = Cardinality(Releases)
      /\ IsFiniteSet(tW) /\ Cardinality(tW) = Cardinality(Own)
  BY <1>1, <1>2, TagCount
<1>n. /\ Cardinality(Tokens) \in Nat /\ Cardinality(Drains) \in Nat
      /\ Cardinality(Admits) \in Nat /\ Cardinality(Releases) \in Nat
      /\ Cardinality(Own) \in Nat
  BY <1>1, <1>2, FS_CardinalityType
<1>8. /\ tT \cap tD = {} /\ (tT \cup tD) \cap tA = {}
      /\ (tT \cup tD \cup tA) \cap tR = {}
      /\ (tT \cup tD \cup tA \cup tR) \cap tW = {}
  OBVIOUS
<1> HIDE DEF tT, tD, tA, tR, tW
<1>9. /\ IsFiniteSet(tT \cup tD)
      /\ Cardinality(tT \cup tD) = Cardinality(tT) + Cardinality(tD)
  BY <1>7, <1>8, DisjointCount
<1>10. /\ IsFiniteSet(tT \cup tD \cup tA)
       /\ Cardinality(tT \cup tD \cup tA) = Cardinality(tT \cup tD) + Cardinality(tA)
  BY <1>7, <1>8, <1>9, DisjointCount
<1>11. /\ IsFiniteSet(tT \cup tD \cup tA \cup tR)
       /\ Cardinality(tT \cup tD \cup tA \cup tR)
             = Cardinality(tT \cup tD \cup tA) + Cardinality(tR)
  BY <1>7, <1>8, <1>10, DisjointCount
<1>12. Cardinality(PermitUses(w))
          = Cardinality(tT \cup tD \cup tA \cup tR) + Cardinality(tW)
  BY <1>5, <1>7, <1>8, <1>11, DisjointCount
<1> QED
  BY <1>2, <1>3, <1>4, <1>6, <1>7, <1>n, <1>9, <1>10, <1>11, <1>12

\* PermitsSuffice holds for every number of threads and actors and every limit:
\* the runnable permits are conserved, and the assertion of
\* NrActorScheduler::ApplyScheduleDirective, that a reserved permit guarantees
\* room in the ready queue, never fails.
THEOREM PermitsAlwaysSuffice == Spec => []PermitsSuffice
<1>1. SchedInv => PermitsConserved
  BY PermitCount DEF PermitsConserved
<1>2. SchedInv => ReadyCapacityReserved
  <2> SUFFICES ASSUME SchedInv, NEW a \in Actors,
                      \/ \E p \in Producers : TokenOwedBy(prod[p], a)
                      \/ \E w \in Workers : TokenOwedBy(work[w], a)
               PROVE  ~ReadyQueueFull(Shard[a])
    BY DEF ReadyCapacityReserved
  <2>1. OwedByWorker(a) \/ OwedByProducer(a)
    BY TokenOfShard DEF OwedByProducer
  <2> QED
    BY <2>1, ReadyRoom
<1> QED
  BY <1>1, <1>2, SchedulerIsSafe, PTL DEF PermitsSuffice
=============================================================================
