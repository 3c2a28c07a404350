--------------------------- MODULE ToWorldHandoff ---------------------------
(***************************************************************************)
(* NrToWorldHandoff: session actors record lifecycle facts and packets,    *)
(* the World's ingress pump takes them in batches.  The event queue is     *)
(* bounded.  A packet that does not fit is refused; a lifecycle fact is    *)
(* kept in its session's slot, the session joins a ring of pending         *)
(* sessions, and every pop promotes what then fits.  All of it happens     *)
(* under one lock, so one critical section is one step here.               *)
(***************************************************************************)
EXTENDS Naturals, Sequences, FiniteSets

CONSTANTS Sessions,            \* session keys, none ever reused
          MaxSessionCount,     \* slots, and entries of the pending ring
          EventQueueCapacity,  \* events the queue holds
          BatchSize            \* events the pump asks for at once

ASSUME ToWorldHandoffAssumption ==
    /\ IsFiniteSet(Sessions)
    /\ MaxSessionCount \in Nat \ {0}
    /\ EventQueueCapacity \in Nat \ {0}
    /\ BatchSize \in Nat \ {0}

VARIABLES slots,      \* publicationSlots
          pending,    \* the ring pendingEntries, oldest first
          events,     \* eventQueue, oldest first
          closed,     \* the handoff was closed
          closer,     \* the thread that closes it: unlock, then notify_all
          consumer,   \* the ingress pump's thread
          memory,     \* of the process: from "scarce" on, allocations may fail
          issued,     \* session keys given out so far
          recorded    \* history: what has been recorded of each session

vars == <<slots, pending, events, closed, closer, consumer, memory,
          issued, recorded>>

Kinds == {"Accepted", "Packet", "Closed"}

\* A publication slot: its lifecycle state and whether it is in the ring.  Its
\* send channel control is set together with acceptedRecorded.
Slot == [present: BOOLEAN, acceptedRecorded: BOOLEAN, acceptedCommitted: BOOLEAN,
         closedRecorded: BOOLEAN, closedCommitted: BOOLEAN,
         pendingRegistered: BOOLEAN]

NoSlot == [present |-> FALSE, acceptedRecorded |-> FALSE,
           acceptedCommitted |-> FALSE, closedRecorded |-> FALSE,
           closedCommitted |-> FALSE, pendingRegistered |-> FALSE]

TypeOK ==
    /\ slots \in [Sessions -> Slot]
    /\ pending \in Seq(Sessions) /\ Len(pending) <= MaxSessionCount
    /\ events \in Seq([kind: Kinds, key: Sessions])
    /\ Len(events) <= EventQueueCapacity
    /\ closed \in BOOLEAN
    /\ closer \in {"Idle", "Notify", "Done"}
    /\ consumer \in {"Running", "Wait", "Blocked", "Closed"}
    /\ memory \in {"ample", "scarce"}
    /\ issued \in SUBSET Sessions
    /\ recorded \in [Sessions -> {"Unknown", "Open", "Ended"}]

Init ==
    /\ slots = [k \in Sessions |-> NoSlot]
    /\ pending = <<>> /\ events = <<>>
    /\ closed = FALSE /\ closer = "Idle"
    /\ consumer = "Running"
    /\ memory = "ample"
    /\ issued = {}
    /\ recorded = [k \in Sessions |-> "Unknown"]

-----------------------------------------------------------------------------
(***************************************************************************)
(* NrToWorldLifecycleState.                                                *)
(***************************************************************************)

\* The fact of slot s to publish next: Accepted always before Closed.
NextPendingKind(s) ==
    CASE s.acceptedRecorded /\ ~s.acceptedCommitted -> "Accepted"
      [] s.acceptedCommitted /\ s.closedRecorded /\ ~s.closedCommitted -> "Closed"
      [] OTHER -> "None"

CommitNextPending(s) ==
    IF NextPendingKind(s) = "Accepted"
    THEN [s EXCEPT !.acceptedCommitted = TRUE]
    ELSE [s EXCEPT !.closedCommitted = TRUE]

\* Mutant: an Accepted that is recorded and still deferred is enough.
CanPublishPacket_Recorded(s) == s.acceptedRecorded /\ ~s.closedRecorded

CanPublishPacket(s) == s.acceptedCommitted /\ ~s.closedRecorded

-----------------------------------------------------------------------------
(***************************************************************************)
(* The parts the lock protects, as one record h that a critical section    *)
(* transforms step by step, and their publication at its end.              *)
(***************************************************************************)
Locked == [slots |-> slots, pending |-> pending, events |-> events]

\* Mutant: emptiness is looked at after the push.
WakeIfWasEmpty_Late(h) == IF consumer = "Blocked" /\ h.events = <<>>
                          THEN "Wait" ELSE consumer

\* TryPushEvent wakes the pump when the queue was empty.
WakeIfWasEmpty(h) == IF consumer = "Blocked" /\ events = <<>> /\ h.events # <<>>
                     THEN "Wait" ELSE consumer

Unlock(h) ==
    /\ slots' = h.slots
    /\ pending' = h.pending
    /\ events' = h.events

Push(h, kind, k) == [h EXCEPT !.events = Append(@, [kind |-> kind, key |-> k])]

\* A session is in the ring at most once.
RegisterPending(h, k) ==
    IF h.slots[k].pendingRegistered \/ Len(h.pending) >= MaxSessionCount
    THEN h
    ELSE [h EXCEPT !.pending = Append(@, k),
                   !.slots[k].pendingRegistered = TRUE]

Erase(h, k) == [h EXCEPT !.slots[k] = NoSlot]

\* PromoteOne: the event is created, pushed and committed, or nothing happens.
\* failing is the set of sessions whose event cannot be allocated.
PromoteResult(h, k, failing) ==
    CASE k \in failing -> "OutOfMemory"
      [] k \notin failing /\ Len(h.events) = EventQueueCapacity -> "QueueFull"
      [] OTHER -> "Success"

PromoteOne(h, k) ==
    [Push(h, NextPendingKind(h.slots[k]), k)
        EXCEPT !.slots[k] = CommitNextPending(h.slots[k])]

\* One turn of PromotePending takes the oldest session out of the ring.  It
\* returns the parts and whether the loop goes on.
PromoteTurn(h, failing) ==
    LET k      == Head(h.pending)
        taken  == [h EXCEPT !.pending = Tail(@),
                            !.slots[k].pendingRegistered = FALSE]
        result == PromoteResult(taken, k, failing)
        done   == PromoteOne(taken, k)
    IN CASE ~h.slots[k].present ->
               [parts |-> [h EXCEPT !.pending = Tail(@)], go |-> TRUE]
         [] h.slots[k].present /\ result # "Success" ->
               [parts |-> RegisterPending(taken, k), go |-> result # "QueueFull"]
         [] h.slots[k].present /\ result = "Success" ->
               [parts |-> CASE NextPendingKind(done.slots[k]) # "None" ->
                                  RegisterPending(done, k)
                            [] done.slots[k].closedCommitted -> Erase(done, k)
                            [] OTHER -> done,
                go |-> TRUE]

\* At most one turn for every session that was in the ring at the start.
PromotePending(h, failing) ==
    LET turn[n \in 0 .. Len(h.pending)] ==
            IF n = 0 THEN [parts |-> h, go |-> TRUE]
            ELSE LET last == turn[n - 1]
                 IN IF last.go /\ last.parts.pending # <<>>
                    THEN PromoteTurn(last.parts, failing)
                    ELSE last
    IN turn[Len(h.pending)].parts

\* Mutant: the freed place is not filled before the lock is released.
TryPopOneLocked_NoRefill(h, failing) ==
    LET before == PromotePending(h, failing)
    IN IF before.events = <<>>
       THEN [parts |-> before, popped |-> FALSE]
       ELSE [parts |-> [before EXCEPT !.events = Tail(@)], popped |-> TRUE]

\* Mutant: the newest event goes first, unless its session has an older one.
TryPopOneLocked_NewestFirst(h, failing) ==
    LET before == PromotePending(h, failing)
        n      == Len(before.events)
        newest == \A i \in 1 .. n - 1 : before.events[i].key # before.events[n].key
    IN IF n = 0
       THEN [parts |-> before, popped |-> FALSE]
       ELSE [parts |-> PromotePending([before EXCEPT !.events =
                          IF newest THEN SubSeq(@, 1, n - 1) ELSE Tail(@)], failing),
             popped |-> TRUE]

\* TryPopOneLocked: promote, pop, promote again.  popped says if there was an
\* event.
TryPopOneLocked(h, failing) ==
    LET before == PromotePending(h, failing)
    IN IF before.events = <<>>
       THEN [parts |-> before, popped |-> FALSE]
       ELSE [parts |-> PromotePending([before EXCEPT !.events = Tail(@)], failing),
             popped |-> TRUE]

\* The loop of TryPopBatch, for up to n events.
PopUpTo(h, n, failing) ==
    LET pop[i \in 0 .. n] ==
            IF i = 0 THEN [parts |-> h, popped |-> TRUE, count |-> 0]
            ELSE LET last == pop[i - 1]
                     one  == TryPopOneLocked(last.parts, failing)
                 IN IF ~last.popped THEN last
                    ELSE [parts |-> one.parts, popped |-> one.popped,
                          count |-> last.count + (IF one.popped THEN 1 ELSE 0)]
    IN pop[n]

\* Which of the sessions ks cannot have an event allocated in one critical section.
Failures(ks) == IF memory = "scarce" THEN SUBSET ks ELSE {{}}

-----------------------------------------------------------------------------
(***************************************************************************)
(* Operations of the producers.  A refused call changes nothing and is not *)
(* a step.                                                                 *)
(***************************************************************************)
SlotCount == Cardinality({k \in Sessions : slots[k].present})

ReserveSession(k) ==
    /\ ~closed
    /\ k \notin issued
    /\ ~slots[k].present
    /\ SlotCount < MaxSessionCount
    /\ slots' = [slots EXCEPT ![k].present = TRUE]
    /\ issued' = issued \cup {k}
    /\ UNCHANGED <<memory, pending, events, closed, closer, consumer, recorded>>

CancelSessionReservation(k) ==
    /\ ~closed /\ slots[k].present
    /\ ~slots[k].acceptedRecorded /\ ~slots[k].pendingRegistered
    /\ NextPendingKind(slots[k]) = "None"
    /\ slots' = [slots EXCEPT ![k] = NoSlot]
    /\ UNCHANGED <<memory, pending, events, closed, closer, consumer, issued, recorded>>

\* A recorded fact is published now, or its session joins the ring.
PublishOrDefer(h, k, failing) ==
    IF PromoteResult(h, k, failing) = "Success"
    THEN PromoteOne(h, k)
    ELSE RegisterPending(h, k)

RecordAccepted(k, failing) ==
    /\ ~closed /\ slots[k].present
    /\ ~slots[k].acceptedRecorded
    /\ LET h == PublishOrDefer([Locked EXCEPT !.slots[k].acceptedRecorded = TRUE],
                               k, failing)
       IN Unlock(h) /\ consumer' = WakeIfWasEmpty(h)
    /\ recorded' = [recorded EXCEPT ![k] = "Open"]
    /\ UNCHANGED <<memory, closed, closer, issued>>

\* A session that stops with its server before it was accepted is forgotten.
RecordClosedUnaccepted(k) ==
    /\ ~closed /\ slots[k].present
    /\ ~slots[k].acceptedRecorded /\ NextPendingKind(slots[k]) = "None"
    /\ slots' = [slots EXCEPT ![k] = NoSlot]
    /\ UNCHANGED <<memory, pending, events, closed, closer, consumer, issued, recorded>>

\* A session still in the ring has its Closed promoted from there; otherwise it
\* is published now and its slot erased, or joins the ring.
RecordClosedParts(k, failing) ==
    LET h == [Locked EXCEPT !.slots[k].closedRecorded = TRUE]
        p == PublishOrDefer(h, k, failing)
    IN CASE h.slots[k].pendingRegistered -> h
         [] ~h.slots[k].pendingRegistered /\ p.slots[k].closedCommitted -> Erase(p, k)
         [] OTHER -> p

RecordClosed(k, failing) ==
    /\ ~closed /\ slots[k].present
    /\ slots[k].acceptedRecorded /\ ~slots[k].closedRecorded
    /\ LET h == RecordClosedParts(k, failing)
       IN Unlock(h) /\ consumer' = WakeIfWasEmpty(h)
    /\ recorded' = [recorded EXCEPT ![k] = "Ended"]
    /\ UNCHANGED <<memory, closed, closer, issued>>

\* Packets are refused while Accepted is deferred and when the queue is full.
RecordPacket(k) ==
    /\ ~closed /\ slots[k].present
    /\ CanPublishPacket(slots[k])
    /\ Len(events) < EventQueueCapacity
    /\ LET h == Push(Locked, "Packet", k)
       IN Unlock(h) /\ consumer' = WakeIfWasEmpty(h)
    /\ UNCHANGED <<memory, closed, closer, issued, recorded>>

\* Close unlocks before it notifies.
Close ==
    /\ ~closed
    /\ closed' = TRUE /\ closer' = "Notify"
    /\ UNCHANGED <<memory, slots, pending, events, consumer, issued, recorded>>

\* Mutant: nobody is notified of the end.
CloseNotifies_Silent ==
    /\ closer = "Notify"
    /\ closer' = "Done"
    /\ UNCHANGED <<memory, slots, pending, events, closed, consumer, issued, recorded>>

CloseNotifies ==
    /\ closer = "Notify"
    /\ closer' = "Done"
    /\ consumer' = IF consumer = "Blocked" THEN "Wait" ELSE consumer
    /\ UNCHANGED <<memory, slots, pending, events, closed, issued, recorded>>

-----------------------------------------------------------------------------
(***************************************************************************)
(* The ingress pump: pop a batch; when there was nothing, wait.            *)
(***************************************************************************)
TryPopBatch(n, failing) ==
    /\ consumer = "Running"
    /\ LET result == PopUpTo(Locked, n, failing)
       IN /\ Unlock(result.parts)
          /\ consumer' = IF result.count = 0 THEN "Wait" ELSE "Running"
    /\ UNCHANGED <<memory, closed, closer, issued, recorded>>

TryPop(failing) == TryPopBatch(1, failing)

\* The predicate of wait_for, and what the pump does with each result.
WaitResult == IF events # <<>> THEN "Running"
              ELSE IF closed THEN "Closed" ELSE "Blocked"

WaitForEvents ==
    /\ consumer = "Wait"
    /\ consumer' = WaitResult
    /\ UNCHANGED <<memory, slots, pending, events, closed, closer, issued, recorded>>

\* The wait times out, evaluates its predicate once more, and the pump polls.
WaitTimesOut ==
    /\ consumer = "Blocked"
    /\ consumer' = IF WaitResult = "Closed" THEN "Closed" ELSE "Running"
    /\ UNCHANGED <<memory, slots, pending, events, closed, closer, issued, recorded>>

\* From here on, creating an event may fail.
MemoryRunsShort ==
    /\ memory' = "scarce"
    /\ UNCHANGED <<slots, pending, events, closed, closer, consumer, issued, recorded>>

Produce(k, failing) ==
    \/ ReserveSession(k) \/ CancelSessionReservation(k)
    \/ RecordAccepted(k, failing) \/ RecordPacket(k)
    \/ RecordClosed(k, failing) \/ RecordClosedUnaccepted(k)

Pop == \E failing \in Failures({pending[i] : i \in DOMAIN pending}) :
           TryPop(failing) \/ TryPopBatch(BatchSize, failing)

Next ==
    \/ \E k \in Sessions : \E failing \in Failures({k}) : Produce(k, failing)
    \/ Pop
    \/ WaitForEvents \/ WaitTimesOut
    \/ Close \/ CloseNotifies
    \/ MemoryRunsShort

Spec == Init /\ [][Next]_vars

\* Weak fairness of Pop, which is enabled exactly when the pump is running.
PumpKeepsPopping == []<>(consumer # "Running") \/ []<><<Pop>>_vars

\* The pump's thread keeps running; time-outs are not relied upon, and nothing
\* obliges a session to produce or the server to close.
Fairness == PumpKeepsPopping /\ WF_vars(WaitForEvents) /\ WF_vars(CloseNotifies)

FairSpec == Spec /\ Fairness

-----------------------------------------------------------------------------
(***************************************************************************)
(* Properties.                                                             *)
(***************************************************************************)

\* The facts a slot still has to publish, in order.
Deferred(s) ==
    CASE NextPendingKind(s) = "Accepted" /\ s.closedRecorded -> <<"Accepted", "Closed">>
      [] NextPendingKind(s) = "Accepted" /\ ~s.closedRecorded -> <<"Accepted">>
      [] NextPendingKind(s) = "Closed" -> <<"Closed">>
      [] OTHER -> <<>>

\* The facts of session k among the events es, in order.
FactsOf(es, k) ==
    LET upTo[n \in 0 .. Len(es)] ==
            IF n = 0 THEN <<>>
            ELSE IF es[n].key = k THEN Append(upTo[n - 1], es[n].kind)
                 ELSE upTo[n - 1]
    IN upTo[Len(es)]

Queued(k) == FactsOf(events, k)

Channel == INSTANCE SessionEventChannel
             WITH phase <- recorded,
                  channel <- [k \in Sessions |-> Queued(k) \o Deferred(slots[k])]

\* The handoff is a FIFO of facts per session: whatever mix of full queue,
\* deferral and promotion a session meets, the World sees Accepted, the packets
\* and Closed in the order recorded, each exactly once.
ImplementsChannel == Channel!Spec

\* The ring and the slots agree: a session is in the ring, and only once, exactly
\* when its slot says so and has a fact to publish; no deferred fact is forgotten.
RingMatchesSlots ==
    /\ Cardinality({pending[i] : i \in DOMAIN pending}) = Len(pending)
    /\ {pending[i] : i \in DOMAIN pending} =
         {k \in Sessions : slots[k].pendingRegistered}
    /\ \A k \in Sessions :
          slots[k].pendingRegistered <=> NextPendingKind(slots[k]) # "None"

\* While no allocation fails, facts are deferred only under a full queue: every
\* pop refills the place it frees, so a packet cannot slip in before a fact that
\* waits.
DeferredOnlyWhenFull ==
    memory = "ample" /\ pending # <<>> => Len(events) = EventQueueCapacity

\* The pump learns that the handoff is closed only once everything recorded has
\* been delivered (WaitForEvents looks at the queue alone, not at the ring).
\* A fact whose event could not be allocated before is left behind.
ClosedMeansDrained ==
    consumer = "Closed" /\ memory = "ample" =>
        events = <<>> /\ \A k \in Sessions : Deferred(slots[k]) = <<>>

\* Queue, ring and slots together never lose sight of a recorded fact.
DeferralIsSound ==
    TypeOK /\ RingMatchesSlots /\ DeferredOnlyWhenFull /\ ClosedMeansDrained

\* The pump never sleeps beside an event: the push into an empty queue, and none
\* other, notifies, and the promotion of a deferred fact may be such a push too.
NoLostWakeup == consumer = "Blocked" => events = <<>>

\* A session whose end is recorded has its Closed, and all before it, delivered,
\* unless memory runs short.
EndIsDelivered ==
    \A k \in Sessions :
        recorded[k] = "Ended" ~>
            \/ Queued(k) = <<>> /\ Deferred(slots[k]) = <<>>
            \/ memory = "scarce"

\* A closed handoff lets the pump finish.
CloseReachesPump == closed ~> consumer = "Closed"

=============================================================================
