------------------------------ MODULE MpscFifo ------------------------------
(***************************************************************************)
(* What NrBoundedMpscQueue promises to its callers, and what module        *)
(* SessionActorScheduler takes a mailbox lane to be: a bounded FIFO whose  *)
(* TryPush first reserves the last slot and later publishes the item.  A   *)
(* TryPop that finds the first slot only reserved reports an empty queue,  *)
(* too: that and a queue with no slot taken are the only cases in which it *)
(* may.                                                                    *)
(***************************************************************************)
EXTENDS Naturals, Sequences

CONSTANTS Producers, Items, Capacity,
          NoItem     \* the result of a TryPop that has no item to give

VARIABLES slots,     \* a slot is the producer that reserved it, or its item
          push,      \* the TryPush call each producer is in
          popped     \* what the latest TryPop has answered so far

fifoVars == <<slots, push, popped>>

PushState == [pc : {"Outside", "Pushing", "Reserved"}, item : Items \cup {NoItem},
              full : BOOLEAN]

PopState == [item : Items \cup {NoItem}, empty : BOOLEAN]

Unanswered == [item |-> NoItem, empty |-> FALSE]

NotPushing(full) == [pc |-> "Outside", item |-> NoItem, full |-> full]

FifoInit ==
    /\ slots = <<>>
    /\ push = [p \in Producers |-> NotPushing(FALSE)]
    /\ popped = Unanswered

BeginPush(p, v) ==
    /\ push[p].pc = "Outside"
    /\ push' = [push EXCEPT ![p] = [pc |-> "Pushing", item |-> v, full |-> FALSE]]
    /\ UNCHANGED <<slots, popped>>

Reserve(p) ==
    /\ push[p].pc = "Pushing"
    /\ Len(slots) < Capacity
    /\ slots' = Append(slots, p)
    /\ push' = [push EXCEPT ![p].pc = "Reserved"]
    /\ UNCHANGED popped

\* QueueFull is only reported of a queue that is full.
RejectFull(p) ==
    /\ push[p].pc = "Pushing"
    /\ Len(slots) >= Capacity
    /\ push' = [push EXCEPT ![p] = NotPushing(TRUE)]
    /\ UNCHANGED <<slots, popped>>

Publish(p) ==
    /\ push[p].pc = "Reserved"
    /\ slots' = [i \in DOMAIN slots |-> IF slots[i] = p THEN push[p].item
                                                        ELSE slots[i]]
    /\ push' = [push EXCEPT ![p] = NotPushing(FALSE)]
    /\ UNCHANGED popped

\* The next call of TryPop: its caller has used the answer of the one before.
BeginPop == popped' = Unanswered /\ UNCHANGED <<slots, push>>

Pop ==
    /\ popped = Unanswered
    /\ slots # <<>> /\ Head(slots) \notin Producers
    /\ popped' = [item |-> Head(slots), empty |-> FALSE]
    /\ slots' = Tail(slots)
    /\ UNCHANGED push

\* QueueEmpty is only reported of a queue that is empty, or whose first item is
\* not published yet.
ReportEmpty ==
    /\ popped = Unanswered
    /\ slots = <<>> \/ Head(slots) \in Producers
    /\ popped' = [item |-> NoItem, empty |-> TRUE]
    /\ UNCHANGED <<slots, push>>

\* The destructor, once no call is under way.
Destroy ==
    /\ \A p \in Producers : push[p].pc = "Outside"
    /\ slots' = <<>>
    /\ UNCHANGED <<push, popped>>

FifoNext ==
    \/ \E p \in Producers :
          \/ \E v \in Items : BeginPush(p, v)
          \/ Reserve(p) \/ RejectFull(p) \/ Publish(p)
    \/ BeginPop \/ Pop \/ ReportEmpty \/ Destroy

FifoSpec == FifoInit /\ [][FifoNext]_fifoVars

=============================================================================
