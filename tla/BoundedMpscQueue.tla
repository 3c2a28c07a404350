-------------------------- MODULE BoundedMpscQueue --------------------------
(***************************************************************************)
(* NrBoundedMpscQueue: the lock-free ring every mailbox lane and every     *)
(* ready queue is.  Each slot carries a sequence number that says which    *)
(* lap it belongs to and whether it holds an item; producers take slots by *)
(* a compare-and-swap on enqueuePos_, the only consumer owns dequeuePos_.  *)
(* One step per atomic operation.  Positions are unbounded here: the code  *)
(* has 2^64 of them, and capacity divides 2^64.                            *)
(***************************************************************************)
EXTENDS Integers, Sequences, FiniteSets

CONSTANTS Producers,   \* threads that call TryPush
          Items,       \* values pushed
          Capacity,    \* a power of two, at least 2
          NoItem       \* raw storage: no object of type T lives there

ASSUME QueueAssumption ==
    /\ Capacity \in Nat \ {0, 1}
    /\ NoItem \notin Items
    /\ Items \cap Producers = {}
    /\ NoItem \notin Producers

VARIABLES enqueuePos, dequeuePos, sequence, storage,
          prod,       \* the TryPush call each producer is in
          cons,       \* the TryPop call the consumer is in
          destroyed   \* the queue's destructor has run

vars == <<enqueuePos, dequeuePos, sequence, storage, prod, cons, destroyed>>

SlotIndex == 0 .. Capacity - 1

\* pos & capacityMask_, the capacity being a power of two.
SlotAt(pos) == pos % Capacity

ProducerState == [pc : {"Outside", "LoadPos", "LoadSequence", "Cas",
                        "Construct", "StoreSequence"},
                  item : Items \cup {NoItem}, pos : Nat, full : BOOLEAN]

ConsumerState == [pc : {"Outside", "LoadSequence", "Take", "FreeSlot",
                        "AdvancePos"},
                  item : Items \cup {NoItem}, empty : BOOLEAN]

Outside(full) == [pc |-> "Outside", item |-> NoItem, pos |-> 0, full |-> full]

TypeOK ==
    /\ enqueuePos \in Nat /\ dequeuePos \in Nat
    /\ sequence \in [SlotIndex -> Nat]
    /\ storage \in [SlotIndex -> Items \cup {NoItem}]
    /\ prod \in [Producers -> ProducerState]
    /\ cons \in ConsumerState
    /\ destroyed \in BOOLEAN

\* The constructor and InitializeSlots.
Init ==
    /\ enqueuePos = 0 /\ dequeuePos = 0
    /\ sequence = [i \in SlotIndex |-> i]
    /\ storage = [i \in SlotIndex |-> NoItem]
    /\ prod = [p \in Producers |-> Outside(FALSE)]
    /\ cons = [pc |-> "Outside", item |-> NoItem, empty |-> FALSE]
    /\ destroyed = FALSE

-----------------------------------------------------------------------------
(***************************************************************************)
(* TryPush.                                                                *)
(***************************************************************************)
SetProducer(p, locals) == prod' = [prod EXCEPT ![p] = locals]

BeginPush(p, v) ==
    /\ prod[p].pc = "Outside" /\ ~destroyed
    /\ SetProducer(p, [pc |-> "LoadPos", item |-> v, pos |-> 0, full |-> FALSE])
    /\ UNCHANGED <<enqueuePos, dequeuePos, sequence, storage, cons, destroyed>>

LoadEnqueuePos(p) ==
    /\ prod[p].pc = "LoadPos"
    /\ SetProducer(p, [prod[p] EXCEPT !.pos = enqueuePos, !.pc = "LoadSequence"])
    /\ UNCHANGED <<enqueuePos, dequeuePos, sequence, storage, cons, destroyed>>

\* Mutant: any slot that is not free is taken for a full queue.
TestSlot_StalePosIsFull(p) ==
    LET diff == sequence[SlotAt(prod[p].pos)] - prod[p].pos IN
    /\ prod[p].pc = "LoadSequence"
    /\ SetProducer(p, IF diff = 0 THEN [prod[p] EXCEPT !.pc = "Cas"]
                                  ELSE Outside(TRUE))
    /\ UNCHANGED <<enqueuePos, dequeuePos, sequence, storage, cons, destroyed>>

\* sequenceDiff: 0, the slot is free for this position; negative, the previous
\* lap still holds it; positive, the position is behind the other producers.
TestSlot(p) ==
    LET diff == sequence[SlotAt(prod[p].pos)] - prod[p].pos IN
    /\ prod[p].pc = "LoadSequence"
    /\ SetProducer(p, CASE diff = 0 -> [prod[p] EXCEPT !.pc = "Cas"]
                        [] diff < 0 -> Outside(TRUE)
                        [] diff > 0 -> [prod[p] EXCEPT !.pc = "LoadPos"])
    /\ UNCHANGED <<enqueuePos, dequeuePos, sequence, storage, cons, destroyed>>

\* compare_exchange_weak, which may fail for no reason.
ReserveSlot(p) ==
    /\ prod[p].pc = "Cas"
    /\ \/ /\ enqueuePos = prod[p].pos
          /\ enqueuePos' = enqueuePos + 1
          /\ SetProducer(p, [prod[p] EXCEPT !.pc = "Construct"])
       \/ /\ SetProducer(p, [prod[p] EXCEPT !.pos = enqueuePos,
                                            !.pc = "LoadSequence"])
          /\ UNCHANGED enqueuePos
    /\ UNCHANGED <<dequeuePos, sequence, storage, cons, destroyed>>

ConstructItem(p) ==
    /\ prod[p].pc = "Construct"
    /\ storage' = [storage EXCEPT ![SlotAt(prod[p].pos)] = prod[p].item]
    /\ SetProducer(p, [prod[p] EXCEPT !.pc = "StoreSequence"])
    /\ UNCHANGED <<enqueuePos, dequeuePos, sequence, cons, destroyed>>

PublishSlot(p) ==
    /\ prod[p].pc = "StoreSequence"
    /\ sequence' = [sequence EXCEPT ![SlotAt(prod[p].pos)] = prod[p].pos + 1]
    /\ SetProducer(p, Outside(FALSE))
    /\ UNCHANGED <<enqueuePos, dequeuePos, storage, cons, destroyed>>

-----------------------------------------------------------------------------
(***************************************************************************)
(* TryPop, called by one thread, and the destructor.                       *)
(***************************************************************************)
BeginPop ==
    /\ cons.pc = "Outside" /\ ~destroyed
    /\ cons' = [pc |-> "LoadSequence", item |-> NoItem, empty |-> FALSE]
    /\ UNCHANGED <<enqueuePos, dequeuePos, sequence, storage, prod, destroyed>>

QueueEmpty == [pc |-> "Outside", item |-> NoItem, empty |-> TRUE]

\* Mutant: a ring with one item in it is taken for an empty one.
TestFilled_LastIsEmpty ==
    /\ cons.pc = "LoadSequence"
    /\ cons' = IF /\ sequence[SlotAt(dequeuePos)] = dequeuePos + 1
                  /\ enqueuePos - dequeuePos > 1
               THEN [cons EXCEPT !.pc = "Take"] ELSE QueueEmpty
    /\ UNCHANGED <<enqueuePos, dequeuePos, sequence, storage, prod, destroyed>>

TestFilled ==
    /\ cons.pc = "LoadSequence"
    /\ cons' = IF sequence[SlotAt(dequeuePos)] = dequeuePos + 1
               THEN [cons EXCEPT !.pc = "Take"] ELSE QueueEmpty
    /\ UNCHANGED <<enqueuePos, dequeuePos, sequence, storage, prod, destroyed>>

\* The item is moved out and its slot's object destroyed.
TakeItem ==
    /\ cons.pc = "Take"
    /\ cons' = [cons EXCEPT !.pc = "FreeSlot", !.item = storage[SlotAt(dequeuePos)]]
    /\ storage' = [storage EXCEPT ![SlotAt(dequeuePos)] = NoItem]
    /\ UNCHANGED <<enqueuePos, dequeuePos, sequence, prod, destroyed>>

FreeSlot ==
    /\ cons.pc = "FreeSlot"
    /\ sequence' = [sequence EXCEPT ![SlotAt(dequeuePos)] = dequeuePos + Capacity]
    /\ cons' = [cons EXCEPT !.pc = "AdvancePos"]
    /\ UNCHANGED <<enqueuePos, dequeuePos, storage, prod, destroyed>>

AdvanceDequeuePos ==
    /\ cons.pc = "AdvancePos"
    /\ dequeuePos' = dequeuePos + 1
    /\ cons' = [cons EXCEPT !.pc = "Outside"]
    /\ UNCHANGED <<enqueuePos, sequence, storage, prod, destroyed>>

\* Mutant: the destructor stops short of the last item.
RemainingPositions_OneShort == dequeuePos .. enqueuePos - 2

RemainingPositions == dequeuePos .. enqueuePos - 1

\* DestroyRemainingItems: every position from dequeuePos_ to enqueuePos_ whose
\* slot is filled loses its item.
DestroyRemainingItems ==
    LET filled == {SlotAt(pos) : pos \in {n \in RemainingPositions :
                                            sequence[SlotAt(n)] = n + 1}}
        freed(i) == CHOOSE n \in RemainingPositions : SlotAt(n) = i IN
    /\ ~destroyed
    /\ cons.pc = "Outside" /\ \A p \in Producers : prod[p].pc = "Outside"
    /\ storage' = [i \in SlotIndex |-> IF i \in filled THEN NoItem ELSE storage[i]]
    /\ sequence' = [i \in SlotIndex |-> IF i \in filled THEN freed(i) + Capacity
                                                        ELSE sequence[i]]
    /\ dequeuePos' = enqueuePos
    /\ destroyed' = TRUE
    /\ UNCHANGED <<enqueuePos, prod, cons>>

\* After its destructor the queue is never used again.
AfterDestruction == destroyed /\ UNCHANGED vars

SomeBeginPush == \E p \in Producers, v \in Items : BeginPush(p, v)

Continue ==
    \/ \E p \in Producers :
          \/ LoadEnqueuePos(p) \/ TestSlot(p) \/ ReserveSlot(p)
          \/ ConstructItem(p) \/ PublishSlot(p)
    \/ BeginPop \/ TestFilled \/ TakeItem \/ FreeSlot \/ AdvanceDequeuePos
    \/ DestroyRemainingItems
    \/ AfterDestruction

Next == SomeBeginPush \/ Continue

Spec == Init /\ [][Next]_vars

-----------------------------------------------------------------------------
(***************************************************************************)
(* Properties.                                                             *)
(***************************************************************************)
\* The lifetime of every item: it is constructed in raw storage only, never over
\* an item the consumer has not taken; it is moved from only once constructed;
\* and the destructor leaves none alive.
ItemLifetimes ==
    /\ \A p \in Producers :
          prod[p].pc = "Construct" => storage[SlotAt(prod[p].pos)] = NoItem
    /\ cons.pc = "Take" => storage[SlotAt(dequeuePos)] \in Items
    /\ destroyed => \A i \in SlotIndex : storage[i] = NoItem

\* What SizeApprox computes exceeds the capacity by at most one, and only while
\* the consumer is between freeing a slot and advancing dequeuePos_.
BacklogBound ==
    enqueuePos - dequeuePos <= Capacity + (IF cons.pc = "AdvancePos" THEN 1 ELSE 0)

\* What the slots hold at any time, and how many of them are taken.
QueueIsSound == TypeOK /\ ItemLifetimes /\ BacklogBound

\* The refinement mapping: the queue's content as MpscFifo sees it.  A slot
\* leaves the content when its sequence is stored, before dequeuePos_ moves.
head == IF cons.pc = "AdvancePos" THEN dequeuePos + 1 ELSE dequeuePos

SlotContent(pos) ==
    IF sequence[SlotAt(pos)] = pos + 1
    THEN IF storage[SlotAt(pos)] = NoItem THEN cons.item ELSE storage[SlotAt(pos)]
    ELSE CHOOSE p \in Producers : /\ prod[p].pc \in {"Construct", "StoreSequence"}
                                  /\ prod[p].pos = pos

AbstractSlots == [i \in 1 .. enqueuePos - head |-> SlotContent(head + i - 1)]

AbstractPush ==
    [p \in Producers |->
        [pc   |-> CASE prod[p].pc = "Outside" -> "Outside"
                    [] prod[p].pc \in {"LoadPos", "LoadSequence", "Cas"} -> "Pushing"
                    [] OTHER -> "Reserved",
         item |-> prod[p].item,
         full |-> prod[p].full]]

AbstractPopped ==
    [item  |-> IF cons.pc \in {"AdvancePos", "Outside", "LoadSequence"}
               THEN cons.item ELSE NoItem,
     empty |-> cons.empty]

Fifo == INSTANCE MpscFifo WITH slots  <- AbstractSlots,
                               push   <- AbstractPush,
                               popped <- AbstractPopped

\* The ring implements the bounded FIFO of MpscFifo: no item is lost, duplicated
\* or reordered; QueueFull is reported of a full queue only, and QueueEmpty of an
\* empty one or while the first item is not published yet, whatever the
\* interleaving of the compare-and-swaps and the sequence stores.
ImplementsFifo == Fifo!FifoSpec

=============================================================================
