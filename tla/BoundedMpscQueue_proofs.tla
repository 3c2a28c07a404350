----------------------- MODULE BoundedMpscQueue_proofs -----------------------
(***************************************************************************)
(* Proofs about the ring: for any producers, items and capacity of at      *)
(* least two it keeps every item's lifetime (QueueIsSound) and implements  *)
(* the bounded FIFO of MpscFifo.                                           *)
(*                                                                         *)
(* The invariant reads the sequence numbers as what they stand for.  At    *)
(* any time the ring is a window of Capacity positions that starts at      *)
(* head; each slot belongs to exactly one of them, since two positions     *)
(* that share a slot are at least a lap apart.  A position at or after     *)
(* enqueuePos_ is free and its slot's sequence is the position itself; one *)
(* before it is either reserved, by exactly one producer, or filled, and   *)
(* then the sequence is one more.                                          *)
(***************************************************************************)
EXTENDS BoundedMpscQueue, TLAPS

Reserved(p) == prod[p].pc \in {"Construct", "StoreSequence"}

\* The consumer has moved the item of position n out of its slot and not yet
\* stored the slot's sequence.
BeingFreed(n) == n = dequeuePos /\ cons.pc = "FreeSlot"

FreePosition(n) == sequence[SlotAt(n)] = n /\ storage[SlotAt(n)] = NoItem

ReservedPosition(n) ==
    sequence[SlotAt(n)] = n /\ \E p \in Producers : Reserved(p) /\ prod[p].pos = n

FilledPosition(n) ==
    /\ sequence[SlotAt(n)] = n + 1
    /\ IF BeingFreed(n) THEN storage[SlotAt(n)] = NoItem
                        ELSE storage[SlotAt(n)] \in Items

\* Every position of the window is free, reserved or filled.
WindowInv ==
    /\ head <= enqueuePos /\ enqueuePos <= head + Capacity
    /\ \A n \in enqueuePos .. head + Capacity - 1 : FreePosition(n)
    /\ \A n \in head .. enqueuePos - 1 : ReservedPosition(n) \/ FilledPosition(n)

\* A producer that is about to compare and swap has seen its slot free, and the
\* slot of a position it has reserved is its own.
ProducerSound(p) ==
    /\ prod[p].pc # "Outside" => prod[p].item \in Items
    /\ prod[p].pos <= enqueuePos
    /\ prod[p].pc = "Cas" => prod[p].pos < head + Capacity
    /\ Reserved(p) =>
          /\ prod[p].pos \in head .. enqueuePos - 1
          /\ sequence[SlotAt(prod[p].pos)] = prod[p].pos
    /\ prod[p].pc = "Construct" => storage[SlotAt(prod[p].pos)] = NoItem
    /\ prod[p].pc = "StoreSequence" => storage[SlotAt(prod[p].pos)] = prod[p].item

ProducerInv == \A p \in Producers : ProducerSound(p)

\* No position is reserved twice.
ReservedOnce ==
    \A p, q \in Producers :
        Reserved(p) /\ Reserved(q) /\ prod[p].pos = prod[q].pos => p = q

ConsumerInv ==
    /\ cons.pc \in {"Take", "FreeSlot"} =>
          dequeuePos < enqueuePos /\ sequence[SlotAt(dequeuePos)] = dequeuePos + 1
    /\ cons.pc \in {"FreeSlot", "AdvancePos"} => cons.item \in Items
    /\ cons.pc \in {"LoadSequence", "Take"} => cons.item = NoItem
    /\ cons.pc # "Outside" => ~ cons.empty

\* After the destructor nobody is inside and every slot is raw storage.
DestroyedInv ==
    destroyed => /\ \A p \in Producers : prod[p].pc = "Outside"
                 /\ cons.pc = "Outside"
                 /\ dequeuePos = enqueuePos

QueueInv == TypeOK /\ WindowInv /\ ProducerInv /\ ReservedOnce /\ ConsumerInv
            /\ DestroyedInv

-----------------------------------------------------------------------------
(***************************************************************************)
(* Positions and their slots.                                              *)
(***************************************************************************)
\* What division with remainder gives.
LEMMA Division ==
  ASSUME NEW C \in Nat \ {0}, NEW a \in Nat
  PROVE  /\ a \div C \in Nat
         /\ a % C \in 0 .. C - 1
         /\ a = C * (a \div C) + (a % C)
  OBVIOUS

\* A later multiple is later by at least one lap.
LEMMA Multiples ==
  ASSUME NEW C \in Nat \ {0}, NEW p \in Nat, NEW q \in Nat, p < q
  PROVE  C * p + C <= C * q
  OBVIOUS

\* Quotient and remainder are the only ones.
LEMMA DivisionUnique ==
  ASSUME NEW C \in Nat \ {0}, NEW q1 \in Nat, NEW q2 \in Nat,
         NEW r1 \in 0 .. C - 1, NEW r2 \in 0 .. C - 1,
         C * q1 + r1 = C * q2 + r2
  PROVE  q1 = q2 /\ r1 = r2
<1>1. C * q1 \in Nat /\ C * q2 \in Nat
  OBVIOUS
<1>2. ~ q1 < q2
  BY <1>1, Multiples
<1>3. ~ q2 < q1
  BY <1>1, Multiples
<1> QED
  BY <1>1, <1>2, <1>3

\* The slot of a position is that of the position a lap later.
LEMMA NextLap ==
  ASSUME NEW C \in Nat \ {0}, NEW a \in Nat
  PROVE  (a + C) % C = a % C
<1> DEFINE b == a + C
           q == a \div C
           r == a % C
           s == b \div C
           t == b % C
<1>1. b \in Nat
  OBVIOUS
<1>2. q \in Nat /\ r \in 0 .. C - 1 /\ a = C * q + r
  BY Division
<1> HIDE DEF b
<1>3. s \in Nat /\ t \in 0 .. C - 1 /\ b = C * s + t
  BY <1>1, Division
<1> HIDE DEF q, r, s, t
<1>4. q + 1 \in Nat /\ C * (q + 1) = C * q + C
  BY <1>2
<1>5. C * (q + 1) + r = C * s + t
  BY <1>2, <1>3, <1>4 DEF b
<1>6. r = t
  BY <1>2, <1>3, <1>4, <1>5, DivisionUnique
<1> QED
  BY <1>6 DEF r, t, b

\* Two positions that share a slot are at least a lap apart.
LEMMA LapApart ==
  ASSUME NEW C \in Nat \ {0}, NEW a \in Nat, NEW b \in Nat,
         a % C = b % C, a < b
  PROVE  b >= a + C
<1> DEFINE q == a \div C
           s == b \div C
           r == a % C
<1>1. q \in Nat /\ r \in 0 .. C - 1 /\ a = C * q + r
  BY Division
<1>2. s \in Nat /\ b = C * s + r
  BY Division
<1> HIDE DEF q, r, s
<1>3. C * q \in Nat /\ C * s \in Nat
  BY <1>1, <1>2
<1>4. q < s
  <2>1. CASE s < q
    BY <1>1, <1>2, <1>3, <2>1, Multiples
  <2>2. CASE s = q
    BY <1>1, <1>2, <2>2
  <2> QED
    BY <1>1, <1>2, <2>1, <2>2
<1>5. C * q + C <= C * s
  BY <1>1, <1>2, <1>4, Multiples
<1> QED
  BY <1>1, <1>2, <1>3, <1>5

\* Every slot belongs to a position of every window.
LEMMA WindowCovers ==
  ASSUME NEW C \in Nat \ {0}, NEW h \in Nat, NEW i \in 0 .. C - 1
  PROVE  \E n \in h .. h + C - 1 : n % C = i
<1> DEFINE q == h \div C
           r == h % C
           n == C * q + i
           s == n \div C
           t == n % C
<1>1. q \in Nat /\ r \in 0 .. C - 1 /\ h = C * q + r
  BY Division
<1> HIDE DEF q, r
<1>2. C * q \in Nat
  BY <1>1
<1>3. n \in Nat
  BY <1>2
<1> HIDE DEF n
<1>4. s \in Nat /\ t \in 0 .. C - 1 /\ n = C * s + t
  BY <1>3, Division
<1> HIDE DEF s, t
<1>5. t = i
  BY <1>1, <1>4, DivisionUnique DEF n
<1>6. n % C = i
  BY <1>5 DEF t
<1>7. (n + C) % C = i
  BY <1>3, <1>6, NextLap
<1>8. CASE r <= i
  <2>1. n \in h .. h + C - 1
    BY <1>1, <1>2, <1>8 DEF n
  <2> QED
    BY <1>6, <2>1
<1>9. CASE i < r
  <2>1. n + C \in h .. h + C - 1
    BY <1>1, <1>2, <1>9 DEF n
  <2> QED
    BY <1>7, <2>1
<1> QED
  BY <1>1, <1>8, <1>9

\* The same facts about the ring's own slots.
LEMMA SlotFacts ==
  /\ Capacity \in Nat /\ Capacity >= 2
  /\ \A n \in Nat : SlotAt(n) \in SlotIndex
  /\ \A n \in Nat : SlotAt(n + Capacity) = SlotAt(n)
  /\ \A m, n \in Nat : SlotAt(m) = SlotAt(n) /\ m < n => m + Capacity <= n
  /\ \A h \in Nat, i \in SlotIndex : \E n \in h .. h + Capacity - 1 : SlotAt(n) = i
<1>1. Capacity \in Nat \ {0} /\ Capacity >= 2
  BY QueueAssumption
<1>2. \A n \in Nat : SlotAt(n) \in SlotIndex
  BY <1>1, Division DEF SlotAt, SlotIndex
<1>3. \A n \in Nat : SlotAt(n + Capacity) = SlotAt(n)
  BY <1>1, NextLap DEF SlotAt
<1>4. ASSUME NEW m \in Nat, NEW n \in Nat, SlotAt(m) = SlotAt(n), m < n
      PROVE  m + Capacity <= n
  <2>1. m % Capacity = n % Capacity
    BY <1>4 DEF SlotAt
  <2>2. n >= m + Capacity
    BY <1>1, <1>4, <2>1, LapApart
  <2> QED
    BY <1>1, <2>2
<1>5. ASSUME NEW h \in Nat, NEW i \in SlotIndex
      PROVE  \E n \in h .. h + Capacity - 1 : SlotAt(n) = i
  BY <1>1, <1>5, WindowCovers DEF SlotAt, SlotIndex
<1> QED
  BY <1>1, <1>2, <1>3, <1>4, <1>5

\* All that most steps need of the capacity: a ring has at least two slots.
LEMMA CapacityFacts ==
  Capacity \in Nat /\ Capacity >= 2
BY QueueAssumption

\* Two positions less than a lap apart have slots of their own.
LEMMA OtherSlots ==
  ASSUME NEW m \in Nat, NEW n \in Nat, m # n, m < n + Capacity, n < m + Capacity
  PROVE  SlotAt(m) # SlotAt(n)
<1>1. Capacity \in Nat
  BY CapacityFacts
<1>2. SlotAt(m) = SlotAt(n) /\ m < n => m + Capacity <= n
  BY SlotFacts
<1>3. SlotAt(n) = SlotAt(m) /\ n < m => n + Capacity <= m
  BY SlotFacts
<1> QED
  BY <1>1, <1>2, <1>3

-----------------------------------------------------------------------------
(***************************************************************************)
(* The invariant holds at first, and every step of a producer keeps it.    *)
(***************************************************************************)
\* The constructor's ring: a window of free positions that starts at 0.
LEMMA InitInv == Init => QueueInv
<1> SUFFICES ASSUME Init PROVE QueueInv
  OBVIOUS
<1>1. TypeOK
  <2>1. Outside(FALSE) \in ProducerState
    BY DEF Outside, ProducerState
  <2>2. [pc |-> "Outside", item |-> NoItem, empty |-> FALSE] \in ConsumerState
    BY DEF ConsumerState
  <2>3. SlotIndex \subseteq Nat
    BY CapacityFacts DEF SlotIndex
  <2> QED
    BY <2>1, <2>2, <2>3 DEF Init, TypeOK
<1> USE DEF Init, Outside
<1>2. head = 0
  BY DEF head
<1>3. ASSUME NEW n \in 0 .. Capacity - 1 PROVE SlotAt(n) = n
  BY CapacityFacts, QueueAssumption DEF SlotAt
<1>4. WindowInv
  BY <1>2, <1>3, CapacityFacts DEF WindowInv, FreePosition, SlotIndex
<1>5. ProducerInv /\ ReservedOnce
  BY DEF ProducerInv, ProducerSound, ReservedOnce, Reserved
<1>6. ConsumerInv /\ DestroyedInv
  BY DEF ConsumerInv, DestroyedInv
<1> QED
  BY <1>1, <1>4, <1>5, <1>6 DEF QueueInv

\* A producer that neither reserves nor holds a position changes nothing but itself.
LEMMA LocalStep ==
  ASSUME QueueInv, NEW p \in Producers, NEW s \in ProducerState,
         ~ Reserved(p), s.pc \notin {"Construct", "StoreSequence"},
         SetProducer(p, s), s.pc # "Outside" => s.item \in Items /\ ~ destroyed,
         s.pos <= enqueuePos, s.pc = "Cas" => s.pos < head + Capacity,
         UNCHANGED <<enqueuePos, dequeuePos, sequence, storage, cons, destroyed>>
  PROVE  QueueInv'
<1>1. TypeOK'
  BY DEF QueueInv, TypeOK, SetProducer
<1>2. head' = head
  BY DEF head
<1>3. \A q \in Producers : prod'[q] = IF q = p THEN s ELSE prod[q]
  BY DEF QueueInv, TypeOK, SetProducer
<1>4. \A q \in Producers : Reserved(q)' = Reserved(q)
  BY <1>3 DEF Reserved
<1>5. \A q \in Producers : Reserved(q) => prod'[q] = prod[q]
  BY <1>3
<1>6. \A n : FreePosition(n)' = FreePosition(n) /\ FilledPosition(n)' = FilledPosition(n)
  BY DEF FreePosition, FilledPosition, BeingFreed
<1>7. \A n : ReservedPosition(n) => ReservedPosition(n)'
  BY <1>4, <1>5 DEF ReservedPosition
<1>8. WindowInv'
  BY <1>2, <1>6, <1>7 DEF QueueInv, WindowInv
<1>9. ProducerInv'
  <2> SUFFICES ASSUME NEW q \in Producers PROVE ProducerSound(q)'
    BY DEF ProducerInv
  <2>1. CASE q = p
    BY <1>2, <1>3, <2>1 DEF ProducerSound, Reserved
  <2>2. CASE q # p
    BY <1>2, <1>3, <2>2 DEF QueueInv, ProducerInv, ProducerSound, Reserved
  <2> QED
    BY <2>1, <2>2
<1>10. ReservedOnce'
  BY <1>4, <1>5 DEF QueueInv, ReservedOnce
<1>11. ConsumerInv'
  BY DEF QueueInv, ConsumerInv
<1>12. DestroyedInv'
  BY <1>3 DEF QueueInv, DestroyedInv
<1> QED
  BY <1>1, <1>8, <1>9, <1>10, <1>11, <1>12 DEF QueueInv

\* A push that begins has reserved nothing.
LEMMA BeginPushKeeps ==
  ASSUME QueueInv, NEW p \in Producers, NEW v \in Items, BeginPush(p, v)
  PROVE  QueueInv'
<1> DEFINE s == [pc |-> "LoadPos", item |-> v, pos |-> 0, full |-> FALSE]
<1>1. s \in ProducerState
  BY DEF ProducerState
<1>2. ~ Reserved(p) /\ SetProducer(p, s) /\ ~ destroyed
      /\ UNCHANGED <<enqueuePos, dequeuePos, sequence, storage, cons, destroyed>>
  BY DEF BeginPush, Reserved
<1>3. s.pos <= enqueuePos
  BY DEF QueueInv, TypeOK
<1>4. s.pc = "LoadPos" /\ s.item \in Items
  OBVIOUS
<1> HIDE DEF s
<1> QED
  BY <1>1, <1>2, <1>3, <1>4, LocalStep

\* A producer that is inside a call of a queue that is still there.
LEMMA InsideCall ==
  ASSUME QueueInv, NEW p \in Producers, prod[p].pc # "Outside"
  PROVE  prod[p] \in ProducerState /\ prod[p].item \in Items /\ ~ destroyed
  BY DEF QueueInv, TypeOK, ProducerInv, ProducerSound, DestroyedInv

\* A position read from enqueuePos_ is not beyond it.
LEMMA LoadEnqueuePosKeeps ==
  ASSUME QueueInv, NEW p \in Producers, LoadEnqueuePos(p)
  PROVE  QueueInv'
<1> DEFINE s == [prod[p] EXCEPT !.pos = enqueuePos, !.pc = "LoadSequence"]
<1>1. ~ Reserved(p) /\ SetProducer(p, s) /\ prod[p].pc # "Outside"
      /\ UNCHANGED <<enqueuePos, dequeuePos, sequence, storage, cons, destroyed>>
  BY DEF LoadEnqueuePos, Reserved
<1>2. enqueuePos \in Nat
  BY DEF QueueInv, TypeOK
<1>3. s \in ProducerState /\ s.pos = enqueuePos /\ s.pc = "LoadSequence"
      /\ s.item = prod[p].item
  BY <1>1, <1>2, InsideCall DEF ProducerState
<1> HIDE DEF s
<1> QED
  BY <1>1, <1>2, <1>3, InsideCall, LocalStep

\* The previous lap still holds a slot whose position is not yet in the window,
\* and no slot of the window has a smaller sequence than its position.
LEMMA SlotSeen ==
  ASSUME QueueInv, NEW p \in Producers
  PROVE  /\ sequence[SlotAt(prod[p].pos)] = prod[p].pos => prod[p].pos < head + Capacity
         /\ sequence[SlotAt(prod[p].pos)] < prod[p].pos => enqueuePos = head + Capacity
<1> DEFINE pos == prod[p].pos
<1>1. /\ pos \in Nat /\ pos <= enqueuePos /\ enqueuePos <= head + Capacity
      /\ enqueuePos \in Nat /\ head \in Nat /\ head <= enqueuePos
  BY DEF QueueInv, TypeOK, ProducerState, ProducerInv, ProducerSound, WindowInv, head
<1>2. SlotAt(pos) \in SlotIndex /\ sequence[SlotAt(pos)] \in Nat
  BY <1>1, SlotFacts DEF QueueInv, TypeOK
<1>3. PICK n \in head .. head + Capacity - 1 : SlotAt(n) = SlotAt(pos)
  BY <1>1, <1>2, SlotFacts
<1>4. sequence[SlotAt(n)] \in {n, n + 1}
  <2>1. CASE n < enqueuePos
    BY <1>1, <1>3, <2>1
       DEF QueueInv, WindowInv, ReservedPosition, FilledPosition
  <2>2. CASE n >= enqueuePos
    BY <1>1, <1>3, <2>2 DEF QueueInv, WindowInv, FreePosition
  <2> QED
    BY <1>1, <1>3, <2>1, <2>2
<1> HIDE DEF pos
<1>5. ASSUME sequence[SlotAt(pos)] = pos PROVE pos < head + Capacity
  BY <1>1, <1>3, <1>4, <1>5, SlotFacts
<1>6. ASSUME sequence[SlotAt(pos)] < pos PROVE enqueuePos = head + Capacity
  <2>1. n < pos
    BY <1>1, <1>2, <1>3, <1>4, <1>6
  <2>2. n + Capacity <= pos
    BY <1>1, <1>3, <2>1, SlotFacts
  <2> QED
    BY <1>1, <1>3, <2>2, CapacityFacts
<1> QED
  BY <1>5, <1>6 DEF pos

\* Only a position inside the window goes on to the compare-and-swap.
LEMMA TestSlotKeeps ==
  ASSUME QueueInv, NEW p \in Producers, TestSlot(p)
  PROVE  QueueInv'
<1> DEFINE c == [prod[p] EXCEPT !.pc = "Cas"]
           l == [prod[p] EXCEPT !.pc = "LoadPos"]
           o == Outside(TRUE)
           diff == sequence[SlotAt(prod[p].pos)] - prod[p].pos
<1>1. /\ ~ Reserved(p) /\ prod[p].pc # "Outside"
      /\ UNCHANGED <<enqueuePos, dequeuePos, sequence, storage, cons, destroyed>>
  BY DEF TestSlot, Reserved
<1>2. prod[p] \in ProducerState /\ prod[p].item \in Items /\ ~ destroyed
  BY <1>1, InsideCall
<1>3. prod[p].pos \in Nat /\ prod[p].pos <= enqueuePos /\ enqueuePos \in Nat
  BY <1>2 DEF QueueInv, TypeOK, ProducerInv, ProducerSound, ProducerState
<1>4. sequence[SlotAt(prod[p].pos)] \in Nat
  BY <1>3, SlotFacts DEF QueueInv, TypeOK
<1>5. CASE diff = 0
  <2>1. SetProducer(p, c)
    <3>1. ~(diff < 0) /\ ~(diff > 0)
      BY <1>3, <1>4, <1>5
    <3> QED
      BY <1>5, <3>1 DEF TestSlot
  <2>2. c \in ProducerState /\ c.pc = "Cas" /\ c.item = prod[p].item /\ c.pos = prod[p].pos
    BY <1>2 DEF ProducerState
  <2>3. prod[p].pos < head + Capacity
    BY <1>3, <1>4, <1>5, SlotSeen
  <2> HIDE DEF c
  <2> QED
    BY <1>1, <1>2, <1>3, <2>1, <2>2, <2>3, LocalStep
<1>6. CASE diff < 0
  <2>1. SetProducer(p, o)
    <3>1. ~(diff = 0) /\ ~(diff > 0)
      BY <1>3, <1>4, <1>6
    <3> QED
      BY <1>6, <3>1 DEF TestSlot
  <2>2. o \in ProducerState /\ o.pc = "Outside" /\ o.pos = 0
    BY DEF Outside, ProducerState
  <2> HIDE DEF o
  <2>3. o.pos <= enqueuePos
    BY <1>3, <2>2
  <2> QED
    BY <1>1, <2>1, <2>2, <2>3, LocalStep
<1>7. CASE diff > 0
  <2>1. SetProducer(p, l)
    <3>1. ~(diff = 0) /\ ~(diff < 0)
      BY <1>3, <1>4, <1>7
    <3> QED
      BY <1>7, <3>1 DEF TestSlot
  <2>2. l \in ProducerState /\ l.pc = "LoadPos" /\ l.item = prod[p].item /\ l.pos = prod[p].pos
    BY <1>2 DEF ProducerState
  <2> HIDE DEF l
  <2> QED
    BY <1>1, <1>2, <1>3, <2>1, <2>2, LocalStep
<1> QED
  BY <1>3, <1>4, <1>5, <1>6, <1>7

\* The two outcomes of the compare-and-swap.
CasSucceeds(p) ==
    /\ prod[p].pc = "Cas" /\ enqueuePos = prod[p].pos
    /\ enqueuePos' = enqueuePos + 1
    /\ SetProducer(p, [prod[p] EXCEPT !.pc = "Construct"])
    /\ UNCHANGED <<dequeuePos, sequence, storage, cons, destroyed>>

CasFails(p) ==
    /\ prod[p].pc = "Cas"
    /\ SetProducer(p, [prod[p] EXCEPT !.pos = enqueuePos, !.pc = "LoadSequence"])
    /\ UNCHANGED <<enqueuePos, dequeuePos, sequence, storage, cons, destroyed>>

\* A failed compare-and-swap only gives the producer a new position.
LEMMA CasFailsKeeps ==
  ASSUME QueueInv, NEW p \in Producers, CasFails(p)
  PROVE  QueueInv'
<1> DEFINE s == [prod[p] EXCEPT !.pos = enqueuePos, !.pc = "LoadSequence"]
<1>1. ~ Reserved(p) /\ SetProducer(p, s) /\ prod[p].pc # "Outside"
      /\ UNCHANGED <<enqueuePos, dequeuePos, sequence, storage, cons, destroyed>>
  BY DEF CasFails, Reserved
<1>2. enqueuePos \in Nat
  BY DEF QueueInv, TypeOK
<1>3. s \in ProducerState /\ s.pos = enqueuePos /\ s.pc = "LoadSequence"
      /\ s.item = prod[p].item
  BY <1>1, <1>2, InsideCall DEF ProducerState
<1> HIDE DEF s
<1> QED
  BY <1>1, <1>2, <1>3, InsideCall, LocalStep

\* The first free position of the window becomes the last reserved one.
LEMMA CasSucceedsKeeps ==
  ASSUME QueueInv, NEW p \in Producers, CasSucceeds(p)
  PROVE  QueueInv'
<1> DEFINE s == [prod[p] EXCEPT !.pc = "Construct"]
<1>1. prod[p] \in ProducerState /\ prod[p].item \in Items /\ ~ destroyed /\ ~ Reserved(p)
  BY InsideCall DEF CasSucceeds, Reserved
<1>2. s \in ProducerState /\ s.pc = "Construct" /\ s.pos = enqueuePos /\ s.item = prod[p].item
  BY <1>1 DEF ProducerState, CasSucceeds
<1>3. /\ enqueuePos' = enqueuePos + 1 /\ SetProducer(p, s)
      /\ UNCHANGED <<dequeuePos, sequence, storage, cons, destroyed>>
  BY DEF CasSucceeds
<1>4. /\ enqueuePos \in Nat /\ head \in Nat /\ head <= enqueuePos
      /\ enqueuePos < head + Capacity
  BY DEF QueueInv, TypeOK, WindowInv, ProducerInv, ProducerSound, CasSucceeds, head
<1>5. FreePosition(enqueuePos)
  BY <1>4, CapacityFacts DEF QueueInv, WindowInv
<1> HIDE DEF s
<1>6. \A q \in Producers : prod'[q] = IF q = p THEN s ELSE prod[q]
  BY <1>3 DEF QueueInv, TypeOK, SetProducer
<1>7. head' = head
  BY <1>3 DEF head
<1>8. \A q \in Producers : q # p => Reserved(q)' = Reserved(q)
  BY <1>6 DEF Reserved
<1>9. TypeOK'
  BY <1>2, <1>3 DEF QueueInv, TypeOK, SetProducer
<1>10. WindowInv'
  <2>1. \A n : FreePosition(n)' = FreePosition(n) /\ FilledPosition(n)' = FilledPosition(n)
    BY <1>3 DEF FreePosition, FilledPosition, BeingFreed
  <2>2. \A n : ReservedPosition(n) => ReservedPosition(n)'
    BY <1>1, <1>3, <1>6, <1>8 DEF ReservedPosition
  <2>3. \A n : n = enqueuePos => ReservedPosition(n)'
    BY <1>2, <1>3, <1>5, <1>6 DEF ReservedPosition, FreePosition, Reserved
  <2>4. \A n \in head .. enqueuePos : ReservedPosition(n)' \/ FilledPosition(n)'
    <3> SUFFICES ASSUME NEW n \in head .. enqueuePos
                 PROVE  ReservedPosition(n)' \/ FilledPosition(n)'
      OBVIOUS
    <3>1. CASE n = enqueuePos
      BY <2>3, <3>1
    <3>2. CASE n # enqueuePos
      <4>1. n \in head .. enqueuePos - 1
        BY <1>4, <3>2
      <4> QED
        BY <2>1, <2>2, <4>1 DEF QueueInv, WindowInv
    <3> QED
      BY <3>1, <3>2
  <2>5. \A n \in enqueuePos + 1 .. head + Capacity - 1 : FreePosition(n)'
    BY <1>4, <2>1, CapacityFacts DEF QueueInv, WindowInv
  <2>6. enqueuePos + 1 <= head + Capacity /\ head <= enqueuePos + 1
        /\ enqueuePos + 1 - 1 = enqueuePos
    BY <1>4, CapacityFacts
  <2>7. \A n \in head' .. enqueuePos' - 1 : ReservedPosition(n)' \/ FilledPosition(n)'
    <3>1. head' .. enqueuePos' - 1 = head .. enqueuePos
      BY <1>3, <1>4, <1>7
    <3> QED
      BY <2>4, <3>1
  <2>8. \A n \in enqueuePos' .. head' + Capacity - 1 : FreePosition(n)'
    BY <1>3, <1>7, <2>5
  <2> QED
    BY <1>3, <1>7, <2>6, <2>7, <2>8 DEF WindowInv
<1>11. ProducerInv'
  <2> SUFFICES ASSUME NEW q \in Producers PROVE ProducerSound(q)'
    BY DEF ProducerInv
  <2>1. CASE q = p
    BY <1>1, <1>2, <1>3, <1>4, <1>5, <1>6, <1>7, <2>1
       DEF ProducerSound, FreePosition, Reserved
  <2>2. CASE q # p
    <3>1. prod[q].pos \in Nat
      BY DEF QueueInv, TypeOK, ProducerState
    <3> QED
      BY <1>3, <1>4, <1>6, <1>7, <2>2, <3>1
         DEF QueueInv, ProducerInv, ProducerSound, Reserved
  <2> QED
    BY <2>1, <2>2
<1>12. ReservedOnce'
  <2>1. \A q \in Producers : q # p /\ Reserved(q) => prod[q].pos < enqueuePos
    BY <1>4 DEF QueueInv, ProducerInv, ProducerSound
  <2>2. \A q \in Producers : q # p /\ Reserved(q)' => prod'[q].pos # enqueuePos
    BY <1>4, <1>6, <1>8, <2>1
  <2>3. ASSUME NEW q \in Producers, NEW r \in Producers, Reserved(q)', Reserved(r)',
               prod'[q].pos = prod'[r].pos
        PROVE  q = r
    <3>1. CASE q = p
      BY <1>2, <1>6, <2>2, <2>3, <3>1
    <3>2. CASE r = p
      BY <1>2, <1>6, <2>2, <2>3, <3>2
    <3>3. CASE q # p /\ r # p
      BY <1>6, <1>8, <2>3, <3>3 DEF QueueInv, ReservedOnce
    <3> QED
      BY <3>1, <3>2, <3>3
  <2> QED
    BY <2>3 DEF ReservedOnce
<1>13. ConsumerInv'
  BY <1>3, <1>4 DEF QueueInv, TypeOK, ConsumerInv
<1>14. DestroyedInv'
  BY <1>1, <1>3 DEF DestroyedInv
<1> QED
  BY <1>9, <1>10, <1>11, <1>12, <1>13, <1>14 DEF QueueInv

\* Either outcome keeps the invariant.
LEMMA ReserveSlotKeeps ==
  ASSUME QueueInv, NEW p \in Producers, ReserveSlot(p)
  PROVE  QueueInv'
<1>1. CasSucceeds(p) \/ CasFails(p)
  BY DEF ReserveSlot, CasSucceeds, CasFails
<1> QED
  BY <1>1, CasSucceedsKeeps, CasFailsKeeps

\* An item is constructed in the slot of the producer's own position.
LEMMA ConstructItemKeeps ==
  ASSUME QueueInv, NEW p \in Producers, ConstructItem(p)
  PROVE  QueueInv'
<1> DEFINE s == [prod[p] EXCEPT !.pc = "StoreSequence"]
           pos == prod[p].pos
<1>1. /\ prod[p] \in ProducerState /\ prod[p].item \in Items /\ ~ destroyed
      /\ Reserved(p) /\ prod[p].pc = "Construct"
  BY InsideCall DEF ConstructItem, Reserved
<1>2. s \in ProducerState /\ s.pc = "StoreSequence" /\ s.pos = pos /\ s.item = prod[p].item
  BY <1>1 DEF ProducerState
<1>3. /\ SetProducer(p, s) /\ storage' = [storage EXCEPT ![SlotAt(pos)] = prod[p].item]
      /\ UNCHANGED <<enqueuePos, dequeuePos, sequence, cons, destroyed>>
  BY DEF ConstructItem
<1>4. /\ enqueuePos \in Nat /\ head \in Nat /\ enqueuePos <= head + Capacity
      /\ pos \in Nat /\ pos \in head .. enqueuePos - 1 /\ sequence[SlotAt(pos)] = pos
  BY <1>1 DEF QueueInv, TypeOK, WindowInv, ProducerInv, ProducerSound, ProducerState, head
<1> HIDE DEF s, pos
<1>5. SlotAt(pos) \in SlotIndex /\ Capacity \in Nat /\ Capacity >= 2
  BY <1>4, SlotFacts
<1>6. \A q \in Producers : prod'[q] = IF q = p THEN s ELSE prod[q]
  BY <1>3 DEF QueueInv, TypeOK, SetProducer
<1>7. \A i \in SlotIndex : storage'[i] = IF i = SlotAt(pos) THEN prod[p].item ELSE storage[i]
  BY <1>3 DEF QueueInv, TypeOK
<1>8. head' = head
  BY <1>3 DEF head
<1>9. \A q \in Producers : Reserved(q)' = Reserved(q) /\ prod'[q].pos = prod[q].pos
  BY <1>1, <1>2, <1>6 DEF Reserved, pos
\* Other positions of the window have other slots.
<1>10. \A n \in head .. head + Capacity - 1 :
          n # pos => SlotAt(n) \in SlotIndex /\ storage'[SlotAt(n)] = storage[SlotAt(n)]
  <2> SUFFICES ASSUME NEW n \in head .. head + Capacity - 1, n # pos
               PROVE  SlotAt(n) \in SlotIndex /\ SlotAt(n) # SlotAt(pos)
    BY <1>7
  <2>1. n \in Nat /\ SlotAt(n) \in SlotIndex
    BY <1>4, SlotFacts
  <2> QED
    BY <1>4, <1>5, <2>1, SlotFacts
<1>11. TypeOK'
  <2>1. storage' \in [SlotIndex -> Items \cup {NoItem}]
    BY <1>1, <1>3 DEF QueueInv, TypeOK
  <2> QED
    BY <1>2, <1>3, <2>1 DEF QueueInv, TypeOK, SetProducer
<1>12. WindowInv'
  <2>1. \A n \in enqueuePos .. head + Capacity - 1 : FreePosition(n)'
    BY <1>3, <1>4, <1>5, <1>10 DEF QueueInv, WindowInv, FreePosition
  <2>2. \A n : ReservedPosition(n) => ReservedPosition(n)'
    BY <1>3, <1>9 DEF ReservedPosition
  <2>3. ASSUME NEW n \in head .. enqueuePos - 1, FilledPosition(n)
        PROVE  FilledPosition(n)'
    <3>1. n # pos
      BY <1>4, <2>3 DEF FilledPosition
    <3>2. n \in head .. head + Capacity - 1
      BY <1>4, <1>5
    <3>3. storage'[SlotAt(n)] = storage[SlotAt(n)]
      BY <1>10, <3>1, <3>2
    <3> QED
      BY <1>3, <2>3, <3>3 DEF FilledPosition, BeingFreed
  <2> QED
    BY <1>3, <1>8, <2>1, <2>2, <2>3 DEF QueueInv, WindowInv
<1>13. ProducerInv'
  <2> SUFFICES ASSUME NEW q \in Producers PROVE ProducerSound(q)'
    BY DEF ProducerInv
  <2>1. CASE q = p
    BY <1>1, <1>2, <1>3, <1>4, <1>5, <1>6, <1>7, <1>8, <2>1
       DEF ProducerSound, Reserved
  <2>2. CASE q # p
    <3>1. prod'[q] = prod[q]
      BY <1>6, <2>2
    <3>2. ASSUME Reserved(q)
          PROVE  storage'[SlotAt(prod[q].pos)] = storage[SlotAt(prod[q].pos)]
      <4>1. prod[q].pos # pos
        BY <1>1, <2>2, <3>2 DEF QueueInv, ReservedOnce, pos
      <4>2. prod[q].pos \in head .. head + Capacity - 1
        BY <1>4, <1>5, <3>2 DEF QueueInv, ProducerInv, ProducerSound
      <4> QED
        BY <1>10, <4>1, <4>2
    <3> QED
      BY <1>3, <1>8, <3>1, <3>2 DEF QueueInv, ProducerInv, ProducerSound, Reserved
  <2> QED
    BY <2>1, <2>2
<1>14. ReservedOnce'
  BY <1>9 DEF QueueInv, ReservedOnce
<1>15. ConsumerInv'
  BY <1>3 DEF QueueInv, ConsumerInv
<1>16. DestroyedInv'
  BY <1>1, <1>3 DEF DestroyedInv
<1> QED
  BY <1>11, <1>12, <1>13, <1>14, <1>15, <1>16 DEF QueueInv

\* The reserved position becomes a filled one.
LEMMA PublishSlotKeeps ==
  ASSUME QueueInv, NEW p \in Producers, PublishSlot(p)
  PROVE  QueueInv'
<1> DEFINE s == Outside(FALSE)
           pos == prod[p].pos
<1>1. /\ prod[p] \in ProducerState /\ prod[p].item \in Items /\ ~ destroyed
      /\ Reserved(p) /\ prod[p].pc = "StoreSequence"
  BY InsideCall DEF PublishSlot, Reserved
<1>2. s \in ProducerState /\ s.pc = "Outside" /\ s.pos = 0 /\ s.item = NoItem
  BY DEF Outside, ProducerState
<1>3. /\ SetProducer(p, s) /\ sequence' = [sequence EXCEPT ![SlotAt(pos)] = pos + 1]
      /\ UNCHANGED <<enqueuePos, dequeuePos, storage, cons, destroyed>>
  BY DEF PublishSlot
<1>4. /\ enqueuePos \in Nat /\ head \in Nat /\ enqueuePos <= head + Capacity
      /\ pos \in Nat /\ pos \in head .. enqueuePos - 1 /\ sequence[SlotAt(pos)] = pos
      /\ storage[SlotAt(pos)] = prod[p].item
  BY <1>1 DEF QueueInv, TypeOK, WindowInv, ProducerInv, ProducerSound, ProducerState, head
<1> HIDE DEF s, pos
<1>5. SlotAt(pos) \in SlotIndex /\ Capacity \in Nat /\ Capacity >= 2
  BY <1>4, SlotFacts
<1>6. \A q \in Producers : prod'[q] = IF q = p THEN s ELSE prod[q]
  BY <1>3 DEF QueueInv, TypeOK, SetProducer
<1>7. \A i \in SlotIndex : sequence'[i] = IF i = SlotAt(pos) THEN pos + 1 ELSE sequence[i]
  BY <1>3 DEF QueueInv, TypeOK
<1>8. head' = head
  BY <1>3 DEF head
<1>9. /\ ~ Reserved(p)'
      /\ \A q \in Producers : q # p => Reserved(q)' = Reserved(q) /\ prod'[q].pos = prod[q].pos
  BY <1>2, <1>6 DEF Reserved
<1>10. \A n \in head .. head + Capacity - 1 :
          n # pos => SlotAt(n) \in SlotIndex /\ sequence'[SlotAt(n)] = sequence[SlotAt(n)]
  <2> SUFFICES ASSUME NEW n \in head .. head + Capacity - 1, n # pos
               PROVE  SlotAt(n) \in SlotIndex /\ SlotAt(n) # SlotAt(pos)
    BY <1>7
  <2>1. n \in Nat /\ SlotAt(n) \in SlotIndex
    BY <1>4, SlotFacts
  <2> QED
    BY <1>4, <1>5, <2>1, SlotFacts
<1>11. TypeOK'
  <2>1. sequence' \in [SlotIndex -> Nat]
    <3>1. pos + 1 \in Nat
      BY <1>4
    <3> QED
      BY <1>3, <3>1 DEF QueueInv, TypeOK
  <2> QED
    BY <1>2, <1>3, <2>1 DEF QueueInv, TypeOK, SetProducer
<1>12. WindowInv'
  <2>1. \A n \in enqueuePos .. head + Capacity - 1 : FreePosition(n)'
    BY <1>3, <1>4, <1>5, <1>10 DEF QueueInv, WindowInv, FreePosition
  <2>2. ASSUME NEW n \in head .. enqueuePos - 1
        PROVE  ReservedPosition(n)' \/ FilledPosition(n)'
    <3>1. n \in head .. head + Capacity - 1
      BY <1>4, <1>5
    <3>2. CASE n = pos
      <4>1. ~ BeingFreed(n)
        BY <1>4, <3>2 DEF QueueInv, ConsumerInv, BeingFreed
      <4> QED
        BY <1>1, <1>3, <1>4, <1>5, <1>7, <3>2, <4>1 DEF FilledPosition, BeingFreed
    <3>3. CASE n # pos
      <4>1. sequence'[SlotAt(n)] = sequence[SlotAt(n)]
        BY <1>10, <3>1, <3>3
      <4>2. ASSUME ReservedPosition(n) PROVE ReservedPosition(n)'
        <5>1. PICK q \in Producers : Reserved(q) /\ prod[q].pos = n
          BY <4>2 DEF ReservedPosition
        <5>2. q # p
          BY <3>3, <5>1 DEF pos
        <5> QED
          BY <1>9, <4>1, <4>2, <5>1, <5>2 DEF ReservedPosition
      <4>3. ASSUME FilledPosition(n) PROVE FilledPosition(n)'
        BY <1>3, <4>1, <4>3 DEF FilledPosition, BeingFreed
      <4> QED
        BY <4>2, <4>3 DEF QueueInv, WindowInv
    <3> QED
      BY <3>2, <3>3
  <2> QED
    BY <1>3, <1>8, <2>1, <2>2 DEF QueueInv, WindowInv
<1>13. ProducerInv'
  <2> SUFFICES ASSUME NEW q \in Producers PROVE ProducerSound(q)'
    BY DEF ProducerInv
  <2>1. CASE q = p
    BY <1>2, <1>3, <1>4, <1>6, <2>1 DEF ProducerSound, Reserved
  <2>2. CASE q # p
    <3>1. prod'[q] = prod[q]
      BY <1>6, <2>2
    <3>2. ASSUME Reserved(q)
          PROVE  sequence'[SlotAt(prod[q].pos)] = sequence[SlotAt(prod[q].pos)]
      <4>1. prod[q].pos # pos
        BY <1>1, <2>2, <3>2 DEF QueueInv, ReservedOnce, pos
      <4>2. prod[q].pos \in head .. head + Capacity - 1
        BY <1>4, <1>5, <3>2 DEF QueueInv, ProducerInv, ProducerSound
      <4> QED
        BY <1>10, <4>1, <4>2
    <3> QED
      BY <1>3, <1>8, <3>1, <3>2 DEF QueueInv, ProducerInv, ProducerSound, Reserved
  <2> QED
    BY <2>1, <2>2
<1>14. ReservedOnce'
  BY <1>9 DEF QueueInv, ReservedOnce
<1>15. ConsumerInv'
  <2>1. ASSUME cons.pc \in {"Take", "FreeSlot"} 
        PROVE  sequence'[SlotAt(dequeuePos)] = dequeuePos + 1
    <3>1. /\ head = dequeuePos /\ dequeuePos < enqueuePos
          /\ sequence[SlotAt(dequeuePos)] = dequeuePos + 1
      BY <2>1 DEF QueueInv, ConsumerInv, head
    <3>2. dequeuePos \in head .. head + Capacity - 1 /\ dequeuePos # pos
      BY <1>4, <1>5, <3>1
    <3> QED
      BY <1>10, <3>1, <3>2
  <2> QED
    BY <1>3, <2>1 DEF QueueInv, ConsumerInv
<1>16. DestroyedInv'
  BY <1>1, <1>3 DEF DestroyedInv
<1> QED
  BY <1>11, <1>12, <1>13, <1>14, <1>15, <1>16 DEF QueueInv

-----------------------------------------------------------------------------
(***************************************************************************)
(* So does every step of the consumer.                                     *)
(***************************************************************************)
\* A consumer that only looks.
LEMMA LookKeeps ==
  ASSUME QueueInv, ~ destroyed, cons' \in ConsumerState, cons'.item = NoItem \/ cons'.pc = "Outside",
         cons'.pc # "Outside" => ~ cons'.empty,
         head' = head, cons.pc # "FreeSlot", cons'.pc \in {"Outside", "LoadSequence", "Take"},
         cons'.pc = "Take" => dequeuePos < enqueuePos
                              /\ sequence[SlotAt(dequeuePos)] = dequeuePos + 1,
         UNCHANGED <<enqueuePos, dequeuePos, sequence, storage, prod, destroyed>>
  PROVE  QueueInv'
<1>1. TypeOK'
  BY DEF QueueInv, TypeOK
<1>2. \A n : /\ FreePosition(n)' = FreePosition(n)
             /\ ReservedPosition(n)' = ReservedPosition(n)
             /\ FilledPosition(n)' = FilledPosition(n)
  BY DEF FreePosition, ReservedPosition, FilledPosition, BeingFreed, Reserved
<1>3. WindowInv'
  BY <1>2 DEF QueueInv, WindowInv
<1>4. ProducerInv' /\ ReservedOnce'
  BY DEF QueueInv, ProducerInv, ProducerSound, ReservedOnce, Reserved
<1>5. ConsumerInv' /\ DestroyedInv'
  BY DEF ConsumerInv, DestroyedInv
<1> QED
  BY <1>1, <1>3, <1>4, <1>5 DEF QueueInv

\* A pop that begins has looked at nothing.
LEMMA BeginPopKeeps ==
  ASSUME QueueInv, BeginPop
  PROVE  QueueInv'
<1>1. cons' \in ConsumerState /\ cons'.item = NoItem /\ cons'.pc = "LoadSequence" /\ ~ cons'.empty
  BY DEF BeginPop, ConsumerState
<1>2. head' = head /\ cons.pc # "FreeSlot" /\ ~ destroyed
      /\ UNCHANGED <<enqueuePos, dequeuePos, sequence, storage, prod, destroyed>>
  BY <1>1 DEF BeginPop, head
<1> QED
  BY <1>1, <1>2, LookKeeps

\* A slot whose sequence is one more than head's position is a filled one.
LEMMA TestFilledKeeps ==
  ASSUME QueueInv, TestFilled
  PROVE  QueueInv'
<1>1. cons \in ConsumerState /\ cons.pc = "LoadSequence" /\ cons.item = NoItem /\ ~ destroyed
      /\ ~ cons.empty
  BY DEF QueueInv, TypeOK, ConsumerInv, DestroyedInv, TestFilled
<1>2. /\ cons' \in ConsumerState /\ cons'.item = NoItem /\ cons'.pc \in {"Outside", "Take"}
      /\ cons'.pc = "Take" => ~ cons'.empty /\ sequence[SlotAt(dequeuePos)] = dequeuePos + 1
  BY <1>1 DEF TestFilled, QueueEmpty, ConsumerState
<1>3. head' = head /\ head = dequeuePos
      /\ UNCHANGED <<enqueuePos, dequeuePos, sequence, storage, prod, destroyed>>
  BY <1>1, <1>2 DEF TestFilled, head
<1>4. ASSUME sequence[SlotAt(dequeuePos)] = dequeuePos + 1 PROVE dequeuePos < enqueuePos
  <2>1. dequeuePos \in Nat /\ enqueuePos \in Nat /\ head <= enqueuePos
    BY DEF QueueInv, TypeOK, WindowInv
  <2>2. CASE enqueuePos = dequeuePos
    <3>1. dequeuePos \in enqueuePos .. head + Capacity - 1
      BY <1>3, <2>1, <2>2, CapacityFacts
    <3>2. sequence[SlotAt(dequeuePos)] = dequeuePos
      BY <3>1 DEF QueueInv, WindowInv, FreePosition
    <3> QED
      BY <1>4, <2>1, <3>2
  <2> QED
    BY <1>3, <2>1, <2>2
<1> QED
  BY <1>1, <1>2, <1>3, <1>4, LookKeeps

\* The item leaves its slot, which stays the consumer's until its sequence is stored.
LEMMA TakeItemKeeps ==
  ASSUME QueueInv, TakeItem
  PROVE  QueueInv'
<1> DEFINE d == dequeuePos
<1>1. /\ cons.pc = "Take" /\ ~ destroyed /\ head = d
      /\ sequence[SlotAt(d)] = d + 1
      /\ d \in Nat /\ enqueuePos \in Nat /\ d < enqueuePos /\ enqueuePos <= head + Capacity
  BY DEF QueueInv, TypeOK, WindowInv, ConsumerInv, DestroyedInv, TakeItem, head
<1>2. /\ cons' = [cons EXCEPT !.pc = "FreeSlot", !.item = storage[SlotAt(d)]]
      /\ storage' = [storage EXCEPT ![SlotAt(d)] = NoItem]
      /\ UNCHANGED <<enqueuePos, dequeuePos, sequence, prod, destroyed>>
  BY DEF TakeItem
<1>3. SlotAt(d) \in SlotIndex /\ Capacity \in Nat /\ Capacity >= 2
  BY <1>1, SlotFacts
<1>4. storage[SlotAt(d)] \in Items
  BY <1>1 DEF QueueInv, WindowInv, ReservedPosition, FilledPosition, BeingFreed
<1>5. cons' \in ConsumerState /\ cons'.pc = "FreeSlot" /\ cons'.item \in Items /\ ~ cons'.empty
  BY <1>1, <1>2, <1>4 DEF ConsumerState, QueueInv, TypeOK, ConsumerInv
<1>6. \A i \in SlotIndex : storage'[i] = IF i = SlotAt(d) THEN NoItem ELSE storage[i]
  BY <1>2 DEF QueueInv, TypeOK
<1>7. head' = head
  BY <1>1, <1>2, <1>5 DEF head
<1>8. \A n \in head .. head + Capacity - 1 :
         n # d => SlotAt(n) \in SlotIndex /\ storage'[SlotAt(n)] = storage[SlotAt(n)]
  <2> SUFFICES ASSUME NEW n \in head .. head + Capacity - 1, n # d
               PROVE  SlotAt(n) \in SlotIndex /\ SlotAt(n) # SlotAt(d)
    BY <1>6
  <2>1. n \in Nat /\ SlotAt(n) \in SlotIndex
    BY <1>1, SlotFacts
  <2> QED
    BY <1>1, <1>3, <2>1, SlotFacts
<1>9. TypeOK'
  <2>1. storage' \in [SlotIndex -> Items \cup {NoItem}]
    BY <1>2 DEF QueueInv, TypeOK
  <2> QED
    BY <1>2, <1>5, <2>1 DEF QueueInv, TypeOK
<1>10. WindowInv'
  <2>1. ASSUME NEW n \in enqueuePos .. head + Capacity - 1 PROVE FreePosition(n)'
    <3>1. n # d /\ n \in head .. head + Capacity - 1
      BY <1>1, <1>3
    <3> QED
      BY <1>2, <1>8, <3>1 DEF QueueInv, WindowInv, FreePosition
  <2>2. \A n : ReservedPosition(n) => ReservedPosition(n)'
    BY <1>2 DEF ReservedPosition, Reserved
  <2>3. ASSUME NEW n \in head .. enqueuePos - 1, FilledPosition(n)
        PROVE  FilledPosition(n)'
    <3>1. CASE n = d
      BY <1>1, <1>2, <1>3, <1>5, <1>6, <3>1 DEF FilledPosition, BeingFreed
    <3>2. CASE n # d
      <4>1. n \in head .. head + Capacity - 1
        BY <1>1, <1>3
      <4>2. storage'[SlotAt(n)] = storage[SlotAt(n)]
        BY <1>8, <3>2, <4>1
      <4> QED
        BY <1>2, <2>3, <3>2, <4>2 DEF FilledPosition, BeingFreed
    <3> QED
      BY <3>1, <3>2
  <2> QED
    BY <1>2, <1>7, <2>1, <2>2, <2>3 DEF QueueInv, WindowInv
<1>11. ProducerInv'
  <2> SUFFICES ASSUME NEW q \in Producers PROVE ProducerSound(q)'
    BY DEF ProducerInv
  <2>1. ASSUME Reserved(q)
        PROVE  storage'[SlotAt(prod[q].pos)] = storage[SlotAt(prod[q].pos)]
    <3>1. /\ prod[q].pos \in head .. enqueuePos - 1
          /\ sequence[SlotAt(prod[q].pos)] = prod[q].pos
      BY <2>1 DEF QueueInv, ProducerInv, ProducerSound
    <3>2. prod[q].pos # d /\ prod[q].pos \in head .. head + Capacity - 1
      BY <1>1, <1>3, <3>1
    <3> QED
      BY <1>8, <3>2
  <2> QED
    BY <1>2, <1>7, <2>1 DEF QueueInv, ProducerInv, ProducerSound, Reserved
<1>12. ReservedOnce'
  BY <1>2 DEF QueueInv, ReservedOnce, Reserved
<1>13. ConsumerInv'
  BY <1>1, <1>2, <1>5 DEF ConsumerInv
<1>14. DestroyedInv'
  BY <1>1, <1>2 DEF DestroyedInv
<1> QED
  BY <1>9, <1>10, <1>11, <1>12, <1>13, <1>14 DEF QueueInv

\* The window moves on: its first position leaves it, and the position a lap
\* later, which has the same slot, enters it free.
LEMMA FreeSlotKeeps ==
  ASSUME QueueInv, FreeSlot
  PROVE  QueueInv'
<1> DEFINE d == dequeuePos
<1>1. /\ cons \in ConsumerState /\ cons.pc = "FreeSlot" /\ cons.item \in Items
      /\ ~ destroyed /\ head = d
      /\ sequence[SlotAt(d)] = d + 1
      /\ d \in Nat /\ enqueuePos \in Nat /\ d < enqueuePos /\ enqueuePos <= head + Capacity
  BY DEF QueueInv, TypeOK, WindowInv, ConsumerInv, DestroyedInv, FreeSlot, head
<1>2. /\ sequence' = [sequence EXCEPT ![SlotAt(d)] = d + Capacity]
      /\ cons' = [cons EXCEPT !.pc = "AdvancePos"]
      /\ UNCHANGED <<enqueuePos, dequeuePos, storage, prod, destroyed>>
  BY DEF FreeSlot
<1>3. /\ SlotAt(d) \in SlotIndex /\ Capacity \in Nat /\ Capacity >= 2
      /\ SlotAt(d + Capacity) = SlotAt(d)
  BY <1>1, SlotFacts
<1>4. storage[SlotAt(d)] = NoItem
  BY <1>1 DEF QueueInv, WindowInv, ReservedPosition, FilledPosition, BeingFreed
<1>5. cons' \in ConsumerState /\ cons'.pc = "AdvancePos" /\ cons'.item = cons.item /\ ~ cons'.empty
  BY <1>1, <1>2 DEF ConsumerState, QueueInv, ConsumerInv
<1>6. \A i \in SlotIndex : sequence'[i] = IF i = SlotAt(d) THEN d + Capacity ELSE sequence[i]
  BY <1>2 DEF QueueInv, TypeOK
<1>7. head' = d + 1
  BY <1>1, <1>2, <1>5 DEF head
<1>8. \A n \in d .. d + Capacity - 1 :
         n # d => SlotAt(n) \in SlotIndex /\ sequence'[SlotAt(n)] = sequence[SlotAt(n)]
  <2> SUFFICES ASSUME NEW n \in d .. d + Capacity - 1, n # d
               PROVE  SlotAt(n) \in SlotIndex /\ SlotAt(n) # SlotAt(d)
    BY <1>6
  <2>1. n \in Nat /\ SlotAt(n) \in SlotIndex
    BY <1>1, SlotFacts
  <2> QED
    BY <1>1, <1>3, <2>1, SlotFacts
<1>9. TypeOK'
  <2>1. d + Capacity \in Nat
    BY <1>1, <1>3
  <2>2. sequence' \in [SlotIndex -> Nat]
    BY <1>2, <2>1 DEF QueueInv, TypeOK
  <2> QED
    BY <1>2, <1>5, <2>2 DEF QueueInv, TypeOK
<1>10. WindowInv'
  <2>1. ASSUME NEW n \in enqueuePos .. d + 1 + Capacity - 1 PROVE FreePosition(n)'
    <3>1. CASE n = d + Capacity
      BY <1>2, <1>3, <1>4, <1>6, <3>1 DEF FreePosition
    <3>2. CASE n # d + Capacity
      <4>1. n # d /\ n \in d .. d + Capacity - 1 /\ n \in enqueuePos .. head + Capacity - 1
        BY <1>1, <1>3, <3>2
      <4> QED
        BY <1>2, <1>8, <4>1 DEF QueueInv, WindowInv, FreePosition
    <3> QED
      BY <3>1, <3>2
  <2>2. ASSUME NEW n \in d + 1 .. enqueuePos - 1
        PROVE  ReservedPosition(n)' \/ FilledPosition(n)'
    <3>1. n # d /\ n \in d .. d + Capacity - 1 /\ n \in head .. enqueuePos - 1
      BY <1>1, <1>3
    <3>2. sequence'[SlotAt(n)] = sequence[SlotAt(n)]
      BY <1>8, <3>1
    <3>3. ReservedPosition(n) => ReservedPosition(n)'
      BY <1>2, <3>2 DEF ReservedPosition, Reserved
    <3>4. FilledPosition(n) => FilledPosition(n)'
      BY <1>2, <3>1, <3>2 DEF FilledPosition, BeingFreed
    <3> QED
      BY <3>1, <3>3, <3>4 DEF QueueInv, WindowInv
  <2>3. d + 1 <= enqueuePos /\ enqueuePos <= d + 1 + Capacity
    BY <1>1, <1>3
  <2> QED
    BY <1>2, <1>7, <2>1, <2>2, <2>3 DEF WindowInv
<1>11. ProducerInv'
  <2> SUFFICES ASSUME NEW q \in Producers PROVE ProducerSound(q)'
    BY DEF ProducerInv
  <2>1. ASSUME Reserved(q)
        PROVE  /\ prod[q].pos \in d + 1 .. enqueuePos - 1
               /\ sequence'[SlotAt(prod[q].pos)] = sequence[SlotAt(prod[q].pos)]
    <3>1. /\ prod[q].pos \in head .. enqueuePos - 1
          /\ sequence[SlotAt(prod[q].pos)] = prod[q].pos
      BY <2>1 DEF QueueInv, ProducerInv, ProducerSound
    <3>2. prod[q].pos # d /\ prod[q].pos \in d .. d + Capacity - 1
      BY <1>1, <1>3, <3>1
    <3> QED
      BY <1>1, <1>8, <3>1, <3>2
  <2>2. prod[q].pc = "Cas" => prod[q].pos < d + 1 + Capacity
    <3>1. prod[q].pos \in Nat
      BY DEF QueueInv, TypeOK, ProducerState
    <3>2. prod[q].pc = "Cas" => prod[q].pos < d + Capacity
      BY <1>1 DEF QueueInv, ProducerInv, ProducerSound
    <3> QED
      BY <1>1, <1>3, <3>1, <3>2
  <2> QED
    BY <1>2, <1>7, <2>1, <2>2 DEF QueueInv, ProducerInv, ProducerSound, Reserved
<1>12. ReservedOnce'
  BY <1>2 DEF QueueInv, ReservedOnce, Reserved
<1>13. ConsumerInv'
  BY <1>1, <1>2, <1>5 DEF ConsumerInv
<1>14. DestroyedInv'
  BY <1>1, <1>2 DEF DestroyedInv
<1> QED
  BY <1>9, <1>10, <1>11, <1>12, <1>13, <1>14 DEF QueueInv

\* dequeuePos_ follows the window, which has moved before.
LEMMA AdvanceDequeuePosKeeps ==
  ASSUME QueueInv, AdvanceDequeuePos
  PROVE  QueueInv'
<1>1. cons \in ConsumerState /\ cons.pc = "AdvancePos" /\ dequeuePos \in Nat /\ ~ destroyed
  BY DEF QueueInv, TypeOK, DestroyedInv, AdvanceDequeuePos
<1>2. cons' \in ConsumerState /\ cons'.pc = "Outside"
  BY <1>1 DEF AdvanceDequeuePos, ConsumerState
<1>3. /\ dequeuePos' = dequeuePos + 1
      /\ UNCHANGED <<enqueuePos, sequence, storage, prod, destroyed>>
  BY DEF AdvanceDequeuePos
<1>4. head' = head
  BY <1>1, <1>2, <1>3 DEF head
<1>5. TypeOK'
  BY <1>1, <1>2, <1>3 DEF QueueInv, TypeOK
<1>6. \A n : /\ FreePosition(n)' = FreePosition(n)
             /\ ReservedPosition(n)' = ReservedPosition(n)
             /\ FilledPosition(n)' = FilledPosition(n)
  BY <1>1, <1>2, <1>3 DEF FreePosition, ReservedPosition, FilledPosition, BeingFreed, Reserved
<1>7. WindowInv'
  BY <1>3, <1>4, <1>6 DEF QueueInv, WindowInv
<1>8. ProducerInv' /\ ReservedOnce'
  BY <1>3, <1>4 DEF QueueInv, ProducerInv, ProducerSound, ReservedOnce, Reserved
<1>9. ConsumerInv' /\ DestroyedInv'
  BY <1>1, <1>2, <1>3 DEF ConsumerInv, DestroyedInv
<1> QED
  BY <1>5, <1>7, <1>8, <1>9 DEF QueueInv

-----------------------------------------------------------------------------
(***************************************************************************)
(* The destructor.                                                         *)
(***************************************************************************)
\* With nobody inside, every position from dequeuePos_ to enqueuePos_ is filled.
LEMMA AllFilled ==
  ASSUME QueueInv, DestroyRemainingItems
  PROVE  /\ head = dequeuePos /\ dequeuePos \in Nat /\ enqueuePos \in Nat
         /\ dequeuePos <= enqueuePos /\ enqueuePos <= dequeuePos + Capacity
         /\ cons.pc = "Outside" /\ \A p \in Producers : prod[p].pc = "Outside"
         /\ \A n \in RemainingPositions : sequence[SlotAt(n)] = n + 1
<1>1. cons.pc = "Outside" /\ \A p \in Producers : prod[p].pc = "Outside"
  BY DEF DestroyRemainingItems
<1>2. head = dequeuePos
  BY <1>1 DEF head
<1>3. dequeuePos \in Nat /\ enqueuePos \in Nat
      /\ dequeuePos <= enqueuePos /\ enqueuePos <= dequeuePos + Capacity
  BY <1>2 DEF QueueInv, TypeOK, WindowInv
<1>4. \A n : ~ ReservedPosition(n)
  BY <1>1 DEF ReservedPosition, Reserved
<1>5. \A n \in RemainingPositions : sequence[SlotAt(n)] = n + 1
  BY <1>2, <1>4 DEF QueueInv, WindowInv, FilledPosition, RemainingPositions
<1> QED
  BY <1>1, <1>2, <1>3, <1>5

\* What the destructor leaves in a slot.
LEMMA DestroyEffect ==
  ASSUME QueueInv, DestroyRemainingItems
  PROVE  /\ storage' \in [SlotIndex -> Items \cup {NoItem}]
         /\ sequence' \in [SlotIndex -> Nat]
         /\ \A n \in RemainingPositions :
               storage'[SlotAt(n)] = NoItem /\ sequence'[SlotAt(n)] = n + Capacity
         /\ \A i \in SlotIndex : (\A n \in RemainingPositions : SlotAt(n) # i) =>
               storage'[i] = storage[i] /\ sequence'[i] = sequence[i]
<1> DEFINE F == {n \in RemainingPositions : sequence[SlotAt(n)] = n + 1}
           filled == {SlotAt(pos) : pos \in F}
           freed(i) == CHOOSE n \in RemainingPositions : SlotAt(n) = i
<1>1. F = RemainingPositions
  BY AllFilled
<1>2. /\ storage' = [i \in SlotIndex |-> IF i \in filled THEN NoItem ELSE storage[i]]
      /\ sequence' = [i \in SlotIndex |-> IF i \in filled THEN freed(i) + Capacity
                                                          ELSE sequence[i]]
  BY DEF DestroyRemainingItems
<1>3. \A n \in RemainingPositions : n \in Nat /\ SlotAt(n) \in SlotIndex
  BY AllFilled, SlotFacts DEF RemainingPositions
<1> HIDE DEF F
<1>4. \A i : i \in filled <=> \E n \in RemainingPositions : SlotAt(n) = i
  BY <1>1
<1>5. ASSUME NEW n \in RemainingPositions PROVE freed(SlotAt(n)) = n
  <2>1. \A m \in RemainingPositions : SlotAt(m) = SlotAt(n) => m = n
    <3> SUFFICES ASSUME NEW m \in RemainingPositions, SlotAt(m) = SlotAt(n) PROVE m = n
      OBVIOUS
    <3>1. m \in Nat /\ n \in Nat /\ m < n + Capacity /\ n < m + Capacity
      BY AllFilled, CapacityFacts DEF RemainingPositions
    <3> QED
      BY <3>1, SlotFacts
  <2> QED
    BY <2>1
<1> HIDE DEF filled, freed
<1>6. storage' \in [SlotIndex -> Items \cup {NoItem}]
  BY <1>2 DEF QueueInv, TypeOK
<1>7. sequence' \in [SlotIndex -> Nat]
  <2>1. ASSUME NEW i \in SlotIndex, i \in filled PROVE freed(i) + Capacity \in Nat
    <3>1. PICK n \in RemainingPositions : SlotAt(n) = i
      BY <1>4, <2>1
    <3>2. freed(i) = n /\ n \in Nat
      BY <1>3, <1>5, <3>1
    <3> QED
      BY <3>2, CapacityFacts
  <2> QED
    BY <1>2, <2>1 DEF QueueInv, TypeOK
<1>8. ASSUME NEW n \in RemainingPositions
      PROVE  storage'[SlotAt(n)] = NoItem /\ sequence'[SlotAt(n)] = n + Capacity
  BY <1>2, <1>3, <1>4, <1>5
<1>9. ASSUME NEW i \in SlotIndex, \A n \in RemainingPositions : SlotAt(n) # i
      PROVE  storage'[i] = storage[i] /\ sequence'[i] = sequence[i]
  <2>1. i \notin filled
    BY <1>4, <1>9
  <2> QED
    BY <1>2, <2>1
<1> QED
  BY <1>6, <1>7, <1>8, <1>9

\* The destructor moves the window to enqueuePos_ and leaves it free.
LEMMA DestroyKeeps ==
  ASSUME QueueInv, DestroyRemainingItems
  PROVE  QueueInv'
<1> DEFINE d == dequeuePos
           e == enqueuePos
<1>1. /\ head = d /\ d \in Nat /\ e \in Nat /\ d <= e /\ e <= d + Capacity
      /\ cons.pc = "Outside" /\ \A p \in Producers : prod[p].pc = "Outside"
      /\ Capacity \in Nat /\ Capacity >= 2
  BY AllFilled, CapacityFacts
<1>2. dequeuePos' = e /\ enqueuePos' = e /\ destroyed' = TRUE /\ prod' = prod /\ cons' = cons
  BY DEF DestroyRemainingItems
<1>3. head' = e
  BY <1>1, <1>2 DEF head
<1>4. TypeOK'
  BY <1>1, <1>2, DestroyEffect DEF QueueInv, TypeOK
<1>5. ASSUME NEW n \in e .. e + Capacity - 1 PROVE FreePosition(n)'
  <2>1. CASE n < d + Capacity
    <3>1. ASSUME NEW m \in RemainingPositions PROVE SlotAt(m) # SlotAt(n)
      <4>1. m \in Nat /\ n \in Nat /\ m < n /\ ~ (m + Capacity <= n)
        BY <1>1, <2>1 DEF RemainingPositions
      <4> QED
        BY <4>1, SlotFacts
    <3>2. n \in Nat /\ n \in e .. head + Capacity - 1
      BY <1>1, <2>1
    <3>3. SlotAt(n) \in SlotIndex
      BY <3>2, SlotFacts
    <3> QED
      BY <3>1, <3>2, <3>3, DestroyEffect DEF QueueInv, WindowInv, FreePosition
  <2>2. CASE n >= d + Capacity
    <3> DEFINE m == n - Capacity
    <3>1. m \in Nat /\ m \in RemainingPositions /\ m + Capacity = n
      BY <1>1, <2>2 DEF RemainingPositions
    <3>2. SlotAt(n) = SlotAt(m)
      BY <3>1, SlotFacts
    <3> HIDE DEF m
    <3> QED
      BY <3>1, <3>2, DestroyEffect DEF FreePosition
  <2> QED
    BY <1>1, <2>1, <2>2
<1>6. WindowInv'
  <2>1. e .. e - 1 = {} /\ e <= e /\ e <= e + Capacity
    BY <1>1
  <2> QED
    BY <1>2, <1>3, <1>5, <2>1 DEF WindowInv
<1>7. ProducerInv' /\ ReservedOnce'
  <2>1. \A p \in Producers : prod[p].pos <= e
    BY DEF QueueInv, ProducerInv, ProducerSound
  <2> QED
    BY <1>1, <1>2, <2>1 DEF ProducerInv, ProducerSound, ReservedOnce, Reserved
<1>8. ConsumerInv' /\ DestroyedInv'
  BY <1>1, <1>2 DEF ConsumerInv, DestroyedInv
<1> QED
  BY <1>4, <1>6, <1>7, <1>8 DEF QueueInv

-----------------------------------------------------------------------------
(***************************************************************************)
(* The theorems about the ring itself.                                     *)
(***************************************************************************)
\* The invariant is inductive.
LEMMA StepKeeps == QueueInv /\ [Next]_vars => QueueInv'
<1> SUFFICES ASSUME QueueInv, [Next]_vars PROVE QueueInv'
  OBVIOUS
<1>1. CASE SomeBeginPush
  BY <1>1, BeginPushKeeps DEF SomeBeginPush
<1>2. ASSUME NEW p \in Producers,
             LoadEnqueuePos(p) \/ TestSlot(p) \/ ReserveSlot(p) \/ ConstructItem(p)
             \/ PublishSlot(p)
      PROVE  QueueInv'
  BY <1>2, LoadEnqueuePosKeeps, TestSlotKeeps, ReserveSlotKeeps, ConstructItemKeeps,
     PublishSlotKeeps
<1>3. CASE BeginPop \/ TestFilled \/ TakeItem \/ FreeSlot \/ AdvanceDequeuePos
  BY <1>3, BeginPopKeeps, TestFilledKeeps, TakeItemKeeps, FreeSlotKeeps,
     AdvanceDequeuePosKeeps
<1>4. CASE DestroyRemainingItems
  BY <1>4, DestroyKeeps
<1>5. CASE UNCHANGED vars
  BY <1>5
     DEF vars, QueueInv, TypeOK, WindowInv, FreePosition, ReservedPosition, FilledPosition,
         BeingFreed, ProducerInv, ProducerSound, ReservedOnce, Reserved, ConsumerInv,
         DestroyedInv, head
<1> QED
  BY <1>1, <1>2, <1>3, <1>4, <1>5 DEF Next, Continue, AfterDestruction

\* The window is kept by every step of every producer, of the consumer and of
\* the destructor.
THEOREM RingIsAWindow == Spec => []QueueInv
  BY InitInv, StepKeeps, PTL DEF Spec

\* Every position's slot is part of what QueueIsSound says of the items: raw
\* storage where one is constructed, an item where one is taken, and none left
\* alive by the destructor.
THEOREM QueueStaysSound == Spec => []QueueIsSound
<1>1. QueueInv => QueueIsSound
  <2> SUFFICES ASSUME QueueInv PROVE QueueIsSound
    OBVIOUS
  <2>1. TypeOK
    BY DEF QueueInv
  <2>2. ASSUME cons.pc = "Take" PROVE storage[SlotAt(dequeuePos)] \in Items
    <3>1. /\ head = dequeuePos /\ dequeuePos < enqueuePos
          /\ sequence[SlotAt(dequeuePos)] = dequeuePos + 1
          /\ dequeuePos \in Nat /\ enqueuePos \in Nat
      BY <2>2 DEF QueueInv, TypeOK, ConsumerInv, head
    <3> QED
      BY <2>2, <3>1 DEF QueueInv, WindowInv, ReservedPosition, FilledPosition, BeingFreed
  <2>3. ASSUME destroyed, NEW i \in SlotIndex PROVE storage[i] = NoItem
    <3>1. head = enqueuePos /\ enqueuePos \in Nat
      BY <2>3 DEF QueueInv, TypeOK, DestroyedInv, head
    <3>2. PICK n \in enqueuePos .. enqueuePos + Capacity - 1 : SlotAt(n) = i
      BY <3>1, SlotFacts
    <3> QED
      BY <3>1, <3>2 DEF QueueInv, WindowInv, FreePosition
  <2>4. ItemLifetimes
    BY <2>2, <2>3 DEF QueueInv, ProducerInv, ProducerSound, ItemLifetimes
  <2>5. BacklogBound
    BY CapacityFacts DEF QueueInv, TypeOK, WindowInv, BacklogBound, head
  <2> QED
    BY <2>1, <2>4, <2>5 DEF QueueIsSound
<1> QED
  BY <1>1, RingIsAWindow, PTL

-----------------------------------------------------------------------------
(***************************************************************************)
(* The refinement: what the ring's content is as a sequence, and how it    *)
(* changes.                                                                *)
(***************************************************************************)
\* The item of a filled position, in its slot or in the consumer's hand.
ItemAt(n) == IF BeingFreed(n) THEN cons.item ELSE storage[SlotAt(n)]

Content == Items \cup Producers

\* SlotContent names the one producer of a reserved position, and the item of a
\* filled one.
ContentIs ==
    \A n \in head .. enqueuePos - 1 :
        /\ \A p \in Producers : Reserved(p) /\ prod[p].pos = n => SlotContent(n) = p
        /\ FilledPosition(n) => SlotContent(n) = ItemAt(n) /\ ItemAt(n) \in Items
        /\ SlotContent(n) \in Content

SlotsAre ==
    /\ AbstractSlots \in Seq(Content)
    /\ Len(AbstractSlots) = enqueuePos - head
    /\ \A i \in 1 .. enqueuePos - head, n \in Nat :
          n = head + i - 1 => AbstractSlots[i] = SlotContent(n)

\* Exactly one producer stands for a reserved position, and a filled one has an item.
LEMMA ContentKnown == QueueInv => ContentIs
<1> SUFFICES ASSUME QueueInv, NEW n \in head .. enqueuePos - 1
             PROVE  /\ \A p \in Producers : Reserved(p) /\ prod[p].pos = n => SlotContent(n) = p
                    /\ FilledPosition(n) => SlotContent(n) = ItemAt(n) /\ ItemAt(n) \in Items
                    /\ SlotContent(n) \in Content
  BY DEF ContentIs
<1>1. n \in Nat /\ head \in Nat /\ enqueuePos \in Nat
  BY DEF QueueInv, TypeOK, head
<1>2. ASSUME NEW p \in Producers, Reserved(p), prod[p].pos = n
      PROVE  SlotContent(n) = p
  <2>1. sequence[SlotAt(n)] # n + 1
    BY <1>1, <1>2 DEF QueueInv, ProducerInv, ProducerSound
  <2>2. \A q \in Producers : prod[q].pc \in {"Construct", "StoreSequence"} /\ prod[q].pos = n <=> q = p
    BY <1>2 DEF QueueInv, ReservedOnce, Reserved
  <2>3. SlotContent(n) = CHOOSE q \in Producers : /\ prod[q].pc \in {"Construct", "StoreSequence"}
                                                  /\ prod[q].pos = n
    BY <2>1 DEF SlotContent
  <2> QED
    BY <2>2, <2>3
<1>3. ASSUME FilledPosition(n) PROVE SlotContent(n) = ItemAt(n) /\ ItemAt(n) \in Items
  <2>1. SlotContent(n) = IF storage[SlotAt(n)] = NoItem THEN cons.item ELSE storage[SlotAt(n)]
    BY <1>3 DEF SlotContent, FilledPosition
  <2>2. CASE BeingFreed(n)
    BY <1>3, <2>1, <2>2 DEF QueueInv, ConsumerInv, ItemAt, FilledPosition, BeingFreed
  <2>3. CASE ~ BeingFreed(n)
    BY <1>3, <2>1, <2>3, QueueAssumption DEF ItemAt, FilledPosition
  <2> QED
    BY <2>2, <2>3
<1>4. SlotContent(n) \in Content
  BY <1>2, <1>3 DEF QueueInv, WindowInv, ReservedPosition, Content
<1> QED
  BY <1>2, <1>3, <1>4

\* A function on 1 .. n is a sequence of that length.
LEMMA FunctionIsSeq ==
  ASSUME NEW S, NEW n \in Nat, NEW f \in [1 .. n -> S]
  PROVE  f \in Seq(S) /\ Len(f) = n
  OBVIOUS

\* The content is a sequence, one element for each position from head on.
LEMMA SlotsKnown == QueueInv => SlotsAre
<1> SUFFICES ASSUME QueueInv PROVE SlotsAre
  OBVIOUS
<1> DEFINE k == enqueuePos - head
<1>1. k \in Nat /\ head \in Nat /\ enqueuePos \in Nat
  BY DEF QueueInv, TypeOK, WindowInv, head
<1>2. \A i \in 1 .. k : head + i - 1 \in head .. enqueuePos - 1
  BY <1>1
<1>3. \A i \in 1 .. k : SlotContent(head + i - 1) \in Content
  BY <1>2, ContentKnown DEF ContentIs
<1>4. AbstractSlots = [i \in 1 .. k |-> SlotContent(head + i - 1)]
  BY DEF AbstractSlots
<1> HIDE DEF k
<1>5. AbstractSlots \in [1 .. k -> Content]
  BY <1>3, <1>4
<1>6. AbstractSlots \in Seq(Content) /\ Len(AbstractSlots) = k
  BY <1>1, <1>5, FunctionIsSeq
<1> QED
  BY <1>4, <1>6 DEF SlotsAre, k

\* Both facts in the next state.
LEMMA KnownNext == QueueInv' => ContentIs' /\ SlotsAre'
<1>1. QueueInv => ContentIs /\ SlotsAre
  BY ContentKnown, SlotsKnown
<1> QED
  BY <1>1, PTL

\* Sequences of equal length with equal elements are equal.
LEMMA SameSeq ==
  ASSUME NEW S, NEW s \in Seq(S), NEW t \in Seq(S), Len(s) = Len(t),
         \A i \in 1 .. Len(s) : s[i] = t[i]
  PROVE  s = t
  OBVIOUS

\* A sequence that extends another by one element.
LEMMA AppendIs ==
  ASSUME NEW S, NEW s \in Seq(S), NEW t \in Seq(S), NEW x \in S, Len(t) = Len(s) + 1,
         \A i \in 1 .. Len(s) : t[i] = s[i], t[Len(s) + 1] = x
  PROVE  t = Append(s, x)
<1>1. Append(s, x) \in Seq(S) /\ Len(Append(s, x)) = Len(s) + 1 /\ Len(s) \in Nat
  OBVIOUS
<1>2. \A i \in 1 .. Len(s) + 1 : Append(s, x)[i] = t[i]
  OBVIOUS
<1> QED
  BY <1>1, <1>2, SameSeq

\* A sequence that is another without its first element.
LEMMA TailIs ==
  ASSUME NEW S, NEW s \in Seq(S), NEW t \in Seq(S), Len(s) = Len(t) + 1,
         \A i \in 1 .. Len(t) : t[i] = s[i + 1]
  PROVE  s # << >> /\ t = Tail(s) /\ Head(s) = s[1]
<1>1. s # << >> /\ Len(t) \in Nat
  OBVIOUS
<1>2. Tail(s) \in Seq(S) /\ Len(Tail(s)) = Len(t)
  BY <1>1
<1>3. \A i \in 1 .. Len(t) : Tail(s)[i] = t[i]
  BY <1>1, <1>2
<1> QED
  BY <1>1, <1>2, <1>3, SameSeq

\* A step that leaves every position what it was leaves the content.
LEMMA ContentSame ==
  ASSUME QueueInv, QueueInv', enqueuePos' = enqueuePos, head' = head, sequence' = sequence,
         \A p \in Producers : Reserved(p) => Reserved(p)' /\ prod'[p].pos = prod[p].pos,
         \A n \in head .. enqueuePos - 1 :
             FilledPosition(n) => FilledPosition(n)' /\ ItemAt(n)' = ItemAt(n)
  PROVE  AbstractSlots' = AbstractSlots
<1>1. ContentIs /\ SlotsAre /\ ContentIs' /\ SlotsAre'
  BY ContentKnown, SlotsKnown, KnownNext
<1>2. head \in Nat /\ enqueuePos \in Nat /\ head <= enqueuePos
  BY DEF QueueInv, TypeOK, WindowInv, head
<1>3. ASSUME NEW n \in head .. enqueuePos - 1 PROVE SlotContent(n)' = SlotContent(n)
  <2>1. CASE ReservedPosition(n)
    <3>1. PICK p \in Producers : Reserved(p) /\ prod[p].pos = n
      BY <2>1 DEF ReservedPosition
    <3>2. SlotContent(n) = p
      BY <1>1, <3>1 DEF ContentIs
    <3>3. SlotContent(n)' = p
      BY <1>1, <3>1 DEF ContentIs
    <3> QED
      BY <3>2, <3>3
  <2>2. CASE FilledPosition(n)
    <3>1. SlotContent(n) = ItemAt(n)
      BY <1>1, <2>2 DEF ContentIs
    <3>2. SlotContent(n)' = ItemAt(n)'
      BY <1>1, <2>2 DEF ContentIs
    <3> QED
      BY <2>2, <3>1, <3>2
  <2> QED
    BY <2>1, <2>2 DEF QueueInv, WindowInv
<1>4. \A i \in 1 .. enqueuePos - head : AbstractSlots'[i] = AbstractSlots[i]
  <2> SUFFICES ASSUME NEW i \in 1 .. enqueuePos - head PROVE AbstractSlots'[i] = AbstractSlots[i]
    OBVIOUS
  <2> DEFINE n == head + i - 1
  <2>1. n \in head .. enqueuePos - 1 /\ n \in Nat
    BY <1>2
  <2> SUFFICES ASSUME NEW m \in head .. enqueuePos - 1, m \in Nat, m = n
               PROVE  AbstractSlots'[i] = AbstractSlots[i]
    BY <2>1
  <2>2. AbstractSlots[i] = SlotContent(m)
    BY <1>1 DEF SlotsAre
  <2>3. AbstractSlots'[i] = SlotContent(m)'
    BY <1>1 DEF SlotsAre
  <2> QED
    BY <1>3, <2>2, <2>3
<1> QED
  BY <1>1, <1>4, SameSeq DEF SlotsAre

-----------------------------------------------------------------------------
(***************************************************************************)
(* The calls under way, as MpscFifo sees them.                             *)
(***************************************************************************)
PushOf(s) ==
    [pc   |-> CASE s.pc = "Outside" -> "Outside"
                [] s.pc \in {"LoadPos", "LoadSequence", "Cas"} -> "Pushing"
                [] OTHER -> "Reserved",
     item |-> s.item,
     full |-> s.full]

\* A producer's call, by the part of TryPush it is in.
LEMMA PushOfIs ==
  ASSUME NEW s \in ProducerState
  PROVE  /\ s.pc = "Outside" => PushOf(s) = [pc |-> "Outside", item |-> s.item, full |-> s.full]
         /\ s.pc \in {"LoadPos", "LoadSequence", "Cas"}
               => PushOf(s) = [pc |-> "Pushing", item |-> s.item, full |-> s.full]
         /\ s.pc \in {"Construct", "StoreSequence"}
               => PushOf(s) = [pc |-> "Reserved", item |-> s.item, full |-> s.full]
<1>1. s.pc \in {"Outside", "LoadPos", "LoadSequence", "Cas", "Construct", "StoreSequence"}
  BY DEF ProducerState
<1>2. CASE s.pc = "Outside"
  BY <1>2 DEF PushOf
<1>3. CASE s.pc \in {"LoadPos", "LoadSequence", "Cas"}
  BY <1>3 DEF PushOf
<1>4. CASE s.pc \in {"Construct", "StoreSequence"}
  BY <1>4 DEF PushOf
<1> QED
  BY <1>1, <1>2, <1>3, <1>4

\* The calls under way, now and in the next state.
LEMMA PushesAre ==
  /\ AbstractPush = [p \in Producers |-> PushOf(prod[p])]
  /\ AbstractPush' = [p \in Producers |-> PushOf(prod'[p])]
  BY DEF AbstractPush, PushOf

\* One producer's step changes its own call only.
LEMMA PushChanges ==
  ASSUME QueueInv, NEW p \in Producers, NEW s, SetProducer(p, s)
  PROVE  /\ AbstractPush' = [AbstractPush EXCEPT ![p] = PushOf(s)]
         /\ AbstractPush[p] = PushOf(prod[p])
         /\ PushOf(s) = PushOf(prod[p]) => AbstractPush' = AbstractPush
<1>1. prod' = [prod EXCEPT ![p] = s] /\ \A q \in Producers : prod'[q] = IF q = p THEN s ELSE prod[q]
  BY DEF QueueInv, TypeOK, SetProducer
<1>2. /\ AbstractPush = [q \in Producers |-> PushOf(prod[q])]
      /\ AbstractPush' = [q \in Producers |-> PushOf(prod'[q])]
  BY PushesAre
<1>3. AbstractPush' = [AbstractPush EXCEPT ![p] = PushOf(s)]
  BY <1>1, <1>2
<1>4. AbstractPush[p] = PushOf(prod[p])
  BY <1>2
<1>5. PushOf(s) = PushOf(prod[p]) => AbstractPush' = AbstractPush
  BY <1>2, <1>3, <1>4
<1> QED
  BY <1>3, <1>4, <1>5

\* Calls that nobody moves stay what they are.
LEMMA PushUnchanged ==
  ASSUME prod' = prod
  PROVE  AbstractPush' = AbstractPush
  BY PushesAre

\* The outcome is a matter of the consumer alone.
LEMMA PoppedUnchanged ==
  ASSUME cons' = cons
  PROVE  AbstractPopped' = AbstractPopped
  BY DEF AbstractPopped

\* A producer's own step leaves the content and the consumer's outcome alone.
LEMMA LocalStepContent ==
  ASSUME QueueInv, QueueInv', NEW p \in Producers, NEW s, SetProducer(p, s), ~ Reserved(p),
         UNCHANGED <<enqueuePos, dequeuePos, sequence, storage, cons, destroyed>>
  PROVE  AbstractSlots' = AbstractSlots /\ AbstractPopped' = AbstractPopped
<1>1. head' = head
  BY DEF head
<1>2. \A q \in Producers : Reserved(q) => Reserved(q)' /\ prod'[q].pos = prod[q].pos
  BY DEF QueueInv, TypeOK, SetProducer, Reserved
<1>3. \A n : FilledPosition(n)' = FilledPosition(n) /\ ItemAt(n)' = ItemAt(n)
  BY DEF FilledPosition, ItemAt, BeingFreed
<1> QED
  BY <1>1, <1>2, <1>3, ContentSame, PoppedUnchanged

-----------------------------------------------------------------------------
(***************************************************************************)
(* Every step of the ring is a step of the FIFO, or none.                  *)
(***************************************************************************)
\* Calling TryPush is calling the FIFO's.
LEMMA BeginPushMaps ==
  ASSUME QueueInv, QueueInv', NEW p \in Producers, NEW v \in Items, BeginPush(p, v)
  PROVE  Fifo!BeginPush(p, v)
<1> DEFINE s == [pc |-> "LoadPos", item |-> v, pos |-> 0, full |-> FALSE]
<1>1. /\ SetProducer(p, s) /\ ~ Reserved(p) /\ prod[p].pc = "Outside"
      /\ UNCHANGED <<enqueuePos, dequeuePos, sequence, storage, cons, destroyed>>
  BY DEF BeginPush, Reserved
<1>2. s \in ProducerState /\ s.pc = "LoadPos" /\ s.item = v /\ s.full = FALSE
  BY DEF ProducerState
<1>3. prod[p] \in ProducerState
  BY DEF QueueInv, TypeOK
<1> HIDE DEF s
<1>4. PushOf(s) = [pc |-> "Pushing", item |-> v, full |-> FALSE]
  BY <1>2, PushOfIs
<1>5. AbstractPush[p].pc = "Outside"
  BY <1>1, <1>3, PushOfIs, PushChanges
<1>6. AbstractPush' = [AbstractPush EXCEPT ![p] = [pc |-> "Pushing", item |-> v, full |-> FALSE]]
  BY <1>1, <1>4, PushChanges
<1>7. AbstractSlots' = AbstractSlots /\ AbstractPopped' = AbstractPopped
  BY <1>1, LocalStepContent
<1> QED
  BY <1>5, <1>6, <1>7 DEF Fifo!BeginPush

\* The producer's steps inside its search for a slot are none of the FIFO's.
LEMMA SearchMaps ==
  ASSUME QueueInv, QueueInv', NEW p \in Producers, NEW s \in ProducerState,
         SetProducer(p, s), ~ Reserved(p),
         prod[p].pc \in {"LoadPos", "LoadSequence", "Cas"},
         s.pc \in {"LoadPos", "LoadSequence", "Cas"},
         s.item = prod[p].item, s.full = prod[p].full,
         UNCHANGED <<enqueuePos, dequeuePos, sequence, storage, cons, destroyed>>
  PROVE  UNCHANGED Fifo!fifoVars
<1>1. prod[p] \in ProducerState
  BY DEF QueueInv, TypeOK
<1>2. PushOf(s) = PushOf(prod[p])
  BY <1>1, PushOfIs
<1>3. AbstractPush' = AbstractPush
  BY <1>2, PushChanges
<1>4. AbstractSlots' = AbstractSlots /\ AbstractPopped' = AbstractPopped
  BY LocalStepContent
<1> QED
  BY <1>3, <1>4 DEF Fifo!fifoVars

\* Reading a position is no step of the FIFO.
LEMMA LoadEnqueuePosMaps ==
  ASSUME QueueInv, QueueInv', NEW p \in Producers, LoadEnqueuePos(p)
  PROVE  UNCHANGED Fifo!fifoVars
<1> DEFINE s == [prod[p] EXCEPT !.pos = enqueuePos, !.pc = "LoadSequence"]
<1>1. /\ ~ Reserved(p) /\ SetProducer(p, s) /\ prod[p].pc = "LoadPos"
      /\ UNCHANGED <<enqueuePos, dequeuePos, sequence, storage, cons, destroyed>>
  BY DEF LoadEnqueuePos, Reserved
<1>2. enqueuePos \in Nat /\ prod[p] \in ProducerState
  BY DEF QueueInv, TypeOK
<1>3. s \in ProducerState /\ s.pc = "LoadSequence" /\ s.item = prod[p].item
      /\ s.full = prod[p].full
  BY <1>2 DEF ProducerState
<1> HIDE DEF s
<1> QED
  BY <1>1, <1>3, SearchMaps

\* Nor is a failed compare-and-swap.
LEMMA CasFailsMaps ==
  ASSUME QueueInv, QueueInv', NEW p \in Producers, CasFails(p)
  PROVE  UNCHANGED Fifo!fifoVars
<1> DEFINE s == [prod[p] EXCEPT !.pos = enqueuePos, !.pc = "LoadSequence"]
<1>1. /\ ~ Reserved(p) /\ SetProducer(p, s) /\ prod[p].pc = "Cas"
      /\ UNCHANGED <<enqueuePos, dequeuePos, sequence, storage, cons, destroyed>>
  BY DEF CasFails, Reserved
<1>2. enqueuePos \in Nat /\ prod[p] \in ProducerState
  BY DEF QueueInv, TypeOK
<1>3. s \in ProducerState /\ s.pc = "LoadSequence" /\ s.item = prod[p].item
      /\ s.full = prod[p].full
  BY <1>2 DEF ProducerState
<1> HIDE DEF s
<1> QED
  BY <1>1, <1>3, SearchMaps

\* QueueFull is reported of a full queue.
LEMMA TestSlotMaps ==
  ASSUME QueueInv, QueueInv', NEW p \in Producers, TestSlot(p)
  PROVE  Fifo!RejectFull(p) \/ UNCHANGED Fifo!fifoVars
<1> DEFINE c == [prod[p] EXCEPT !.pc = "Cas"]
           l == [prod[p] EXCEPT !.pc = "LoadPos"]
           o == Outside(TRUE)
           diff == sequence[SlotAt(prod[p].pos)] - prod[p].pos
<1>1. /\ ~ Reserved(p) /\ prod[p].pc = "LoadSequence"
      /\ UNCHANGED <<enqueuePos, dequeuePos, sequence, storage, cons, destroyed>>
  BY DEF TestSlot, Reserved
<1>2. prod[p] \in ProducerState /\ prod[p].pos \in Nat
      /\ sequence[SlotAt(prod[p].pos)] \in Nat
  BY SlotFacts DEF QueueInv, TypeOK, ProducerState
<1>3. CASE diff = 0
  <2>1. SetProducer(p, c)
    <3>1. ~(diff < 0) /\ ~(diff > 0)
      BY <1>2, <1>3
    <3> QED
      BY <1>3, <3>1 DEF TestSlot
  <2>2. c \in ProducerState /\ c.pc = "Cas" /\ c.item = prod[p].item /\ c.full = prod[p].full
    BY <1>2 DEF ProducerState
  <2> HIDE DEF c
  <2> QED
    BY <1>1, <2>1, <2>2, SearchMaps
<1>4. CASE diff > 0
  <2>1. SetProducer(p, l)
    <3>1. ~(diff < 0) /\ ~(diff = 0)
      BY <1>2, <1>4
    <3> QED
      BY <1>4, <3>1 DEF TestSlot
  <2>2. l \in ProducerState /\ l.pc = "LoadPos" /\ l.item = prod[p].item /\ l.full = prod[p].full
    BY <1>2 DEF ProducerState
  <2> HIDE DEF l
  <2> QED
    BY <1>1, <2>1, <2>2, SearchMaps
<1>5. CASE diff < 0
  <2>1. SetProducer(p, o)
    <3>1. ~(diff > 0) /\ ~(diff = 0)
      BY <1>2, <1>5
    <3> QED
      BY <1>5, <3>1 DEF TestSlot
  <2>2. o \in ProducerState /\ o.pc = "Outside" /\ o.item = NoItem /\ o.full = TRUE
    BY DEF Outside, ProducerState
  <2>3. enqueuePos = head + Capacity
    BY <1>2, <1>5, SlotSeen
  <2> HIDE DEF o
  <2>4. PushOf(o) = Fifo!NotPushing(TRUE)
    BY <2>2, PushOfIs DEF Fifo!NotPushing
  <2>5. AbstractPush[p].pc = "Pushing"
    BY <1>1, <1>2, <2>1, PushOfIs, PushChanges
  <2>6. AbstractPush' = [AbstractPush EXCEPT ![p] = Fifo!NotPushing(TRUE)]
    BY <2>1, <2>4, PushChanges
  <2>7. AbstractSlots' = AbstractSlots /\ AbstractPopped' = AbstractPopped
    BY <1>1, <2>1, LocalStepContent
  <2>8. Len(AbstractSlots) >= Capacity
    <3>1. head \in Nat /\ enqueuePos \in Nat
      BY DEF QueueInv, TypeOK, head
    <3> QED
      BY <2>3, <3>1, CapacityFacts, SlotsKnown DEF SlotsAre
  <2> QED
    BY <2>5, <2>6, <2>7, <2>8 DEF Fifo!RejectFull
<1> QED
  BY <1>2, <1>3, <1>4, <1>5

\* A compare-and-swap that succeeds reserves the last place.
LEMMA CasSucceedsMaps ==
  ASSUME QueueInv, QueueInv', NEW p \in Producers, CasSucceeds(p)
  PROVE  Fifo!Reserve(p)
<1> DEFINE s == [prod[p] EXCEPT !.pc = "Construct"]
<1>1. /\ ~ Reserved(p) /\ prod[p].pc = "Cas" /\ SetProducer(p, s) /\ enqueuePos = prod[p].pos
      /\ enqueuePos' = enqueuePos + 1
      /\ UNCHANGED <<dequeuePos, sequence, storage, cons, destroyed>>
  BY DEF CasSucceeds, Reserved
<1>2. /\ enqueuePos \in Nat /\ head \in Nat /\ head <= enqueuePos /\ head' = head
      /\ enqueuePos < head + Capacity
  BY <1>1 DEF QueueInv, TypeOK, WindowInv, ProducerInv, ProducerSound, head
<1>3. prod[p] \in ProducerState
  BY DEF QueueInv, TypeOK
<1>4. s \in ProducerState /\ s.pc = "Construct" /\ s.item = prod[p].item
      /\ s.full = prod[p].full /\ s.pos = prod[p].pos
  BY <1>3 DEF ProducerState
<1> HIDE DEF s
<1>5. ContentIs /\ SlotsAre /\ ContentIs' /\ SlotsAre'
  BY ContentKnown, SlotsKnown, KnownNext
<1>6. \A q \in Producers : prod'[q] = IF q = p THEN s ELSE prod[q]
  BY <1>1 DEF QueueInv, TypeOK, SetProducer
<1>7. ASSUME NEW n \in head .. enqueuePos - 1 PROVE SlotContent(n)' = SlotContent(n)
  <2>1. n \in head .. enqueuePos
    BY <1>2
  <2>2. CASE ReservedPosition(n)
    <3>1. PICK q \in Producers : Reserved(q) /\ prod[q].pos = n
      BY <2>2 DEF ReservedPosition
    <3>2. Reserved(q)' /\ prod'[q].pos = n
      BY <1>1, <1>6, <3>1 DEF Reserved
    <3>3. SlotContent(n) = q
      BY <1>5, <3>1 DEF ContentIs
    <3>4. SlotContent(n)' = q
      BY <1>1, <1>2, <1>5, <2>1, <3>2 DEF ContentIs
    <3> QED
      BY <3>3, <3>4
  <2>3. CASE FilledPosition(n)
    <3>1. FilledPosition(n)' /\ ItemAt(n)' = ItemAt(n)
      BY <1>1, <2>3 DEF FilledPosition, ItemAt, BeingFreed
    <3>2. SlotContent(n) = ItemAt(n)
      BY <1>5, <2>3 DEF ContentIs
    <3>3. SlotContent(n)' = ItemAt(n)'
      BY <1>1, <1>2, <1>5, <2>1, <3>1 DEF ContentIs
    <3> QED
      BY <3>1, <3>2, <3>3
  <2> QED
    BY <2>2, <2>3 DEF QueueInv, WindowInv
<1>8. \A n \in Nat : n = enqueuePos => SlotContent(n)' = p
  <2>1. Reserved(p)' /\ prod'[p].pos = enqueuePos
    BY <1>1, <1>4, <1>6 DEF Reserved
  <2> QED
    BY <1>1, <1>2, <1>5, <2>1 DEF ContentIs
<1>9. AbstractSlots' = Append(AbstractSlots, p)
  <2> DEFINE t == AbstractSlots'
             k == enqueuePos - head
  <2>1. /\ AbstractSlots \in Seq(Content) /\ t \in Seq(Content) /\ k \in Nat
        /\ Len(AbstractSlots) = k /\ Len(t) = k + 1
    BY <1>1, <1>2, <1>5 DEF SlotsAre
  <2>2. ASSUME NEW i \in 1 .. k PROVE t[i] = AbstractSlots[i]
    <3> SUFFICES ASSUME NEW m \in Nat, m = head + i - 1 PROVE t[i] = AbstractSlots[i]
      BY <1>2
    <3>1. AbstractSlots[i] = SlotContent(m)
      BY <1>5 DEF SlotsAre
    <3>2. /\ m \in head .. enqueuePos - 1
          /\ i \in 1 .. enqueuePos' - head' /\ m = head' + i - 1
      BY <1>1, <1>2
    <3>3. t[i] = SlotContent(m)'
      BY <1>5, <3>2 DEF SlotsAre
    <3> QED
      BY <1>7, <3>1, <3>2, <3>3
  <2>3. t[k + 1] = p
    <3> SUFFICES ASSUME NEW m \in Nat, m = enqueuePos PROVE t[k + 1] = p
      BY <1>2
    <3>1. k + 1 \in 1 .. enqueuePos' - head' /\ m = head' + (k + 1) - 1
      BY <1>1, <1>2
    <3>2. t[k + 1] = SlotContent(m)'
      BY <1>5, <3>1 DEF SlotsAre
    <3> QED
      BY <1>8, <3>2
  <2>4. p \in Content
    BY DEF Content
  <2> HIDE DEF t, k
  <2>5. t = Append(AbstractSlots, p)
    BY <2>1, <2>2, <2>3, <2>4, AppendIs
  <2> QED
    BY <2>5 DEF t
<1>10. AbstractPush[p] = [pc |-> "Pushing", item |-> s.item, full |-> s.full]
  BY <1>1, <1>3, <1>4, PushOfIs, PushChanges
<1>11. PushOf(s) = [AbstractPush[p] EXCEPT !.pc = "Reserved"]
  <2>1. PushOf(s) = [pc |-> "Reserved", item |-> s.item, full |-> s.full]
    BY <1>4, PushOfIs
  <2> QED
    BY <1>10, <2>1
<1>12. AbstractPush' = [AbstractPush EXCEPT ![p].pc = "Reserved"]
  BY <1>1, <1>11, PushChanges
<1>13. Len(AbstractSlots) < Capacity
  BY <1>2, <1>5, CapacityFacts DEF SlotsAre
<1>14. AbstractPopped' = AbstractPopped
  BY <1>1, PoppedUnchanged
<1> QED
  BY <1>9, <1>10, <1>12, <1>13, <1>14 DEF Fifo!Reserve

\* Constructing the item in a reserved slot is no step of the FIFO.
LEMMA ConstructItemMaps ==
  ASSUME QueueInv, QueueInv', NEW p \in Producers, ConstructItem(p)
  PROVE  UNCHANGED Fifo!fifoVars
<1> DEFINE s == [prod[p] EXCEPT !.pc = "StoreSequence"]
           pos == prod[p].pos
<1>1. /\ prod[p].pc = "Construct" /\ Reserved(p) /\ SetProducer(p, s)
      /\ storage' = [storage EXCEPT ![SlotAt(pos)] = prod[p].item]
      /\ UNCHANGED <<enqueuePos, dequeuePos, sequence, cons, destroyed>>
  BY DEF ConstructItem, Reserved
<1>2. prod[p] \in ProducerState
  BY DEF QueueInv, TypeOK
<1>3. s \in ProducerState /\ s.pc = "StoreSequence" /\ s.item = prod[p].item
      /\ s.full = prod[p].full /\ s.pos = pos
  BY <1>2 DEF ProducerState
<1>4. pos \in Nat /\ sequence[SlotAt(pos)] = pos
  BY <1>1, <1>2 DEF QueueInv, ProducerInv, ProducerSound, ProducerState
<1>5. head' = head /\ head \in Nat /\ enqueuePos \in Nat
  BY <1>1 DEF head, QueueInv, TypeOK
<1> HIDE DEF s, pos
<1>6. \A q \in Producers : prod'[q] = IF q = p THEN s ELSE prod[q]
  BY <1>1 DEF QueueInv, TypeOK, SetProducer
<1>7. \A q \in Producers : Reserved(q) => Reserved(q)' /\ prod'[q].pos = prod[q].pos
  BY <1>3, <1>6 DEF Reserved, pos
<1>8. ASSUME NEW n \in head .. enqueuePos - 1, FilledPosition(n)
      PROVE  FilledPosition(n)' /\ ItemAt(n)' = ItemAt(n)
  <2>1. n \in Nat /\ SlotAt(n) \in SlotIndex
    BY <1>5, SlotFacts
  <2>2. SlotAt(n) # SlotAt(pos)
    <3>1. sequence[SlotAt(n)] = n + 1
      BY <1>8 DEF FilledPosition
    <3>2. ASSUME SlotAt(n) = SlotAt(pos) PROVE n # pos /\ n < pos + Capacity /\ pos < n + Capacity
      BY <1>4, <2>1, <3>1, <3>2, CapacityFacts
    <3> QED
      BY <1>4, <2>1, <3>2, OtherSlots
  <2>3. storage'[SlotAt(n)] = storage[SlotAt(n)]
    BY <1>1, <2>1, <2>2 DEF QueueInv, TypeOK
  <2> QED
    BY <1>1, <1>8, <2>3 DEF FilledPosition, ItemAt, BeingFreed
<1>9. AbstractSlots' = AbstractSlots
  BY <1>1, <1>5, <1>7, <1>8, ContentSame
<1>10. PushOf(s) = PushOf(prod[p])
  <2>1. PushOf(s) = [pc |-> "Reserved", item |-> s.item, full |-> s.full]
    BY <1>3, PushOfIs
  <2>2. PushOf(prod[p]) = [pc |-> "Reserved", item |-> prod[p].item, full |-> prod[p].full]
    BY <1>1, <1>2, PushOfIs
  <2> QED
    BY <1>3, <2>1, <2>2
<1>11. AbstractPush' = AbstractPush
  BY <1>1, <1>10, PushChanges
<1>12. AbstractPopped' = AbstractPopped
  BY <1>1, PoppedUnchanged
<1> QED
  BY <1>9, <1>11, <1>12 DEF Fifo!fifoVars

\* Storing the sequence turns the reservation into its item, and no other place.
LEMMA PublishSlotMaps ==
  ASSUME QueueInv, QueueInv', NEW p \in Producers, PublishSlot(p)
  PROVE  Fifo!Publish(p)
<1> DEFINE s == Outside(FALSE)
           pos == prod[p].pos
<1>1. /\ prod[p].pc = "StoreSequence" /\ Reserved(p) /\ SetProducer(p, s)
      /\ sequence' = [sequence EXCEPT ![SlotAt(pos)] = pos + 1]
      /\ UNCHANGED <<enqueuePos, dequeuePos, storage, cons, destroyed>>
  BY DEF PublishSlot, Reserved
<1>2. prod[p] \in ProducerState /\ prod[p].item \in Items
  BY <1>1, InsideCall
<1>3. s \in ProducerState /\ s.pc = "Outside" /\ s.item = NoItem /\ s.full = FALSE
  BY DEF Outside, ProducerState
<1>4. pos \in head .. enqueuePos - 1 /\ pos \in Nat /\ sequence[SlotAt(pos)] = pos
      /\ storage[SlotAt(pos)] = prod[p].item
  BY <1>1, <1>2 DEF QueueInv, ProducerInv, ProducerSound, ProducerState
<1>5. /\ head' = head /\ head \in Nat /\ enqueuePos \in Nat /\ head <= enqueuePos
      /\ enqueuePos <= head + Capacity
  BY <1>1 DEF head, QueueInv, TypeOK, WindowInv
<1> HIDE DEF s, pos
<1>6. \A q \in Producers : prod'[q] = IF q = p THEN s ELSE prod[q]
  BY <1>1 DEF QueueInv, TypeOK, SetProducer
<1>7. ContentIs /\ SlotsAre /\ ContentIs' /\ SlotsAre'
  BY ContentKnown, SlotsKnown, KnownNext
<1>8. SlotAt(pos) \in SlotIndex
  BY <1>4, SlotFacts
\* The published position holds its producer's item, which no other position does.
<1>9. ASSUME NEW n \in head .. enqueuePos - 1, n = pos
      PROVE  SlotContent(n) = p /\ SlotContent(n)' = prod[p].item
  <2>1. SlotContent(n) = p
    BY <1>1, <1>7, <1>9 DEF ContentIs, pos
  <2>2. ~ BeingFreed(n)'
    BY <1>1, <1>4, <1>9 DEF BeingFreed, QueueInv, ConsumerInv
  <2>3. sequence'[SlotAt(n)] = n + 1
    BY <1>1, <1>8, <1>9 DEF QueueInv, TypeOK
  <2>4. FilledPosition(n)' /\ ItemAt(n)' = prod[p].item
    BY <1>1, <1>2, <1>4, <1>9, <2>2, <2>3 DEF FilledPosition, ItemAt
  <2>5. SlotContent(n)' = ItemAt(n)'
    BY <1>1, <1>5, <1>7, <2>4 DEF ContentIs
  <2> QED
    BY <2>1, <2>4, <2>5
<1>10. ASSUME NEW n \in head .. enqueuePos - 1, n # pos
       PROVE  SlotContent(n) # p /\ SlotContent(n)' = SlotContent(n)
  <2>1. n \in Nat /\ SlotAt(n) \in SlotIndex /\ SlotAt(n) # SlotAt(pos)
    <3>1. n \in Nat /\ SlotAt(n) \in SlotIndex
      BY <1>5, SlotFacts
    <3>2. n < pos + Capacity /\ pos < n + Capacity
      BY <1>4, <1>5, <3>1, CapacityFacts
    <3> QED
      BY <1>4, <1>10, <3>1, <3>2, OtherSlots
  <2>2. sequence'[SlotAt(n)] = sequence[SlotAt(n)]
    BY <1>1, <2>1 DEF QueueInv, TypeOK
  <2>3. CASE ReservedPosition(n)
    <3>1. PICK q \in Producers : Reserved(q) /\ prod[q].pos = n
      BY <2>3 DEF ReservedPosition
    <3>2. q # p
      BY <1>10, <3>1 DEF pos
    <3>3. Reserved(q)' /\ prod'[q].pos = n
      BY <1>6, <3>1, <3>2 DEF Reserved
    <3>4. SlotContent(n) = q
      BY <1>7, <3>1 DEF ContentIs
    <3>5. SlotContent(n)' = q
      BY <1>1, <1>5, <1>7, <3>3 DEF ContentIs
    <3> QED
      BY <3>2, <3>4, <3>5
  <2>4. CASE FilledPosition(n)
    <3>1. FilledPosition(n)' /\ ItemAt(n)' = ItemAt(n)
      BY <1>1, <2>2, <2>4 DEF FilledPosition, ItemAt, BeingFreed
    <3>2. SlotContent(n) = ItemAt(n) /\ ItemAt(n) \in Items
      BY <1>7, <2>4 DEF ContentIs
    <3>3. SlotContent(n)' = ItemAt(n)'
      BY <1>1, <1>5, <1>7, <3>1 DEF ContentIs
    <3> QED
      BY <3>1, <3>2, <3>3, QueueAssumption
  <2> QED
    BY <2>3, <2>4 DEF QueueInv, WindowInv
<1>11. /\ AbstractPush[p] = [pc |-> "Reserved", item |-> prod[p].item, full |-> prod[p].full]
       /\ AbstractPush' = [AbstractPush EXCEPT ![p] = Fifo!NotPushing(FALSE)]
  <2>1. PushOf(s) = Fifo!NotPushing(FALSE)
    BY <1>3, PushOfIs DEF Fifo!NotPushing
  <2>2. PushOf(prod[p]) = [pc |-> "Reserved", item |-> prod[p].item, full |-> prod[p].full]
    BY <1>1, <1>2, PushOfIs
  <2>3. AbstractPush[p] = PushOf(prod[p])
    BY <1>1, PushChanges
  <2>4. AbstractPush' = [AbstractPush EXCEPT ![p] = PushOf(s)]
    BY <1>1, PushChanges
  <2> QED
    BY <2>1, <2>2, <2>3, <2>4
<1>12. AbstractSlots' = [i \in DOMAIN AbstractSlots |->
                           IF AbstractSlots[i] = p THEN AbstractPush[p].item ELSE AbstractSlots[i]]
  <2> DEFINE k == enqueuePos - head
             t == AbstractSlots'
  <2>1. /\ AbstractSlots \in Seq(Content) /\ t \in Seq(Content) /\ k \in Nat
        /\ Len(AbstractSlots) = k /\ Len(t) = k
    BY <1>1, <1>5, <1>7 DEF SlotsAre
  <2>2. ASSUME NEW i \in 1 .. k
        PROVE  t[i] = IF AbstractSlots[i] = p THEN AbstractPush[p].item ELSE AbstractSlots[i]
    <3> SUFFICES ASSUME NEW m \in Nat, m = head + i - 1
                 PROVE  t[i] = IF AbstractSlots[i] = p THEN AbstractPush[p].item ELSE AbstractSlots[i]
      BY <1>5
    <3>1. AbstractSlots[i] = SlotContent(m)
      BY <1>7 DEF SlotsAre
    <3>2. /\ m \in head .. enqueuePos - 1
          /\ i \in 1 .. enqueuePos' - head' /\ m = head' + i - 1
      BY <1>1, <1>5
    <3>3. t[i] = SlotContent(m)'
      BY <1>7, <3>2 DEF SlotsAre
    <3>4. AbstractPush[p].item = prod[p].item
      BY <1>11
    <3> QED
      BY <1>9, <1>10, <3>1, <3>2, <3>3, <3>4
  <2>3. DOMAIN AbstractSlots = 1 .. k /\ DOMAIN t = 1 .. k
    BY <2>1
  <2>4. t = [i \in 1 .. k |-> t[i]]
    BY <2>1, <2>3
  <2> HIDE DEF t, k
  <2>5. t = [i \in 1 .. k |-> IF AbstractSlots[i] = p THEN AbstractPush[p].item ELSE AbstractSlots[i]]
    BY <2>2, <2>4
  <2> QED
    BY <2>3, <2>5 DEF t
<1>13. AbstractPopped' = AbstractPopped
  BY <1>1, PoppedUnchanged
<1> QED
  BY <1>11, <1>12, <1>13 DEF Fifo!Publish

\* What BeginPop, TestFilled and AdvanceDequeuePos leave alone.
LEMMA LookContent ==
  ASSUME QueueInv, QueueInv', head' = head, cons.pc # "FreeSlot", cons'.pc # "FreeSlot",
         UNCHANGED <<enqueuePos, sequence, storage, prod>>
  PROVE  AbstractSlots' = AbstractSlots /\ AbstractPush' = AbstractPush
<1>1. \A q \in Producers : Reserved(q) => Reserved(q)' /\ prod'[q].pos = prod[q].pos
  BY DEF Reserved
<1>2. \A n : FilledPosition(n)' = FilledPosition(n) /\ ItemAt(n)' = ItemAt(n)
  BY DEF FilledPosition, ItemAt, BeingFreed
<1> QED
  BY <1>1, <1>2, ContentSame, PushUnchanged

\* A new TryPop has used up the outcome of the one before.
LEMMA BeginPopMaps ==
  ASSUME QueueInv, QueueInv', BeginPop
  PROVE  Fifo!BeginPop
<1>1. cons.pc = "Outside" /\ cons'.pc = "LoadSequence" /\ cons'.item = NoItem /\ cons'.empty = FALSE
      /\ UNCHANGED <<enqueuePos, dequeuePos, sequence, storage, prod>>
  BY DEF BeginPop
<1>2. head' = head
  BY <1>1 DEF head
<1>3. AbstractPopped' = Fifo!Unanswered
  BY <1>1 DEF AbstractPopped, Fifo!Unanswered
<1> QED
  BY <1>1, <1>2, <1>3, LookContent DEF Fifo!BeginPop

\* A ring that is empty holds the empty sequence.
EmptyRing == enqueuePos = head /\ enqueuePos \in Nat

EmptyContent == AbstractSlots = << >>

\* An empty window has no content.
LEMMA EmptyRingIs == EmptyRing => EmptyContent
<1> SUFFICES ASSUME EmptyRing PROVE EmptyContent
  OBVIOUS
<1>1. 1 .. enqueuePos - head = 1 .. 0
  BY DEF EmptyRing
<1>2. AbstractSlots \in [1 .. 0 -> Content]
  BY <1>1 DEF AbstractSlots
<1>3. AbstractSlots \in Seq(Content) /\ Len(AbstractSlots) = 0
  BY <1>2, FunctionIsSeq
<1> QED
  BY <1>3 DEF EmptyContent

\* Head's position, while no filled one: the content starts with no item.
LEMMA NothingPublished ==
  ASSUME QueueInv, head = dequeuePos, sequence[SlotAt(dequeuePos)] # dequeuePos + 1
  PROVE  AbstractSlots = << >> \/ Head(AbstractSlots) \in Producers
<1>1. /\ dequeuePos \in Nat /\ enqueuePos \in Nat /\ head <= enqueuePos
  BY DEF QueueInv, TypeOK, WindowInv
<1>2. CASE enqueuePos = head
  BY <1>1, <1>2, EmptyRingIs DEF EmptyRing, EmptyContent
<1>3. CASE enqueuePos # head
  <2> SUFFICES ASSUME NEW n \in Nat, n = dequeuePos PROVE Head(AbstractSlots) \in Producers
    BY <1>1
  <2>1. 1 \in 1 .. enqueuePos - head /\ n = head + 1 - 1 /\ n \in head .. enqueuePos - 1
    BY <1>1, <1>3
  <2>2. ContentIs /\ SlotsAre
    BY ContentKnown, SlotsKnown
  <2>3. ~ FilledPosition(n)
    BY DEF FilledPosition
  <2>4. PICK q \in Producers : Reserved(q) /\ prod[q].pos = n
    BY <2>1, <2>3 DEF QueueInv, WindowInv, ReservedPosition
  <2>5. SlotContent(n) = q
    BY <2>1, <2>2, <2>4 DEF ContentIs
  <2>6. AbstractSlots[1] = q
    BY <2>1, <2>2, <2>5 DEF SlotsAre
  <2> QED
    BY <2>6
<1> QED
  BY <1>2, <1>3

\* Looking at a filled slot changes nothing; at one that is not, it is an answer.
LEMMA TestFilledMaps ==
  ASSUME QueueInv, QueueInv', TestFilled
  PROVE  Fifo!ReportEmpty \/ UNCHANGED Fifo!fifoVars
<1>1. cons \in ConsumerState /\ cons.pc = "LoadSequence" /\ cons.item = NoItem /\ cons.empty = FALSE
  BY DEF QueueInv, TypeOK, ConsumerInv, ConsumerState, TestFilled
<1>2. UNCHANGED <<enqueuePos, dequeuePos, sequence, storage, prod>>
  BY DEF TestFilled
<1>3. CASE sequence[SlotAt(dequeuePos)] = dequeuePos + 1
  <2>1. cons'.pc = "Take" /\ cons'.item = NoItem /\ cons'.empty = FALSE
    BY <1>1, <1>3 DEF TestFilled, ConsumerState
  <2>2. head' = head /\ AbstractPopped' = AbstractPopped
    BY <1>1, <1>2, <2>1 DEF head, AbstractPopped
  <2> QED
    BY <1>1, <1>2, <2>1, <2>2, LookContent DEF Fifo!fifoVars
<1>4. CASE sequence[SlotAt(dequeuePos)] # dequeuePos + 1
  <2>1. cons'.pc = "Outside" /\ cons'.item = NoItem /\ cons'.empty = TRUE
    BY <1>4 DEF TestFilled, QueueEmpty
  <2>2. head' = head /\ head = dequeuePos
    BY <1>1, <1>2, <2>1 DEF head
  <2>3. AbstractPopped = Fifo!Unanswered /\ AbstractPopped' = [item |-> NoItem, empty |-> TRUE]
    BY <1>1, <2>1 DEF AbstractPopped, Fifo!Unanswered
  <2> QED
    BY <1>1, <1>2, <1>4, <2>1, <2>2, <2>3, LookContent, NothingPublished DEF Fifo!ReportEmpty
<1> QED
  BY <1>3, <1>4

\* The content has lost its head before dequeuePos_ moves.
LEMMA AdvanceDequeuePosMaps ==
  ASSUME QueueInv, QueueInv', AdvanceDequeuePos
  PROVE  UNCHANGED Fifo!fifoVars
<1>1. cons \in ConsumerState /\ cons.pc = "AdvancePos" /\ dequeuePos \in Nat
  BY DEF QueueInv, TypeOK, AdvanceDequeuePos
<1>2. cons'.pc = "Outside" /\ cons'.item = cons.item /\ cons'.empty = cons.empty
  BY <1>1 DEF AdvanceDequeuePos, ConsumerState
<1>3. UNCHANGED <<enqueuePos, sequence, storage, prod>> /\ dequeuePos' = dequeuePos + 1
  BY DEF AdvanceDequeuePos
<1>4. head' = head
  BY <1>1, <1>2, <1>3 DEF head
<1>5. AbstractPopped' = AbstractPopped
  BY <1>1, <1>2 DEF AbstractPopped
<1> QED
  BY <1>1, <1>2, <1>3, <1>4, <1>5, LookContent DEF Fifo!fifoVars

\* The item goes from its slot to the consumer's hand and stays the first one.
LEMMA TakeItemMaps ==
  ASSUME QueueInv, QueueInv', TakeItem
  PROVE  UNCHANGED Fifo!fifoVars
<1> DEFINE d == dequeuePos
<1>1. /\ cons.pc = "Take" /\ head = d /\ sequence[SlotAt(d)] = d + 1
      /\ d \in Nat /\ enqueuePos \in Nat /\ d < enqueuePos /\ enqueuePos <= head + Capacity
  BY DEF QueueInv, TypeOK, WindowInv, ConsumerInv, TakeItem, head
<1>2. /\ cons'.pc = "FreeSlot" /\ cons'.item = storage[SlotAt(d)] /\ cons'.empty = cons.empty
      /\ storage' = [storage EXCEPT ![SlotAt(d)] = NoItem]
      /\ UNCHANGED <<enqueuePos, dequeuePos, sequence, prod>>
  BY DEF TakeItem, QueueInv, TypeOK, ConsumerState
<1>3. head' = head /\ SlotAt(d) \in SlotIndex
  BY <1>1, <1>2, SlotFacts DEF head
<1>4. \A q \in Producers : Reserved(q) => Reserved(q)' /\ prod'[q].pos = prod[q].pos
  BY <1>2 DEF Reserved
<1>5. ASSUME NEW n \in head .. enqueuePos - 1, FilledPosition(n)
      PROVE  FilledPosition(n)' /\ ItemAt(n)' = ItemAt(n)
  <2>1. ~ BeingFreed(n)
    BY <1>1 DEF BeingFreed
  <2>2. CASE n = d
    <3>1. BeingFreed(n)'
      BY <1>2, <2>2 DEF BeingFreed
    <3>2. storage'[SlotAt(n)] = NoItem
      BY <1>2, <1>3, <2>2 DEF QueueInv, TypeOK
    <3> QED
      BY <1>2, <1>5, <2>1, <2>2, <3>1, <3>2 DEF FilledPosition, ItemAt
  <2>3. CASE n # d
    <3>1. n \in Nat /\ SlotAt(n) \in SlotIndex
      BY <1>1, SlotFacts
    <3>2. SlotAt(n) # SlotAt(d)
      <4>1. n < d + Capacity /\ d < n + Capacity
        BY <1>1, <3>1, CapacityFacts
      <4> QED
        BY <1>1, <2>3, <3>1, <4>1, OtherSlots
    <3>3. storage'[SlotAt(n)] = storage[SlotAt(n)]
      BY <1>2, <3>1, <3>2 DEF QueueInv, TypeOK
    <3>4. ~ BeingFreed(n)'
      BY <1>2, <2>3 DEF BeingFreed
    <3> QED
      BY <1>2, <1>5, <2>1, <3>3, <3>4 DEF FilledPosition, ItemAt
  <2> QED
    BY <2>2, <2>3
<1>6. AbstractSlots' = AbstractSlots
  BY <1>2, <1>3, <1>4, <1>5, ContentSame
<1>7. AbstractPush' = AbstractPush
  BY <1>2, PushUnchanged
<1>8. AbstractPopped' = AbstractPopped
  BY <1>1, <1>2 DEF AbstractPopped
<1> QED
  BY <1>6, <1>7, <1>8 DEF Fifo!fifoVars

\* Storing the sequence of the freed slot takes the head off the content.
LEMMA FreeSlotMaps ==
  ASSUME QueueInv, QueueInv', FreeSlot
  PROVE  Fifo!Pop
<1> DEFINE d == dequeuePos
<1>1. /\ cons \in ConsumerState /\ cons.pc = "FreeSlot" /\ cons.item \in Items
      /\ head = d /\ sequence[SlotAt(d)] = d + 1
      /\ d \in Nat /\ enqueuePos \in Nat /\ d < enqueuePos /\ enqueuePos <= head + Capacity
  BY DEF QueueInv, TypeOK, WindowInv, ConsumerInv, FreeSlot, head
<1>2. /\ sequence' = [sequence EXCEPT ![SlotAt(d)] = d + Capacity]
      /\ cons' = [cons EXCEPT !.pc = "AdvancePos"]
      /\ UNCHANGED <<enqueuePos, dequeuePos, storage, prod>>
  BY DEF FreeSlot
<1>3. cons'.pc = "AdvancePos" /\ cons'.item = cons.item /\ cons'.empty = FALSE /\ cons.empty = FALSE
  BY <1>1, <1>2 DEF ConsumerState, QueueInv, ConsumerInv
<1>4. head' = d + 1 /\ SlotAt(d) \in SlotIndex
  BY <1>1, <1>2, <1>3, SlotFacts DEF head
<1>5. ContentIs /\ SlotsAre /\ ContentIs' /\ SlotsAre'
  BY ContentKnown, SlotsKnown, KnownNext
<1>6. ASSUME NEW n \in d + 1 .. enqueuePos - 1
      PROVE  SlotContent(n)' = SlotContent(n)
  <2>1. n \in Nat /\ SlotAt(n) \in SlotIndex /\ n \in head .. enqueuePos - 1
    BY <1>1, SlotFacts
  <2>2. SlotAt(n) # SlotAt(d)
    <3>1. n # d /\ n < d + Capacity /\ d < n + Capacity
      BY <1>1, <2>1, CapacityFacts
    <3> QED
      BY <1>1, <2>1, <3>1, OtherSlots
  <2>3. sequence'[SlotAt(n)] = sequence[SlotAt(n)]
    BY <1>2, <2>1, <2>2 DEF QueueInv, TypeOK
  <2>4. CASE ReservedPosition(n)
    <3>1. PICK q \in Producers : Reserved(q) /\ prod[q].pos = n
      BY <2>4 DEF ReservedPosition
    <3>2. Reserved(q)' /\ prod'[q].pos = n
      BY <1>2, <3>1 DEF Reserved
    <3>3. SlotContent(n) = q
      BY <1>5, <2>1, <3>1 DEF ContentIs
    <3>4. SlotContent(n)' = q
      BY <1>2, <1>4, <1>5, <3>2 DEF ContentIs
    <3> QED
      BY <3>3, <3>4
  <2>5. CASE FilledPosition(n)
    <3>1. ~ BeingFreed(n) /\ ~ BeingFreed(n)'
      BY <1>1, <1>2, <1>3 DEF BeingFreed
    <3>2. FilledPosition(n)' /\ ItemAt(n)' = ItemAt(n)
      BY <1>2, <2>3, <2>5, <3>1 DEF FilledPosition, ItemAt
    <3>3. SlotContent(n) = ItemAt(n)
      BY <1>5, <2>1, <2>5 DEF ContentIs
    <3>4. SlotContent(n)' = ItemAt(n)'
      BY <1>2, <1>4, <1>5, <3>2 DEF ContentIs
    <3> QED
      BY <3>2, <3>3, <3>4
  <2> QED
    BY <2>1, <2>4, <2>5 DEF QueueInv, WindowInv
<1>7. AbstractSlots[1] = cons.item
  <2> SUFFICES ASSUME NEW n \in Nat, n = d PROVE AbstractSlots[1] = cons.item
    BY <1>1
  <2>1. 1 \in 1 .. enqueuePos - head /\ n = head + 1 - 1 /\ n \in head .. enqueuePos - 1
    BY <1>1
  <2>2. AbstractSlots[1] = SlotContent(n)
    BY <1>5, <2>1 DEF SlotsAre
  <2>3. BeingFreed(n)
    BY <1>1 DEF BeingFreed
  <2>4. FilledPosition(n)
    BY <1>1, <2>1 DEF QueueInv, WindowInv, ReservedPosition
  <2>5. SlotContent(n) = cons.item
    BY <1>5, <2>1, <2>3, <2>4 DEF ContentIs, ItemAt
  <2> QED
    BY <2>2, <2>5
<1>8. AbstractSlots # << >> /\ AbstractSlots' = Tail(AbstractSlots)
      /\ Head(AbstractSlots) = AbstractSlots[1]
  <2> DEFINE t == AbstractSlots'
             k == enqueuePos - (d + 1)
  <2>1. /\ AbstractSlots \in Seq(Content) /\ t \in Seq(Content) /\ k \in Nat
        /\ Len(AbstractSlots) = k + 1 /\ Len(t) = k
    BY <1>1, <1>2, <1>4, <1>5 DEF SlotsAre
  <2>2. ASSUME NEW i \in 1 .. k PROVE t[i] = AbstractSlots[i + 1]
    <3> SUFFICES ASSUME NEW m \in Nat, m = d + 1 + i - 1 PROVE t[i] = AbstractSlots[i + 1]
      BY <1>1
    <3>1. i + 1 \in 1 .. enqueuePos - head /\ m = head + (i + 1) - 1
      BY <1>1
    <3>2. AbstractSlots[i + 1] = SlotContent(m)
      BY <1>5, <3>1 DEF SlotsAre
    <3>3. /\ m \in d + 1 .. enqueuePos - 1
          /\ i \in 1 .. enqueuePos' - head' /\ m = head' + i - 1
      BY <1>1, <1>2, <1>4
    <3>4. t[i] = SlotContent(m)'
      BY <1>5, <3>3 DEF SlotsAre
    <3> QED
      BY <1>6, <3>2, <3>3, <3>4
  <2> HIDE DEF t, k
  <2>3. AbstractSlots # << >> /\ t = Tail(AbstractSlots) /\ Head(AbstractSlots) = AbstractSlots[1]
    BY <2>1, <2>2, TailIs
  <2> QED
    BY <2>3 DEF t
<1>9. Head(AbstractSlots) \notin Producers
  BY <1>1, <1>7, <1>8, QueueAssumption
<1>10. /\ AbstractPopped = Fifo!Unanswered
       /\ AbstractPopped' = [item |-> Head(AbstractSlots), empty |-> FALSE]
  BY <1>1, <1>3, <1>7, <1>8 DEF AbstractPopped, Fifo!Unanswered
<1>11. AbstractPush' = AbstractPush
  BY <1>2, PushUnchanged
<1> QED
  BY <1>8, <1>9, <1>10, <1>11 DEF Fifo!Pop

\* The same in the next state.
LEMMA EmptyRingNext == EmptyRing' => EmptyContent'
  BY EmptyRingIs, PTL

\* The destructor drops whatever is left, with no call under way.
LEMMA DestroyMaps ==
  ASSUME QueueInv, QueueInv', DestroyRemainingItems
  PROVE  Fifo!Destroy
<1>1. /\ dequeuePos' = enqueuePos /\ enqueuePos' = enqueuePos /\ prod' = prod /\ cons' = cons
      /\ enqueuePos \in Nat /\ cons.pc = "Outside"
      /\ \A p \in Producers : prod[p].pc = "Outside"
  BY DEF DestroyRemainingItems, QueueInv, TypeOK
<1>2. head' = enqueuePos
  BY <1>1 DEF head
<1>3. AbstractSlots' = << >>
  BY <1>1, <1>2, EmptyRingNext DEF EmptyRing, EmptyContent
<1>4. \A p \in Producers : AbstractPush[p].pc = "Outside"
  <2> SUFFICES ASSUME NEW p \in Producers PROVE AbstractPush[p].pc = "Outside"
    OBVIOUS
  <2>1. prod[p] \in ProducerState /\ prod[p].pc = "Outside"
    BY <1>1 DEF QueueInv, TypeOK
  <2>2. PushOf(prod[p]).pc = "Outside"
    BY <2>1, PushOfIs
  <2> QED
    BY <2>2, PushesAre
<1> QED
  BY <1>1, <1>3, <1>4, PushUnchanged, PoppedUnchanged DEF Fifo!Destroy

\* The constructor's ring is the empty FIFO.
LEMMA InitMaps == Init => Fifo!FifoInit
<1> SUFFICES ASSUME Init PROVE Fifo!FifoInit
  OBVIOUS
<1>1. enqueuePos = head /\ enqueuePos \in Nat
  BY DEF Init, head
<1>2. AbstractSlots = << >>
  BY <1>1, EmptyRingIs DEF EmptyRing, EmptyContent
<1>3. AbstractPopped = Fifo!Unanswered
  BY DEF Init, AbstractPopped, Fifo!Unanswered
<1>4. \A p \in Producers : PushOf(prod[p]) = Fifo!NotPushing(FALSE)
  <2> SUFFICES ASSUME NEW p \in Producers PROVE PushOf(prod[p]) = Fifo!NotPushing(FALSE)
    OBVIOUS
  <2>1. prod[p] \in ProducerState /\ prod[p].pc = "Outside" /\ prod[p].item = NoItem
        /\ prod[p].full = FALSE
    BY DEF Init, Outside, ProducerState
  <2> QED
    BY <2>1, PushOfIs DEF Fifo!NotPushing
<1>5. AbstractPush = [p \in Producers |-> Fifo!NotPushing(FALSE)]
  BY <1>4, PushesAre
<1> QED
  BY <1>2, <1>3, <1>5 DEF Fifo!FifoInit

\* The step simulation: each disjunct of Next maps to one of FifoNext, or to none.
LEMMA StepMaps ==
  QueueInv /\ QueueInv' /\ [Next]_vars => [Fifo!FifoNext]_Fifo!fifoVars
<1> SUFFICES ASSUME QueueInv, QueueInv', [Next]_vars
             PROVE  Fifo!FifoNext \/ UNCHANGED Fifo!fifoVars
  OBVIOUS
<1>1. ASSUME NEW p \in Producers, NEW v \in Items, BeginPush(p, v)
      PROVE  Fifo!FifoNext
  BY <1>1, BeginPushMaps DEF Fifo!FifoNext
<1>2. ASSUME NEW p \in Producers, LoadEnqueuePos(p) \/ ConstructItem(p)
      PROVE  UNCHANGED Fifo!fifoVars
  BY <1>2, LoadEnqueuePosMaps, ConstructItemMaps
<1>3. ASSUME NEW p \in Producers, TestSlot(p)
      PROVE  Fifo!FifoNext \/ UNCHANGED Fifo!fifoVars
  BY <1>3, TestSlotMaps DEF Fifo!FifoNext
<1>4. ASSUME NEW p \in Producers, ReserveSlot(p)
      PROVE  Fifo!FifoNext \/ UNCHANGED Fifo!fifoVars
  <2>1. CasSucceeds(p) \/ CasFails(p)
    BY <1>4 DEF ReserveSlot, CasSucceeds, CasFails
  <2> QED
    BY <2>1, CasSucceedsMaps, CasFailsMaps DEF Fifo!FifoNext
<1>5. ASSUME NEW p \in Producers, PublishSlot(p)
      PROVE  Fifo!FifoNext
  BY <1>5, PublishSlotMaps DEF Fifo!FifoNext
<1>6. CASE BeginPop
  BY <1>6, BeginPopMaps DEF Fifo!FifoNext
<1>7. CASE TestFilled \/ TakeItem \/ AdvanceDequeuePos
  BY <1>7, TestFilledMaps, TakeItemMaps, AdvanceDequeuePosMaps DEF Fifo!FifoNext
<1>8. CASE FreeSlot
  BY <1>8, FreeSlotMaps DEF Fifo!FifoNext
<1>9. CASE DestroyRemainingItems
  BY <1>9, DestroyMaps DEF Fifo!FifoNext
<1>10. CASE UNCHANGED vars
  <2>1. head' = head /\ UNCHANGED <<enqueuePos, sequence, storage, prod, cons, dequeuePos>>
    BY <1>10 DEF vars, head
  <2>2. \A q \in Producers : Reserved(q) => Reserved(q)' /\ prod'[q].pos = prod[q].pos
    BY <2>1 DEF Reserved
  <2>3. \A n : FilledPosition(n)' = FilledPosition(n) /\ ItemAt(n)' = ItemAt(n)
    BY <2>1 DEF FilledPosition, ItemAt, BeingFreed
  <2> QED
    BY <2>1, <2>2, <2>3, ContentSame, PushUnchanged, PoppedUnchanged DEF Fifo!fifoVars
<1> QED
  BY <1>1, <1>2, <1>3, <1>4, <1>5, <1>6, <1>7, <1>8, <1>9, <1>10
     DEF Next, SomeBeginPush, Continue, AfterDestruction

\* The ring implements the bounded FIFO: no item is lost, repeated or reordered,
\* QueueFull is reported of a full queue only, and QueueEmpty of an empty one or
\* while the first item is not published yet, whatever the interleaving of the
\* compare-and-swaps and the sequence stores.
THEOREM RingImplementsFifo == Spec => ImplementsFifo
  BY InitMaps, StepMaps, RingIsAWindow, PTL DEF Spec, ImplementsFifo, Fifo!FifoSpec

=============================================================================
