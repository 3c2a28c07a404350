----------------------- MODULE ToWorldHandoff_proofs -----------------------
(***************************************************************************)
(* What TLAPS checks about the handoff, for every number of sessions and   *)
(* every capacity: the safety of ToWorldHandoff, and that it implements    *)
(* SessionEventChannel.                                                    *)
(***************************************************************************)
EXTENDS ToWorldHandoff, SequenceTheorems, FunctionTheorems, FiniteSetTheorems,
        NaturalsInduction, TLAPS

\* An event of the queue.
Fact == [kind : Kinds, key : Sessions]

\* What the lock protects.
Parts == [slots : [Sessions -> Slot], pending : Seq(Sessions), events : Seq(Fact)]

\* A slot between two critical sections: facts are committed in their order, a
\* slot is erased with its last one, and the session is in the ring exactly when
\* one waits.
SlotSound(s) ==
    /\ ~ s.present => ~ s.acceptedRecorded
    /\ s.acceptedCommitted => s.acceptedRecorded
    /\ s.closedRecorded => s.acceptedRecorded
    /\ ~ s.closedCommitted
    /\ s.pendingRegistered <=> NextPendingKind(s) # "None"

\* No session is twice in the ring p.
Distinct(p) == \A i, j \in 1 .. Len(p) : p[i] = p[j] => i = j

\* The sessions in the ring p.
InRing(p) == {p[i] : i \in 1 .. Len(p)}

\* The sessions that have a slot.
Present(h) == {k \in Sessions : h.slots[k].present}

\* The sessions whose slot says they are in the ring.
Registered(h) == {k \in Sessions : h.slots[k].pendingRegistered}

\* The parts between two critical sections: sound slots, no session twice in the
\* ring, which holds those whose slots say so, and both capacities respected.
HandoffSound(h) ==
    /\ h \in Parts
    /\ \A k \in Sessions : SlotSound(h.slots[k])
    /\ Distinct(h.pending)
    /\ InRing(h.pending) = Registered(h)
    /\ Len(h.events) <= EventQueueCapacity
    /\ Cardinality(Present(h)) <= MaxSessionCount

\* A fact waits only while the queue is full.
WaitsOnlyWhenFull(h) == h.pending # <<>> => Len(h.events) = EventQueueCapacity

\* The facts of session k still to be delivered, oldest first.
Content(h, k) == FactsOf(h.events, k) \o Deferred(h.slots[k])

\* What publishing may do to the slot s: it is erased or remembers what was recorded.
SlotKept(s, r) ==
    r.present => /\ s.present
                 /\ r.acceptedRecorded <=> s.acceptedRecorded
                 /\ r.closedRecorded <=> s.closedRecorded

\* What the loop of PromotePending may make of the parts h.
Promoted(h, g) ==
    \A k \in Sessions : /\ SlotKept(h.slots[k], g.slots[k])
                       /\ Content(g, k) = Content(h, k)

\* What a pop may make of them: facts went, each session's oldest first.
Delivered(h, g) ==
    \A k \in Sessions :
        /\ SlotKept(h.slots[k], g.slots[k])
        /\ \E gone \in Seq(Kinds) : Content(h, k) = gone \o Content(g, k)

\* How far the recording has come is what the slot says, for a session that has
\* one; a key that was not given out has none.
RecordInv ==
    \A k \in Sessions :
        /\ slots[k].present =>
              /\ k \in issued
              /\ recorded[k] = (IF ~ slots[k].acceptedRecorded THEN "Unknown"
                                ELSE IF slots[k].closedRecorded THEN "Ended" ELSE "Open")
        /\ k \notin issued => recorded[k] = "Unknown"

\* The pump sleeps beside an empty queue only, and it leaves a closed handoff
\* whose queue is empty.
ConsumerInv ==
    /\ consumer \in {"Blocked", "Closed"} => events = <<>>
    /\ consumer = "Closed" => closed

\* The variables the lock does not protect have their types.
ThreadsOK ==
    /\ closed \in BOOLEAN
    /\ closer \in {"Idle", "Notify", "Done"}
    /\ consumer \in {"Running", "Wait", "Blocked", "Closed"}
    /\ memory \in {"ample", "scarce"}
    /\ issued \in SUBSET Sessions
    /\ recorded \in [Sessions -> {"Unknown", "Open", "Ended"}]

\* The inductive invariant.
HandoffInv ==
    /\ ThreadsOK
    /\ HandoffSound(Locked)
    /\ memory = "ample" => WaitsOnlyWhenFull(Locked)
    /\ RecordInv
    /\ ConsumerInv

-----------------------------------------------------------------------------
(***************************************************************************)
(* Induction over natural numbers, for a set instead of a predicate.       *)
(***************************************************************************)
\* A set of natural numbers has a least element.
LEMMA LeastNat ==
  ASSUME NEW T \in SUBSET Nat, T # {}
  PROVE  \E m \in T : \A n \in T : m <= n
<1> DEFINE R == {ss \in Nat \X Nat : ss[1] < ss[2]}
<1>1. IsWellFoundedOn(R, Nat)
  BY NatLessThanWellFounded DEF OpToRel
<1>2. PICK m \in T : \A n \in T : <<n, m>> \notin R
  <2> HIDE DEF R
  <2> QED BY <1>1, WFMin
<1>3. \A n \in T : ~ (n < m)
  BY <1>2
<1> QED
  BY <1>3

\* A set that holds 0, and each number's successor up to a limit, holds all.
LEMMA SetInduction ==
  ASSUME NEW limit \in Nat, NEW T, 0 \in T,
         \A n \in 1 .. limit : n - 1 \in T => n \in T
  PROVE  \A n \in 0 .. limit : n \in T
<1> SUFFICES ASSUME NEW n \in 0 .. limit, n \notin T
             PROVE  FALSE
  OBVIOUS
<1> DEFINE Bad == {m \in 0 .. limit : m \notin T}
<1>1. PICK m \in Bad : \A i \in Bad : m <= i
  <2>1. Bad \in SUBSET Nat /\ Bad # {}
    OBVIOUS
  <2> HIDE DEF Bad
  <2> QED BY <2>1, LeastNat
<1>2. m \in 1 .. limit /\ m - 1 \in 0 .. limit
  OBVIOUS
<1>3. m - 1 \notin Bad
  BY <1>1, <1>2
<1> QED
  BY <1>2, <1>3

\* A recursive definition over 0 .. limit has a solution.
LEMMA RecursionHasSolution ==
  ASSUME NEW S, NEW first \in S, NEW limit \in Nat, NEW step \in [1 .. limit -> [S -> S]]
  PROVE  \E f \in [0 .. limit -> S] :
            f[0] = first /\ \A n \in 1 .. limit : f[n] = step[n][f[n - 1]]
<1> DEFINE Solves(f, m) == f[0] = first /\ \A n \in 1 .. m : f[n] = step[n][f[n - 1]]
           T == {m \in 0 .. limit : \E f \in [0 .. m -> S] : Solves(f, m)}
<1>1. 0 \in T
  <2>1. [n \in 0 .. 0 |-> first] \in [0 .. 0 -> S] /\ Solves([n \in 0 .. 0 |-> first], 0)
    OBVIOUS
  <2>2. 0 \in 0 .. limit
    OBVIOUS
  <2> QED BY <2>1, <2>2
<1>2. ASSUME NEW m \in 1 .. limit, m - 1 \in T
      PROVE  m \in T
  <2>1. PICK f \in [0 .. m - 1 -> S] : Solves(f, m - 1)
    BY <1>2
  <2> DEFINE g == [n \in 0 .. m |-> IF n = m THEN step[m][f[m - 1]] ELSE f[n]]
  <2>2. f[m - 1] \in S /\ step[m][f[m - 1]] \in S
    <3>1. m - 1 \in 0 .. m - 1
      OBVIOUS
    <3> QED BY <3>1, <2>1
  <2>3. g \in [0 .. m -> S]
    BY <2>2
  <2>4. ASSUME NEW n \in 1 .. m
        PROVE  g[n] = step[n][g[n - 1]]
    <3>1. CASE n = m
      <4>1. n - 1 \in 0 .. m /\ n - 1 # m /\ m \in 0 .. m
        BY <3>1
      <4> QED BY <3>1, <4>1
    <3>2. CASE n # m
      <4>1. n \in 1 .. m - 1 /\ n \in 0 .. m /\ n - 1 \in 0 .. m /\ n - 1 # m
        BY <3>2
      <4>2. g[n] = f[n] /\ g[n - 1] = f[n - 1]
        BY <3>2, <4>1
      <4> QED BY <2>1, <4>1, <4>2
    <3> QED BY <3>1, <3>2
  <2>5. g[0] = first
    <3>1. 0 \in 0 .. m /\ 0 # m
      OBVIOUS
    <3> QED BY <2>1, <3>1
  <2> HIDE DEF g
  <2>6. Solves(g, m)
    BY <2>4, <2>5
  <2>7. \E u \in [0 .. m -> S] : Solves(u, m)
    BY <2>3, <2>6
  <2> HIDE DEF Solves
  <2> QED BY <2>7
<1>3. limit \in T
  <2> HIDE DEF T
  <2>1. \A n \in 0 .. limit : n \in T
    BY <1>1, <1>2, SetInduction
  <2> QED BY <2>1
<1> QED
  BY <1>3

-----------------------------------------------------------------------------
(***************************************************************************)
(* The facts of one session.                                               *)
(***************************************************************************)
\* The facts of session k among the first n events, as FactsOf counts them up.
UpTo(es, k) ==
    CHOOSE f : f = [n \in 0 .. Len(es) |->
        IF n = 0 THEN <<>>
        ELSE IF es[n].key = k THEN Append(f[n - 1], es[n].kind) ELSE f[n - 1]]

\* A recursive definition of sequences of facts has a solution.
LEMMA KindsRecursion ==
  ASSUME NEW limit \in Nat, NEW step \in [1 .. limit -> [Seq(Kinds) -> Seq(Kinds)]]
  PROVE  \E f \in [0 .. limit -> Seq(Kinds)] :
            f[0] = <<>> /\ \A n \in 1 .. limit : f[n] = step[n][f[n - 1]]
<1> DEFINE S == Seq(Kinds)
           first == <<>>
<1>1. first \in S /\ step \in [1 .. limit -> [S -> S]]
  OBVIOUS
<1> HIDE DEF S, first
<1>2. \E f \in [0 .. limit -> S] :
            f[0] = first /\ \A n \in 1 .. limit : f[n] = step[n][f[n - 1]]
  BY <1>1, RecursionHasSolution
<1> QED
  BY <1>2 DEF S, first

\* FactsOf is what its recursive definition says, for every queue.
LEMMA FactsForm ==
  ASSUME NEW es \in Seq(Fact), NEW k \in Sessions
  PROVE  /\ FactsOf(es, k) = UpTo(es, k)[Len(es)]
         /\ UpTo(es, k) \in [0 .. Len(es) -> Seq(Kinds)]
         /\ UpTo(es, k)[0] = <<>>
         /\ \A n \in 1 .. Len(es) :
               UpTo(es, k)[n] = IF es[n].key = k
                                THEN Append(UpTo(es, k)[n - 1], es[n].kind)
                                ELSE UpTo(es, k)[n - 1]
<1> DEFINE Body(f) == [n \in 0 .. Len(es) |->
               IF n = 0 THEN <<>>
               ELSE IF es[n].key = k THEN Append(f[n - 1], es[n].kind) ELSE f[n - 1]]
           u == UpTo(es, k)
           step == [n \in 1 .. Len(es) |-> [s \in Seq(Kinds) |->
               IF es[n].key = k THEN Append(s, es[n].kind) ELSE s]]
<1>1. Len(es) \in Nat /\ \A n \in 1 .. Len(es) : es[n].kind \in Kinds
  <2>1. \A n \in 1 .. Len(es) : es[n] \in Fact
    BY ElementOfSeq
  <2>2. \A e \in Fact : e.kind \in Kinds
    BY DEF Fact
  <2> HIDE DEF Body, u, step
  <2> QED BY <2>1, <2>2
<1>2. step \in [1 .. Len(es) -> [Seq(Kinds) -> Seq(Kinds)]]
  <2> HIDE DEF Body, u
  <2> QED BY <1>1
<1>3. PICK g \in [0 .. Len(es) -> Seq(Kinds)] :
          g[0] = <<>> /\ \A n \in 1 .. Len(es) : g[n] = step[n][g[n - 1]]
  <2> HIDE DEF Body, u, step
  <2> QED BY <1>1, <1>2, KindsRecursion, Zenon
<1>4. g = Body(g)
  <2>1. ASSUME NEW n \in 0 .. Len(es), n # 0
        PROVE  g[n] = IF es[n].key = k THEN Append(g[n - 1], es[n].kind) ELSE g[n - 1]
    <3>1. n \in 1 .. Len(es) /\ g[n - 1] \in Seq(Kinds)
      BY <1>1, <2>1
    <3>2. g[n] = step[n][g[n - 1]]
      BY <1>3, <3>1
    <3> QED BY <3>1, <3>2
  <2> HIDE DEF step, u
  <2> QED BY <1>3, <2>1
<1>5. u = Body(u)
  BY <1>4 DEF UpTo
<1>6. u[0] = <<>> /\ \A n \in 1 .. Len(es) :
          u[n] = IF es[n].key = k THEN Append(u[n - 1], es[n].kind) ELSE u[n - 1]
  <2> HIDE DEF u
  <2>1. u = [n \in 0 .. Len(es) |->
               IF n = 0 THEN <<>>
               ELSE IF es[n].key = k THEN Append(u[n - 1], es[n].kind) ELSE u[n - 1]]
    BY <1>5
  <2>2. \A n \in 0 .. Len(es) : u[n] =
               IF n = 0 THEN <<>>
               ELSE IF es[n].key = k THEN Append(u[n - 1], es[n].kind) ELSE u[n - 1]
    BY <2>1, Zenon
  <2> HIDE DEF Body, step
  <2> QED BY <1>1, <2>2
<1>7. \A n \in 0 .. Len(es) : n \in {m \in 0 .. Len(es) : u[m] \in Seq(Kinds)}
  <2> DEFINE T == {m \in 0 .. Len(es) : u[m] \in Seq(Kinds)}
  <2>1. 0 \in T
    <3> HIDE DEF u, Body, step
    <3>1. 0 \in 0 .. Len(es) /\ <<>> \in Seq(Kinds)
      BY <1>1
    <3> QED BY <1>6, <3>1
  <2>2. \A n \in 1 .. Len(es) : n - 1 \in T => n \in T
    <3> HIDE DEF u, Body, step
    <3> SUFFICES ASSUME NEW n \in 1 .. Len(es), u[n - 1] \in Seq(Kinds)
                 PROVE  u[n] \in Seq(Kinds)
      BY <1>1
    <3>1. es[n].kind \in Kinds
      BY <1>1
    <3>2. Append(u[n - 1], es[n].kind) \in Seq(Kinds)
      BY <3>1, AppendProperties
    <3> QED BY <3>2, <1>6
  <2> HIDE DEF T, u
  <2>3. \A n \in 0 .. Len(es) : n \in T
    BY <1>1, <2>1, <2>2, SetInduction
  <2> QED BY <2>3 DEF T
<1>8. u \in [0 .. Len(es) -> Seq(Kinds)]
  <2> HIDE DEF u
  <2> QED BY <1>5, <1>7
<1>9. FactsOf(es, k) = u[Len(es)]
  BY DEF FactsOf, UpTo
<1> HIDE DEF u
<1>10. u = UpTo(es, k)
  BY DEF u
<1> QED
  BY <1>6, <1>8, <1>9, <1>10

\* The facts of a session among the events are a sequence of facts.
LEMMA FactsType ==
  ASSUME NEW es \in Seq(Fact), NEW k \in Sessions
  PROVE  FactsOf(es, k) \in Seq(Kinds)
BY FactsForm

\* An empty queue holds no fact of any session.
LEMMA FactsEmpty ==
  ASSUME NEW k \in Sessions
  PROVE  FactsOf(<<>>, k) = <<>>
<1>1. <<>> \in Seq(Fact) /\ Len(<<>>) = 0
  OBVIOUS
<1> DEFINE es == <<>>
<1>2. es \in Seq(Fact) /\ Len(es) = 0
  BY <1>1
<1> HIDE DEF es
<1>3. FactsOf(es, k) = UpTo(es, k)[Len(es)] /\ UpTo(es, k)[0] = <<>>
  BY <1>2, FactsForm
<1> QED BY <1>2, <1>3 DEF es

\* A push adds its fact to those of its own session, and to no other's.
LEMMA FactsAppend ==
  ASSUME NEW es \in Seq(Fact), NEW e \in Fact, NEW k \in Sessions
  PROVE  FactsOf(Append(es, e), k) = IF e.key = k THEN Append(FactsOf(es, k), e.kind)
                                     ELSE FactsOf(es, k)
<1> DEFINE fs == Append(es, e)
           u == UpTo(es, k)
           v == UpTo(fs, k)
           T == {m \in 0 .. Len(es) : v[m] = u[m]}
<1>1. /\ Len(es) \in Nat /\ fs \in Seq(Fact) /\ Len(fs) = Len(es) + 1
      /\ \A i \in 1 .. Len(es) : fs[i] = es[i]
      /\ fs[Len(es) + 1] = e
  BY AppendProperties
<1> HIDE DEF fs
<1>2. /\ FactsOf(fs, k) = v[Len(fs)] /\ v[0] = <<>>
      /\ \A n \in 1 .. Len(fs) : v[n] = IF fs[n].key = k THEN Append(v[n - 1], fs[n].kind)
                                        ELSE v[n - 1]
  BY <1>1, FactsForm
<1>3. /\ FactsOf(es, k) = u[Len(es)] /\ u[0] = <<>>
      /\ \A n \in 1 .. Len(es) : u[n] = IF es[n].key = k THEN Append(u[n - 1], es[n].kind)
                                        ELSE u[n - 1]
  BY FactsForm
<1> HIDE DEF u, v
<1>4. 0 \in T
  BY <1>1, <1>2, <1>3
<1>5. ASSUME NEW n \in 1 .. Len(es), n - 1 \in T
      PROVE  n \in T
  <2>1. n \in 1 .. Len(fs) /\ fs[n] = es[n] /\ v[n - 1] = u[n - 1]
    BY <1>1, <1>5
  <2> QED BY <1>2, <1>3, <2>1
<1>6. v[Len(es)] = u[Len(es)]
  <2> HIDE DEF T
  <2>1. \A n \in 0 .. Len(es) : n \in T
    BY <1>1, <1>4, <1>5, SetInduction
  <2>2. Len(es) \in T
    BY <1>1, <2>1
  <2> QED BY <2>2 DEF T
<1>7. Len(es) + 1 \in 1 .. Len(fs) /\ (Len(es) + 1) - 1 = Len(es)
  BY <1>1
<1>8. FactsOf(fs, k) = IF e.key = k THEN Append(v[Len(es)], e.kind) ELSE v[Len(es)]
  BY <1>1, <1>2, <1>7
<1>9. QED
  BY <1>3, <1>6, <1>8 DEF fs

\* Appending to a concatenation appends to its second part.
LEMMA AppendOfConcat ==
  ASSUME NEW a \in Seq(Kinds), NEW b \in Seq(Kinds), NEW e \in Kinds
  PROVE  Append(a \o b, e) = a \o Append(b, e)
OBVIOUS

\* Every session but that of the oldest event keeps its facts when it goes, and
\* that one loses its oldest.
LEMMA FactsTail ==
  ASSUME NEW es \in Seq(Fact), es # <<>>, NEW k \in Sessions
  PROVE  FactsOf(es, k) = (IF Head(es).key = k THEN <<Head(es).kind>> ELSE <<>>)
                          \o FactsOf(Tail(es), k)
<1> DEFINE First(s) == IF Head(s).key = k THEN <<Head(s).kind>> ELSE <<>>
           Claim(s) == FactsOf(s, k) = First(s) \o FactsOf(Tail(s), k)
           T == {n \in 0 .. Len(es) : \A s \in Seq(Fact) :
                                          s # <<>> /\ Len(s) = n => Claim(s)}
<1>1. 0 \in T
  OBVIOUS
<1>2. ASSUME NEW n \in 1 .. Len(es), n - 1 \in T, NEW s \in Seq(Fact),
             s # <<>>, Len(s) = n
      PROVE  Claim(s)
  <2>1. PICK r \in Seq(Fact), e \in Fact : s = Append(r, e)
    BY <1>2, SequenceEmptyOrAppend
  <2>2. Len(r) \in Nat /\ Len(r) = n - 1
    BY <1>2, <2>1
  <2>3. e.kind \in Kinds /\ e.key \in Sessions
    BY DEF Fact
  <2>4. FactsOf(s, k) = IF e.key = k THEN Append(FactsOf(r, k), e.kind) ELSE FactsOf(r, k)
    BY <2>1, FactsAppend
  <2>5. CASE r = <<>>
    <3>1. Head(s) = e /\ Tail(s) = <<>>
      BY <2>1, <2>5, HeadTailAppend
    <3>2. FactsOf(r, k) = <<>> /\ FactsOf(Tail(s), k) = <<>>
      BY <2>5, <3>1, FactsEmpty
    <3>3. Append(<<>>, e.kind) = <<e.kind>> /\ <<e.kind>> \in Seq(Kinds)
          /\ <<>> \in Seq(Kinds)
      BY <2>3
    <3>4. <<e.kind>> \o <<>> = <<e.kind>> /\ <<>> \o <<>> = <<>>
      BY <3>3, ConcatEmptySeq
    <3> QED BY <2>4, <3>1, <3>2, <3>3, <3>4
  <2>6. CASE r # <<>>
    <3>1. Head(s) = Head(r) /\ Tail(s) = Append(Tail(r), e)
      BY <2>1, <2>6, HeadTailAppend
    <3>2. Head(r) \in Fact /\ Tail(r) \in Seq(Fact)
      BY <2>6, HeadTailProperties
    <3>3. Claim(r)
      BY <1>2, <2>2, <2>6
    <3>4. FactsOf(Tail(s), k) = IF e.key = k THEN Append(FactsOf(Tail(r), k), e.kind)
                                ELSE FactsOf(Tail(r), k)
      <4> HIDE DEF Claim, T, First
      <4>1. Tail(r) \in Seq(Fact)
        BY <3>2
      <4>2. FactsOf(Append(Tail(r), e), k) =
                IF e.key = k THEN Append(FactsOf(Tail(r), k), e.kind)
                ELSE FactsOf(Tail(r), k)
        BY <4>1, FactsAppend
      <4> QED BY <3>1, <4>2
    <3>5. First(r) \in Seq(Kinds) /\ First(r) = First(s)
      BY <3>1, <3>2 DEF Fact
    <3>6. FactsOf(Tail(r), k) \in Seq(Kinds) /\ FactsOf(r, k) \in Seq(Kinds)
      BY <3>2, FactsType
    <3> DEFINE a == First(r)
               b == FactsOf(Tail(r), k)
    <3>7. Append(a \o b, e.kind) = a \o Append(b, e.kind)
      <4>1. a \in Seq(Kinds) /\ b \in Seq(Kinds)
        BY <3>5, <3>6
      <4> HIDE DEF a, b, Claim, T, First
      <4> QED BY <2>3, <4>1, AppendOfConcat, Zenon
    <3>8. FactsOf(r, k) = a \o b
      BY <3>3
    <3>9. FactsOf(s, k) = a \o FactsOf(Tail(s), k)
      <4> HIDE DEF a, b
      <4> QED BY <2>4, <3>4, <3>7, <3>8 DEF b
    <3> QED BY <3>5, <3>9
  <2> QED BY <2>5, <2>6
<1>3. \A n \in 0 .. Len(es) : n \in T
  <2>1. \A n \in 1 .. Len(es) : n - 1 \in T => n \in T
    <3> HIDE DEF Claim
    <3> SUFFICES ASSUME NEW n \in 1 .. Len(es), n - 1 \in T PROVE n \in T
      OBVIOUS
    <3>1. n \in 0 .. Len(es)
      OBVIOUS
    <3> QED BY <1>2, <3>1
  <2>2. Len(es) \in Nat
    OBVIOUS
  <2> HIDE DEF T
  <2> QED BY <1>1, <2>1, <2>2, SetInduction
<1>4. Len(es) \in T
  BY <1>3
<1> HIDE DEF Claim
<1>5. Claim(es)
  BY <1>4
<1> QED
  BY <1>5 DEF Claim

-----------------------------------------------------------------------------
(***************************************************************************)
(* Slots, rings and the parts under the lock.                              *)
(***************************************************************************)
\* The slot of a session whose next fact has been published.
Republished(s) ==
    LET c == CommitNextPending(s)
    IN IF NextPendingKind(c) # "None" THEN c
       ELSE IF c.closedCommitted THEN NoSlot ELSE [c EXCEPT !.pendingRegistered = FALSE]

\* An erased slot is a sound one, with nothing deferred.
LEMMA NoSlotSound == NoSlot \in Slot /\ SlotSound(NoSlot) /\ Deferred(NoSlot) = <<>>
BY DEF NoSlot, Slot, SlotSound, NextPendingKind, Deferred

\* What a slot defers is a sequence of facts.
LEMMA DeferredType ==
  ASSUME NEW s \in Slot
  PROVE  Deferred(s) \in Seq(Kinds)
<1>1. "Accepted" \in Kinds /\ "Closed" \in Kinds
  BY DEF Kinds
<1>2. /\ <<>> \in Seq(Kinds) /\ <<"Accepted">> \in Seq(Kinds) /\ <<"Closed">> \in Seq(Kinds)
      /\ <<"Accepted", "Closed">> \in Seq(Kinds)
  BY <1>1
<1>3. Deferred(s) \in {<<>>, <<"Accepted">>, <<"Closed">>, <<"Accepted", "Closed">>}
  BY DEF Deferred
<1> QED
  BY <1>2, <1>3

\* Publishing takes the first of a slot's deferred facts and leaves it sound.
LEMMA RepublishedSound ==
  ASSUME NEW s \in Slot, SlotSound(s), s.pendingRegistered
  PROVE  /\ s.present
         /\ NextPendingKind(s) \in Kinds
         /\ Republished(s) \in Slot
         /\ SlotSound(Republished(s))
         /\ SlotKept(s, Republished(s))
         /\ Deferred(s) = <<NextPendingKind(s)>> \o Deferred(Republished(s))
<1>1. CASE NextPendingKind(s) = "Accepted" /\ s.closedRecorded
  <2>1. /\ Republished(s) = [s EXCEPT !.acceptedCommitted = TRUE]
        /\ Republished(s) \in Slot /\ SlotSound(Republished(s)) /\ s.present
        /\ SlotKept(s, Republished(s))
    BY <1>1 DEF Republished, CommitNextPending, NextPendingKind, Slot, SlotSound,
               SlotKept
  <2>2. Deferred(s) = <<"Accepted", "Closed">> /\ Deferred(Republished(s)) = <<"Closed">>
    BY <1>1, <2>1 DEF Deferred, NextPendingKind, Slot, SlotSound
  <2>3. <<"Accepted", "Closed">> = <<"Accepted">> \o <<"Closed">>
    OBVIOUS
  <2>4. "Accepted" \in Kinds
    BY DEF Kinds
  <2> QED BY <1>1, <2>1, <2>2, <2>3, <2>4
<1>2. CASE NextPendingKind(s) = "Accepted" /\ ~ s.closedRecorded
  <2>1. /\ Republished(s) = [s EXCEPT !.acceptedCommitted = TRUE,
                                      !.pendingRegistered = FALSE]
        /\ Republished(s) \in Slot /\ SlotSound(Republished(s)) /\ s.present
        /\ SlotKept(s, Republished(s))
    BY <1>2 DEF Republished, CommitNextPending, NextPendingKind, Slot, SlotSound,
               SlotKept
  <2>2. Deferred(s) = <<"Accepted">> /\ Deferred(Republished(s)) = <<>>
    BY <1>2, <2>1 DEF Deferred, NextPendingKind, Slot, SlotSound
  <2> QED BY <1>2, <2>1, <2>2 DEF Kinds
<1>3. CASE NextPendingKind(s) = "Closed"
  <2>1. Republished(s) = NoSlot /\ s.present
    BY <1>3 DEF Republished, CommitNextPending, NextPendingKind, Slot, SlotSound
  <2>2. Deferred(s) = <<"Closed">>
    BY <1>3 DEF Deferred, NextPendingKind, Slot, SlotSound
  <2>3. SlotKept(s, NoSlot)
    BY DEF SlotKept, NoSlot
  <2> QED BY <1>3, <2>1, <2>2, <2>3, NoSlotSound DEF Kinds
<1> QED
  BY <1>1, <1>2, <1>3 DEF SlotSound, NextPendingKind

\* A ring with its oldest entry gone.
LEMMA RingTail ==
  ASSUME NEW p \in Seq(Sessions), p # <<>>, Distinct(p)
  PROVE  /\ Head(p) \in InRing(p) /\ Head(p) \in Sessions
         /\ Tail(p) \in Seq(Sessions) /\ Len(Tail(p)) = Len(p) - 1
         /\ Len(p) \in Nat \ {0}
         /\ Distinct(Tail(p))
         /\ InRing(Tail(p)) = InRing(p) \ {Head(p)}
<1>1. /\ Len(p) \in Nat \ {0} /\ Head(p) = p[1] /\ Head(p) \in Sessions
      /\ Tail(p) \in Seq(Sessions) /\ Len(Tail(p)) = Len(p) - 1
      /\ \A i \in 1 .. Len(Tail(p)) : Tail(p)[i] = p[i + 1]
  BY HeadTailProperties, EmptySeq
<1>2. Head(p) \in InRing(p)
  BY <1>1 DEF InRing
<1>3. Distinct(Tail(p))
  BY <1>1 DEF Distinct
<1>4. InRing(Tail(p)) = InRing(p) \ {Head(p)}
  <2>1. ASSUME NEW i \in 1 .. Len(Tail(p))
        PROVE  Tail(p)[i] \in InRing(p) \ {Head(p)}
    <3>1. i + 1 \in 1 .. Len(p) /\ 1 \in 1 .. Len(p) /\ i + 1 # 1
      BY <1>1
    <3> QED BY <1>1, <3>1 DEF InRing, Distinct
  <2>2. ASSUME NEW i \in 1 .. Len(p), p[i] # Head(p)
        PROVE  p[i] \in InRing(Tail(p))
    <3>1. i - 1 \in 1 .. Len(Tail(p)) /\ (i - 1) + 1 = i
      BY <1>1, <2>2
    <3> QED BY <1>1, <3>1 DEF InRing
  <2> QED BY <2>1, <2>2 DEF InRing
<1> QED
  BY <1>1, <1>2, <1>3, <1>4

\* A ring with a new entry.
LEMMA RingJoin ==
  ASSUME NEW p \in Seq(Sessions), Distinct(p), NEW k \in Sessions, k \notin InRing(p)
  PROVE  /\ Append(p, k) \in Seq(Sessions) /\ Len(Append(p, k)) = Len(p) + 1
         /\ Append(p, k) # <<>>
         /\ Distinct(Append(p, k))
         /\ InRing(Append(p, k)) = InRing(p) \cup {k}
<1> DEFINE q == Append(p, k)
<1>1. /\ Len(p) \in Nat /\ q \in Seq(Sessions) /\ Len(q) = Len(p) + 1 /\ q # <<>>
      /\ \A i \in 1 .. Len(p) : q[i] = p[i]
      /\ q[Len(p) + 1] = k
  BY AppendProperties
<1> HIDE DEF q
<1>2. \A i \in 1 .. Len(q) : i \in 1 .. Len(p) \/ i = Len(p) + 1
  BY <1>1
<1>3. 1 .. Len(p) \subseteq 1 .. Len(q) /\ Len(p) + 1 \in 1 .. Len(q)
  BY <1>1
<1>4. Distinct(q)
  BY <1>1, <1>2 DEF Distinct, InRing
<1>5. InRing(q) = InRing(p) \cup {k}
  BY <1>1, <1>2, <1>3 DEF InRing
<1> QED
  BY <1>1, <1>4, <1>5 DEF q

\* The oldest entry moved to the end.
LEMMA RingTurn ==
  ASSUME NEW p \in Seq(Sessions), p # <<>>, Distinct(p)
  PROVE  /\ Append(Tail(p), Head(p)) \in Seq(Sessions)
         /\ Append(Tail(p), Head(p)) # <<>>
         /\ Distinct(Append(Tail(p), Head(p)))
         /\ InRing(Append(Tail(p), Head(p))) = InRing(p)
<1>1. /\ Tail(p) \in Seq(Sessions) /\ Distinct(Tail(p)) /\ Head(p) \in Sessions
      /\ Head(p) \in InRing(p) /\ InRing(Tail(p)) = InRing(p) \ {Head(p)}
  BY RingTail
<1>2. Head(p) \notin InRing(Tail(p))
  BY <1>1
<1>3. InRing(Append(Tail(p), Head(p))) = InRing(Tail(p)) \cup {Head(p)}
  BY <1>1, <1>2, RingJoin
<1>4. InRing(Append(Tail(p), Head(p))) = InRing(p)
  BY <1>1, <1>3
<1> QED
  BY <1>1, <1>2, <1>4, RingJoin

\* A ring has as many entries as sessions.
LEMMA RingSize ==
  ASSUME NEW p \in Seq(Sessions), Distinct(p)
  PROVE  Cardinality(InRing(p)) = Len(p)
<1> DEFINE f == [i \in 1 .. Len(p) |-> p[i]]
<1>1. Len(p) \in Nat
  OBVIOUS
<1>2. f \in Bijection(1 .. Len(p), InRing(p))
  BY Fun_IsBij DEF InRing, Distinct
<1>3. ExistsBijection(1 .. Len(p), InRing(p))
  BY <1>2 DEF ExistsBijection
<1> QED
  BY <1>1, <1>3, FS_CountingElements

\* A slot in use has a place in the ring.
LEMMA RoomInRing ==
  ASSUME NEW h, HandoffSound(h)
  PROVE  /\ Len(h.pending) \in 0 .. MaxSessionCount
         /\ \A k \in Present(h) : k \notin Registered(h) => Len(h.pending) < MaxSessionCount
<1>1. h.pending \in Seq(Sessions) /\ Len(h.pending) \in Nat
      /\ h.slots \in [Sessions -> Slot]
  BY DEF HandoffSound, Parts
<1>2. Cardinality(Registered(h)) = Len(h.pending)
  BY <1>1, RingSize DEF HandoffSound
<1>3. Registered(h) \subseteq Present(h)
  BY <1>1, RepublishedSound DEF HandoffSound, Registered, Present
<1>4. IsFiniteSet(Present(h)) /\ Cardinality(Present(h)) \in Nat
  BY ToWorldHandoffAssumption, FS_Subset, FS_CardinalityType DEF Present
<1>5. Cardinality(Registered(h)) <= Cardinality(Present(h))
  BY <1>3, <1>4, FS_Subset
<1>6. MaxSessionCount \in Nat /\ Cardinality(Present(h)) <= MaxSessionCount
  BY ToWorldHandoffAssumption DEF HandoffSound
<1>7. ASSUME NEW k \in Present(h), k \notin Registered(h)
      PROVE  Cardinality(Registered(h)) < Cardinality(Present(h))
  <2>1. Registered(h) # Present(h)
    BY <1>7
  <2>2. Cardinality(Registered(h)) \in Nat
    BY <1>1, <1>2
  <2> QED BY <1>3, <1>4, <1>5, <2>1, <2>2, FS_Subset
<1> QED
  BY <1>1, <1>2, <1>4, <1>5, <1>6, <1>7

-----------------------------------------------------------------------------
(***************************************************************************)
(* Publishing and promoting.                                               *)
(***************************************************************************)
\* The parts when the oldest entry of the ring could not be published.
PutBack(h) == [slots |-> h.slots, pending |-> Append(Tail(h.pending), Head(h.pending)),
               events |-> h.events]

\* The slots and the queue when the next fact of session k has been published.
SlotsPublished(h, k) == [h.slots EXCEPT ![k] = Republished(@)]

EventsPublished(h, k) ==
    Append(h.events, [kind |-> NextPendingKind(h.slots[k]), key |-> k])

\* The parts when the oldest entry of the ring has been published.
PublishHead(h) ==
    LET k == Head(h.pending)
    IN [slots |-> SlotsPublished(h, k),
        pending |-> IF Republished(h.slots[k]).pendingRegistered
                    THEN Append(Tail(h.pending), k) ELSE Tail(h.pending),
        events |-> EventsPublished(h, k)]

\* A session that is not in the ring joins it, where there is room.
LEMMA Registering ==
  ASSUME NEW h, NEW k, ~ h.slots[k].pendingRegistered,
         Len(h.pending) \in Nat, Len(h.pending) < MaxSessionCount
  PROVE  RegisterPending(h, k) = [h EXCEPT !.pending = Append(@, k),
                                           !.slots[k].pendingRegistered = TRUE]
<1>1. ~ (Len(h.pending) >= MaxSessionCount)
  BY ToWorldHandoffAssumption
<1> QED
  BY <1>1 DEF RegisterPending

\* What one turn of PromotePending makes of the parts: the session leaves the
\* ring, and its next fact is published or it joins the ring again.
LEMMA TurnOutcome ==
  ASSUME NEW h, HandoffSound(h), h.pending # <<>>, NEW failing
  PROVE  PromoteTurn(h, failing) =
            IF Head(h.pending) \in failing \/ Len(h.events) = EventQueueCapacity
            THEN [parts |-> PutBack(h), go |-> Head(h.pending) \in failing]
            ELSE [parts |-> PublishHead(h), go |-> TRUE]
<1> DEFINE k == Head(h.pending)
           rest == Tail(h.pending)
           s == h.slots[k]
           s0 == [s EXCEPT !.pendingRegistered = FALSE]
           kind == NextPendingKind(s)
           es == Append(h.events, [kind |-> kind, key |-> k])
           taken == [h EXCEPT !.pending = Tail(@), !.slots[k].pendingRegistered = FALSE]
           done == PromoteOne(taken, k)
           result == PromoteResult(taken, k, failing)
<1>1. /\ h = [slots |-> h.slots, pending |-> h.pending, events |-> h.events]
      /\ h.slots \in [Sessions -> Slot] /\ h.pending \in Seq(Sessions)
  BY DEF HandoffSound, Parts
<1>2. k \in Sessions /\ k \in InRing(h.pending) /\ rest \in Seq(Sessions)
      /\ Len(rest) = Len(h.pending) - 1
  BY <1>1, RingTail DEF HandoffSound
<1>3. Len(rest) < MaxSessionCount
  <2>1. Len(h.pending) \in 0 .. MaxSessionCount /\ MaxSessionCount \in Nat
    BY RoomInRing, ToWorldHandoffAssumption
  <2> QED BY <1>2, <2>1
<1>4. s \in Slot /\ SlotSound(s) /\ s.pendingRegistered
  BY <1>1, <1>2 DEF HandoffSound, Registered
<1>5. s.present /\ kind \in Kinds
  BY <1>4, RepublishedSound
<1> HIDE DEF k, rest
<1>6. taken = [slots |-> [h.slots EXCEPT ![k] = s0], pending |-> rest, events |-> h.events]
  <2>1. taken = [h EXCEPT !.pending = rest, !.slots = [h.slots EXCEPT ![k] = s0]]
    BY <1>1, <1>2 DEF rest
  <2> HIDE DEF taken, s0
  <2> QED BY <1>1, <2>1
<1>7. /\ s0 \in Slot /\ ~ s0.pendingRegistered /\ NextPendingKind(s0) = kind
      /\ [s0 EXCEPT !.pendingRegistered = TRUE] = s
      /\ CommitNextPending(s0) = [CommitNextPending(s) EXCEPT !.pendingRegistered = FALSE]
      /\ CommitNextPending(s).pendingRegistered
      /\ CommitNextPending(s) \in Slot
  BY <1>4 DEF NextPendingKind, CommitNextPending, Slot
<1> HIDE DEF taken, s0
<1>8. taken.slots[k] = s0 /\ taken.events = h.events /\ taken.pending = rest
  BY <1>1, <1>2, <1>6
<1>9. RegisterPending(taken, k) = PutBack(h)
  <2>1. RegisterPending(taken, k) = [taken EXCEPT !.pending = Append(@, k),
                                                  !.slots[k].pendingRegistered = TRUE]
    <3>1. Len(taken.pending) \in Nat /\ Len(taken.pending) < MaxSessionCount
      BY <1>2, <1>3, <1>8
    <3>2. ~ taken.slots[k].pendingRegistered
      BY <1>7, <1>8
    <3> QED BY <3>1, <3>2, Registering
  <2>2. [[h.slots EXCEPT ![k] = s0] EXCEPT ![k].pendingRegistered = TRUE] = h.slots
    <3>1. [[h.slots EXCEPT ![k] = s0] EXCEPT ![k].pendingRegistered = TRUE] =
             [h.slots EXCEPT ![k] = [s0 EXCEPT !.pendingRegistered = TRUE]]
      BY <1>1, <1>2
    <3> QED BY <1>1, <1>2, <1>7, <3>1
  <2>3. RegisterPending(taken, k) =
           [slots |-> [[h.slots EXCEPT ![k] = s0] EXCEPT ![k].pendingRegistered = TRUE],
            pending |-> Append(rest, k), events |-> h.events]
    BY <1>6, <2>1
  <2> QED BY <2>2, <2>3 DEF PutBack, k, rest
<1>10. result = (IF k \in failing THEN "OutOfMemory"
                 ELSE IF Len(h.events) = EventQueueCapacity THEN "QueueFull" ELSE "Success")
  BY <1>8 DEF PromoteResult
<1>11. done = [slots |-> [h.slots EXCEPT ![k] = CommitNextPending(s0)],
               pending |-> rest, events |-> es]
  <2>1. [[h.slots EXCEPT ![k] = s0] EXCEPT ![k] = CommitNextPending(s0)] =
            [h.slots EXCEPT ![k] = CommitNextPending(s0)]
    BY <1>1, <1>2
  <2>2. Push(taken, NextPendingKind(taken.slots[k]), k) =
            [slots |-> [h.slots EXCEPT ![k] = s0], pending |-> rest, events |-> es]
    <3>1. NextPendingKind(taken.slots[k]) = kind
      BY <1>7, <1>8
    <3>2. Push(taken, NextPendingKind(taken.slots[k]), k) = [taken EXCEPT !.events = es]
      BY <1>8, <3>1 DEF Push
    <3> HIDE DEF kind, s, es
    <3> QED BY <1>6, <3>2
  <2>3. CommitNextPending(taken.slots[k]) = CommitNextPending(s0)
    BY <1>8
  <2> HIDE DEF es, s, kind
  <2>4. done = [[slots |-> [h.slots EXCEPT ![k] = s0], pending |-> rest, events |-> es]
                  EXCEPT !.slots[k] = CommitNextPending(s0)]
    BY <2>2, <2>3 DEF PromoteOne
  <2> QED BY <2>1, <2>4
<1> HIDE DEF done, result
<1>12. done.slots[k] = CommitNextPending(s0)
  BY <1>1, <1>2, <1>11
<1>13. /\ NextPendingKind(done.slots[k]) = NextPendingKind(CommitNextPending(s))
       /\ (done.slots[k].closedCommitted <=> CommitNextPending(s).closedCommitted)
       /\ NextPendingKind(CommitNextPending(s)) # "None"
             => ~ CommitNextPending(s).closedCommitted
  <2>1. NextPendingKind(CommitNextPending(s)) # "None"
             => ~ CommitNextPending(s).closedCommitted
    BY <1>4 DEF NextPendingKind, CommitNextPending, Slot, SlotSound
  <2> QED BY <1>7, <1>12, <2>1 DEF NextPendingKind, Slot
<1> DEFINE after == CASE NextPendingKind(done.slots[k]) # "None" -> RegisterPending(done, k)
                      [] done.slots[k].closedCommitted -> Erase(done, k)
                      [] OTHER -> done
<1>14. after = PublishHead(h)
  <2>1. PublishHead(h) = [slots |-> [h.slots EXCEPT ![k] = Republished(s)],
                          pending |-> IF Republished(s).pendingRegistered
                                      THEN Append(rest, k) ELSE rest,
                          events |-> es]
    BY <1>1, <1>2 DEF PublishHead, SlotsPublished, EventsPublished, k, rest
  <2>2. CASE NextPendingKind(CommitNextPending(s)) # "None"
    <3>1. after = RegisterPending(done, k)
      <4> HIDE DEF s, es, kind
      <4> QED BY <1>13, <2>2
    <3>2. Republished(s) = CommitNextPending(s)
      BY <2>2 DEF Republished
    <3>3. /\ ~ done.slots[k].pendingRegistered
          /\ Len(done.pending) \in Nat /\ Len(done.pending) < MaxSessionCount
      <4> HIDE DEF s, es, kind
      <4>1. done.pending = rest
        BY <1>11
      <4>2. CommitNextPending(s0).pendingRegistered = FALSE
        BY <1>7 DEF Slot
      <4> QED BY <1>2, <1>3, <1>12, <4>1, <4>2
    <3>4. RegisterPending(done, k) = [done EXCEPT !.pending = Append(@, k),
                                                  !.slots[k].pendingRegistered = TRUE]
      BY <3>3, Registering
    <3>5. [CommitNextPending(s0) EXCEPT !.pendingRegistered = TRUE] = CommitNextPending(s)
      BY <1>7 DEF Slot
    <3>6. [[h.slots EXCEPT ![k] = CommitNextPending(s0)] EXCEPT ![k].pendingRegistered = TRUE]
             = [h.slots EXCEPT ![k] = CommitNextPending(s)]
      <4> DEFINE c == CommitNextPending(s0)
      <4>1. [[h.slots EXCEPT ![k] = c] EXCEPT ![k].pendingRegistered = TRUE]
             = [h.slots EXCEPT ![k] = [c EXCEPT !.pendingRegistered = TRUE]]
        <5> HIDE DEF c
        <5> QED BY <1>1, <1>2
      <4> HIDE DEF s, es, kind
      <4> QED BY <3>5, <4>1
    <3>7. RegisterPending(done, k) =
             [slots |-> [[h.slots EXCEPT ![k] = CommitNextPending(s0)]
                            EXCEPT ![k].pendingRegistered = TRUE],
              pending |-> Append(rest, k), events |-> es]
      <4> HIDE DEF s, es, kind
      <4> QED BY <1>11, <3>4
    <3> HIDE DEF s, es, kind, after
    <3> QED BY <1>7, <2>1, <3>1, <3>2, <3>6, <3>7
  <2>3. CASE NextPendingKind(CommitNextPending(s)) = "None" /\ CommitNextPending(s).closedCommitted
    <3>1. after = Erase(done, k)
      <4> HIDE DEF s, es, kind
      <4> QED BY <1>13, <2>3
    <3>2. Republished(s) = NoSlot /\ ~ NoSlot.pendingRegistered
      BY <2>3 DEF Republished, NoSlot
    <3>3. [[h.slots EXCEPT ![k] = CommitNextPending(s0)] EXCEPT ![k] = NoSlot]
             = [h.slots EXCEPT ![k] = NoSlot]
      BY <1>1, <1>2
    <3>4. Erase(done, k) = [slots |-> [[h.slots EXCEPT ![k] = CommitNextPending(s0)]
                                          EXCEPT ![k] = NoSlot],
                            pending |-> rest, events |-> es]
      <4> HIDE DEF s, es, kind
      <4> QED BY <1>11 DEF Erase
    <3> HIDE DEF s, es, kind, after
    <3> QED BY <2>1, <3>1, <3>2, <3>3, <3>4
  <2>4. CASE NextPendingKind(CommitNextPending(s)) = "None" /\ ~ CommitNextPending(s).closedCommitted
    <3>1. after = done
      <4> HIDE DEF s, es, kind
      <4> QED BY <1>13, <2>4
    <3>2. Republished(s) = CommitNextPending(s0)
      BY <1>7, <2>4 DEF Republished
    <3>3. ~ Republished(s).pendingRegistered
      BY <1>7, <3>2 DEF Slot
    <3> HIDE DEF s, es, kind, after
    <3> QED BY <1>11, <2>1, <3>1, <3>2, <3>3
  <2> QED BY <2>2, <2>3, <2>4
<1>15. PromoteTurn(h, failing) =
          IF result # "Success"
          THEN [parts |-> RegisterPending(taken, k), go |-> result # "QueueFull"]
          ELSE [parts |-> after, go |-> TRUE]
  <2>1. h.slots[k].present
    BY <1>5
  <2> HIDE DEF after, s, kind, es
  <2> QED BY <2>1 DEF PromoteTurn, k, taken, result, done, after
<1> HIDE DEF after
<1>16. QED
  BY <1>9, <1>10, <1>14, <1>15 DEF k

\* A fact that moves from the head of one sequence to the end of another leaves
\* their concatenation as it was.
LEMMA AppendMoves ==
  ASSUME NEW a \in Seq(Kinds), NEW b \in Seq(Kinds), NEW e \in Kinds
  PROVE  Append(a, e) \o b = a \o (<<e>> \o b)
OBVIOUS

\* Publishing a fact moves it from the slot to the end of the queue.
LEMMA ContentPublished ==
  ASSUME NEW es \in Seq(Fact), NEW k \in Sessions, NEW fact \in Kinds,
         NEW rest \in Seq(Kinds)
  PROVE  /\ Append(es, [kind |-> fact, key |-> k]) \in Seq(Fact)
         /\ FactsOf(Append(es, [kind |-> fact, key |-> k]), k) \o rest
               = FactsOf(es, k) \o (<<fact>> \o rest)
         /\ \A j \in Sessions \ {k} :
               FactsOf(Append(es, [kind |-> fact, key |-> k]), j) = FactsOf(es, j)
<1> DEFINE e == [kind |-> fact, key |-> k]
<1>1. e \in Fact /\ e.kind = fact /\ e.key = k
  BY DEF Fact
<1> HIDE DEF e
<1>2. Append(es, e) \in Seq(Fact)
  BY <1>1, AppendProperties
<1>3. FactsOf(Append(es, e), k) = Append(FactsOf(es, k), fact)
  BY <1>1, FactsAppend
<1>4. \A j \in Sessions \ {k} : FactsOf(Append(es, e), j) = FactsOf(es, j)
  BY <1>1, FactsAppend
<1>5. Append(FactsOf(es, k), fact) \o rest = FactsOf(es, k) \o (<<fact>> \o rest)
  BY FactsType, AppendMoves, Zenon
<1> QED
  BY <1>2, <1>3, <1>4, <1>5 DEF e

\* A turn of the loop loses and reorders nothing, and with memory it fills the
\* last place of the queue.
LEMMA TurnKeeps ==
  ASSUME NEW h, HandoffSound(h), h.pending # <<>>, NEW failing
  PROVE  /\ HandoffSound(PromoteTurn(h, failing).parts)
         /\ PromoteTurn(h, failing).parts \in Parts
         /\ PromoteTurn(h, failing) = [parts |-> PromoteTurn(h, failing).parts,
                                       go |-> PromoteTurn(h, failing).go]
         /\ PromoteTurn(h, failing).go \in BOOLEAN
         /\ Promoted(h, PromoteTurn(h, failing).parts)
         /\ failing = {} /\ Len(h.events) >= EventQueueCapacity - 1 =>
               Len(PromoteTurn(h, failing).parts.events) = EventQueueCapacity
<1> DEFINE k == Head(h.pending)
           t == PromoteTurn(h, failing)
           s == h.slots[k]
           r == Republished(s)
<1>1. /\ h.slots \in [Sessions -> Slot] /\ h.pending \in Seq(Sessions)
      /\ h.events \in Seq(Fact) /\ Len(h.events) \in Nat
      /\ EventQueueCapacity \in Nat /\ Len(h.events) <= EventQueueCapacity
      /\ Distinct(h.pending) /\ InRing(h.pending) = Registered(h)
      /\ Cardinality(Present(h)) <= MaxSessionCount
      /\ \A j \in Sessions : SlotSound(h.slots[j])
  BY ToWorldHandoffAssumption DEF HandoffSound, Parts
<1>2. k \in Sessions /\ k \in Registered(h)
  BY <1>1, RingTail
<1>3. CASE k \in failing \/ Len(h.events) = EventQueueCapacity
  <2>1. t = [parts |-> PutBack(h), go |-> k \in failing]
    BY <1>3, TurnOutcome
  <2>2. /\ PutBack(h).slots = h.slots /\ PutBack(h).events = h.events
        /\ PutBack(h).pending = Append(Tail(h.pending), Head(h.pending))
    BY DEF PutBack
  <2>3. /\ PutBack(h).pending \in Seq(Sessions) /\ Distinct(PutBack(h).pending)
        /\ InRing(PutBack(h).pending) = InRing(h.pending)
    BY <1>1, <2>2, RingTurn
  <2>4. PutBack(h) \in Parts
    BY <1>1, <2>2, <2>3 DEF Parts, PutBack
  <2>5. Present(PutBack(h)) = Present(h) /\ Registered(PutBack(h)) = Registered(h)
    BY <2>2 DEF Present, Registered
  <2>6. HandoffSound(PutBack(h))
    BY <1>1, <2>2, <2>3, <2>4, <2>5 DEF HandoffSound
  <2>7. Promoted(h, PutBack(h))
    BY <2>2 DEF Promoted, SlotKept, Content
  <2>8. t.parts = PutBack(h) /\ t.go = (k \in failing) /\ t.go \in BOOLEAN
    BY <2>1
  <2>9. failing = {} => Len(PutBack(h).events) = EventQueueCapacity
    BY <1>3, <2>2
  <2> HIDE DEF t, k
  <2>10. t = [parts |-> t.parts, go |-> t.go]
    BY <2>1, <2>8
  <2> QED BY <2>4, <2>6, <2>7, <2>8, <2>9, <2>10 DEF t
<1>4. CASE ~ (k \in failing \/ Len(h.events) = EventQueueCapacity)
  <2>1. t = [parts |-> PublishHead(h), go |-> TRUE]
    BY <1>4, TurnOutcome
  <2>2. /\ PublishHead(h).slots = [h.slots EXCEPT ![k] = r]
        /\ PublishHead(h).events = Append(h.events, [kind |-> NextPendingKind(s), key |-> k])
        /\ PublishHead(h).pending = IF r.pendingRegistered THEN Append(Tail(h.pending), k)
                                    ELSE Tail(h.pending)
        /\ PublishHead(h) = [slots |-> PublishHead(h).slots,
              pending |-> PublishHead(h).pending, events |-> PublishHead(h).events]
    BY DEF PublishHead, SlotsPublished, EventsPublished
  <2>3. s \in Slot /\ SlotSound(s) /\ s.pendingRegistered
    BY <1>1, <1>2 DEF Registered
  <2>4. /\ s.present /\ NextPendingKind(s) \in Kinds
        /\ r \in Slot /\ SlotSound(r) /\ SlotKept(s, r)
        /\ Deferred(s) = <<NextPendingKind(s)>> \o Deferred(r)
    BY <2>3, RepublishedSound
  <2> DEFINE g == PublishHead(h)
  <2> HIDE DEF g, r
  <2>5. g.slots \in [Sessions -> Slot] /\ g.slots[k] = r
        /\ \A j \in Sessions : j # k => g.slots[j] = h.slots[j]
    <3> HIDE DEF k, s
    <3> QED BY <1>1, <1>2, <2>2, <2>4 DEF g
  <2>6. /\ g.events \in Seq(Fact)
        /\ \A j \in Sessions : FactsOf(g.events, j) \o Deferred(g.slots[j])
                                  = FactsOf(h.events, j) \o Deferred(h.slots[j])
    <3>1. Deferred(r) \in Seq(Kinds)
      BY <2>4, DeferredType
    <3> HIDE DEF k, s
    <3>2. g.events = Append(h.events, [kind |-> NextPendingKind(s), key |-> k])
      BY <2>2 DEF g
    <3>3. /\ g.events \in Seq(Fact)
          /\ FactsOf(g.events, k) \o Deferred(r)
                = FactsOf(h.events, k) \o (<<NextPendingKind(s)>> \o Deferred(r))
          /\ \A j \in Sessions \ {k} : FactsOf(g.events, j) = FactsOf(h.events, j)
      <4>1. h.events \in Seq(Fact) /\ k \in Sessions
            /\ NextPendingKind(s) \in Kinds /\ Deferred(r) \in Seq(Kinds)
        BY <1>1, <1>2, <2>4, <3>1
      <4> DEFINE es == h.events
                 fact == NextPendingKind(s)
                 rest == Deferred(r)
      <4>2. es \in Seq(Fact) /\ fact \in Kinds /\ rest \in Seq(Kinds)
        BY <4>1
      <4> HIDE DEF es, fact, rest
      <4>3. /\ Append(es, [kind |-> fact, key |-> k]) \in Seq(Fact)
            /\ FactsOf(Append(es, [kind |-> fact, key |-> k]), k) \o rest
                  = FactsOf(es, k) \o (<<fact>> \o rest)
            /\ \A j \in Sessions \ {k} :
                  FactsOf(Append(es, [kind |-> fact, key |-> k]), j) = FactsOf(es, j)
        BY <4>1, <4>2, ContentPublished, Zenon
      <4> QED BY <3>2, <4>3 DEF es, fact, rest
    <3>4. Deferred(h.slots[k]) = <<NextPendingKind(s)>> \o Deferred(r)
      BY <2>4 DEF s
    <3> QED BY <2>5, <3>3, <3>4
  <2>7. Len(g.events) = Len(h.events) + 1 /\ Len(g.events) <= EventQueueCapacity
    <3>1. [kind |-> NextPendingKind(s), key |-> k] \in Fact
      BY <1>2, <2>4 DEF Fact
    <3>2. Len(g.events) = Len(h.events) + 1
      BY <1>1, <2>2, <3>1, AppendProperties DEF g
    <3> QED BY <1>1, <1>4, <3>2
  <2>8. /\ g.pending \in Seq(Sessions) /\ Distinct(g.pending)
        /\ InRing(g.pending) = Registered(g)
    <3>1. CASE r.pendingRegistered
      <4>1. g.pending = Append(Tail(h.pending), Head(h.pending))
        BY <2>2, <3>1 DEF g
      <4>2. Registered(g) = Registered(h)
        BY <1>2, <2>5, <3>1 DEF Registered
      <4> QED BY <1>1, <4>1, <4>2, RingTurn
    <3>2. CASE ~ r.pendingRegistered
      <4>1. g.pending = Tail(h.pending)
        BY <2>2, <3>2 DEF g
      <4>2. Registered(g) = Registered(h) \ {k}
        <5> HIDE DEF k
        <5> QED BY <1>2, <2>5, <3>2 DEF Registered
      <4> QED BY <1>1, <4>1, <4>2, RingTail
    <3> QED BY <3>1, <3>2
  <2>9. Cardinality(Present(g)) <= MaxSessionCount
    <3>1. Present(g) \subseteq Present(h)
      <4> HIDE DEF k
      <4> QED BY <1>2, <2>4, <2>5 DEF Present, SlotKept, s
    <3>2. IsFiniteSet(Present(h)) /\ IsFiniteSet(Present(g))
      BY ToWorldHandoffAssumption, FS_Subset DEF Present
    <3>3. /\ Cardinality(Present(g)) <= Cardinality(Present(h))
          /\ Cardinality(Present(g)) \in Nat /\ Cardinality(Present(h)) \in Nat
      BY <3>1, <3>2, FS_Subset, FS_CardinalityType
    <3> QED BY <1>1, <3>3, ToWorldHandoffAssumption
  <2>10. g \in Parts
    <3> HIDE DEF k, s
    <3>1. g = [slots |-> g.slots, pending |-> g.pending, events |-> g.events]
      BY <2>2 DEF g
    <3> QED BY <2>5, <2>6, <2>8, <3>1 DEF Parts
  <2>11. \A j \in Sessions : SlotSound(g.slots[j])
    <3> HIDE DEF k
    <3> QED BY <1>1, <2>4, <2>5
  <2>12. HandoffSound(g)
    BY <2>7, <2>8, <2>9, <2>10, <2>11 DEF HandoffSound
  <2>13. Promoted(h, g)
    <3>1. \A j \in Sessions : SlotKept(h.slots[j], g.slots[j])
      <4> HIDE DEF k
      <4> QED BY <2>4, <2>5 DEF SlotKept, s
    <3> QED BY <2>6, <3>1 DEF Promoted, Content
  <2> HIDE DEF t, k, s
  <2>14. t.parts = g /\ t.go = TRUE
    BY <2>1 DEF g
  <2>15. t = [parts |-> t.parts, go |-> t.go]
    BY <2>1, <2>14
  <2>16. Len(h.events) >= EventQueueCapacity - 1 => Len(g.events) = EventQueueCapacity
    BY <1>1, <2>7
  <2> QED BY <2>10, <2>12, <2>13, <2>14, <2>15, <2>16 DEF t
<1> QED
  BY <1>3, <1>4

-----------------------------------------------------------------------------
(***************************************************************************)
(* The loop of PromotePending.                                             *)
(***************************************************************************)
\* What the loop carries from turn to turn.
Turn == {x \in [parts : Parts, go : BOOLEAN] : HandoffSound(x.parts)}

\* A turn, while there is one to take.
NextTurn(x, failing) ==
    IF x.go /\ x.parts.pending # <<>> THEN PromoteTurn(x.parts, failing) ELSE x

\* What the loop has made of the parts h after each number of turns.
Turns(h, failing) ==
    CHOOSE f : f = [n \in 0 .. Len(h.pending) |->
        IF n = 0 THEN [parts |-> h, go |-> TRUE]
        ELSE NextTurn(f[n - 1], failing)]

\* A turn of the loop of PromotePending keeps the parts sound.
LEMMA NextTurnType ==
  ASSUME NEW x \in Turn, NEW failing
  PROVE  NextTurn(x, failing) \in Turn
<1>1. CASE x.go /\ x.parts.pending # <<>>
  <2> DEFINE t == PromoteTurn(x.parts, failing)
  <2>1. t = [parts |-> t.parts, go |-> t.go] /\ t.parts \in Parts /\ t.go \in BOOLEAN
        /\ HandoffSound(t.parts)
    BY <1>1, TurnKeeps DEF Turn
  <2>2. NextTurn(x, failing) = t
    BY <1>1 DEF NextTurn
  <2> HIDE DEF t
  <2> QED BY <2>1, <2>2 DEF Turn
<1>2. CASE ~ (x.go /\ x.parts.pending # <<>>)
  BY <1>2 DEF NextTurn
<1> QED
  BY <1>1, <1>2

\* A recursive definition of turns has a solution.
LEMMA TurnRecursion ==
  ASSUME NEW limit \in Nat, NEW first \in Turn, NEW step \in [1 .. limit -> [Turn -> Turn]]
  PROVE  \E f \in [0 .. limit -> Turn] :
            f[0] = first /\ \A n \in 1 .. limit : f[n] = step[n][f[n - 1]]
BY RecursionHasSolution

\* PromotePending is the last of as many turns as the ring had sessions.
LEMMA PromoteForm ==
  ASSUME NEW h, HandoffSound(h), NEW failing
  PROVE  /\ Len(h.pending) \in Nat
         /\ PromotePending(h, failing) = Turns(h, failing)[Len(h.pending)].parts
         /\ Turns(h, failing) \in [0 .. Len(h.pending) -> Turn]
         /\ Turns(h, failing)[0] = [parts |-> h, go |-> TRUE]
         /\ \A n \in 1 .. Len(h.pending) :
               Turns(h, failing)[n] = NextTurn(Turns(h, failing)[n - 1], failing)
<1> DEFINE limit == Len(h.pending)
           first == [parts |-> h, go |-> TRUE]
           step == [n \in 1 .. limit |-> [x \in Turn |-> NextTurn(x, failing)]]
           u == Turns(h, failing)
<1>1. limit \in Nat /\ first \in Turn
  BY DEF HandoffSound, Parts, Turn
<1> HIDE DEF limit, first
<1>2. step \in [1 .. limit -> [Turn -> Turn]]
  BY NextTurnType
<1>3. PICK g \in [0 .. limit -> Turn] :
          g[0] = first /\ \A n \in 1 .. limit : g[n] = step[n][g[n - 1]]
  <2> HIDE DEF step
  <2> QED BY <1>1, <1>2, TurnRecursion
<1>4. g = [n \in 0 .. limit |-> IF n = 0 THEN first ELSE NextTurn(g[n - 1], failing)]
  <2>1. ASSUME NEW n \in 0 .. limit, n # 0
        PROVE  g[n] = NextTurn(g[n - 1], failing)
    <3>1. n \in 1 .. limit /\ g[n - 1] \in Turn
      BY <1>1, <2>1
    <3>2. g[n] = step[n][g[n - 1]]
      BY <1>3, <3>1
    <3> QED BY <3>1, <3>2
  <2> HIDE DEF step
  <2> QED BY <1>3, <2>1
<1>5. u = [n \in 0 .. limit |-> IF n = 0 THEN first ELSE NextTurn(u[n - 1], failing)]
  BY <1>4 DEF Turns, limit, first
<1> HIDE DEF u, step
<1>6. u[0] = first /\ \A n \in 1 .. limit : u[n] = NextTurn(u[n - 1], failing)
  BY <1>1, <1>5
<1>7. \A n \in 0 .. limit : u[n] \in Turn
  <2> DEFINE T == {n \in 0 .. limit : u[n] \in Turn}
  <2>1. 0 \in T
    BY <1>1, <1>6
  <2>2. \A n \in 1 .. limit : n - 1 \in T => n \in T
    BY <1>1, <1>6, NextTurnType
  <2> HIDE DEF T
  <2>3. \A n \in 0 .. limit : n \in T
    BY <1>1, <2>1, <2>2, SetInduction
  <2> QED BY <2>3 DEF T
<1>8. u \in [0 .. limit -> Turn]
  BY <1>5, <1>7
<1>9. PromotePending(h, failing) = u[limit].parts
  BY DEF PromotePending, NextTurn, Turns, u, limit
<1> QED
  BY <1>1, <1>6, <1>8, <1>9 DEF u, limit, first

\* The loop loses and reorders nothing; with memory and one free place at most,
\* it leaves the ring empty or the queue full.
LEMMA PromoteKeeps ==
  ASSUME NEW h, HandoffSound(h), NEW failing
  PROVE  /\ HandoffSound(PromotePending(h, failing))
         /\ Promoted(h, PromotePending(h, failing))
         /\ failing = {} /\ (h.pending # <<>> => Len(h.events) >= EventQueueCapacity - 1)
               => WaitsOnlyWhenFull(PromotePending(h, failing))
<1> DEFINE limit == Len(h.pending)
           u == Turns(h, failing)
<1>1. /\ limit \in Nat /\ PromotePending(h, failing) = u[limit].parts
      /\ u[0] = [parts |-> h, go |-> TRUE]
      /\ \A n \in 0 .. limit : u[n] \in Turn
      /\ \A n \in 1 .. limit : u[n] = NextTurn(u[n - 1], failing)
  BY PromoteForm
<1>2. EventQueueCapacity \in Nat /\ (limit = 0 <=> h.pending = <<>>)
  BY ToWorldHandoffAssumption, EmptySeq DEF HandoffSound, Parts
<1> HIDE DEF limit, u
<1>3. \A n \in 0 .. limit : Promoted(h, u[n].parts)
  <2> DEFINE T == {n \in 0 .. limit : Promoted(h, u[n].parts)}
  <2>1. 0 \in T
    BY <1>1 DEF Promoted, SlotKept
  <2>2. ASSUME NEW n \in 1 .. limit, n - 1 \in T
        PROVE  n \in T
    <3>1. n - 1 \in 0 .. limit /\ n \in 0 .. limit
      BY <1>1
    <3>2. HandoffSound(u[n - 1].parts)
      BY <1>1, <3>1 DEF Turn
    <3>3. Promoted(u[n - 1].parts, u[n].parts)
      <4>1. CASE u[n - 1].go /\ u[n - 1].parts.pending # <<>>
        <5>1. u[n] = PromoteTurn(u[n - 1].parts, failing)
          BY <1>1, <4>1 DEF NextTurn
        <5> QED BY <3>2, <4>1, <5>1, TurnKeeps
      <4>2. CASE ~ (u[n - 1].go /\ u[n - 1].parts.pending # <<>>)
        <5>1. u[n] = u[n - 1]
          BY <1>1, <4>2 DEF NextTurn
        <5> QED BY <5>1 DEF Promoted, SlotKept
      <4> QED BY <4>1, <4>2
    <3> QED BY <2>2, <3>1, <3>3 DEF Promoted, SlotKept
  <2> HIDE DEF T
  <2>3. \A n \in 0 .. limit : n \in T
    BY <1>1, <2>1, <2>2, SetInduction
  <2> QED BY <2>3 DEF T
<1>4. ASSUME failing = {}, h.pending # <<>> => Len(h.events) >= EventQueueCapacity - 1
      PROVE  WaitsOnlyWhenFull(u[limit].parts)
  <2> DEFINE Full(x) == WaitsOnlyWhenFull(x.parts)
             T == {n \in 0 .. limit : n = 0 \/ Full(u[n])}
  <2>1. 0 \in T
    BY <1>1
  <2>2. ASSUME NEW n \in 1 .. limit, n - 1 \in T
        PROVE  n \in T
    <3>1. n - 1 \in 0 .. limit /\ n \in 0 .. limit
      BY <1>1
    <3>2. HandoffSound(u[n - 1].parts)
      BY <1>1, <3>1 DEF Turn
    <3>3. CASE u[n - 1].go /\ u[n - 1].parts.pending # <<>>
      <4>1. u[n] = PromoteTurn(u[n - 1].parts, failing)
        BY <1>1, <3>3 DEF NextTurn
      <4>2. Len(u[n - 1].parts.events) >= EventQueueCapacity - 1
        <5>1. CASE n - 1 = 0
          <6>1. u[n - 1].parts = h
            BY <1>1, <5>1
          <6> QED BY <1>4, <3>3, <6>1
        <5>2. CASE n - 1 # 0
          BY <1>2, <2>2, <3>3, <5>2 DEF WaitsOnlyWhenFull
        <5> QED BY <5>1, <5>2
      <4>3. Len(u[n].parts.events) = EventQueueCapacity
        BY <1>4, <3>2, <3>3, <4>1, <4>2, TurnKeeps
      <4> QED BY <3>1, <4>3 DEF WaitsOnlyWhenFull
    <3>4. CASE ~ (u[n - 1].go /\ u[n - 1].parts.pending # <<>>)
      <4>1. u[n] = u[n - 1]
        BY <1>1, <3>4 DEF NextTurn
      <4>2. CASE n - 1 = 0
        <5>1. u[n - 1].go /\ u[n - 1].parts = h
          BY <1>1, <4>2
        <5> QED BY <3>1, <3>4, <4>1, <5>1 DEF WaitsOnlyWhenFull
      <4>3. CASE n - 1 # 0
        BY <2>2, <3>1, <4>1, <4>3
      <4> QED BY <4>2, <4>3
    <3> QED BY <3>3, <3>4
  <2> HIDE DEF T
  <2>3. \A n \in 0 .. limit : n \in T
    BY <1>1, <2>1, <2>2, SetInduction
  <2>4. limit = 0 \/ Full(u[limit])
    BY <1>1, <2>3 DEF T
  <2>5. CASE limit = 0
    <3>1. u[limit].parts = h
      BY <1>1, <2>5
    <3> QED BY <1>2, <2>5, <3>1 DEF WaitsOnlyWhenFull
  <2> QED BY <2>4, <2>5
<1>5. limit \in 0 .. limit
  BY <1>1
<1>6. HandoffSound(u[limit].parts)
  BY <1>1, <1>5 DEF Turn
<1> QED
  BY <1>1, <1>3, <1>4, <1>5, <1>6

-----------------------------------------------------------------------------
(***************************************************************************)
(* Taking events out.                                                      *)
(***************************************************************************)
\* The facts of a session still to be delivered are a sequence of facts.
LEMMA ContentType ==
  ASSUME NEW h, HandoffSound(h), NEW k \in Sessions
  PROVE  Content(h, k) \in Seq(Kinds)
<1>1. h.events \in Seq(Fact) /\ h.slots[k] \in Slot
  BY DEF HandoffSound, Parts
<1>2. FactsOf(h.events, k) \in Seq(Kinds) /\ Deferred(h.slots[k]) \in Seq(Kinds)
  BY <1>1, FactsType, DeferredType
<1> QED
  BY <1>2, ConcatProperties DEF Content

\* Concatenation is associative, and <<>> is its unit.
LEMMA KindsAssociative ==
  ASSUME NEW a \in Seq(Kinds), NEW b \in Seq(Kinds), NEW c \in Seq(Kinds)
  PROVE  a \o (b \o c) = (a \o b) \o c /\ a \o b \in Seq(Kinds) /\ <<>> \o c = c
OBVIOUS

\* A promotion delivers nothing, which is a delivery too.
LEMMA NothingDelivered ==
  ASSUME NEW h, NEW g, HandoffSound(g), Promoted(h, g)
  PROVE  Delivered(h, g)
<1> SUFFICES ASSUME NEW k \in Sessions
             PROVE  \E gone \in Seq(Kinds) : Content(h, k) = gone \o Content(g, k)
  BY DEF Promoted, Delivered
<1>1. Content(g, k) \in Seq(Kinds)
  BY ContentType
<1>2. <<>> \in Seq(Kinds) /\ <<>> \o Content(g, k) = Content(g, k)
  BY <1>1, ConcatEmptySeq
<1> QED
  BY <1>2 DEF Promoted

\* Two deliveries are one.
LEMMA DeliveredOn ==
  ASSUME NEW h, NEW g, NEW f, HandoffSound(f), Delivered(h, g), Delivered(g, f)
  PROVE  Delivered(h, f)
<1> SUFFICES ASSUME NEW k \in Sessions
             PROVE  \E gone \in Seq(Kinds) : Content(h, k) = gone \o Content(f, k)
  BY DEF Delivered, SlotKept
<1>1. PICK a \in Seq(Kinds) : Content(h, k) = a \o Content(g, k)
  BY DEF Delivered
<1>2. PICK b \in Seq(Kinds) : Content(g, k) = b \o Content(f, k)
  BY DEF Delivered
<1> DEFINE c == Content(f, k)
<1>3. c \in Seq(Kinds)
  BY ContentType
<1> HIDE DEF c
<1>4. a \o (b \o c) = (a \o b) \o c /\ a \o b \in Seq(Kinds)
  BY <1>3, KindsAssociative
<1> QED
  BY <1>1, <1>2, <1>4 DEF c

\* Taking the oldest event.
LEMMA TakeOldest ==
  ASSUME NEW h, HandoffSound(h), h.events # <<>>
  PROVE  /\ HandoffSound([h EXCEPT !.events = Tail(@)])
         /\ Delivered(h, [h EXCEPT !.events = Tail(@)])
         /\ [h EXCEPT !.events = Tail(@)].pending = h.pending
         /\ Len([h EXCEPT !.events = Tail(@)].events) = Len(h.events) - 1
<1> DEFINE g == [h EXCEPT !.events = Tail(@)]
<1>1. /\ h \in Parts /\ h.events \in Seq(Fact) /\ Len(h.events) \in Nat \ {0}
      /\ Head(h.events) \in Fact /\ Tail(h.events) \in Seq(Fact)
      /\ Len(Tail(h.events)) = Len(h.events) - 1
  BY HeadTailProperties, EmptySeq DEF HandoffSound, Parts
<1>2. g.slots = h.slots /\ g.pending = h.pending /\ g.events = Tail(h.events) /\ g \in Parts
  BY <1>1 DEF Parts
<1> HIDE DEF g
<1>3. Registered(g) = Registered(h) /\ Present(g) = Present(h)
  BY <1>2 DEF Registered, Present
<1>4. Len(g.events) <= EventQueueCapacity
  BY <1>1, <1>2, ToWorldHandoffAssumption DEF HandoffSound
<1>5. HandoffSound(g)
  BY <1>2, <1>3, <1>4 DEF HandoffSound
<1>6. ASSUME NEW k \in Sessions
      PROVE  \E gone \in Seq(Kinds) : Content(h, k) = gone \o Content(g, k)
  <2> DEFINE gone == IF Head(h.events).key = k THEN <<Head(h.events).kind>> ELSE <<>>
             a == FactsOf(Tail(h.events), k)
             b == Deferred(h.slots[k])
  <2>1. gone \in Seq(Kinds)
    <3>1. Head(h.events).kind \in Kinds
      BY <1>1 DEF Fact
    <3> QED BY <3>1
  <2>2. a \in Seq(Kinds) /\ b \in Seq(Kinds)
    BY <1>1, FactsType, DeferredType DEF HandoffSound, Parts
  <2>3. FactsOf(h.events, k) = gone \o a
    BY <1>1, FactsTail
  <2>4. Content(h, k) = (gone \o a) \o b /\ Content(g, k) = a \o b
    BY <1>2, <2>3 DEF Content
  <2> HIDE DEF gone, a, b
  <2>5. gone \o (a \o b) = (gone \o a) \o b
    BY <2>1, <2>2, KindsAssociative, Zenon
  <2> QED BY <2>1, <2>4, <2>5
<1> QED
  BY <1>1, <1>2, <1>5, <1>6 DEF g, Delivered, SlotKept

\* TryPopOneLocked keeps the parts sound, delivers the oldest event only, and
\* refills the place it frees.
LEMMA PopOneKeeps ==
  ASSUME NEW h, HandoffSound(h), NEW failing
  PROVE  /\ TryPopOneLocked(h, failing) = [parts |-> TryPopOneLocked(h, failing).parts,
                                           popped |-> TryPopOneLocked(h, failing).popped]
         /\ TryPopOneLocked(h, failing).popped \in BOOLEAN
         /\ HandoffSound(TryPopOneLocked(h, failing).parts)
         /\ Delivered(h, TryPopOneLocked(h, failing).parts)
         /\ failing = {} /\ WaitsOnlyWhenFull(h)
               => WaitsOnlyWhenFull(TryPopOneLocked(h, failing).parts)
<1> DEFINE b == PromotePending(h, failing)
           c == [b EXCEPT !.events = Tail(@)]
           d == PromotePending(c, failing)
           one == TryPopOneLocked(h, failing)
<1>1. /\ HandoffSound(b) /\ Promoted(h, b)
      /\ failing = {} /\ WaitsOnlyWhenFull(h) => WaitsOnlyWhenFull(b)
  <2>1. WaitsOnlyWhenFull(h) => (h.pending # <<>> => Len(h.events) >= EventQueueCapacity - 1)
    BY ToWorldHandoffAssumption DEF WaitsOnlyWhenFull
  <2> QED BY <2>1, PromoteKeeps
<1>2. Delivered(h, b)
  BY <1>1, NothingDelivered
<1>3. CASE b.events = <<>>
  <2>1. one = [parts |-> b, popped |-> FALSE]
    BY <1>3 DEF TryPopOneLocked
  <2> HIDE DEF one, b, c
  <2> QED BY <1>1, <1>2, <2>1 DEF one
<1>4. CASE b.events # <<>>
  <2> HIDE DEF b
  <2>1. /\ HandoffSound(c) /\ Delivered(b, c) /\ c.pending = b.pending
        /\ Len(c.events) = Len(b.events) - 1
    BY <1>1, <1>4, TakeOldest
  <2> HIDE DEF c
  <2>2. WaitsOnlyWhenFull(b) => (c.pending # <<>> => Len(c.events) >= EventQueueCapacity - 1)
    BY <2>1, ToWorldHandoffAssumption DEF WaitsOnlyWhenFull
  <2>3. /\ HandoffSound(d) /\ Promoted(c, d)
        /\ failing = {} /\ WaitsOnlyWhenFull(h) => WaitsOnlyWhenFull(d)
    BY <1>1, <2>1, <2>2, PromoteKeeps
  <2>4. Delivered(c, d)
    BY <2>3, NothingDelivered
  <2>5. Delivered(h, d)
    <3>1. Delivered(h, c)
      BY <1>2, <2>1, DeliveredOn
    <3> HIDE DEF d
    <3> QED BY <2>3, <2>4, <3>1, DeliveredOn
  <2>6. one = [parts |-> d, popped |-> TRUE]
    BY <1>4 DEF TryPopOneLocked, b, c
  <2> HIDE DEF one, d
  <2> QED BY <2>3, <2>5, <2>6 DEF one
<1> QED
  BY <1>3, <1>4

\* What the loop of TryPopBatch carries.
Popped == {x \in [parts : Parts, popped : BOOLEAN, count : Nat] : HandoffSound(x.parts)}

\* A round, unless the last one found nothing.
NextPop(x, failing) ==
    IF ~ x.popped THEN x
    ELSE [parts |-> TryPopOneLocked(x.parts, failing).parts,
          popped |-> TryPopOneLocked(x.parts, failing).popped,
          count |-> x.count + (IF TryPopOneLocked(x.parts, failing).popped THEN 1 ELSE 0)]

\* What the loop has made of the parts h after each number of rounds.
Pops(h, n, failing) ==
    CHOOSE f : f = [i \in 0 .. n |->
        IF i = 0 THEN [parts |-> h, popped |-> TRUE, count |-> 0]
        ELSE NextPop(f[i - 1], failing)]

\* One round of the loop of TryPopBatch does so too.
LEMMA NextPopKeeps ==
  ASSUME NEW x \in Popped, NEW failing
  PROVE  /\ NextPop(x, failing) \in Popped
         /\ Delivered(x.parts, NextPop(x, failing).parts)
         /\ failing = {} /\ WaitsOnlyWhenFull(x.parts)
               => WaitsOnlyWhenFull(NextPop(x, failing).parts)
<1>1. CASE ~ x.popped
  <2>1. NextPop(x, failing) = x
    BY <1>1 DEF NextPop
  <2>2. HandoffSound(x.parts) /\ Promoted(x.parts, x.parts)
    BY DEF Popped, Promoted, SlotKept
  <2> QED BY <2>1, <2>2, NothingDelivered
<1>2. CASE x.popped
  <2> DEFINE one == TryPopOneLocked(x.parts, failing)
  <2>1. /\ HandoffSound(x.parts) /\ one.popped \in BOOLEAN /\ HandoffSound(one.parts)
        /\ Delivered(x.parts, one.parts)
        /\ failing = {} /\ WaitsOnlyWhenFull(x.parts) => WaitsOnlyWhenFull(one.parts)
    BY PopOneKeeps DEF Popped
  <2>2. one.parts \in Parts
    BY <2>1 DEF HandoffSound
  <2>3. NextPop(x, failing) = [parts |-> one.parts, popped |-> one.popped,
                               count |-> x.count + (IF one.popped THEN 1 ELSE 0)]
    BY <1>2 DEF NextPop
  <2>4. x.count + (IF one.popped THEN 1 ELSE 0) \in Nat
    BY DEF Popped
  <2> HIDE DEF one
  <2> QED BY <2>1, <2>2, <2>3, <2>4 DEF Popped
<1> QED
  BY <1>1, <1>2

\* A recursive definition of rounds of TryPopBatch has a solution.
LEMMA PopRecursion ==
  ASSUME NEW limit \in Nat, NEW first \in Popped,
         NEW step \in [1 .. limit -> [Popped -> Popped]]
  PROVE  \E f \in [0 .. limit -> Popped] :
            f[0] = first /\ \A n \in 1 .. limit : f[n] = step[n][f[n - 1]]
BY RecursionHasSolution

\* TryPopBatch is the last of its rounds.
LEMMA PopForm ==
  ASSUME NEW h, HandoffSound(h), NEW limit \in Nat, NEW failing
  PROVE  /\ PopUpTo(h, limit, failing) = Pops(h, limit, failing)[limit]
         /\ Pops(h, limit, failing)[0] = [parts |-> h, popped |-> TRUE, count |-> 0]
         /\ \A n \in 0 .. limit : Pops(h, limit, failing)[n] \in Popped
         /\ \A n \in 1 .. limit :
               Pops(h, limit, failing)[n] = NextPop(Pops(h, limit, failing)[n - 1], failing)
<1> DEFINE first == [parts |-> h, popped |-> TRUE, count |-> 0]
           step == [n \in 1 .. limit |-> [x \in Popped |-> NextPop(x, failing)]]
           u == Pops(h, limit, failing)
<1>1. first \in Popped
  BY DEF HandoffSound, Popped
<1> HIDE DEF first
<1>2. step \in [1 .. limit -> [Popped -> Popped]]
  BY NextPopKeeps
<1>3. PICK g \in [0 .. limit -> Popped] :
          g[0] = first /\ \A n \in 1 .. limit : g[n] = step[n][g[n - 1]]
  <2> HIDE DEF step
  <2> QED BY <1>1, <1>2, PopRecursion
<1>4. g = [n \in 0 .. limit |-> IF n = 0 THEN first ELSE NextPop(g[n - 1], failing)]
  <2>1. ASSUME NEW n \in 0 .. limit, n # 0
        PROVE  g[n] = NextPop(g[n - 1], failing)
    <3>1. n \in 1 .. limit /\ g[n - 1] \in Popped
      BY <2>1
    <3>2. g[n] = step[n][g[n - 1]]
      BY <1>3, <3>1
    <3> QED BY <3>1, <3>2
  <2> HIDE DEF step
  <2> QED BY <1>3, <2>1
<1>5. u = [n \in 0 .. limit |-> IF n = 0 THEN first ELSE NextPop(u[n - 1], failing)]
  BY <1>4 DEF Pops, first
<1> HIDE DEF u, step
<1>6. u[0] = first /\ \A n \in 1 .. limit : u[n] = NextPop(u[n - 1], failing)
  BY <1>5
<1>7. \A n \in 0 .. limit : u[n] \in Popped
  <2> DEFINE T == {n \in 0 .. limit : u[n] \in Popped}
  <2>1. 0 \in T
    BY <1>1, <1>6
  <2>2. \A n \in 1 .. limit : n - 1 \in T => n \in T
    BY <1>6, NextPopKeeps
  <2> HIDE DEF T
  <2>3. \A n \in 0 .. limit : n \in T
    BY <2>1, <2>2, SetInduction
  <2> QED BY <2>3 DEF T
<1>8. PopUpTo(h, limit, failing) = u[limit]
  BY DEF PopUpTo, NextPop, Pops, u
<1> QED
  BY <1>6, <1>7, <1>8 DEF u, first

\* TryPopBatch keeps the parts sound and delivers each session's oldest facts;
\* with memory to spare, no fact waits beside a free place afterwards.
LEMMA PopsKeep ==
  ASSUME NEW h, HandoffSound(h), NEW limit \in Nat, NEW failing
  PROVE  /\ HandoffSound(PopUpTo(h, limit, failing).parts)
         /\ Delivered(h, PopUpTo(h, limit, failing).parts)
         /\ failing = {} /\ WaitsOnlyWhenFull(h)
               => WaitsOnlyWhenFull(PopUpTo(h, limit, failing).parts)
<1> DEFINE u == Pops(h, limit, failing)
           Good(x) == /\ Delivered(h, x.parts)
                      /\ failing = {} /\ WaitsOnlyWhenFull(h) => WaitsOnlyWhenFull(x.parts)
           T == {n \in 0 .. limit : Good(u[n])}
<1>1. /\ PopUpTo(h, limit, failing) = u[limit]
      /\ u[0] = [parts |-> h, popped |-> TRUE, count |-> 0]
      /\ \A n \in 0 .. limit : u[n] \in Popped
      /\ \A n \in 1 .. limit : u[n] = NextPop(u[n - 1], failing)
  BY PopForm
<1> HIDE DEF u
<1>2. 0 \in T
  <2>1. Delivered(h, h)
    BY NothingDelivered DEF Promoted, SlotKept
  <2> QED BY <1>1, <2>1
<1>3. ASSUME NEW n \in 1 .. limit, n - 1 \in T
      PROVE  n \in T
  <2>1. n - 1 \in 0 .. limit /\ n \in 0 .. limit
    OBVIOUS
  <2>2. /\ Delivered(u[n - 1].parts, u[n].parts) /\ HandoffSound(u[n].parts)
        /\ failing = {} /\ WaitsOnlyWhenFull(u[n - 1].parts) => WaitsOnlyWhenFull(u[n].parts)
    BY <1>1, <2>1, NextPopKeeps DEF Popped
  <2>3. Delivered(h, u[n].parts)
    BY <1>3, <2>2, DeliveredOn
  <2> QED BY <1>3, <2>1, <2>2, <2>3
<1>4. limit \in T
  <2> HIDE DEF T
  <2>1. \A n \in 0 .. limit : n \in T
    BY <1>2, <1>3, SetInduction
  <2> QED BY <2>1
<1>5. HandoffSound(u[limit].parts)
  BY <1>1 DEF Popped
<1> QED
  BY <1>1, <1>4, <1>5

-----------------------------------------------------------------------------
(***************************************************************************)
(* Recording a fact.                                                       *)
(***************************************************************************)
\* Session k has one more fact to be delivered, and nothing else moved.
Recorded(h, g, k, fact) ==
    /\ Content(g, k) = Append(Content(h, k), fact)
    /\ \A j \in Sessions \ {k} : Content(g, j) = Content(h, j)

\* The slot of k is now r, and the fact is in the queue.
QueuedParts(h, k, r, fact) ==
    [slots |-> [h.slots EXCEPT ![k] = r], pending |-> h.pending,
     events |-> Append(h.events, [kind |-> fact, key |-> k])]

\* The slot of k is now r, and k is in the ring.
WaitingParts(h, k, r) ==
    [slots |-> [h.slots EXCEPT ![k] = r], pending |-> Append(h.pending, k),
     events |-> h.events]

\* The slot of k becomes r; k joins the ring if r says so.
LEMMA SlotChanged ==
  ASSUME NEW h, HandoffSound(h), NEW k \in Sessions, NEW r \in Slot, SlotSound(r),
         r.present => h.slots[k].present \/ Cardinality(Present(h)) < MaxSessionCount,
         NEW p, NEW es \in Seq(Fact), Len(es) <= EventQueueCapacity,
         \/ p = h.pending /\ (r.pendingRegistered <=> h.slots[k].pendingRegistered)
         \/ p = Append(h.pending, k) /\ r.pendingRegistered /\ ~ h.slots[k].pendingRegistered
  PROVE  HandoffSound([slots |-> [h.slots EXCEPT ![k] = r], pending |-> p, events |-> es])
<1> DEFINE g == [slots |-> [h.slots EXCEPT ![k] = r], pending |-> p, events |-> es]
<1>1. /\ h.slots \in [Sessions -> Slot] /\ h.pending \in Seq(Sessions)
      /\ Distinct(h.pending) /\ InRing(h.pending) = Registered(h)
      /\ Cardinality(Present(h)) <= MaxSessionCount
      /\ \A j \in Sessions : SlotSound(h.slots[j])
  BY DEF HandoffSound, Parts
<1>2. /\ g.slots \in [Sessions -> Slot] /\ g.slots[k] = r
      /\ \A j \in Sessions : j # k => g.slots[j] = h.slots[j]
      /\ g.pending = p /\ g.events = es
  BY <1>1
<1>3. p \in Seq(Sessions) => g \in Parts
  BY <1>1 DEF Parts
<1> HIDE DEF g
<1>4. p \in Seq(Sessions) /\ Distinct(p) /\ InRing(p) = Registered(g)
  <2>1. CASE p = h.pending /\ (r.pendingRegistered <=> h.slots[k].pendingRegistered)
    <3>1. Registered(g) = Registered(h)
      BY <1>2, <2>1 DEF Registered
    <3> QED BY <1>1, <2>1, <3>1
  <2>2. CASE p = Append(h.pending, k) /\ r.pendingRegistered /\ ~ h.slots[k].pendingRegistered
    <3>1. Registered(g) = Registered(h) \cup {k} /\ k \notin Registered(h)
      BY <1>2, <2>2 DEF Registered
    <3>2. k \notin InRing(h.pending)
      BY <1>1, <3>1
    <3> QED BY <1>1, <2>2, <3>1, <3>2, RingJoin
  <2> QED BY <2>1, <2>2
<1>5. Cardinality(Present(g)) <= MaxSessionCount
  <2>1. /\ IsFiniteSet(Present(h)) /\ Cardinality(Present(h)) \in Nat
        /\ IsFiniteSet(Present(h) \cup {k}) /\ Cardinality(Present(h) \cup {k}) \in Nat
        /\ IsFiniteSet(Present(g)) /\ Cardinality(Present(g)) \in Nat
        /\ MaxSessionCount \in Nat
    BY ToWorldHandoffAssumption, FS_Subset, FS_AddElement, FS_CardinalityType DEF Present
  <2>2. CASE ~ r.present \/ h.slots[k].present
    <3>1. Present(g) \subseteq Present(h)
      BY <1>2, <2>2 DEF Present
    <3>2. Cardinality(Present(g)) <= Cardinality(Present(h))
      BY <2>1, <3>1, FS_Subset
    <3> QED BY <1>1, <2>1, <3>2
  <2>3. CASE r.present /\ ~ h.slots[k].present
    <3>1. Present(g) \subseteq Present(h) \cup {k}
      BY <1>2 DEF Present
    <3>2. Cardinality(Present(g)) <= Cardinality(Present(h) \cup {k})
      BY <2>1, <3>1, FS_Subset
    <3>3. k \notin Present(h)
      BY <2>3 DEF Present
    <3>4. Cardinality(Present(h) \cup {k}) = Cardinality(Present(h)) + 1
      BY <2>1, <3>3, FS_AddElement
    <3>5. Cardinality(Present(h)) < MaxSessionCount
      BY <2>3
    <3> QED BY <2>1, <3>2, <3>4, <3>5
  <2> QED BY <2>2, <2>3
<1>6. \A j \in Sessions : SlotSound(g.slots[j])
  BY <1>1, <1>2
<1>7. HandoffSound(g)
  BY <1>2, <1>3, <1>4, <1>5, <1>6 DEF HandoffSound
<1> QED
  BY <1>7 DEF g

\* A fact published when nothing is deferred is the session's newest.
LEMMA AppendToEmpty ==
  ASSUME NEW a \in Seq(Kinds), NEW e \in Kinds
  PROVE  a \o (<<e>> \o <<>>) = Append(a \o <<>>, e)
OBVIOUS

\* A fact that is published at once.
LEMMA RecordedNow ==
  ASSUME NEW h, HandoffSound(h), NEW k \in Sessions, NEW r \in Slot, NEW fact \in Kinds,
         Deferred(h.slots[k]) = <<>>, Deferred(r) = <<>>
  PROVE  /\ Recorded(h, QueuedParts(h, k, r, fact), k, fact)
         /\ QueuedParts(h, k, r, fact).events \in Seq(Fact)
         /\ Len(QueuedParts(h, k, r, fact).events) = Len(h.events) + 1
<1> DEFINE g == QueuedParts(h, k, r, fact)
<1>1. h.slots \in [Sessions -> Slot] /\ h.events \in Seq(Fact)
  BY DEF HandoffSound, Parts
<1>2. /\ g.slots[k] = r /\ \A j \in Sessions \ {k} : g.slots[j] = h.slots[j]
      /\ g.events = Append(h.events, [kind |-> fact, key |-> k])
  BY <1>1 DEF QueuedParts
<1> HIDE DEF g
<1> DEFINE es == h.events
<1>3. es \in Seq(Fact) /\ <<>> \in Seq(Kinds)
  BY <1>1
<1> HIDE DEF es
<1>4. g.events = Append(es, [kind |-> fact, key |-> k])
  BY <1>2 DEF es
<1>5. /\ g.events \in Seq(Fact)
      /\ FactsOf(g.events, k) \o <<>> = FactsOf(es, k) \o (<<fact>> \o <<>>)
      /\ \A j \in Sessions \ {k} : FactsOf(g.events, j) = FactsOf(es, j)
  <2>1. /\ Append(es, [kind |-> fact, key |-> k]) \in Seq(Fact)
        /\ FactsOf(Append(es, [kind |-> fact, key |-> k]), k) \o <<>>
              = FactsOf(es, k) \o (<<fact>> \o <<>>)
        /\ \A j \in Sessions \ {k} :
              FactsOf(Append(es, [kind |-> fact, key |-> k]), j) = FactsOf(es, j)
    BY <1>3, ContentPublished, Zenon
  <2> QED BY <1>4, <2>1
<1>6. FactsOf(es, k) \o (<<fact>> \o <<>>) = Append(FactsOf(es, k) \o <<>>, fact)
  BY <1>3, FactsType, AppendToEmpty, Zenon
<1>7. Len(g.events) = Len(h.events) + 1
  <2>1. [kind |-> fact, key |-> k] \in Fact
    BY DEF Fact
  <2> QED BY <1>1, <1>2, <2>1, AppendProperties
<1>8. Recorded(h, g, k, fact)
  BY <1>2, <1>5, <1>6 DEF Recorded, Content, es
<1> QED
  BY <1>5, <1>7, <1>8 DEF g

\* A fact that waits in its slot.
LEMMA RecordedLater ==
  ASSUME NEW h, HandoffSound(h), NEW k \in Sessions, NEW r \in Slot, NEW fact \in Kinds,
         Deferred(r) = Append(Deferred(h.slots[k]), fact),
         NEW g, g.slots = [h.slots EXCEPT ![k] = r], g.events = h.events
  PROVE  Recorded(h, g, k, fact)
<1>1. h.slots \in [Sessions -> Slot] /\ h.events \in Seq(Fact)
  BY DEF HandoffSound, Parts
<1>2. /\ g.slots[k] = r /\ \A j \in Sessions \ {k} : g.slots[j] = h.slots[j]
      /\ g.events = h.events
  BY <1>1
<1> DEFINE a == FactsOf(h.events, k)
           b == Deferred(h.slots[k])
<1>3. a \in Seq(Kinds) /\ b \in Seq(Kinds)
  BY <1>1, FactsType, DeferredType
<1> HIDE DEF a, b
<1>4. a \o Append(b, fact) = Append(a \o b, fact)
  BY <1>3, AppendOfConcat, Zenon
<1> QED
  BY <1>2, <1>4 DEF Recorded, Content, a, b

\* RegisterPending, part by part, for a session that is not in the ring.
LEMMA RegisterRecord ==
  ASSUME NEW ss \in [Sessions -> Slot], NEW k \in Sessions, ~ ss[k].pendingRegistered,
         NEW p, NEW es, Len(p) \in Nat, Len(p) < MaxSessionCount
  PROVE  RegisterPending([slots |-> ss, pending |-> p, events |-> es], k) =
            [slots |-> [ss EXCEPT ![k] = [ss[k] EXCEPT !.pendingRegistered = TRUE]],
             pending |-> Append(p, k), events |-> es]
<1>1. ~ (Len(p) >= MaxSessionCount)
  BY ToWorldHandoffAssumption
<1>2. [ss EXCEPT ![k].pendingRegistered = TRUE]
         = [ss EXCEPT ![k] = [ss[k] EXCEPT !.pendingRegistered = TRUE]]
  OBVIOUS
<1> QED
  BY <1>1, <1>2 DEF RegisterPending

\* PromoteOne, part by part.
LEMMA PromoteRecord ==
  ASSUME NEW ss, NEW k, NEW p, NEW es
  PROVE  PromoteOne([slots |-> ss, pending |-> p, events |-> es], k) =
            [slots |-> [ss EXCEPT ![k] = CommitNextPending(ss[k])],
             pending |-> p,
             events |-> Append(es, [kind |-> NextPendingKind(ss[k]), key |-> k])]
<1> DEFINE h == [slots |-> ss, pending |-> p, events |-> es]
           e == [kind |-> NextPendingKind(ss[k]), key |-> k]
<1>1. h.slots[k] = ss[k] /\ h.events = es
  OBVIOUS
<1>2. Push(h, NextPendingKind(h.slots[k]), k) = [h EXCEPT !.events = Append(@, e)]
  BY DEF Push
<1> HIDE DEF e
<1>3. [h EXCEPT !.events = Append(@, e)] =
         [slots |-> ss, pending |-> p, events |-> Append(es, e)]
  OBVIOUS
<1>4. PromoteOne(h, k) = [[slots |-> ss, pending |-> p, events |-> Append(es, e)]
                            EXCEPT !.slots[k] = CommitNextPending(ss[k])]
  BY <1>1, <1>2, <1>3 DEF PromoteOne
<1> QED
  BY <1>4 DEF e

\* What PublishOrDefer makes of the parts ss, p and es, when k is not in the ring.
PublishedForm(ss, k, p, es, failing) ==
    IF k \in failing \/ Len(es) = EventQueueCapacity
    THEN [slots |-> [ss EXCEPT ![k] = [ss[k] EXCEPT !.pendingRegistered = TRUE]],
          pending |-> Append(p, k), events |-> es]
    ELSE [slots |-> [ss EXCEPT ![k] = CommitNextPending(ss[k])],
          pending |-> p,
          events |-> Append(es, [kind |-> NextPendingKind(ss[k]), key |-> k])]

\* PublishOrDefer for a session that is not in the ring.
LEMMA PublishOrDeferForm ==
  ASSUME NEW ss \in [Sessions -> Slot], NEW k \in Sessions, ~ ss[k].pendingRegistered,
         NEW p, Len(p) \in Nat, Len(p) < MaxSessionCount, NEW es, NEW failing
  PROVE  PublishOrDefer([slots |-> ss, pending |-> p, events |-> es], k, failing)
            = PublishedForm(ss, k, p, es, failing)
<1> DEFINE h == [slots |-> ss, pending |-> p, events |-> es]
<1>1. RegisterPending(h, k) =
         [slots |-> [ss EXCEPT ![k] = [ss[k] EXCEPT !.pendingRegistered = TRUE]],
          pending |-> Append(p, k), events |-> es]
  BY RegisterRecord
<1>2. PromoteOne(h, k) =
         [slots |-> [ss EXCEPT ![k] = CommitNextPending(ss[k])], pending |-> p,
          events |-> Append(es, [kind |-> NextPendingKind(ss[k]), key |-> k])]
  BY PromoteRecord
<1>3. h.events = es
  OBVIOUS
<1> HIDE DEF h
<1>4. PublishOrDefer(h, k, failing) =
         IF k \in failing \/ Len(es) = EventQueueCapacity
         THEN RegisterPending(h, k) ELSE PromoteOne(h, k)
  BY <1>3 DEF PublishOrDefer, PromoteResult
<1> QED
  BY <1>1, <1>2, <1>4 DEF h, PublishedForm

\* What recording a fact of session k makes of the parts.
RecordKeeps(h, g, k, fact, failing) ==
    /\ HandoffSound(g)
    /\ Recorded(h, g, k, fact)
    /\ \A j \in Sessions : j # k => g.slots[j] = h.slots[j]
    /\ failing = {} /\ WaitsOnlyWhenFull(h) => WaitsOnlyWhenFull(g)

\* There is room: the fact is published, and the slot becomes now.
LEMMA PublishedNow ==
  ASSUME NEW h, HandoffSound(h), NEW k \in Sessions, h.slots[k].present,
         ~ h.slots[k].pendingRegistered, Deferred(h.slots[k]) = <<>>,
         NEW fact \in Kinds, NEW failing, Len(h.events) # EventQueueCapacity,
         NEW now \in Slot, SlotSound(now), ~ now.pendingRegistered, Deferred(now) = <<>>
  PROVE  /\ RecordKeeps(h, QueuedParts(h, k, now, fact), k, fact, failing)
         /\ QueuedParts(h, k, now, fact).slots[k] = now
<1> DEFINE g == QueuedParts(h, k, now, fact)
<1>1. /\ h.slots \in [Sessions -> Slot] /\ h.events \in Seq(Fact) /\ Len(h.events) \in Nat
      /\ Len(h.events) <= EventQueueCapacity /\ EventQueueCapacity \in Nat
  BY ToWorldHandoffAssumption DEF HandoffSound, Parts
<1>2. Recorded(h, g, k, fact) /\ g.events \in Seq(Fact) /\ Len(g.events) = Len(h.events) + 1
  BY RecordedNow
<1>3. /\ g.slots[k] = now /\ \A j \in Sessions : j # k => g.slots[j] = h.slots[j]
      /\ g.pending = h.pending
      /\ g = [slots |-> [h.slots EXCEPT ![k] = now], pending |-> h.pending,
              events |-> g.events]
  BY <1>1 DEF QueuedParts
<1> HIDE DEF g
<1>4. Len(g.events) <= EventQueueCapacity
  BY <1>1, <1>2
<1>5. HandoffSound([slots |-> [h.slots EXCEPT ![k] = now], pending |-> h.pending,
                    events |-> g.events])
  BY <1>2, <1>4, SlotChanged
<1>6. WaitsOnlyWhenFull(h) => WaitsOnlyWhenFull(g)
  BY <1>3 DEF WaitsOnlyWhenFull
<1>7. RecordKeeps(h, g, k, fact, failing)
  BY <1>2, <1>3, <1>5, <1>6 DEF RecordKeeps
<1> QED
  BY <1>3, <1>7 DEF g

\* There is none: the session joins the ring, and the slot becomes later.
LEMMA PublishedLater ==
  ASSUME NEW h, HandoffSound(h), NEW k \in Sessions, h.slots[k].present,
         ~ h.slots[k].pendingRegistered, Deferred(h.slots[k]) = <<>>,
         NEW fact \in Kinds, NEW failing,
         k \in failing \/ Len(h.events) = EventQueueCapacity,
         NEW later \in Slot, SlotSound(later), later.pendingRegistered,
         Deferred(later) = <<fact>>
  PROVE  /\ RecordKeeps(h, WaitingParts(h, k, later), k, fact, failing)
         /\ WaitingParts(h, k, later).slots[k] = later
<1> DEFINE g == WaitingParts(h, k, later)
<1>1. /\ h.slots \in [Sessions -> Slot] /\ h.events \in Seq(Fact) /\ Len(h.events) \in Nat
      /\ Len(h.events) <= EventQueueCapacity /\ EventQueueCapacity \in Nat
  BY ToWorldHandoffAssumption DEF HandoffSound, Parts
<1>2. /\ g.slots[k] = later /\ \A j \in Sessions : j # k => g.slots[j] = h.slots[j]
      /\ g.slots = [h.slots EXCEPT ![k] = later] /\ g.events = h.events
      /\ g = [slots |-> [h.slots EXCEPT ![k] = later],
              pending |-> Append(h.pending, k), events |-> h.events]
  BY <1>1 DEF WaitingParts
<1> HIDE DEF g
<1>3. HandoffSound(g)
  BY <1>1, <1>2, SlotChanged
<1>4. Append(<<>>, fact) = <<fact>>
  OBVIOUS
<1>5. Deferred(later) = Append(Deferred(h.slots[k]), fact)
  BY <1>4
<1>6. Recorded(h, g, k, fact)
  BY <1>2, <1>5, RecordedLater
<1>7. failing = {} => WaitsOnlyWhenFull(g)
  BY <1>2 DEF WaitsOnlyWhenFull
<1>8. RecordKeeps(h, g, k, fact, failing)
  BY <1>2, <1>3, <1>6, <1>7 DEF RecordKeeps
<1> QED
  BY <1>2, <1>8 DEF g

\* The new fact is published at once, if there is room and memory, or waits.
LEMMA PublishedOrDeferred ==
  ASSUME NEW h, HandoffSound(h), NEW k \in Sessions, h.slots[k].present,
         ~ h.slots[k].pendingRegistered, Deferred(h.slots[k]) = <<>>,
         NEW fact \in Kinds, NEW failing, NEW g,
         NEW now \in Slot, SlotSound(now), ~ now.pendingRegistered, Deferred(now) = <<>>,
         NEW later \in Slot, SlotSound(later), later.pendingRegistered,
         Deferred(later) = <<fact>>,
         g = IF k \in failing \/ Len(h.events) = EventQueueCapacity
             THEN WaitingParts(h, k, later) ELSE QueuedParts(h, k, now, fact)
  PROVE  RecordKeeps(h, g, k, fact, failing) /\ (g.slots[k] = now \/ g.slots[k] = later)
<1>1. CASE k \in failing \/ Len(h.events) = EventQueueCapacity
  <2>1. g = WaitingParts(h, k, later)
    BY <1>1
  <2>2. /\ RecordKeeps(h, WaitingParts(h, k, later), k, fact, failing)
        /\ WaitingParts(h, k, later).slots[k] = later
    BY <1>1, PublishedLater, Zenon
  <2> QED BY <2>1, <2>2
<1>2. CASE ~ (k \in failing \/ Len(h.events) = EventQueueCapacity)
  <2>1. g = QueuedParts(h, k, now, fact)
    BY <1>2
  <2>2. Len(h.events) # EventQueueCapacity
    BY <1>2
  <2>3. /\ RecordKeeps(h, QueuedParts(h, k, now, fact), k, fact, failing)
        /\ QueuedParts(h, k, now, fact).slots[k] = now
    BY <2>2, PublishedNow
  <2> QED BY <2>1, <2>3
<1> QED
  BY <1>1, <1>2

\* PublishOrDefer, once the slot of k has become s.
LEMMA PublishNewSlot ==
  ASSUME NEW h, HandoffSound(h), NEW k \in Sessions, h.slots[k].present,
         ~ h.slots[k].pendingRegistered, NEW s \in Slot, ~ s.pendingRegistered, NEW failing
  PROVE  PublishOrDefer([slots |-> [h.slots EXCEPT ![k] = s], pending |-> h.pending,
                         events |-> h.events], k, failing) =
            IF k \in failing \/ Len(h.events) = EventQueueCapacity
            THEN WaitingParts(h, k, [s EXCEPT !.pendingRegistered = TRUE])
            ELSE QueuedParts(h, k, CommitNextPending(s), NextPendingKind(s))
<1>1. h.slots \in [Sessions -> Slot]
  BY DEF HandoffSound, Parts
<1> DEFINE ss == [h.slots EXCEPT ![k] = s]
           p == h.pending
           es == h.events
<1>2. ss[k] = s /\ ss \in [Sessions -> Slot] /\ ~ ss[k].pendingRegistered
  BY <1>1
<1>3. /\ [ss EXCEPT ![k] = CommitNextPending(s)] = [h.slots EXCEPT ![k] = CommitNextPending(s)]
      /\ [ss EXCEPT ![k] = [s EXCEPT !.pendingRegistered = TRUE]]
            = [h.slots EXCEPT ![k] = [s EXCEPT !.pendingRegistered = TRUE]]
  BY <1>1
<1>4. Len(p) \in Nat /\ Len(p) < MaxSessionCount
  <2>1. k \in Present(h) /\ k \notin Registered(h)
    BY DEF Present, Registered
  <2> QED BY <2>1, RoomInRing, ToWorldHandoffAssumption
<1> HIDE DEF ss, p, es
<1>5. PublishOrDefer([slots |-> ss, pending |-> p, events |-> es], k, failing)
         = PublishedForm(ss, k, p, es, failing)
  BY <1>2, <1>4, PublishOrDeferForm
<1> QED
  BY <1>2, <1>3, <1>5 DEF ss, p, es, PublishedForm, WaitingParts, QueuedParts

\* RecordAccepted keeps the parts sound and records one fact, Accepted.
LEMMA AcceptedParts ==
  ASSUME NEW h, HandoffSound(h), NEW k \in Sessions, h.slots[k].present,
         ~ h.slots[k].acceptedRecorded, NEW failing
  PROVE  LET g == PublishOrDefer([h EXCEPT !.slots[k].acceptedRecorded = TRUE], k, failing)
         IN /\ RecordKeeps(h, g, k, "Accepted", failing)
            /\ g.slots[k].present /\ g.slots[k].acceptedRecorded
            /\ ~ g.slots[k].closedRecorded
<1> DEFINE s == h.slots[k]
           s1 == [s EXCEPT !.acceptedRecorded = TRUE]
           sC == CommitNextPending(s1)
           sR == [s1 EXCEPT !.pendingRegistered = TRUE]
           f == [h EXCEPT !.slots[k].acceptedRecorded = TRUE]
           g == PublishOrDefer(f, k, failing)
<1>1. /\ h.slots \in [Sessions -> Slot] /\ h.events \in Seq(Fact) /\ Len(h.events) \in Nat
      /\ s \in Slot /\ SlotSound(s) /\ h \in Parts
      /\ Len(h.events) <= EventQueueCapacity /\ EventQueueCapacity \in Nat
  BY ToWorldHandoffAssumption DEF HandoffSound, Parts
<1>2. /\ ~ s.pendingRegistered /\ Deferred(s) = <<>>
      /\ s1 \in Slot /\ ~ s1.pendingRegistered /\ NextPendingKind(s1) = "Accepted"
  BY <1>1 DEF Slot, SlotSound, NextPendingKind, Deferred
<1>3. /\ sC \in Slot /\ SlotSound(sC) /\ Deferred(sC) = <<>> /\ ~ sC.pendingRegistered
      /\ sC.present /\ sC.acceptedRecorded /\ ~ sC.closedRecorded
  BY <1>1, <1>2 DEF Slot, SlotSound, NextPendingKind, Deferred, CommitNextPending
<1>4. /\ sR \in Slot /\ SlotSound(sR) /\ Deferred(sR) = <<"Accepted">> /\ sR.pendingRegistered
      /\ sR.present /\ sR.acceptedRecorded /\ ~ sR.closedRecorded
  BY <1>1, <1>2 DEF Slot, SlotSound, NextPendingKind, Deferred
<1>5. "Accepted" \in Kinds /\ Append(<<>>, "Accepted") = <<"Accepted">>
  BY DEF Kinds
<1> HIDE DEF g
<1>6. g = IF k \in failing \/ Len(h.events) = EventQueueCapacity
          THEN WaitingParts(h, k, sR) ELSE QueuedParts(h, k, sC, "Accepted")
  <2>1. f = [slots |-> [h.slots EXCEPT ![k] = s1], pending |-> h.pending,
             events |-> h.events]
    <3>1. [h.slots EXCEPT ![k].acceptedRecorded = TRUE] = [h.slots EXCEPT ![k] = s1]
      BY <1>1
    <3>2. f = [h EXCEPT !.slots = [h.slots EXCEPT ![k].acceptedRecorded = TRUE]]
      BY <1>1 DEF Parts
    <3> HIDE DEF s1, f
    <3> QED BY <1>1, <3>1, <3>2 DEF Parts
  <2>2. s1 \in Slot /\ ~ s1.pendingRegistered /\ ~ h.slots[k].pendingRegistered
    BY <1>2
  <2> HIDE DEF f, s1, s
  <2>3. PublishOrDefer([slots |-> [h.slots EXCEPT ![k] = s1], pending |-> h.pending,
                        events |-> h.events], k, failing) =
            IF k \in failing \/ Len(h.events) = EventQueueCapacity
            THEN WaitingParts(h, k, [s1 EXCEPT !.pendingRegistered = TRUE])
            ELSE QueuedParts(h, k, CommitNextPending(s1), NextPendingKind(s1))
    BY <2>2, PublishNewSlot
  <2> QED BY <1>2, <2>1, <2>3 DEF g
<1> HIDE DEF sC, sR, s, s1, f
<1>7. RecordKeeps(h, g, k, "Accepted", failing) /\ (g.slots[k] = sC \/ g.slots[k] = sR)
  <2>1. ~ h.slots[k].pendingRegistered /\ Deferred(h.slots[k]) = <<>>
    BY <1>2 DEF s
  <2> QED BY <1>3, <1>4, <1>5, <1>6, <2>1, PublishedOrDeferred
<1> QED
  BY <1>3, <1>4, <1>7 DEF g, f

\* The parts the lock protects, once one field of k's slot has been set.
LEMMA FieldSet ==
  ASSUME NEW h \in Parts, NEW k \in Sessions
  PROVE  [h EXCEPT !.slots[k].closedRecorded = TRUE] =
            [slots |-> [h.slots EXCEPT ![k] = [h.slots[k] EXCEPT !.closedRecorded = TRUE]],
             pending |-> h.pending, events |-> h.events]
<1>1. h.slots \in [Sessions -> Slot]
  BY DEF Parts
<1>2. [h.slots EXCEPT ![k].closedRecorded = TRUE]
         = [h.slots EXCEPT ![k] = [h.slots[k] EXCEPT !.closedRecorded = TRUE]]
  BY <1>1
<1> DEFINE ss == [h.slots EXCEPT ![k].closedRecorded = TRUE]
<1>3. [h EXCEPT !.slots[k].closedRecorded = TRUE] = [h EXCEPT !.slots = ss]
  BY <1>1 DEF Parts
<1> HIDE DEF ss
<1>4. [h EXCEPT !.slots = ss] = [slots |-> ss, pending |-> h.pending, events |-> h.events]
  BY DEF Parts
<1> QED
  BY <1>2, <1>3, <1>4 DEF ss

\* The end of a session whose Accepted still waits: Closed waits behind it.
LEMMA ClosedBehindAccepted ==
  ASSUME NEW h, HandoffSound(h), NEW k \in Sessions, h.slots[k].present,
         h.slots[k].acceptedRecorded, ~ h.slots[k].closedRecorded,
         h.slots[k].pendingRegistered, NEW failing
  PROVE  LET s1 == [h.slots[k] EXCEPT !.closedRecorded = TRUE]
             g  == [slots |-> [h.slots EXCEPT ![k] = s1],
                    pending |-> h.pending, events |-> h.events]
         IN RecordKeeps(h, g, k, "Closed", failing) /\ g.slots[k] = s1
<1> DEFINE s  == h.slots[k]
           s1 == [s EXCEPT !.closedRecorded = TRUE]
           g  == [slots |-> [h.slots EXCEPT ![k] = s1],
                  pending |-> h.pending, events |-> h.events]
<1>1. /\ h.slots \in [Sessions -> Slot] /\ h.events \in Seq(Fact)
      /\ s \in Slot /\ SlotSound(s) /\ Len(h.events) <= EventQueueCapacity
  BY DEF HandoffSound, Parts
<1>2. /\ s1 \in Slot /\ s1.present /\ s1.pendingRegistered /\ SlotSound(s1)
      /\ Deferred(s) = <<"Accepted">> /\ Deferred(s1) = <<"Accepted", "Closed">>
  BY <1>1 DEF Slot, SlotSound, NextPendingKind, Deferred
<1>3. /\ "Closed" \in Kinds
      /\ <<"Accepted", "Closed">> = Append(<<"Accepted">>, "Closed")
  BY DEF Kinds
<1>4. /\ g.slots[k] = s1 /\ \A j \in Sessions : j # k => g.slots[j] = h.slots[j]
      /\ g.slots = [h.slots EXCEPT ![k] = s1] /\ g.events = h.events
      /\ g.pending = h.pending
  BY <1>1
<1>5. Deferred(s1) = Append(Deferred(h.slots[k]), "Closed")
  BY <1>2, <1>3
<1> HIDE DEF s1
<1>6. HandoffSound(g)
  BY <1>1, <1>2, SlotChanged
<1> HIDE DEF g
<1>7. Recorded(h, g, k, "Closed")
  BY <1>2, <1>3, <1>4, <1>5, RecordedLater
<1>8. WaitsOnlyWhenFull(h) => WaitsOnlyWhenFull(g)
  BY <1>4 DEF WaitsOnlyWhenFull
<1>9. RecordKeeps(h, g, k, "Closed", failing)
  BY <1>4, <1>6, <1>7, <1>8 DEF RecordKeeps
<1> QED
  BY <1>4, <1>9 DEF g, s1

\* The end of a session none of whose facts waits.
LEMMA ClosedAlone ==
  ASSUME NEW h, HandoffSound(h), NEW k \in Sessions, h.slots[k].present,
         h.slots[k].acceptedRecorded, ~ h.slots[k].closedRecorded,
         ~ h.slots[k].pendingRegistered, NEW failing
  PROVE  LET s1 == [h.slots[k] EXCEPT !.closedRecorded = TRUE]
             p  == PublishOrDefer([slots |-> [h.slots EXCEPT ![k] = s1],
                                   pending |-> h.pending, events |-> h.events],
                                  k, failing)
             g  == IF p.slots[k].closedCommitted THEN Erase(p, k) ELSE p
         IN /\ RecordKeeps(h, g, k, "Closed", failing)
            /\ g.slots[k].present => /\ g.slots[k].acceptedRecorded
                                     /\ g.slots[k].closedRecorded
<1> DEFINE s  == h.slots[k]
           s1 == [s EXCEPT !.closedRecorded = TRUE]
           sC == CommitNextPending(s1)
           sR == [s1 EXCEPT !.pendingRegistered = TRUE]
           p  == PublishOrDefer([slots |-> [h.slots EXCEPT ![k] = s1],
                                 pending |-> h.pending, events |-> h.events], k, failing)
           g  == IF p.slots[k].closedCommitted THEN Erase(p, k) ELSE p
           Full == k \in failing \/ Len(h.events) = EventQueueCapacity
<1>1. /\ h.slots \in [Sessions -> Slot] /\ s \in Slot /\ SlotSound(s)
  BY DEF HandoffSound, Parts
<1>2. /\ s1 \in Slot /\ ~ s1.pendingRegistered /\ NextPendingKind(s1) = "Closed"
      /\ Deferred(h.slots[k]) = <<>>
  BY <1>1 DEF Slot, SlotSound, NextPendingKind, Deferred
<1>3. sC.closedCommitted /\ sC \in Slot
  BY <1>2 DEF Slot, CommitNextPending
<1>4. /\ sR \in Slot /\ SlotSound(sR) /\ sR.pendingRegistered /\ Deferred(sR) = <<"Closed">>
      /\ sR.acceptedRecorded /\ sR.closedRecorded /\ ~ sR.closedCommitted
  BY <1>1, <1>2 DEF Slot, SlotSound, NextPendingKind, Deferred
<1>5. /\ NoSlot \in Slot /\ SlotSound(NoSlot) /\ ~ NoSlot.pendingRegistered
      /\ Deferred(NoSlot) = <<>> /\ ~ NoSlot.present
  BY DEF Slot, NoSlot, SlotSound, NextPendingKind, Deferred
<1>6. "Closed" \in Kinds
  BY DEF Kinds
<1>7. p = IF Full THEN WaitingParts(h, k, sR) ELSE QueuedParts(h, k, sC, "Closed")
  <2> HIDE DEF s1
  <2> QED BY <1>2, PublishNewSlot
<1> HIDE DEF p, sC, sR, s1
<1>8. g = IF Full THEN WaitingParts(h, k, sR) ELSE QueuedParts(h, k, NoSlot, "Closed")
  <2>1. CASE Full
    <3>1. p = WaitingParts(h, k, sR)
      BY <1>7, <2>1
    <3>2. p.slots[k] = sR
      BY <1>1, <3>1 DEF WaitingParts
    <3> QED BY <1>4, <2>1, <3>1, <3>2
  <2>2. CASE ~ Full
    <3>1. p = QueuedParts(h, k, sC, "Closed")
      BY <1>7, <2>2
    <3>2. p.slots[k] = sC
      BY <1>1, <3>1 DEF QueuedParts
    <3>3. Erase(p, k) = QueuedParts(h, k, NoSlot, "Closed")
      <4> DEFINE es == Append(h.events, [kind |-> "Closed", key |-> k])
                 ss == [h.slots EXCEPT ![k] = sC]
                 tt == [h.slots EXCEPT ![k] = NoSlot]
      <4>1. [ss EXCEPT ![k] = NoSlot] = tt
        BY <1>1
      <4>2. /\ p = [slots |-> ss, pending |-> h.pending, events |-> es]
            /\ QueuedParts(h, k, NoSlot, "Closed")
                  = [slots |-> tt, pending |-> h.pending, events |-> es]
        BY <3>1 DEF QueuedParts
      <4> HIDE DEF ss, tt, es
      <4>3. Erase(p, k) = [p EXCEPT !.slots = [ss EXCEPT ![k] = NoSlot]]
        BY <4>2 DEF Erase
      <4> QED BY <4>1, <4>2, <4>3
    <3>4. g = Erase(p, k)
      BY <1>3, <3>2
    <3> HIDE DEF Full
    <3> QED BY <2>2, <3>3, <3>4
  <2> HIDE DEF Full
  <2> QED BY <2>1, <2>2
<1> HIDE DEF g
<1>9. RecordKeeps(h, g, k, "Closed", failing) /\ (g.slots[k] = NoSlot \/ g.slots[k] = sR)
  <2>1. g = IF k \in failing \/ Len(h.events) = EventQueueCapacity
            THEN WaitingParts(h, k, sR) ELSE QueuedParts(h, k, NoSlot, "Closed")
    BY <1>8
  <2> HIDE DEF s, Full
  <2>2. ~ h.slots[k].pendingRegistered /\ Deferred(h.slots[k]) = <<>>
    BY <1>2
  <2> QED BY <1>4, <1>5, <1>6, <2>1, <2>2, PublishedOrDeferred
<1> QED
  BY <1>4, <1>5, <1>9 DEF g, p, s1

\* A packet of an open session, when there is room.
LEMMA PacketParts ==
  ASSUME NEW h, HandoffSound(h), NEW k \in Sessions, h.slots[k].present,
         CanPublishPacket(h.slots[k]), Len(h.events) < EventQueueCapacity
  PROVE  LET g == Push(h, "Packet", k)
         IN RecordKeeps(h, g, k, "Packet", {}) /\ g.slots[k] = h.slots[k]
<1> DEFINE s == h.slots[k]
<1>1. /\ h \in Parts /\ h.slots \in [Sessions -> Slot] /\ s \in Slot /\ SlotSound(s)
      /\ h.events \in Seq(Fact) /\ Len(h.events) # EventQueueCapacity
  BY ToWorldHandoffAssumption DEF HandoffSound, Parts
<1>2. ~ s.pendingRegistered /\ Deferred(s) = <<>> /\ "Packet" \in Kinds
  BY <1>1 DEF Slot, SlotSound, NextPendingKind, Deferred, CanPublishPacket, Kinds
<1>3. Push(h, "Packet", k) = QueuedParts(h, k, s, "Packet")
  <2>1. [h.slots EXCEPT ![k] = h.slots[k]] = h.slots
    BY <1>1
  <2> DEFINE es == Append(h.events, [kind |-> "Packet", key |-> k])
  <2>2. Push(h, "Packet", k) = [h EXCEPT !.events = es]
    BY DEF Push
  <2>3. QueuedParts(h, k, s, "Packet") = [slots |-> h.slots, pending |-> h.pending,
                                          events |-> es]
    BY <2>1 DEF QueuedParts
  <2> HIDE DEF es
  <2> QED BY <1>1, <2>2, <2>3 DEF Parts
<1>4. /\ RecordKeeps(h, QueuedParts(h, k, s, "Packet"), k, "Packet", {})
      /\ QueuedParts(h, k, s, "Packet").slots[k] = s
  BY <1>1, <1>2, PublishedNow
<1> QED
  BY <1>3, <1>4

-----------------------------------------------------------------------------
(***************************************************************************)
(* The inductive invariant.                                                *)
(***************************************************************************)
\* The parts are the variables the lock protects.
LEMMA LockedFields ==
  /\ Locked.slots = slots /\ Locked.pending = pending /\ Locked.events = events
  /\ Locked'.slots = slots' /\ Locked'.pending = pending' /\ Locked'.events = events'
BY DEF Locked

\* What a critical section publishes at its end is the next state.
LEMMA Unlocked ==
  ASSUME NEW g \in Parts, Unlock(g)
  PROVE  Locked' = g
BY DEF Locked, Unlock, Parts

\* The handoff starts in a state of the inductive invariant.
LEMMA InitKept == Init => HandoffInv
<1> SUFFICES ASSUME Init
             PROVE  HandoffInv
  OBVIOUS
<1>1. /\ \A k \in Sessions : slots[k] = NoSlot
      /\ slots \in [Sessions -> Slot] /\ pending = <<>> /\ events = <<>>
  BY NoSlotSound DEF Init
<1>2. HandoffSound(Locked)
  <2>1. Locked \in Parts
    BY <1>1 DEF Locked, Parts
  <2>2. Present(Locked) = {} /\ Registered(Locked) = {}
    BY <1>1, LockedFields DEF Present, Registered, NoSlot
  <2>3. Distinct(<<>>) /\ InRing(<<>>) = {}
    BY DEF Distinct, InRing
  <2>4. Cardinality({}) = 0 /\ Len(<<>>) = 0
    BY FS_EmptySet
  <2> QED
    BY <1>1, <2>1, <2>2, <2>3, <2>4, NoSlotSound, LockedFields, ToWorldHandoffAssumption
       DEF HandoffSound
<1>3. WaitsOnlyWhenFull(Locked)
  BY <1>1, LockedFields DEF WaitsOnlyWhenFull
<1>4. ThreadsOK /\ RecordInv /\ ConsumerInv
  BY <1>1 DEF Init, ThreadsOK, RecordInv, ConsumerInv, NoSlot
<1> QED
  BY <1>2, <1>3, <1>4 DEF HandoffInv

\* A step that changes one slot, and no fact.
LEMMA SlotStep ==
  ASSUME HandoffInv, NEW k \in Sessions, NEW r \in Slot, SlotSound(r),
         ~ r.pendingRegistered, ~ slots[k].pendingRegistered,
         r.present => slots[k].present \/ Cardinality(Present(Locked)) < MaxSessionCount,
         slots' = [slots EXCEPT ![k] = r],
         UNCHANGED <<memory, pending, events, closed, closer, consumer, recorded>>
  PROVE  /\ HandoffSound(Locked)'
         /\ memory' = "ample" => WaitsOnlyWhenFull(Locked)'
         /\ \A j \in Sessions : Content(Locked', j) = Content(Locked, j)
         /\ ConsumerInv'
<1>1. /\ HandoffSound(Locked) /\ slots \in [Sessions -> Slot] /\ events \in Seq(Fact)
      /\ Len(events) <= EventQueueCapacity /\ \A j \in Sessions : SlotSound(slots[j])
  BY LockedFields DEF HandoffInv, HandoffSound, Parts
<1>2. Locked' = [slots |-> [Locked.slots EXCEPT ![k] = r], pending |-> Locked.pending,
                 events |-> Locked.events]
  BY DEF Locked
<1>3. HandoffSound([slots |-> [Locked.slots EXCEPT ![k] = r], pending |-> Locked.pending,
                    events |-> Locked.events])
  BY <1>1, LockedFields, SlotChanged
<1>4. HandoffSound(Locked)'
  BY <1>2, <1>3
<1>5. memory' = "ample" => WaitsOnlyWhenFull(Locked)'
  BY LockedFields DEF HandoffInv, WaitsOnlyWhenFull
<1>6. Deferred(r) = <<>> /\ Deferred(slots[k]) = <<>>
  BY <1>1 DEF SlotSound, Deferred
<1>7. \A j \in Sessions : Content(Locked', j) = Content(Locked, j)
  <2>1. \A j \in Sessions : Deferred(slots'[j]) = Deferred(slots[j])
    BY <1>1, <1>6
  <2> QED BY <2>1, LockedFields DEF Content
<1>8. ConsumerInv'
  BY DEF HandoffInv, ConsumerInv
<1> QED
  BY <1>4, <1>5, <1>7, <1>8

\* A reservation keeps the invariant and records nothing.
LEMMA ReserveSessionKeeps ==
  ASSUME HandoffInv, NEW k \in Sessions, ReserveSession(k)
  PROVE  HandoffInv' /\ \A j \in Sessions : Content(Locked', j) = Content(Locked, j)
<1> DEFINE s == slots[k]
           r == [s EXCEPT !.present = TRUE]
<1>1. /\ ThreadsOK /\ RecordInv /\ slots \in [Sessions -> Slot] /\ SlotSound(s) /\ s \in Slot
      /\ ~ s.present
  BY LockedFields DEF HandoffInv, HandoffSound, Parts, ReserveSession
<1>2. r \in Slot /\ SlotSound(r) /\ ~ r.pendingRegistered /\ ~ s.pendingRegistered
      /\ ~ r.acceptedRecorded
  BY <1>1 DEF Slot, SlotSound, NextPendingKind
<1>3. slots' = [slots EXCEPT ![k] = r]
  <2>1. [slots EXCEPT ![k].present = TRUE] = [slots EXCEPT ![k] = r]
    BY <1>1
  <2> QED BY <2>1 DEF ReserveSession
<1>4. Cardinality(Present(Locked)) < MaxSessionCount
  BY LockedFields DEF ReserveSession, SlotCount, Present
<1>5. /\ HandoffSound(Locked)'
      /\ memory' = "ample" => WaitsOnlyWhenFull(Locked)'
      /\ \A j \in Sessions : Content(Locked', j) = Content(Locked, j)
      /\ ConsumerInv'
  <2> HIDE DEF r
  <2> QED BY <1>2, <1>3, <1>4, SlotStep DEF ReserveSession
<1>6. ThreadsOK'
  BY <1>1 DEF ThreadsOK, ReserveSession
<1>7. RecordInv'
  <2>1. /\ issued' = issued \cup {k} /\ recorded' = recorded /\ k \notin issued
    BY DEF ReserveSession
  <2>2. \A j \in Sessions : j # k => slots'[j] = slots[j]
    BY <1>1, <1>3
  <2>3. slots'[k] = r
    BY <1>1, <1>3
  <2> HIDE DEF r
  <2> QED BY <1>1, <1>2, <2>1, <2>2, <2>3 DEF RecordInv
<1> QED
  BY <1>5, <1>6, <1>7 DEF HandoffInv

\* A session that was never accepted leaves.
LEMMA ForgottenKeeps ==
  ASSUME HandoffInv, NEW k \in Sessions,
         CancelSessionReservation(k) \/ RecordClosedUnaccepted(k)
  PROVE  HandoffInv' /\ \A j \in Sessions : Content(Locked', j) = Content(Locked, j)
<1>1. /\ ThreadsOK /\ RecordInv /\ slots \in [Sessions -> Slot] /\ SlotSound(slots[k])
      /\ ~ slots[k].pendingRegistered
  BY LockedFields DEF HandoffInv, HandoffSound, Parts, SlotSound, CancelSessionReservation,
                      RecordClosedUnaccepted
<1>2. /\ slots' = [slots EXCEPT ![k] = NoSlot]
      /\ UNCHANGED <<memory, pending, events, closed, closer, consumer, recorded>>
      /\ UNCHANGED issued
  BY DEF CancelSessionReservation, RecordClosedUnaccepted
<1>3. ~ NoSlot.pendingRegistered /\ ~ NoSlot.present
  BY DEF NoSlot
<1>4. /\ HandoffSound(Locked)'
      /\ memory' = "ample" => WaitsOnlyWhenFull(Locked)'
      /\ \A j \in Sessions : Content(Locked', j) = Content(Locked, j)
      /\ ConsumerInv'
  BY <1>1, <1>2, <1>3, NoSlotSound, SlotStep
<1>5. ThreadsOK'
  BY <1>1, <1>2 DEF ThreadsOK
<1>6. RecordInv'
  <2>1. \A j \in Sessions : slots'[j] = IF j = k THEN NoSlot ELSE slots[j]
    BY <1>1, <1>2
  <2> QED BY <1>1, <1>2, <1>3, <2>1 DEF RecordInv
<1> QED
  BY <1>4, <1>5, <1>6 DEF HandoffInv

\* A step that records a fact of session k.
LEMMA RecordStep ==
  ASSUME HandoffInv, NEW k \in Sessions, NEW g, NEW fact, NEW failing \in Failures({k}),
         RecordKeeps(Locked, g, k, fact, failing), ~ closed,
         Unlock(g), consumer' = WakeIfWasEmpty(g),
         UNCHANGED <<memory, closed, closer, issued>>
  PROVE  /\ Locked' = g
         /\ HandoffSound(Locked)'
         /\ memory' = "ample" => WaitsOnlyWhenFull(Locked)'
         /\ ConsumerInv'
         /\ consumer' \in {"Running", "Wait", "Blocked", "Closed"}
         /\ \A j \in Sessions : j # k => slots'[j] = slots[j]
         /\ slots'[k] = g.slots[k]
<1>1. HandoffSound(g) /\ g \in Parts
  BY DEF RecordKeeps, HandoffSound
<1>2. Locked' = g
  BY <1>1, Unlocked
<1>3. memory = "ample" => failing = {}
  BY DEF Failures
<1>4. memory' = "ample" => WaitsOnlyWhenFull(Locked)'
  BY <1>2, <1>3 DEF HandoffInv, RecordKeeps
<1>5. consumer \in {"Running", "Wait", "Blocked"} /\ (consumer = "Blocked" => events = <<>>)
  BY DEF HandoffInv, ConsumerInv, ThreadsOK
<1>6. ConsumerInv' /\ consumer' \in {"Running", "Wait", "Blocked", "Closed"}
  BY <1>5 DEF ConsumerInv, WakeIfWasEmpty, Unlock
<1>7. slots' = g.slots
  BY DEF Unlock
<1> QED
  BY <1>1, <1>2, <1>4, <1>6, <1>7, LockedFields DEF RecordKeeps

\* RecordAccepted keeps the invariant; it is the first fact of its session.
LEMMA RecordAcceptedKeeps ==
  ASSUME HandoffInv, NEW k \in Sessions, NEW failing \in Failures({k}),
         RecordAccepted(k, failing)
  PROVE  /\ HandoffInv'
         /\ Recorded(Locked, Locked', k, "Accepted")
         /\ recorded[k] = "Unknown" /\ recorded' = [recorded EXCEPT ![k] = "Open"]
<1> DEFINE h == Locked
           g == PublishOrDefer([h EXCEPT !.slots[k].acceptedRecorded = TRUE], k, failing)
<1>1. /\ ThreadsOK /\ RecordInv /\ HandoffSound(h) /\ slots[k].present
      /\ ~ slots[k].acceptedRecorded /\ ~ closed
      /\ h.slots = slots
  BY LockedFields DEF HandoffInv, RecordAccepted
<1>2. /\ Unlock(g) /\ consumer' = WakeIfWasEmpty(g)
      /\ recorded' = [recorded EXCEPT ![k] = "Open"]
      /\ UNCHANGED <<memory, closed, closer, issued>>
  BY DEF RecordAccepted
<1> HIDE DEF h
<1>3. /\ RecordKeeps(h, g, k, "Accepted", failing)
      /\ g.slots[k].present /\ g.slots[k].acceptedRecorded /\ ~ g.slots[k].closedRecorded
  BY <1>1, AcceptedParts
<1> HIDE DEF g
<1>4. /\ Locked' = g
      /\ HandoffSound(Locked)'
      /\ memory' = "ample" => WaitsOnlyWhenFull(Locked)'
      /\ ConsumerInv'
      /\ consumer' \in {"Running", "Wait", "Blocked", "Closed"}
      /\ \A j \in Sessions : j # k => slots'[j] = slots[j]
      /\ slots'[k] = g.slots[k]
  BY <1>1, <1>2, <1>3, RecordStep DEF h
<1>5. ThreadsOK'
  BY <1>1, <1>2, <1>4 DEF ThreadsOK
<1>6. recorded[k] = "Unknown" /\ k \in issued
  BY <1>1 DEF RecordInv
<1>7. RecordInv'
  BY <1>1, <1>2, <1>3, <1>4, <1>6 DEF RecordInv, ThreadsOK
<1>8. Recorded(h, g, k, "Accepted")
  BY <1>3 DEF RecordKeeps
<1> QED
  BY <1>2, <1>4, <1>5, <1>6, <1>7, <1>8 DEF HandoffInv, h

\* RecordClosed keeps the invariant; it is recorded of an open session.
LEMMA RecordClosedKeeps ==
  ASSUME HandoffInv, NEW k \in Sessions, NEW failing \in Failures({k}),
         RecordClosed(k, failing)
  PROVE  /\ HandoffInv'
         /\ Recorded(Locked, Locked', k, "Closed")
         /\ recorded[k] = "Open" /\ recorded' = [recorded EXCEPT ![k] = "Ended"]
<1> DEFINE h == Locked
           g == RecordClosedParts(k, failing)
           s1 == [h.slots[k] EXCEPT !.closedRecorded = TRUE]
           f == [slots |-> [h.slots EXCEPT ![k] = s1], pending |-> h.pending,
                 events |-> h.events]
           p == PublishOrDefer(f, k, failing)
<1>1. /\ ThreadsOK /\ RecordInv /\ HandoffSound(h) /\ h \in Parts /\ h.slots = slots
      /\ slots[k].present /\ slots[k].acceptedRecorded /\ ~ slots[k].closedRecorded
      /\ ~ closed /\ slots \in [Sessions -> Slot] /\ slots[k] \in Slot
  BY LockedFields DEF HandoffInv, HandoffSound, Parts, RecordClosed
<1>2. /\ Unlock(g) /\ consumer' = WakeIfWasEmpty(g)
      /\ recorded' = [recorded EXCEPT ![k] = "Ended"]
      /\ UNCHANGED <<memory, closed, closer, issued>>
  BY DEF RecordClosed
<1>3. [h EXCEPT !.slots[k].closedRecorded = TRUE] = f
  <2> HIDE DEF h
  <2> QED BY <1>1, FieldSet
<1>4. f.slots[k].pendingRegistered <=> slots[k].pendingRegistered
  <2>1. f.slots[k] = s1
    BY <1>1
  <2> QED BY <1>1, <2>1 DEF Slot
<1>5. g = CASE f.slots[k].pendingRegistered -> f
            [] ~ f.slots[k].pendingRegistered /\ p.slots[k].closedCommitted -> Erase(p, k)
            [] OTHER -> p
  BY <1>3 DEF RecordClosedParts
<1>6. /\ RecordKeeps(h, g, k, "Closed", failing)
      /\ g.slots[k].present => g.slots[k].acceptedRecorded /\ g.slots[k].closedRecorded
  <2>1. CASE slots[k].pendingRegistered
    <3>1. g = f
      BY <1>4, <1>5, <2>1
    <3>2. s1.acceptedRecorded /\ s1.closedRecorded
      BY <1>1 DEF Slot
    <3>3. RecordKeeps(h, f, k, "Closed", failing) /\ f.slots[k] = s1
      <4> HIDE DEF h
      <4> QED BY <1>1, <2>1, ClosedBehindAccepted
    <3> HIDE DEF f, g, s1
    <3> QED BY <3>1, <3>2, <3>3
  <2>2. CASE ~ slots[k].pendingRegistered
    <3> DEFINE q == IF p.slots[k].closedCommitted THEN Erase(p, k) ELSE p
    <3>1. g = q
      BY <1>4, <1>5, <2>2
    <3>2. /\ RecordKeeps(h, q, k, "Closed", failing)
          /\ q.slots[k].present => q.slots[k].acceptedRecorded /\ q.slots[k].closedRecorded
      <4> HIDE DEF h
      <4> QED BY <1>1, <2>2, ClosedAlone
    <3> HIDE DEF q, g
    <3> QED BY <3>1, <3>2
  <2> QED BY <2>1, <2>2
<1> HIDE DEF g, f, p, s1
<1>7. /\ Locked' = g
      /\ HandoffSound(Locked)'
      /\ memory' = "ample" => WaitsOnlyWhenFull(Locked)'
      /\ ConsumerInv'
      /\ consumer' \in {"Running", "Wait", "Blocked", "Closed"}
      /\ \A j \in Sessions : j # k => slots'[j] = slots[j]
      /\ slots'[k] = g.slots[k]
  BY <1>1, <1>2, <1>6, RecordStep DEF h
<1>8. ThreadsOK'
  BY <1>1, <1>2, <1>7 DEF ThreadsOK
<1>9. recorded[k] = "Open" /\ k \in issued
  BY <1>1 DEF RecordInv
<1>10. RecordInv'
  BY <1>1, <1>2, <1>6, <1>7, <1>9 DEF RecordInv, ThreadsOK
<1>11. Recorded(h, g, k, "Closed")
  BY <1>6 DEF RecordKeeps
<1> QED
  BY <1>2, <1>7, <1>8, <1>9, <1>10, <1>11 DEF HandoffInv, h

\* RecordPacket keeps the invariant; it is recorded of an open session.
LEMMA RecordPacketKeeps ==
  ASSUME HandoffInv, NEW k \in Sessions, RecordPacket(k)
  PROVE  /\ HandoffInv'
         /\ Recorded(Locked, Locked', k, "Packet")
         /\ recorded[k] = "Open" /\ recorded' = recorded
<1> DEFINE h == Locked
           g == Push(h, "Packet", k)
<1>1. /\ ThreadsOK /\ RecordInv /\ HandoffSound(h) /\ h.slots = slots /\ h.events = events
      /\ slots[k].present /\ CanPublishPacket(slots[k]) /\ SlotSound(slots[k])
      /\ Len(events) < EventQueueCapacity /\ ~ closed
  BY LockedFields DEF HandoffInv, HandoffSound, RecordPacket
<1>2. /\ Unlock(g) /\ consumer' = WakeIfWasEmpty(g)
      /\ recorded' = recorded
      /\ UNCHANGED <<memory, closed, closer, issued>>
  BY DEF RecordPacket
<1>3. {} \in Failures({k})
  BY DEF Failures
<1> HIDE DEF h
<1>4. RecordKeeps(h, g, k, "Packet", {}) /\ g.slots[k] = h.slots[k]
  BY <1>1, PacketParts
<1> HIDE DEF g
<1>5. /\ Locked' = g
      /\ HandoffSound(Locked)'
      /\ memory' = "ample" => WaitsOnlyWhenFull(Locked)'
      /\ ConsumerInv'
      /\ consumer' \in {"Running", "Wait", "Blocked", "Closed"}
      /\ \A j \in Sessions : j # k => slots'[j] = slots[j]
      /\ slots'[k] = g.slots[k]
  BY <1>1, <1>2, <1>3, <1>4, RecordStep DEF h
<1>6. ThreadsOK'
  BY <1>1, <1>2, <1>5 DEF ThreadsOK
<1>7. recorded[k] = "Open"
  BY <1>1 DEF RecordInv, SlotSound, CanPublishPacket
<1>8. RecordInv'
  <2>1. \A j \in Sessions : slots'[j] = slots[j]
    BY <1>1, <1>4, <1>5
  <2> QED BY <1>1, <1>2, <2>1 DEF RecordInv
<1>9. Recorded(h, g, k, "Packet")
  BY <1>4 DEF RecordKeeps
<1> QED
  BY <1>2, <1>5, <1>6, <1>7, <1>8, <1>9 DEF HandoffInv, h

\* A pop, whatever its size, keeps the invariant and delivers oldest facts first.
LEMMA PopBatchKeeps ==
  ASSUME HandoffInv, NEW n \in Nat, NEW ks, NEW failing \in Failures(ks),
         TryPopBatch(n, failing)
  PROVE  HandoffInv' /\ Delivered(Locked, Locked') /\ recorded' = recorded
<1> DEFINE h == Locked
           result == PopUpTo(h, n, failing)
           g == result.parts
<1>1. ThreadsOK /\ RecordInv /\ HandoffSound(h)
  BY DEF HandoffInv
<1>2. /\ Unlock(g) /\ consumer' \in {"Wait", "Running"}
      /\ UNCHANGED <<memory, closed, closer, issued, recorded>>
  BY DEF TryPopBatch
<1> HIDE DEF h
<1>3. /\ HandoffSound(g) /\ Delivered(h, g)
      /\ failing = {} /\ WaitsOnlyWhenFull(h) => WaitsOnlyWhenFull(g)
  BY <1>1, PopsKeep
<1> HIDE DEF g
<1>4. Locked' = g
  BY <1>2, <1>3, Unlocked DEF HandoffSound
<1>5. memory' = "ample" => WaitsOnlyWhenFull(Locked)'
  <2>1. memory = "ample" => failing = {}
    BY DEF Failures
  <2> QED BY <1>2, <1>3, <1>4, <2>1 DEF HandoffInv, h
<1>6. ThreadsOK' /\ ConsumerInv'
  BY <1>1, <1>2 DEF ThreadsOK, ConsumerInv
<1>7. RecordInv'
  <2>1. \A k \in Sessions : SlotKept(slots[k], slots'[k])
    BY <1>3, <1>4, LockedFields DEF Delivered, h
  <2> QED BY <1>1, <1>2, <2>1 DEF RecordInv, SlotKept
<1> QED
  BY <1>2, <1>3, <1>4, <1>5, <1>6, <1>7 DEF HandoffInv, h

\* The steps that leave what the lock protects alone.
LEMMA ThreadStepKeeps ==
  ASSUME HandoffInv,
         \/ WaitForEvents \/ WaitTimesOut \/ Close \/ CloseNotifies \/ MemoryRunsShort
         \/ UNCHANGED vars
  PROVE  HandoffInv' /\ Locked' = Locked /\ recorded' = recorded
<1>1. /\ ThreadsOK /\ RecordInv /\ ConsumerInv /\ HandoffSound(Locked)
      /\ memory = "ample" => WaitsOnlyWhenFull(Locked)
  BY DEF HandoffInv
<1>2. UNCHANGED <<slots, pending, events, issued, recorded>>
  BY DEF WaitForEvents, WaitTimesOut, Close, CloseNotifies, MemoryRunsShort, vars
<1>3. Locked' = Locked
  BY <1>2 DEF Locked
<1>4. ThreadsOK' /\ ConsumerInv'
  BY <1>1 DEF ThreadsOK, ConsumerInv, WaitForEvents, WaitTimesOut, WaitResult, Close,
              CloseNotifies, MemoryRunsShort, vars
<1>5. memory' = "ample" => memory = "ample"
  BY DEF WaitForEvents, WaitTimesOut, Close, CloseNotifies, MemoryRunsShort, vars
<1>6. RecordInv'
  BY <1>1, <1>2 DEF RecordInv
<1> QED
  BY <1>1, <1>2, <1>3, <1>4, <1>5, <1>6 DEF HandoffInv

-----------------------------------------------------------------------------
(***************************************************************************)
(* The theorems.                                                           *)
(***************************************************************************)
\* Every step of the handoff keeps the inductive invariant.
LEMMA NextKept == HandoffInv /\ [Next]_vars => HandoffInv'
<1> SUFFICES ASSUME HandoffInv, [Next]_vars
             PROVE  HandoffInv'
  OBVIOUS
<1>1. CASE \E k \in Sessions : \E failing \in Failures({k}) : Produce(k, failing)
  <2>1. PICK k \in Sessions : \E failing \in Failures({k}) : Produce(k, failing)
    BY <1>1
  <2>2. PICK failing \in Failures({k}) : Produce(k, failing)
    BY <2>1
  <2> QED BY <2>2, ReserveSessionKeeps, ForgottenKeeps, RecordAcceptedKeeps,
             RecordPacketKeeps, RecordClosedKeeps DEF Produce
<1>2. CASE Pop
  <2>1. PICK failing \in Failures({pending[i] : i \in DOMAIN pending}) :
           TryPop(failing) \/ TryPopBatch(BatchSize, failing)
    BY <1>2 DEF Pop
  <2>2. 1 \in Nat /\ BatchSize \in Nat
    BY ToWorldHandoffAssumption
  <2> QED BY <2>1, <2>2, PopBatchKeeps DEF TryPop
<1>3. CASE WaitForEvents \/ WaitTimesOut \/ Close \/ CloseNotifies \/ MemoryRunsShort
           \/ UNCHANGED vars
  BY <1>3, ThreadStepKeeps
<1> QED
  BY <1>1, <1>2, <1>3 DEF Next

\* The inductive invariant holds in every state of the handoff.
THEOREM HandoffInvariant == Spec => []HandoffInv
BY InitKept, NextKept, PTL DEF Spec

\* The invariant implies the types, the bound on the ring among them.
LEMMA TypeFromInv == HandoffInv => TypeOK
<1> SUFFICES ASSUME HandoffInv
             PROVE  TypeOK
  OBVIOUS
<1>1. /\ slots \in [Sessions -> Slot] /\ pending \in Seq(Sessions) /\ events \in Seq(Fact)
      /\ Len(events) <= EventQueueCapacity
  BY LockedFields DEF HandoffInv, HandoffSound, Parts
<1>2. Len(pending) <= MaxSessionCount
  <2>1. Len(Locked.pending) \in 0 .. MaxSessionCount
    BY RoomInRing DEF HandoffInv
  <2> QED BY <2>1, LockedFields, ToWorldHandoffAssumption
<1> QED
  BY <1>1, <1>2 DEF TypeOK, HandoffInv, ThreadsOK, Fact

\* The invariant implies that ring and slots agree.
LEMMA RingFromInv == HandoffInv => RingMatchesSlots
<1> SUFFICES ASSUME HandoffInv
             PROVE  RingMatchesSlots
  OBVIOUS
<1>1. /\ pending \in Seq(Sessions) /\ Distinct(pending)
      /\ InRing(pending) = {k \in Sessions : slots[k].pendingRegistered}
      /\ \A k \in Sessions : SlotSound(slots[k])
  BY LockedFields DEF HandoffInv, HandoffSound, Parts, Registered
<1>2. DOMAIN pending = 1 .. Len(pending)
  BY <1>1
<1>3. {pending[i] : i \in DOMAIN pending} = InRing(pending)
  BY <1>2 DEF InRing
<1>4. Cardinality(InRing(pending)) = Len(pending)
  BY <1>1, RingSize
<1> QED
  BY <1>1, <1>3, <1>4 DEF RingMatchesSlots, SlotSound

\* The invariant implies that facts wait only under a full queue, and that the
\* pump of a closed handoff leaves nothing behind.
LEMMA DrainedFromInv == HandoffInv => DeferredOnlyWhenFull /\ ClosedMeansDrained
<1> SUFFICES ASSUME HandoffInv
             PROVE  DeferredOnlyWhenFull /\ ClosedMeansDrained
  OBVIOUS
<1>1. memory = "ample" /\ pending # <<>> => Len(events) = EventQueueCapacity
  BY LockedFields DEF HandoffInv, WaitsOnlyWhenFull
<1>2. ASSUME consumer = "Closed", memory = "ample"
      PROVE  events = <<>> /\ \A k \in Sessions : Deferred(slots[k]) = <<>>
  <2>1. events = <<>>
    BY <1>2 DEF HandoffInv, ConsumerInv
  <2>2. pending = <<>>
    BY <1>1, <1>2, <2>1, ToWorldHandoffAssumption
  <2>3. InRing(pending) = {}
    BY <2>2 DEF InRing
  <2>4. /\ InRing(pending) = {k \in Sessions : slots[k].pendingRegistered}
        /\ \A k \in Sessions : SlotSound(slots[k])
    BY LockedFields DEF HandoffInv, HandoffSound, Registered
  <2>5. \A k \in Sessions : Deferred(slots[k]) = <<>>
    BY <2>3, <2>4 DEF SlotSound, Deferred
  <2> QED BY <2>1, <2>5
<1> QED
  BY <1>1, <1>2 DEF DeferredOnlyWhenFull, ClosedMeansDrained

\* Queue, ring and slots together never lose sight of a recorded fact.
THEOREM DeferralSound == Spec => []DeferralIsSound
<1>1. HandoffInv => DeferralIsSound
  BY TypeFromInv, RingFromInv, DrainedFromInv DEF DeferralIsSound
<1> QED
  BY <1>1, HandoffInvariant, PTL

\* The pump never sleeps beside an event.
THEOREM NoWakeupLost == Spec => []NoLostWakeup
<1>1. HandoffInv => NoLostWakeup
  BY DEF HandoffInv, ConsumerInv, NoLostWakeup
<1> QED
  BY <1>1, HandoffInvariant, PTL

-----------------------------------------------------------------------------
(***************************************************************************)
(* The refinement of SessionEventChannel.                                  *)
(***************************************************************************)
\* The channel of the parts h.
Chan(h) == [k \in Sessions |-> Content(h, k)]

\* The channel of what the lock protects is the one the refinement mapping names.
LEMMA ChanOfLocked ==
  /\ Chan(Locked) = [k \in Sessions |-> Queued(k) \o Deferred(slots[k])]
  /\ Chan(Locked') = [k \in Sessions |-> Queued(k) \o Deferred(slots[k])]'
BY DEF Chan, Content, Queued, Locked

\* Parts with the same contents are the same channel.
LEMMA SameChan ==
  ASSUME NEW h, NEW g, \A k \in Sessions : Content(g, k) = Content(h, k)
  PROVE  Chan(g) = Chan(h)
BY DEF Chan

\* What is left after the first facts of a sequence went is its end.
LEMMA RestOfConcat ==
  ASSUME NEW a \in Seq(Kinds), NEW b \in Seq(Kinds)
  PROVE  /\ Len(a) \in 0 .. Len(a \o b)
         /\ b = SubSeq(a \o b, Len(a) + 1, Len(a \o b))
<1>1. /\ a \o b \in Seq(Kinds) /\ Len(a \o b) = Len(a) + Len(b)
      /\ Len(a) \in Nat /\ Len(b) \in Nat
  BY ConcatProperties
<1>2. SubSeq(a \o b, Len(a) + 1, Len(a) + Len(b)) = b
  OBVIOUS
<1> QED
  BY <1>1, <1>2

\* A pop delivers, of each session, some of its oldest facts.
LEMMA DeliveredIsDeliver ==
  ASSUME NEW h, NEW g, HandoffSound(g), Delivered(h, g), NEW k \in Sessions
  PROVE  \E n \in 0 .. Len(Chan(h)[k]) :
            Chan(g)[k] = SubSeq(Chan(h)[k], n + 1, Len(Chan(h)[k]))
<1>1. PICK gone \in Seq(Kinds) : Content(h, k) = gone \o Content(g, k)
  BY DEF Delivered
<1>2. Content(g, k) \in Seq(Kinds)
  BY ContentType
<1>3. /\ Len(gone) \in 0 .. Len(Content(h, k))
      /\ Content(g, k) = SubSeq(Content(h, k), Len(gone) + 1, Len(Content(h, k)))
  BY <1>1, <1>2, RestOfConcat
<1>4. Chan(g)[k] = Content(g, k) /\ Chan(h)[k] = Content(h, k)
  BY DEF Chan
<1> QED
  BY <1>3, <1>4

\* The handoff starts as an empty channel.
LEMMA InitIsChannelInit == Init => Channel!Init
<1> SUFFICES ASSUME Init
             PROVE  Channel!Init
  OBVIOUS
<1>1. \A k \in Sessions : Queued(k) \o Deferred(slots[k]) = <<>>
  <2> TAKE k \in Sessions
  <2>1. FactsOf(events, k) = <<>> /\ Deferred(slots[k]) = <<>>
    BY FactsEmpty, NoSlotSound DEF Init
  <2> QED BY <2>1 DEF Queued
<1> QED
  BY <1>1 DEF Init, Channel!Init

\* Every step of the handoff is a step of the channel, or leaves it as it is.
LEMMA StepIsChannelStep ==
  HandoffInv /\ [Next]_vars => [Channel!Next]_(Channel!vars)
<1> SUFFICES ASSUME HandoffInv, [Next]_vars
             PROVE  [Channel!Next]_(Channel!vars)
  OBVIOUS
<1> DEFINE c == Chan(Locked)
           d == Chan(Locked')
<1>1. ASSUME NEW k \in Sessions, NEW failing \in Failures({k}), RecordAccepted(k, failing)
      PROVE  Channel!Accept(k)
  <2>1. Recorded(Locked, Locked', k, "Accepted")
    BY <1>1, RecordAcceptedKeeps
  <2>2. Chan(Locked') = [Chan(Locked) EXCEPT ![k] = Append(@, "Accepted")]
    BY <2>1 DEF Recorded, Chan
  <2> QED BY <1>1, <2>2, RecordAcceptedKeeps, ChanOfLocked
          DEF Channel!Accept, Channel!Record
<1>2. ASSUME NEW k \in Sessions, RecordPacket(k)
      PROVE  Channel!Packet(k)
  <2>1. Recorded(Locked, Locked', k, "Packet")
    BY <1>2, RecordPacketKeeps
  <2>2. Chan(Locked') = [Chan(Locked) EXCEPT ![k] = Append(@, "Packet")]
    BY <2>1 DEF Recorded, Chan
  <2> QED BY <1>2, <2>2, RecordPacketKeeps, ChanOfLocked
          DEF Channel!Packet, Channel!Record
<1>3. ASSUME NEW k \in Sessions, NEW failing \in Failures({k}), RecordClosed(k, failing)
      PROVE  Channel!Close(k)
  <2>1. Recorded(Locked, Locked', k, "Closed")
    BY <1>3, RecordClosedKeeps
  <2>2. Chan(Locked') = [Chan(Locked) EXCEPT ![k] = Append(@, "Closed")]
    BY <2>1 DEF Recorded, Chan
  <2> QED BY <1>3, <2>2, RecordClosedKeeps, ChanOfLocked
          DEF Channel!Close, Channel!Record
<1>4. ASSUME NEW k \in Sessions,
             ReserveSession(k) \/ CancelSessionReservation(k) \/ RecordClosedUnaccepted(k)
      PROVE  UNCHANGED Channel!vars
  <2>1. d = c
    BY <1>4, ReserveSessionKeeps, ForgottenKeeps, SameChan
  <2>2. recorded' = recorded
    BY <1>4 DEF ReserveSession, CancelSessionReservation, RecordClosedUnaccepted
  <2> QED BY <2>1, <2>2, ChanOfLocked DEF Channel!vars
<1>5. CASE Pop
  <2>1. PICK failing \in Failures({pending[i] : i \in DOMAIN pending}) :
           TryPop(failing) \/ TryPopBatch(BatchSize, failing)
    BY <1>5 DEF Pop
  <2>2. 1 \in Nat /\ BatchSize \in Nat
    BY ToWorldHandoffAssumption
  <2>3. HandoffSound(Locked') /\ Delivered(Locked, Locked') /\ recorded' = recorded
    BY <2>1, <2>2, PopBatchKeeps DEF TryPop, HandoffInv
  <2>4. \A k \in Sessions : \E n \in 0 .. Len(c[k]) :
           d[k] = SubSeq(c[k], n + 1, Len(c[k]))
    BY <2>3, DeliveredIsDeliver
  <2>5. Channel!Deliver
    BY <2>3, <2>4, ChanOfLocked DEF Channel!Deliver
  <2> QED BY <2>5 DEF Channel!Next
<1>6. CASE WaitForEvents \/ WaitTimesOut \/ Close \/ CloseNotifies \/ MemoryRunsShort
           \/ UNCHANGED vars
  <2>1. d = c /\ recorded' = recorded
    BY <1>6, ThreadStepKeeps
  <2> QED BY <2>1, ChanOfLocked DEF Channel!vars
<1>7. CASE \E k \in Sessions : \E failing \in Failures({k}) : Produce(k, failing)
  <2>1. PICK k \in Sessions : \E failing \in Failures({k}) : Produce(k, failing)
    BY <1>7
  <2>2. PICK failing \in Failures({k}) : Produce(k, failing)
    BY <2>1
  <2> QED BY <1>1, <1>2, <1>3, <1>4, <2>2 DEF Produce, Channel!Next
<1> QED
  BY <1>5, <1>6, <1>7 DEF Next

\* The handoff is a FIFO of facts per session.
THEOREM HandoffImplementsChannel == Spec => ImplementsChannel
<1>1. Init => Channel!Init
  BY InitIsChannelInit
<1>2. HandoffInv /\ [Next]_vars => [Channel!Next]_(Channel!vars)
  BY StepIsChannelStep
<1> QED
  BY <1>1, <1>2, HandoffInvariant, PTL DEF Spec, ImplementsChannel, Channel!Spec

=============================================================================
