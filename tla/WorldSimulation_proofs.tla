------------------------ MODULE WorldSimulation_proofs ------------------------
(***************************************************************************)
(* Proofs about WorldSimulation, for every value of the constants.  Two    *)
(* inductive invariants stand behind them.                                 *)
(*                                                                         *)
(* WInv: the session table stays one table, and sessions, send channels,   *)
(* visible sets and scores speak of the same players.  It gives            *)
(* SessionsAreOneWorld and RoundsBeginEmpty.  The first part says what     *)
(* each operator of the table does to the joined and the registered        *)
(* sessions, with the dense vector and its index kept consistent (Places); *)
(* the second takes the actions.                                           *)
(*                                                                         *)
(* Whole, on top of WInv: entities, scores, resources, slots and drops are *)
(* one world, every controlled entity has its owner, and batch and round   *)
(* keep time.  It gives EntitiesAreOneWorld and WorldNeverStopsItself.     *)
(* From entity identities and the loops over several entities the parts go *)
(* up to the operators of the gameplay rules (join, leave, respawn, reset, *)
(* commit), the owners, and again the actions.                             *)
(***************************************************************************)
EXTENDS WorldSimulation, FiniteSetTheorems, NaturalsInduction, TLAPS

-----------------------------------------------------------------------------
(***************************************************************************)
(* Functions.                                                              *)
(***************************************************************************)
LEMMA Extended ==
  ASSUME NEW f, NEW x, NEW v
  PROVE  /\ DOMAIN With(f, x, v) = DOMAIN f \cup {x}
         /\ With(f, x, v)[x] = v
         /\ \A y \in DOMAIN f \ {x} : With(f, x, v)[y] = f[y]
BY DEF With, Over

LEMMA Removed ==
  ASSUME NEW f, NEW x
  PROVE  /\ DOMAIN Without(f, x) = DOMAIN f \ {x}
         /\ \A z \in DOMAIN f \ {x} : Without(f, x)[z] = f[z]
BY DEF Without

LEMMA FunctionIsSeq ==
  ASSUME NEW S, NEW n \in Nat, NEW d \in [1 .. n -> S]
  PROVE  d \in Seq(S) /\ Len(d) = n
OBVIOUS

-----------------------------------------------------------------------------
(***************************************************************************)
(* The session table.                                                      *)
(***************************************************************************)
Roles == {"Connected", "Player", "Observer"}

\* The entries of a table whose entity keys are in K.
Entries(K) == [session : Sessions, player : Nat, key : K, role : Roles]

\* A vector d of entries, the first j of which are the players, and the index x
\* from sessions to places.
Indexed(d, j, x) ==
  /\ \E K : d \in Seq(Entries(K))
  /\ j \in 0 .. Len(d)
  /\ x \in [DOMAIN x -> 1 .. Len(d)]
  /\ \A s \in DOMAIN x : d[x[s]].session = s
  /\ \A i \in 1 .. Len(d) : d[i].session \in DOMAIN x /\ x[d[i].session] = i

PlayersFirst(d, j) ==
  /\ \A i \in 1 .. Len(d) : (i <= j) <=> (d[i].role = "Player")
  /\ \A i, k \in 1 .. j : d[i].player = d[k].player => i = k

Shape(r) == r = [dense |-> r.dense, joined |-> r.joined, index |-> r.index, owner |-> r.owner]

Places(r) ==
  /\ Shape(r)
  /\ Indexed(r.dense, r.joined, r.index)
  /\ PlayersFirst(r.dense, r.joined)

Table(d, j, x, o) == [dense |-> d, joined |-> j, index |-> x, owner |-> o]

\* What the updates of a table give.
LEMMA TableUpdates ==
  ASSUME NEW r, Shape(r), NEW d, NEW j, NEW x, NEW o
  PROVE  /\ [r EXCEPT !.dense = d] = Table(d, r.joined, r.index, r.owner)
         /\ [r EXCEPT !.joined = j] = Table(r.dense, j, r.index, r.owner)
         /\ [r EXCEPT !.owner = o] = Table(r.dense, r.joined, r.index, o)
         /\ [r EXCEPT !.dense = d, !.index = x] = Table(d, r.joined, x, r.owner)
         /\ [r EXCEPT !.index = x, !.dense = d] = Table(d, r.joined, x, r.owner)
<1> DEFINE rd == [r EXCEPT !.dense = d]
           rx == [r EXCEPT !.index = x]
<1>1. /\ [r EXCEPT !.dense = d] = Table(d, r.joined, r.index, r.owner)
      /\ [r EXCEPT !.index = x] = Table(r.dense, r.joined, x, r.owner)
      /\ [r EXCEPT !.owner = o] = Table(r.dense, r.joined, r.index, o)
      /\ [r EXCEPT !.joined = j] = Table(r.dense, j, r.index, r.owner)
  BY DEF Shape, Table
<1>2. /\ [r EXCEPT !.dense = d, !.index = x] = [rd EXCEPT !.index = x]
      /\ [r EXCEPT !.index = x, !.dense = d] = [rx EXCEPT !.dense = d]
  OBVIOUS
<1>5. /\ rd = Table(d, r.joined, r.index, r.owner)
      /\ rx = Table(r.dense, r.joined, x, r.owner)
  BY <1>1
<1> HIDE DEF rd, rx
<1>3. /\ [rd EXCEPT !.index = x] = Table(d, r.joined, x, r.owner)
      /\ [rx EXCEPT !.dense = d] = Table(d, r.joined, x, r.owner)
  BY <1>5 DEF Table
<1> QED
  BY <1>1, <1>2, <1>3

LEMMA ReboundTable ==
  ASSUME NEW r, Shape(r), NEW d, NEW o
  PROVE  [r EXCEPT !.owner = o, !.dense = d] = Table(d, r.joined, r.index, o)
<1> DEFINE ro == [r EXCEPT !.owner = o]
<1>1. ro = Table(r.dense, r.joined, r.index, o)
  BY TableUpdates
<1>2. [r EXCEPT !.owner = o, !.dense = d] = [ro EXCEPT !.dense = d]
  OBVIOUS
<1> HIDE DEF ro
<1>3. [ro EXCEPT !.dense = d] = Table(d, r.joined, r.index, o)
  BY <1>1 DEF Table
<1> QED
  BY <1>2, <1>3

LEMMA TableShape ==
  ASSUME NEW d, NEW j, NEW x, NEW o, NEW r, r = Table(d, j, x, o)
  PROVE  Shape(r) /\ r.dense = d /\ r.joined = j /\ r.index = x /\ r.owner = o
BY DEF Table, Shape

LEMMA EmptyPlaces ==
  /\ Places(EmptyRegistry)
  /\ JoinedSessions(EmptyRegistry) = {}
  /\ Registered(EmptyRegistry) = {}
<1>1. <<>> \in Seq(Entries({})) /\ Len(<<>>) = 0 /\ DOMAIN <<>> = {}
  OBVIOUS
<1> QED
  BY <1>1 DEF Places, Shape, Indexed, PlayersFirst, EmptyRegistry, JoinedSessions, Registered

\* The joined sessions are players at distinct places.
LEMMA JoinedArePlayers ==
  ASSUME NEW r, Places(r), NEW x \in JoinedSessions(r)
  PROVE  /\ x.session \in Registered(r) /\ SessionOf(r, x.session) = x
         /\ x.session \in Sessions /\ x.player \in Nat /\ x.role = "Player"
         /\ \A y \in JoinedSessions(r) : y.player = x.player => y = x
         /\ \A y \in JoinedSessions(r) : y.session = x.session => y = x
<1>1. PICK i \in 1 .. r.joined : x = r.dense[i]
  BY DEF JoinedSessions
<1>2. PICK K : r.dense \in Seq(Entries(K))
  BY DEF Places, Indexed
<1>3. i \in 1 .. Len(r.dense) /\ r.joined \in 0 .. Len(r.dense)
  BY <1>1 DEF Places, Indexed
<1>4. x \in Entries(K)
  BY <1>1, <1>2, <1>3
<1>5. x.session \in Registered(r) /\ SessionOf(r, x.session) = x
  BY <1>1, <1>3 DEF Places, Indexed, Registered, SessionOf
<1>6. x.role = "Player"
  BY <1>1, <1>3 DEF Places, PlayersFirst
<1>7. \A y \in JoinedSessions(r) : y.player = x.player => y = x
  BY <1>1 DEF JoinedSessions, Places, PlayersFirst
<1>8. \A y \in JoinedSessions(r) : y.session = x.session => y = x
  <2>1. SUFFICES ASSUME NEW y \in JoinedSessions(r), y.session = x.session
                 PROVE  y = x
    OBVIOUS
  <2>2. PICK k \in 1 .. r.joined : y = r.dense[k]
    BY DEF JoinedSessions
  <2>3. k \in 1 .. Len(r.dense)
    BY <1>3, <2>2
  <2> QED
    BY <1>1, <1>3, <2>1, <2>2, <2>3 DEF Places, Indexed
<1> QED
  BY <1>4, <1>5, <1>6, <1>7, <1>8 DEF Entries

\* A registered session is joined exactly when it is a player.
LEMMA RoleTells ==
  ASSUME NEW r, Places(r), NEW s \in Registered(r)
  PROVE  /\ r.index[s] \in 1 .. Len(r.dense)
         /\ r.dense[r.index[s]].session = s
         /\ SessionOf(r, s).session = s
         /\ SessionOf(r, s).role = "Player" <=> SessionOf(r, s) \in JoinedSessions(r)
         /\ (r.index[s] <= r.joined) <=> (SessionOf(r, s).role = "Player")
         /\ SessionOf(r, s).role # "Player" => s \notin {x.session : x \in JoinedSessions(r)}
<1>1. r.index[s] \in 1 .. Len(r.dense) /\ r.dense[r.index[s]].session = s
  BY DEF Places, Indexed, Registered
<1>2. (r.index[s] <= r.joined) <=> (SessionOf(r, s).role = "Player")
  BY <1>1 DEF Places, PlayersFirst, SessionOf
<1>3. r.joined \in 0 .. Len(r.dense)
  BY DEF Places, Indexed
<1>4. SessionOf(r, s).role = "Player" => SessionOf(r, s) \in JoinedSessions(r)
  BY <1>1, <1>2, <1>3 DEF JoinedSessions, SessionOf
<1>5. ASSUME NEW x \in JoinedSessions(r), x.session = s
      PROVE  SessionOf(r, s).role = "Player"
  BY <1>5, JoinedArePlayers
<1>6. SessionOf(r, s).session = s
  BY <1>1 DEF SessionOf
<1> QED
  BY <1>1, <1>2, <1>4, <1>5, <1>6

LEMMA TableOf ==
  ASSUME NEW r, Shape(r), Indexed(r.dense, r.joined, r.index)
  PROVE  /\ Len(r.dense) \in Nat
         /\ \E K : r.dense \in [1 .. Len(r.dense) -> Entries(K)]
         /\ r.joined \in 0 .. Len(r.dense)
         /\ r.index \in [Registered(r) -> 1 .. Len(r.dense)]
         /\ \A s \in Registered(r) : r.dense[r.index[s]].session = s
         /\ \A i \in 1 .. Len(r.dense) :
              r.dense[i].session \in Registered(r) /\ r.index[r.dense[i].session] = i
         /\ \A i, k \in 1 .. Len(r.dense) : r.dense[i].session = r.dense[k].session => i = k
<1>1. PICK K : r.dense \in Seq(Entries(K))
  BY DEF Indexed
<1>2. r.dense \in [1 .. Len(r.dense) -> Entries(K)] /\ Len(r.dense) \in Nat
  BY <1>1
<1> QED
  BY <1>2 DEF Indexed, Registered

LEMMA RegisterPlaces ==
  ASSUME NEW r, Places(r), NEW s \in Sessions \ Registered(r)
  PROVE  /\ Places(TryRegister(r, s))
         /\ JoinedSessions(TryRegister(r, s)) = JoinedSessions(r)
         /\ Registered(TryRegister(r, s)) = Registered(r) \cup {s}
<1> DEFINE n == Len(r.dense)
           e == [session |-> s, player |-> 0, key |-> NoKey, role |-> "Connected"]
           q == TryRegister(r, s)
<1>1. PICK K : r.dense \in [1 .. n -> Entries(K)]
  BY TableOf DEF Places
<1>2. n \in Nat /\ r.joined \in 0 .. n
  BY TableOf DEF Places
<1>3. /\ q.dense = Append(r.dense, e) /\ q.joined = r.joined /\ q.owner = r.owner
      /\ q.index = With(r.index, s, n + 1)
      /\ Shape(q)
  <2> DEFINE d == Append(r.dense, e)
             x == With(r.index, s, n + 1)
  <2>1. q = [r EXCEPT !.dense = d, !.index = x]
    BY DEF TryRegister
  <2> HIDE DEF q, d, x
  <2>2. q = Table(d, r.joined, x, r.owner)
    BY <2>1, TableUpdates DEF Places
  <2>3. Shape(q) /\ q.dense = d /\ q.joined = r.joined /\ q.index = x /\ q.owner = r.owner
    BY <2>2, TableShape
  <2> QED
    BY <2>3 DEF d, x
<1>4. /\ q.dense \in [1 .. n + 1 -> Entries(K \cup {NoKey})]
      /\ \A i \in 1 .. n : q.dense[i] = r.dense[i]
      /\ q.dense[n + 1] = e
  <2>1. /\ DOMAIN q.dense = 1 .. n + 1
        /\ \A i \in 1 .. n : q.dense[i] = r.dense[i]
        /\ q.dense[n + 1] = e
        /\ q.dense = [i \in 1 .. n + 1 |-> q.dense[i]]
    <3>1. r.dense \in Seq(Entries(K))
      BY <1>1, <1>2
    <3> QED BY <1>2, <1>3, <3>1
  <2>2. e \in Entries(K \cup {NoKey})
    BY DEF Entries, Roles
  <2>3. Entries(K) \subseteq Entries(K \cup {NoKey})
    BY DEF Entries
  <2>4. \A i \in 1 .. n + 1 : q.dense[i] \in Entries(K \cup {NoKey})
    <3> HIDE DEF q, e, n
    <3>1. \A i \in 1 .. n : r.dense[i] \in Entries(K)
      BY <1>1
    <3>2. \A i \in 1 .. n + 1 : i \in 1 .. n \/ i = n + 1
      BY <1>2
    <3> QED
      BY <2>1, <2>2, <2>3, <3>1, <3>2
  <2> HIDE DEF q
  <2> QED
    BY <2>1, <2>4
<1>5. /\ DOMAIN q.index = Registered(r) \cup {s}
      /\ q.index[s] = n + 1
      /\ \A t \in Registered(r) : q.index[t] = r.index[t]
      /\ q.index = [t \in DOMAIN q.index |-> q.index[t]]
  BY <1>3, Extended DEF Registered, With, Over
<1>6. q.index \in [Registered(r) \cup {s} -> 1 .. n + 1]
  <2>1. \A t \in Registered(r) : r.index[t] \in 1 .. n
    BY TableOf DEF Places
  <2> HIDE DEF q, n
  <2> QED
    BY <1>2, <1>5, <2>1
<1>7. \A t \in Registered(r) \cup {s} : q.dense[q.index[t]].session = t
  <2>1. \A t \in Registered(r) : r.index[t] \in 1 .. n /\ r.dense[r.index[t]].session = t
    BY TableOf DEF Places
  <2>2. e.session = s
    OBVIOUS
  <2> HIDE DEF q, e, n
  <2> QED
    BY <1>4, <1>5, <2>1, <2>2
<1>8. \A i \in 1 .. n + 1 : q.dense[i].session \in Registered(r) \cup {s} /\ q.index[q.dense[i].session] = i
  <2>1. \A i \in 1 .. n : r.dense[i].session \in Registered(r) /\ r.index[r.dense[i].session] = i
    BY TableOf DEF Places
  <2>2. e.session = s
    OBVIOUS
  <2> HIDE DEF q, e, n
  <2>3. ASSUME NEW i \in 1 .. n
        PROVE  q.dense[i].session \in Registered(r) \cup {s} /\ q.index[q.dense[i].session] = i
    <3>1. q.dense[i] = r.dense[i] /\ r.dense[i].session \in Registered(r) /\ r.index[r.dense[i].session] = i
      BY <1>4, <2>1
    <3> QED BY <1>5, <3>1
  <2>4. q.dense[n + 1].session = s /\ q.index[s] = n + 1
    BY <1>4, <1>5, <2>2
  <2>5. \A i \in 1 .. n + 1 : i \in 1 .. n \/ i = n + 1
    BY <1>2
  <2> QED
    BY <2>3, <2>4, <2>5
<1>9. Indexed(q.dense, q.joined, q.index) /\ Len(q.dense) = n + 1
  <2>1. n + 1 \in Nat /\ q.joined \in 0 .. n + 1
    BY <1>2, <1>3
  <2> HIDE DEF q, n
  <2>2. q.dense \in Seq(Entries(K \cup {NoKey})) /\ Len(q.dense) = n + 1
    BY <1>2, <1>4, <2>1, FunctionIsSeq
  <2> QED
    BY <1>5, <1>6, <1>7, <1>8, <2>1, <2>2 DEF Indexed
<1>10. PlayersFirst(q.dense, q.joined)
  <2>1. e.role # "Player"
    OBVIOUS
  <2>2. PlayersFirst(r.dense, r.joined)
    BY DEF Places
  <2> HIDE DEF q, e
  <2> QED
    BY <1>2, <1>3, <1>4, <1>9, <2>1, <2>2 DEF PlayersFirst
<1>11. JoinedSessions(q) = JoinedSessions(r)
  <2>1. \A i \in 1 .. r.joined : q.dense[i] = r.dense[i]
    BY <1>2, <1>4
  <2> HIDE DEF q
  <2> QED
    BY <1>3, <2>1 DEF JoinedSessions
<1> QED
  BY <1>3, <1>5, <1>9, <1>10, <1>11 DEF Places, Registered

\* Two entries change places.
LEMMA SwapPlaces ==
  ASSUME NEW r, Shape(r), Indexed(r.dense, r.joined, r.index),
         NEW left \in 1 .. Len(r.dense), NEW right \in 1 .. Len(r.dense),
         NEW q, q = SwapDenseSessions(r, left, right)
  PROVE  /\ Shape(q) /\ Indexed(q.dense, q.joined, q.index)
         /\ q.joined = r.joined /\ q.owner = r.owner /\ Registered(q) = Registered(r)
         /\ Len(q.dense) = Len(r.dense)
         /\ q.dense[left] = r.dense[right] /\ q.dense[right] = r.dense[left]
         /\ \A i \in 1 .. Len(r.dense) \ {left, right} : q.dense[i] = r.dense[i]
<1>1. CASE left = right
  BY <1>1 DEF SwapDenseSessions
<1>2. CASE left # right
  <2> DEFINE n == Len(r.dense)
             d == [r.dense EXCEPT ![left] = r.dense[right], ![right] = r.dense[left]]
  <2>1. PICK K : r.dense \in [1 .. n -> Entries(K)]
    BY TableOf
  <2>2. /\ n \in Nat /\ r.joined \in 0 .. n
        /\ r.index \in [Registered(r) -> 1 .. n]
        /\ \A s \in Registered(r) : r.dense[r.index[s]].session = s
        /\ \A i \in 1 .. n : r.dense[i].session \in Registered(r) /\ r.index[r.dense[i].session] = i
    BY TableOf
  <2>3. /\ d \in [1 .. n -> Entries(K)]
        /\ d[left] = r.dense[right] /\ d[right] = r.dense[left]
        /\ \A i \in 1 .. n \ {left, right} : d[i] = r.dense[i]
    BY <1>2, <2>1
  <2>4. /\ q.dense = d /\ q.joined = r.joined /\ q.owner = r.owner /\ Shape(q)
        /\ q.index = [r.index EXCEPT ![d[left].session] = left, ![d[right].session] = right]
    <3> DEFINE x == [r.index EXCEPT ![d[left].session] = left, ![d[right].session] = right]
    <3>1. q = [r EXCEPT !.dense = d, !.index = x]
      BY <1>2 DEF SwapDenseSessions
    <3> HIDE DEF d, x
    <3>2. q = Table(d, r.joined, x, r.owner)
      BY <3>1, TableUpdates
    <3>3. Shape(q) /\ q.dense = d /\ q.joined = r.joined /\ q.index = x /\ q.owner = r.owner
      BY <3>2, TableShape
    <3> QED
      BY <3>3 DEF x
  <2> HIDE DEF d, n
  <2>5. d[left].session # d[right].session
    BY <1>2, <2>2, <2>3 DEF n
  <2>6. /\ q.index \in [Registered(r) -> 1 .. n]
        /\ q.index[d[left].session] = left /\ q.index[d[right].session] = right
        /\ \A s \in Registered(r) \ {d[left].session, d[right].session} : q.index[s] = r.index[s]
    BY <2>2, <2>3, <2>4, <2>5 DEF n
  <2>7. \A s \in Registered(r) : q.dense[q.index[s]].session = s
    <3>1. SUFFICES ASSUME NEW s \in Registered(r), s \notin {d[left].session, d[right].session}
                   PROVE  d[q.index[s]].session = s
      BY <2>4, <2>6
    <3>2. r.index[s] \in 1 .. n \ {left, right}
      BY <2>2, <2>3, <3>1
    <3> QED
      BY <2>2, <2>3, <2>6, <3>1, <3>2
  <2>8. \A i \in 1 .. n : q.dense[i].session \in Registered(r) /\ q.index[q.dense[i].session] = i
    <3>1. SUFFICES ASSUME NEW i \in 1 .. n \ {left, right}
                   PROVE  d[i].session \in Registered(r) /\ q.index[d[i].session] = i
      BY <2>2, <2>3, <2>4, <2>6 DEF n
    <3>2. d[i].session \notin {d[left].session, d[right].session}
      BY <2>2, <2>3, <3>1 DEF n
    <3>3. d[i] = r.dense[i]
      BY <2>3, <3>1
    <3>4. d[i].session \in Registered(r) /\ r.index[d[i].session] = i
      BY <2>2, <3>1, <3>3
    <3> QED
      BY <2>6, <3>2, <3>4
  <2>9. Indexed(q.dense, q.joined, q.index) /\ Len(q.dense) = n
    <3>1. d \in Seq(Entries(K)) /\ Len(d) = n
      BY <2>2, <2>3
    <3>2. DOMAIN q.index = Registered(r)
      BY <2>6
    <3> QED
      BY <2>2, <2>4, <2>6, <2>7, <2>8, <3>1, <3>2 DEF Indexed
  <2>10. Registered(q) = Registered(r)
    BY <2>6 DEF Registered
  <2> QED
    BY <2>3, <2>4, <2>9, <2>10 DEF n
<1> QED
  BY <1>1, <1>2

\* An entry that keeps its session may change at its place.
LEMMA UpdatePlaces ==
  ASSUME NEW r, Shape(r), Indexed(r.dense, r.joined, r.index),
         NEW K, NEW d \in [1 .. Len(r.dense) -> Entries(K)],
         \A i \in 1 .. Len(r.dense) : d[i].session = r.dense[i].session,
         NEW j \in 0 .. Len(r.dense)
  PROVE  Indexed(d, j, r.index) /\ Len(d) = Len(r.dense)
<1>1. Len(r.dense) \in Nat
  BY TableOf
<1>2. d \in Seq(Entries(K)) /\ Len(d) = Len(r.dense)
  BY <1>1, FunctionIsSeq
<1>3. /\ r.index \in [DOMAIN r.index -> 1 .. Len(r.dense)]
      /\ \A s \in DOMAIN r.index : r.dense[r.index[s]].session = s
      /\ \A i \in 1 .. Len(r.dense) : r.dense[i].session \in DOMAIN r.index /\ r.index[r.dense[i].session] = i
  BY TableOf DEF Registered
<1>4. \A s \in DOMAIN r.index : d[r.index[s]].session = s
  BY <1>3
<1>5. \A i \in 1 .. Len(r.dense) : d[i].session \in DOMAIN r.index /\ r.index[d[i].session] = i
  BY <1>3
<1> QED
  BY <1>2, <1>3, <1>4, <1>5 DEF Indexed

LEMMA BindPlayerPlaces ==
  ASSUME NEW r, Places(r), NEW s, Bindable(r, s), NEW p \in Nat, NEW key,
         p \notin {x.player : x \in JoinedSessions(r)}
  PROVE  /\ Places(TryBindPlayer(r, s, p, key))
         /\ JoinedSessions(TryBindPlayer(r, s, p, key))
              = JoinedSessions(r) \cup {[session |-> s, player |-> p, key |-> key, role |-> "Player"]}
         /\ Registered(TryBindPlayer(r, s, p, key)) = Registered(r)
<1> DEFINE n == Len(r.dense)
           at == r.joined + 1
           w == SwapDenseSessions(r, r.index[s], at)
           e == [session |-> s, player |-> p, key |-> key, role |-> "Player"]
           q == TryBindPlayer(r, s, p, key)
           d == [w.dense EXCEPT ![at] = e]
<1>1. /\ n \in Nat /\ r.joined \in 0 .. n /\ r.index[s] \in 1 .. n
      /\ r.dense[r.index[s]].session = s /\ r.index[s] > r.joined /\ at \in 1 .. n
  BY TableOf DEF Places, Bindable
<1>2. /\ Shape(w) /\ Indexed(w.dense, w.joined, w.index)
      /\ w.joined = r.joined /\ Registered(w) = Registered(r) /\ Len(w.dense) = n
      /\ w.dense[at] = r.dense[r.index[s]] /\ w.dense[r.index[s]] = r.dense[at]
      /\ \A i \in 1 .. n \ {r.index[s], at} : w.dense[i] = r.dense[i]
  <2> HIDE DEF w, at
  <2> QED
    BY <1>1, SwapPlaces DEF Places, w
<1>3. PICK K : w.dense \in [1 .. n -> Entries(K)]
  <2> HIDE DEF w
  <2> QED
    BY <1>2, TableOf
<1>4. w.dense[at] \in Entries(K) /\ w.dense[at].session = s
  <2> HIDE DEF w, at
  <2> QED
    BY <1>1, <1>2, <1>3
<1>5. /\ e \in Entries(K \cup {key})
      /\ \A f \in Entries(K) : f \in Entries(K \cup {key})
  <2>1. s \in Sessions
    BY <1>4 DEF Entries
  <2> QED
    BY <2>1 DEF Entries, Roles
<1>6. /\ d \in [1 .. n -> Entries(K \cup {key})]
      /\ d[at] = e
      /\ \A i \in 1 .. n \ {at} : d[i] = w.dense[i]
  <2> HIDE DEF w, at, e, n
  <2> QED
    BY <1>1, <1>3, <1>5
<1>7. Shape(q) /\ q.dense = d /\ q.joined = at /\ q.index = w.index
  <2>1. q = Table(d, at, w.index, With(w.owner, key, s))
    BY DEF TryBindPlayer, Table
  <2> HIDE DEF q, d, w, at
  <2> QED
    BY <2>1, TableShape
<1>8. \A i \in 1 .. n : d[i].session = w.dense[i].session
  <2>1. e.session = s
    OBVIOUS
  <2> HIDE DEF w, at, e, n, d
  <2> QED
    BY <1>4, <1>6, <2>1
<1>9. Indexed(q.dense, q.joined, q.index) /\ Len(q.dense) = n
  <2>1. at \in 0 .. n
    BY <1>1
  <2> HIDE DEF w, at, n, d, q
  <2> QED
    BY <1>2, <1>6, <1>7, <1>8, <2>1, UpdatePlaces
\* The places of the joined are those of r, and one more.
<1>10. \A i \in 1 .. r.joined : d[i] = r.dense[i]
  <2>1. \A i \in 1 .. r.joined : i \in 1 .. n \ {r.index[s], at}
    BY <1>1
  <2> HIDE DEF w, at, n, d
  <2> QED
    BY <1>2, <1>6, <2>1
<1>11. JoinedSessions(q) = JoinedSessions(r) \cup {e}
  <2>1. \A i : i \in 1 .. at <=> i \in 1 .. r.joined \/ i = at
    BY <1>1
  <2> HIDE DEF at, d, q, e
  <2> QED
    BY <1>6, <1>7, <1>10, <2>1 DEF JoinedSessions
<1>12. PlayersFirst(q.dense, q.joined)
  <2>1. ASSUME NEW i \in 1 .. n PROVE (i <= at) <=> (d[i].role = "Player")
    <3>1. CASE i = at
      <4>1. e.role = "Player"
        OBVIOUS
      <4> HIDE DEF at, e, d
      <4> QED BY <1>1, <1>6, <3>1, <4>1
    <3>2. CASE i # at
      <4>1. d[i] = w.dense[i]
        BY <1>6, <3>2
      <4>2. CASE i = r.index[s]
        <5>1. d[i] = r.dense[at] /\ at # i /\ ~ (at <= r.joined) /\ ~ (i <= at)
          <6> HIDE DEF w, d
          <6> QED BY <1>1, <1>2, <3>2, <4>1, <4>2
        <5>2. r.dense[at].role # "Player"
          <6>1. ~ (at <= r.joined) /\ at \in 1 .. Len(r.dense)
            BY <1>1
          <6> HIDE DEF at
          <6> QED BY <6>1 DEF Places, PlayersFirst
        <5> HIDE DEF d
        <5> QED BY <5>1, <5>2
      <4>3. CASE i # r.index[s]
        <5>1. d[i] = r.dense[i]
          <6> HIDE DEF w, d, at
          <6> QED BY <1>2, <3>2, <4>1, <4>3
        <5>2. (i <= at) <=> (i <= r.joined)
          BY <1>1, <3>2
        <5>3. (i <= r.joined) <=> (r.dense[i].role = "Player")
          BY DEF Places, PlayersFirst
        <5> HIDE DEF d, at
        <5> QED BY <5>1, <5>2, <5>3
      <4> QED BY <4>2, <4>3
    <3> QED BY <3>1, <3>2
  <2>2. ASSUME NEW i \in 1 .. at, NEW k \in 1 .. at, d[i].player = d[k].player PROVE i = k
    <3>1. \A l \in 1 .. at : l = at \/ l \in 1 .. r.joined
      BY <1>1
    <3>2. \A l \in 1 .. r.joined : d[l].player # p
      BY <1>10 DEF JoinedSessions
    <3>3. d[at].player = p
      <4>1. e.player = p
        OBVIOUS
      <4> HIDE DEF d, e, at
      <4> QED BY <1>6, <4>1
    <3>4. \A l, m \in 1 .. r.joined : d[l].player = d[m].player => l = m
      BY <1>10 DEF Places, PlayersFirst
    <3> HIDE DEF d, at
    <3> QED BY <2>2, <3>1, <3>2, <3>3, <3>4
  <2> HIDE DEF d, at, q, n
  <2> QED
    BY <1>7, <1>9, <2>1, <2>2 DEF PlayersFirst
<1>13. Registered(q) = Registered(r)
  <2> HIDE DEF q, w
  <2> QED
    BY <1>2, <1>7 DEF Registered
<1> QED
  BY <1>7, <1>9, <1>11, <1>12, <1>13 DEF Places

LEMMA BindObserverPlaces ==
  ASSUME NEW r, Places(r), NEW s \in Registered(r), SessionOf(r, s).role = "Connected"
  PROVE  /\ Places(TryBindObserver(r, s))
         /\ JoinedSessions(TryBindObserver(r, s)) = JoinedSessions(r)
         /\ Registered(TryBindObserver(r, s)) = Registered(r)
<1> DEFINE n == Len(r.dense)
           at == r.index[s]
           e == [r.dense[at] EXCEPT !.role = "Observer"]
           d == [r.dense EXCEPT ![at] = e]
           q == TryBindObserver(r, s)
<1>1. /\ n \in Nat /\ r.joined \in 0 .. n /\ at \in 1 .. n
      /\ r.dense[at].role = "Connected" /\ ~ (at <= r.joined)
  <2>1. r.dense[at].role # "Player"
    BY DEF SessionOf
  <2> QED
    BY <2>1, RoleTells, TableOf DEF Places, SessionOf
<1>2. PICK K : r.dense \in [1 .. n -> Entries(K)]
  BY TableOf DEF Places
<1>3. e \in Entries(K) /\ e.session = r.dense[at].session /\ e.role = "Observer"
  <2> HIDE DEF at, n
  <2>1. r.dense[at] \in Entries(K)
    BY <1>1, <1>2
  <2> QED
    BY <2>1 DEF Entries, Roles
<1>4. Shape(q) /\ q.dense = d /\ q.joined = r.joined /\ q.index = r.index
  <2>1. q = [r EXCEPT !.dense = d]
    BY DEF TryBindObserver, SessionOf
  <2> HIDE DEF q, d
  <2>2. q = Table(d, r.joined, r.index, r.owner)
    BY <2>1, TableUpdates DEF Places
  <2> QED
    BY <2>2, TableShape
<1>5. /\ d \in [1 .. n -> Entries(K)]
      /\ d[at] = e
      /\ \A i \in 1 .. n \ {at} : d[i] = r.dense[i]
  <2> HIDE DEF at, e, n
  <2> QED
    BY <1>1, <1>2, <1>3
<1> HIDE DEF at, e, d, q
<1>6. \A i \in 1 .. n : d[i].session = r.dense[i].session
  BY <1>3, <1>5
<1>7. Indexed(q.dense, q.joined, q.index) /\ Len(q.dense) = n
  BY <1>1, <1>4, <1>5, <1>6, UpdatePlaces DEF Places
<1>8. \A i \in 1 .. r.joined : d[i] = r.dense[i] /\ i \in 1 .. n
  BY <1>1, <1>5
<1>9. JoinedSessions(q) = JoinedSessions(r)
  BY <1>4, <1>8 DEF JoinedSessions
<1>10. PlayersFirst(q.dense, q.joined)
  <2>1. \A i \in 1 .. n : (i <= r.joined) <=> (d[i].role = "Player")
    BY <1>1, <1>3, <1>5 DEF Places, PlayersFirst
  <2>2. \A i, k \in 1 .. r.joined : d[i].player = d[k].player => i = k
    BY <1>8 DEF Places, PlayersFirst
  <2> QED
    BY <1>4, <1>7, <2>1, <2>2 DEF PlayersFirst
<1> QED
  BY <1>4, <1>7, <1>9, <1>10 DEF Places, Registered, q

\* A session x after the players ps have their entities under the given keys.
Respawned(x, ps, keys) == IF x.player \in ps THEN [x EXCEPT !.key = keys[x.player]] ELSE x

LEMMA RebindPlaces ==
  ASSUME NEW r, Places(r), NEW ps, NEW keys
  PROVE  /\ Places(RebindControlledEntities(r, ps, keys))
         /\ JoinedSessions(RebindControlledEntities(r, ps, keys))
              = {Respawned(x, ps, keys) : x \in JoinedSessions(r)}
         /\ Registered(RebindControlledEntities(r, ps, keys)) = Registered(r)
<1> DEFINE n == Len(r.dense)
           back == {x \in JoinedSessions(r) : x.player \in ps}
           d == [i \in DOMAIN r.dense |->
                   IF r.dense[i] \in back THEN [r.dense[i] EXCEPT !.key = keys[r.dense[i].player]]
                   ELSE r.dense[i]]
           q == RebindControlledEntities(r, ps, keys)
<1>1. PICK K : r.dense \in [1 .. n -> Entries(K)]
  BY TableOf DEF Places
<1>2. n \in Nat /\ r.joined \in 0 .. n /\ DOMAIN r.dense = 1 .. n
  BY <1>1, TableOf DEF Places
<1>3. Shape(q) /\ q.dense = d /\ q.joined = r.joined /\ q.index = r.index
  <2> DEFINE o == Over([k \in {keys[x.player] : x \in back} |->
                          (CHOOSE x \in back : keys[x.player] = k).session],
                       [k \in DOMAIN r.owner \ {x.key : x \in back} |-> r.owner[k]])
  <2>1. q = [r EXCEPT !.owner = o, !.dense = d]
    BY DEF RebindControlledEntities
  <2> HIDE DEF q, d, o
  <2>2. q = Table(d, r.joined, r.index, o)
    BY <2>1, ReboundTable DEF Places
  <2> HIDE DEF q
  <2> QED
    BY <2>2, TableShape
<1> DEFINE L == K \cup {keys[p] : p \in ps}
<1>4. \A i \in 1 .. n :
        /\ d[i] \in Entries(L)
        /\ d[i].session = r.dense[i].session /\ d[i].role = r.dense[i].role
        /\ d[i].player = r.dense[i].player
  <2>1. SUFFICES ASSUME NEW i \in 1 .. n
                 PROVE  /\ d[i] \in Entries(L)
                        /\ d[i].session = r.dense[i].session /\ d[i].role = r.dense[i].role
                        /\ d[i].player = r.dense[i].player
    OBVIOUS
  <2>2. r.dense[i] \in Entries(K) /\ \A M : Entries(M) \subseteq Entries(M \cup L)
    BY <1>1 DEF Entries
  <2>3. CASE r.dense[i] \in back
    <3> DEFINE k == keys[r.dense[i].player]
    <3>1. k \in L
      BY <2>3
    <3>2. d[i] = [r.dense[i] EXCEPT !.key = k]
      BY <1>2, <2>3
    <3> HIDE DEF k, d, L
    <3> DEFINE e == r.dense[i]
    <3>4. e \in Entries(K) /\ d[i] = [e EXCEPT !.key = k]
      BY <2>2, <3>2
    <3> HIDE DEF e
    <3>5. /\ d[i] \in Entries(K \cup {k})
          /\ d[i].session = e.session /\ d[i].role = e.role /\ d[i].player = e.player
      BY <3>4 DEF Entries
    <3>3. /\ d[i] \in Entries(K \cup {k})
          /\ d[i].session = r.dense[i].session /\ d[i].role = r.dense[i].role
          /\ d[i].player = r.dense[i].player
      BY <3>5 DEF e
    <3>6. Entries(K \cup {k}) \subseteq Entries(L)
      BY <3>1 DEF Entries, L
    <3> QED
      BY <3>3, <3>6
  <2>4. CASE r.dense[i] \notin back
    <3>1. d[i] = r.dense[i]
      BY <1>2, <2>4
    <3>2. Entries(K) \subseteq Entries(L)
      BY DEF Entries
    <3> HIDE DEF d, L
    <3> QED
      BY <2>2, <3>1, <3>2
  <2> QED
    BY <2>3, <2>4
<1>5. d \in [1 .. n -> Entries(L)]
  <2>1. d = [i \in 1 .. n |-> d[i]]
    BY <1>2
  <2> HIDE DEF d, L
  <2> QED
    BY <1>4, <2>1
<1>6. \A i \in 1 .. r.joined : i \in 1 .. n /\ d[i] = Respawned(r.dense[i], ps, keys)
  <2>1. \A i \in 1 .. r.joined : i \in 1 .. n /\ r.dense[i] \in JoinedSessions(r)
    BY <1>2 DEF JoinedSessions
  <2> HIDE DEF n
  <2> QED
    BY <1>2, <2>1 DEF Respawned
<1> HIDE DEF d, q, L, back
<1>7. Indexed(q.dense, q.joined, q.index) /\ Len(q.dense) = n
  BY <1>2, <1>3, <1>4, <1>5, UpdatePlaces DEF Places
<1>8. PlayersFirst(q.dense, q.joined)
  <2>1. \A i \in 1 .. n : (i <= r.joined) <=> (d[i].role = "Player")
    BY <1>4 DEF Places, PlayersFirst
  <2>2. \A i, k \in 1 .. r.joined : d[i].player = d[k].player => i = k
    BY <1>4, <1>6 DEF Places, PlayersFirst
  <2> QED
    BY <1>3, <1>7, <2>1, <2>2 DEF PlayersFirst
<1>9. JoinedSessions(q) = {Respawned(x, ps, keys) : x \in JoinedSessions(r)}
  BY <1>3, <1>6 DEF JoinedSessions
<1> QED
  BY <1>3, <1>7, <1>8, <1>9 DEF Places, Registered, q

\* The last entry of r is not a joined one, so that the place i may go.
Removable(r, i) ==
  /\ Shape(r) /\ Indexed(r.dense, r.joined, r.index)
  /\ i \in 1 .. Len(r.dense) /\ r.joined <= Len(r.dense) - 1

\* q is r with the entry at i gone and the last entry in its place.
Leaves(q, r, i) ==
  /\ Shape(q) /\ Indexed(q.dense, q.joined, q.index)
  /\ q.joined = r.joined /\ Len(q.dense) = Len(r.dense) - 1
  /\ Registered(q) = Registered(r) \ {r.dense[i].session}
  /\ i < Len(r.dense) => q.dense[i] = r.dense[Len(r.dense)]
  /\ \A k \in 1 .. Len(r.dense) - 1 : k # i => q.dense[k] = r.dense[k]

LEMMA RemoveAtPlaces ==
  ASSUME NEW r, NEW i, Removable(r, i)
  PROVE  Leaves(RemoveDenseSessionAt(r, i), r, i)
<1> USE DEF Removable
<1> DEFINE q == RemoveDenseSessionAt(r, i)
<1> DEFINE n == Len(r.dense)
           w == SwapDenseSessions(r, i, n)
           s == r.dense[i].session
<1>1. n \in Nat /\ n \in 1 .. n /\ r.joined \in 0 .. n - 1
  BY TableOf
<1>2. /\ Shape(w) /\ Indexed(w.dense, w.joined, w.index)
      /\ w.joined = r.joined /\ Registered(w) = Registered(r) /\ Len(w.dense) = n
      /\ w.dense[i] = r.dense[n] /\ w.dense[n] = r.dense[i]
      /\ \A k \in 1 .. n \ {i, n} : w.dense[k] = r.dense[k]
  <2> HIDE DEF w, n
  <2> QED
    BY <1>1, SwapPlaces DEF w, n
<1> HIDE DEF w
<1>3. PICK K : w.dense \in [1 .. n -> Entries(K)]
  BY <1>2, TableOf
<1>4. /\ w.index \in [Registered(w) -> 1 .. n]
      /\ \A t \in Registered(w) : w.dense[w.index[t]].session = t
      /\ \A k \in 1 .. n : w.dense[k].session \in Registered(w) /\ w.index[w.dense[k].session] = k
  BY <1>2, TableOf
<1> DEFINE d == Front(w.dense)
           x == Without(w.index, s)
<1>5. Shape(q) /\ q.dense = d /\ q.joined = r.joined /\ q.index = x
  <2>1. q = [w EXCEPT !.index = x, !.dense = d]
    BY DEF RemoveDenseSessionAt, w
  <2> HIDE DEF d, x
  <2>2. q = Table(d, w.joined, x, w.owner)
    BY <1>2, <2>1, TableUpdates
  <2> QED
    BY <1>2, <2>2, TableShape
<1>6. d \in Seq(Entries(K)) /\ Len(d) = n - 1 /\ \A k \in 1 .. n - 1 : d[k] = w.dense[k]
  <2>1. w.dense \in Seq(Entries(K)) /\ Len(w.dense) = n
    BY <1>1, <1>2, <1>3, FunctionIsSeq
  <2> QED
    BY <1>1, <2>1 DEF Front
<1>7. /\ DOMAIN x = Registered(r) \ {s}
      /\ \A t \in Registered(r) \ {s} : x[t] = w.index[t]
      /\ x = [t \in DOMAIN x |-> x[t]]
  BY <1>2 DEF Without, Registered
<1> HIDE DEF d, x
<1>8. \A t \in Registered(r) \ {s} : w.index[t] \in 1 .. n - 1
  <2>1. \A t \in Registered(r) \ {s} : w.index[t] # n /\ w.index[t] \in 1 .. n
    BY <1>2, <1>4
  <2> HIDE DEF s, n
  <2> QED
    BY <1>1, <2>1
<1>9. x \in [DOMAIN x -> 1 .. n - 1] /\ \A t \in DOMAIN x : d[x[t]].session = t
  <2> HIDE DEF s, n
  <2> QED
    BY <1>2, <1>4, <1>6, <1>7, <1>8
<1>10. \A k \in 1 .. n - 1 : d[k].session \in DOMAIN x /\ x[d[k].session] = k
  <2>1. SUFFICES ASSUME NEW k \in 1 .. n - 1
                 PROVE  d[k].session \in DOMAIN x /\ x[d[k].session] = k
    OBVIOUS
  <2>2. k \in 1 .. n /\ k # n
    BY <1>1
  <2>3. w.dense[k].session # s
    <3>1. w.dense[n].session = s /\ w.index[s] = n
      BY <1>1, <1>2, <1>4
    <3> HIDE DEF s, n
    <3> QED
      BY <1>4, <2>2, <3>1
  <2> HIDE DEF s, n
  <2> QED
    BY <1>2, <1>4, <1>6, <1>7, <2>2, <2>3
<1>11. Indexed(q.dense, q.joined, q.index)
  <2> HIDE DEF s, n
  <2> QED
    BY <1>1, <1>5, <1>6, <1>9, <1>10 DEF Indexed
<1>12. \A k \in 1 .. n - 1 : d[k] = IF k = i THEN r.dense[n] ELSE r.dense[k]
  <2>1. \A k \in 1 .. n - 1 : k \in 1 .. n /\ k # n
    BY <1>1
  <2> HIDE DEF n
  <2> QED
    BY <1>2, <1>6, <2>1
<1>13. i < n => i \in 1 .. n - 1
  BY <1>1
<1> QED
  BY <1>5, <1>6, <1>7, <1>11, <1>12, <1>13 DEF Registered, Leaves

LEMMA RemovePlaces ==
  ASSUME NEW r, Places(r), NEW s \in Registered(r)
  PROVE  /\ Places(RemoveSession(r, s))
         /\ JoinedSessions(RemoveSession(r, s)) = JoinedSessions(r) \ {SessionOf(r, s)}
         /\ Registered(RemoveSession(r, s)) = Registered(r) \ {s}
<1> DEFINE n == Len(r.dense)
           j == r.joined
           i == r.index[s]
           q == RemoveSession(r, s)
<1>1. /\ n \in Nat /\ j \in 0 .. n /\ i \in 1 .. n
      /\ r.dense[i].session = s /\ SessionOf(r, s) = r.dense[i]
  BY TableOf DEF Places, SessionOf
<1>2. \A a, b \in 1 .. n : r.dense[a].session = r.dense[b].session => a = b
  BY TableOf DEF Places
<1>3. /\ \A k \in 1 .. n : (k <= j) <=> (r.dense[k].role = "Player")
      /\ \A k, l \in 1 .. j : r.dense[k].player = r.dense[l].player => k = l
  BY DEF Places, PlayersFirst
<1>4. CASE i <= j
  <2> DEFINE o == Without(r.owner, r.dense[i].key)
             r1 == [r EXCEPT !.owner = o]
             w == SwapDenseSessions(r1, i, j)
             r2 == [w EXCEPT !.joined = j - 1]
  <2>1. q = RemoveDenseSessionAt(r2, j)
    BY <1>4 DEF RemoveSession
  <2>2. /\ Shape(r1) /\ r1.dense = r.dense /\ r1.joined = r.joined /\ r1.index = r.index
    <3> HIDE DEF o
    <3>1. r1 = Table(r.dense, r.joined, r.index, o)
      BY TableUpdates DEF Places
    <3> HIDE DEF r1
    <3> QED
      BY <3>1, TableShape
  <2> HIDE DEF r1
  <2>3. j \in 1 .. n
    BY <1>1, <1>4
  <2>4. /\ Shape(w) /\ Indexed(w.dense, w.joined, w.index)
        /\ w.joined = j /\ Registered(w) = Registered(r) /\ Len(w.dense) = n
        /\ w.dense[i] = r.dense[j] /\ w.dense[j] = r.dense[i]
        /\ \A k \in 1 .. n \ {i, j} : w.dense[k] = r.dense[k]
    <3>1. Indexed(r1.dense, r1.joined, r1.index) /\ Registered(r1) = Registered(r)
      BY <2>2 DEF Places, Registered
    <3>2. i \in 1 .. Len(r1.dense) /\ j \in 1 .. Len(r1.dense)
      BY <1>1, <2>2, <2>3
    <3> HIDE DEF w, i, j, n
    <3> QED
      BY <2>2, <3>1, <3>2, SwapPlaces DEF w, n, j
  <2> HIDE DEF w
  <2>5. /\ Shape(r2) /\ r2.dense = w.dense /\ r2.joined = j - 1 /\ r2.index = w.index
    <3>1. r2 = Table(w.dense, j - 1, w.index, w.owner)
      BY <2>4, TableUpdates
    <3> HIDE DEF r2, j
    <3> QED
      BY <3>1, TableShape
  <2> HIDE DEF r2
  <2>6. Indexed(r2.dense, r2.joined, r2.index) /\ Registered(r2) = Registered(r) /\ Len(r2.dense) = n
    <3>1. j - 1 \in 0 .. Len(w.dense)
      BY <1>1, <2>3, <2>4
    <3> HIDE DEF j
    <3> QED
      BY <2>4, <2>5, <3>1 DEF Indexed, Registered
  <2>7. /\ Shape(q) /\ Indexed(q.dense, q.joined, q.index)
        /\ q.joined = j - 1 /\ Len(q.dense) = n - 1
        /\ Registered(q) = Registered(r) \ {s}
        /\ \A k \in 1 .. n - 1 : q.dense[k] = IF k = j THEN w.dense[n] ELSE w.dense[k]
    <3>1. j \in 1 .. Len(r2.dense) /\ r2.joined <= Len(r2.dense) - 1
      BY <1>1, <2>3, <2>5, <2>6
    <3>2. r2.dense[j].session = s
      BY <1>1, <2>4, <2>5
    <3> HIDE DEF q, j, n
    <3>3. Removable(r2, j)
      BY <2>5, <2>6, <3>1 DEF Removable
    <3>4. Leaves(q, r2, j)
      BY <2>1, <3>3, RemoveAtPlaces
    <3>5. \A k \in 1 .. n - 1 : k = j => j < n
      BY <1>1, <2>3 DEF j, n
    <3> QED
      BY <2>5, <2>6, <3>2, <3>4, <3>5 DEF Leaves
  <2>8. \A k \in 1 .. j - 1 : k \in 1 .. n - 1 /\ k # j /\ k \in 1 .. n
    BY <1>1
  <2>9. \A k \in 1 .. j - 1 : q.dense[k] = IF k = i THEN r.dense[j] ELSE r.dense[k]
    <3> HIDE DEF q, i, j, n
    <3> QED
      BY <2>4, <2>7, <2>8
  <2>10. JoinedSessions(q) = JoinedSessions(r) \ {r.dense[i]}
    <3>1. JoinedSessions(q) \subseteq JoinedSessions(r) \ {r.dense[i]}
      <4>1. SUFFICES ASSUME NEW k \in 1 .. j - 1
                     PROVE  q.dense[k] \in JoinedSessions(r) \ {r.dense[i]}
        BY <2>7 DEF JoinedSessions
      <4>2. CASE k = i
        <5>1. q.dense[k] = r.dense[j] /\ j # i /\ j \in 1 .. r.joined /\ i \in 1 .. n /\ j \in 1 .. n
          BY <1>1, <2>3, <2>9, <4>2
        <5> HIDE DEF q, i, n
        <5> QED
          BY <1>2, <5>1 DEF JoinedSessions
      <4>3. CASE k # i
        <5>1. q.dense[k] = r.dense[k] /\ k \in 1 .. r.joined /\ i \in 1 .. n /\ k \in 1 .. n
          BY <1>1, <2>3, <2>9, <4>3
        <5> HIDE DEF q, i, n
        <5> QED
          BY <1>2, <4>3, <5>1 DEF JoinedSessions
      <4> QED
        BY <4>2, <4>3
    <3>2. ASSUME NEW k \in 1 .. r.joined, r.dense[k] # r.dense[i]
          PROVE  r.dense[k] \in JoinedSessions(q)
      <4>1. k # i
        BY <3>2
      <4>2. CASE k = j
        <5>1. i \in 1 .. j - 1
          BY <1>1, <1>4, <4>1, <4>2
        <5>2. q.dense[i] = r.dense[k]
          <6> HIDE DEF i, j, q
          <6> QED BY <2>9, <4>2, <5>1
        <5> HIDE DEF i, j, q
        <5> QED
          BY <2>7, <5>1, <5>2 DEF JoinedSessions
      <4>3. CASE k # j
        <5>1. k \in 1 .. j - 1
          BY <1>1, <4>3
        <5>2. q.dense[k] = r.dense[k]
          <6> HIDE DEF i, j, q
          <6> QED BY <2>9, <4>1, <5>1
        <5> HIDE DEF i, j, q
        <5> QED
          BY <2>7, <5>1, <5>2 DEF JoinedSessions
      <4> QED
        BY <4>2, <4>3
    <3> HIDE DEF q, i
    <3> QED
      BY <3>1, <3>2 DEF JoinedSessions
  <2>11. PlayersFirst(q.dense, q.joined)
    <3>1. ASSUME NEW k \in 1 .. n - 1 PROVE (k <= j - 1) <=> (q.dense[k].role = "Player")
      <4>1. CASE k <= j - 1
        <5>1. k \in 1 .. j - 1 /\ j \in 1 .. n /\ k \in 1 .. n /\ j <= j /\ k <= j
          BY <1>1, <2>3, <4>1
        <5> HIDE DEF i, j, n, q
        <5> QED
          BY <1>3, <2>9, <4>1, <5>1
      <4>2. CASE ~ (k <= j - 1)
        <5>1. CASE k = j
          <6>1. q.dense[k] = w.dense[n] /\ n \in 1 .. n \ {i, j} /\ ~ (n <= j)
            <7>1. n \in 1 .. n \ {i, j} /\ ~ (n <= j)
              BY <1>1, <1>4, <5>1
            <7> HIDE DEF i, j, n, q
            <7> QED BY <2>7, <5>1, <7>1
          <6> HIDE DEF i, j, n, q
          <6> QED
            BY <1>3, <2>4, <4>2, <6>1
        <5>2. CASE k # j
          <6>1. k \in 1 .. n \ {i, j} /\ ~ (k <= j)
            BY <1>1, <1>4, <4>2, <5>2
          <6>2. q.dense[k] = w.dense[k]
            BY <2>7, <5>2
          <6> HIDE DEF i, j, n, q
          <6>3. q.dense[k] = r.dense[k]
            BY <2>4, <6>1, <6>2
          <6> QED
            BY <1>3, <4>2, <6>1, <6>3
        <5> QED
          BY <5>1, <5>2
      <4> QED
        BY <4>1, <4>2
    <3>2. ASSUME NEW k \in 1 .. j - 1, NEW l \in 1 .. j - 1, q.dense[k].player = q.dense[l].player
          PROVE  k = l
      <4>1. j \in 1 .. j /\ k \in 1 .. j /\ l \in 1 .. j /\ k # j /\ l # j /\ i \in 1 .. j
        BY <1>1, <1>4
      <4> HIDE DEF i, j, q
      <4> QED
        BY <1>3, <2>9, <3>2, <4>1 DEF j
    <3> HIDE DEF j, n, q
    <3> QED
      BY <2>7, <3>1, <3>2 DEF PlayersFirst
  <2> HIDE DEF q, i
  <2> QED
    BY <1>1, <2>7, <2>10, <2>11 DEF Places, q
<1>5. CASE ~ (i <= j)
  <2>1. q = RemoveDenseSessionAt(r, i)
    BY <1>5 DEF RemoveSession
  <2>2. /\ Shape(q) /\ Indexed(q.dense, q.joined, q.index)
        /\ q.joined = j /\ Len(q.dense) = n - 1
        /\ Registered(q) = Registered(r) \ {s}
        /\ \A k \in 1 .. n - 1 : q.dense[k] = IF k = i THEN r.dense[n] ELSE r.dense[k]
    <3>1. r.joined <= Len(r.dense) - 1
      BY <1>1, <1>5
    <3>2. Removable(r, i)
      BY <1>1, <3>1 DEF Places, Removable
    <3> HIDE DEF q, i, n, j
    <3>3. Leaves(q, r, i)
      BY <2>1, <3>2, RemoveAtPlaces
    <3>4. \A k \in 1 .. n - 1 : k = i => i < n
      BY <1>1 DEF n, i
    <3> QED
      BY <1>1, <3>3, <3>4 DEF Leaves, n, j
  <2>3. \A k \in 1 .. j : k \in 1 .. n - 1 /\ k \in 1 .. n /\ k # i
    BY <1>1, <1>5
  <2>4. \A k \in 1 .. j : q.dense[k] = r.dense[k]
    <3> HIDE DEF q, i, j, n
    <3> QED BY <2>2, <2>3
  <2>5. JoinedSessions(q) = JoinedSessions(r)
    <3> HIDE DEF q
    <3> QED BY <2>2, <2>4 DEF JoinedSessions
  <2>6. r.dense[i] \notin JoinedSessions(r)
    <3> HIDE DEF i
    <3> QED BY <1>1, <1>2, <2>3 DEF JoinedSessions
  <2>7. PlayersFirst(q.dense, q.joined)
    <3>1. ASSUME NEW k \in 1 .. n - 1 PROVE (k <= j) <=> (q.dense[k].role = "Player")
      <4>1. CASE k = i
        <5>1. q.dense[k] = r.dense[n] /\ n \in 1 .. n /\ ~ (n <= j) /\ ~ (k <= j)
          <6>1. n \in 1 .. n /\ ~ (n <= j) /\ ~ (k <= j)
            BY <1>1, <1>5, <4>1
          <6> HIDE DEF i, j, n, q
          <6> QED BY <2>2, <4>1, <6>1
        <5> HIDE DEF i, j, n, q
        <5> QED
          BY <1>3, <5>1
      <4>2. CASE k # i
        <5>1. k \in 1 .. n
          BY <1>1
        <5> HIDE DEF i, j, n, q
        <5> QED
          BY <1>3, <2>2, <4>2, <5>1
      <4> QED
        BY <4>1, <4>2
    <3>2. ASSUME NEW k \in 1 .. j, NEW l \in 1 .. j, q.dense[k].player = q.dense[l].player
          PROVE  k = l
      <4> HIDE DEF q
      <4> QED
        BY <1>3, <2>4, <3>2
    <3> HIDE DEF j, n, q
    <3> QED
      BY <2>2, <3>1, <3>2 DEF PlayersFirst
  <2> HIDE DEF q, i
  <2> QED
    BY <1>1, <2>2, <2>5, <2>6, <2>7 DEF Places, q
<1> QED
  BY <1>4, <1>5

-----------------------------------------------------------------------------
(***************************************************************************)
(* The state of a round.                                                   *)
(***************************************************************************)
ScoreTable(f) == \E K, S, L : f \in [DOMAIN f -> [key : K, score : S, life : L]]

GameShape(g) ==
  /\ g = [round |-> g.round, phase |-> g.phase, ends |-> g.ends, scores |-> g.scores,
          slots |-> g.slots, res |-> g.res]
  /\ ScoreTable(g.scores)

\* What the change of the scores of a game leaves.
SameRound(g, h) ==
  /\ h.round = g.round /\ h.phase = g.phase /\ h.ends = g.ends
  /\ h.slots = g.slots /\ h.res = g.res

LEMMA ScoresUpdate ==
  ASSUME NEW g, GameShape(g), NEW f, ScoreTable(f)
  PROVE  /\ GameShape([g EXCEPT !.scores = f])
         /\ [g EXCEPT !.scores = f].scores = f
         /\ SameRound(g, [g EXCEPT !.scores = f])
<1> DEFINE h == [g EXCEPT !.scores = f]
<1>1. h = [round |-> g.round, phase |-> g.phase, ends |-> g.ends, scores |-> f,
           slots |-> g.slots, res |-> g.res]
  BY DEF GameShape
<1> HIDE DEF h
<1>2. GameShape(h) /\ h.scores = f /\ SameRound(g, h)
  BY <1>1 DEF GameShape, SameRound
<1> QED
  BY <1>2 DEF h

LEMMA RegisteredScores ==
  ASSUME NEW g, GameShape(g), NEW p, NEW key, p \notin Players(g),
         NEW h, h = TryRegisterPlayer(g, p, key)
  PROVE  /\ GameShape(h) /\ SameRound(g, h)
         /\ Players(h) = Players(g) \cup {p}
         /\ h.scores[p].key = key /\ h.scores[p].life = "Alive"
         /\ \A q \in Players(g) : h.scores[q] = g.scores[q]
<1> DEFINE entry == [key |-> key, score |-> 0, life |-> "Alive"]
           f == [q \in Players(g) \cup {p} |-> IF q = p THEN entry ELSE g.scores[q]]
<1>1. PICK K, S, L : g.scores \in [Players(g) -> [key : K, score : S, life : L]]
  BY DEF GameShape, ScoreTable, Players
<1> DEFINE R == [key : K \cup {key}, score : S \cup {0}, life : L \cup {"Alive"}]
<1>2. entry \in R /\ \A q \in Players(g) : g.scores[q] \in R
  BY <1>1
<1>3. entry.key = key /\ entry.life = "Alive"
  OBVIOUS
<1>4. h = [g EXCEPT !.scores = f]
  BY DEF TryRegisterPlayer
<1> HIDE DEF entry
<1>5. f \in [Players(g) \cup {p} -> R] /\ DOMAIN f = Players(g) \cup {p}
  <2> HIDE DEF R
  <2> QED BY <1>2
<1>6. ScoreTable(f)
  <2> HIDE DEF f
  <2> QED BY <1>5 DEF ScoreTable
<1>7. f[p] = entry /\ \A q \in Players(g) : f[q] = g.scores[q]
  OBVIOUS
<1> HIDE DEF f
<1>8. GameShape(h) /\ h.scores = f /\ SameRound(g, h)
  BY <1>4, <1>6, ScoresUpdate
<1> QED
  BY <1>3, <1>5, <1>7, <1>8 DEF Players

LEMMA RemovedScores ==
  ASSUME NEW g, GameShape(g), NEW p, NEW h, h = RemovePlayer(g, p)
  PROVE  /\ GameShape(h) /\ SameRound(g, h)
         /\ Players(h) = Players(g) \ {p}
         /\ \A q \in Players(g) \ {p} : h.scores[q] = g.scores[q]
<1> DEFINE f == [q \in Players(g) \ {p} |-> g.scores[q]]
<1>1. PICK K, S, L : g.scores \in [Players(g) -> [key : K, score : S, life : L]]
  BY DEF GameShape, ScoreTable, Players
<1>2. h = [g EXCEPT !.scores = f]
  BY DEF RemovePlayer
<1>3. DOMAIN f = Players(g) \ {p} /\ f \in [DOMAIN f -> [key : K, score : S, life : L]]
  BY <1>1
<1>4. \A q \in Players(g) \ {p} : f[q] = g.scores[q]
  OBVIOUS
<1> HIDE DEF f
<1>5. ScoreTable(f)
  BY <1>3 DEF ScoreTable
<1>6. GameShape(h) /\ h.scores = f /\ SameRound(g, h)
  BY <1>2, <1>5, ScoresUpdate
<1> QED
  BY <1>3, <1>4, <1>6 DEF Players

\* A round is reset only when nobody plays, and then starts from nothing.
LEMMA ResetGame ==
  ASSUME NEW e, NEW g, GameShape(g), NEW b, b = ResetEndedRoundIfEmpty(e, g)
  PROVE  /\ GameShape(b.g) /\ b.g.scores = g.scores
         /\ ~ ResetNeeded(g) => b.e = e /\ b.g = g
         /\ ResetNeeded(g) => /\ g.phase = "Ended" /\ Players(g) = {}
                              /\ b.g.round = g.round + 1 /\ b.g.phase = "Waiting" /\ b.g.res = <<>>
<1>1. CASE ResetNeeded(g)
  <2>1. b.g = [round |-> g.round + 1, phase |-> "Waiting", ends |-> 0, scores |-> g.scores,
               slots |-> [i \in AmbientSlots |-> "Dormant"], res |-> <<>>]
    BY <1>1 DEF ResetEndedRoundIfEmpty, CommitReset
  <2> DEFINE h == b.g
  <2>2. /\ h = [round |-> h.round, phase |-> h.phase, ends |-> h.ends, scores |-> h.scores,
                slots |-> h.slots, res |-> h.res]
        /\ h.scores = g.scores /\ h.round = g.round + 1 /\ h.phase = "Waiting" /\ h.res = <<>>
    BY <2>1
  <2>3. ScoreTable(h.scores)
    BY <2>2 DEF GameShape
  <2> QED
    BY <1>1, <2>2, <2>3 DEF GameShape, ResetNeeded
<1>2. CASE ~ ResetNeeded(g)
  <2>1. b.e = e /\ b.g = g
    BY <1>2 DEF ResetEndedRoundIfEmpty
  <2> QED
    BY <1>2, <2>1
<1> QED
  BY <1>1, <1>2

\* A tick changes scores, never whose they are; a respawn changes keys.
LEMMA CommittedGame ==
  ASSUME NEW t, NEW o, NEW e, NEW g, GameShape(g), NEW h, h = Commit(t, o, e, g).g
  PROVE  /\ GameShape(h) /\ h.round = g.round
         /\ Players(h) = Players(g)
         /\ \A p \in Players(g) : h.scores[p].key = g.scores[p].key
<1> DEFINE f == CommittedScores(o, g)
<1>1. PICK K, S, L : g.scores \in [Players(g) -> [key : K, score : S, life : L]]
  BY DEF GameShape, ScoreTable, Players
<1>2. /\ h.scores = f /\ h.round = g.round
      /\ h = [round |-> h.round, phase |-> h.phase, ends |-> h.ends, scores |-> h.scores,
              slots |-> h.slots, res |-> h.res]
  BY DEF Commit
<1> DEFINE after(p) == f[p].score
           T == {f[p].score : p \in Players(g)}
<1>3. DOMAIN f = Players(g)
  BY DEF CommittedScores
<1>4. \A p \in Players(g) :
        /\ f[p].key = g.scores[p].key
        /\ f[p] \in [key : K, score : T, life : L \cup {"SpawnPending"}]
  <2>1. SUFFICES ASSUME NEW p \in Players(g)
                 PROVE  /\ f[p].key = g.scores[p].key
                        /\ f[p] = [key |-> f[p].key, score |-> f[p].score, life |-> f[p].life]
                        /\ f[p].life \in L \cup {"SpawnPending"}
    <3>1. SUFFICES ASSUME NEW p \in Players(g),
                          f[p].key = g.scores[p].key,
                          f[p] = [key |-> f[p].key, score |-> f[p].score, life |-> f[p].life],
                          f[p].life \in L \cup {"SpawnPending"}
                   PROVE  f[p] \in [key : K, score : T, life : L \cup {"SpawnPending"}]
      <4> HIDE DEF f, T
      <4> QED OBVIOUS
    <3>2. g.scores[p].key \in K
      BY <1>1
    <3>3. f[p].score \in T
      OBVIOUS
    <3> HIDE DEF f, T
    <3> QED BY <3>1, <3>2, <3>3
  <2>2. g.scores[p] \in [key : K, score : S, life : L]
    BY <1>1
  <2>3. CASE o.transition = "Started"
    <3>1. f[p] = [g.scores[p] EXCEPT !.score = 0]
      BY <2>3 DEF CommittedScores
    <3> HIDE DEF f
    <3> QED BY <2>2, <3>1
  <2>4. CASE o.transition # "Started" /\ p \in Dead(o)
    <3>1. f[p] = [key |-> g.scores[p].key, score |-> 0, life |-> "SpawnPending"]
      BY <2>4 DEF CommittedScores
    <3> HIDE DEF f
    <3> QED BY <2>2, <3>1
  <2>5. CASE o.transition # "Started" /\ p \notin Dead(o)
    <3> DEFINE n == g.scores[p].score - (IF p \in o.boosted THEN 1 ELSE 0)
                      + Cardinality({k \in DOMAIN o.pickups : o.pickups[k] = p})
    <3>1. f[p] = [g.scores[p] EXCEPT !.score = n]
      BY <2>5 DEF CommittedScores
    <3> HIDE DEF f, n
    <3> QED BY <2>2, <3>1
  <2> QED
    BY <2>3, <2>4, <2>5
<1>5. f = [p \in Players(g) |-> f[p]]
  BY DEF CommittedScores
<1> HIDE DEF f
<1>6. ScoreTable(f)
  <2>1. f \in [DOMAIN f -> [key : K, score : T, life : L \cup {"SpawnPending"}]]
    <3> HIDE DEF T
    <3> QED BY <1>3, <1>4, <1>5
  <2> QED
    BY <2>1 DEF ScoreTable
<1> QED
  BY <1>2, <1>3, <1>4, <1>6 DEF GameShape, Players

LEMMA RespawnedGame ==
  ASSUME NEW ps, NEW e, NEW g, GameShape(g), NEW w, w = CommitPlayerSpawns(ps, e, g)
  PROVE  /\ GameShape(w.g) /\ SameRound(g, w.g)
         /\ Players(w.g) = Players(g)
         /\ \A p \in Players(g) : w.g.scores[p].key = IF p \in ps THEN w.keys[p] ELSE g.scores[p].key
         /\ \A p \in Players(g) :
              w.g.scores[p] = IF p \in ps
                              THEN [key |-> w.keys[p], score |-> g.scores[p].score, life |-> "Alive"]
                              ELSE g.scores[p]
<1> DEFINE f == [p \in Players(g) |->
                   IF p \in ps
                   THEN [key |-> w.keys[p], score |-> g.scores[p].score, life |-> "Alive"]
                   ELSE g.scores[p]]
<1>1. PICK K, S, L : g.scores \in [Players(g) -> [key : K, score : S, life : L]]
  BY DEF GameShape, ScoreTable, Players
<1>2. w.g = [g EXCEPT !.scores = f]
  BY DEF CommitPlayerSpawns
<1> DEFINE M == K \cup {w.keys[p] : p \in ps}
<1>3. /\ DOMAIN f = Players(g)
      /\ \A p \in Players(g) :
           f[p] = IF p \in ps
                  THEN [key |-> w.keys[p], score |-> g.scores[p].score, life |-> "Alive"]
                  ELSE g.scores[p]
      /\ \A p \in Players(g) :
           /\ f[p] \in [key : M, score : S, life : L \cup {"Alive"}]
           /\ f[p].key = IF p \in ps THEN w.keys[p] ELSE g.scores[p].key
  BY <1>1
<1>4. f = [p \in Players(g) |-> f[p]]
  OBVIOUS
<1> HIDE DEF f
<1>5. ScoreTable(f)
  <2>1. f \in [DOMAIN f -> [key : M, score : S, life : L \cup {"Alive"}]]
    <3> HIDE DEF M
    <3> QED BY <1>3, <1>4
  <2> QED
    BY <2>1 DEF ScoreTable
<1>6. GameShape(w.g) /\ w.g.scores = f /\ SameRound(g, w.g)
  BY <1>2, <1>5, ScoresUpdate
<1> QED
  BY <1>3, <1>6 DEF Players

-----------------------------------------------------------------------------
(***************************************************************************)
(* The inductive invariant, as a relation between the tables r, the send    *)
(* channels c, the visible sets v, the game g, the pending drops d and the   *)
(* next player id n.  Beyond what SessionsAreOneWorld says, no two sessions  *)
(* play the same player, ids are given out once (so that a join that fails   *)
(* cannot take away the score of somebody else), and drops are pending only  *)
(* while a round runs.                                                       *)
(***************************************************************************)
PlayersMatch(r, g) ==
  /\ Players(g) = {x.player : x \in JoinedSessions(r)}
  /\ \A x \in JoinedSessions(r) : g.scores[x.player].key = x.key

Agree(r, c, v, g, d, n) ==
  /\ Places(r)
  /\ c = Registered(r)
  /\ DOMAIN v = {x.session : x \in JoinedSessions(r)}
  /\ GameShape(g)
  /\ PlayersMatch(r, g)
  /\ g.phase # "Running" => d = {}
  /\ n \in Nat /\ \A p \in Players(g) : p < n

WInv == Agree(reg, channels, aoi, game, drops, nextPlayer)

\* The step from the tables r and the game g to rr, gg and the drops dd.
RoundStep(r, g, rr, gg, dd) ==
  gg.round # g.round =>
    /\ gg.round = g.round + 1 /\ g.phase = "Ended"
    /\ gg.res = <<>> /\ dd = {}
    /\ \A x \in JoinedSessions(rr) : x \notin JoinedSessions(r)

Good == WInv' /\ RoundStep(reg, game, reg', game', drops')

LEMMA InitialAgreement == Init => WInv
<1> SUFFICES ASSUME Init PROVE WInv
  OBVIOUS
<1>1. Places(reg) /\ JoinedSessions(reg) = {} /\ Registered(reg) = {}
  BY EmptyPlaces DEF Init
<1>2. game = [round |-> 1, phase |-> "Waiting", ends |-> 0, scores |-> <<>>,
              slots |-> [i \in AmbientSlots |-> "Dormant"], res |-> <<>>]
  BY DEF Init, InitialGameplay
<1>3. ScoreTable(<<>>) /\ DOMAIN <<>> = {}
  <2>1. <<>> \in [{} -> [key : {}, score : {}, life : {}]] /\ DOMAIN <<>> = {}
    OBVIOUS
  <2> QED
    BY <2>1 DEF ScoreTable
<1>4. GameShape(game) /\ Players(game) = {}
  BY <1>2, <1>3 DEF GameShape, Players
<1>5. PlayersMatch(reg, game)
  BY <1>1, <1>4 DEF PlayersMatch
<1>6. /\ channels = {} /\ DOMAIN aoi = {} /\ drops = {} /\ nextPlayer \in Nat
  BY <1>3 DEF Init
<1> QED
  BY <1>1, <1>4, <1>5, <1>6 DEF WInv, Agree

\* The steps that touch none of it.
LEMMA Untouched ==
  ASSUME WInv, UNCHANGED <<reg, channels, game, drops, nextPlayer>>, DOMAIN aoi' = DOMAIN aoi
  PROVE  Good
BY DEF Good, WInv, Agree, RoundStep

\* A reset leaves players and drops as they are.
LEMMA ResetAgreement ==
  ASSUME NEW r, NEW c, NEW v, NEW g, NEW d, NEW n, Agree(r, c, v, g, d, n),
         NEW e, NEW b, b = ResetEndedRoundIfEmpty(e, g)
  PROVE  /\ Agree(r, c, v, b.g, d, n)
         /\ Players(b.g) = Players(g)
         /\ b.g.round # g.round =>
              /\ b.g.round = g.round + 1 /\ g.phase = "Ended" /\ b.g.res = <<>> /\ d = {}
              /\ JoinedSessions(r) = {}
<1>1. GameShape(g) /\ PlayersMatch(r, g)
  BY DEF Agree
<1>2. GameShape(b.g) /\ b.g.scores = g.scores
  BY <1>1, ResetGame
<1>3. Players(b.g) = Players(g) /\ PlayersMatch(r, b.g)
  BY <1>1, <1>2 DEF Players, PlayersMatch
<1>4. CASE ResetNeeded(g)
  <2>1. /\ g.phase = "Ended" /\ Players(g) = {}
        /\ b.g.round = g.round + 1 /\ b.g.phase = "Waiting" /\ b.g.res = <<>>
    BY <1>1, <1>4, ResetGame
  <2>2. d = {} /\ JoinedSessions(r) = {}
    BY <1>1, <2>1 DEF Agree, PlayersMatch
  <2> QED
    BY <1>2, <1>3, <2>1, <2>2 DEF Agree
<1>5. CASE ~ ResetNeeded(g)
  <2>1. b.g = g
    BY <1>1, <1>5, ResetGame
  <2> QED
    BY <1>3, <2>1
<1> QED
  BY <1>4, <1>5

-----------------------------------------------------------------------------
(***************************************************************************)
(* The actions.                                                            *)
(***************************************************************************)
LEMMA AcceptedStep ==
  ASSUME WInv, NEW s \in Sessions, HandleSessionAccepted(s)
  PROVE  Good
<1>1. /\ reg' = TryRegister(reg, s) /\ channels' = channels \cup {s}
      /\ s \in Sessions \ Registered(reg)
      /\ aoi' = aoi /\ game' = game /\ drops' = drops /\ nextPlayer' = nextPlayer
  BY DEF HandleSessionAccepted, worldVars
<1>2. /\ Places(reg') /\ JoinedSessions(reg') = JoinedSessions(reg)
      /\ Registered(reg') = Registered(reg) \cup {s}
  BY <1>1, RegisterPlaces DEF WInv, Agree
<1>3. PlayersMatch(reg', game')
  BY <1>1, <1>2 DEF WInv, Agree, PlayersMatch
<1>4. WInv'
  BY <1>1, <1>2, <1>3 DEF WInv, Agree
<1> QED
  BY <1>1, <1>4 DEF Good, RoundStep

\* What is left when a session is gone with its player, ahead of the reset.
LEMMA ClosedAgreement ==
  ASSUME WInv, NEW s \in Registered(reg), NEW left,
         SessionOf(reg, s).role = "Player" => left = LeaveWorld(SessionOf(reg, s)),
         SessionOf(reg, s).role # "Player" => left = [e |-> ent, g |-> game, drops |-> drops]
  PROVE  /\ Agree(RemoveSession(reg, s), channels \ {s}, Without(aoi, s), left.g, left.drops, nextPlayer)
         /\ left.g.round = game.round /\ left.g.phase = game.phase
<1> DEFINE x == SessionOf(reg, s)
           r == RemoveSession(reg, s)
<1>1. /\ Places(r) /\ JoinedSessions(r) = JoinedSessions(reg) \ {x}
      /\ Registered(r) = Registered(reg) \ {s}
  BY RemovePlaces DEF WInv, Agree
<1>2. /\ x.session = s
      /\ x.role = "Player" <=> x \in JoinedSessions(reg)
      /\ x.role # "Player" => s \notin {y.session : y \in JoinedSessions(reg)}
  BY RoleTells DEF WInv, Agree
<1>3. \A y \in JoinedSessions(reg) : y.session = s => y = x
  BY <1>2, JoinedArePlayers DEF WInv, Agree
<1>4. DOMAIN Without(aoi, s) = {y.session : y \in JoinedSessions(r)}
  <2>1. DOMAIN Without(aoi, s) = DOMAIN aoi \ {s}
    BY Removed
  <2>2. \A y \in JoinedSessions(reg) : y # x <=> y.session # s
    BY <1>2, <1>3
  <2> HIDE DEF x, r
  <2> QED
    BY <1>1, <2>1, <2>2 DEF WInv, Agree
<1>5. CASE x.role = "Player"
  <2>1. x \in JoinedSessions(reg) /\ \A y \in JoinedSessions(reg) : y.player = x.player => y = x
    BY <1>2, <1>5, JoinedArePlayers DEF WInv, Agree
  <2>2. left.g = RemovePlayer(game, x.player)
    BY <1>5 DEF LeaveWorld
  <2>3. game.phase # "Running" => left.drops = drops
    BY <1>5 DEF LeaveWorld
  <2> HIDE DEF x, r
  <2>4. /\ GameShape(left.g) /\ SameRound(game, left.g)
        /\ Players(left.g) = Players(game) \ {x.player}
        /\ \A q \in Players(game) \ {x.player} : left.g.scores[q] = game.scores[q]
    BY <2>2, RemovedScores DEF WInv, Agree
  <2>5. PlayersMatch(r, left.g)
    BY <1>1, <2>1, <2>4 DEF WInv, Agree, PlayersMatch
  <2>6. left.g.phase = game.phase /\ left.g.round = game.round
    BY <2>4 DEF SameRound
  <2> QED
    BY <1>1, <1>4, <2>3, <2>4, <2>5, <2>6 DEF WInv, Agree, r
<1>6. CASE x.role # "Player"
  <2>1. left.g = game /\ left.drops = drops
    BY <1>6
  <2>2. JoinedSessions(r) = JoinedSessions(reg)
    BY <1>1, <1>2, <1>6
  <2> HIDE DEF x, r
  <2>3. PlayersMatch(r, game)
    BY <2>2 DEF WInv, Agree, PlayersMatch
  <2> QED
    BY <1>1, <1>4, <2>1, <2>3 DEF WInv, Agree, r
<1> QED
  BY <1>5, <1>6

LEMMA ClosedStep ==
  ASSUME WInv, NEW s \in Sessions, HandleSessionClosed(s)
  PROVE  Good
<1> DEFINE left == IF SessionOf(reg, s).role = "Player" THEN LeaveWorld(SessionOf(reg, s))
                   ELSE [e |-> ent, g |-> game, drops |-> drops]
           after == ResetEndedRoundIfEmpty(left.e, left.g)
<1>1. /\ s \in Registered(reg)
      /\ game' = after.g /\ drops' = left.drops /\ channels' = channels \ {s}
      /\ aoi' = Without(aoi, s) /\ reg' = RemoveSession(reg, s) /\ nextPlayer' = nextPlayer
  BY DEF HandleSessionClosed
<1>2. /\ SessionOf(reg, s).role = "Player" => left = LeaveWorld(SessionOf(reg, s))
      /\ SessionOf(reg, s).role # "Player" => left = [e |-> ent, g |-> game, drops |-> drops]
  OBVIOUS
<1> HIDE DEF left
<1>3. /\ Agree(reg', channels', aoi', left.g, drops', nextPlayer')
      /\ left.g.round = game.round /\ left.g.phase = game.phase
  BY <1>1, <1>2, ClosedAgreement
<1> HIDE DEF after
<1>4. /\ Agree(reg', channels', aoi', game', drops', nextPlayer')
      /\ game'.round # left.g.round =>
           /\ game'.round = left.g.round + 1 /\ left.g.phase = "Ended" /\ game'.res = <<>> /\ drops' = {}
           /\ JoinedSessions(reg') = {}
  BY <1>1, <1>3, ResetAgreement DEF after
<1> QED
  BY <1>3, <1>4 DEF Good, WInv, RoundStep

LEMMA ObserveStep ==
  ASSUME WInv, NEW s \in Sessions, HandleObserve(s)
  PROVE  Good
<1> DEFINE base == ResetEndedRoundIfEmpty(ent, game)
<1>1. /\ s \in Registered(reg)
      /\ channels' = channels /\ aoi' = aoi /\ drops' = drops /\ nextPlayer' = nextPlayer
  BY DEF HandleObserve, Head1, WInv, Agree
<1>2. \/ game' = game /\ reg' = reg
      \/ /\ game' = base.g
         /\ \/ reg' = reg
            \/ SessionOf(reg, s).role = "Connected" /\ reg' = TryBindObserver(reg, s)
  BY DEF HandleObserve
<1>3. CASE game' = game /\ reg' = reg
  BY <1>1, <1>3, Untouched
<1>4. CASE /\ game' = base.g
           /\ \/ reg' = reg
              \/ SessionOf(reg, s).role = "Connected" /\ reg' = TryBindObserver(reg, s)
  <2>1. /\ Places(reg') /\ JoinedSessions(reg') = JoinedSessions(reg)
        /\ Registered(reg') = Registered(reg)
    BY <1>1, <1>4, BindObserverPlaces DEF WInv, Agree
  <2> HIDE DEF base
  <2>2. /\ Agree(reg, channels, aoi, base.g, drops, nextPlayer)
        /\ base.g.round # game.round =>
             /\ base.g.round = game.round + 1 /\ game.phase = "Ended" /\ base.g.res = <<>> /\ drops = {}
             /\ JoinedSessions(reg) = {}
    BY ResetAgreement DEF WInv, base
  <2>3. Agree(reg', channels, aoi, base.g, drops, nextPlayer)
    BY <2>1, <2>2 DEF Agree, PlayersMatch
  <2> QED
    BY <1>1, <1>4, <2>1, <2>2, <2>3 DEF Good, WInv, RoundStep
<1> QED
  BY <1>2, <1>3, <1>4

\* The four ways in which a join ends.  A refused one keeps at most the reset; a
\* rollback finds the player it takes away to be its own, because ids are given
\* out once.
LEMMA JoinStep ==
  ASSUME WInv, NEW s \in Sessions, HandleJoin(s)
  PROVE  Good
<1> DEFINE base == ResetEndedRoundIfEmpty(ent, game)
           p == nextPlayer
           key == NextKey(base.e)
           e1 == TryCreate(base.e, PlayerEntity(p))
           g1 == TryRegisterPlayer(base.g, p, key)
           refused == \/ base.g.phase = "Ended" \/ nextPlayer > MaxPlayerId
                      \/ SessionOf(reg, s).role # "Connected"
<1>1. /\ s \in Registered(reg) /\ channels' = channels /\ drops' = drops
  BY DEF HandleJoin, Head1, WInv, Agree
<1>2. \/ game' = base.g /\ reg' = reg /\ aoi' = aoi /\ nextPlayer' = nextPlayer
      \/ ~refused /\ RollbackPreparedJoin(s, e1, base.g, p, key)
      \/ ~refused /\ RollbackPreparedJoin(s, e1, g1, p, key)
      \/ /\ ~refused
         /\ \E seen : aoi' = With(aoi, s, seen)
         /\ game' = g1 /\ nextPlayer' = nextPlayer + 1
         /\ CanBindPlayer(reg, s, key) /\ reg' = TryBindPlayer(reg, s, p, key)
  BY DEF HandleJoin
<1> HIDE DEF base
<1>3. /\ Agree(reg, channels, aoi, base.g, drops, nextPlayer)
      /\ Players(base.g) = Players(game)
      /\ base.g.round # game.round =>
           /\ base.g.round = game.round + 1 /\ game.phase = "Ended" /\ base.g.res = <<>> /\ drops = {}
           /\ JoinedSessions(reg) = {}
  BY ResetAgreement DEF WInv, base
<1>4. p \in Nat /\ p \notin Players(base.g)
  BY <1>3 DEF Agree
<1>5. /\ GameShape(g1) /\ SameRound(base.g, g1)
      /\ Players(g1) = Players(base.g) \cup {p} /\ g1.scores[p].key = key
      /\ \A q \in Players(base.g) : g1.scores[q] = base.g.scores[q]
  <2> HIDE DEF key, p
  <2> QED
    BY <1>3, <1>4, RegisteredScores DEF Agree
<1>6. ~refused => s \notin {x.session : x \in JoinedSessions(reg)}
  <2>1. ~refused => SessionOf(reg, s).role # "Player"
    OBVIOUS
  <2> HIDE DEF refused
  <2> QED
    BY <1>1, <2>1, RoleTells DEF WInv, Agree
<1>7. ~refused => DOMAIN Without(aoi, s) = DOMAIN aoi
  <2> HIDE DEF refused
  <2> QED
    BY <1>6, Removed DEF WInv, Agree
<1> HIDE DEF refused, e1, key
<1>8. CASE game' = base.g /\ reg' = reg /\ aoi' = aoi /\ nextPlayer' = nextPlayer
  BY <1>1, <1>3, <1>8 DEF Good, WInv, RoundStep
<1>9. CASE ~refused /\ RollbackPreparedJoin(s, e1, base.g, p, key)
  <2>1. /\ game' = base.g /\ reg' = reg /\ nextPlayer' = nextPlayer
        /\ DOMAIN aoi' = DOMAIN aoi
    BY <1>4, <1>7, <1>9 DEF RollbackPreparedJoin
  <2>2. WInv'
    BY <1>1, <1>3, <2>1 DEF WInv, Agree
  <2> QED
    BY <1>1, <1>3, <2>1, <2>2 DEF Good, RoundStep
<1>10. CASE ~refused /\ RollbackPreparedJoin(s, e1, g1, p, key)
  <2> HIDE DEF g1, p
  <2>1. /\ game' = RemovePlayer(g1, p) /\ reg' = reg /\ nextPlayer' = nextPlayer
        /\ DOMAIN aoi' = DOMAIN aoi
    BY <1>5, <1>7, <1>10 DEF RollbackPreparedJoin
  <2>2. /\ GameShape(game') /\ SameRound(g1, game')
        /\ Players(game') = Players(g1) \ {p}
        /\ \A q \in Players(g1) \ {p} : game'.scores[q] = g1.scores[q]
    BY <1>5, <2>1, RemovedScores
  <2>3. Players(game') = Players(base.g) /\ \A q \in Players(base.g) : game'.scores[q] = base.g.scores[q]
    BY <1>4, <1>5, <2>2
  <2>4. PlayersMatch(reg, game')
    BY <1>3, <2>3 DEF Agree, PlayersMatch
  <2>5. game'.phase = base.g.phase /\ game'.round = base.g.round /\ game'.res = base.g.res
    BY <1>5, <2>2 DEF SameRound
  <2>6. WInv'
    BY <1>1, <1>3, <2>1, <2>2, <2>3, <2>4, <2>5 DEF WInv, Agree
  <2> QED
    BY <1>1, <1>3, <2>1, <2>5, <2>6 DEF Good, RoundStep
<1>11. CASE /\ ~refused
            /\ \E seen : aoi' = With(aoi, s, seen)
            /\ game' = g1 /\ nextPlayer' = nextPlayer + 1
            /\ CanBindPlayer(reg, s, key) /\ reg' = TryBindPlayer(reg, s, p, key)
  <2> DEFINE e == [session |-> s, player |-> p, key |-> key, role |-> "Player"]
  <2>1. e.session = s /\ e.player = p /\ e.key = key
    OBVIOUS
  <2>2. DOMAIN aoi' = DOMAIN aoi \cup {s}
    BY <1>11, Extended
  <2>3. p \notin {x.player : x \in JoinedSessions(reg)}
    BY <1>3, <1>4 DEF Agree, PlayersMatch
  <2> HIDE DEF p
  <2>4. /\ Places(reg') /\ JoinedSessions(reg') = JoinedSessions(reg) \cup {e}
        /\ Registered(reg') = Registered(reg)
    BY <1>4, <1>11, <2>3, BindPlayerPlaces DEF WInv, Agree, CanBindPlayer
  <2> HIDE DEF e, g1
  <2>5. DOMAIN aoi' = {x.session : x \in JoinedSessions(reg')}
    BY <2>1, <2>2, <2>4 DEF WInv, Agree
  <2>6. PlayersMatch(reg', game')
    <3>1. Players(game') = {x.player : x \in JoinedSessions(reg')}
      BY <1>3, <1>5, <1>11, <2>1, <2>4 DEF Agree, PlayersMatch
    <3>2. ASSUME NEW x \in JoinedSessions(reg) PROVE game'.scores[x.player].key = x.key
      <4>1. x.player \in Players(base.g) /\ base.g.scores[x.player].key = x.key
        BY <1>3 DEF Agree, PlayersMatch
      <4> QED
        BY <1>5, <1>11, <4>1
    <3>3. game'.scores[e.player].key = e.key
      BY <1>5, <1>11, <2>1
    <3> QED
      BY <2>4, <3>1, <3>2, <3>3 DEF PlayersMatch
  <2>7. game'.phase = base.g.phase /\ game'.round = base.g.round /\ game'.res = base.g.res
    BY <1>5, <1>11 DEF SameRound
  <2>8. nextPlayer' \in Nat /\ \A q \in Players(game') : q < nextPlayer'
    <3>1. /\ nextPlayer \in Nat /\ Players(game') = Players(base.g) \cup {nextPlayer}
          /\ nextPlayer' = nextPlayer + 1
      BY <1>3, <1>5, <1>11 DEF Agree, p
    <3>2. \A q \in Players(base.g) : q \in Nat /\ q < nextPlayer
      BY <1>3, JoinedArePlayers DEF Agree, PlayersMatch
    <3> QED
      BY <3>1, <3>2
  <2>9. WInv'
    BY <1>1, <1>3, <1>5, <1>11, <2>4, <2>5, <2>6, <2>7, <2>8 DEF WInv, Agree
  <2> QED
    BY <1>1, <1>3, <2>1, <2>4, <2>7, <2>9 DEF Good, RoundStep
<1> QED
  BY <1>2, <1>8, <1>9, <1>10, <1>11

\* A tick: scores change, entities are given out again, and nobody comes or goes.
LEMMA RespawnedEntry ==
  ASSUME NEW r, Places(r), NEW x \in JoinedSessions(r), NEW ps, NEW keys
  PROVE  /\ Respawned(x, ps, keys).session = x.session
         /\ Respawned(x, ps, keys).player = x.player
         /\ Respawned(x, ps, keys).key = IF x.player \in ps THEN keys[x.player] ELSE x.key
<1>1. PICK i \in 1 .. r.joined : x = r.dense[i]
  BY DEF JoinedSessions
<1>2. PICK K : r.dense \in [1 .. Len(r.dense) -> Entries(K)]
  BY TableOf DEF Places
<1>3. x \in Entries(K)
  BY <1>1, <1>2, TableOf DEF Places
<1>4. CASE x.player \in ps
  <2> DEFINE k == keys[x.player]
  <2>1. Respawned(x, ps, keys) = [x EXCEPT !.key = k]
    BY <1>4 DEF Respawned
  <2> HIDE DEF k
  <2>2. Respawned(x, ps, keys).session = x.session /\ Respawned(x, ps, keys).player = x.player
        /\ Respawned(x, ps, keys).key = k
    BY <1>3, <2>1 DEF Entries
  <2> QED
    BY <1>4, <2>2 DEF k
<1>5. CASE x.player \notin ps
  BY <1>5 DEF Respawned
<1> QED
  BY <1>4, <1>5

LEMMA TickStep ==
  ASSUME WInv, Tick
  PROVE  Good
<1>1. CASE \E reason : StopWorld(reason)
  BY <1>1, Untouched DEF StopWorld, sessionVars, worldVars
<1>2. CASE \E o, done, ps : done = Commit(tick, o, ent, game) /\ GameplayTick(o, done, ps)
  <2>1. PICK o, done, ps : done = Commit(tick, o, ent, game) /\ GameplayTick(o, done, ps)
    BY <1>2
  <2> DEFINE w == CommitPlayerSpawns(ps, done.e, done.g)
  <2>2. /\ game' = w.g /\ drops' = {} /\ channels' = channels /\ nextPlayer' = nextPlayer
        /\ reg' = RebindControlledEntities(reg, ps, w.keys)
        /\ DOMAIN aoi' = DOMAIN aoi
    BY <2>1 DEF GameplayTick, Pruned
  <2>3. /\ GameShape(done.g) /\ done.g.round = game.round
        /\ Players(done.g) = Players(game)
        /\ \A p \in Players(game) : done.g.scores[p].key = game.scores[p].key
    BY <2>1, CommittedGame DEF WInv, Agree
  <2>4. /\ GameShape(w.g) /\ SameRound(done.g, w.g)
        /\ Players(w.g) = Players(done.g)
        /\ \A p \in Players(done.g) : w.g.scores[p].key = IF p \in ps THEN w.keys[p] ELSE done.g.scores[p].key
    <3> HIDE DEF w
    <3> QED
      BY <2>3, RespawnedGame DEF w
  <2> HIDE DEF w
  <2>5. /\ Places(reg')
        /\ JoinedSessions(reg') = {Respawned(x, ps, w.keys) : x \in JoinedSessions(reg)}
        /\ Registered(reg') = Registered(reg)
    BY <2>2, RebindPlaces DEF WInv, Agree
  <2>6. \A x \in JoinedSessions(reg) :
          /\ Respawned(x, ps, w.keys).session = x.session
          /\ Respawned(x, ps, w.keys).player = x.player
          /\ Respawned(x, ps, w.keys).key = IF x.player \in ps THEN w.keys[x.player] ELSE x.key
    BY RespawnedEntry DEF WInv, Agree
  <2>7. DOMAIN aoi' = {x.session : x \in JoinedSessions(reg')}
    BY <2>2, <2>5, <2>6 DEF WInv, Agree
  <2>8. PlayersMatch(reg', game')
    BY <2>2, <2>3, <2>4, <2>5, <2>6 DEF WInv, Agree, PlayersMatch
  <2>9. game'.round = game.round /\ Players(game') = Players(game)
    BY <2>2, <2>3, <2>4 DEF SameRound
  <2> QED
    BY <2>2, <2>4, <2>5, <2>7, <2>8, <2>9 DEF Good, WInv, Agree, RoundStep
<1> QED
  BY <1>1, <1>2 DEF Tick

LEMMA RecordStep ==
  ASSUME WInv, Record
  PROVE  Good
<1>1. UNCHANGED <<reg, channels, game, drops, nextPlayer>>
  BY DEF Record, worldVars
<1>2. \/ aoi' = aoi
      \/ \E view \in Views : aoi' = Over(view, aoi)
  BY DEF Record
<1>3. ASSUME NEW view \in Views PROVE DOMAIN Over(view, aoi) = DOMAIN aoi
  <2>1. DOMAIN view = {x.session : x \in AoiRecipients}
    BY DEF Views
  <2>2. DOMAIN view \subseteq DOMAIN aoi
    BY <2>1 DEF AoiRecipients, WInv, Agree
  <2> QED
    BY <2>2 DEF Over
<1> QED
  BY <1>1, <1>2, <1>3, Untouched

LEMMA OtherSteps ==
  ASSUME WInv,
         \/ BeginBatch
         \/ \E s \in Sessions : ClientControl(s) \/ HandleTimeSync(s) \/ HandleControl(s) \/ HandleMalformed(s)
         \/ UNCHANGED vars
  PROVE  Good
<1>1. UNCHANGED <<reg, channels, aoi, game, drops, nextPlayer>>
  BY DEF BeginBatch, ClientControl, HandleTimeSync, HandleControl, HandleMalformed, vars, sessionVars, worldVars
<1> QED
  BY <1>1, Untouched

LEMMA WStep == WInv /\ [Next]_vars => Good
<1> SUFFICES ASSUME WInv, [Next]_vars PROVE Good
  OBVIOUS
<1>1. CASE \E s \in Sessions : HandleSessionAccepted(s)
  BY <1>1, AcceptedStep
<1>2. CASE \E s \in Sessions : HandleSessionClosed(s)
  BY <1>2, ClosedStep
<1>3. CASE \E s \in Sessions : HandleJoin(s)
  BY <1>3, JoinStep
<1>4. CASE \E s \in Sessions : HandleObserve(s)
  BY <1>4, ObserveStep
<1>5. CASE Tick
  BY <1>5, TickStep
<1>6. CASE Record
  BY <1>6, RecordStep
<1>7. CASE \/ BeginBatch
           \/ \E s \in Sessions : ClientControl(s) \/ HandleTimeSync(s) \/ HandleControl(s) \/ HandleMalformed(s)
           \/ UNCHANGED vars
  BY <1>7, OtherSteps
<1> QED
  BY <1>1, <1>2, <1>3, <1>4, <1>5, <1>6, <1>7 DEF Next

LEMMA WInvariance == Spec => []WInv
<1>1. WInv /\ [Next]_vars => WInv'
  BY WStep DEF Good
<1> QED
  BY InitialAgreement, <1>1, PTL DEF Spec

LEMMA WInvImpliesOneWorld == WInv => SessionsAreOneWorld
<1> SUFFICES ASSUME WInv PROVE SessionsAreOneWorld
  OBVIOUS
<1> DEFINE n == Len(reg.dense)
<1>1. /\ n \in Nat /\ reg.joined \in 0 .. n
      /\ reg.index \in [Registered(reg) -> 1 .. n]
      /\ \A s \in Registered(reg) : reg.dense[reg.index[s]].session = s
      /\ \A i \in 1 .. n : reg.dense[i].session \in Registered(reg) /\ reg.index[reg.dense[i].session] = i
  BY TableOf DEF WInv, Agree, Places
<1>2. reg.joined <= n
  BY <1>1
<1>3. ToSet(reg.dense) = {reg.dense[i] : i \in 1 .. n}
  <2>1. PICK K : reg.dense \in [1 .. n -> Entries(K)]
    BY TableOf DEF WInv, Agree, Places
  <2> QED
    BY <2>1 DEF ToSet
<1>4. Registered(reg) = {d.session : d \in ToSet(reg.dense)}
  <2> HIDE DEF n
  <2> QED
    BY <1>1, <1>3
<1>5. \A i \in 1 .. n : (i <= reg.joined) <=> (reg.dense[i].role = "Player")
  BY DEF WInv, Agree, Places, PlayersFirst
<1>6. PlacesConsistent
  BY <1>1, <1>2, <1>4, <1>5 DEF PlacesConsistent
<1> QED
  BY <1>6 DEF SessionsAreOneWorld, WInv, Agree, PlayersMatch

\* The session table stays one table, and table, channels, visible sets and scores
\* stay about the same sessions, whatever joins fail, whoever leaves and dies.
THEOREM SessionsAreOneWorldHolds == Spec => []SessionsAreOneWorld
BY WInvariance, WInvImpliesOneWorld, PTL

\* A new round begins only when nobody of the old one is there any more, with no
\* resource and no pending drop left (ResetEndedRoundIfEmpty).
THEOREM RoundsBeginEmptyHolds == Spec => RoundsBeginEmpty
<1>1. WInv /\ [Next]_vars =>
        [game'.round # game.round =>
           /\ game'.round = game.round + 1 /\ game.phase = "Ended"
           /\ game'.res = <<>> /\ drops' = {}
           /\ \A x \in JoinedSessions(reg') : x \notin JoinedSessions(reg)]_vars
  BY WStep DEF Good, RoundStep
<1> QED
  BY WInvariance, <1>1, PTL DEF Spec, RoundsBeginEmpty

-----------------------------------------------------------------------------
(***************************************************************************)
(* Induction over natural numbers, for a set instead of a predicate.       *)
(***************************************************************************)
\* A set of natural numbers has a least element.
LEMMA LeastNat ==
  ASSUME NEW T \in SUBSET Nat, T # {}
  PROVE  \E m \in T : \A n \in T : m <= n
<1> DEFINE R == {ss \in Nat \X Nat : ss[1] < ss[2]}
<1>1. IsWellFoundedOn(R, Nat)
  BY NatLessThanWellFounded DEF OpToRel
<1>2. PICK m \in T : \A n \in T : <<n, m>> \notin R
  <2> HIDE DEF R
  <2> QED BY <1>1, WFMin
<1>3. \A n \in T : ~ (n < m)
  BY <1>2
<1> QED
  BY <1>3

\* A set that holds 0, and each number's successor up to a limit, holds all.
LEMMA SetInduction ==
  ASSUME NEW limit \in Nat, NEW T, 0 \in T,
         \A n \in 1 .. limit : n - 1 \in T => n \in T
  PROVE  \A n \in 0 .. limit : n \in T
<1> SUFFICES ASSUME NEW n \in 0 .. limit, n \notin T
             PROVE  FALSE
  OBVIOUS
<1> DEFINE Bad == {m \in 0 .. limit : m \notin T}
<1>1. PICK m \in Bad : \A i \in Bad : m <= i
  <2>1. Bad \in SUBSET Nat /\ Bad # {}
    OBVIOUS
  <2> HIDE DEF Bad
  <2> QED BY <2>1, LeastNat
<1>2. m \in 1 .. limit /\ m - 1 \in 0 .. limit
  OBVIOUS
<1>3. m - 1 \notin Bad
  BY <1>1, <1>2
<1> QED
  BY <1>2, <1>3

-----------------------------------------------------------------------------
(***************************************************************************)
(* The enumeration of a finite set in an order.                            *)
(***************************************************************************)
\* R is a strict total order of S.
Orders(R, S) ==
  /\ \A a, b \in S : a # b => <<a, b>> \in R \/ <<b, a>> \in R
  /\ \A a, b, c \in S : <<a, b>> \in R /\ <<b, c>> \in R => <<a, c>> \in R
  /\ \A a \in S : <<a, a>> \notin R

\* q names the elements of S in the order R, the n of them.
Lists(q, n, R, S) ==
  /\ q \in [1 .. n -> S]
  /\ \A i, j \in 1 .. n : i < j => <<q[i], q[j]>> \in R
  /\ \A x \in S : \E i \in 1 .. n : q[i] = x

\* With its greatest element at the end a list of the others is a list of all.
LEMMA ListLonger ==
  ASSUME NEW S, NEW R, NEW m \in S, NEW n \in Nat, NEW q, Lists(q, n, R, S \ {m}),
         \A y \in S \ {m} : <<y, m>> \in R
  PROVE  \E z : Lists(z, n + 1, R, S)
<1> DEFINE z == [i \in 1 .. n + 1 |-> IF i = n + 1 THEN m ELSE q[i]]
<1>1. \A i \in 1 .. n + 1 : i # n + 1 => i \in 1 .. n
  OBVIOUS
<1>2. \A i \in 1 .. n : q[i] \in S \ {m}
  BY DEF Lists
<1>3. z \in [1 .. n + 1 -> S]
  BY <1>1, <1>2
<1>4. \A i \in 1 .. n : z[i] = q[i]
  OBVIOUS
<1>5. z[n + 1] = m /\ n + 1 \in 1 .. n + 1 /\ \A i \in 1 .. n : i \in 1 .. n + 1
  OBVIOUS
<1> HIDE DEF z
<1>6. ASSUME NEW i \in 1 .. n + 1, NEW j \in 1 .. n + 1, i < j
      PROVE  <<z[i], z[j]>> \in R
  <2>1. i \in 1 .. n
    BY <1>6
  <2>2. CASE j = n + 1
    BY <1>2, <1>4, <1>5, <2>1, <2>2
  <2>3. CASE j # n + 1
    BY <1>1, <1>4, <1>6, <2>1, <2>3 DEF Lists
  <2> QED BY <2>2, <2>3
<1>7. ASSUME NEW x \in S PROVE \E i \in 1 .. n + 1 : z[i] = x
  <2>1. CASE x = m
    BY <1>5, <2>1
  <2>2. CASE x # m
    <3>1. PICK i \in 1 .. n : q[i] = x
      BY <2>2 DEF Lists
    <3> QED BY <1>4, <1>5, <3>1
  <2> QED BY <2>1, <2>2
<1>8. Lists(z, n + 1, R, S)
  BY <1>3, <1>6, <1>7 DEF Lists
<1> QED BY <1>8

\* Every finite set has such a list.
LEMMA ListExists ==
  ASSUME NEW S, IsFiniteSet(S), NEW R, Orders(R, S)
  PROVE  \E q : Lists(q, Cardinality(S), R, S)
<1> DEFINE N == Cardinality(S)
           Listed(n) == \A U \in SUBSET S : Cardinality(U) = n => \E q : Lists(q, n, R, U)
           T == {n \in 0 .. N : Listed(n)}
<1>1. N \in Nat /\ \A U \in SUBSET S : IsFiniteSet(U)
  BY FS_CardinalityType, FS_Subset
<1> HIDE DEF N
<1>2. 0 \in T
  <2>1. ASSUME NEW U \in SUBSET S, Cardinality(U) = 0
        PROVE  \E q : Lists(q, 0, R, U)
    <3>1. U = {}
      BY <1>1, <2>1, FS_EmptySet
    <3>2. [i \in 1 .. 0 |-> 0] \in [1 .. 0 -> U]
      OBVIOUS
    <3>3. Lists([i \in 1 .. 0 |-> 0], 0, R, U)
      BY <3>1, <3>2 DEF Lists
    <3> QED BY <3>3
  <2> HIDE DEF Listed
  <2>2. Listed(0)
    BY <2>1 DEF Listed
  <2> QED BY <1>1, <2>2
<1>3. ASSUME NEW n \in 1 .. N, n - 1 \in T PROVE n \in T
  <2>1. SUFFICES ASSUME NEW U \in SUBSET S, Cardinality(U) = n
                 PROVE  \E q : Lists(q, n, R, U)
    BY <1>1
  <2>2. PICK x : x \in U
    <3>1. U # {}
      BY <1>1, <2>1, FS_EmptySet
    <3> QED BY <3>1
  <2>3. \A y \in U : /\ Cardinality(U \ {y}) = n - 1
                     /\ U \ {y} \in SUBSET S
    BY <1>1, <2>1, FS_RemoveElement
  <2>4. \A y \in U : \E q : Lists(q, n - 1, R, U \ {y})
    BY <1>3, <2>3
  <2>5. PICK q : Lists(q, n - 1, R, U \ {x})
    BY <2>2, <2>4
  <2>6. \E m \in U : \A y \in U \ {m} : <<y, m>> \in R
    <3>1. CASE n = 1
      <4>1. U \ {x} = {}
        <5>1. Cardinality(U \ {x}) = 0 /\ IsFiniteSet(U \ {x})
          BY <1>1, <2>2, <2>3, <3>1
        <5> QED BY <5>1, FS_EmptySet
      <4> QED BY <2>2, <4>1
    <3>2. CASE n # 1
      <4> DEFINE l == q[n - 1]
      <4>1. n - 1 \in 1 .. n - 1 /\ n - 1 \in Nat
        BY <1>1, <3>2
      <4>2. l \in U \ {x}
        BY <2>5, <4>1 DEF Lists
      <4>3. ASSUME NEW y \in U \ {x}, y # l PROVE <<y, l>> \in R
        <5>1. PICK i \in 1 .. n - 1 : q[i] = y
          BY <2>5 DEF Lists
        <5>2. i < n - 1
          BY <1>1, <4>1, <4>3, <5>1
        <5> QED BY <2>5, <4>1, <5>1, <5>2 DEF Lists
      <4> HIDE DEF l
      <4>4. CASE <<l, x>> \in R
        <5>1. \A y \in U \ {x} : <<y, x>> \in R
          BY <2>2, <4>2, <4>3, <4>4 DEF Orders
        <5> QED BY <2>2, <5>1
      <4>5. CASE <<x, l>> \in R
        <5>1. \A y \in U \ {l} : <<y, l>> \in R
          BY <4>3, <4>5
        <5> QED BY <4>2, <5>1
      <4> QED BY <2>2, <4>2, <4>4, <4>5 DEF Orders
    <3> QED BY <3>1, <3>2
  <2>7. PICK m \in U : \A y \in U \ {m} : <<y, m>> \in R
    BY <2>6
  <2>8. PICK w : Lists(w, n - 1, R, U \ {m})
    BY <2>4
  <2>9. n - 1 \in Nat /\ (n - 1) + 1 = n
    BY <1>1
  <2>10. \E z : Lists(z, (n - 1) + 1, R, U)
    BY <2>7, <2>8, <2>9, ListLonger
  <2> QED BY <2>9, <2>10
<1>4. N \in T
  <2> HIDE DEF T
  <2>1. \A n \in 0 .. N : n \in T
    BY <1>1, <1>2, <1>3, SetInduction
  <2> QED BY <1>1, <2>1
<1> QED
  BY <1>4 DEF N

\* InOrder names every element of a finite set once.
LEMMA InOrderLists ==
  ASSUME NEW S, IsFiniteSet(S), NEW R, Orders(R, S)
  PROVE  /\ Cardinality(S) \in Nat /\ Len(InOrder(S, R)) = Cardinality(S)
         /\ InOrder(S, R) \in Seq(S)
         /\ \A i, j \in 1 .. Len(InOrder(S, R)) : InOrder(S, R)[i] = InOrder(S, R)[j] => i = j
         /\ \A x \in S : \E i \in 1 .. Len(InOrder(S, R)) : InOrder(S, R)[i] = x
<1> DEFINE n == Cardinality(S)
           q == InOrder(S, R)
<1>1. n \in Nat
  BY FS_CardinalityType
<1>2. q \in [1 .. n -> S] /\ \A i, j \in 1 .. n : i < j => <<q[i], q[j]>> \in R
  <2>1. \E z \in [1 .. n -> S] : \A i, j \in 1 .. n : i < j => <<z[i], z[j]>> \in R
    BY ListExists DEF Lists
  <2> HIDE DEF n
  <2> QED BY <2>1 DEF InOrder, n
<1> HIDE DEF q, n
<1>3. \A i, j \in 1 .. n : q[i] = q[j] => i = j
  <2>1. ASSUME NEW i \in 1 .. n, NEW j \in 1 .. n, i < j
        PROVE  q[i] # q[j]
    <3>1. q[i] \in S /\ <<q[i], q[j]>> \in R
      BY <1>2, <2>1
    <3> QED BY <3>1 DEF Orders
  <2> QED BY <1>1, <2>1
<1>4. Len(q) = n /\ q \in Seq(S)
  BY <1>1, <1>2
<1>5. q \in Injection(1 .. n, S)
  BY <1>2, <1>3 DEF Injection, IsInjective
<1>6. Cardinality(1 .. n) = n
  BY <1>1, FS_Interval
<1>7. q \in Surjection(1 .. n, S)
  BY <1>5, <1>6, FS_Injection DEF n
<1>8. \A x \in S : \E i \in 1 .. n : q[i] = x
  BY <1>7 DEF Surjection
<1> QED
  BY <1>1, <1>3, <1>4, <1>8 DEF q, n

-----------------------------------------------------------------------------
(***************************************************************************)
(* Entity identities.                                                      *)
(***************************************************************************)
Slot == [gen : 1 .. MaxGeneration, used : BOOLEAN]

IsComponent(c) == c = [kind |-> c.kind, player |-> c.player, seq |-> c.seq]

\* The slots q and the free list f: a free slot is out of use, once in the list
\* and not at its last generation.
SlotsSound(q, f) ==
  /\ q \in Seq(Slot)
  /\ f \in Seq(1 .. Len(q))
  /\ \A i \in 1 .. Len(f) : ~ q[f[i]].used /\ q[f[i]].gen # MaxGeneration
  /\ \A i, j \in 1 .. Len(f) : f[i] = f[j] => i = j

\* The live keys L are those of the slots in use.
KeysSound(q, L) ==
  /\ \A k \in L : \E i \in 1 .. Len(q) : q[i].used /\ k = <<i, q[i].gen>>
  /\ \A i \in 1 .. Len(q) : q[i].used => <<i, q[i].gen>> \in L

CompsSound(c) ==
  /\ c = [k \in DOMAIN c |-> c[k]]
  /\ \A k \in DOMAIN c : IsComponent(c[k])

EntityShape(e) == e = [slots |-> e.slots, free |-> e.free, comps |-> e.comps]

Sound(e) ==
  /\ EntityShape(e)
  /\ SlotsSound(e.slots, e.free)
  /\ KeysSound(e.slots, Live(e))
  /\ CompsSound(e.comps)

\* The keys that have ever been given out.
IssuedOf(q) == {k \in (1 .. Len(q)) \X Nat : 1 <= k[2] /\ k[2] <= q[k[1]].gen}
Issued(e) == IssuedOf(e.slots)

\* r is e with the entities K more, whose keys are new.
Grown(e, r, K) ==
  /\ Sound(r)
  /\ Live(r) = Live(e) \cup K
  /\ \A k \in Live(e) : r.comps[k] = e.comps[k]
  /\ Issued(e) \subseteq Issued(r)
  /\ \A k \in K : k \notin Issued(e) /\ k \in Issued(r)

\* r is e without the entities K.
Shrunk(e, r, K) ==
  /\ Sound(r)
  /\ Live(r) = Live(e) \ K
  /\ \A k \in Live(r) : r.comps[k] = e.comps[k]
  /\ Issued(r) = Issued(e)

LEMMA EmptySound == Sound(EmptyEntities) /\ Live(EmptyEntities) = {}
<1>1. <<>> \in Seq(Slot) /\ Len(<<>>) = 0 /\ <<>> \in Seq(1 .. 0) /\ DOMAIN <<>> = {}
  OBVIOUS
<1>2. <<>> = [k \in DOMAIN <<>> |-> <<>>[k]]
  OBVIOUS
<1> QED
  BY <1>1, <1>2 DEF Sound, EntityShape, SlotsSound, KeysSound, CompsSound, EmptyEntities, Live

LEMMA SlotFields ==
  ASSUME NEW q \in Seq(Slot), NEW i \in 1 .. Len(q)
  PROVE  /\ q[i].gen \in 1 .. MaxGeneration /\ q[i].used \in BOOLEAN
         /\ q[i].gen \in Nat
<1>1. q[i] \in Slot
  OBVIOUS
<1>2. MaxGeneration \in Nat
  BY MaxGenerationAssumption
<1> QED
  BY <1>1, <1>2 DEF Slot

\* Live keys have been given out.
LEMMA LiveIssued ==
  ASSUME NEW e, Sound(e)
  PROVE  /\ Live(e) \subseteq Issued(e)
         /\ \A k \in Live(e) : /\ k = <<k[1], k[2]>> /\ k[1] \in 1 .. Len(e.slots)
                               /\ k[2] \in 1 .. MaxGeneration
                               /\ e.slots[k[1]].gen = k[2] /\ e.slots[k[1]].used
         /\ IsFiniteSet(Live(e))
         /\ Live(e) \subseteq Nat \X Nat
<1>1. e.slots \in Seq(Slot) /\ Len(e.slots) \in Nat
  BY DEF Sound, SlotsSound
<1>2. ASSUME NEW k \in Live(e)
      PROVE  /\ k = <<k[1], k[2]>> /\ k[1] \in 1 .. Len(e.slots)
             /\ k[2] \in 1 .. MaxGeneration
             /\ e.slots[k[1]].gen = k[2] /\ e.slots[k[1]].used
             /\ k \in Issued(e) /\ k \in Nat \X Nat
  <2>1. PICK i \in 1 .. Len(e.slots) : e.slots[i].used /\ k = <<i, e.slots[i].gen>>
    BY DEF Sound, KeysSound
  <2>2. e.slots[i].gen \in 1 .. MaxGeneration /\ e.slots[i].gen \in Nat
    BY <1>1, SlotFields
  <2>3. k[1] = i /\ k[2] = e.slots[i].gen /\ k = <<k[1], k[2]>>
    BY <2>1
  <2>4. 1 <= e.slots[i].gen /\ i \in Nat
    BY <1>1, <2>2, MaxGenerationAssumption
  <2>5. k \in (1 .. Len(e.slots)) \X Nat
    BY <2>1, <2>2
  <2>6. k \in Issued(e)
    BY <2>2, <2>3, <2>4, <2>5 DEF Issued, IssuedOf
  <2> QED
    BY <2>1, <2>2, <2>3, <2>4, <2>6
<1>3. IsFiniteSet(Live(e))
  <2> DEFINE n == Len(e.slots)
             f == [k \in Live(e) |-> k[1]]
  <2>1. f \in [Live(e) -> 1 .. n]
    BY <1>2
  <2>2. \A k, m \in Live(e) : f[k] = f[m] => k = m
    BY <1>2
  <2>3. f \in Injection(Live(e), 1 .. n)
    BY <2>1, <2>2 DEF Injection, IsInjective
  <2>4. IsFiniteSet(1 .. n)
    BY <1>1, FS_Interval
  <2> HIDE DEF f, n
  <2> QED BY <2>3, <2>4, FS_Injection
<1> QED
  BY <1>2, <1>3

\* A new entity has a key that no entity has had.
LEMMA Created ==
  ASSUME NEW e, Sound(e), NEW c, IsComponent(c)
  PROVE  /\ Grown(e, TryCreate(e, c), {NextKey(e)})
         /\ TryCreate(e, c).comps[NextKey(e)] = c
<1> DEFINE key == NextKey(e)
           slot == [gen |-> key[2], used |-> TRUE]
           r == TryCreate(e, c)
           q == IF e.free # <<>> THEN [e.slots EXCEPT ![key[1]] = slot] ELSE Append(e.slots, slot)
           f == IF e.free # <<>> THEN Front(e.free) ELSE <<>>
           n == Len(e.slots)
           m == Len(e.free)
           Changed == /\ SlotsSound(q, f)
                      /\ KeysSound(q, Live(e) \cup {key})
                      /\ key \notin IssuedOf(e.slots) /\ key \in IssuedOf(q)
                      /\ IssuedOf(e.slots) \subseteq IssuedOf(q)
<1>1. /\ e.slots \in Seq(Slot) /\ n \in Nat /\ e.free \in Seq(1 .. n) /\ m \in Nat
      /\ \A i \in 1 .. m : e.free[i] \in 1 .. n
      /\ \A i \in 1 .. m : ~ e.slots[e.free[i]].used /\ e.slots[e.free[i]].gen # MaxGeneration
      /\ \A i, j \in 1 .. m : e.free[i] = e.free[j] => i = j
  <2>1. e.slots \in Seq(Slot) /\ e.free \in Seq(1 .. n)
    BY DEF Sound, SlotsSound
  <2> QED BY <2>1 DEF Sound, SlotsSound
<1>2. /\ r.slots = q /\ r.free = f /\ r.comps = With(e.comps, key, c) /\ EntityShape(r)
  BY DEF TryCreate, EntityShape
<1> HIDE DEF r
<1>3. ASSUME e.free # <<>> PROVE Changed
  <2> DEFINE i == e.free[m]
  <2>1. m \in 1 .. m /\ m # 0
    BY <1>1, <1>3
  <2>2. i \in 1 .. n /\ ~ e.slots[i].used /\ e.slots[i].gen # MaxGeneration
    BY <1>1, <2>1
  <2>3. e.slots[i].gen \in 1 .. MaxGeneration /\ e.slots[i].gen \in Nat /\ MaxGeneration \in Nat
    BY <1>1, <2>2, SlotFields, MaxGenerationAssumption
  <2>4. key = <<i, e.slots[i].gen + 1>> /\ key[1] = i /\ key[2] = e.slots[i].gen + 1
    BY <1>3 DEF NextKey, Last
  <2>5. slot \in Slot /\ slot.gen = key[2] /\ slot.used
    <3> HIDE DEF key
    <3>1. key[2] \in 1 .. MaxGeneration
      <4> DEFINE g == e.slots[i].gen
      <4>1. g \in 1 .. MaxGeneration /\ g # MaxGeneration /\ key[2] = g + 1 /\ MaxGeneration \in Nat
        BY <2>2, <2>3, <2>4
      <4> HIDE DEF g
      <4> QED BY <4>1
    <3> QED BY <3>1 DEF Slot
  <2> HIDE DEF key, slot
  <2>6. q = [e.slots EXCEPT ![i] = slot]
    BY <1>3, <2>4
  <2>7. /\ q \in Seq(Slot) /\ Len(q) = n
        /\ q[i] = slot /\ \A j \in 1 .. n : j # i => q[j] = e.slots[j]
    BY <1>1, <2>2, <2>5, <2>6
  <2>8. /\ f \in Seq(1 .. n) /\ Len(f) = m - 1 /\ \A j \in 1 .. m - 1 : f[j] = e.free[j]
    <3>1. f = [j \in 1 .. m - 1 |-> e.free[j]]
      BY <1>3 DEF Front
    <3> HIDE DEF f
    <3>2. \A j \in 1 .. m - 1 : e.free[j] \in 1 .. n
      BY <1>1
    <3>3. f \in [1 .. m - 1 -> 1 .. n] /\ m - 1 \in Nat
      BY <1>1, <2>1, <3>1, <3>2
    <3> QED BY <3>1, <3>3
  <2> HIDE DEF q, f
  <2>9. SlotsSound(q, f)
    <3>1. \A j \in 1 .. m - 1 : j \in 1 .. m /\ j # m
      BY <1>1
    <3>2. \A j \in 1 .. m - 1 : f[j] \in 1 .. n /\ f[j] # i /\ q[f[j]] = e.slots[f[j]]
      <4>1. ASSUME NEW j \in 1 .. m - 1 PROVE f[j] \in 1 .. n /\ f[j] # i
        BY <1>1, <2>1, <2>8, <3>1
      <4> HIDE DEF i
      <4> QED BY <2>7, <4>1
    <3> HIDE DEF i
    <3> QED BY <1>1, <2>7, <2>8, <3>1, <3>2 DEF SlotsSound
  <2>10. KeysSound(q, Live(e) \cup {key})
    <3>1. ASSUME NEW k \in Live(e) PROVE \E j \in 1 .. n : q[j].used /\ k = <<j, q[j].gen>>
      <4>1. PICK j \in 1 .. n : e.slots[j].used /\ k = <<j, e.slots[j].gen>>
        BY DEF Sound, KeysSound
      <4> QED BY <2>2, <2>7, <4>1
    <3>2. q[i].used /\ key = <<i, q[i].gen>>
      BY <2>4, <2>5, <2>7
    <3>3. ASSUME NEW j \in 1 .. n, q[j].used PROVE <<j, q[j].gen>> \in Live(e) \cup {key}
      <4>1. CASE j = i
        BY <3>2, <4>1
      <4>2. CASE j # i
        BY <2>7, <3>3, <4>2 DEF Sound, KeysSound
      <4> QED BY <4>1, <4>2
    <3> QED BY <2>2, <2>7, <3>1, <3>2, <3>3 DEF KeysSound
  <2>11. /\ key \notin IssuedOf(e.slots) /\ key \in IssuedOf(q)
         /\ IssuedOf(e.slots) \subseteq IssuedOf(q)
    <3>1. key \notin IssuedOf(e.slots)
      BY <2>3, <2>4 DEF IssuedOf
    <3>2. q[i].gen = e.slots[i].gen + 1 /\ key \in (1 .. n) \X Nat
      BY <2>2, <2>3, <2>4, <2>5, <2>7
    <3>3. key \in IssuedOf(q)
      <4>1. 1 <= key[2] /\ key[2] <= q[key[1]].gen
        BY <2>3, <2>4, <3>2
      <4> QED BY <2>7, <3>2, <4>1 DEF IssuedOf
    <3>4. ASSUME NEW k \in IssuedOf(e.slots) PROVE k \in IssuedOf(q)
      <4>1. k \in (1 .. n) \X Nat /\ 1 <= k[2] /\ k[2] <= e.slots[k[1]].gen
        BY <3>4 DEF IssuedOf
      <4>2. k[2] <= q[k[1]].gen
        <5>1. CASE k[1] = i
          <6> HIDE DEF i
          <6>1. k[2] \in Nat /\ k[2] <= e.slots[i].gen /\ e.slots[i].gen \in Nat
                /\ q[i].gen = e.slots[i].gen + 1
            BY <2>3, <3>2, <4>1, <5>1
          <6> DEFINE g == e.slots[i].gen
          <6>2. k[2] <= g + 1
            <7>1. k[2] \in Nat /\ k[2] <= g /\ g \in Nat
              BY <6>1
            <7> HIDE DEF g
            <7> QED BY <7>1
          <6> QED BY <5>1, <6>1, <6>2
        <5>2. CASE k[1] # i
          BY <2>7, <4>1, <5>2
        <5> QED BY <5>1, <5>2
      <4> QED BY <2>7, <4>1, <4>2 DEF IssuedOf
    <3> QED BY <3>1, <3>3, <3>4
  <2> QED BY <2>9, <2>10, <2>11
<1>4. ASSUME e.free = <<>> PROVE Changed
  <2>1. key = <<n + 1, 1>> /\ key[1] = n + 1 /\ key[2] = 1
    BY <1>4 DEF NextKey
  <2>2. slot \in Slot /\ slot.gen = 1 /\ slot.used
    BY <2>1, MaxGenerationAssumption DEF Slot
  <2> HIDE DEF key, slot
  <2>3. q = Append(e.slots, slot) /\ f = <<>>
    BY <1>4
  <2>4. /\ q \in Seq(Slot) /\ Len(q) = n + 1
        /\ q[n + 1] = slot /\ \A j \in 1 .. n : q[j] = e.slots[j]
    BY <1>1, <2>2, <2>3
  <2> HIDE DEF q, f
  <2>5. SlotsSound(q, f)
    BY <2>3, <2>4 DEF SlotsSound
  <2>6. n + 1 \in 1 .. n + 1 /\ \A j \in 1 .. n + 1 : j # n + 1 => j \in 1 .. n
    BY <1>1
  <2>7. KeysSound(q, Live(e) \cup {key})
    <3>1. ASSUME NEW k \in Live(e) PROVE \E j \in 1 .. n + 1 : q[j].used /\ k = <<j, q[j].gen>>
      <4>1. PICK j \in 1 .. n : e.slots[j].used /\ k = <<j, e.slots[j].gen>>
        BY DEF Sound, KeysSound
      <4>2. j \in 1 .. n + 1
        BY <1>1
      <4> QED BY <2>4, <4>1, <4>2
    <3>2. q[n + 1].used /\ key = <<n + 1, q[n + 1].gen>>
      BY <2>1, <2>2, <2>4
    <3>3. ASSUME NEW j \in 1 .. n + 1, q[j].used PROVE <<j, q[j].gen>> \in Live(e) \cup {key}
      <4>1. CASE j = n + 1
        BY <3>2, <4>1
      <4>2. CASE j # n + 1
        BY <2>4, <2>6, <3>3, <4>2 DEF Sound, KeysSound
      <4> QED BY <4>1, <4>2
    <3> QED BY <2>4, <2>6, <3>1, <3>2, <3>3 DEF KeysSound
  <2>8. /\ key \notin IssuedOf(e.slots) /\ key \in IssuedOf(q)
        /\ IssuedOf(e.slots) \subseteq IssuedOf(q)
    <3>1. key \notin IssuedOf(e.slots)
      BY <1>1, <2>1 DEF IssuedOf
    <3>2. key \in IssuedOf(q)
      BY <1>1, <2>1, <2>2, <2>4, <2>6 DEF IssuedOf
    <3>3. ASSUME NEW k \in IssuedOf(e.slots) PROVE k \in IssuedOf(q)
      <4>1. k \in (1 .. n) \X Nat /\ 1 <= k[2] /\ k[2] <= e.slots[k[1]].gen
        BY <3>3 DEF IssuedOf
      <4>2. k \in (1 .. n + 1) \X Nat /\ k[2] <= q[k[1]].gen
        BY <1>1, <2>4, <4>1
      <4> QED BY <2>4, <4>1, <4>2 DEF IssuedOf
    <3> QED BY <3>1, <3>2, <3>3
  <2> QED BY <2>5, <2>7, <2>8
<1>5. key \notin Live(e)
  <2> HIDE DEF key, q, f
  <2> QED BY <1>3, <1>4, LiveIssued DEF Issued
<1>11. Changed
  BY <1>3, <1>4
<1> HIDE DEF key, q, f
<1>6. /\ DOMAIN r.comps = Live(e) \cup {key} /\ r.comps[key] = c
      /\ \A k \in Live(e) : r.comps[k] = e.comps[k]
      /\ r.comps = [k \in DOMAIN r.comps |-> r.comps[k]]
  BY <1>2, <1>5 DEF With, Over, Live
<1>7. CompsSound(r.comps)
  <2>1. \A k \in Live(e) : IsComponent(e.comps[k])
    BY DEF Sound, CompsSound, Live
  <2> QED BY <1>6, <2>1 DEF CompsSound
<1>8. Sound(r)
  BY <1>2, <1>6, <1>7, <1>11 DEF Sound, Live
<1>9. /\ Issued(e) \subseteq Issued(r) /\ key \notin Issued(e) /\ key \in Issued(r)
  BY <1>2, <1>11 DEF Issued
<1> QED
  BY <1>6, <1>8, <1>9 DEF Grown, Live, key, r

\* A removed entity frees its slot, unless that was at its last generation.
LEMMA EntityRemoved ==
  ASSUME NEW e, Sound(e), NEW key \in Live(e)
  PROVE  Shrunk(e, RemoveEntity(e, key), {key})
<1> DEFINE r == RemoveEntity(e, key)
           i == key[1]
           slot == [gen |-> e.slots[i].gen, used |-> FALSE]
           q == [e.slots EXCEPT ![i] = slot]
           f == IF key[2] # MaxGeneration THEN Append(e.free, i) ELSE e.free
           n == Len(e.slots)
           m == Len(e.free)
<1>1. /\ e.slots \in Seq(Slot) /\ n \in Nat /\ e.free \in Seq(1 .. n) /\ m \in Nat
      /\ \A j \in 1 .. m : e.free[j] \in 1 .. n
      /\ \A j \in 1 .. m : ~ e.slots[e.free[j]].used /\ e.slots[e.free[j]].gen # MaxGeneration
      /\ \A j, k \in 1 .. m : e.free[j] = e.free[k] => j = k
  <2>1. e.slots \in Seq(Slot) /\ e.free \in Seq(1 .. n)
    BY DEF Sound, SlotsSound
  <2> QED BY <2>1 DEF Sound, SlotsSound
<1>2. r.slots = q /\ r.free = f /\ r.comps = Without(e.comps, key) /\ EntityShape(r)
  BY DEF RemoveEntity, EntityShape
<1>3. i \in 1 .. n /\ e.slots[i].gen = key[2] /\ e.slots[i].used /\ key = <<i, e.slots[i].gen>>
  BY LiveIssued
<1>4. slot \in Slot /\ slot.gen = e.slots[i].gen /\ ~ slot.used
  BY <1>1, <1>3, SlotFields DEF Slot
<1> HIDE DEF r, slot, i
<1>5. /\ q \in Seq(Slot) /\ Len(q) = n
      /\ q[i] = slot /\ \A j \in 1 .. n : j # i => q[j] = e.slots[j]
  BY <1>1, <1>3, <1>4
<1> HIDE DEF q
<1>6. SlotsSound(q, f)
  <2>1. \A j \in 1 .. m : e.free[j] # i /\ q[e.free[j]] = e.slots[e.free[j]]
    BY <1>1, <1>3, <1>5
  <2>2. CASE key[2] = MaxGeneration
    <3>1. f = e.free
      BY <2>2
    <3> HIDE DEF f
    <3> QED BY <1>1, <1>5, <2>1, <3>1 DEF SlotsSound
  <2>3. CASE key[2] # MaxGeneration
    <3>1. f = Append(e.free, i)
      BY <2>3
    <3> HIDE DEF f
    <3>2. /\ f \in Seq(1 .. n) /\ Len(f) = m + 1 /\ f[m + 1] = i
          /\ \A j \in 1 .. m : f[j] = e.free[j]
      BY <1>1, <1>3, <3>1
    <3>3. \A j \in 1 .. m + 1 : j # m + 1 => j \in 1 .. m
      BY <1>1
    <3>4. ~ q[i].used /\ q[i].gen # MaxGeneration
      BY <1>3, <1>4, <1>5, <2>3
    <3>5. ASSUME NEW j \in 1 .. m + 1
          PROVE  /\ ~ q[f[j]].used /\ q[f[j]].gen # MaxGeneration
                 /\ \A k \in 1 .. m + 1 : f[j] = f[k] => j = k
      <4>1. CASE j = m + 1
        BY <1>1, <2>1, <3>2, <3>3, <3>4, <4>1
      <4>2. CASE j # m + 1
        <5>1. j \in 1 .. m /\ f[j] = e.free[j] /\ f[j] # i /\ q[f[j]] = e.slots[f[j]]
          BY <2>1, <3>2, <3>3, <4>2
        <5>2. ASSUME NEW k \in 1 .. m + 1, f[j] = f[k] PROVE j = k
          <6>1. k # m + 1
            BY <3>2, <5>1, <5>2
          <6>2. k \in 1 .. m /\ f[k] = e.free[k]
            BY <3>2, <3>3, <6>1
          <6> QED BY <1>1, <5>1, <5>2, <6>2
        <5> QED BY <1>1, <5>1, <5>2
      <4> QED BY <4>1, <4>2
    <3> QED BY <1>5, <3>2, <3>5 DEF SlotsSound
  <2> QED BY <2>2, <2>3
<1> HIDE DEF f
<1>7. KeysSound(q, Live(e) \ {key})
  <2>1. ASSUME NEW k \in Live(e) \ {key} PROVE \E j \in 1 .. n : q[j].used /\ k = <<j, q[j].gen>>
    <3>1. PICK j \in 1 .. n : e.slots[j].used /\ k = <<j, e.slots[j].gen>>
      BY DEF Sound, KeysSound
    <3>2. j # i
      BY <1>3, <2>1, <3>1
    <3> QED BY <1>5, <3>1, <3>2
  <2>2. ASSUME NEW j \in 1 .. n, q[j].used PROVE <<j, q[j].gen>> \in Live(e) \ {key}
    <3>1. j # i
      BY <1>4, <1>5, <2>2
    <3>2. <<j, e.slots[j].gen>> \in Live(e) /\ q[j] = e.slots[j]
      BY <1>5, <2>2, <3>1 DEF Sound, KeysSound
    <3> QED BY <1>3, <3>1, <3>2
  <2> QED BY <1>5, <2>1, <2>2 DEF KeysSound
<1>8. IssuedOf(q) = IssuedOf(e.slots)
  <2>1. \A j \in 1 .. n : q[j].gen = e.slots[j].gen
    BY <1>4, <1>5
  <2> QED BY <1>5, <2>1 DEF IssuedOf
<1>9. /\ DOMAIN r.comps = Live(e) \ {key}
      /\ \A k \in Live(e) \ {key} : r.comps[k] = e.comps[k]
      /\ r.comps = [k \in DOMAIN r.comps |-> r.comps[k]]
  BY <1>2 DEF Without, Live
<1>10. CompsSound(r.comps)
  <2>1. \A k \in Live(e) : IsComponent(e.comps[k])
    BY DEF Sound, CompsSound, Live
  <2> QED BY <1>9, <2>1 DEF CompsSound
<1>11. Sound(r)
  BY <1>2, <1>6, <1>7, <1>9, <1>10 DEF Sound, Live
<1> QED
  BY <1>2, <1>8, <1>9, <1>11 DEF Shrunk, Issued, Live, r

LEMMA GrownTwice ==
  ASSUME NEW e, NEW r, NEW s, NEW K, NEW L, Grown(e, r, K), Grown(r, s, L)
  PROVE  Grown(e, s, K \cup L)
BY DEF Grown

LEMMA GrownKeeps ==
  ASSUME NEW e, NEW r, NEW s, NEW K, NEW L, Grown(e, r, K), Grown(r, s, L), NEW k \in K
  PROVE  k \notin L /\ s.comps[k] = r.comps[k]
BY DEF Grown

LEMMA ShrunkTwice ==
  ASSUME NEW e, NEW r, NEW s, NEW K, NEW L, Shrunk(e, r, K), Shrunk(r, s, L)
  PROVE  Shrunk(e, s, K \cup L)
BY DEF Shrunk

-----------------------------------------------------------------------------
(***************************************************************************)
(* Several entities.                                                       *)
(***************************************************************************)
\* The steps of CreateEntities and RemoveEntities.
Made(e, cs) ==
  CHOOSE f : f = [n \in 0 .. Len(cs) |-> IF n = 0 THEN e ELSE TryCreate(f[n - 1], cs[n])]
Left(e, q) ==
  CHOOSE f : f = [n \in 0 .. Len(q) |-> IF n = 0 THEN e ELSE RemoveEntity(f[n - 1], q[n])]

LEMMA MadeForm ==
  ASSUME NEW e, NEW cs, Len(cs) \in Nat
  PROVE  /\ CreateEntities(e, cs) = [e |-> Made(e, cs)[Len(cs)],
                                     keys |-> [n \in 1 .. Len(cs) |-> NextKey(Made(e, cs)[n - 1])]]
         /\ Made(e, cs)[0] = e
         /\ \A n \in 1 .. Len(cs) : Made(e, cs)[n] = TryCreate(Made(e, cs)[n - 1], cs[n])
<1> DEFINE limit == Len(cs)
           Solves(f, m) == f[0] = e /\ \A n \in 1 .. m : f[n] = TryCreate(f[n - 1], cs[n])
           T == {m \in 0 .. limit : \E f : Solves(f, m)}
           u == Made(e, cs)
<1>1. 0 \in T
  <2>1. Solves([n \in 0 .. 0 |-> e], 0)
    OBVIOUS
  <2>2. 0 \in 0 .. limit
    OBVIOUS
  <2> HIDE DEF Solves
  <2> QED BY <2>1, <2>2
<1>2. ASSUME NEW m \in 1 .. limit, m - 1 \in T PROVE m \in T
  <2>1. PICK f : Solves(f, m - 1)
    BY <1>2
  <2> DEFINE g == [n \in 0 .. m |-> IF n = m THEN TryCreate(f[m - 1], cs[m]) ELSE f[n]]
  <2>2. g[m] = TryCreate(f[m - 1], cs[m]) /\ \A n \in 0 .. m - 1 : g[n] = f[n]
    OBVIOUS
  <2> HIDE DEF g
  <2>3. g[0] = e
    <3>1. 0 \in 0 .. m - 1
      OBVIOUS
    <3> QED BY <2>1, <2>2, <3>1
  <2>4. ASSUME NEW n \in 1 .. m PROVE g[n] = TryCreate(g[n - 1], cs[n])
    <3>1. n - 1 \in 0 .. m - 1
      OBVIOUS
    <3>2. CASE n = m
      BY <2>2, <3>1, <3>2
    <3>3. CASE n # m
      <4>1. n \in 1 .. m - 1 /\ n \in 0 .. m - 1
        BY <3>3
      <4> QED BY <2>1, <2>2, <3>1, <4>1
    <3> QED BY <3>2, <3>3
  <2> QED BY <2>3, <2>4
<1>3. \E f : Solves(f, limit)
  <2> HIDE DEF Solves
  <2>1. limit \in T
    <3> HIDE DEF T
    <3>1. \A n \in 0 .. limit : n \in T
      BY <1>1, <1>2, SetInduction
    <3> QED BY <3>1
  <2> QED BY <2>1
<1>4. u = [n \in 0 .. limit |-> IF n = 0 THEN e ELSE TryCreate(u[n - 1], cs[n])]
  <2>1. PICK f : Solves(f, limit)
    BY <1>3
  <2> DEFINE g == [n \in 0 .. limit |-> f[n]]
  <2>2. \A n \in 0 .. limit : g[n] = f[n]
    OBVIOUS
  <2>3. DOMAIN g = 0 .. limit /\ g = [n \in 0 .. limit |-> g[n]]
    OBVIOUS
  <2> HIDE DEF g
  <2>4. ASSUME NEW n \in 0 .. limit
        PROVE  g[n] = IF n = 0 THEN e ELSE TryCreate(g[n - 1], cs[n])
    <3>1. CASE n = 0
      BY <2>1, <2>2, <3>1
    <3>2. CASE n # 0
      <4>1. n \in 1 .. limit /\ n - 1 \in 0 .. limit
        BY <3>2
      <4> QED BY <2>1, <2>2, <3>2, <4>1
    <3> QED BY <3>1, <3>2
  <2>5. g = [n \in 0 .. limit |-> IF n = 0 THEN e ELSE TryCreate(g[n - 1], cs[n])]
    BY <2>3, <2>4
  <2> QED BY <2>5 DEF Made
<1>5. \A n \in 0 .. limit : u[n] = IF n = 0 THEN e ELSE TryCreate(u[n - 1], cs[n])
  <2> HIDE DEF u
  <2> QED BY <1>4, Zenon
<1>6. u[0] = e /\ \A n \in 1 .. limit : u[n] = TryCreate(u[n - 1], cs[n])
  <2> HIDE DEF u
  <2> QED BY <1>5
<1>7. CreateEntities(e, cs) = [e |-> u[limit], keys |-> [n \in 1 .. limit |-> NextKey(u[n - 1])]]
  BY DEF CreateEntities, Made
<1> QED BY <1>6, <1>7

LEMMA LeftForm ==
  ASSUME NEW e, NEW q, Len(q) \in Nat
  PROVE  /\ Left(e, q)[0] = e
         /\ \A n \in 1 .. Len(q) : Left(e, q)[n] = RemoveEntity(Left(e, q)[n - 1], q[n])
<1> DEFINE limit == Len(q)
           Solves(f, m) == f[0] = e /\ \A n \in 1 .. m : f[n] = RemoveEntity(f[n - 1], q[n])
           T == {m \in 0 .. limit : \E f : Solves(f, m)}
           u == Left(e, q)
<1>1. 0 \in T
  <2>1. Solves([n \in 0 .. 0 |-> e], 0)
    OBVIOUS
  <2>2. 0 \in 0 .. limit
    OBVIOUS
  <2> HIDE DEF Solves
  <2> QED BY <2>1, <2>2
<1>2. ASSUME NEW m \in 1 .. limit, m - 1 \in T PROVE m \in T
  <2>1. PICK f : Solves(f, m - 1)
    BY <1>2
  <2> DEFINE g == [n \in 0 .. m |-> IF n = m THEN RemoveEntity(f[m - 1], q[m]) ELSE f[n]]
  <2>2. g[m] = RemoveEntity(f[m - 1], q[m]) /\ \A n \in 0 .. m - 1 : g[n] = f[n]
    OBVIOUS
  <2> HIDE DEF g
  <2>3. g[0] = e
    <3>1. 0 \in 0 .. m - 1
      OBVIOUS
    <3> QED BY <2>1, <2>2, <3>1
  <2>4. ASSUME NEW n \in 1 .. m PROVE g[n] = RemoveEntity(g[n - 1], q[n])
    <3>1. n - 1 \in 0 .. m - 1
      OBVIOUS
    <3>2. CASE n = m
      BY <2>2, <3>1, <3>2
    <3>3. CASE n # m
      <4>1. n \in 1 .. m - 1 /\ n \in 0 .. m - 1
        BY <3>3
      <4> QED BY <2>1, <2>2, <3>1, <4>1
    <3> QED BY <3>2, <3>3
  <2> QED BY <2>3, <2>4
<1>3. \E f : Solves(f, limit)
  <2> HIDE DEF Solves
  <2>1. limit \in T
    <3> HIDE DEF T
    <3>1. \A n \in 0 .. limit : n \in T
      BY <1>1, <1>2, SetInduction
    <3> QED BY <3>1
  <2> QED BY <2>1
<1>4. u = [n \in 0 .. limit |-> IF n = 0 THEN e ELSE RemoveEntity(u[n - 1], q[n])]
  <2>1. PICK f : Solves(f, limit)
    BY <1>3
  <2> DEFINE g == [n \in 0 .. limit |-> f[n]]
  <2>2. \A n \in 0 .. limit : g[n] = f[n]
    OBVIOUS
  <2>3. DOMAIN g = 0 .. limit /\ g = [n \in 0 .. limit |-> g[n]]
    OBVIOUS
  <2> HIDE DEF g
  <2>4. ASSUME NEW n \in 0 .. limit
        PROVE  g[n] = IF n = 0 THEN e ELSE RemoveEntity(g[n - 1], q[n])
    <3>1. CASE n = 0
      BY <2>1, <2>2, <3>1
    <3>2. CASE n # 0
      <4>1. n \in 1 .. limit /\ n - 1 \in 0 .. limit
        BY <3>2
      <4> QED BY <2>1, <2>2, <3>2, <4>1
    <3> QED BY <3>1, <3>2
  <2>5. g = [n \in 0 .. limit |-> IF n = 0 THEN e ELSE RemoveEntity(g[n - 1], q[n])]
    BY <2>3, <2>4
  <2> QED BY <2>5 DEF Left
<1>5. \A n \in 0 .. limit : u[n] = IF n = 0 THEN e ELSE RemoveEntity(u[n - 1], q[n])
  <2> HIDE DEF u
  <2> QED BY <1>4, Zenon
<1> HIDE DEF u
<1> QED BY <1>5 DEF u

\* The keys of a table keys at the places S.
KeysAt(keys, S) == {keys[x] : x \in S}

\* The entities made for cs are new, each its own, with the components asked for.
LEMMA CreatedAll ==
  ASSUME NEW e, Sound(e), NEW cs, Len(cs) \in Nat,
         \A n \in 1 .. Len(cs) : IsComponent(cs[n]),
         NEW r, r = CreateEntities(e, cs)
  PROVE  /\ DOMAIN r.keys = 1 .. Len(cs) /\ Len(r.keys) = Len(cs)
         /\ Grown(e, r.e, KeysAt(r.keys, 1 .. Len(cs)))
         /\ \A i, j \in 1 .. Len(cs) : r.keys[i] = r.keys[j] => i = j
         /\ \A i \in 1 .. Len(cs) : r.e.comps[r.keys[i]] = cs[i]
<1> DEFINE limit == Len(cs)
           u == Made(e, cs)
           keys == [n \in 1 .. limit |-> NextKey(u[n - 1])]
           K(n) == {keys[i] : i \in 1 .. n}
           Given(n) == /\ Grown(e, u[n], K(n))
                       /\ \A i, j \in 1 .. n : keys[i] = keys[j] => i = j
                       /\ \A i \in 1 .. n : u[n].comps[keys[i]] = cs[i]
           T == {n \in 0 .. limit : Given(n)}
<1>1. /\ r = [e |-> u[limit], keys |-> keys]
      /\ u[0] = e
      /\ \A n \in 1 .. limit : u[n] = TryCreate(u[n - 1], cs[n])
  BY MadeForm
<1>2. /\ r.e = u[limit] /\ r.keys = keys
      /\ DOMAIN keys = 1 .. limit /\ Len(keys) = limit
      /\ \A n \in 1 .. limit : keys[n] = NextKey(u[n - 1])
  BY <1>1
<1> HIDE DEF u, keys
<1>3. Given(0)
  <2>1. K(0) = {}
    OBVIOUS
  <2>2. Grown(e, e, {})
    BY DEF Grown
  <2> QED BY <1>1, <2>1, <2>2
<1>4. ASSUME NEW n \in 1 .. limit, Given(n - 1) PROVE Given(n)
  <2> DEFINE x == u[n - 1]
             k == NextKey(x)
  <2>1. Sound(x)
    BY <1>4 DEF Grown
  <2>2. Grown(x, TryCreate(x, cs[n]), {k}) /\ TryCreate(x, cs[n]).comps[k] = cs[n]
    BY <2>1, Created
  <2>3. Grown(x, u[n], {k}) /\ u[n].comps[k] = cs[n] /\ keys[n] = k
    BY <1>1, <1>2, <2>2
  <2> HIDE DEF x, k
  <2>4. /\ Grown(e, u[n], K(n - 1) \cup {k})
        /\ \A y \in K(n - 1) : y # k /\ u[n].comps[y] = x.comps[y]
    <3> HIDE DEF K
    <3>1. Grown(e, x, K(n - 1))
      BY <1>4 DEF x
    <3>2. /\ Grown(e, u[n], K(n - 1) \cup {k})
          /\ \A y \in K(n - 1) : y \notin {k} /\ u[n].comps[y] = x.comps[y]
      <4> DEFINE z == u[n]
                 M == K(n - 1)
                 L == {k}
      <4>1. Grown(e, x, M) /\ Grown(x, z, L)
        BY <2>3, <3>1
      <4> HIDE DEF z, M, L
      <4>2. Grown(e, z, M \cup L) /\ \A y \in M : y \notin L /\ z.comps[y] = x.comps[y]
        BY <4>1, GrownTwice, GrownKeeps
      <4> QED BY <4>2 DEF z, M, L
    <3> QED BY <3>2
  <2>5. \A i \in 1 .. n : i # n => i \in 1 .. n - 1
    OBVIOUS
  <2>6. K(n) = K(n - 1) \cup {k}
    <3>1. n \in 1 .. n /\ \A i \in 1 .. n - 1 : i \in 1 .. n
      OBVIOUS
    <3> QED BY <2>3, <2>5, <3>1
  <2>7. \A i \in 1 .. n - 1 : keys[i] # k /\ u[n].comps[keys[i]] = x.comps[keys[i]]
    BY <2>4
  <2>8. \A i, j \in 1 .. n : keys[i] = keys[j] => i = j
    BY <1>4, <2>3, <2>5, <2>7
  <2>9. \A i \in 1 .. n : u[n].comps[keys[i]] = cs[i]
    BY <1>4, <2>3, <2>5, <2>7 DEF x
  <2> HIDE DEF K
  <2> QED BY <2>4, <2>6, <2>8, <2>9
<1> HIDE DEF Given
<1>5. Given(limit)
  <2>1. 0 \in T
    BY <1>3
  <2>2. \A n \in 1 .. limit : n - 1 \in T => n \in T
    BY <1>4
  <2> HIDE DEF T
  <2>3. \A n \in 0 .. limit : n \in T
    BY <2>1, <2>2, SetInduction
  <2> QED BY <2>3 DEF T
<1> QED
  BY <1>2, <1>5 DEF Given, KeysAt

LEMMA KeysOrdered ==
  ASSUME NEW K \in SUBSET (Nat \X Nat)
  PROVE  Orders(KeyOrder(K), K)
<1>1. \A a, b \in K : <<a, b>> \in KeyOrder(K) <=> KeyLess(a, b)
  BY DEF KeyOrder
<1>2. \A a \in K : a = <<a[1], a[2]>> /\ a[1] \in Nat /\ a[2] \in Nat
  OBVIOUS
<1>3. \A a, b \in K : a # b => KeyLess(a, b) \/ KeyLess(b, a)
  BY <1>2 DEF KeyLess
<1>4. \A a, b, c \in K : KeyLess(a, b) /\ KeyLess(b, c) => KeyLess(a, c)
  BY <1>2 DEF KeyLess
<1>5. \A a \in K : ~ KeyLess(a, a)
  BY <1>2 DEF KeyLess
<1> QED
  BY <1>1, <1>3, <1>4, <1>5 DEF Orders

LEMMA NumbersOrdered ==
  ASSUME NEW S \in SUBSET Nat
  PROVE  Orders(NumberOrder(S), S)
BY DEF Orders, NumberOrder

LEMMA RemovedAll ==
  ASSUME NEW e, Sound(e), NEW K \in SUBSET Live(e)
  PROVE  Shrunk(e, RemoveEntities(e, K), K)
<1> DEFINE q == InOrder(K, KeyOrder(K))
           limit == Len(q)
           u == Left(e, q)
           Gone(n) == {q[i] : i \in 1 .. n}
           Taken(n) == Shrunk(e, u[n], Gone(n))
           T == {n \in 0 .. limit : Taken(n)}
<1>1. /\ limit \in Nat /\ q \in Seq(K)
      /\ \A i, j \in 1 .. limit : q[i] = q[j] => i = j
      /\ \A x \in K : \E i \in 1 .. limit : q[i] = x
  <2>1. K \in SUBSET (Nat \X Nat) /\ IsFiniteSet(K)
    BY LiveIssued, FS_Subset
  <2>2. Orders(KeyOrder(K), K)
    BY <2>1, KeysOrdered
  <2> QED BY <2>1, <2>2, InOrderLists
<1>2. \A i \in 1 .. limit : q[i] \in K
  BY <1>1
<1> HIDE DEF q
<1>3. /\ u[0] = e
      /\ \A n \in 1 .. limit : u[n] = RemoveEntity(u[n - 1], q[n])
      /\ RemoveEntities(e, K) = u[limit]
  <2>1. RemoveEntities(e, K) = u[limit]
    BY DEF RemoveEntities, Left, q
  <2> QED BY <1>1, <2>1, LeftForm
<1> HIDE DEF u
<1>4. Taken(0)
  <2>1. Gone(0) = {}
    OBVIOUS
  <2>2. Shrunk(e, e, {})
    BY DEF Shrunk
  <2> QED BY <1>3, <2>1, <2>2
<1>5. ASSUME NEW n \in 1 .. limit, Taken(n - 1) PROVE Taken(n)
  <2> DEFINE x == u[n - 1]
  <2>1. Sound(x) /\ Live(x) = Live(e) \ Gone(n - 1)
    BY <1>5 DEF Shrunk
  <2>2. q[n] \notin Gone(n - 1)
    <3>1. \A i \in 1 .. n - 1 : i \in 1 .. limit /\ i # n
      BY <1>1
    <3> QED BY <1>1, <3>1
  <2>3. q[n] \in Live(x)
    BY <1>2, <2>1, <2>2
  <2>4. Shrunk(x, u[n], {q[n]})
    <3>1. u[n] = RemoveEntity(x, q[n])
      BY <1>3
    <3> HIDE DEF x
    <3> QED BY <2>1, <2>3, <3>1, EntityRemoved
  <2> HIDE DEF x
  <2>5. Shrunk(e, u[n], Gone(n - 1) \cup {q[n]})
    <3> HIDE DEF Gone
    <3>1. Shrunk(e, x, Gone(n - 1))
      BY <1>5 DEF x
    <3> QED BY <2>4, <3>1, ShrunkTwice
  <2>6. Gone(n) = Gone(n - 1) \cup {q[n]}
    <3>1. n \in 1 .. n /\ \A i \in 1 .. n - 1 : i \in 1 .. n
      BY <1>1
    <3>2. \A i \in 1 .. n : i # n => i \in 1 .. n - 1
      BY <1>1
    <3> QED BY <3>1, <3>2
  <2> QED BY <2>5, <2>6
<1>6. Taken(limit)
  <2> HIDE DEF Taken
  <2>1. 0 \in T
    BY <1>1, <1>4
  <2>2. \A n \in 1 .. limit : n - 1 \in T => n \in T
    BY <1>5
  <2> HIDE DEF T
  <2>3. \A n \in 0 .. limit : n \in T
    BY <1>1, <2>1, <2>2, SetInduction
  <2> QED BY <1>1, <2>3 DEF T
<1>7. Gone(limit) = K
  BY <1>1, <1>2
<1> QED
  BY <1>3, <1>6, <1>7

-----------------------------------------------------------------------------
(***************************************************************************)
(* Entities, scores, resources and pending drops as one world.             *)
(***************************************************************************)
\* Every player has a key of its own that was given out; the key of a player that
\* is alive is that of its entity, the key of one that waits to respawn is dead.
ScoresSound(e, g, n) ==
  /\ IsFiniteSet(Players(g))
  /\ \A p \in Players(g) :
       /\ p \in Nat /\ p < n
       /\ g.scores[p].life \in {"Alive", "SpawnPending"}
       /\ g.scores[p].key \in Issued(e)
       /\ g.scores[p].life = "Alive" =>
            /\ g.scores[p].key \in Live(e)
            /\ e.comps[g.scores[p].key].kind = "Player"
            /\ e.comps[g.scores[p].key].player = p
       /\ g.scores[p].life = "SpawnPending" => g.scores[p].key \notin Live(e) /\ g.scores[p].score = 0
  /\ \A p, q \in Players(g) : g.scores[p].key = g.scores[q].key => p = q

\* An entity is a resource of the round or belongs to a player that is alive.
ResourcesSound(e, g) ==
  /\ g.res = [k \in DOMAIN g.res |-> g.res[k]]
  /\ \A k \in DOMAIN g.res :
       /\ k \in Live(e) /\ e.comps[k].kind = "Resource"
       /\ g.res[k].slot \in AmbientSlots \cup {0}
       /\ g.res[k].origin = "Ambient" => g.res[k].slot # 0
  /\ \A k \in Live(e) : k \in DOMAIN g.res \/ \E p \in AlivePlayers(g) : g.scores[p].key = k

\* A slot is active exactly when one resource stands for it.
AmbientSound(g) ==
  /\ \A k \in DOMAIN g.res : g.res[k].slot # 0 => g.slots[g.res[k].slot] = "Active"
  /\ \A i \in AmbientSlots : g.slots[i] = "Active" => \E k \in DOMAIN g.res : g.res[k].slot = i
  /\ \A k, m \in DOMAIN g.res : g.res[k].slot = g.res[m].slot /\ g.res[k].slot # 0 => k = m

PhaseSound(g, d) ==
  /\ g.phase \in {"Waiting", "Running", "Ended"}
  /\ g.phase # "Running" => d = {}
  /\ g.phase = "Waiting" => g.res = <<>> /\ \A i \in AmbientSlots : g.slots[i] = "Dormant"

\* A pending drop is of a player and an entity that are gone for good, and of no
\* other entity than the next.
DropsSound(e, g, d, n) ==
  /\ \A x \in d : /\ x.player \in Nat /\ x.player < n /\ x.player \notin Players(g)
                  /\ x.key \in Issued(e) /\ x.key \notin Live(e)
                  /\ \A p \in Players(g) : g.scores[p].key # x.key
  /\ \A x, y \in d : x.key = y.key => x = y

World(e, g, d, n) ==
  /\ Sound(e) /\ GameShape(g) /\ n \in Nat
  /\ ScoresSound(e, g, n)
  /\ ResourcesSound(e, g)
  /\ AmbientSound(g)
  /\ PhaseSound(g, d)
  /\ DropsSound(e, g, d, n)

\* The slots hold no player: 0 is the slot of a drop.
LEMMA ZeroIsNoSlot == 0 \notin AmbientSlots /\ AmbientSlots \subseteq Nat /\ IsFiniteSet(AmbientSlots)
BY GameplayAssumption

LEMMA InitialWorld == World(EmptyEntities, InitialGameplay, {}, 1)
<1>1. GameShape(InitialGameplay) /\ InitialGameplay.scores = <<>> /\ InitialGameplay.res = <<>>
      /\ InitialGameplay.phase = "Waiting" /\ \A i \in AmbientSlots : InitialGameplay.slots[i] = "Dormant"
  <2>1. <<>> \in [DOMAIN <<>> -> [key : {}, score : {}, life : {}]]
    OBVIOUS
  <2> QED BY <2>1 DEF InitialGameplay, GameShape, ScoreTable
<1>2. Players(InitialGameplay) = {}
  BY <1>1 DEF Players
<1>3. <<>> = [k \in DOMAIN <<>> |-> <<>>[k]] /\ DOMAIN <<>> = {}
  OBVIOUS
<1> HIDE DEF InitialGameplay
<1> QED
  BY <1>1, <1>2, <1>3, EmptySound, FS_EmptySet
  DEF World, ScoresSound, ResourcesSound, AmbientSound, PhaseSound, DropsSound, AlivePlayers

\* What tells two states of the entities apart for the rest of the world.
SameEntities(e, f) ==
  /\ Sound(f) /\ Live(f) = Live(e) /\ Issued(e) \subseteq Issued(f)
  /\ \A k \in Live(e) : f.comps[k].kind = e.comps[k].kind /\ f.comps[k].player = e.comps[k].player

SameScores(g, h) ==
  /\ GameShape(h) /\ SameRound(g, h)
  /\ Players(h) = Players(g) /\ \A p \in Players(g) : h.scores[p] = g.scores[p]

LEMMA SameWorld ==
  ASSUME NEW e, NEW g, NEW d, NEW n, World(e, g, d, n),
         NEW f, SameEntities(e, f), NEW h, SameScores(g, h)
  PROVE  World(f, h, d, n)
<1>1. ScoresSound(f, h, n)
  BY DEF World, ScoresSound, SameEntities, SameScores
<1>2. AlivePlayers(h) = AlivePlayers(g)
  BY DEF AlivePlayers, SameScores
<1>3. ResourcesSound(f, h)
  <2>1. h.res = g.res
    BY DEF SameScores, SameRound
  <2>2. \A p \in AlivePlayers(g) : h.scores[p] = g.scores[p]
    BY DEF AlivePlayers, SameScores
  <2> QED BY <1>2, <2>1, <2>2 DEF World, ResourcesSound, SameEntities
<1>4. AmbientSound(h) /\ PhaseSound(h, d)
  BY DEF World, AmbientSound, PhaseSound, SameScores, SameRound
<1>5. DropsSound(f, h, d, n)
  BY DEF World, DropsSound, SameEntities, SameScores
<1> QED
  BY <1>1, <1>3, <1>4, <1>5 DEF World, SameEntities, SameScores

LEMMA SameScoresItself ==
  ASSUME NEW g, GameShape(g) PROVE SameScores(g, g)
BY DEF SameScores, SameRound

\* The kinds tell players and resources apart.
LEMMA EntityOfPlayer ==
  ASSUME NEW e, NEW g, NEW d, NEW n, World(e, g, d, n), NEW k \in Live(e)
  PROVE  /\ e.comps[k].kind = "Player" =>
              /\ e.comps[k].player \in AlivePlayers(g) /\ g.scores[e.comps[k].player].key = k
         /\ k \in DOMAIN g.res <=> e.comps[k].kind = "Resource"
         /\ \A p \in Players(g) : g.scores[p].key = k => p \in AlivePlayers(g)
<1>1. ASSUME NEW p \in Players(g), g.scores[p].key = k
      PROVE  p \in AlivePlayers(g) /\ e.comps[k].kind = "Player" /\ e.comps[k].player = p
  BY <1>1 DEF World, ScoresSound, AlivePlayers
<1>2. \A p \in AlivePlayers(g) : p \in Players(g)
  BY DEF AlivePlayers
<1>3. k \in DOMAIN g.res => e.comps[k].kind = "Resource"
  BY DEF World, ResourcesSound
<1>4. k \in DOMAIN g.res \/ \E p \in AlivePlayers(g) : g.scores[p].key = k
  BY DEF World, ResourcesSound
<1> QED
  BY <1>1, <1>2, <1>3, <1>4

\* The reset takes the resources of the round away, which are all there is.
LEMMA ResetWorld ==
  ASSUME NEW e, NEW g, NEW d, NEW n, World(e, g, d, n),
         NEW b, b = ResetEndedRoundIfEmpty(e, g)
  PROVE  /\ World(b.e, b.g, d, n)
         /\ b.g.phase = "Running" => b.g = g
         /\ b.g.phase = "Ended" => b.g = g
<1>1. CASE ~ ResetNeeded(g)
  <2>1. b.e = e /\ b.g = g
    BY <1>1 DEF ResetEndedRoundIfEmpty
  <2> QED BY <2>1
<1>2. CASE ResetNeeded(g)
  <2>1. /\ b.e = RemoveEntities(e, DOMAIN g.res)
        /\ b.g.res = <<>> /\ b.g.phase = "Waiting" /\ b.g.scores = g.scores
        /\ \A i \in AmbientSlots : b.g.slots[i] = "Dormant"
    BY <1>2 DEF ResetEndedRoundIfEmpty, CommitReset
  <2>2. GameShape(b.g)
    BY ResetGame DEF World
  <2>3. Players(g) = {} /\ d = {} /\ Players(b.g) = {}
    BY <1>2, <2>1 DEF ResetNeeded, World, PhaseSound, Players
  <2>4. DOMAIN g.res = Live(e)
    BY <2>3 DEF World, ResourcesSound, AlivePlayers
  <2>5. Shrunk(e, b.e, Live(e))
    BY <2>1, <2>4, RemovedAll DEF World
  <2>6. Sound(b.e) /\ Live(b.e) = {}
    BY <2>5 DEF Shrunk
  <2>7. <<>> = [k \in DOMAIN <<>> |-> <<>>[k]] /\ DOMAIN <<>> = {}
    OBVIOUS
  <2>8. ResourcesSound(b.e, b.g) /\ AmbientSound(b.g)
    BY <2>1, <2>6, <2>7 DEF ResourcesSound, AmbientSound
  <2>9. ScoresSound(b.e, b.g, n) /\ DropsSound(b.e, b.g, d, n)
    BY <2>3, FS_EmptySet DEF ScoresSound, DropsSound
  <2>10. PhaseSound(b.g, d)
    BY <2>1, <2>3 DEF PhaseSound
  <2>11. n \in Nat
    BY DEF World
  <2> QED BY <2>1, <2>2, <2>6, <2>8, <2>9, <2>10, <2>11 DEF World
<1> QED BY <1>1, <1>2

\* A player joins under a key and an id that nobody has had.
LEMMA JoinedWorld ==
  ASSUME NEW e, NEW g, NEW d, NEW n, World(e, g, d, n),
         NEW key, key = NextKey(e),
         NEW e1, e1 = TryCreate(e, PlayerEntity(n)),
         NEW g1, g1 = TryRegisterPlayer(g, n, key)
  PROVE  /\ World(e1, g1, d, n + 1)
         /\ Grown(e, e1, {key})
         /\ n \notin Players(g) /\ Players(g1) = Players(g) \cup {n}
         /\ GameShape(g1) /\ SameRound(g, g1)
         /\ \A q \in Players(g) : g1.scores[q] = g.scores[q] /\ g.scores[q].key # key
         /\ g1.scores[n].key = key /\ g1.scores[n].life = "Alive"
<1>1. PlayerEntity(n) = [kind |-> "Player", player |-> n, seq |-> 0] /\ IsComponent(PlayerEntity(n))
  BY DEF PlayerEntity, IsComponent
<1>2. Grown(e, e1, {key}) /\ e1.comps[key] = PlayerEntity(n)
  BY <1>1, Created DEF World
<1>3. n \in Nat /\ n \notin Players(g)
  BY DEF World, ScoresSound
<1>4. /\ GameShape(g1) /\ SameRound(g, g1) /\ Players(g1) = Players(g) \cup {n}
      /\ g1.scores[n].key = key /\ g1.scores[n].life = "Alive"
      /\ \A q \in Players(g) : g1.scores[q] = g.scores[q]
  BY <1>3, RegisteredScores DEF World
<1>5. key \notin Issued(e) /\ key \in Issued(e1) /\ Issued(e) \subseteq Issued(e1)
      /\ Live(e1) = Live(e) \cup {key} /\ \A k \in Live(e) : e1.comps[k] = e.comps[k]
  BY <1>2 DEF Grown
<1>6. Live(e) \subseteq Issued(e)
  BY LiveIssued DEF World
<1>7. \A q \in Players(g) : g.scores[q].key \in Issued(e) /\ g.scores[q].key # key
  BY <1>5 DEF World, ScoresSound
<1>8. ScoresSound(e1, g1, n + 1)
  <2>1. IsFiniteSet(Players(g1))
    BY <1>4, FS_AddElement DEF World, ScoresSound
  <2>2. e1.comps[key].kind = "Player" /\ e1.comps[key].player = n
    BY <1>1, <1>2
  <2>3. ASSUME NEW p \in Players(g)
        PROVE  /\ p \in Nat /\ p < n + 1
               /\ g1.scores[p].life \in {"Alive", "SpawnPending"}
               /\ g1.scores[p].key \in Issued(e1)
               /\ g1.scores[p].life = "Alive" =>
                    /\ g1.scores[p].key \in Live(e1)
                    /\ e1.comps[g1.scores[p].key].kind = "Player"
                    /\ e1.comps[g1.scores[p].key].player = p
               /\ g1.scores[p].life = "SpawnPending" =>
                    g1.scores[p].key \notin Live(e1) /\ g1.scores[p].score = 0
    BY <1>3, <1>4, <1>5, <1>7 DEF World, ScoresSound
  <2>4. \A p, q \in Players(g1) : g1.scores[p].key = g1.scores[q].key => p = q
    BY <1>4, <1>7 DEF World, ScoresSound
  <2> QED BY <1>3, <1>4, <1>5, <2>1, <2>2, <2>3, <2>4 DEF ScoresSound
<1>9. ResourcesSound(e1, g1)
  <2>1. g1.res = g.res
    BY <1>4 DEF SameRound
  <2>2. \A p \in AlivePlayers(g) : p \in AlivePlayers(g1) /\ g1.scores[p].key = g.scores[p].key
    BY <1>4 DEF AlivePlayers
  <2>3. n \in AlivePlayers(g1)
    BY <1>4 DEF AlivePlayers
  <2>4. \A k \in DOMAIN g.res : k \in Live(e1) /\ e1.comps[k].kind = "Resource"
    BY <1>5 DEF World, ResourcesSound
  <2>5. ASSUME NEW k \in Live(e1)
        PROVE  k \in DOMAIN g.res \/ \E p \in AlivePlayers(g1) : g1.scores[p].key = k
    <3>1. CASE k \in Live(e)
      BY <2>2, <3>1 DEF World, ResourcesSound
    <3>2. CASE k = key
      BY <1>4, <2>3, <3>2
    <3> QED BY <1>5, <3>1, <3>2
  <2> QED BY <2>1, <2>4, <2>5 DEF World, ResourcesSound
<1>10. AmbientSound(g1) /\ PhaseSound(g1, d)
  BY <1>4 DEF World, AmbientSound, PhaseSound, SameRound
<1>11. DropsSound(e1, g1, d, n + 1)
  <2>1. ASSUME NEW x \in d
        PROVE  /\ x.player \in Nat /\ x.player < n + 1 /\ x.player \notin Players(g1)
               /\ x.key \in Issued(e1) /\ x.key \notin Live(e1) /\ x.key # key
               /\ \A q \in Players(g) : g.scores[q].key # x.key
    BY <1>3, <1>4, <1>5 DEF World, DropsSound
  <2>2. \A q \in Players(g1) : (q \in Players(g) /\ g1.scores[q].key = g.scores[q].key) \/ g1.scores[q].key = key
    BY <1>4
  <2>3. \A x, y \in d : x.key = y.key => x = y
    BY DEF World, DropsSound
  <2> QED BY <2>1, <2>2, <2>3 DEF DropsSound
<1>12. World(e1, g1, d, n + 1)
  BY <1>2, <1>3, <1>4, <1>8, <1>9, <1>10, <1>11 DEF World, Grown
<1> QED BY <1>2, <1>3, <1>4, <1>7, <1>12

\* A join that is taken back leaves the world as it was.
LEMMA RolledBackWorld ==
  ASSUME NEW e, NEW g, NEW d, NEW n, World(e, g, d, n),
         NEW e1, NEW key, Grown(e, e1, {key}), NEW h, SameScores(g, h)
  PROVE  World(RemoveEntity(e1, key), h, d, n)
<1> DEFINE f == RemoveEntity(e1, key)
<1>1. Sound(e1) /\ key \in Live(e1) /\ key \notin Live(e)
  BY LiveIssued DEF Grown, World
<1>2. Shrunk(e1, f, {key})
  BY <1>1, EntityRemoved
<1> HIDE DEF f
<1>3. SameEntities(e, f)
  BY <1>1, <1>2 DEF Grown, Shrunk, SameEntities
<1> QED BY <1>3, SameWorld DEF f

\* A player goes, with its entity if it is alive; a drop may stay behind.
LEMMA LeftWorld ==
  ASSUME NEW e, NEW g, NEW d, NEW n, World(e, g, d, n), NEW p \in Players(g),
         NEW f, f = IF g.scores[p].life = "Alive" THEN RemoveEntity(e, g.scores[p].key) ELSE e,
         NEW h, h = RemovePlayer(g, p),
         NEW D, \/ D = d
                \/ /\ g.scores[p].life = "Alive" /\ g.phase = "Running"
                   /\ \E x : D = d \cup {x} /\ x.player = p /\ x.key = g.scores[p].key
  PROVE  World(f, h, D, n)
<1> DEFINE key == g.scores[p].key
<1>1. /\ GameShape(h) /\ SameRound(g, h) /\ Players(h) = Players(g) \ {p}
      /\ \A q \in Players(h) : h.scores[q] = g.scores[q]
  <2>1. GameShape(g)
    BY DEF World
  <2> QED BY <2>1, RemovedScores
<1>2. /\ Sound(f) /\ Issued(f) = Issued(e) /\ \A k \in Live(f) : f.comps[k] = e.comps[k]
      /\ Live(f) = Live(e) \ {key}
  <2>1. CASE g.scores[p].life = "Alive"
    <3>1. key \in Live(e) /\ Sound(e)
      BY <2>1 DEF World, ScoresSound
    <3> HIDE DEF key
    <3>2. Shrunk(e, f, {key})
      BY <2>1, <3>1, EntityRemoved DEF key
    <3> QED BY <3>2 DEF Shrunk
  <2>2. CASE g.scores[p].life # "Alive"
    <3>1. f = e /\ key \notin Live(e)
      BY <2>2 DEF World, ScoresSound
    <3> QED BY <3>1 DEF World
  <2> QED BY <2>1, <2>2
<1>3. \A q \in Players(h) : q \in Players(g) /\ q # p /\ g.scores[q].key # key
  BY <1>1 DEF World, ScoresSound
<1>4. ScoresSound(f, h, n)
  <2>1. IsFiniteSet(Players(h))
    BY <1>1, FS_RemoveElement DEF World, ScoresSound
  <2> HIDE DEF key
  <2>2. ASSUME NEW q \in Players(h)
        PROVE  /\ q \in Nat /\ q < n
               /\ h.scores[q].life \in {"Alive", "SpawnPending"}
               /\ h.scores[q].key \in Issued(f)
               /\ h.scores[q].life = "Alive" =>
                    /\ h.scores[q].key \in Live(f)
                    /\ f.comps[h.scores[q].key].kind = "Player"
                    /\ f.comps[h.scores[q].key].player = q
               /\ h.scores[q].life = "SpawnPending" =>
                    h.scores[q].key \notin Live(f) /\ h.scores[q].score = 0
    <3>1. q \in Players(g) /\ h.scores[q] = g.scores[q] /\ g.scores[q].key # key
      BY <1>1, <1>3
    <3> QED BY <1>2, <3>1 DEF World, ScoresSound
  <2>3. \A q, r \in Players(h) : h.scores[q].key = h.scores[r].key => q = r
    BY <1>1, <1>3 DEF World, ScoresSound
  <2> QED BY <2>1, <2>2, <2>3 DEF ScoresSound
<1>5. ResourcesSound(f, h)
  <2>1. h.res = g.res
    BY <1>1 DEF SameRound
  <2>2. \A q \in AlivePlayers(g) : q = p \/ (q \in AlivePlayers(h) /\ h.scores[q].key = g.scores[q].key)
    BY <1>1 DEF AlivePlayers
  <2>3. key \notin DOMAIN g.res
    <3>1. CASE key \in Live(e)
      <4>1. e.comps[key].kind = "Player"
        BY <3>1 DEF World, ScoresSound
      <4> QED BY <4>1 DEF World, ResourcesSound
    <3>2. CASE key \notin Live(e)
      BY <3>2 DEF World, ResourcesSound
    <3> QED BY <3>1, <3>2
  <2> HIDE DEF key
  <2>4. \A k \in Live(f) : k \in DOMAIN h.res \/ \E q \in AlivePlayers(h) : h.scores[q].key = k
    BY <1>2, <2>1, <2>2 DEF World, ResourcesSound, key
  <2> QED BY <1>2, <2>1, <2>3, <2>4 DEF World, ResourcesSound
<1>6. AmbientSound(h)
  BY <1>1 DEF World, AmbientSound, SameRound
<1>7. PhaseSound(h, D)
  BY <1>1 DEF World, PhaseSound, SameRound
<1>8. DropsSound(f, h, D, n)
  <2>1. ASSUME NEW x \in d
        PROVE  /\ x.player \in Nat /\ x.player < n /\ x.player \notin Players(h)
               /\ x.key \in Issued(f) /\ x.key \notin Live(f)
               /\ \A q \in Players(g) : g.scores[q].key # x.key
    BY <1>1, <1>2 DEF World, DropsSound
  <2>2. p \in Nat /\ p < n /\ p \notin Players(h) /\ key \in Issued(f) /\ key \notin Live(f)
    BY <1>1, <1>2 DEF World, ScoresSound
  <2>3. \A x, y \in d : x.key = y.key => x = y
    BY DEF World, DropsSound
  <2> HIDE DEF key
  <2>4. \A q \in Players(h) : q \in Players(g) /\ h.scores[q].key = g.scores[q].key /\ g.scores[q].key # key
    BY <1>1, <1>3
  <2>5. \A x \in d : x.key # key
    BY <2>1 DEF key
  <2>6. CASE D = d
    BY <2>1, <2>3, <2>4, <2>6 DEF DropsSound
  <2>7. CASE \E x : D = d \cup {x} /\ x.player = p /\ x.key = key
    <3>1. PICK x : D = d \cup {x} /\ x.player = p /\ x.key = key
      BY <2>7
    <3>2. \A y, z \in D : y.key = z.key => y = z
      BY <2>3, <2>5, <3>1
    <3> QED BY <2>1, <2>2, <2>4, <3>1, <3>2 DEF DropsSound
  <2> QED BY <2>6, <2>7 DEF key
<1> QED
  BY <1>1, <1>2, <1>4, <1>5, <1>6, <1>7, <1>8 DEF World

\* The players ps have entities of their own in w.
Embodied(e, w, ps) ==
  /\ Grown(e, w.e, KeysAt(w.keys, ps))
  /\ \A p, q \in ps : w.keys[p] = w.keys[q] => p = q
  /\ \A p \in ps : w.e.comps[w.keys[p]] = PlayerEntity(p)

LEMMA RespawnedEntities ==
  ASSUME NEW ps \in SUBSET Nat, IsFiniteSet(ps), NEW e, Sound(e), NEW g,
         NEW w, w = CommitPlayerSpawns(ps, e, g)
  PROVE  Embodied(e, w, ps)
<1> DEFINE order == InOrder(ps, NumberOrder(ps))
           limit == Len(order)
           cs == [i \in 1 .. limit |-> PlayerEntity(order[i])]
           made == CreateEntities(e, cs)
<1>1. /\ limit \in Nat /\ order \in Seq(ps)
      /\ \A i, j \in 1 .. limit : order[i] = order[j] => i = j
      /\ \A p \in ps : \E i \in 1 .. limit : order[i] = p
  BY NumbersOrdered, InOrderLists
<1>2. DOMAIN order = 1 .. limit /\ \A i \in 1 .. limit : order[i] \in ps
  BY <1>1
<1> HIDE DEF order
<1>3. Len(cs) = limit /\ \A i \in 1 .. limit : cs[i] = PlayerEntity(order[i]) /\ IsComponent(cs[i])
  BY <1>1 DEF PlayerEntity, IsComponent
<1>4. w.e = made.e /\ w.keys = [p \in ps |-> made.keys[PlaceIn(order, p)]]
  BY DEF CommitPlayerSpawns, order
<1>11. made = CreateEntities(e, cs)
  OBVIOUS
<1> HIDE DEF cs, limit, made
<1>5. /\ Grown(e, made.e, KeysAt(made.keys, 1 .. limit))
      /\ \A i, j \in 1 .. limit : made.keys[i] = made.keys[j] => i = j
      /\ \A i \in 1 .. limit : made.e.comps[made.keys[i]] = cs[i]
  <2>1. Len(cs) \in Nat /\ \A i \in 1 .. Len(cs) : IsComponent(cs[i])
    BY <1>1, <1>3
  <2>2. /\ Grown(e, made.e, KeysAt(made.keys, 1 .. Len(cs)))
        /\ \A i, j \in 1 .. Len(cs) : made.keys[i] = made.keys[j] => i = j
        /\ \A i \in 1 .. Len(cs) : made.e.comps[made.keys[i]] = cs[i]
    BY <1>11, <2>1, CreatedAll
  <2> QED BY <1>3, <2>2
<1>6. \A p \in ps : PlaceIn(order, p) \in 1 .. limit /\ order[PlaceIn(order, p)] = p
  BY <1>1, <1>2 DEF PlaceIn
<1>7. \A i \in 1 .. limit : PlaceIn(order, order[i]) = i
  <2>1. SUFFICES ASSUME NEW i \in 1 .. limit PROVE PlaceIn(order, order[i]) = i
    OBVIOUS
  <2> DEFINE j == PlaceIn(order, order[i])
  <2>2. j \in 1 .. limit /\ order[j] = order[i]
    BY <1>2, <1>6
  <2> HIDE DEF j
  <2>3. j = i
    BY <1>1, <2>2
  <2> QED BY <2>3 DEF j
<1>8. KeysAt(w.keys, ps) = KeysAt(made.keys, 1 .. limit)
  <2>1. \A p \in ps : \E i \in 1 .. limit : w.keys[p] = made.keys[i]
    BY <1>4, <1>6
  <2>2. \A i \in 1 .. limit : \E p \in ps : made.keys[i] = w.keys[p]
    <3>1. SUFFICES ASSUME NEW i \in 1 .. limit PROVE made.keys[i] = w.keys[order[i]]
      BY <1>2
    <3>2. order[i] \in ps /\ PlaceIn(order, order[i]) = i
      BY <1>2, <1>7
    <3> QED BY <1>4, <3>2
  <2> QED BY <2>1, <2>2 DEF KeysAt
<1>9. \A p, q \in ps : w.keys[p] = w.keys[q] => p = q
  BY <1>4, <1>5, <1>6
<1>10. \A p \in ps : w.e.comps[w.keys[p]] = PlayerEntity(p)
  BY <1>3, <1>4, <1>5, <1>6
<1> QED
  BY <1>4, <1>5, <1>8, <1>9, <1>10 DEF Embodied

LEMMA RespawnedWorld ==
  ASSUME NEW e, NEW g, NEW n, World(e, g, {}, n), NEW ps \in SUBSET PendingPlayers(g),
         NEW w, w = CommitPlayerSpawns(ps, e, g)
  PROVE  /\ World(w.e, w.g, {}, n) /\ SameRound(g, w.g) /\ Players(w.g) = Players(g)
         /\ \A p \in ps : w.keys[p] \notin Issued(e)
         /\ \A p, q \in ps : w.keys[p] = w.keys[q] => p = q
<1>1. /\ \A p \in ps : p \in Players(g) /\ g.scores[p].life = "SpawnPending"
      /\ n \in Nat /\ ps \in SUBSET Nat /\ IsFiniteSet(ps)
  <2>1. \A p \in ps : p \in Players(g) /\ g.scores[p].life = "SpawnPending"
    BY DEF PendingPlayers
  <2>2. IsFiniteSet(Players(g)) /\ \A p \in Players(g) : p \in Nat
    BY DEF World, ScoresSound
  <2>3. n \in Nat
    BY DEF World
  <2> QED BY <2>1, <2>2, <2>3, FS_Subset
<1>2. /\ Grown(e, w.e, KeysAt(w.keys, ps))
      /\ \A p, q \in ps : w.keys[p] = w.keys[q] => p = q
      /\ \A p \in ps : w.e.comps[w.keys[p]] = PlayerEntity(p)
  <2>1. Sound(e)
    BY DEF World
  <2>2. Embodied(e, w, ps)
    BY <1>1, <2>1, RespawnedEntities
  <2> QED BY <2>2 DEF Embodied
<1>3. /\ GameShape(w.g) /\ SameRound(g, w.g) /\ Players(w.g) = Players(g)
      /\ \A p \in Players(g) :
           w.g.scores[p] = IF p \in ps
                           THEN [key |-> w.keys[p], score |-> g.scores[p].score, life |-> "Alive"]
                           ELSE g.scores[p]
  BY RespawnedGame DEF World
<1>4. \A p \in ps : w.g.scores[p].key = w.keys[p] /\ w.g.scores[p].life = "Alive"
  <2>1. SUFFICES ASSUME NEW p \in ps
                 PROVE  w.g.scores[p].key = w.keys[p] /\ w.g.scores[p].life = "Alive"
    OBVIOUS
  <2>2. w.g.scores[p] = [key |-> w.keys[p], score |-> g.scores[p].score, life |-> "Alive"]
    BY <1>1, <1>3
  <2> QED BY <2>2
<1>5. \A p \in Players(g) : p \notin ps => w.g.scores[p] = g.scores[p]
  BY <1>3
<1>6. \A p \in ps : /\ w.keys[p] \notin Issued(e) /\ w.keys[p] \in Issued(w.e) /\ w.keys[p] \in Live(w.e)
                    /\ w.e.comps[w.keys[p]].kind = "Player" /\ w.e.comps[w.keys[p]].player = p
  <2>1. SUFFICES ASSUME NEW p \in ps
                 PROVE  /\ w.keys[p] \notin Issued(e) /\ w.keys[p] \in Issued(w.e) /\ w.keys[p] \in Live(w.e)
                        /\ w.e.comps[w.keys[p]].kind = "Player" /\ w.e.comps[w.keys[p]].player = p
    OBVIOUS
  <2>2. w.e.comps[w.keys[p]] = PlayerEntity(p)
    BY <1>2
  <2>3. PlayerEntity(p).kind = "Player" /\ PlayerEntity(p).player = p
    BY DEF PlayerEntity
  <2> QED BY <1>2, <2>2, <2>3 DEF Grown, KeysAt
<1>7. /\ Live(w.e) = Live(e) \cup KeysAt(w.keys, ps) /\ Issued(e) \subseteq Issued(w.e) /\ Sound(w.e)
      /\ \A k \in Live(e) : w.e.comps[k] = e.comps[k]
  BY <1>2 DEF Grown
<1>8. \A p \in Players(g) : g.scores[p].key \in Issued(e)
  BY DEF World, ScoresSound
<1>9. ScoresSound(w.e, w.g, n)
  <2>1. ASSUME NEW p \in Players(g)
        PROVE  /\ p \in Nat /\ p < n
               /\ w.g.scores[p].life \in {"Alive", "SpawnPending"}
               /\ w.g.scores[p].key \in Issued(w.e)
               /\ w.g.scores[p].life = "Alive" =>
                    /\ w.g.scores[p].key \in Live(w.e)
                    /\ w.e.comps[w.g.scores[p].key].kind = "Player"
                    /\ w.e.comps[w.g.scores[p].key].player = p
               /\ w.g.scores[p].life = "SpawnPending" =>
                    w.g.scores[p].key \notin Live(w.e) /\ w.g.scores[p].score = 0
    <3>1. CASE p \in ps
      BY <1>4, <1>6, <3>1 DEF World, ScoresSound
    <3>2. CASE p \notin ps
      <4>1. g.scores[p].key \notin KeysAt(w.keys, ps)
        BY <1>6, <1>8 DEF KeysAt
      <4>2. w.g.scores[p] = g.scores[p]
        BY <1>5, <3>2
      <4>3. g.scores[p].key \in Live(w.e) <=> g.scores[p].key \in Live(e)
        BY <1>7, <4>1
      <4> QED BY <1>7, <4>2, <4>3 DEF World, ScoresSound
    <3> QED BY <3>1, <3>2
  <2>2. ASSUME NEW p \in Players(g), NEW q \in Players(g), w.g.scores[p].key = w.g.scores[q].key
        PROVE  p = q
    <3>1. CASE p \in ps /\ q \in ps
      BY <1>2, <1>4, <2>2, <3>1
    <3>2. CASE p \notin ps /\ q \notin ps
      BY <1>5, <2>2, <3>2 DEF World, ScoresSound
    <3>3. CASE p \in ps /\ q \notin ps
      BY <1>4, <1>5, <1>6, <1>8, <2>2, <3>3
    <3>4. CASE p \notin ps /\ q \in ps
      BY <1>4, <1>5, <1>6, <1>8, <2>2, <3>4
    <3> QED BY <3>1, <3>2, <3>3, <3>4
  <2>3. IsFiniteSet(Players(w.g))
    BY <1>3 DEF World, ScoresSound
  <2> QED BY <1>3, <2>1, <2>2, <2>3 DEF ScoresSound
<1>10. ResourcesSound(w.e, w.g)
  <2>1. w.g.res = g.res
    BY <1>3 DEF SameRound
  <2>2. \A p \in AlivePlayers(g) : p \in AlivePlayers(w.g) /\ w.g.scores[p] = g.scores[p]
    <3>1. \A p \in AlivePlayers(g) : p \in Players(g) /\ p \notin ps
      BY <1>1 DEF AlivePlayers
    <3> QED BY <1>3, <1>5, <3>1 DEF AlivePlayers
  <2>3. \A p \in ps : p \in AlivePlayers(w.g)
    BY <1>1, <1>3, <1>4 DEF AlivePlayers
  <2>4. \A k \in Live(w.e) : k \in DOMAIN g.res \/ \E p \in AlivePlayers(w.g) : w.g.scores[p].key = k
    BY <1>4, <1>7, <2>2, <2>3 DEF World, ResourcesSound, KeysAt
  <2> QED BY <1>7, <2>1, <2>4 DEF World, ResourcesSound
<1>11. AmbientSound(w.g) /\ PhaseSound(w.g, {})
  BY <1>3 DEF World, AmbientSound, PhaseSound, SameRound
<1>12. DropsSound(w.e, w.g, {}, n)
  BY DEF DropsSound
<1>13. World(w.e, w.g, {}, n)
  BY <1>1, <1>3, <1>7, <1>9, <1>10, <1>11, <1>12 DEF World
<1> QED
  BY <1>2, <1>3, <1>6, <1>13

-----------------------------------------------------------------------------
(***************************************************************************)
(* A tick.                                                                 *)
(***************************************************************************)
Taken(o) == DOMAIN o.pickups \cup o.removed

\* What the outcomes of tick t have in common.
Outcome(o, t, g) ==
  /\ Dead(o) \subseteq AlivePlayers(g) /\ o.boosted \subseteq AlivePlayers(g)
  /\ o.lost \in Nat
  /\ DOMAIN o.pickups \subseteq DOMAIN g.res /\ o.removed \subseteq DOMAIN g.res
  /\ DOMAIN o.pickups \cap o.removed = {}
  /\ \A k \in DOMAIN o.pickups : o.pickups[k] \in AlivePlayers(g)
  /\ o.refill \subseteq AmbientSlots
  /\ \A i \in o.refill : g.slots[i] = "Active" => \E k \in Taken(o) : g.res[k].slot = i
  /\ o.transition \in {"None", "Started", "Ended"}
  /\ o.transition = "Started" => g.phase = "Waiting"
  /\ o.transition = "Ended" => g.phase = "Running"
  /\ g.phase = "Waiting" => Dead(o) = {} /\ o.lost = 0
  /\ g.phase = "Waiting" /\ o.transition = "None" => o.refill = {}
  /\ g.phase = "Running" => (o.transition = "None" <=> ~ (t >= g.ends))

LEMMA QuietOutcome ==
  ASSUME NEW t, NEW g, g.phase = "Waiting", \A i \in AmbientSlots : g.slots[i] = "Dormant",
         NEW o, \/ o = Quiet
                \/ o = [Quiet EXCEPT !.transition = "Started", !.refill = AmbientSlots]
  PROVE  Outcome(o, t, g)
<1>1. /\ o.collided = {} /\ o.outside = {} /\ o.boosted = {} /\ o.lost = 0
      /\ o.pickups = <<>> /\ o.removed = {}
      /\ (o.transition = "None" /\ o.refill = {}) \/ (o.transition = "Started" /\ o.refill = AmbientSlots)
  <2>1. CASE o = Quiet
    <3>1. o = [transition |-> "None", collided |-> {}, outside |-> {}, lost |-> 0, boosted |-> {},
               pickups |-> <<>>, removed |-> {}, refill |-> {}]
      BY <2>1 DEF Quiet
    <3>2. /\ o.collided = {} /\ o.outside = {} /\ o.boosted = {} /\ o.lost = 0
          /\ o.pickups = <<>> /\ o.removed = {} /\ o.transition = "None" /\ o.refill = {}
      BY <3>1
    <3> QED BY <3>2
  <2>2. CASE o = [Quiet EXCEPT !.transition = "Started", !.refill = AmbientSlots]
    <3>1. o = [transition |-> "Started", collided |-> {}, outside |-> {}, lost |-> 0, boosted |-> {},
               pickups |-> <<>>, removed |-> {}, refill |-> AmbientSlots]
      BY <2>2 DEF Quiet
    <3>2. /\ o.collided = {} /\ o.outside = {} /\ o.boosted = {} /\ o.lost = 0
          /\ o.pickups = <<>> /\ o.removed = {} /\ o.transition = "Started" /\ o.refill = AmbientSlots
      BY <3>1
    <3> QED BY <3>2
  <2> QED BY <2>1, <2>2
<1>2. DOMAIN o.pickups = {} /\ Dead(o) = {} /\ Taken(o) = {}
  BY <1>1 DEF Dead, Taken
<1> QED BY <1>1, <1>2 DEF Outcome

LEMMA RunningOutcome ==
  ASSUME NEW t, NEW g, g.phase = "Running", NEW d, NEW o \in RunningOutcomes(t, g, d)
  PROVE  Outcome(o, t, g)
<1> DEFINE alive == AlivePlayers(g)
           over == t >= g.ends
<1>1. \E c, b, f, n, v, r, s :
        /\ c \in SUBSET alive /\ b \in SUBSET alive /\ f \in PickupChoices(g, alive \ (c \cup b))
        /\ n \in DropCounts(g, d, c) /\ v \in SUBSET {p \in alive \ (c \cup b) : g.scores[p].score > 0}
        /\ r \in SUBSET (DOMAIN g.res \ DOMAIN f)
        /\ s \in (IF over THEN {{}} ELSE SUBSET Vacated(g, DOMAIN f, r))
        /\ o = [transition |-> IF over THEN "Ended" ELSE "None",
                collided |-> c, outside |-> b, lost |-> n, boosted |-> v, pickups |-> f,
                removed |-> r, refill |-> s]
  <2> DEFINE Rest(c, b, f) == OutcomesAfter(t, g, d, c, b, f)
             deaths == {z \in (SUBSET alive) \X (SUBSET alive) : z[1] \cap z[2] = {}}
  <2>1. \E z \in deaths : o \in UNION {Rest(z[1], z[2], f) : f \in PickupChoices(g, alive \ (z[1] \cup z[2]))}
    <3>1. o \in UNION {UNION {Rest(z[1], z[2], f) : f \in PickupChoices(g, alive \ (z[1] \cup z[2]))} : z \in deaths}
      BY DEF RunningOutcomes
    <3> HIDE DEF Rest, deaths
    <3> QED BY <3>1
  <2> HIDE DEF Rest
  <2>2. PICK z \in deaths : \E f \in PickupChoices(g, alive \ (z[1] \cup z[2])) : o \in Rest(z[1], z[2], f)
    BY <2>1
  <2> DEFINE c == z[1]
             b == z[2]
  <2>3. c \in SUBSET alive /\ b \in SUBSET alive
    OBVIOUS
  <2>4. PICK f \in PickupChoices(g, alive \ (c \cup b)) : o \in OutcomesAfter(t, g, d, c, b, f)
    BY <2>2 DEF Rest
  <2> HIDE DEF c, b
  <2>5. PICK n \in DropCounts(g, d, c), w \in SUBSET {p \in alive \ (c \cup b) : g.scores[p].score > 0},
             x \in UNION {{<<r, s>> : s \in IF t >= g.ends THEN {{}} ELSE SUBSET Vacated(g, DOMAIN f, r)}
                          : r \in SUBSET (DOMAIN g.res \ DOMAIN f)} :
          o = [transition |-> IF t >= g.ends THEN "Ended" ELSE "None",
               collided |-> c, outside |-> b, lost |-> n, boosted |-> w, pickups |-> f,
               removed |-> x[1], refill |-> x[2]]
    BY <2>4 DEF OutcomesAfter
  <2> HIDE DEF alive
  <2>6. PICK r \in SUBSET (DOMAIN g.res \ DOMAIN f) :
          \E s \in (IF t >= g.ends THEN {{}} ELSE SUBSET Vacated(g, DOMAIN f, r)) : x = <<r, s>>
    BY <2>5
  <2>7. PICK s \in (IF t >= g.ends THEN {{}} ELSE SUBSET Vacated(g, DOMAIN f, r)) : x = <<r, s>>
    BY <2>6
  <2>8. x[1] = r /\ x[2] = s
    BY <2>7
  <2> QED BY <2>3, <2>4, <2>5, <2>6, <2>7, <2>8
<1>2. PICK c, b, f, n, v, r, s :
        /\ c \in SUBSET alive /\ b \in SUBSET alive /\ f \in PickupChoices(g, alive \ (c \cup b))
        /\ n \in DropCounts(g, d, c) /\ v \in SUBSET {p \in alive \ (c \cup b) : g.scores[p].score > 0}
        /\ r \in SUBSET (DOMAIN g.res \ DOMAIN f)
        /\ s \in (IF over THEN {{}} ELSE SUBSET Vacated(g, DOMAIN f, r))
        /\ o = [transition |-> IF over THEN "Ended" ELSE "None",
                collided |-> c, outside |-> b, lost |-> n, boosted |-> v, pickups |-> f,
                removed |-> r, refill |-> s]
  <2> HIDE DEF alive, over
  <2> QED BY <1>1
<1>3. /\ o.transition = (IF over THEN "Ended" ELSE "None")
      /\ o.collided = c /\ o.outside = b /\ o.lost = n /\ o.boosted = v /\ o.pickups = f
      /\ o.removed = r /\ o.refill = s
  <2> HIDE DEF alive, over
  <2> QED BY <1>2
<1>4. n \in Nat
  BY <1>2 DEF DropCounts
<1>5. DOMAIN f \subseteq DOMAIN g.res /\ \A k \in DOMAIN f : f[k] \in alive
  <2> DEFINE rest == alive \ (c \cup b)
  <2>1. \E K \in SUBSET DOMAIN g.res : f \in [K -> rest]
    BY <1>2 DEF PickupChoices
  <2> QED BY <2>1
<1>6. s \subseteq Vacated(g, DOMAIN f, r)
  <2> HIDE DEF over, alive
  <2> QED BY <1>2
<1>7. /\ s \subseteq AmbientSlots
      /\ \A i \in s : g.slots[i] = "Active" => \E k \in DOMAIN f \cup r : g.res[k].slot = i
  BY <1>6 DEF Vacated
<1>8. Dead(o) = c \cup b /\ Taken(o) = DOMAIN f \cup r
  BY <1>3 DEF Dead, Taken
<1> HIDE DEF alive, over
<1>9. v \subseteq alive /\ c \cup b \subseteq alive /\ r \subseteq DOMAIN g.res /\ DOMAIN f \cap r = {}
  BY <1>2
<1>10. o.transition = "None" <=> ~ over
  BY <1>3
<1> QED
  BY <1>3, <1>4, <1>5, <1>7, <1>8, <1>9, <1>10 DEF Outcome, alive, over

LEMMA OutcomeOfWorld ==
  ASSUME NEW e, NEW g, NEW d, NEW n, World(e, g, d, n), g.phase # "Ended",
         NEW t, NEW o \in Outcomes(t, g, d)
  PROVE  Outcome(o, t, g)
<1>1. CASE g.phase = "Running"
  BY <1>1, RunningOutcome DEF Outcomes
<1>2. CASE g.phase = "Waiting"
  <2>1. Cardinality(Players(g)) \in Nat /\ MinimumPlayers \in Nat
    BY FS_CardinalityType, GameplayAssumption DEF World, ScoresSound
  <2>2. o = Quiet \/ o = [Quiet EXCEPT !.transition = "Started", !.refill = AmbientSlots]
    BY <1>2, <2>1 DEF Outcomes
  <2>3. \A i \in AmbientSlots : g.slots[i] = "Dormant"
    BY <1>2 DEF World, PhaseSound
  <2> QED BY <1>2, <2>2, <2>3, QuietOutcome
<1> QED BY <1>1, <1>2 DEF World, PhaseSound

\* The resources to make: any number of drops, and one for every refilled slot.
Requested(q, refill) ==
  /\ Len(q) \in Nat
  /\ \A i \in 1 .. Len(q) : /\ q[i].slot \in refill \cup {0}
                            /\ q[i].origin = "Ambient" => q[i].slot # 0
  /\ \A s \in refill : \E i \in 1 .. Len(q) : q[i].slot = s
  /\ \A i, j \in 1 .. Len(q) : q[i].slot = q[j].slot /\ q[i].slot # 0 => i = j

LEMMA RequestsMade ==
  ASSUME NEW o, o.lost \in Nat, o.refill \subseteq AmbientSlots
  PROVE  /\ Requested(SpawnRequests(o), o.refill)
         /\ o.lost = 0 /\ o.refill = {} => Len(SpawnRequests(o)) = 0
<1> DEFINE refills == InOrder(o.refill, NumberOrder(o.refill))
           m == o.lost
           l == Len(refills)
           a == [j \in 1 .. m |-> [origin |-> "DeathDrop", slot |-> 0]]
           b == [j \in 1 .. l |-> [origin |-> "Ambient", slot |-> refills[j]]]
           q == SpawnRequests(o)
<1>1. IsFiniteSet(o.refill) /\ o.refill \in SUBSET Nat /\ 0 \notin o.refill
  BY ZeroIsNoSlot, FS_Subset
<1>2. /\ l \in Nat /\ refills \in Seq(o.refill) /\ l = Cardinality(o.refill)
      /\ \A i, j \in 1 .. l : refills[i] = refills[j] => i = j
      /\ \A x \in o.refill : \E i \in 1 .. l : refills[i] = x
  BY <1>1, NumbersOrdered, InOrderLists
<1>3. \A i \in 1 .. l : refills[i] \in o.refill
  BY <1>2
<1>4. q = a \o b
  BY DEF SpawnRequests
<1> HIDE DEF refills, l
<1>5. /\ Len(q) = m + l
      /\ \A i \in 1 .. m : q[i] = [origin |-> "DeathDrop", slot |-> 0]
      /\ \A i \in 1 .. l : q[m + i] = [origin |-> "Ambient", slot |-> refills[i]]
  <2> DEFINE R == {[origin |-> "DeathDrop", slot |-> 0]} \cup {[origin |-> "Ambient", slot |-> x] : x \in o.refill}
  <2>1. a \in [1 .. m -> R] /\ b \in [1 .. l -> R]
    BY <1>3
  <2>2. /\ \A i \in 1 .. m : a[i] = [origin |-> "DeathDrop", slot |-> 0]
        /\ \A i \in 1 .. l : b[i] = [origin |-> "Ambient", slot |-> refills[i]]
    OBVIOUS
  <2> HIDE DEF a, b, q, R
  <2>3. a \in Seq(R) /\ Len(a) = m /\ b \in Seq(R) /\ Len(b) = l
    <3>1. m \in Nat
      OBVIOUS
    <3> HIDE DEF m
    <3>2. a \in Seq(R) /\ Len(a) = m
      BY <2>1, <3>1, FunctionIsSeq
    <3>3. b \in Seq(R) /\ Len(b) = l
      BY <1>2, <2>1, FunctionIsSeq
    <3> QED BY <3>2, <3>3
  <2>4. /\ Len(q) = m + l /\ \A i \in 1 .. m : q[i] = a[i]
        /\ \A i \in 1 .. l : q[m + i] = b[i]
    <3> HIDE DEF m
    <3>1. a \in Seq(R) /\ b \in Seq(R) /\ Len(a) \in Nat /\ Len(b) \in Nat
      BY <2>3
    <3>2. Len(q) = Len(a) + Len(b)
      BY <1>4, <3>1
    <3>3. ASSUME NEW i \in 1 .. Len(a) PROVE q[i] = a[i]
      BY <1>4, <3>1
    <3>4. ASSUME NEW i \in 1 .. Len(b) PROVE q[Len(a) + i] = b[i]
      BY <1>4, <3>1
    <3> QED BY <2>3, <3>2, <3>3, <3>4
  <2> QED BY <2>2, <2>4
<1> HIDE DEF q, a, b
<1>6. \A i \in 1 .. m : q[i].slot = 0 /\ q[i].origin = "DeathDrop"
  BY <1>5
<1>7. \A i \in 1 .. l : q[m + i].slot = refills[i] /\ q[m + i].origin = "Ambient" /\ m + i \in 1 .. Len(q)
  <2>1. SUFFICES ASSUME NEW i \in 1 .. l
                 PROVE  q[m + i].slot = refills[i] /\ q[m + i].origin = "Ambient" /\ m + i \in 1 .. Len(q)
    OBVIOUS
  <2>2. q[m + i] = [origin |-> "Ambient", slot |-> refills[i]]
    BY <1>5
  <2>3. m + i \in 1 .. Len(q)
    BY <1>2, <1>5
  <2> QED BY <2>2, <2>3
<1>8. \A i \in 1 .. Len(q) : i \in 1 .. m \/ (i - m \in 1 .. l /\ i = m + (i - m))
  BY <1>2, <1>5
<1>9. ASSUME NEW i \in 1 .. Len(q)
      PROVE  /\ q[i].slot \in o.refill \cup {0}
             /\ q[i].origin = "Ambient" => q[i].slot # 0
  <2>1. CASE i \in 1 .. m
    BY <1>6, <2>1
  <2>2. CASE i - m \in 1 .. l /\ i = m + (i - m)
    BY <1>1, <1>3, <1>7, <2>2
  <2> QED BY <1>8, <2>1, <2>2
<1>10. ASSUME NEW s \in o.refill PROVE \E i \in 1 .. Len(q) : q[i].slot = s
  <2>1. PICK i \in 1 .. l : refills[i] = s
    BY <1>2
  <2> QED BY <1>7, <2>1
<1>11. ASSUME NEW i \in 1 .. Len(q), NEW j \in 1 .. Len(q), q[i].slot = q[j].slot, q[i].slot # 0
       PROVE  i = j
  <2>1. /\ i - m \in 1 .. l /\ i = m + (i - m) /\ j - m \in 1 .. l /\ j = m + (j - m)
    BY <1>6, <1>8, <1>11
  <2>2. refills[i - m] = refills[j - m]
    BY <1>7, <1>11, <2>1
  <2> QED BY <1>2, <2>1, <2>2
<1>12. Len(q) \in Nat
  BY <1>2, <1>5
<1>13. o.lost = 0 /\ o.refill = {} => Len(q) = 0
  BY <1>2, <1>5, FS_EmptySet
<1> QED
  BY <1>9, <1>10, <1>11, <1>12, <1>13 DEF Requested, q

\* Scores after a tick.
LEMMA ScoresCommitted ==
  ASSUME NEW e, NEW g, NEW d, NEW n, World(e, g, d, n), NEW t, NEW o, Outcome(o, t, g),
         NEW p \in Players(g)
  PROVE  /\ CommittedScores(o, g)[p].life = IF p \in Dead(o) THEN "SpawnPending" ELSE g.scores[p].life
         /\ CommittedScores(o, g)[p].life = "SpawnPending" => CommittedScores(o, g)[p].score = 0
<1> DEFINE f == CommittedScores(o, g)
           x == g.scores[p]
<1>1. x = [key |-> x.key, score |-> x.score, life |-> x.life]
  BY DEF World, GameShape, ScoreTable, Players
<1>2. x.life \in {"Alive", "SpawnPending"} /\ (x.life = "SpawnPending" => x.score = 0)
  BY DEF World, ScoresSound
<1>3. p \in AlivePlayers(g) <=> x.life = "Alive"
  BY DEF AlivePlayers
<1>4. CASE o.transition = "Started"
  <2>1. Dead(o) = {}
    BY <1>4 DEF Outcome
  <2>2. f[p] = [x EXCEPT !.score = 0]
    BY <1>4 DEF CommittedScores
  <2> HIDE DEF f, x
  <2>3. f[p].life = x.life /\ f[p].score = 0
    BY <1>1, <2>2
  <2> QED BY <2>1, <2>3 DEF f, x
<1>5. CASE o.transition # "Started" /\ p \in Dead(o)
  <2>1. f[p] = [key |-> x.key, score |-> 0, life |-> "SpawnPending"]
    BY <1>5 DEF CommittedScores
  <2> HIDE DEF f, x
  <2>2. f[p].life = "SpawnPending" /\ f[p].score = 0
    BY <2>1
  <2> QED BY <1>5, <2>2 DEF f, x
<1>6. CASE o.transition # "Started" /\ p \notin Dead(o)
  <2> DEFINE got == {k \in DOMAIN o.pickups : o.pickups[k] = p}
             c == Cardinality(got)
             s == x.score - (IF p \in o.boosted THEN 1 ELSE 0) + c
  <2>1. f[p] = [x EXCEPT !.score = s]
    BY <1>6 DEF CommittedScores
  <2>2. ASSUME x.life = "SpawnPending" PROVE s = 0
    <3>1. p \notin o.boosted /\ got = {}
      BY <1>3, <2>2 DEF Outcome
    <3>2. c = 0
      BY <3>1, FS_EmptySet
    <3>3. x.score = 0
      BY <1>2, <2>2
    <3> DEFINE cost == IF p \in o.boosted THEN 1 ELSE 0
    <3>4. cost = 0 /\ s = x.score - cost + c
      BY <3>1
    <3> HIDE DEF c, x, cost, s
    <3> QED BY <3>2, <3>3, <3>4
  <2> HIDE DEF f, x, s
  <2>3. f[p].life = x.life /\ f[p].score = s
    BY <1>1, <2>1
  <2> QED BY <1>6, <2>2, <2>3 DEF f, x
<1> QED BY <1>4, <1>5, <1>6

DeadKeys(o, g) == {g.scores[p].key : p \in Dead(o)}

\* What Commit does to entities and resources: the requests q are made under keys
\* in m, and what died or was taken goes.
Assembled(o, e, g, done, q, keys, m) ==
  /\ Requested(q, o.refill) /\ (o.lost = 0 /\ o.refill = {} => Len(q) = 0)
  /\ \A i, j \in 1 .. Len(q) : keys[i] = keys[j] => i = j
  /\ Grown(e, m, KeysAt(keys, 1 .. Len(q)))
  /\ \A i \in 1 .. Len(q) : m.comps[keys[i]].kind = "Resource"
  /\ Shrunk(m, done.e, DeadKeys(o, g) \cup Taken(o))
  /\ done.g.res = [k \in DOMAIN done.g.res |-> done.g.res[k]]
  /\ DOMAIN done.g.res = KeysAt(keys, 1 .. Len(q)) \cup (DOMAIN g.res \ Taken(o))
  /\ \A i \in 1 .. Len(q) : done.g.res[keys[i]] = q[i]
  /\ \A k \in DOMAIN g.res \ Taken(o) : done.g.res[k] = g.res[k]

\* The dead are players, what is taken are resources.
LEMMA DeadAndTaken ==
  ASSUME NEW e, NEW g, NEW d, NEW n, World(e, g, d, n), NEW t, NEW o, Outcome(o, t, g)
  PROVE  /\ DeadKeys(o, g) \subseteq Live(e) /\ Taken(o) \subseteq DOMAIN g.res
         /\ DOMAIN g.res \subseteq Live(e) /\ DeadKeys(o, g) \cap DOMAIN g.res = {}
<1>1. \A p \in Dead(o) : g.scores[p].key \in Live(e) /\ e.comps[g.scores[p].key].kind = "Player"
  BY DEF World, ScoresSound, Outcome, AlivePlayers
<1>2. \A k \in DOMAIN g.res : k \in Live(e) /\ e.comps[k].kind = "Resource"
  BY DEF World, ResourcesSound
<1>3. Taken(o) \subseteq DOMAIN g.res
  BY DEF Taken, Outcome
<1> QED BY <1>1, <1>2, <1>3 DEF DeadKeys

LEMMA CommitAssembled ==
  ASSUME NEW e, NEW g, NEW d, NEW n, World(e, g, d, n), NEW t, NEW o, Outcome(o, t, g),
         NEW done, done = Commit(t, o, e, g)
  PROVE  \E q, keys, m : Assembled(o, e, g, done, q, keys, m)
<1> DEFINE q == SpawnRequests(o)
           l == Len(q)
           cs == [i \in 1 .. l |-> ResourceEntity]
           made == CreateEntities(e, cs)
           new == [k \in ToSet(made.keys) |-> q[PlaceIn(made.keys, k)]]
           old == [k \in DOMAIN g.res \ Taken(o) |-> g.res[k]]
           e1 == RemoveEntities(made.e, DeadKeys(o, g))
           e2 == RemoveEntities(e1, DOMAIN o.pickups)
           N == KeysAt(made.keys, 1 .. l)
<1>1. /\ done.e = RemoveEntities(e2, o.removed)
      /\ done.g.res = Over(new, old)
  BY DEF Commit, DeadKeys, Taken
<1>2. Requested(q, o.refill) /\ (o.lost = 0 /\ o.refill = {} => l = 0)
  <2>1. o.lost \in Nat /\ o.refill \subseteq AmbientSlots
    BY DEF Outcome
  <2> QED BY <2>1, RequestsMade
<1> HIDE DEF q
<1>3. l \in Nat
  BY <1>2 DEF Requested
<1>4. Len(cs) = l /\ \A i \in 1 .. l : cs[i] = ResourceEntity /\ IsComponent(cs[i])
  BY <1>3 DEF ResourceEntity, IsComponent
<1> HIDE DEF cs, l
<1>5. /\ DOMAIN made.keys = 1 .. l
      /\ Grown(e, made.e, N)
      /\ \A i, j \in 1 .. l : made.keys[i] = made.keys[j] => i = j
      /\ \A i \in 1 .. l : made.e.comps[made.keys[i]] = ResourceEntity
  <2>1. Len(cs) \in Nat /\ \A i \in 1 .. Len(cs) : IsComponent(cs[i])
    BY <1>3, <1>4
  <2>2. made = CreateEntities(e, cs) /\ Sound(e)
    BY DEF World
  <2> HIDE DEF made
  <2>3. /\ DOMAIN made.keys = 1 .. Len(cs)
        /\ Grown(e, made.e, KeysAt(made.keys, 1 .. Len(cs)))
        /\ \A i, j \in 1 .. Len(cs) : made.keys[i] = made.keys[j] => i = j
        /\ \A i \in 1 .. Len(cs) : made.e.comps[made.keys[i]] = cs[i]
    BY <2>1, <2>2, CreatedAll
  <2> QED BY <1>4, <2>3
<1> HIDE DEF made
<1>6. Shrunk(made.e, done.e, DeadKeys(o, g) \cup Taken(o))
  <2>1. /\ DeadKeys(o, g) \subseteq Live(e) /\ Taken(o) \subseteq Live(e)
        /\ DeadKeys(o, g) \cap Taken(o) = {} /\ DOMAIN o.pickups \cap o.removed = {}
    BY DeadAndTaken DEF Outcome
  <2>2. Sound(made.e) /\ Live(e) \subseteq Live(made.e)
    BY <1>5 DEF Grown
  <2>3. DeadKeys(o, g) \in SUBSET Live(made.e)
    BY <2>1, <2>2
  <2>4. Shrunk(made.e, e1, DeadKeys(o, g))
    BY <2>2, <2>3, RemovedAll
  <2> HIDE DEF e1
  <2>5. Sound(e1) /\ DOMAIN o.pickups \in SUBSET Live(e1)
    BY <2>1, <2>2, <2>4 DEF Shrunk, Taken
  <2>6. Shrunk(e1, e2, DOMAIN o.pickups)
    BY <2>5, RemovedAll
  <2> HIDE DEF e2
  <2>7. Sound(e2) /\ o.removed \in SUBSET Live(e2)
    BY <2>1, <2>2, <2>4, <2>6 DEF Shrunk, Taken
  <2>8. Shrunk(e2, done.e, o.removed)
    BY <1>1, <2>7, RemovedAll
  <2>9. Shrunk(made.e, e2, DeadKeys(o, g) \cup DOMAIN o.pickups)
    BY <2>4, <2>6, ShrunkTwice
  <2>10. Shrunk(made.e, done.e, (DeadKeys(o, g) \cup DOMAIN o.pickups) \cup o.removed)
    BY <2>8, <2>9, ShrunkTwice
  <2>11. (DeadKeys(o, g) \cup DOMAIN o.pickups) \cup o.removed = DeadKeys(o, g) \cup Taken(o)
    BY DEF Taken
  <2> QED BY <2>10, <2>11
<1>7. ToSet(made.keys) = N
  BY <1>5 DEF ToSet, KeysAt
<1>8. DOMAIN new = N /\ \A i \in 1 .. l : new[made.keys[i]] = q[i]
  <2>1. \A i \in 1 .. l : made.keys[i] \in N
    BY DEF KeysAt
  <2>2. \A i \in 1 .. l : PlaceIn(made.keys, made.keys[i]) = i
    BY <1>5 DEF PlaceIn
  <2> QED BY <1>7, <2>1, <2>2
<1>9. \A k \in DOMAIN g.res : k \notin N
  <2>1. Live(e) \subseteq Issued(e)
    BY LiveIssued DEF World
  <2> QED BY <1>5, <2>1 DEF Grown, World, ResourcesSound
<1>10. /\ DOMAIN Over(new, old) = N \cup (DOMAIN g.res \ Taken(o))
       /\ Over(new, old) = [k \in DOMAIN Over(new, old) |-> Over(new, old)[k]]
       /\ \A i \in 1 .. l : Over(new, old)[made.keys[i]] = q[i]
       /\ \A k \in DOMAIN g.res \ Taken(o) : Over(new, old)[k] = g.res[k]
  <2>1. DOMAIN old = DOMAIN g.res \ Taken(o) /\ \A k \in DOMAIN g.res \ Taken(o) : old[k] = g.res[k]
    OBVIOUS
  <2>2. \A i \in 1 .. l : made.keys[i] \in N
    BY DEF KeysAt
  <2> HIDE DEF new, old, N
  <2> QED BY <1>8, <1>9, <2>1, <2>2 DEF Over
<1> HIDE DEF new, old
<1>11. \A i \in 1 .. l : made.e.comps[made.keys[i]].kind = "Resource"
  BY <1>5 DEF ResourceEntity
<1>12. Assembled(o, e, g, done, q, made.keys, made.e)
  BY <1>1, <1>2, <1>5, <1>6, <1>10, <1>11 DEF Assembled, l
<1> QED BY <1>12

\* The world that a tick leaves.
LEMMA CommitLives ==
  ASSUME NEW e, NEW g, NEW d, NEW n, World(e, g, d, n), NEW t, NEW o, Outcome(o, t, g),
         NEW done, done = Commit(t, o, e, g),
         NEW q, NEW keys, NEW m, Assembled(o, e, g, done, q, keys, m)
  PROVE  /\ Sound(done.e) /\ Issued(e) \subseteq Issued(done.e)
         /\ Live(done.e) = (Live(e) \ (DeadKeys(o, g) \cup Taken(o))) \cup KeysAt(keys, 1 .. Len(q))
         /\ \A k \in Live(done.e) \cap Live(e) : done.e.comps[k] = e.comps[k]
         /\ \A k \in KeysAt(keys, 1 .. Len(q)) : k \notin Issued(e) /\ done.e.comps[k].kind = "Resource"
<1> DEFINE N == KeysAt(keys, 1 .. Len(q))
           G == DeadKeys(o, g) \cup Taken(o)
<1>1. /\ Sound(m) /\ Live(m) = Live(e) \cup N /\ \A k \in Live(e) : m.comps[k] = e.comps[k]
      /\ Issued(e) \subseteq Issued(m) /\ \A k \in N : k \notin Issued(e)
  BY DEF Assembled, Grown
<1>2. /\ Sound(done.e) /\ Live(done.e) = Live(m) \ G /\ Issued(done.e) = Issued(m)
      /\ \A k \in Live(done.e) : done.e.comps[k] = m.comps[k]
  BY DEF Assembled, Shrunk
<1>3. G \subseteq Live(e) /\ Live(e) \subseteq Issued(e)
  BY DeadAndTaken, LiveIssued DEF World
<1>4. \A k \in N : m.comps[k].kind = "Resource"
  BY DEF Assembled, KeysAt
<1> HIDE DEF N, G
<1>5. \A k \in N : k \in Live(done.e)
  BY <1>1, <1>2, <1>3
<1>6. Live(done.e) = (Live(e) \ G) \cup N
  BY <1>1, <1>2, <1>3
<1>7. \A k \in Live(done.e) \cap Live(e) : done.e.comps[k] = e.comps[k]
  BY <1>1, <1>2
<1>8. \A k \in N : k \notin Issued(e) /\ done.e.comps[k].kind = "Resource"
  BY <1>1, <1>2, <1>4, <1>5
<1> QED BY <1>1, <1>2, <1>6, <1>7, <1>8 DEF N, G

LEMMA CommitScoresSound ==
  ASSUME NEW e, NEW g, NEW d, NEW n, World(e, g, d, n), NEW t, NEW o, Outcome(o, t, g),
         NEW done, done = Commit(t, o, e, g),
         NEW q, NEW keys, NEW m, Assembled(o, e, g, done, q, keys, m)
  PROVE  /\ ScoresSound(done.e, done.g, n)
         /\ \A p \in Players(g) :
              /\ p \in Dead(o) => done.g.scores[p].life = "SpawnPending"
              /\ p \notin Dead(o) => done.g.scores[p].life = g.scores[p].life
<1> DEFINE h == done.g
           f == done.e
           N == KeysAt(keys, 1 .. Len(q))
<1>1. /\ Issued(e) \subseteq Issued(f)
      /\ Live(f) = (Live(e) \ (DeadKeys(o, g) \cup Taken(o))) \cup N
      /\ \A k \in Live(f) \cap Live(e) : f.comps[k] = e.comps[k]
      /\ \A k \in N : k \notin Issued(e)
  BY CommitLives
<1>2. Players(h) = Players(g) /\ \A p \in Players(g) : h.scores[p].key = g.scores[p].key
  <2>1. GameShape(g)
    BY DEF World
  <2> QED BY <2>1, CommittedGame
<1>3. h.scores = CommittedScores(o, g)
  BY DEF Commit
<1>4. \A p \in Players(g) :
        /\ h.scores[p].life = IF p \in Dead(o) THEN "SpawnPending" ELSE g.scores[p].life
        /\ h.scores[p].life = "SpawnPending" => h.scores[p].score = 0
  BY <1>3, ScoresCommitted
<1> HIDE DEF h, f, N
<1>5. ASSUME NEW p \in Players(g)
      PROVE  /\ p \in Nat /\ p < n
             /\ h.scores[p].life \in {"Alive", "SpawnPending"}
             /\ h.scores[p].key \in Issued(f)
             /\ h.scores[p].life = "Alive" =>
                  /\ h.scores[p].key \in Live(f)
                  /\ f.comps[h.scores[p].key].kind = "Player"
                  /\ f.comps[h.scores[p].key].player = p
             /\ h.scores[p].life = "SpawnPending" => h.scores[p].key \notin Live(f) /\ h.scores[p].score = 0
  <2> DEFINE key == g.scores[p].key
  <2>1. /\ p \in Nat /\ p < n /\ key \in Issued(e)
        /\ g.scores[p].life \in {"Alive", "SpawnPending"}
        /\ g.scores[p].life = "Alive" => /\ key \in Live(e)
                                         /\ e.comps[key].kind = "Player" /\ e.comps[key].player = p
        /\ g.scores[p].life = "SpawnPending" => key \notin Live(e)
        /\ \A r \in Players(g) : g.scores[r].key = key => r = p
    BY DEF World, ScoresSound
  <2>2. key \in DeadKeys(o, g) => p \in Dead(o)
    <3>1. \A r \in Dead(o) : r \in Players(g)
      BY DEF Outcome, AlivePlayers
    <3> QED BY <2>1, <3>1 DEF DeadKeys
  <2>3. p \in Dead(o) => key \in DeadKeys(o, g) /\ g.scores[p].life = "Alive"
    BY DEF DeadKeys, Outcome, AlivePlayers
  <2>4. key \notin N
    BY <1>1, <2>1
  <2>5. h.scores[p].key = key
    BY <1>2
  <2>6. CASE p \in Dead(o)
    <3>1. h.scores[p].life = "SpawnPending" /\ h.scores[p].score = 0
      BY <1>4, <2>6
    <3>2. key \notin Live(f)
      <4> HIDE DEF key
      <4> QED BY <1>1, <2>3, <2>4, <2>6
    <3> HIDE DEF key
    <3> QED BY <1>1, <2>1, <2>5, <3>1, <3>2
  <2>7. CASE p \notin Dead(o)
    <3>1. h.scores[p].life = g.scores[p].life /\ (h.scores[p].life = "SpawnPending" => h.scores[p].score = 0)
      BY <1>4, <2>7
    <3>2. ASSUME g.scores[p].life = "Alive"
          PROVE  key \in Live(f) /\ f.comps[key].kind = "Player" /\ f.comps[key].player = p
      <4>1. key \notin Taken(o)
        <5>1. e.comps[key].kind # "Resource"
          BY <2>1, <3>2
        <5> HIDE DEF key
        <5> QED BY <5>1, DeadAndTaken DEF World, ResourcesSound
      <4> HIDE DEF key
      <4>2. key \in Live(f) /\ key \in Live(e)
        BY <1>1, <2>1, <2>2, <2>7, <3>2, <4>1
      <4> QED BY <1>1, <2>1, <3>2, <4>2
    <3>3. g.scores[p].life = "SpawnPending" => key \notin Live(f)
      <4> HIDE DEF key
      <4> QED BY <1>1, <2>1, <2>4
    <3> HIDE DEF key
    <3> QED BY <1>1, <2>1, <2>5, <3>1, <3>2, <3>3
  <2> QED BY <2>6, <2>7
<1>6. \A p, r \in Players(g) : h.scores[p].key = h.scores[r].key => p = r
  BY <1>2 DEF World, ScoresSound
<1>7. IsFiniteSet(Players(g))
  BY DEF World, ScoresSound
<1>8. ScoresSound(f, h, n)
  BY <1>2, <1>5, <1>6, <1>7 DEF ScoresSound
<1> QED BY <1>4, <1>8 DEF f, h

LEMMA CommitResourcesSound ==
  ASSUME NEW e, NEW g, NEW d, NEW n, World(e, g, d, n), NEW t, NEW o, Outcome(o, t, g),
         NEW done, done = Commit(t, o, e, g),
         NEW q, NEW keys, NEW m, Assembled(o, e, g, done, q, keys, m)
  PROVE  ResourcesSound(done.e, done.g)
<1> DEFINE h == done.g
           f == done.e
           N == KeysAt(keys, 1 .. Len(q))
<1>1. /\ Live(f) = (Live(e) \ (DeadKeys(o, g) \cup Taken(o))) \cup N
      /\ \A k \in Live(f) \cap Live(e) : f.comps[k] = e.comps[k]
      /\ \A k \in N : k \notin Issued(e) /\ f.comps[k].kind = "Resource"
  BY CommitLives
<1>2. /\ h.res = [k \in DOMAIN h.res |-> h.res[k]]
      /\ DOMAIN h.res = N \cup (DOMAIN g.res \ Taken(o))
      /\ \A i \in 1 .. Len(q) : h.res[keys[i]] = q[i]
      /\ \A k \in DOMAIN g.res \ Taken(o) : h.res[k] = g.res[k]
  BY DEF Assembled
<1>3. \A i \in 1 .. Len(q) : /\ q[i].slot \in AmbientSlots \cup {0}
                             /\ q[i].origin = "Ambient" => q[i].slot # 0
  BY DEF Assembled, Requested, Outcome
<1>4. \A k \in N : \E i \in 1 .. Len(q) : k = keys[i]
  BY DEF KeysAt
<1>5. /\ DeadKeys(o, g) \subseteq Live(e) /\ Taken(o) \subseteq DOMAIN g.res
      /\ DOMAIN g.res \subseteq Live(e) /\ DeadKeys(o, g) \cap DOMAIN g.res = {}
  BY DeadAndTaken
<1>6. /\ Players(h) = Players(g) /\ \A p \in Players(g) : h.scores[p].key = g.scores[p].key
  <2>1. GameShape(g)
    BY DEF World
  <2> QED BY <2>1, CommittedGame
<1>7. \A p \in Players(g) : p \notin Dead(o) => h.scores[p].life = g.scores[p].life
  BY CommitScoresSound
<1> HIDE DEF h, f, N
<1>8. ASSUME NEW k \in DOMAIN h.res
      PROVE  /\ k \in Live(f) /\ f.comps[k].kind = "Resource"
             /\ h.res[k].slot \in AmbientSlots \cup {0}
             /\ h.res[k].origin = "Ambient" => h.res[k].slot # 0
  <2>1. CASE k \in N
    BY <1>1, <1>2, <1>3, <1>4, <2>1
  <2>2. CASE k \in DOMAIN g.res \ Taken(o)
    <3>1. k \in Live(f) /\ k \in Live(e)
      BY <1>1, <1>5, <2>2
    <3> QED BY <1>1, <1>2, <2>2, <3>1 DEF World, ResourcesSound
  <2> QED BY <1>2, <2>1, <2>2
<1>9. ASSUME NEW k \in Live(f)
      PROVE  k \in DOMAIN h.res \/ \E p \in AlivePlayers(h) : h.scores[p].key = k
  <2>1. CASE k \in N
    BY <1>2, <2>1
  <2>2. CASE k \in Live(e) /\ k \notin DeadKeys(o, g) /\ k \notin Taken(o)
    <3>1. CASE k \in DOMAIN g.res
      BY <1>2, <2>2, <3>1
    <3>2. CASE k \notin DOMAIN g.res
      <4>1. PICK p \in AlivePlayers(g) : g.scores[p].key = k
        BY <2>2, <3>2 DEF World, ResourcesSound
      <4>2. p \notin Dead(o)
        BY <2>2, <4>1 DEF DeadKeys
      <4>3. p \in AlivePlayers(h) /\ h.scores[p].key = k
        BY <1>6, <1>7, <4>1, <4>2 DEF AlivePlayers
      <4> QED BY <4>3
    <3> QED BY <3>1, <3>2
  <2> QED BY <1>1, <2>1, <2>2
<1>10. ResourcesSound(f, h)
  BY <1>2, <1>8, <1>9 DEF ResourcesSound
<1> QED BY <1>10 DEF f, h

\* A slot that is refilled was free, or is freed by this very tick.
LEMMA CommitAmbientSound ==
  ASSUME NEW e, NEW g, NEW d, NEW n, World(e, g, d, n), NEW t, NEW o, Outcome(o, t, g),
         NEW done, done = Commit(t, o, e, g),
         NEW q, NEW keys, NEW m, Assembled(o, e, g, done, q, keys, m)
  PROVE  AmbientSound(done.g)
<1> DEFINE h == done.g
           N == KeysAt(keys, 1 .. Len(q))
<1>1. \A i \in AmbientSlots :
        h.slots[i] = IF i \in o.refill THEN "Active"
                     ELSE IF \E k \in Taken(o) : g.res[k].slot = i THEN "Respawning"
                     ELSE g.slots[i]
  BY DEF Commit, Taken
<1>2. /\ DOMAIN h.res = N \cup (DOMAIN g.res \ Taken(o))
      /\ \A i \in 1 .. Len(q) : h.res[keys[i]] = q[i]
      /\ \A k \in DOMAIN g.res \ Taken(o) : h.res[k] = g.res[k]
  BY DEF Assembled
<1>3. \A k \in N : \E i \in 1 .. Len(q) : k = keys[i]
  BY DEF KeysAt
<1>4. \A i \in 1 .. Len(q) : keys[i] \in N
  BY DEF KeysAt
<1>5. /\ \A i \in 1 .. Len(q) : q[i].slot \in o.refill \cup {0}
      /\ \A s \in o.refill : \E i \in 1 .. Len(q) : q[i].slot = s
      /\ \A i, j \in 1 .. Len(q) : q[i].slot = q[j].slot /\ q[i].slot # 0 => i = j
  BY DEF Assembled, Requested
<1>6. /\ \A k \in DOMAIN g.res : g.res[k].slot \in AmbientSlots \cup {0}
      /\ \A k \in DOMAIN g.res : g.res[k].slot # 0 => g.slots[g.res[k].slot] = "Active"
      /\ \A i \in AmbientSlots : g.slots[i] = "Active" => \E k \in DOMAIN g.res : g.res[k].slot = i
      /\ \A k, l \in DOMAIN g.res : g.res[k].slot = g.res[l].slot /\ g.res[k].slot # 0 => k = l
  BY DEF World, ResourcesSound, AmbientSound
<1>7. /\ o.refill \subseteq AmbientSlots /\ Taken(o) \subseteq DOMAIN g.res
      /\ \A i \in o.refill : g.slots[i] = "Active" => \E k \in Taken(o) : g.res[k].slot = i
  BY DeadAndTaken DEF Outcome
<1> HIDE DEF h, N
\* The slots of what stays are not refilled.
<1>8. ASSUME NEW k \in DOMAIN g.res \ Taken(o), g.res[k].slot # 0
      PROVE  g.res[k].slot \notin o.refill /\ ~ \E l \in Taken(o) : g.res[l].slot = g.res[k].slot
  BY <1>6, <1>7, <1>8
<1>9. ASSUME NEW k \in DOMAIN h.res, h.res[k].slot # 0 PROVE h.slots[h.res[k].slot] = "Active"
  <2>1. CASE k \in N
    <3>1. h.res[k].slot \in o.refill
      BY <1>2, <1>3, <1>5, <1>9, <2>1
    <3> QED BY <1>1, <1>7, <3>1
  <2>2. CASE k \in DOMAIN g.res \ Taken(o)
    <3>1. h.res[k] = g.res[k] /\ g.res[k].slot \in AmbientSlots /\ g.slots[g.res[k].slot] = "Active"
      BY <1>2, <1>6, <1>9, <2>2
    <3> QED BY <1>1, <1>8, <1>9, <2>2, <3>1
  <2> QED BY <1>2, <2>1, <2>2
<1>10. ASSUME NEW i \in AmbientSlots, h.slots[i] = "Active" PROVE \E k \in DOMAIN h.res : h.res[k].slot = i
  <2>1. CASE i \in o.refill
    <3>1. PICK j \in 1 .. Len(q) : q[j].slot = i
      BY <1>5, <2>1
    <3> QED BY <1>2, <1>4, <3>1
  <2>2. CASE i \notin o.refill
    <3>1. g.slots[i] = "Active" /\ ~ \E k \in Taken(o) : g.res[k].slot = i
      BY <1>1, <1>10, <2>2
    <3>2. PICK k \in DOMAIN g.res : g.res[k].slot = i
      BY <1>6, <3>1
    <3> QED BY <1>2, <3>1, <3>2
  <2> QED BY <2>1, <2>2
<1>11. ASSUME NEW k \in DOMAIN h.res, NEW l \in DOMAIN h.res, h.res[k].slot = h.res[l].slot, h.res[k].slot # 0
       PROVE  k = l
  <2>1. CASE k \in N /\ l \in N
    BY <1>2, <1>3, <1>5, <1>11, <2>1
  <2>2. CASE k \in DOMAIN g.res \ Taken(o) /\ l \in DOMAIN g.res \ Taken(o)
    BY <1>2, <1>6, <1>11, <2>2
  <2>3. \A a \in N, b \in DOMAIN g.res \ Taken(o) : h.res[a].slot = h.res[b].slot => h.res[b].slot = 0
    BY <1>2, <1>3, <1>5, <1>8
  <2> QED BY <1>2, <1>11, <2>1, <2>2, <2>3
<1>12. AmbientSound(h)
  BY <1>9, <1>10, <1>11 DEF AmbientSound
<1> QED BY <1>12 DEF h

LEMMA CommitPhase ==
  ASSUME NEW e, NEW g, NEW t, NEW o, Outcome(o, t, g), NEW done, done = Commit(t, o, e, g)
  PROVE  /\ o.transition = "None" => done.g.phase = g.phase /\ done.g.ends = g.ends
         /\ o.transition = "Started" => done.g.phase = "Running" /\ done.g.ends = t + RoundDuration
         /\ o.transition = "Ended" => done.g.phase = "Ended" /\ done.g.ends = t
<1>1. o.transition \in {"None", "Started", "Ended"}
  BY DEF Outcome
<1>2. /\ done.g.phase = CASE o.transition = "None" -> g.phase
                          [] o.transition = "Started" -> "Running"
                          [] o.transition = "Ended" -> "Ended"
      /\ done.g.ends = CASE o.transition = "None" -> g.ends
                         [] o.transition = "Started" -> t + RoundDuration
                         [] o.transition = "Ended" -> t
  BY DEF Commit
<1>3. CASE o.transition = "None"
  BY <1>2, <1>3
<1>4. CASE o.transition = "Started"
  BY <1>2, <1>4
<1>5. CASE o.transition = "Ended"
  BY <1>2, <1>5
<1> QED BY <1>1, <1>3, <1>4, <1>5

LEMMA CommitWorld ==
  ASSUME NEW e, NEW g, NEW d, NEW n, World(e, g, d, n), g.phase # "Ended",
         NEW t, NEW o, Outcome(o, t, g), NEW done, done = Commit(t, o, e, g)
  PROVE  /\ World(done.e, done.g, {}, n)
         /\ PendingPlayers(g) \subseteq PendingPlayers(done.g)
<1>1. PICK q, keys, m : Assembled(o, e, g, done, q, keys, m)
  BY CommitAssembled
<1>2. Sound(done.e)
  BY <1>1, CommitLives
<1>3. GameShape(done.g) /\ Players(done.g) = Players(g)
  BY CommittedGame DEF World
<1>4. /\ ScoresSound(done.e, done.g, n)
      /\ \A p \in Players(g) :
           /\ p \in Dead(o) => done.g.scores[p].life = "SpawnPending"
           /\ p \notin Dead(o) => done.g.scores[p].life = g.scores[p].life
  BY <1>1, CommitScoresSound
<1>5. ResourcesSound(done.e, done.g)
  BY <1>1, CommitResourcesSound
<1>6. AmbientSound(done.g)
  BY <1>1, CommitAmbientSound
<1>7. PhaseSound(done.g, {})
  <2>1. o.transition \in {"None", "Started", "Ended"} /\ g.phase \in {"Waiting", "Running"}
    BY DEF Outcome, World, PhaseSound
  <2>2. CASE o.transition = "Started"
    BY <2>2, CommitPhase DEF PhaseSound
  <2>3. CASE o.transition = "Ended"
    BY <2>3, CommitPhase DEF PhaseSound
  <2>4. CASE o.transition = "None" /\ g.phase = "Running"
    BY <2>4, CommitPhase DEF PhaseSound
  <2>5. CASE o.transition = "None" /\ g.phase = "Waiting"
    <3>1. done.g.phase = "Waiting"
      BY <2>5, CommitPhase
    <3>2. o.lost = 0 /\ o.refill = {} /\ g.res = <<>> /\ \A i \in AmbientSlots : g.slots[i] = "Dormant"
      BY <2>5 DEF Outcome, World, PhaseSound
    <3>3. DOMAIN g.res = {} /\ Taken(o) = {}
      <4>1. DOMAIN g.res = {}
        BY <3>2
      <4> QED BY <4>1, DeadAndTaken
    <3>4. /\ Len(q) = 0 /\ DOMAIN done.g.res = KeysAt(keys, 1 .. Len(q)) \cup (DOMAIN g.res \ Taken(o))
          /\ done.g.res = [k \in DOMAIN done.g.res |-> done.g.res[k]]
      BY <1>1, <3>2 DEF Assembled
    <3>5. DOMAIN done.g.res = {}
      BY <3>3, <3>4 DEF KeysAt
    <3>6. done.g.res = <<>>
      <4> DEFINE r == done.g.res
      <4>1. r = [k \in DOMAIN r |-> r[k]] /\ DOMAIN r = {}
        BY <3>4, <3>5
      <4> HIDE DEF r
      <4>2. r = <<>>
        BY <4>1
      <4> QED BY <4>2 DEF r
    <3>7. \A i \in AmbientSlots : done.g.slots[i] = "Dormant"
      <4>1. \A i \in AmbientSlots :
              done.g.slots[i] = IF i \in o.refill THEN "Active"
                                ELSE IF \E k \in Taken(o) : g.res[k].slot = i THEN "Respawning"
                                ELSE g.slots[i]
        BY DEF Commit, Taken
      <4> QED BY <3>2, <3>3, <4>1
    <3> QED BY <3>1, <3>6, <3>7 DEF PhaseSound
  <2> QED BY <2>1, <2>2, <2>3, <2>4, <2>5
<1>8. DropsSound(done.e, done.g, {}, n) /\ n \in Nat
  BY DEF DropsSound, World
<1>9. PendingPlayers(g) \subseteq PendingPlayers(done.g)
  BY <1>3, <1>4 DEF PendingPlayers
<1> QED
  BY <1>2, <1>3, <1>4, <1>5, <1>6, <1>7, <1>8, <1>9 DEF World

\* The commit refuses nothing that a tick computes.
LEMMA CommitAccepts ==
  ASSUME NEW e, NEW g, NEW d, NEW n, World(e, g, d, n), NEW t, NEW o, Outcome(o, t, g)
  PROVE  Committable(o, e, g, d)
<1>1. \A p \in Dead(o) \cup Range(o.pickups) : p \in AlivePlayers(g)
  BY DEF Outcome, Range
<1>2. \A p \in AlivePlayers(g) :
        /\ g.scores[p].life = "Alive" /\ g.scores[p].key \in Live(e)
        /\ e.comps[g.scores[p].key].kind = "Player" /\ e.comps[g.scores[p].key].player = p
  BY DEF World, ScoresSound, AlivePlayers
<1>3. \A k \in DOMAIN o.pickups \cup o.removed :
        /\ k \in DOMAIN g.res /\ k \in Live(e) /\ e.comps[k].kind = "Resource"
        /\ g.res[k].origin = "Ambient" => g.slots[g.res[k].slot] = "Active"
  BY DEF Outcome, World, ResourcesSound, AmbientSound
<1>4. \A k, l \in DOMAIN o.pickups : g.res[k].slot = g.res[l].slot /\ g.res[k].slot # 0 => k = l
  BY <1>3 DEF World, AmbientSound
<1>5. o.transition # "Started" \/ \A i \in AmbientSlots : g.slots[i] = "Dormant"
  BY DEF Outcome, World, PhaseSound
<1>6. /\ d # {} => g.phase = "Running"
      /\ \A x \in d : /\ x.player \notin Players(g) /\ x.key \notin Live(e)
                      /\ \A p \in Players(g) : g.scores[p].key # x.key
      /\ \A x, y \in d : x.key = y.key => x = y
  BY DEF World, PhaseSound, DropsSound
<1> QED
  BY <1>1, <1>2, <1>3, <1>4, <1>5, <1>6 DEF Committable

-----------------------------------------------------------------------------
(***************************************************************************)
(* The owners of the controlled entities.                                  *)
(***************************************************************************)
\* The owner map names the session of every joined entry, and nothing else.
OwnersSound(r) ==
  /\ r.owner = [k \in DOMAIN r.owner |-> r.owner[k]]
  /\ DOMAIN r.owner = {x.key : x \in JoinedSessions(r)}
  /\ \A x \in JoinedSessions(r) : r.owner[x.key] = x.session

LEMMA OwnedKeys ==
  ASSUME NEW r, Places(r), OwnersSound(r)
  PROVE  \A x, y \in JoinedSessions(r) : x.key = y.key => x = y
<1> SUFFICES ASSUME NEW x \in JoinedSessions(r), NEW y \in JoinedSessions(r), x.key = y.key
             PROVE  x = y
  OBVIOUS
<1>1. x.session = y.session
  BY DEF OwnersSound
<1> QED BY <1>1, JoinedArePlayers

LEMMA KeptOwners ==
  ASSUME NEW r, Shape(r)
  PROVE  /\ \A s : TryRegister(r, s).owner = r.owner
         /\ \A s : TryBindObserver(r, s).owner = r.owner
         /\ \A a, b : SwapDenseSessions(r, a, b).owner = r.owner /\ Shape(SwapDenseSessions(r, a, b))
<1>1. ASSUME NEW d, NEW x
      PROVE  /\ [r EXCEPT !.dense = d].owner = r.owner
             /\ [r EXCEPT !.dense = d, !.index = x].owner = r.owner
             /\ Shape([r EXCEPT !.dense = d, !.index = x])
  <2>1. /\ [r EXCEPT !.dense = d] = Table(d, r.joined, r.index, r.owner)
        /\ [r EXCEPT !.dense = d, !.index = x] = Table(d, r.joined, x, r.owner)
    BY TableUpdates
  <2> QED BY <2>1, TableShape
<1>2. ASSUME NEW s PROVE TryRegister(r, s).owner = r.owner
  <2> DEFINE d == Append(r.dense, [session |-> s, player |-> 0, key |-> NoKey, role |-> "Connected"])
             x == With(r.index, s, Len(r.dense) + 1)
  <2>1. TryRegister(r, s) = [r EXCEPT !.dense = d, !.index = x]
    BY DEF TryRegister
  <2> HIDE DEF d, x
  <2> QED BY <1>1, <2>1
<1>3. ASSUME NEW s PROVE TryBindObserver(r, s).owner = r.owner
  <2> DEFINE d == [r.dense EXCEPT ![r.index[s]] = [SessionOf(r, s) EXCEPT !.role = "Observer"]]
  <2>1. TryBindObserver(r, s) = [r EXCEPT !.dense = d]
    BY DEF TryBindObserver
  <2> HIDE DEF d
  <2> QED BY <1>1, <2>1
<1>4. ASSUME NEW a, NEW b
      PROVE  SwapDenseSessions(r, a, b).owner = r.owner /\ Shape(SwapDenseSessions(r, a, b))
  <2> DEFINE d == [r.dense EXCEPT ![a] = r.dense[b], ![b] = r.dense[a]]
             x == [r.index EXCEPT ![d[a].session] = a, ![d[b].session] = b]
  <2>1. \/ SwapDenseSessions(r, a, b) = r
        \/ SwapDenseSessions(r, a, b) = [r EXCEPT !.dense = d, !.index = x]
    BY DEF SwapDenseSessions
  <2> HIDE DEF d, x
  <2>2. [r EXCEPT !.dense = d, !.index = x].owner = r.owner /\ Shape([r EXCEPT !.dense = d, !.index = x])
    BY <1>1
  <2> QED BY <2>1, <2>2
<1> QED BY <1>2, <1>3, <1>4

LEMMA RemovedOwner ==
  ASSUME NEW r, Shape(r), NEW s
  PROVE  RemoveSession(r, s).owner
           = IF r.index[s] <= r.joined THEN Without(r.owner, r.dense[r.index[s]].key) ELSE r.owner
<1>1. ASSUME NEW q, Shape(q), NEW i PROVE RemoveDenseSessionAt(q, i).owner = q.owner
  <2> DEFINE w == SwapDenseSessions(q, i, Len(q.dense))
             x == Without(w.index, q.dense[i].session)
             d == Front(w.dense)
  <2>1. w.owner = q.owner /\ Shape(w)
    BY <1>1, KeptOwners
  <2>2. RemoveDenseSessionAt(q, i) = [w EXCEPT !.index = x, !.dense = d]
    BY DEF RemoveDenseSessionAt
  <2> HIDE DEF w, x, d
  <2>3. [w EXCEPT !.index = x, !.dense = d] = Table(d, w.joined, x, w.owner)
    BY <2>1, TableUpdates
  <2> QED BY <2>1, <2>2, <2>3, TableShape
<1>2. CASE r.index[s] <= r.joined
  <2> DEFINE o == Without(r.owner, r.dense[r.index[s]].key)
             r1 == [r EXCEPT !.owner = o]
             w == SwapDenseSessions(r1, r.index[s], r.joined)
             r2 == [w EXCEPT !.joined = r.joined - 1]
  <2>1. RemoveSession(r, s) = RemoveDenseSessionAt(r2, r.joined)
    BY <1>2 DEF RemoveSession
  <2>2. Shape(r1) /\ r1.owner = o
    <3> HIDE DEF o
    <3>1. r1 = Table(r.dense, r.joined, r.index, o)
      BY TableUpdates
    <3> HIDE DEF r1
    <3> QED BY <3>1, TableShape
  <2> HIDE DEF r1
  <2>3. Shape(w) /\ w.owner = o
    BY <2>2, KeptOwners
  <2> HIDE DEF w
  <2>4. Shape(r2) /\ r2.owner = o
    <3> DEFINE j == r.joined - 1
    <3>2. r2 = [w EXCEPT !.joined = j]
      OBVIOUS
    <3> HIDE DEF o, j, r2
    <3>1. r2 = Table(w.dense, j, w.index, w.owner)
      BY <2>3, <3>2, TableUpdates
    <3> QED BY <2>3, <3>1, TableShape
  <2> HIDE DEF r2
  <2>5. RemoveDenseSessionAt(r2, r.joined).owner = o
    BY <1>1, <2>4
  <2> QED BY <1>2, <2>1, <2>5
<1>3. CASE ~ (r.index[s] <= r.joined)
  <2>1. RemoveSession(r, s) = RemoveDenseSessionAt(r, r.index[s])
    BY <1>3 DEF RemoveSession
  <2> QED BY <1>1, <1>3, <2>1
<1> QED BY <1>2, <1>3

LEMMA EmptyOwners == OwnersSound(EmptyRegistry)
<1>1. <<>> = [k \in DOMAIN <<>> |-> <<>>[k]] /\ DOMAIN <<>> = {}
  OBVIOUS
<1> QED BY <1>1, EmptyPlaces DEF OwnersSound, EmptyRegistry

LEMMA SameOwners ==
  ASSUME NEW r, OwnersSound(r), NEW q, q.owner = r.owner, JoinedSessions(q) = JoinedSessions(r)
  PROVE  OwnersSound(q)
BY DEF OwnersSound

LEMMA BoundOwners ==
  ASSUME NEW r, Places(r), OwnersSound(r), NEW s, Bindable(r, s), NEW p \in Nat, NEW key,
         p \notin {x.player : x \in JoinedSessions(r)}, key \notin {x.key : x \in JoinedSessions(r)}
  PROVE  OwnersSound(TryBindPlayer(r, s, p, key))
<1> DEFINE q == TryBindPlayer(r, s, p, key)
           e == [session |-> s, player |-> p, key |-> key, role |-> "Player"]
<1>1. q.owner = With(r.owner, key, s)
  <2>1. q.owner = With(SwapDenseSessions(r, r.index[s], r.joined + 1).owner, key, s)
    BY DEF TryBindPlayer
  <2> QED BY <2>1, KeptOwners DEF Places
<1>2. JoinedSessions(q) = JoinedSessions(r) \cup {e}
  BY BindPlayerPlaces
<1>3. e.key = key /\ e.session = s
  OBVIOUS
<1>4. /\ DOMAIN With(r.owner, key, s) = DOMAIN r.owner \cup {key}
      /\ With(r.owner, key, s)[key] = s
      /\ \A k \in DOMAIN r.owner \ {key} : With(r.owner, key, s)[k] = r.owner[k]
      /\ With(r.owner, key, s) = [k \in DOMAIN With(r.owner, key, s) |-> With(r.owner, key, s)[k]]
  <2>1. With(r.owner, key, s) = [k \in DOMAIN With(r.owner, key, s) |-> With(r.owner, key, s)[k]]
    BY DEF With, Over
  <2>2. /\ DOMAIN With(r.owner, key, s) = DOMAIN r.owner \cup {key}
        /\ With(r.owner, key, s)[key] = s
        /\ \A k \in DOMAIN r.owner \ {key} : With(r.owner, key, s)[k] = r.owner[k]
    BY DEF With, Over
  <2> QED BY <2>1, <2>2
<1> HIDE DEF q, e
<1>5. \A x \in JoinedSessions(r) : x.key # key /\ x.key \in DOMAIN r.owner
  BY DEF OwnersSound
<1>6. OwnersSound(q)
  <2>1. DOMAIN q.owner = {x.key : x \in JoinedSessions(q)}
    BY <1>1, <1>2, <1>3, <1>4 DEF OwnersSound
  <2>2. \A x \in JoinedSessions(q) : q.owner[x.key] = x.session
    BY <1>1, <1>2, <1>3, <1>4, <1>5 DEF OwnersSound
  <2> QED BY <1>1, <1>4, <2>1, <2>2 DEF OwnersSound
<1> QED BY <1>6 DEF q

LEMMA RemovedOwners ==
  ASSUME NEW r, Places(r), OwnersSound(r), NEW s \in Registered(r)
  PROVE  OwnersSound(RemoveSession(r, s))
<1> DEFINE q == RemoveSession(r, s)
           x == SessionOf(r, s)
<1>1. /\ JoinedSessions(q) = JoinedSessions(r) \ {x}
      /\ q.owner = IF r.index[s] <= r.joined THEN Without(r.owner, x.key) ELSE r.owner
  BY RemovePlaces, RemovedOwner DEF Places, SessionOf
<1>2. /\ (r.index[s] <= r.joined) <=> (x.role = "Player")
      /\ x.role = "Player" <=> x \in JoinedSessions(r)
  BY RoleTells
<1> HIDE DEF q, x
<1>3. CASE x \in JoinedSessions(r)
  <2>1. q.owner = Without(r.owner, x.key)
    BY <1>1, <1>2, <1>3
  <2>2. \A y \in JoinedSessions(r) : y # x => y.key # x.key
    BY <1>3, OwnedKeys
  <2>3. /\ DOMAIN q.owner = DOMAIN r.owner \ {x.key}
        /\ \A k \in DOMAIN r.owner \ {x.key} : q.owner[k] = r.owner[k]
        /\ q.owner = [k \in DOMAIN q.owner |-> q.owner[k]]
    BY <2>1 DEF Without
  <2>4. DOMAIN q.owner = {y.key : y \in JoinedSessions(q)}
    BY <1>1, <1>3, <2>2, <2>3 DEF OwnersSound
  <2>5. \A y \in JoinedSessions(q) : q.owner[y.key] = y.session
    BY <1>1, <2>2, <2>3 DEF OwnersSound
  <2> QED BY <2>3, <2>4, <2>5 DEF OwnersSound, q
<1>4. CASE x \notin JoinedSessions(r)
  <2>1. q.owner = r.owner /\ JoinedSessions(q) = JoinedSessions(r)
    BY <1>1, <1>2, <1>4
  <2> QED BY <2>1, SameOwners DEF q
<1> QED BY <1>3, <1>4

LEMMA ReboundOwners ==
  ASSUME NEW r, Places(r), OwnersSound(r), NEW ps, NEW keys,
         \A p \in ps : keys[p] \notin {x.key : x \in JoinedSessions(r)},
         \A p, q \in ps : keys[p] = keys[q] => p = q
  PROVE  OwnersSound(RebindControlledEntities(r, ps, keys))
<1> DEFINE q == RebindControlledEntities(r, ps, keys)
           J == JoinedSessions(r)
           back == {x \in JoinedSessions(r) : x.player \in ps}
           kept == [k \in DOMAIN r.owner \ {x.key : x \in back} |-> r.owner[k]]
           new == [k \in {keys[x.player] : x \in back} |->
                     (CHOOSE x \in back : keys[x.player] = k).session]
           o == Over(new, kept)
<1>1. q.owner = o
  <2> DEFINE d == [i \in DOMAIN r.dense |->
                     IF r.dense[i] \in back THEN [r.dense[i] EXCEPT !.key = keys[r.dense[i].player]]
                     ELSE r.dense[i]]
  <2>1. q = [r EXCEPT !.owner = o, !.dense = d]
    BY DEF RebindControlledEntities
  <2> HIDE DEF d, o, q
  <2>2. q = Table(d, r.joined, r.index, o)
    BY <2>1, ReboundTable DEF Places
  <2> QED BY <2>2, TableShape
<1>2. /\ JoinedSessions(q) = {Respawned(x, ps, keys) : x \in J}
      /\ \A x \in J : /\ Respawned(x, ps, keys).session = x.session
                      /\ Respawned(x, ps, keys).key = IF x.player \in ps THEN keys[x.player] ELSE x.key
  BY RebindPlaces, RespawnedEntry
<1>3. \A x, y \in J : x.player = y.player => x = y
  BY JoinedArePlayers
<1>4. \A x, y \in J : x.key = y.key => x = y
  BY OwnedKeys
<1>5. \A x \in back : x \in J /\ x.player \in ps
  OBVIOUS
<1>6. \A x, y \in back : keys[x.player] = keys[y.player] => x = y
  BY <1>3, <1>5
<1>7. \A x \in back : keys[x.player] \in DOMAIN new /\ new[keys[x.player]] = x.session
  <2>1. SUFFICES ASSUME NEW x \in back
                 PROVE  (CHOOSE y \in back : keys[y.player] = keys[x.player]).session = x.session
    OBVIOUS
  <2> DEFINE c == CHOOSE y \in back : keys[y.player] = keys[x.player]
  <2>2. c \in back /\ keys[c.player] = keys[x.player]
    <3> HIDE DEF back
    <3> QED BY <2>1
  <2> HIDE DEF back, c
  <2>3. c = x
    BY <1>6, <2>1, <2>2
  <2> QED BY <2>3 DEF c
<1>8. /\ DOMAIN new = {keys[x.player] : x \in back}
      /\ DOMAIN kept = DOMAIN r.owner \ {x.key : x \in back}
      /\ \A k \in DOMAIN kept : kept[k] = r.owner[k]
  OBVIOUS
<1>9. /\ DOMAIN o = DOMAIN new \cup DOMAIN kept
      /\ \A k \in DOMAIN new : o[k] = new[k]
      /\ \A k \in DOMAIN kept : k \notin DOMAIN new => o[k] = kept[k]
      /\ o = [k \in DOMAIN o |-> o[k]]
  <2> HIDE DEF new, kept
  <2> QED BY DEF Over
<1>10. \A x \in J : x \in back \/ x.player \notin ps
  OBVIOUS
<1>11. \A x \in J : x \notin back => x.key \in DOMAIN kept /\ x.key \notin DOMAIN new
  <2>1. SUFFICES ASSUME NEW x \in J, x \notin back PROVE x.key \in DOMAIN kept /\ x.key \notin DOMAIN new
    OBVIOUS
  <2>2. x.key \in DOMAIN r.owner
    BY DEF OwnersSound
  <2> HIDE DEF back, new, kept
  <2> QED BY <1>4, <1>5, <1>8, <2>1, <2>2
<1> HIDE DEF q, back, kept, new, o
<1>12. \A x \in J : /\ Respawned(x, ps, keys).key \in DOMAIN o
                    /\ o[Respawned(x, ps, keys).key] = Respawned(x, ps, keys).session
  <2>1. SUFFICES ASSUME NEW x \in J
                 PROVE  /\ Respawned(x, ps, keys).key \in DOMAIN o
                        /\ o[Respawned(x, ps, keys).key] = Respawned(x, ps, keys).session
    OBVIOUS
  <2>2. CASE x \in back
    BY <1>2, <1>5, <1>7, <1>9, <2>2
  <2>3. CASE x \notin back
    <3>1. Respawned(x, ps, keys).key = x.key
      BY <1>2, <1>10, <2>3
    <3>2. o[x.key] = r.owner[x.key] /\ x.key \in DOMAIN o
      BY <1>8, <1>9, <1>11, <2>3
    <3> QED BY <1>2, <3>1, <3>2 DEF OwnersSound
  <2> QED BY <2>2, <2>3
<1>13. \A k \in DOMAIN o : \E x \in J : k = Respawned(x, ps, keys).key
  <2>1. SUFFICES ASSUME NEW k \in DOMAIN o PROVE \E x \in J : k = Respawned(x, ps, keys).key
    OBVIOUS
  <2>2. CASE k \in DOMAIN new
    <3>1. PICK x \in back : k = keys[x.player]
      BY <1>8, <2>2
    <3> QED BY <1>2, <1>5, <3>1
  <2>3. CASE k \in DOMAIN kept
    <3>1. k \in DOMAIN r.owner /\ \A x \in back : x.key # k
      BY <1>8, <2>3
    <3>2. PICK x \in J : x.key = k
      BY <3>1 DEF OwnersSound
    <3> QED BY <1>2, <1>10, <3>1, <3>2
  <2> QED BY <1>9, <2>2, <2>3
<1>14. DOMAIN q.owner = {x.key : x \in JoinedSessions(q)}
  <2>1. \A k \in DOMAIN o : \E y \in JoinedSessions(q) : k = y.key
    BY <1>2, <1>13
  <2>2. \A y \in JoinedSessions(q) : y.key \in DOMAIN o
    BY <1>2, <1>12
  <2>3. DOMAIN o = {x.key : x \in JoinedSessions(q)}
    <3> DEFINE D == DOMAIN o
               T == JoinedSessions(q)
    <3>1. (\A k \in D : \E y \in T : k = y.key) /\ \A y \in T : y.key \in D
      BY <2>1, <2>2
    <3> HIDE DEF D, T
    <3>2. D = {x.key : x \in T}
      BY <3>1
    <3> QED BY <3>2 DEF D, T
  <2> QED BY <1>1, <2>3
<1>15. \A x \in JoinedSessions(q) : q.owner[x.key] = x.session
  BY <1>1, <1>2, <1>12
<1> QED BY <1>1, <1>9, <1>14, <1>15 DEF OwnersSound, q

-----------------------------------------------------------------------------
(***************************************************************************)
(* The second inductive invariant: beside the agreement of the tables, the *)
(* entities, scores, resources and drops are one world, every controlled   *)
(* entity has its owner, and batch and round keep time.                    *)
(***************************************************************************)
Causes == {"no", "capacity", "observer"}

Typed ==
  /\ pc \in {"Idle", "Drain", "Tick", "Record", "Stopped"}
  /\ tick \in 1 .. MaxTick + 1
  /\ pc \in {"Drain", "Tick", "Record"} => tick <= MaxTick
  /\ nextPlayer \in 1 .. MaxPlayerId + 1
  /\ initial \subseteq Sessions
  /\ failed \in Causes /\ stop \in Causes

\* A round ends at a tick that is not yet past, and never lasts too long.
Clock(p, t, g) ==
  g.phase = "Running" =>
    /\ g.ends \in Nat /\ g.ends <= t + RoundDuration /\ t <= g.ends
    /\ p = "Record" => t < g.ends

\* What is left to record is for sessions that can hear it.
Heard(p, w, b, c) ==
  /\ p # "Record" => w = {} /\ b.to = {}
  /\ p = "Record" => {x.session : x \in w} \cup b.to \subseteq c

AreaKnown == pc = "Record" \/ game.phase = "Ended" => area

Control ==
  /\ Typed
  /\ Clock(pc, tick, game)
  /\ Heard(pc, spawned, bcast, channels)
  /\ AreaKnown

WorldNow == World(ent, game, drops, nextPlayer)

Whole == WorldNow /\ OwnersSound(reg) /\ Control

LEMMA Constants ==
  /\ MaxTick \in Nat \ {0} /\ MaxPlayerId \in Nat \ {0} /\ RoundDuration \in Nat \ {0}
BY SimulationAssumption, GameplayAssumption

LEMMA InitialWhole == Init => Whole
<1> SUFFICES ASSUME Init PROVE Whole
  OBVIOUS
<1>1. WorldNow
  BY InitialWorld DEF Init, WorldNow
<1>2. OwnersSound(reg)
  BY EmptyOwners DEF Init
<1>3. Typed
  BY Constants DEF Init, Typed, Causes
<1>4. game.phase = "Waiting"
  BY DEF Init, InitialGameplay
<1>5. Heard(pc, spawned, bcast, channels)
  BY DEF Init, Heard, NoBroadcast
<1> QED BY <1>1, <1>2, <1>3, <1>4, <1>5 DEF Whole, Control, Clock, AreaKnown, Init

\* The steps that leave the world to itself.
LEMMA WorldUntouched ==
  ASSUME Whole, UNCHANGED <<ent, game, drops, nextPlayer, reg>>, Control'
  PROVE  Whole'
BY DEF Whole, WorldNow

LEMMA ResetPhase ==
  ASSUME NEW e, NEW g, GameShape(g), NEW b, b = ResetEndedRoundIfEmpty(e, g)
  PROVE  /\ b.g.phase = "Ended" => b.g = g /\ ~ ResetNeeded(g)
         /\ b.g.phase = "Running" => b.g = g
<1>1. CASE ResetNeeded(g)
  <2>1. b.g.phase = "Waiting"
    BY <1>1, ResetGame
  <2> QED BY <2>1
<1>2. CASE ~ ResetNeeded(g)
  <2>1. b.g = g
    BY <1>2, ResetGame
  <2> QED BY <1>2, <2>1
<1> QED BY <1>1, <1>2

LEMMA AcceptedKeeps ==
  ASSUME WInv, Whole, NEW s \in Sessions, HandleSessionAccepted(s)
  PROVE  Whole'
<1>1. /\ reg' = TryRegister(reg, s) /\ channels' = channels \cup {s}
      /\ s \in Sessions \ Registered(reg) /\ pc = "Drain"
      /\ UNCHANGED <<pc, tick, initial, ent, game, drops, spawned, bcast, area, failed, nextPlayer, stop>>
  BY DEF HandleSessionAccepted, worldVars, outVars
<1>2. OwnersSound(reg')
  <2>1. JoinedSessions(reg') = JoinedSessions(reg)
    BY <1>1, RegisterPlaces DEF WInv, Agree
  <2>2. reg'.owner = reg.owner
    BY <1>1, KeptOwners DEF WInv, Agree, Places
  <2> QED BY <2>1, <2>2, SameOwners DEF Whole
<1>3. Control'
  BY <1>1 DEF Whole, Control, Typed, Clock, Heard, AreaKnown
<1> QED BY <1>1, <1>2, <1>3 DEF Whole, WorldNow

LEMMA ClosedWorld ==
  ASSUME WInv, Whole, NEW s \in Registered(reg), NEW left,
         SessionOf(reg, s).role = "Player" => left = LeaveWorld(SessionOf(reg, s)),
         SessionOf(reg, s).role # "Player" => left = [e |-> ent, g |-> game, drops |-> drops]
  PROVE  /\ World(left.e, left.g, left.drops, nextPlayer)
         /\ left.g.phase = game.phase /\ left.g.ends = game.ends
<1> DEFINE x == SessionOf(reg, s)
<1>1. CASE x.role = "Player"
  <2> DEFINE p == x.player
             alive == game.scores[p].life = "Alive"
  <2>1. x \in JoinedSessions(reg)
    BY <1>1, RoleTells DEF WInv, Agree
  <2> HIDE DEF x
  <2>2. p \in Players(game) /\ game.scores[p].key = x.key
    BY <2>1 DEF WInv, Agree, PlayersMatch
  <2>3. /\ left.e = IF alive THEN RemoveEntity(ent, x.key) ELSE ent
        /\ left.g = RemovePlayer(game, p)
        /\ left.drops = IF alive /\ game.phase = "Running"
                        THEN drops \cup {[player |-> p, key |-> x.key, growth |-> game.scores[p].score]}
                        ELSE drops
    BY <1>1 DEF LeaveWorld, x
  <2>4. GameShape(game)
    BY DEF WInv, Agree
  <2> HIDE DEF p
  <2>5. left.g.phase = game.phase /\ left.g.ends = game.ends
    BY <2>3, <2>4, RemovedScores DEF SameRound
  <2>6. \/ left.drops = drops
        \/ /\ alive /\ game.phase = "Running"
           /\ \E z : left.drops = drops \cup {z} /\ z.player = p /\ z.key = game.scores[p].key
    <3>1. CASE alive /\ game.phase = "Running"
      <4> DEFINE z == [player |-> p, key |-> x.key, growth |-> game.scores[p].score]
      <4>1. left.drops = drops \cup {z} /\ z.player = p /\ z.key = game.scores[p].key
        BY <2>2, <2>3, <3>1
      <4> HIDE DEF z
      <4> QED BY <3>1, <4>1
    <3>2. CASE ~ (alive /\ game.phase = "Running")
      BY <2>3, <3>2
    <3> QED BY <3>1, <3>2
  <2>7. left.e = IF game.scores[p].life = "Alive" THEN RemoveEntity(ent, game.scores[p].key) ELSE ent
    BY <2>2, <2>3
  <2>8. World(left.e, left.g, left.drops, nextPlayer)
    <3>1. World(ent, game, drops, nextPlayer) /\ p \in Players(game) /\ left.g = RemovePlayer(game, p)
      BY <2>2, <2>3 DEF Whole, WorldNow
    <3>2. \/ left.drops = drops
          \/ /\ game.scores[p].life = "Alive" /\ game.phase = "Running"
             /\ \E z : left.drops = drops \cup {z} /\ z.player = p /\ z.key = game.scores[p].key
      BY <2>6
    <3> DEFINE f == left.e
               h == left.g
               D == left.drops
    <3>3. /\ f = IF game.scores[p].life = "Alive" THEN RemoveEntity(ent, game.scores[p].key) ELSE ent
          /\ h = RemovePlayer(game, p)
          /\ \/ D = drops
             \/ /\ game.scores[p].life = "Alive" /\ game.phase = "Running"
                /\ \E z : D = drops \cup {z} /\ z.player = p /\ z.key = game.scores[p].key
      BY <2>7, <3>1, <3>2
    <3> HIDE DEF f, h, D
    <3>4. World(f, h, D, nextPlayer)
      BY ONLY <3>1, <3>3, LeftWorld
    <3> QED BY <3>4 DEF f, h, D
  <2> QED BY <2>5, <2>8
<1>2. CASE x.role # "Player"
  BY <1>2 DEF Whole, WorldNow
<1> QED BY <1>1, <1>2

LEMMA ClosedKeeps ==
  ASSUME WInv, Whole, NEW s \in Sessions, HandleSessionClosed(s)
  PROVE  Whole'
<1> DEFINE left == IF SessionOf(reg, s).role = "Player" THEN LeaveWorld(SessionOf(reg, s))
                   ELSE [e |-> ent, g |-> game, drops |-> drops]
           after == ResetEndedRoundIfEmpty(left.e, left.g)
<1>1. /\ s \in Registered(reg) /\ pc = "Drain"
      /\ ent' = after.e /\ game' = after.g /\ drops' = left.drops /\ reg' = RemoveSession(reg, s)
      /\ area' = (area /\ ~ResetNeeded(left.g)) /\ initial' = initial \ {s}
      /\ UNCHANGED <<pc, tick, spawned, bcast, nextPlayer, failed, stop>>
  BY DEF HandleSessionClosed
<1>2. /\ SessionOf(reg, s).role = "Player" => left = LeaveWorld(SessionOf(reg, s))
      /\ SessionOf(reg, s).role # "Player" => left = [e |-> ent, g |-> game, drops |-> drops]
  OBVIOUS
<1> HIDE DEF left
<1>3. /\ World(left.e, left.g, left.drops, nextPlayer)
      /\ left.g.phase = game.phase /\ left.g.ends = game.ends
  BY <1>1, <1>2, ClosedWorld
<1>4. World(after.e, after.g, left.drops, nextPlayer)
  <2> HIDE DEF after
  <2> QED BY <1>3, ResetWorld DEF after
<1>5. /\ after.g.phase = "Ended" => after.g = left.g /\ ~ ResetNeeded(left.g)
      /\ after.g.phase = "Running" => after.g = left.g
  <2>1. GameShape(left.g)
    BY <1>3 DEF World
  <2> HIDE DEF after
  <2> QED BY <2>1, ResetPhase DEF after
<1> HIDE DEF after
<1>6. OwnersSound(reg')
  BY <1>1, RemovedOwners DEF WInv, Agree, Whole
<1>7. Control'
  BY <1>1, <1>3, <1>5 DEF Whole, Control, Typed, Clock, Heard, AreaKnown
<1> QED BY <1>1, <1>4, <1>6, <1>7 DEF Whole, WorldNow

LEMMA ObserveKeeps ==
  ASSUME WInv, Whole, NEW s \in Sessions, HandleObserve(s)
  PROVE  Whole'
<1> DEFINE base == ResetEndedRoundIfEmpty(ent, game)
<1>1. /\ s \in Registered(reg) /\ pc = "Drain"
      /\ UNCHANGED <<pc, tick, channels, initial, drops, spawned, bcast, nextPlayer, stop>>
      /\ failed' \in {failed, "observer"}
  BY DEF HandleObserve, Head1, WInv, Agree
<1>2. \/ UNCHANGED <<ent, game, area, reg>>
      \/ /\ ent' = base.e /\ game' = base.g /\ area' = (area /\ ~ResetNeeded(game))
         /\ \/ reg' = reg
            \/ SessionOf(reg, s).role = "Connected" /\ reg' = TryBindObserver(reg, s)
  BY DEF HandleObserve
<1>3. CASE UNCHANGED <<ent, game, area, reg>>
  <2>1. Control'
    BY <1>1, <1>3 DEF Whole, Control, Typed, Clock, Heard, AreaKnown, Causes
  <2> QED BY <1>1, <1>3, <2>1, WorldUntouched
<1>4. CASE /\ ent' = base.e /\ game' = base.g /\ area' = (area /\ ~ResetNeeded(game))
           /\ \/ reg' = reg
              \/ SessionOf(reg, s).role = "Connected" /\ reg' = TryBindObserver(reg, s)
  <2>1. OwnersSound(reg')
    <3>1. CASE reg' = reg
      BY <3>1 DEF Whole
    <3>2. CASE SessionOf(reg, s).role = "Connected" /\ reg' = TryBindObserver(reg, s)
      <4>1. JoinedSessions(reg') = JoinedSessions(reg)
        BY <1>1, <3>2, BindObserverPlaces DEF WInv, Agree
      <4>2. reg'.owner = reg.owner
        BY <3>2, KeptOwners DEF WInv, Agree, Places
      <4> QED BY <4>1, <4>2, SameOwners DEF Whole
    <3> QED BY <1>4, <3>1, <3>2
  <2> HIDE DEF base
  <2>2. World(base.e, base.g, drops, nextPlayer)
    BY ResetWorld DEF base, Whole, WorldNow
  <2>3. /\ base.g.phase = "Ended" => base.g = game /\ ~ ResetNeeded(game)
        /\ base.g.phase = "Running" => base.g = game
    BY ResetPhase DEF base, WInv, Agree
  <2>4. Control'
    BY <1>1, <1>4, <2>3 DEF Whole, Control, Typed, Clock, Heard, AreaKnown, Causes
  <2> QED BY <1>1, <1>4, <2>1, <2>2, <2>4 DEF Whole, WorldNow
<1> QED BY <1>2, <1>3, <1>4

\* The world in which a join finds itself: base after the reset, e1 and g1 with
\* the new player.
JoinBase(base, key, e1, g1) ==
  /\ base = ResetEndedRoundIfEmpty(ent, game)
  /\ key = NextKey(base.e)
  /\ e1 = TryCreate(base.e, PlayerEntity(nextPlayer))
  /\ g1 = TryRegisterPlayer(base.g, nextPlayer, key)

\* What is known of it.
JoinWorld(base, key, e1, g1) ==
  /\ World(base.e, base.g, drops, nextPlayer)
  /\ base.g.phase = "Ended" => base.g = game /\ ~ ResetNeeded(game)
  /\ base.g.phase = "Running" => base.g = game
  /\ PlayersMatch(reg, base.g)
  /\ World(e1, g1, drops, nextPlayer + 1)
  /\ Grown(base.e, e1, {key})
  /\ nextPlayer \notin Players(base.g) /\ Players(g1) = Players(base.g) \cup {nextPlayer}
  /\ GameShape(g1) /\ SameRound(base.g, g1)
  /\ \A q \in Players(base.g) : g1.scores[q] = base.g.scores[q] /\ base.g.scores[q].key # key
  /\ g1.scores[nextPlayer].key = key /\ g1.scores[nextPlayer].life = "Alive"

LEMMA JoinKnown ==
  ASSUME WInv, Whole, NEW base, NEW key, NEW e1, NEW g1, JoinBase(base, key, e1, g1)
  PROVE  JoinWorld(base, key, e1, g1)
<1>1. World(base.e, base.g, drops, nextPlayer)
  BY ResetWorld DEF JoinBase, Whole, WorldNow
<1>2. /\ base.g.phase = "Ended" => base.g = game /\ ~ ResetNeeded(game)
      /\ base.g.phase = "Running" => base.g = game
  BY ResetPhase DEF JoinBase, WInv, Agree
<1>3. PlayersMatch(reg, base.g)
  <2>1. Agree(reg, channels, aoi, base.g, drops, nextPlayer)
    BY ResetAgreement DEF JoinBase, WInv
  <2> QED BY <2>1 DEF Agree
<1>4. /\ World(e1, g1, drops, nextPlayer + 1)
      /\ Grown(base.e, e1, {key})
      /\ nextPlayer \notin Players(base.g) /\ Players(g1) = Players(base.g) \cup {nextPlayer}
      /\ GameShape(g1) /\ SameRound(base.g, g1)
      /\ \A q \in Players(base.g) : g1.scores[q] = base.g.scores[q] /\ base.g.scores[q].key # key
      /\ g1.scores[nextPlayer].key = key /\ g1.scores[nextPlayer].life = "Alive"
  BY <1>1, JoinedWorld DEF JoinBase
<1> QED BY <1>1, <1>2, <1>3, <1>4 DEF JoinWorld

\* The baseline of a join that is not refused can always be built and its entity
\* bound: every player in sight has its session, and the key is nobody's.
LEMMA JoinFits ==
  ASSUME WInv, Whole, NEW s \in Registered(reg), SessionOf(reg, s).role = "Connected",
         NEW base, NEW key, NEW e1, NEW g1, JoinWorld(base, key, e1, g1),
         base.g.phase # "Ended", NEW seen \in SUBSET (Live(e1) \ {key})
  PROVE  /\ \A k \in seen : e1.comps[k].kind = "Player" =>
              k \in {key} \cup {x.key : x \in JoinedSessions(reg)}
         /\ StateBuildable(seen, e1, g1) /\ BaselineBuildable(g1)
         /\ CanBindPlayer(reg, s, key) /\ key \notin {x.key : x \in JoinedSessions(reg)}
<1>1. ASSUME NEW k \in seen, e1.comps[k].kind = "Player"
      PROVE  /\ e1.comps[k].player \in AlivePlayers(g1) /\ g1.scores[e1.comps[k].player].key = k
  <2>1. k \in Live(e1) /\ World(e1, g1, drops, nextPlayer + 1)
    BY DEF JoinWorld
  <2> QED BY <1>1, <2>1, EntityOfPlayer
<1>2. ASSUME NEW k \in seen, e1.comps[k].kind = "Player"
      PROVE  k \in {x.key : x \in JoinedSessions(reg)}
  <2> DEFINE q == e1.comps[k].player
  <2>1. q \in Players(g1) /\ g1.scores[q].key = k /\ k # key
    BY <1>1, <1>2 DEF AlivePlayers
  <2> HIDE DEF q
  <2>2. q \in Players(base.g) /\ base.g.scores[q].key = k
    BY <2>1 DEF JoinWorld
  <2>3. PICK x \in JoinedSessions(reg) : x.player = q
    BY <2>2 DEF JoinWorld, PlayersMatch
  <2>4. x.key = k
    BY <2>2, <2>3 DEF JoinWorld, PlayersMatch
  <2> QED BY <2>4
<1>3. StateBuildable(seen, e1, g1)
  BY <1>1 DEF StateBuildable
<1>4. BaselineBuildable(g1)
  BY DEF BaselineBuildable, JoinWorld, SameRound
<1>5. key \notin {x.key : x \in JoinedSessions(reg)}
  BY DEF JoinWorld, PlayersMatch
<1>6. Bindable(reg, s)
  <2>1. /\ reg.index[s] \in 1 .. Len(reg.dense)
        /\ (reg.index[s] <= reg.joined) <=> (SessionOf(reg, s).role = "Player")
    BY RoleTells DEF WInv, Agree
  <2>2. reg.joined \in Nat
    BY DEF WInv, Agree, Places, Indexed
  <2> QED BY <2>1, <2>2 DEF Bindable
<1> QED BY <1>2, <1>3, <1>4, <1>5, <1>6 DEF CanBindPlayer, Whole, OwnersSound

LEMMA JoinKeeps ==
  ASSUME WInv, Whole, NEW s \in Sessions, HandleJoin(s)
  PROVE  Whole'
<1> DEFINE base == ResetEndedRoundIfEmpty(ent, game)
           p == nextPlayer
           key == NextKey(base.e)
           e1 == TryCreate(base.e, PlayerEntity(p))
           g1 == TryRegisterPlayer(base.g, p, key)
           refused == \/ base.g.phase = "Ended" \/ nextPlayer > MaxPlayerId
                      \/ SessionOf(reg, s).role # "Connected"
           fits(seen) == /\ \A k \in seen : e1.comps[k].kind = "Player" =>
                              k \in {key} \cup {x.key : x \in JoinedSessions(reg)}
                         /\ StateBuildable(seen, e1, g1) /\ BaselineBuildable(g1)
                         /\ CanBindPlayer(reg, s, key)
<1>1. /\ s \in Registered(reg) /\ pc = "Drain" /\ area' = (area /\ ~ResetNeeded(game))
      /\ UNCHANGED <<pc, tick, channels, drops, spawned, bcast, stop>>
  BY DEF HandleJoin, Head1, WInv, Agree
<1>2. \/ /\ refused
         /\ ent' = base.e /\ game' = base.g
         /\ UNCHANGED <<reg, initial, failed, nextPlayer>>
      \/ /\ ~refused
         /\ \/ RollbackPreparedJoin(s, e1, base.g, p, key)
            \/ RollbackPreparedJoin(s, e1, g1, p, key)
         /\ failed' \in {failed, "capacity"}
      \/ /\ ~refused
         /\ \E seen \in SUBSET (Live(e1) \ {key}) :
              IF fits(seen)
              THEN /\ ent' = e1 /\ game' = g1
                   /\ reg' = TryBindPlayer(reg, s, p, key)
                   /\ nextPlayer' = nextPlayer + 1
                   /\ initial' = initial \cup {s}
                   /\ UNCHANGED failed
              ELSE TRUE
  BY DEF HandleJoin
<1>3. JoinBase(base, key, e1, g1)
  BY DEF JoinBase
<1> HIDE DEF base, key, e1, g1
<1>4. JoinWorld(base, key, e1, g1)
  BY <1>3, JoinKnown
<1>5. ~refused => ~(base.g.phase = "Ended" \/ nextPlayer > MaxPlayerId) /\ SessionOf(reg, s).role = "Connected"
  OBVIOUS
<1>6. CASE /\ refused
           /\ ent' = base.e /\ game' = base.g
           /\ UNCHANGED <<reg, initial, failed, nextPlayer>>
  <2>1. Control'
    BY <1>1, <1>4, <1>6 DEF Whole, Control, Typed, Clock, Heard, AreaKnown, JoinWorld
  <2>2. WorldNow'
    BY <1>1, <1>4, <1>6 DEF WorldNow, JoinWorld
  <2> QED BY <1>6, <2>1, <2>2 DEF Whole
<1> HIDE DEF refused
<1>7. ASSUME NEW h, ~refused, SameScores(base.g, h), game' = h, ent' = RemoveEntity(e1, key),
             UNCHANGED <<reg, initial, nextPlayer>>, failed' \in {failed, "capacity"}
      PROVE  Whole'
  <2>1. World(ent', h, drops, nextPlayer)
    BY <1>4, <1>7, RolledBackWorld DEF JoinWorld
  <2>2. WorldNow'
    BY <1>1, <1>7, <2>1 DEF WorldNow
  <2>3. Control'
    BY <1>1, <1>4, <1>5, <1>7 DEF Whole, Control, Typed, Clock, Heard, AreaKnown, JoinWorld, Causes,
         SameScores, SameRound
  <2> QED BY <1>7, <2>2, <2>3 DEF Whole
<1>8. CASE /\ ~refused
           /\ RollbackPreparedJoin(s, e1, base.g, p, key)
           /\ failed' \in {failed, "capacity"}
  <2>1. SameScores(base.g, base.g)
    BY <1>4, SameScoresItself DEF JoinWorld, World
  <2>2. game' = base.g /\ ent' = RemoveEntity(e1, key) /\ UNCHANGED <<reg, initial, nextPlayer>>
    BY <1>4, <1>8 DEF RollbackPreparedJoin, JoinWorld
  <2> QED BY <1>7, <1>8, <2>1, <2>2
<1>9. CASE /\ ~refused
           /\ RollbackPreparedJoin(s, e1, g1, p, key)
           /\ failed' \in {failed, "capacity"}
  <2>1. game' = RemovePlayer(g1, p) /\ ent' = RemoveEntity(e1, key) /\ UNCHANGED <<reg, initial, nextPlayer>>
    BY <1>4, <1>9 DEF RollbackPreparedJoin, JoinWorld
  <2> HIDE DEF p
  <2>2. /\ GameShape(game') /\ SameRound(g1, game')
        /\ Players(game') = Players(g1) \ {p}
        /\ \A q \in Players(g1) \ {p} : game'.scores[q] = g1.scores[q]
    BY <1>4, <2>1, RemovedScores DEF JoinWorld
  <2>3. SameScores(base.g, game')
    <3>1. SameRound(base.g, game')
      BY <1>4, <2>2 DEF JoinWorld, SameRound
    <3>2. Players(game') = Players(base.g) /\ \A q \in Players(base.g) : game'.scores[q] = base.g.scores[q]
      BY <1>4, <2>2 DEF JoinWorld, p
    <3> QED BY <2>2, <3>1, <3>2 DEF SameScores
  <2> QED BY <1>7, <1>9, <2>1, <2>3
<1>10. CASE /\ ~refused
            /\ \E seen \in SUBSET (Live(e1) \ {key}) :
                 IF fits(seen)
                 THEN /\ ent' = e1 /\ game' = g1
                      /\ reg' = TryBindPlayer(reg, s, p, key)
                      /\ nextPlayer' = nextPlayer + 1
                      /\ initial' = initial \cup {s}
                      /\ UNCHANGED failed
                 ELSE TRUE
  <2>1. PICK seen \in SUBSET (Live(e1) \ {key}) :
          IF fits(seen)
          THEN /\ ent' = e1 /\ game' = g1
               /\ reg' = TryBindPlayer(reg, s, p, key)
               /\ nextPlayer' = nextPlayer + 1
               /\ initial' = initial \cup {s}
               /\ UNCHANGED failed
          ELSE TRUE
    BY <1>10
  <2>2. fits(seen) /\ key \notin {x.key : x \in JoinedSessions(reg)}
    BY <1>1, <1>4, <1>5, <1>10, JoinFits
  <2> HIDE DEF fits
  <2>3. /\ ent' = e1 /\ game' = g1
        /\ reg' = TryBindPlayer(reg, s, p, key)
        /\ nextPlayer' = nextPlayer + 1
        /\ initial' = initial \cup {s}
        /\ UNCHANGED failed
    BY <2>1, <2>2
  <2>4. WorldNow'
    BY <1>1, <1>4, <2>3 DEF WorldNow, JoinWorld
  <2>5. OwnersSound(reg')
    <3>1. CanBindPlayer(reg, s, key)
      BY <2>2 DEF fits
    <3>2. p \in Nat /\ p \notin {x.player : x \in JoinedSessions(reg)}
      BY <1>4 DEF JoinWorld, PlayersMatch, WInv, Agree
    <3> HIDE DEF p
    <3> QED BY <2>2, <2>3, <3>1, <3>2, BoundOwners DEF WInv, Agree, Whole, CanBindPlayer
  <2>6. Control'
    <3>1. nextPlayer' \in 1 .. MaxPlayerId + 1
      BY <1>5, <1>10, <2>3, Constants DEF Whole, Control, Typed
    <3> QED BY <1>1, <1>4, <1>5, <1>10, <2>3, <3>1 DEF Whole, Control, Typed, Clock, Heard, AreaKnown, JoinWorld, SameRound
  <2> QED BY <2>4, <2>5, <2>6 DEF Whole
<1> QED BY <1>2, <1>6, <1>8, <1>9, <1>10

\* A control command leaves its sequence at the entity, and nothing else.
LEMMA Sequenced ==
  ASSUME NEW e, Sound(e), NEW key \in Live(e), NEW v, NEW f, f = [e EXCEPT !.comps[key].seq = v]
  PROVE  SameEntities(e, f)
<1> DEFINE c == [kind |-> e.comps[key].kind, player |-> e.comps[key].player, seq |-> v]
           cs == [k \in DOMAIN e.comps |-> IF k = key THEN c ELSE e.comps[k]]
           r == [slots |-> e.slots, free |-> e.free, comps |-> cs]
<1>1. c.kind = e.comps[key].kind /\ c.player = e.comps[key].player /\ IsComponent(c)
  BY DEF IsComponent
<1>2. [e.comps[key] EXCEPT !.seq = v] = c
  <2>1. e.comps[key] = [kind |-> e.comps[key].kind, player |-> e.comps[key].player, seq |-> e.comps[key].seq]
    BY DEF Sound, CompsSound, IsComponent, Live
  <2> QED BY <2>1
<1> HIDE DEF c
<1>3. [e.comps EXCEPT ![key] = [e.comps[key] EXCEPT !.seq = v]] = cs
  BY <1>2 DEF Sound, CompsSound, Live
<1>4. /\ DOMAIN cs = DOMAIN e.comps /\ cs = [k \in DOMAIN cs |-> cs[k]]
      /\ \A k \in DOMAIN cs : /\ IsComponent(cs[k])
                              /\ cs[k].kind = e.comps[k].kind /\ cs[k].player = e.comps[k].player
  BY <1>1 DEF Sound, CompsSound
<1> HIDE DEF cs
<1>5. f = r
  <2>1. e = [slots |-> e.slots, free |-> e.free, comps |-> e.comps]
    BY DEF Sound, EntityShape
  <2>2. f = [e EXCEPT !.comps = cs]
    BY <1>3
  <2> QED BY <2>1, <2>2
<1>6. r.slots = e.slots /\ r.free = e.free /\ r.comps = cs /\ EntityShape(r)
  BY DEF EntityShape
<1> HIDE DEF r
<1>7. Live(f) = Live(e) /\ f.slots = e.slots /\ f.free = e.free /\ f.comps = cs /\ EntityShape(f)
  BY <1>4, <1>5, <1>6 DEF Live
<1>8. Sound(f)
  BY <1>4, <1>7 DEF Sound, CompsSound
<1> QED BY <1>4, <1>7, <1>8 DEF SameEntities, Issued, Live

LEMMA ControlKeeps ==
  ASSUME WInv, Whole, NEW s \in Sessions, HandleControl(s)
  PROVE  Whole'
<1>1. UNCHANGED <<pc, tick, channels, initial, reg, game, drops, spawned, bcast, area, failed, nextPlayer, stop>>
  BY DEF HandleControl, sessionVars, outVars
<1>2. \/ ent' = ent
      \/ \E key \in Live(ent) : \E v : ent' = [ent EXCEPT !.comps[key].seq = v]
  BY DEF HandleControl
<1>3. Control'
  BY <1>1 DEF Whole, Control, Typed, Clock, Heard, AreaKnown
<1>4. WorldNow'
  <2>1. CASE ent' = ent
    BY <1>1, <2>1 DEF Whole, WorldNow
  <2>2. CASE \E key \in Live(ent) : \E v : ent' = [ent EXCEPT !.comps[key].seq = v]
    <3>1. SameEntities(ent, ent')
      BY <2>2, Sequenced DEF Whole, WorldNow, World
    <3>2. SameScores(game, game)
      BY SameScoresItself DEF WInv, Agree
    <3> QED BY <1>1, <3>1, <3>2, SameWorld DEF Whole, WorldNow
  <2> QED BY <1>2, <2>1, <2>2
<1> QED BY <1>1, <1>3, <1>4 DEF Whole

LEMMA OthersKeep ==
  ASSUME Whole,
         \/ BeginBatch
         \/ \E s \in Sessions : ClientControl(s) \/ HandleTimeSync(s) \/ HandleMalformed(s)
         \/ UNCHANGED vars
  PROVE  Whole'
<1>1. UNCHANGED <<ent, game, drops, nextPlayer, reg>>
  BY DEF BeginBatch, ClientControl, HandleTimeSync, HandleMalformed, vars, sessionVars, worldVars
<1>2. Control'
  <2>1. CASE BeginBatch
    <3>1. /\ pc = "Idle" /\ tick <= MaxTick /\ pc' = "Drain" /\ initial' = {}
          /\ UNCHANGED <<tick, channels, ent, game, drops, spawned, bcast, area, failed, nextPlayer, stop>>
      BY <2>1 DEF BeginBatch, worldVars, outVars
    <3> QED BY <3>1 DEF Whole, Control, Typed, Clock, Heard, AreaKnown
  <2>2. CASE \/ \E s \in Sessions : ClientControl(s) \/ HandleTimeSync(s) \/ HandleMalformed(s)
             \/ UNCHANGED vars
    <3>1. UNCHANGED <<pc, tick, channels, initial, game, spawned, bcast, area, failed, nextPlayer, stop>>
      BY <2>2 DEF ClientControl, HandleTimeSync, HandleMalformed, vars, sessionVars, worldVars, outVars
    <3> QED BY <3>1 DEF Whole, Control, Typed, Clock, Heard, AreaKnown
  <2> QED BY <2>1, <2>2
<1> QED BY <1>1, <1>2, WorldUntouched

\* A tick finds sessions and round as it needs them.
LEMMA TickIsValid == WInv /\ Whole => TickValid
<1> SUFFICES ASSUME WInv, Whole PROVE TickValid
  OBVIOUS
<1>1. \A x \in JoinedSessions(reg) : x.player \in Players(game) /\ game.scores[x.player].key = x.key
  BY DEF WInv, Agree, PlayersMatch
<1>2. game.phase = "Running" => tick + RoundDuration >= game.ends /\ tick <= game.ends
  <2>1. tick \in Nat
    BY Constants DEF Whole, Control, Typed
  <2> QED BY <2>1, Constants DEF Whole, Control, Clock
<1> QED BY <1>1, <1>2 DEF TickValid

\* Its outcome can be committed, whoever waits can respawn, and every player that
\* is alive has its entity.
LEMMA TickAccepts ==
  ASSUME WInv, Whole, game.phase # "Ended",
         NEW o \in Outcomes(tick, game, drops), NEW ps \in SUBSET PendingPlayers(game),
         NEW done, done = Commit(tick, o, ent, game)
  PROVE  /\ Outcome(o, tick, game)
         /\ World(done.e, done.g, {}, nextPlayer) /\ ps \in SUBSET PendingPlayers(done.g)
         /\ Committable(o, ent, game, drops)
         /\ Respawnable(ps, done.e, done.g)
         /\ BodiesFinalized(done.e, done.g)
<1>1. Outcome(o, tick, game)
  BY OutcomeOfWorld DEF Whole, WorldNow
<1>2. World(done.e, done.g, {}, nextPlayer) /\ PendingPlayers(game) \subseteq PendingPlayers(done.g)
  BY <1>1, CommitWorld DEF Whole, WorldNow
<1>3. Committable(o, ent, game, drops)
  BY <1>1, CommitAccepts DEF Whole, WorldNow
<1>4. /\ Players(done.g) = Players(game)
      /\ \A p \in Players(game) : done.g.scores[p].key = game.scores[p].key
  BY CommittedGame DEF WInv, Agree
<1>5. Respawnable(ps, done.e, done.g)
  <2>1. SUFFICES ASSUME NEW p \in ps
                 PROVE  /\ done.g.scores[p].life = "SpawnPending" /\ done.g.scores[p].score = 0
                        /\ done.g.scores[p].key \notin Live(done.e)
                        /\ \E x \in JoinedSessions(reg) : x.player = p /\ x.key = done.g.scores[p].key
    BY DEF Respawnable
  <2>2. p \in Players(done.g) /\ done.g.scores[p].life = "SpawnPending"
    BY <1>2 DEF PendingPlayers
  <2>3. done.g.scores[p].score = 0 /\ done.g.scores[p].key \notin Live(done.e)
    BY <1>2, <2>2 DEF World, ScoresSound
  <2>4. \E x \in JoinedSessions(reg) : x.player = p /\ x.key = done.g.scores[p].key
    BY <1>4, <2>2 DEF WInv, Agree, PlayersMatch
  <2> QED BY <2>2, <2>3, <2>4
<1>6. BodiesFinalized(done.e, done.g)
  BY <1>2 DEF BodiesFinalized, World, ScoresSound, AlivePlayers
<1> QED BY <1>1, <1>2, <1>3, <1>5, <1>6

LEMMA TickKeeps ==
  ASSUME WInv, Whole, Tick
  PROVE  Whole'
<1>1. /\ pc \in {"Drain", "Tick"} /\ game.phase # "Ended"
      /\ \E o \in Outcomes(tick, game, drops), ps \in SUBSET PendingPlayers(game) :
         \E done \in {Commit(tick, o, ent, game)} :
           IF /\ Committable(o, ent, game, drops)
              /\ Respawnable(ps, done.e, done.g)
              /\ BodiesFinalized(done.e, done.g)
           THEN GameplayTick(o, done, ps)
           ELSE StopWorld("tick")
  BY TickIsValid DEF Tick
<1>2. PICK o \in Outcomes(tick, game, drops), ps \in SUBSET PendingPlayers(game) :
        \E done \in {Commit(tick, o, ent, game)} :
          IF /\ Committable(o, ent, game, drops)
             /\ Respawnable(ps, done.e, done.g)
             /\ BodiesFinalized(done.e, done.g)
          THEN GameplayTick(o, done, ps)
          ELSE StopWorld("tick")
  BY <1>1
<1> DEFINE done == Commit(tick, o, ent, game)
           w == CommitPlayerSpawns(ps, done.e, done.g)
           joined == {x.session : x \in JoinedSessions(reg)}
<1>3. IF /\ Committable(o, ent, game, drops)
         /\ Respawnable(ps, done.e, done.g)
         /\ BodiesFinalized(done.e, done.g)
      THEN GameplayTick(o, done, ps)
      ELSE StopWorld("tick")
  BY <1>2
<1>4. done = Commit(tick, o, ent, game)
  OBVIOUS
<1> HIDE DEF done
<1>5. /\ Outcome(o, tick, game)
      /\ World(done.e, done.g, {}, nextPlayer) /\ ps \in SUBSET PendingPlayers(done.g)
      /\ Committable(o, ent, game, drops)
      /\ Respawnable(ps, done.e, done.g)
      /\ BodiesFinalized(done.e, done.g)
  BY <1>1, <1>4, TickAccepts
<1>6. /\ ent' = w.e /\ game' = w.g /\ drops' = {}
      /\ reg' = RebindControlledEntities(reg, ps, w.keys)
      /\ spawned' = {[session |-> SessionOfPlayer(p), player |-> p,
                      prev |-> game.scores[p].key, key |-> w.keys[p]] : p \in ps}
      /\ bcast'.to = joined
      /\ area' = TRUE /\ pc' = "Record"
      /\ UNCHANGED <<tick, channels, initial, failed, nextPlayer, stop>>
  BY <1>3, <1>5 DEF GameplayTick
<1>7. w = CommitPlayerSpawns(ps, done.e, done.g)
  OBVIOUS
<1> HIDE DEF w
<1>8. /\ World(w.e, w.g, {}, nextPlayer) /\ SameRound(done.g, w.g)
      /\ \A p \in ps : w.keys[p] \notin Issued(done.e)
      /\ \A p, q \in ps : w.keys[p] = w.keys[q] => p = q
  BY <1>5, <1>7, RespawnedWorld
<1>9. WorldNow'
  BY <1>6, <1>8 DEF WorldNow
<1>10. OwnersSound(reg')
  <2>1. \A x \in JoinedSessions(reg) : x.key \in Issued(done.e)
    <3>1. /\ Players(done.g) = Players(game)
          /\ \A p \in Players(game) : done.g.scores[p].key = game.scores[p].key
      BY <1>4, CommittedGame DEF WInv, Agree
    <3>2. \A p \in Players(done.g) : done.g.scores[p].key \in Issued(done.e)
      BY <1>5 DEF World, ScoresSound
    <3> QED BY <3>1, <3>2 DEF WInv, Agree, PlayersMatch
  <2>2. \A p \in ps : w.keys[p] \notin {x.key : x \in JoinedSessions(reg)}
    BY <1>8, <2>1
  <2> QED BY <1>6, <1>8, <2>2, ReboundOwners DEF WInv, Agree, Whole
<1>11. Heard(pc', spawned', bcast', channels')
  <2>1. joined \subseteq channels
    BY JoinedArePlayers DEF WInv, Agree
  <2>2. \A p \in ps : SessionOfPlayer(p) \in joined
    <3>1. \A p \in ps : \E x \in JoinedSessions(reg) : x.player = p
      BY <1>5 DEF Respawnable
    <3> QED BY <3>1 DEF SessionOfPlayer
  <2>3. {x.session : x \in spawned'} \subseteq joined
    <3> HIDE DEF joined
    <3> QED BY <1>6, <2>2
  <2> QED BY <1>6, <2>1, <2>3 DEF Heard
<1>12. Typed'
  BY <1>1, <1>6 DEF Whole, Control, Typed
<1>13. Clock(pc', tick', game')
  <2>1. game'.phase = done.g.phase /\ game'.ends = done.g.ends /\ tick' = tick
    BY <1>6, <1>8 DEF SameRound
  <2>2. tick \in Nat
    BY Constants DEF Whole, Control, Typed
  <2>3. /\ o.transition = "None" => done.g.phase = game.phase /\ done.g.ends = game.ends
        /\ o.transition = "Started" => done.g.phase = "Running" /\ done.g.ends = tick + RoundDuration
        /\ o.transition = "Ended" => done.g.phase = "Ended"
    BY <1>4, <1>5, CommitPhase
  <2>4. /\ o.transition \in {"None", "Started", "Ended"}
        /\ game.phase = "Running" => (o.transition = "None" <=> ~ (tick >= game.ends))
    BY <1>5 DEF Outcome
  <2>5. game.phase = "Running" => game.ends \in Nat /\ game.ends <= tick + RoundDuration /\ tick <= game.ends
    BY DEF Whole, Control, Clock
  <2>6. CASE o.transition = "None"
    BY <2>1, <2>2, <2>3, <2>4, <2>5, <2>6, Constants DEF Clock
  <2>7. CASE o.transition = "Started"
    BY <2>1, <2>2, <2>3, <2>7, Constants DEF Clock
  <2>8. CASE o.transition = "Ended"
    BY <2>1, <2>3, <2>8 DEF Clock
  <2> QED BY <2>4, <2>6, <2>7, <2>8
<1>14. AreaKnown'
  BY <1>6 DEF AreaKnown
<1> QED BY <1>9, <1>10, <1>11, <1>12, <1>13, <1>14 DEF Whole, Control

\* What the sessions see are entities.
LEMMA ViewsAreLive ==
  ASSUME NEW view \in Views
  PROVE  /\ DOMAIN view = {x.session : x \in AoiRecipients}
         /\ \A s \in DOMAIN view : view[s] \subseteq Live(ent)
BY DEF Views

\* Entities in sight that are players belong to joined sessions.
LEMMA PlayersInSight ==
  ASSUME WInv, Whole, NEW k \in Live(ent), ent.comps[k].kind = "Player"
  PROVE  /\ ent.comps[k].player \in AlivePlayers(game) /\ game.scores[ent.comps[k].player].key = k
         /\ \E y \in JoinedSessions(reg) : y.player = ent.comps[k].player
<1>1. ent.comps[k].player \in AlivePlayers(game) /\ game.scores[ent.comps[k].player].key = k
  BY EntityOfPlayer DEF Whole, WorldNow
<1> QED BY <1>1 DEF AlivePlayers, WInv, Agree, PlayersMatch

\* Every view can be planned and every snapshot built.
LEMMA ViewsPlannable ==
  ASSUME WInv, Whole, NEW view \in Views
  PROVE  AoiPlannable(view)
<1>1. \A x \in JoinedSessions(reg) : x.player \in Players(game) /\ game.scores[x.player].key = x.key
  BY DEF WInv, Agree, PlayersMatch
<1>2. ASSUME NEW x \in AoiRecipients
      PROVE  /\ x.key \in Live(ent)
             /\ \A k \in view[x.session] : ent.comps[k].kind = "Player" =>
                  \E y \in JoinedSessions(reg) : y.player = ent.comps[k].player
  <2>1. x \in JoinedSessions(reg) /\ x.player \in AlivePlayers(game)
    BY DEF AoiRecipients
  <2>2. x.key \in Live(ent)
    BY <1>1, <2>1 DEF AlivePlayers, Whole, WorldNow, World, ScoresSound
  <2>3. view[x.session] \subseteq Live(ent)
    BY ViewsAreLive
  <2> QED BY <2>2, <2>3, PlayersInSight
<1> QED BY <1>1, <1>2 DEF AoiPlannable

LEMMA SnapshotsBuildable ==
  ASSUME WInv, Whole, NEW view \in Views, aoi' = Over(view, aoi)
  PROVE  SnapshotBuildable
<1>1. SUFFICES ASSUME NEW x \in AoiRecipients PROVE StateBuildable(aoi'[x.session], ent, game)
  BY DEF SnapshotBuildable
<1>2. x.session \in DOMAIN view /\ view[x.session] \subseteq Live(ent)
  BY ViewsAreLive
<1>3. aoi'[x.session] = view[x.session]
  BY <1>2 DEF Over
<1> QED BY <1>2, <1>3, PlayersInSight DEF StateBuildable

\* A batch ends in the next one, or for a cause that its requests have brought.
LEMMA PublishEnds ==
  ASSUME NEW messages, NEW failure \in Causes, SnapshotBuildable, area, Publish(messages, failure)
  PROVE  /\ pc' \in {"Idle", "Stopped"} /\ failed' = "no"
         /\ stop' = stop \/ stop' \in Causes
<1> DEFINE cause == IF failure # "no" THEN failure
                    ELSE IF (SnapshotDue /\ ~SnapshotBuildable) \/ ~area THEN "plan" ELSE "no"
<1>1. /\ failed' = "no"
      /\ \/ cause # "no" /\ pc' = "Stopped" /\ stop' = cause
         \/ pc' = "Idle" /\ stop' = stop
  BY DEF Publish
<1>2. cause = failure
  OBVIOUS
<1> QED BY <1>1, <1>2

LEMMA RecordKeeps ==
  ASSUME WInv, Whole, Record
  PROVE  Whole'
<1>1. /\ pc = "Record" \/ (pc \in {"Drain", "Tick"} /\ game.phase = "Ended")
      /\ UNCHANGED <<reg, channels, initial, ent, game, drops, area, nextPlayer>>
  BY DEF Record, worldVars
<1>2. PICK view \in Views :
        \/ ~ (AoiPlannable(view) /\ {w.session : w \in spawned} \cup bcast.to \subseteq channels)
        \/ /\ aoi' = Over(view, aoi)
           /\ spawned' = {} /\ bcast' = NoBroadcast
           /\ tick' = tick + 1
           /\ \E ms : NextStep(ms) \/ Publish(ms, failed)
  BY DEF Record
<1>3. {w.session : w \in spawned} \cup bcast.to \subseteq channels
  BY <1>1 DEF Whole, Control, Heard
<1>4. /\ aoi' = Over(view, aoi)
      /\ spawned' = {} /\ bcast' = NoBroadcast
      /\ tick' = tick + 1
      /\ \E ms : NextStep(ms) \/ Publish(ms, failed)
  BY <1>2, <1>3, ViewsPlannable
<1>5. SnapshotBuildable
  BY <1>4, SnapshotsBuildable
<1>6. area /\ failed \in Causes /\ stop \in Causes
  BY <1>1 DEF Whole, Control, AreaKnown, Typed
<1>7. /\ failed' \in Causes /\ stop' \in Causes
      /\ \/ pc' = "Tick" /\ tick < MaxTick
         \/ pc' \in {"Idle", "Stopped"}
  <2>1. PICK ms : NextStep(ms) \/ Publish(ms, failed)
    BY <1>4
  <2>2. CASE NextStep(ms)
    BY <1>6, <2>2 DEF NextStep
  <2>3. CASE Publish(ms, failed)
    <3>1. /\ pc' \in {"Idle", "Stopped"} /\ failed' = "no" /\ (stop' = stop \/ stop' \in Causes)
      BY <1>5, <1>6, <2>3, PublishEnds
    <3> QED BY <1>6, <3>1 DEF Causes
  <2> QED BY <2>1, <2>2, <2>3
<1>8. Typed'
  BY <1>1, <1>4, <1>7, Constants DEF Whole, Control, Typed
<1>9. Clock(pc', tick', game')
  BY <1>1, <1>4, <1>7, Constants DEF Whole, Control, Clock, Typed
<1>10. Heard(pc', spawned', bcast', channels')
  BY <1>4, <1>7 DEF Heard, NoBroadcast
<1>11. AreaKnown'
  BY <1>1, <1>6 DEF AreaKnown
<1>12. Control'
  BY <1>8, <1>9, <1>10, <1>11 DEF Control
<1> QED BY <1>1, <1>12, WorldUntouched

-----------------------------------------------------------------------------
(***************************************************************************)
(* Every step keeps the whole.                                             *)
(***************************************************************************)
LEMMA WholeStep == WInv /\ Whole /\ [Next]_vars => Whole'
<1> SUFFICES ASSUME WInv, Whole, [Next]_vars PROVE Whole'
  OBVIOUS
<1>1. CASE \E s \in Sessions : HandleSessionAccepted(s)
  BY <1>1, AcceptedKeeps
<1>2. CASE \E s \in Sessions : HandleSessionClosed(s)
  BY <1>2, ClosedKeeps
<1>3. CASE \E s \in Sessions : HandleJoin(s)
  BY <1>3, JoinKeeps
<1>4. CASE \E s \in Sessions : HandleObserve(s)
  BY <1>4, ObserveKeeps
<1>5. CASE \E s \in Sessions : HandleControl(s)
  BY <1>5, ControlKeeps
<1>6. CASE Tick
  BY <1>6, TickKeeps
<1>7. CASE Record
  BY <1>7, RecordKeeps
<1>8. CASE \/ BeginBatch
           \/ \E s \in Sessions : ClientControl(s) \/ HandleTimeSync(s) \/ HandleMalformed(s)
           \/ UNCHANGED vars
  BY <1>8, OthersKeep
<1> QED
  BY <1>1, <1>2, <1>3, <1>4, <1>5, <1>6, <1>7, <1>8 DEF Next

LEMMA WholeInvariance == Spec => [](WInv /\ Whole)
<1>1. WInv /\ [Next]_vars => WInv'
  BY WStep DEF Good
<1>2. Init => WInv /\ Whole
  BY InitialAgreement, InitialWhole
<1>3. (WInv /\ Whole) /\ [Next]_vars => (WInv /\ Whole)'
  BY <1>1, WholeStep
<1> QED
  BY <1>2, <1>3, PTL DEF Spec

-----------------------------------------------------------------------------
(***************************************************************************)
(* What the invariant says of the properties.                              *)
(***************************************************************************)
LEMMA WholeOwners == WInv /\ Whole => OwnersConsistent
<1> SUFFICES ASSUME WInv, Whole PROVE OwnersConsistent
  OBVIOUS
<1> DEFINE K == {x.key : x \in JoinedSessions(reg)}
           f == [k \in K |-> (CHOOSE x \in JoinedSessions(reg) : x.key = k).session]
<1>1. reg.owner = [k \in DOMAIN reg.owner |-> reg.owner[k]] /\ DOMAIN reg.owner = K
  BY DEF Whole, OwnersSound
<1>2. ASSUME NEW k \in K PROVE reg.owner[k] = f[k]
  <2> DEFINE y == CHOOSE x \in JoinedSessions(reg) : x.key = k
  <2>1. \E x \in JoinedSessions(reg) : x.key = k
    OBVIOUS
  <2>2. y \in JoinedSessions(reg) /\ y.key = k
    BY <2>1
  <2>3. f[k] = y.session
    OBVIOUS
  <2> HIDE DEF y, f
  <2> QED BY <2>2, <2>3 DEF Whole, OwnersSound
<1>3. f = [k \in K |-> f[k]]
  OBVIOUS
<1>4. reg.owner = f
  <2> HIDE DEF K, f
  <2> QED BY <1>1, <1>2, <1>3
<1> QED BY <1>4 DEF OwnersConsistent

LEMMA WholeSlots ==
  ASSUME Whole, NEW i \in AmbientSlots
  PROVE  Cardinality({k \in DOMAIN game.res : game.res[k].slot = i}) = IF game.slots[i] = "Active" THEN 1 ELSE 0
<1> DEFINE S == {k \in DOMAIN game.res : game.res[k].slot = i}
<1>1. i # 0
  BY ZeroIsNoSlot
<1>2. AmbientSound(game)
  BY DEF Whole, WorldNow, World
<1>3. CASE game.slots[i] = "Active"
  <2>1. PICK k \in DOMAIN game.res : game.res[k].slot = i
    BY <1>2, <1>3 DEF AmbientSound
  <2>2. S = {k}
    BY <1>1, <1>2, <2>1 DEF AmbientSound
  <2> QED BY <1>3, <2>2, FS_Singleton
<1>4. CASE game.slots[i] # "Active"
  <2>1. S = {}
    BY <1>1, <1>2, <1>4 DEF AmbientSound
  <2> QED BY <1>4, <2>1, FS_EmptySet
<1> QED BY <1>3, <1>4

LEMMA WholeTypes == WInv /\ Whole => TypeOK
<1> SUFFICES ASSUME WInv, Whole PROVE TypeOK
  OBVIOUS
<1>1. Registered(reg) \subseteq Sessions
  <2>1. SUFFICES ASSUME NEW s \in Registered(reg) PROVE s \in Sessions
    OBVIOUS
  <2>2. reg.index[s] \in 1 .. Len(reg.dense) /\ reg.dense[reg.index[s]].session = s
    BY RoleTells DEF WInv, Agree
  <2>3. \E K : reg.dense \in [1 .. Len(reg.dense) -> Entries(K)]
    BY TableOf DEF WInv, Agree, Places
  <2> QED BY <2>2, <2>3 DEF Entries
<1>2. {x.session : x \in JoinedSessions(reg)} \subseteq Sessions
  BY JoinedArePlayers DEF WInv, Agree
<1>3. \A k \in Live(ent) : k[1] \in 1 .. Len(ent.slots) /\ k[2] \in 1 .. MaxGeneration
  BY LiveIssued DEF Whole, WorldNow, World
<1> QED BY <1>1, <1>2, <1>3 DEF TypeOK, Whole, Control, Typed, Causes, WInv, Agree

LEMMA WholeImpliesOneWorld == WInv /\ Whole => EntitiesAreOneWorld
<1> SUFFICES ASSUME WInv, Whole PROVE EntitiesAreOneWorld
  OBVIOUS
<1>1. TypeOK /\ OwnersConsistent
  BY WholeTypes, WholeOwners
<1>2. \A p \in AlivePlayers(game) :
        game.scores[p].key \in Live(ent) /\ ent.comps[game.scores[p].key].player = p
  BY DEF Whole, WorldNow, World, ScoresSound, AlivePlayers
<1>3. \A k \in DOMAIN game.res : k \in Live(ent) /\ ent.comps[k].kind = "Resource"
  BY DEF Whole, WorldNow, World, ResourcesSound
<1>4. \A k \in Live(ent) : k \in DOMAIN game.res \/ \E p \in AlivePlayers(game) : game.scores[p].key = k
  BY DEF Whole, WorldNow, World, ResourcesSound
<1>5. Live(ent) = {game.scores[p].key : p \in AlivePlayers(game)} \cup DOMAIN game.res
  <2> DEFINE L == {game.scores[p].key : p \in AlivePlayers(game)}
  <2>1. L \subseteq Live(ent)
    BY <1>2
  <2>2. Live(ent) \subseteq L \cup DOMAIN game.res
    BY <1>4
  <2> HIDE DEF L
  <2>3. DOMAIN game.res \subseteq Live(ent)
    BY <1>3
  <2>4. Live(ent) = L \cup DOMAIN game.res
    BY <2>1, <2>2, <2>3
  <2> QED BY <2>4 DEF L
<1>6. game.phase = "Waiting" => game.res = <<>> /\ drops = {}
  BY DEF Whole, WorldNow, World, PhaseSound
<1> QED BY <1>1, <1>2, <1>3, <1>5, <1>6, WholeSlots DEF EntitiesAreOneWorld

\* Whatever happens, scores, entities, owners and resource slots describe one
\* world: commit, respawn, reset, join and its rollback keep them together.
THEOREM EntitiesAreOneWorldHolds == Spec => []EntitiesAreOneWorld
BY WholeInvariance, WholeImpliesOneWorld, PTL

\* The World's own validations never end it: every baseline of a join, every tick
\* and every replication plan passes them.
THEOREM WorldNeverStopsItselfHolds == Spec => []WorldNeverStopsItself
<1>1. Whole => WorldNeverStopsItself
  BY DEF Whole, Control, Typed, Causes, WorldNeverStopsItself
<1> QED
  BY <1>1, WholeInvariance, PTL

=============================================================================
