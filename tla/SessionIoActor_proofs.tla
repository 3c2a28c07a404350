------------------------ MODULE SessionIoActor_proofs ------------------------
(***************************************************************************)
(* ContextsAccounted and WorldHearsTheEnd hold of every session, whatever  *)
(* the sizes of its lanes, its send queue and its drains.                  *)
(*                                                                         *)
(* Neither is inductive.  Three facts are missing.  The flags of an actor  *)
(* go together (ActorSound): a socket is open exactly until the close is   *)
(* requested, so a closed session posts nothing more and its contexts can  *)
(* only be released.  Before the Accepted event is handled nothing else    *)
(* has reached the session (BirthInv), so the handoff hears of the start   *)
(* before the end.  And a registry entry leaves the Active state only for  *)
(* a session that has been closed (EndInv), a failed run included, because *)
(* every failure closes the session before it fails the drain (RunInv).    *)
(*                                                                         *)
(* Each handler is described by one lemma, as a relation between the actor *)
(* it finds and the outcome it leaves (Outcome); the steps of the worker   *)
(* use nothing else of a handler.                                          *)
(***************************************************************************)
EXTENDS SessionIoActor, SequenceTheorems, FunctionTheorems, FiniteSetTheorems, TLAPS

RecvCompletions == {"RecvBytes", "RecvEnded"}

SendCompletions == {"Sent", "PartlySent", "SendFailed"}

\* The flags of one actor go together.
ActorSound(x) ==
    /\ x.socketOpen <=> ~ x.closeRequested
    /\ x.channelOpen <=> ~ x.closeRequested
    /\ x.recvContext <=> x.recvIo = 1
    /\ x.sendContext <=> x.sendIo = 1
    /\ x.postRecv => ~ x.recvContext
    /\ x.phase # "Broken"
    /\ x.phase = "Ended" => x.closeRequested
    /\ x.phase = "Open" => ~ x.closeRequested

\* Until the Accepted event is handled nothing else has happened.
BirthInv ==
    IF actor.phase = "Unknown"
    THEN /\ recvLane = <<"Accepted">> /\ sendLane = <<>> /\ ~ world.sending
         /\ ~ actor.recvContext /\ ~ actor.sendContext /\ ~ actor.postRecv
         /\ Registered => ~ actor.closeRequested
    ELSE \A i \in DOMAIN recvLane : recvLane[i] # "Accepted"

\* What the state of the registry entry says of its session.
EndInv ==
    /\ lifecycle # "Active" => actor.closeRequested
    /\ lifecycle \in {"ReadyToDeregister", "Erased"} => ~ HasPendingIo(actor)
    /\ ErasedOnlyWhenQuiet

RunInv ==
    /\ run.pc \in {"AcceptRecv", "Send"} => run.drained < DrainBudget
    /\ run.failed => actor.closeRequested
    /\ ~ Registered => run.pc = "Idle"

\* The inductive invariant.
IoInv ==
    /\ TypeOK
    /\ ActorSound(actor)
    /\ OneCompletionPerContext
    /\ BirthInv
    /\ EndInv
    /\ RunInv

-----------------------------------------------------------------------------
(***************************************************************************)
(* Counting the events of a lane.                                          *)
(***************************************************************************)
\* The places of a lane that hold one of some kinds are finitely many.
LEMMA PlacesFinite ==
  ASSUME NEW T, NEW lane \in Seq(T), NEW kinds
  PROVE  /\ IsFiniteSet({i \in DOMAIN lane : lane[i] \in kinds})
         /\ Count(lane, kinds) \in Nat
<1>1. Len(lane) \in Nat /\ DOMAIN lane = 1 .. Len(lane)
  BY LenProperties
<1>2. IsFiniteSet(1 .. Len(lane))
  BY <1>1, FS_Interval
<1>3. {i \in DOMAIN lane : lane[i] \in kinds} \in SUBSET (1 .. Len(lane))
  BY <1>1
<1>4. IsFiniteSet({i \in DOMAIN lane : lane[i] \in kinds})
  BY <1>2, <1>3, FS_Subset
<1> QED
  BY <1>4, FS_CardinalityType DEF Count

\* An empty lane holds nothing.
LEMMA CountEmpty ==
  ASSUME NEW kinds
  PROVE  Count(<<>>, kinds) = 0
<1>1. {i \in DOMAIN <<>> : <<>>[i] \in kinds} = {}
  OBVIOUS
<1> QED
  BY <1>1, FS_EmptySet DEF Count

\* Enqueue adds one event of its own kind.
LEMMA CountAppend ==
  ASSUME NEW T, NEW lane \in Seq(T), NEW e \in T, NEW kinds
  PROVE  Count(Append(lane, e), kinds)
           = Count(lane, kinds) + (IF e \in kinds THEN 1 ELSE 0)
<1> DEFINE longer == Append(lane, e)
           places == {i \in DOMAIN lane : lane[i] \in kinds}
           more   == {i \in DOMAIN longer : longer[i] \in kinds}
<1>1. Len(lane) \in Nat /\ DOMAIN lane = 1 .. Len(lane)
  BY LenProperties
<1>2. longer \in Seq(T) /\ Len(longer) = Len(lane) + 1
  BY AppendProperties
<1>3. DOMAIN longer = 1 .. Len(lane) + 1
  BY <1>2, LenProperties
<1>4. (\A i \in 1 .. Len(lane) : longer[i] = lane[i]) /\ longer[Len(lane) + 1] = e
  BY AppendProperties
<1> HIDE DEF longer
<1>5. more = IF e \in kinds THEN places \cup {Len(lane) + 1} ELSE places
  BY <1>1, <1>3, <1>4
<1>6. Len(lane) + 1 \notin places
  BY <1>1
<1>7. IsFiniteSet(places) /\ Count(lane, kinds) = Cardinality(places)
  BY PlacesFinite DEF Count
<1>8. Count(longer, kinds) = Cardinality(more)
  BY DEF Count
<1>9. Cardinality(places) \in Nat
  BY <1>7, FS_CardinalityType
<1> HIDE DEF places, more
<1>10. Cardinality(places \cup {Len(lane) + 1}) = Cardinality(places) + 1
  BY <1>6, <1>7, FS_AddElement
<1>11. Count(longer, kinds) = Count(lane, kinds) + (IF e \in kinds THEN 1 ELSE 0)
  BY <1>5, <1>7, <1>8, <1>9, <1>10
<1> QED
  BY <1>11 DEF longer

\* A drain takes one event, of the kind at the head.
LEMMA CountTail ==
  ASSUME NEW T, NEW lane \in Seq(T), lane # <<>>, NEW kinds
  PROVE  Count(lane, kinds)
           = Count(Tail(lane), kinds) + (IF Head(lane) \in kinds THEN 1 ELSE 0)
<1> DEFINE rest   == Tail(lane)
           places == {i \in DOMAIN lane : lane[i] \in kinds}
           later  == {i \in DOMAIN rest : rest[i] \in kinds}
<1>1. Len(lane) \in Nat \ {0} /\ DOMAIN lane = 1 .. Len(lane) /\ Head(lane) = lane[1]
  BY LenProperties, EmptySeq
<1>2. rest \in Seq(T) /\ Len(rest) = Len(lane) - 1
  BY HeadTailProperties
<1>3. DOMAIN rest = 1 .. Len(lane) - 1
  BY <1>2, LenProperties
<1>4. \A i \in 1 .. Len(lane) - 1 : rest[i] = lane[i + 1]
  BY <1>2, HeadTailProperties
<1>5. IsFiniteSet(places) /\ Count(lane, kinds) = Cardinality(places)
  BY PlacesFinite DEF Count
<1>6. IsFiniteSet(later) /\ Count(rest, kinds) = Cardinality(later)
  BY <1>2, PlacesFinite DEF Count
<1> HIDE DEF rest
<1>7. ExistsBijection(later, places \ {1})
  <2> DEFINE f == [i \in later |-> i + 1]
  <2>1. \A i \in later : i \in Int /\ i + 1 \in places \ {1}
    <3>1. ASSUME NEW i \in later PROVE i \in Int /\ i + 1 \in places \ {1}
      <4>1. i \in 1 .. Len(lane) - 1 /\ rest[i] \in kinds
        BY <1>3
      <4> QED
        BY <1>1, <1>4, <4>1
    <3> QED
      BY <3>1
  <2>2. \A j \in places \ {1} : j \in Int /\ j - 1 \in later
    <3>1. ASSUME NEW j \in places \ {1} PROVE j \in Int /\ j - 1 \in later
      <4>1. j \in 1 .. Len(lane) /\ j # 1 /\ lane[j] \in kinds
        BY <1>1
      <4>2. j - 1 \in 1 .. Len(lane) - 1 /\ j - 1 + 1 = j
        BY <1>1, <4>1
      <4>3. rest[j - 1] = lane[j]
        BY <1>4, <4>2
      <4> QED
        BY <1>3, <4>1, <4>2, <4>3
    <3> QED
      BY <3>1
  <2> HIDE DEF later, places
  <2>3. f \in [later -> places \ {1}]
    BY <2>1
  <2>4. \A i, j \in later : f[i] = f[j] => i = j
    BY <2>1
  <2>5. \A j \in places \ {1} : f[j - 1] = j
    BY <2>2
  <2>6. f \in Bijection(later, places \ {1})
    BY <2>2, <2>3, <2>4, <2>5, Fun_IsBij
  <2> QED
    BY <2>6 DEF ExistsBijection
<1>8. Cardinality(places \ {1}) = Cardinality(later)
  BY <1>6, <1>7, FS_Bijection
<1>9. 1 \in places <=> Head(lane) \in kinds
  BY <1>1
<1>10. Cardinality(places) \in Nat /\ Cardinality(later) \in Nat
  BY <1>5, <1>6, FS_CardinalityType
<1> HIDE DEF places, later
<1>11. Cardinality(places \ {1})
         = IF 1 \in places THEN Cardinality(places) - 1 ELSE Cardinality(places)
  BY <1>5, FS_RemoveElement
<1>12. Count(lane, kinds) = Count(rest, kinds) + (IF Head(lane) \in kinds THEN 1 ELSE 0)
  BY <1>5, <1>6, <1>8, <1>9, <1>10, <1>11
<1> QED
  BY <1>12 DEF rest

-----------------------------------------------------------------------------
(***************************************************************************)
(* The handlers.                                                           *)
(***************************************************************************)
OutcomeState == [actor: ActorState, failed: BOOLEAN,
                 posted: {"None", "recv", "send"}]

\* Outcome o of a handler that found x and used up r receive completions and s
\* send completions: what it posted is counted, a failure has closed the session,
\* and a closed session posts nothing.
Outcome(x, o, r, s) ==
    /\ o \in OutcomeState
    /\ ActorSound(o.actor) /\ o.actor.phase # "Unknown"
    /\ o.actor.recvIo = x.recvIo - r + (IF o.posted = "recv" THEN 1 ELSE 0)
    /\ o.actor.sendIo = x.sendIo - s + (IF o.posted = "send" THEN 1 ELSE 0)
    /\ o.failed => o.actor.closeRequested
    /\ x.closeRequested => o.actor.closeRequested /\ o.posted = "None"

\* RecordCloseRequested closes the session and leaves contexts and counters alone.
LEMMA CloseKeeps ==
  ASSUME NEW x \in ActorState, ActorSound(x), x.phase # "Unknown", NEW reason,
         NEW y, y = RecordCloseRequested(x, reason)
  PROVE  /\ y \in ActorState /\ ActorSound(y)
         /\ y.closeRequested /\ y.phase # "Unknown"
         /\ y.recvIo = x.recvIo /\ y.sendIo = x.sendIo
<1>1. CASE x.closeRequested
  BY <1>1 DEF RecordCloseRequested
<1>2. CASE ~ x.closeRequested
  <2>1. x.phase = "Open" /\ x.channelOpen
    BY <1>2 DEF ActorSound, ActorState
  <2>2. ClosedPhase(x, reason) = "Ended"
    BY <2>1 DEF ClosedPhase
  <2>3. y = [x EXCEPT !.closeRequested = TRUE, !.socketOpen = FALSE,
                      !.channelOpen = FALSE, !.phase = "Ended"]
    BY <1>2, <2>1, <2>2 DEF RecordCloseRequested
  <2>4. y \in ActorState
    BY <2>3 DEF ActorState
  <2>5. /\ y.closeRequested /\ ~ y.socketOpen /\ ~ y.channelOpen
        /\ y.postRecv = x.postRecv /\ y.phase = "Ended"
        /\ y.recvContext = x.recvContext /\ y.recvIo = x.recvIo
        /\ y.sendContext = x.sendContext /\ y.sendIo = x.sendIo
    BY <2>3 DEF ActorState
  <2>6. ActorSound(y)
    BY <2>5 DEF ActorSound
  <2> QED
    BY <2>4, <2>5, <2>6
<1> QED
  BY <1>1, <1>2

\* A posted receive takes the receive context and counts it.
LEMMA RecvPosted ==
  ASSUME NEW x \in ActorState, ActorSound(x), ~ x.postRecv,
         NEW y, y = [x EXCEPT !.recvContext = TRUE, !.recvIo = 1]
  PROVE  /\ y \in ActorState /\ ActorSound(y) /\ y.phase = x.phase
         /\ y.closeRequested = x.closeRequested
         /\ y.recvContext = TRUE /\ y.recvIo = 1 /\ y.sendIo = x.sendIo
<1>1. y \in ActorState
  <2>1. /\ y.recvIo \in 0 .. 1 /\ y.sendIo \in 0 .. 1
        /\ y.sendQueue \in 0 .. PendingSendQueueCapacity
    BY DEF ActorState
  <2> QED
    BY <2>1 DEF ActorState
<1>2. /\ y.closeRequested = x.closeRequested /\ y.socketOpen = x.socketOpen
      /\ y.channelOpen = x.channelOpen /\ y.postRecv = x.postRecv
      /\ y.recvContext = TRUE /\ y.recvIo = 1
      /\ y.sendContext = x.sendContext /\ y.sendIo = x.sendIo
      /\ y.phase = x.phase
  BY DEF ActorState
<1>3. ActorSound(y)
  BY <1>2 DEF ActorSound
<1> QED
  BY <1>1, <1>2, <1>3

\* A completed receive gives both back.
LEMMA RecvFreed ==
  ASSUME NEW x \in ActorState, ActorSound(x),
         NEW y, y = [x EXCEPT !.recvContext = FALSE, !.recvIo = 0]
  PROVE  /\ y \in ActorState /\ ActorSound(y) /\ y.phase = x.phase
         /\ y.closeRequested = x.closeRequested
         /\ y.recvContext = FALSE /\ y.recvIo = 0 /\ y.sendIo = x.sendIo
<1>1. y \in ActorState
  <2>1. /\ y.recvIo \in 0 .. 1 /\ y.sendIo \in 0 .. 1
        /\ y.sendQueue \in 0 .. PendingSendQueueCapacity
    BY DEF ActorState
  <2> QED
    BY <2>1 DEF ActorState
<1>2. /\ y.closeRequested = x.closeRequested /\ y.socketOpen = x.socketOpen
      /\ y.channelOpen = x.channelOpen /\ y.postRecv = x.postRecv
      /\ y.recvContext = FALSE /\ y.recvIo = 0
      /\ y.sendContext = x.sendContext /\ y.sendIo = x.sendIo
      /\ y.phase = x.phase
  BY DEF ActorState
<1>3. ActorSound(y)
  BY <1>2 DEF ActorSound
<1> QED
  BY <1>1, <1>2, <1>3

\* A posted send takes the send context and counts it.
LEMMA SendPosted ==
  ASSUME NEW x \in ActorState, ActorSound(x),
         NEW y, y = [x EXCEPT !.sendContext = TRUE, !.sendIo = 1]
  PROVE  /\ y \in ActorState /\ ActorSound(y) /\ y.phase = x.phase
         /\ y.closeRequested = x.closeRequested
         /\ y.sendContext = TRUE /\ y.sendIo = 1 /\ y.recvIo = x.recvIo
<1>1. y \in ActorState
  <2>1. /\ y.recvIo \in 0 .. 1 /\ y.sendIo \in 0 .. 1
        /\ y.sendQueue \in 0 .. PendingSendQueueCapacity
    BY DEF ActorState
  <2> QED
    BY <2>1 DEF ActorState
<1>2. /\ y.closeRequested = x.closeRequested /\ y.socketOpen = x.socketOpen
      /\ y.channelOpen = x.channelOpen /\ y.postRecv = x.postRecv
      /\ y.sendContext = TRUE /\ y.sendIo = 1
      /\ y.recvContext = x.recvContext /\ y.recvIo = x.recvIo
      /\ y.phase = x.phase
  BY DEF ActorState
<1>3. ActorSound(y)
  BY <1>2 DEF ActorSound
<1> QED
  BY <1>1, <1>2, <1>3

\* A completed send gives both back.
LEMMA SendFreed ==
  ASSUME NEW x \in ActorState, ActorSound(x),
         NEW y, y = [x EXCEPT !.sendContext = FALSE, !.sendIo = 0]
  PROVE  /\ y \in ActorState /\ ActorSound(y) /\ y.phase = x.phase
         /\ y.closeRequested = x.closeRequested
         /\ y.sendContext = FALSE /\ y.sendIo = 0 /\ y.recvIo = x.recvIo
<1>1. y \in ActorState
  <2>1. /\ y.recvIo \in 0 .. 1 /\ y.sendIo \in 0 .. 1
        /\ y.sendQueue \in 0 .. PendingSendQueueCapacity
    BY DEF ActorState
  <2> QED
    BY <2>1 DEF ActorState
<1>2. /\ y.closeRequested = x.closeRequested /\ y.socketOpen = x.socketOpen
      /\ y.channelOpen = x.channelOpen /\ y.postRecv = x.postRecv
      /\ y.sendContext = FALSE /\ y.sendIo = 0
      /\ y.recvContext = x.recvContext /\ y.recvIo = x.recvIo
      /\ y.phase = x.phase
  BY DEF ActorState
<1>3. ActorSound(y)
  BY <1>2 DEF ActorSound
<1> QED
  BY <1>1, <1>2, <1>3

\* A handler that leaves a sound actor in which everything is counted, and posts
\* nothing.
LEMMA OkOutcome ==
  ASSUME NEW x \in ActorState, NEW y \in ActorState, NEW r \in Nat, NEW s \in Nat,
         ActorSound(y), y.phase # "Unknown", x.closeRequested => y.closeRequested,
         y.recvIo = x.recvIo - r, y.sendIo = x.sendIo - s
  PROVE  /\ Outcome(x, Ok(y), r, s)
         /\ y.closeRequested => Outcome(x, Failed(y), r, s)
<1>1. ASSUME NEW failed \in BOOLEAN, failed => y.closeRequested
      PROVE  Outcome(x, [actor |-> y, failed |-> failed, posted |-> "None"], r, s)
  BY <1>1 DEF Outcome, OutcomeState, ActorState
<1> QED
  BY <1>1 DEF Ok, Failed

\* The same, when the session is closed first.
LEMMA ClosedOutcome ==
  ASSUME NEW x \in ActorState, NEW y \in ActorState, NEW r \in Nat, NEW s \in Nat,
         ActorSound(y), y.phase # "Unknown", x.closeRequested => y.closeRequested,
         y.recvIo = x.recvIo - r, y.sendIo = x.sendIo - s, NEW reason
  PROVE  /\ Outcome(x, Ok(RecordCloseRequested(y, reason)), r, s)
         /\ Outcome(x, Failed(RecordCloseRequested(y, reason)), r, s)
<1> DEFINE z == RecordCloseRequested(y, reason)
<1>1. /\ z \in ActorState /\ ActorSound(z)
      /\ z.closeRequested /\ z.phase # "Unknown"
      /\ z.recvIo = y.recvIo /\ z.sendIo = y.sendIo
  BY CloseKeeps
<1> HIDE DEF z
<1>2. z.recvIo = x.recvIo - r /\ z.sendIo = x.sendIo - s
  BY <1>1
<1>3. Outcome(x, Ok(z), r, s) /\ Outcome(x, Failed(z), r, s)
  BY <1>1, <1>2, OkOutcome
<1> QED
  BY <1>3 DEF z

\* PostRequestedRecv, which its callers reach only without a pending receive.
LEMMA PostRecvOutcome ==
  ASSUME NEW x \in ActorState, ActorSound(x), x.phase # "Unknown",
         ~ x.recvContext, ~ x.postRecv, NEW o \in PostRequestedRecv(x)
  PROVE  Outcome(x, o, 0, 0)
<1>1. x.recvIo = 0 /\ x.sendIo \in Nat /\ x.recvIo = x.recvIo - 0
      /\ x.sendIo = x.sendIo - 0
  BY DEF ActorSound, ActorState
<1>2. CASE ~ x.socketOpen
  <2>1. x.closeRequested
    BY <1>2 DEF ActorSound, ActorState
  <2>2. Outcome(x, Failed(x), 0, 0)
    BY <1>1, <2>1, OkOutcome
  <2> QED
    BY <1>2, <2>2 DEF PostRequestedRecv
<1>3. CASE x.socketOpen
  <2> DEFINE y == [x EXCEPT !.recvContext = TRUE, !.recvIo = @ + 1]
  <2>1. o = Posted(y, "recv") \/ o = Failed(RecordCloseRequested(x, "TransportError"))
    BY <1>3 DEF PostRequestedRecv
  <2>2. y = [x EXCEPT !.recvContext = TRUE, !.recvIo = 1]
    BY <1>1
  <2> HIDE DEF y
  <2>3. /\ y \in ActorState /\ ActorSound(y) /\ y.phase # "Unknown"
        /\ y.recvIo = 1 /\ y.sendIo = x.sendIo
    <3>1. /\ y \in ActorState /\ ActorSound(y) /\ y.phase = x.phase
          /\ y.closeRequested = x.closeRequested
          /\ y.recvContext = TRUE /\ y.recvIo = 1 /\ y.sendIo = x.sendIo
      BY <2>2, RecvPosted
    <3> QED
      BY <3>1
  <2>4. ~ x.closeRequested
    BY <1>3 DEF ActorSound
  <2>5. Outcome(x, Posted(y, "recv"), 0, 0)
    BY <1>1, <2>3, <2>4 DEF Outcome, OutcomeState, Posted
  <2>6. Outcome(x, Failed(RecordCloseRequested(x, "TransportError")), 0, 0)
    BY <1>1, ClosedOutcome
  <2> QED
    BY <2>1, <2>5, <2>6
<1> QED
  BY <1>2, <1>3 DEF ActorState

\* The first event of a session: the World is told, then the first receive posted.
LEMMA AcceptedOutcome ==
  ASSUME NEW x \in ActorState, ActorSound(x), x.phase = "Unknown",
         ~ x.recvContext, ~ x.postRecv, ~ x.closeRequested,
         NEW o \in HandleAccepted(x)
  PROVE  Outcome(x, o, 0, 0)
<1> DEFINE y == [x EXCEPT !.phase = "Open"]
<1>1. /\ y \in ActorState /\ ActorSound(y) /\ y.phase = "Open"
      /\ ~ y.recvContext /\ ~ y.postRecv /\ ~ y.closeRequested
      /\ y.recvIo = x.recvIo /\ y.sendIo = x.sendIo
  BY DEF ActorSound, ActorState
<1>2. PICK p \in PostRequestedRecv(y) :
        o = [p EXCEPT !.actor = IF p.failed THEN RecordCloseRequested(@, "TransportError")
                                            ELSE @]
  BY DEF HandleAccepted
<1> HIDE DEF y
<1>3. Outcome(y, p, 0, 0)
  BY <1>1, PostRecvOutcome
<1>4. p.failed => RecordCloseRequested(p.actor, "TransportError") = p.actor
  BY <1>3 DEF Outcome, RecordCloseRequested
<1>5. o = p
  BY <1>2, <1>3, <1>4 DEF Outcome, OutcomeState
<1> QED
  BY <1>1, <1>3, <1>5 DEF Outcome

\* A receive completion frees the receive context.
LEMMA RecvCompletedOutcome ==
  ASSUME NEW x \in ActorState, ActorSound(x), x.phase # "Unknown", x.recvIo = 1,
         NEW e \in RecvCompletions, NEW o \in HandleRecvCompleted(x, e)
  PROVE  Outcome(x, o, 1, 0)
<1> DEFINE freed == [x EXCEPT !.recvContext = FALSE, !.recvIo = @ - 1]
<1>1. x.recvContext /\ x.sendIo \in Nat
  BY DEF ActorSound, ActorState
<1>2. freed = [x EXCEPT !.recvContext = FALSE, !.recvIo = 0]
  OBVIOUS
<1>3. o \in HandleRecvBytes(freed) \/ o = Ok(RecordCloseRequested(freed, "RemoteClosed"))
  BY <1>1 DEF HandleRecvCompleted, RecvCompletions
<1> HIDE DEF freed
<1>4. /\ freed \in ActorState /\ ActorSound(freed) /\ freed.phase # "Unknown"
      /\ freed.closeRequested = x.closeRequested /\ ~ freed.recvContext
      /\ freed.recvIo = x.recvIo - 1 /\ freed.sendIo = x.sendIo - 0
  <2>1. /\ freed \in ActorState /\ ActorSound(freed) /\ freed.phase = x.phase
        /\ freed.closeRequested = x.closeRequested
        /\ freed.recvContext = FALSE /\ freed.recvIo = 0 /\ freed.sendIo = x.sendIo
    BY <1>2, RecvFreed
  <2> QED
    BY <1>1, <2>1
<1>5. \A reason : /\ Outcome(x, Ok(RecordCloseRequested(freed, reason)), 1, 0)
                  /\ Outcome(x, Failed(RecordCloseRequested(freed, reason)), 1, 0)
  BY <1>4, ClosedOutcome
<1>6. Outcome(x, Ok(freed), 1, 0)
  BY <1>4, OkOutcome
<1>7. Outcome(x, Ok([freed EXCEPT !.postRecv = TRUE]), 1, 0)
  <2> DEFINE y == [freed EXCEPT !.postRecv = TRUE]
  <2>1. /\ y \in ActorState /\ ActorSound(y) /\ y.phase # "Unknown"
        /\ y.closeRequested = x.closeRequested
        /\ y.recvIo = x.recvIo - 1 /\ y.sendIo = x.sendIo - 0
    BY <1>4 DEF ActorSound, ActorState
  <2> HIDE DEF y
  <2>2. Outcome(x, Ok(y), 1, 0)
    BY <2>1, OkOutcome
  <2> QED
    BY <2>2 DEF y
<1>8. \/ o = Ok(freed) \/ o = Ok([freed EXCEPT !.postRecv = TRUE])
      \/ o = Failed(RecordCloseRequested(freed, "ProtocolError"))
      \/ o = Ok(RecordCloseRequested(freed, "RemoteClosed"))
  BY <1>3 DEF HandleRecvBytes
<1> QED
  BY <1>5, <1>6, <1>7, <1>8

\* TryPostNextPendingSend, on an actor y that has just been changed.
LEMMA NextSendOutcome ==
  ASSUME NEW x \in ActorState, NEW y \in ActorState, NEW s \in Nat,
         ActorSound(y), y.phase # "Unknown", x.closeRequested = y.closeRequested,
         y.recvIo = x.recvIo, y.sendIo = x.sendIo - s,
         NEW o \in TryPostNextPendingSend(y)
  PROVE  Outcome(x, o, 0, s)
<1>1. x.recvIo \in Nat /\ y.recvIo = x.recvIo - 0
  BY DEF ActorState
<1>2. CASE y.closeRequested \/ y.sendContext \/ y.sendQueue = 0
  <2>1. o = Ok(y)
    BY <1>2 DEF TryPostNextPendingSend
  <2> QED
    BY <1>1, <2>1, OkOutcome
<1>3. CASE ~ (y.closeRequested \/ y.sendContext \/ y.sendQueue = 0)
  <2> DEFINE taken == [y EXCEPT !.sendQueue = @ - 1]
             z == [taken EXCEPT !.sendContext = TRUE, !.sendIo = @ + 1]
  <2>1. o \in PostSend(y)
    BY <1>3 DEF TryPostNextPendingSend
  <2>2. o = Posted(z, "send") \/ o = Failed(RecordCloseRequested(taken, "TransportError"))
    BY <2>1 DEF PostSend
  <2>3. y.sendIo = 0 /\ y.sendQueue - 1 \in 0 .. PendingSendQueueCapacity
    BY <1>3, SessionIoActorAssumption DEF ActorSound, ActorState
  <2>4. /\ taken \in ActorState /\ ActorSound(taken) /\ taken.phase # "Unknown"
        /\ taken.closeRequested = y.closeRequested
        /\ taken.recvIo = y.recvIo /\ taken.sendIo = 0
    BY <2>3 DEF ActorSound, ActorState
  <2> HIDE DEF taken
  <2>5. z = [taken EXCEPT !.sendContext = TRUE, !.sendIo = 1]
    BY <2>4
  <2> HIDE DEF z
  <2>6. /\ z \in ActorState /\ ActorSound(z) /\ z.phase # "Unknown"
        /\ z.recvIo = y.recvIo /\ z.sendIo = 1
    <3>1. /\ z \in ActorState /\ ActorSound(z) /\ z.phase = taken.phase
          /\ z.closeRequested = taken.closeRequested
          /\ z.sendContext = TRUE /\ z.sendIo = 1 /\ z.recvIo = taken.recvIo
      <4>1. taken \in ActorState /\ ActorSound(taken)
        BY <2>4
      <4> QED
        BY <2>5, <4>1, SendPosted, Zenon
    <3> QED
      BY <2>4, <3>1
  <2>7. Outcome(x, Posted(z, "send"), 0, s)
    BY <1>1, <1>3, <2>3, <2>6 DEF Outcome, OutcomeState, Posted
  <2>8. taken.recvIo = x.recvIo - 0 /\ taken.sendIo = x.sendIo - s
    BY <1>1, <2>3, <2>4
  <2>9. Outcome(x, Failed(RecordCloseRequested(taken, "TransportError")), 0, s)
    BY <2>4, <2>8, ClosedOutcome
  <2> QED
    BY <2>2, <2>7, <2>9
<1> QED
  BY <1>2, <1>3

\* The World's payload joins the queue behind the pending send.
LEMMA SendRequestedOutcome ==
  ASSUME NEW x \in ActorState, ActorSound(x), x.phase # "Unknown",
         NEW o \in HandleSendRequested(x)
  PROVE  Outcome(x, o, 0, 0)
<1>1. /\ x.recvIo \in Nat /\ x.recvIo = x.recvIo - 0
      /\ x.sendIo \in Nat /\ x.sendIo = x.sendIo - 0
  BY DEF ActorState
<1>2. CASE x.closeRequested
  <2>1. o = Ok(x)
    BY <1>2 DEF HandleSendRequested
  <2> QED
    BY <1>1, <2>1, OkOutcome
<1>3. CASE ~ x.closeRequested /\ x.sendQueue = PendingSendQueueCapacity
  <2>1. o = Ok(RecordCloseRequested(x, "SendPressure"))
    BY <1>3 DEF HandleSendRequested
  <2> QED
    BY <1>1, <2>1, ClosedOutcome
<1>4. CASE ~ x.closeRequested /\ x.sendQueue # PendingSendQueueCapacity
  <2> DEFINE y == [x EXCEPT !.sendQueue = @ + 1]
  <2>1. o \in TryPostNextPendingSend(y)
    BY <1>4 DEF HandleSendRequested
  <2>2. x.sendQueue + 1 \in 0 .. PendingSendQueueCapacity
    BY <1>4, SessionIoActorAssumption DEF ActorState
  <2>3. /\ y \in ActorState /\ ActorSound(y) /\ y.phase # "Unknown"
        /\ y.closeRequested = x.closeRequested
        /\ y.recvIo = x.recvIo /\ y.sendIo = x.sendIo - 0
    BY <1>1, <2>2 DEF ActorSound, ActorState
  <2> HIDE DEF y
  <2> QED
    BY <2>1, <2>3, NextSendOutcome
<1> QED
  BY <1>2, <1>3, <1>4

\* A send completion frees the send context, or what is left of the payload is
\* posted again in it.
LEMMA SendCompletedOutcome ==
  ASSUME NEW x \in ActorState, ActorSound(x), x.phase # "Unknown", x.sendIo = 1,
         NEW e \in SendCompletions, NEW o \in HandleSendCompleted(x, e)
  PROVE  Outcome(x, o, 0, 1)
<1> DEFINE counted == [x EXCEPT !.sendIo = @ - 1]
           freed   == [counted EXCEPT !.sendContext = FALSE]
           again   == [counted EXCEPT !.sendIo = @ + 1]
<1>1. x.sendContext /\ x.recvIo \in Nat /\ x.recvIo = x.recvIo - 0
  BY DEF ActorSound, ActorState
<1>2. \/ o = Ok(RecordCloseRequested(freed, "TransportError"))
      \/ o = Ok(freed)
      \/ o \in TryPostNextPendingSend(freed)
      \/ o \in RepostPendingSend(counted) /\ ~ x.closeRequested
  BY <1>1 DEF HandleSendCompleted, SendCompletions
<1>3. o \in RepostPendingSend(counted)
        => \/ o = Posted(again, "send")
           \/ o = Failed(RecordCloseRequested(freed, "TransportError"))
  BY DEF RepostPendingSend
<1>4. counted = [x EXCEPT !.sendIo = 0]
  OBVIOUS
<1> HIDE DEF counted
<1>5. freed = [x EXCEPT !.sendContext = FALSE, !.sendIo = 0]
  BY <1>4
<1>6. again = [x EXCEPT !.sendIo = 1]
  <2>1. counted.sendIo = 0
    BY <1>4 DEF ActorState
  <2>2. again = [counted EXCEPT !.sendIo = 1]
    BY <2>1
  <2> HIDE DEF again
  <2> QED
    BY <1>4, <2>2 DEF ActorState
<1> HIDE DEF freed, again
<1>7. /\ freed \in ActorState /\ ActorSound(freed) /\ freed.phase # "Unknown"
      /\ freed.closeRequested = x.closeRequested
      /\ freed.recvIo = x.recvIo - 0 /\ freed.recvIo = x.recvIo
      /\ freed.sendIo = x.sendIo - 1
  <2>1. /\ freed \in ActorState /\ ActorSound(freed) /\ freed.phase = x.phase
        /\ freed.closeRequested = x.closeRequested
        /\ freed.sendIo = 0 /\ freed.recvIo = x.recvIo
    BY <1>5, SendFreed
  <2> QED
    BY <1>1, <2>1
<1>8. /\ Outcome(x, Ok(RecordCloseRequested(freed, "TransportError")), 0, 1)
      /\ Outcome(x, Failed(RecordCloseRequested(freed, "TransportError")), 0, 1)
  BY <1>7, ClosedOutcome
<1>9. Outcome(x, Ok(freed), 0, 1)
  BY <1>7, OkOutcome
<1>10. ASSUME o \in TryPostNextPendingSend(freed) PROVE Outcome(x, o, 0, 1)
  BY <1>7, <1>10, NextSendOutcome
<1>11. again = x
  BY <1>6 DEF ActorState
<1>12. ~ x.closeRequested => Outcome(x, Posted(x, "send"), 0, 1)
  BY <1>1 DEF Outcome, OutcomeState, Posted
<1> QED
  BY <1>2, <1>3, <1>8, <1>9, <1>10, <1>11, <1>12

\* What is counted when event e of a lane is handled.
Taken(e, kinds) == IF e \in kinds THEN 1 ELSE 0

\* Every event of the accept and receive lane.
LEMMA RecvEventOutcome ==
  ASSUME NEW x \in ActorState, ActorSound(x), NEW e \in RecvEvents,
         x.phase = "Unknown" <=> e = "Accepted",
         e = "Accepted" => ~ x.recvContext /\ ~ x.postRecv /\ ~ x.closeRequested,
         e \in RecvCompletions => x.recvIo = 1,
         NEW o \in HandleRecvEvent(x, e)
  PROVE  Outcome(x, o, Taken(e, RecvCompletions), 0)
<1>1. CASE e = "Accepted"
  BY <1>1, AcceptedOutcome DEF HandleRecvEvent, Taken, RecvCompletions
<1>2. CASE e = "CloseRequested"
  <2>1. o = Ok(RecordCloseRequested(x, "Requested"))
    BY <1>2 DEF HandleRecvEvent
  <2>2. x.recvIo = x.recvIo - 0 /\ x.sendIo = x.sendIo - 0 /\ x.phase # "Unknown"
    BY <1>2 DEF ActorState
  <2>3. Outcome(x, o, 0, 0)
    BY <2>1, <2>2, ClosedOutcome
  <2> QED
    BY <1>2, <2>3 DEF Taken, RecvCompletions
<1>3. CASE e \in RecvCompletions
  <2>1. o \in HandleRecvCompleted(x, e)
    BY <1>3 DEF HandleRecvEvent, RecvCompletions
  <2>2. x.phase # "Unknown"
    BY <1>3 DEF RecvCompletions
  <2> QED
    BY <1>3, <2>1, <2>2, RecvCompletedOutcome DEF Taken
<1> QED
  BY <1>1, <1>2, <1>3 DEF RecvEvents, RecvCompletions

\* Every event of the send lane.
LEMMA SendEventOutcome ==
  ASSUME NEW x \in ActorState, ActorSound(x), NEW e \in SendEvents,
         x.phase # "Unknown", e \in SendCompletions => x.sendIo = 1,
         NEW o \in HandleSendEvent(x, e)
  PROVE  Outcome(x, o, 0, Taken(e, SendCompletions))
<1>1. CASE e = "SendRequested"
  BY <1>1, SendRequestedOutcome DEF HandleSendEvent, Taken, SendCompletions
<1>2. CASE e \in SendCompletions
  BY <1>2, SendCompletedOutcome DEF HandleSendEvent, Taken, SendCompletions
<1> QED
  BY <1>1, <1>2 DEF SendEvents, SendCompletions

-----------------------------------------------------------------------------
(***************************************************************************)
(* The ledger: what a counter, the kernel and a lane say of each other.    *)
(***************************************************************************)
One(b) == IF b THEN 1 ELSE 0

RecvLedger ==
    actor.recvIo = One(kernel.recv) + Count(recvLane, RecvCompletions)
                     + One("recv" \in kernel.lost)

SendLedger ==
    actor.sendIo = One(kernel.send) + Count(sendLane, SendCompletions)
                     + One("send" \in kernel.lost)

\* OneCompletionPerContext, for an actor whose flags go together.
LEMMA LedgerForm ==
  ASSUME ActorSound(actor)
  PROVE  OneCompletionPerContext <=> (Registered => RecvLedger /\ SendLedger)
<1>1. SendEvents \ {"SendRequested"} = SendCompletions
  BY DEF SendEvents, SendCompletions
<1>2. {"RecvBytes", "RecvEnded"} = RecvCompletions
  BY DEF RecvCompletions
<1> QED
  BY <1>1, <1>2 DEF OneCompletionPerContext, RecvLedger, SendLedger, One, ActorSound

\* The same of the next state.
LEMMA LedgerFormPrime ==
  ASSUME ActorSound(actor)'
  PROVE  OneCompletionPerContext' <=> (Registered' => RecvLedger' /\ SendLedger')
<1>1. SendEvents \ {"SendRequested"} = SendCompletions
  BY DEF SendEvents, SendCompletions
<1>2. {"RecvBytes", "RecvEnded"} = RecvCompletions
  BY DEF RecvCompletions
<1> QED
  BY <1>1, <1>2 DEF OneCompletionPerContext, RecvLedger, SendLedger, One, ActorSound

\* The quiet of an erased entry, in the same words.
LEMMA QuietForm ==
  /\ ErasedOnlyWhenQuiet
       <=> (lifecycle = "Erased" => /\ ~ kernel.recv /\ ~ kernel.send
                                    /\ Count(recvLane, RecvCompletions) = 0
                                    /\ Count(sendLane, SendCompletions) = 0)
  /\ ErasedOnlyWhenQuiet'
       <=> (lifecycle' = "Erased" => /\ ~ kernel'.recv /\ ~ kernel'.send
                                     /\ Count(recvLane', RecvCompletions) = 0
                                     /\ Count(sendLane', SendCompletions) = 0)
<1>1. SendEvents \ {"SendRequested"} = SendCompletions
  BY DEF SendEvents, SendCompletions
<1>2. {"RecvBytes", "RecvEnded"} = RecvCompletions
  BY DEF RecvCompletions
<1> QED
  BY <1>1, <1>2 DEF ErasedOnlyWhenQuiet

\* The counts of the two lanes.
LEMMA LaneCounts ==
  ASSUME TypeOK
  PROVE  /\ Count(recvLane, RecvCompletions) \in Nat
         /\ Count(sendLane, SendCompletions) \in Nat
BY PlacesFinite DEF TypeOK

\* While the entry is there, every counter is explained.
LEMMA Ledger ==
  ASSUME IoInv, Registered
  PROVE  RecvLedger /\ SendLedger
BY LedgerForm DEF IoInv

\* What a registered actor's kernel and lanes say of it.
LEMMA LedgerBounds ==
  ASSUME IoInv, Registered
  PROVE  /\ kernel.recv => /\ actor.recvContext /\ actor.recvIo = 1
                           /\ Count(recvLane, RecvCompletions) = 0
                           /\ "recv" \notin kernel.lost
         /\ kernel.send => /\ actor.sendContext /\ actor.sendIo = 1
                           /\ Count(sendLane, SendCompletions) = 0
                           /\ "send" \notin kernel.lost
         /\ Count(recvLane, RecvCompletions) # 0 => actor.recvIo = 1
         /\ Count(sendLane, SendCompletions) # 0 => actor.sendIo = 1
<1>1. RecvLedger /\ SendLedger
  BY Ledger
<1>2. actor.recvIo \in 0 .. 1 /\ actor.sendIo \in 0 .. 1 /\ ActorSound(actor)
  BY DEF IoInv, TypeOK, ActorState
<1>3. /\ Count(recvLane, RecvCompletions) \in Nat
      /\ Count(sendLane, SendCompletions) \in Nat
  BY LaneCounts DEF IoInv
<1>4. ActorSound(actor) => /\ actor.recvIo = 1 => actor.recvContext
                           /\ actor.sendIo = 1 => actor.sendContext
  BY DEF ActorSound
<1> QED
  BY <1>1, <1>2, <1>3, <1>4 DEF RecvLedger, SendLedger, One

-----------------------------------------------------------------------------
(***************************************************************************)
(* The first state, and the steps of the kernel and of the World.          *)
(***************************************************************************)
\* BootstrapAcceptedSessionActor: one Accepted event and nothing else.
LEMMA InitInv == Init => IoInv
<1> SUFFICES ASSUME Init PROVE IoInv
  OBVIOUS
<1>1. Len(recvLane) = 1 /\ recvLane \in Seq(RecvEvents) /\ recvLane[1] = "Accepted"
  BY DEF Init, RecvEvents
<1>2. Len(sendLane) = 0 /\ sendLane \in Seq(SendEvents)
  BY DEF Init
<1>3. actor \in ActorState /\ ActorSound(actor)
  <2>1. 0 \in 0 .. 1 /\ 0 \in 0 .. PendingSendQueueCapacity
    BY SessionIoActorAssumption
  <2>2. actor \in ActorState
    BY <2>1 DEF Init, ActorState
  <2>3. /\ ~ actor.closeRequested /\ actor.socketOpen /\ actor.channelOpen
        /\ ~ actor.recvContext /\ actor.recvIo = 0
        /\ ~ actor.sendContext /\ actor.sendIo = 0
        /\ ~ actor.postRecv /\ actor.phase = "Unknown"
    BY DEF Init
  <2>4. ActorSound(actor)
    BY <2>3 DEF ActorSound
  <2> QED
    BY <2>2, <2>4
<1>4. TypeOK
  <2>1. Len(recvLane) <= MailboxCapacity /\ Len(sendLane) <= MailboxCapacity
    BY <1>1, <1>2, SessionIoActorAssumption
  <2>2. run \in [pc: {"Idle", "AcceptRecv", "Send", "EndDrain", "Finish"},
                drained: 0 .. DrainBudget, took: BOOLEAN, failed: BOOLEAN,
                rescheduled: BOOLEAN]
    BY SessionIoActorAssumption DEF Init
  <2>3. world \in [sends: 0 .. MaxSends, closes: 0 .. MaxCloseCalls, sending: BOOLEAN]
    BY SessionIoActorAssumption DEF Init
  <2> QED
    BY <1>1, <1>2, <1>3, <2>1, <2>2, <2>3 DEF Init, TypeOK
<1>5. Count(recvLane, RecvCompletions) = 0
  <2>1. {i \in DOMAIN recvLane : recvLane[i] \in RecvCompletions} = {}
    <3>1. DOMAIN recvLane = {1}
      BY <1>1, LenProperties
    <3> QED
      BY <1>1, <3>1 DEF RecvCompletions
  <2> QED
    BY <2>1, FS_EmptySet DEF Count
<1>6. Count(sendLane, SendCompletions) = 0
  BY CountEmpty DEF Init
<1>7. RecvLedger /\ SendLedger
  BY <1>5, <1>6 DEF Init, RecvLedger, SendLedger, One
<1>8. OneCompletionPerContext
  BY <1>3, <1>7, LedgerForm
<1>9. BirthInv
  BY DEF Init, BirthInv
<1>10. EndInv /\ RunInv
  BY DEF Init, EndInv, RunInv, ErasedOnlyWhenQuiet, Registered
<1> QED
  BY <1>3, <1>4, <1>8, <1>9, <1>10 DEF IoInv

\* Scheduling the actor is always possible.
LEMMA NotifyTyped ==
  ASSUME TypeOK, Notify
  PROVE  gate' \in [phase: {"Idle", "Scheduled", "Draining"}, pending: BOOLEAN]
BY DEF TypeOK, Notify

\* One more event fits the lane it is admitted to.
LEMMA LaneGrows ==
  ASSUME NEW T, NEW lane \in Seq(T), NEW e \in T, MayEnqueue(lane)
  PROVE  /\ Append(lane, e) \in Seq(T)
         /\ Len(Append(lane, e)) <= MailboxCapacity
<1>1. Len(Append(lane, e)) = Len(lane) + 1 /\ Append(lane, e) \in Seq(T)
  BY AppendProperties
<1>2. Len(lane) \in Nat /\ Len(lane) < MailboxCapacity
  BY LenProperties DEF MayEnqueue
<1> QED
  BY <1>1, <1>2, SessionIoActorAssumption

\* Places that are not Accepted stay so, and so is what is added.
LEMMA NoSecondAccept ==
  ASSUME NEW lane \in Seq(RecvEvents), NEW e \in RecvEvents, e # "Accepted",
         \A i \in DOMAIN lane : lane[i] # "Accepted"
  PROVE  \A i \in DOMAIN Append(lane, e) : Append(lane, e)[i] # "Accepted"
<1> DEFINE longer == Append(lane, e)
<1>1. Len(lane) \in Nat /\ DOMAIN lane = 1 .. Len(lane)
  BY LenProperties
<1>2. longer \in Seq(RecvEvents) /\ Len(longer) = Len(lane) + 1
  BY AppendProperties
<1>3. DOMAIN longer = 1 .. Len(lane) + 1
  BY <1>2, LenProperties
<1>4. (\A i \in 1 .. Len(lane) : longer[i] = lane[i]) /\ longer[Len(lane) + 1] = e
  BY AppendProperties
<1> HIDE DEF longer
<1>5. \A i \in DOMAIN longer : longer[i] # "Accepted"
  BY <1>1, <1>3, <1>4
<1> QED
  BY <1>5 DEF longer

\* The kernel hands back the receive: into the lane, or lost.
LEMMA RecvCompletesKeeps ==
  ASSUME IoInv, NEW e \in RecvCompletions, RecvCompletes(e)
  PROVE  IoInv'
<1> USE DEF IoInv
<1>1. /\ kernel.recv
      /\ UNCHANGED <<actor, sendLane, run, lifecycle, world, stopping>>
      /\ e \in RecvEvents /\ e # "Accepted"
  BY DEF RecvCompletes, RecvCompletions, RecvEvents
<1>2. /\ kernel \in [recv: BOOLEAN, send: BOOLEAN, lost: SUBSET {"recv", "send"}]
      /\ recvLane \in Seq(RecvEvents) /\ actor \in ActorState
  BY DEF TypeOK
<1>3. \/ /\ MayEnqueue(recvLane) /\ recvLane' = Append(recvLane, e) /\ Notify
         /\ kernel' = [kernel EXCEPT !.recv = FALSE]
      \/ /\ kernel' = [kernel EXCEPT !.recv = FALSE, !.lost = @ \cup {"recv"}]
         /\ UNCHANGED <<recvLane, gate>>
  BY DEF RecvCompletes
<1>4. TypeOK'
  <2>1. kernel' \in [recv: BOOLEAN, send: BOOLEAN, lost: SUBSET {"recv", "send"}]
    BY <1>2, <1>3
  <2>2. recvLane' \in Seq(RecvEvents) /\ Len(recvLane') <= MailboxCapacity
    <3>1. CASE MayEnqueue(recvLane) /\ recvLane' = Append(recvLane, e)
      BY <1>1, <1>2, <3>1, LaneGrows
    <3>2. CASE recvLane' = recvLane
      BY <3>2 DEF TypeOK
    <3> QED
      BY <1>3, <3>1, <3>2
  <2>3. gate' \in [phase: {"Idle", "Scheduled", "Draining"}, pending: BOOLEAN]
    BY <1>3, NotifyTyped DEF TypeOK
  <2> QED
    BY <1>1, <2>1, <2>2, <2>3 DEF TypeOK
<1>5. ActorSound(actor)' /\ RunInv'
  BY <1>1 DEF RunInv, Registered, ActorSound
<1>6. Registered => RecvLedger' /\ SendLedger'
  <2> SUFFICES ASSUME Registered PROVE RecvLedger' /\ SendLedger'
    OBVIOUS
  <2>1. /\ actor.recvIo = 1 /\ Count(recvLane, RecvCompletions) = 0
        /\ "recv" \notin kernel.lost
    BY <1>1, LedgerBounds
  <2>2. SendLedger'
    <3>1. kernel'.send = kernel.send
      BY <1>2, <1>3
    <3>2. "send" \in kernel'.lost <=> "send" \in kernel.lost
      <4>1. kernel'.lost \in {kernel.lost, kernel.lost \cup {"recv"}}
        BY <1>2, <1>3
      <4> QED
        BY <4>1
    <3> QED
      BY <1>1, <3>1, <3>2, Ledger DEF SendLedger, One
  <2>3. CASE /\ recvLane' = Append(recvLane, e)
             /\ kernel' = [kernel EXCEPT !.recv = FALSE]
    <3>1. Count(recvLane', RecvCompletions) = 1
      BY <1>1, <1>2, <2>1, <2>3, CountAppend
    <3>2. ~ kernel'.recv /\ kernel'.lost = kernel.lost
      BY <1>2, <2>3
    <3> QED
      BY <1>1, <2>1, <2>2, <3>1, <3>2 DEF RecvLedger, One
  <2>4. CASE /\ recvLane' = recvLane
             /\ kernel' = [kernel EXCEPT !.recv = FALSE, !.lost = @ \cup {"recv"}]
    <3>1. ~ kernel'.recv /\ "recv" \in kernel'.lost
      BY <1>2, <2>4
    <3> QED
      BY <1>1, <2>1, <2>2, <2>4, <3>1 DEF RecvLedger, One
  <2> QED
    BY <1>3, <2>3, <2>4
<1>7. OneCompletionPerContext'
  BY <1>1, <1>5, <1>6, LedgerFormPrime DEF Registered
<1>8. BirthInv'
  <2>1. CASE actor.phase = "Unknown"
    <3>1. ~ Registered
      BY <1>1, <2>1, LedgerBounds DEF BirthInv
    <3>2. recvLane' = recvLane
      BY <1>3, <3>1 DEF MayEnqueue
    <3> QED
      BY <1>1, <2>1, <3>2 DEF BirthInv, Registered
  <2>2. CASE actor.phase # "Unknown"
    BY <1>1, <1>2, <1>3, <2>2, NoSecondAccept DEF BirthInv
  <2> QED
    BY <2>1, <2>2
<1>9. EndInv'
  <2>1. lifecycle # "Erased"
    BY <1>1 DEF EndInv, ErasedOnlyWhenQuiet
  <2>2. ErasedOnlyWhenQuiet'
    BY <1>1, <2>1 DEF ErasedOnlyWhenQuiet
  <2> QED
    BY <1>1, <2>2 DEF EndInv, HasPendingIo
<1> QED
  BY <1>4, <1>5, <1>7, <1>8, <1>9

\* The same of the send.
LEMMA SendCompletesKeeps ==
  ASSUME IoInv, NEW e \in SendCompletions, SendCompletes(e)
  PROVE  IoInv'
<1> USE DEF IoInv
<1>1. /\ kernel.send
      /\ UNCHANGED <<actor, recvLane, run, lifecycle, world, stopping>>
      /\ e \in SendEvents
  BY DEF SendCompletes, SendCompletions, SendEvents
<1>2. /\ kernel \in [recv: BOOLEAN, send: BOOLEAN, lost: SUBSET {"recv", "send"}]
      /\ sendLane \in Seq(SendEvents) /\ actor \in ActorState
  BY DEF TypeOK
<1>3. \/ /\ MayEnqueue(sendLane) /\ sendLane' = Append(sendLane, e) /\ Notify
         /\ kernel' = [kernel EXCEPT !.send = FALSE]
      \/ /\ kernel' = [kernel EXCEPT !.send = FALSE, !.lost = @ \cup {"send"}]
         /\ UNCHANGED <<sendLane, gate>>
  BY DEF SendCompletes
<1>4. TypeOK'
  <2>1. kernel' \in [recv: BOOLEAN, send: BOOLEAN, lost: SUBSET {"recv", "send"}]
    BY <1>2, <1>3
  <2>2. sendLane' \in Seq(SendEvents) /\ Len(sendLane') <= MailboxCapacity
    <3>1. CASE MayEnqueue(sendLane) /\ sendLane' = Append(sendLane, e)
      BY <1>1, <1>2, <3>1, LaneGrows
    <3>2. CASE sendLane' = sendLane
      BY <3>2 DEF TypeOK
    <3> QED
      BY <1>3, <3>1, <3>2
  <2>3. gate' \in [phase: {"Idle", "Scheduled", "Draining"}, pending: BOOLEAN]
    BY <1>3, NotifyTyped DEF TypeOK
  <2> QED
    BY <1>1, <2>1, <2>2, <2>3 DEF TypeOK
<1>5. ActorSound(actor)' /\ RunInv'
  BY <1>1 DEF RunInv, Registered, ActorSound
<1>6. Registered => RecvLedger' /\ SendLedger'
  <2> SUFFICES ASSUME Registered PROVE RecvLedger' /\ SendLedger'
    OBVIOUS
  <2>1. /\ actor.sendIo = 1 /\ Count(sendLane, SendCompletions) = 0
        /\ "send" \notin kernel.lost
    BY <1>1, LedgerBounds
  <2>2. RecvLedger'
    <3>1. kernel'.recv = kernel.recv
      BY <1>2, <1>3
    <3>2. "recv" \in kernel'.lost <=> "recv" \in kernel.lost
      <4>1. kernel'.lost \in {kernel.lost, kernel.lost \cup {"send"}}
        BY <1>2, <1>3
      <4> QED
        BY <4>1
    <3> QED
      BY <1>1, <3>1, <3>2, Ledger DEF RecvLedger, One
  <2>3. CASE /\ sendLane' = Append(sendLane, e)
             /\ kernel' = [kernel EXCEPT !.send = FALSE]
    <3>1. Count(sendLane', SendCompletions) = 1
      BY <1>1, <1>2, <2>1, <2>3, CountAppend
    <3>2. ~ kernel'.send /\ kernel'.lost = kernel.lost
      BY <1>2, <2>3
    <3> QED
      BY <1>1, <2>1, <2>2, <3>1, <3>2 DEF SendLedger, One
  <2>4. CASE /\ sendLane' = sendLane
             /\ kernel' = [kernel EXCEPT !.send = FALSE, !.lost = @ \cup {"send"}]
    <3>1. ~ kernel'.send /\ "send" \in kernel'.lost
      BY <1>2, <2>4
    <3> QED
      BY <1>1, <2>1, <2>2, <2>4, <3>1 DEF SendLedger, One
  <2> QED
    BY <1>3, <2>3, <2>4
<1>7. OneCompletionPerContext'
  BY <1>1, <1>5, <1>6, LedgerFormPrime DEF Registered
<1>8. BirthInv'
  <2>1. CASE actor.phase = "Unknown"
    <3>1. ~ Registered
      BY <1>1, <2>1, LedgerBounds DEF BirthInv
    <3>2. sendLane' = sendLane
      BY <1>3, <3>1 DEF MayEnqueue
    <3> QED
      BY <1>1, <2>1, <3>2 DEF BirthInv, Registered
  <2>2. CASE actor.phase # "Unknown"
    BY <1>1, <2>2 DEF BirthInv
  <2> QED
    BY <2>1, <2>2
<1>9. EndInv'
  <2>1. lifecycle # "Erased"
    BY <1>1 DEF EndInv, ErasedOnlyWhenQuiet
  <2>2. ErasedOnlyWhenQuiet'
    BY <1>1, <2>1 DEF ErasedOnlyWhenQuiet
  <2> QED
    BY <1>1, <2>2 DEF EndInv, HasPendingIo
<1> QED
  BY <1>4, <1>5, <1>7, <1>8, <1>9

\* What the World does before it enqueues changes nothing of the session.
LEMMA SeesChannelOpenKeeps ==
  ASSUME IoInv, SeesChannelOpen
  PROVE  IoInv'
<1> USE DEF IoInv
<1>1. /\ actor.phase # "Unknown" /\ world.sends < MaxSends
      /\ world' = [world EXCEPT !.sending = TRUE, !.sends = @ + 1]
      /\ UNCHANGED <<actor, recvLane, sendLane, kernel, gate, run, lifecycle, stopping>>
  BY DEF SeesChannelOpen
<1>2. TypeOK'
  <2>1. world' \in [sends: 0 .. MaxSends, closes: 0 .. MaxCloseCalls, sending: BOOLEAN]
    <3>1. world.sends + 1 \in 0 .. MaxSends
      BY <1>1, SessionIoActorAssumption DEF TypeOK
    <3> DEFINE sent == 0 .. MaxSends
    <3>2. world.sends + 1 \in sent /\ world \in [sends: sent, closes: 0 .. MaxCloseCalls,
                                                 sending: BOOLEAN]
      BY <3>1 DEF TypeOK
    <3> HIDE DEF sent
    <3>3. world' \in [sends: sent, closes: 0 .. MaxCloseCalls, sending: BOOLEAN]
      BY <1>1, <3>2
    <3> QED
      BY <3>3 DEF sent
  <2> QED
    BY <1>1, <2>1 DEF TypeOK
<1>3. BirthInv'
  BY <1>1 DEF BirthInv
<1>4. OneCompletionPerContext'
  BY <1>1 DEF OneCompletionPerContext, Registered
<1>5. ActorSound(actor)' /\ EndInv' /\ RunInv'
  BY <1>1 DEF ActorSound, EndInv, RunInv, Registered, ErasedOnlyWhenQuiet, HasPendingIo
<1> QED
  BY <1>2, <1>3, <1>4, <1>5

\* The World enqueues a payload, or is refused.
LEMMA EnqueueSendRequestedKeeps ==
  ASSUME IoInv, EnqueueSendRequested
  PROVE  IoInv'
<1> USE DEF IoInv
<1>1. /\ world.sending /\ world' = [world EXCEPT !.sending = FALSE]
      /\ UNCHANGED <<actor, recvLane, kernel, run, lifecycle, stopping>>
  BY DEF EnqueueSendRequested
<1>2. \/ /\ MayEnqueue(sendLane) /\ sendLane' = Append(sendLane, "SendRequested") /\ Notify
      \/ UNCHANGED <<sendLane, gate>>
  BY DEF EnqueueSendRequested
<1>3. /\ sendLane \in Seq(SendEvents) /\ "SendRequested" \in SendEvents
      /\ "SendRequested" \notin SendCompletions
      /\ Count(sendLane, SendCompletions) \in Nat
  BY LaneCounts DEF TypeOK, SendEvents, SendCompletions
<1>4. TypeOK'
  <2>1. sendLane' \in Seq(SendEvents) /\ Len(sendLane') <= MailboxCapacity
    <3>1. CASE MayEnqueue(sendLane) /\ sendLane' = Append(sendLane, "SendRequested")
      BY <1>3, <3>1, LaneGrows
    <3>2. CASE sendLane' = sendLane
      BY <3>2 DEF TypeOK
    <3> QED
      BY <1>2, <3>1, <3>2
  <2>2. gate' \in [phase: {"Idle", "Scheduled", "Draining"}, pending: BOOLEAN]
    BY <1>2, NotifyTyped DEF TypeOK
  <2>3. world' \in [sends: 0 .. MaxSends, closes: 0 .. MaxCloseCalls, sending: BOOLEAN]
    BY <1>1 DEF TypeOK
  <2> QED
    BY <1>1, <2>1, <2>2, <2>3 DEF TypeOK
<1>5. ActorSound(actor)' /\ RunInv'
  BY <1>1 DEF ActorSound, RunInv, Registered
<1>6. Count(sendLane', SendCompletions) = Count(sendLane, SendCompletions)
  <2>1. CASE sendLane' = Append(sendLane, "SendRequested")
    BY <1>3, <2>1, CountAppend
  <2>2. CASE sendLane' = sendLane
    BY <2>2
  <2> QED
    BY <1>2, <2>1, <2>2
<1>7. OneCompletionPerContext'
  <2>1. Registered => RecvLedger' /\ SendLedger'
    BY <1>1, <1>6, Ledger DEF RecvLedger, SendLedger
  <2> QED
    BY <1>1, <1>5, <2>1, LedgerFormPrime DEF Registered
<1>8. BirthInv'
  BY <1>1 DEF BirthInv
<1>9. EndInv'
  <2>1. ErasedOnlyWhenQuiet'
    BY <1>1, <1>6, QuietForm DEF EndInv
  <2> QED
    BY <1>1, <2>1 DEF EndInv, HasPendingIo
<1> QED
  BY <1>4, <1>5, <1>7, <1>8, <1>9

\* The World asks for the close.
LEMMA RequestSessionCloseKeeps ==
  ASSUME IoInv, RequestSessionClose
  PROVE  IoInv'
<1> USE DEF IoInv
<1>1. /\ actor.phase # "Unknown" /\ world.closes < MaxCloseCalls /\ MayEnqueue(recvLane)
      /\ world' = [world EXCEPT !.closes = @ + 1]
      /\ recvLane' = Append(recvLane, "CloseRequested") /\ Notify
      /\ UNCHANGED <<actor, sendLane, kernel, run, lifecycle, stopping>>
  BY DEF RequestSessionClose
<1>2. /\ recvLane \in Seq(RecvEvents) /\ "CloseRequested" \in RecvEvents
      /\ "CloseRequested" \notin RecvCompletions
      /\ Count(recvLane, RecvCompletions) \in Nat
  BY LaneCounts DEF TypeOK, RecvEvents, RecvCompletions
<1>3. TypeOK'
  <2>1. recvLane' \in Seq(RecvEvents) /\ Len(recvLane') <= MailboxCapacity
    BY <1>1, <1>2, LaneGrows
  <2>2. gate' \in [phase: {"Idle", "Scheduled", "Draining"}, pending: BOOLEAN]
    BY <1>1, NotifyTyped
  <2>3. world' \in [sends: 0 .. MaxSends, closes: 0 .. MaxCloseCalls, sending: BOOLEAN]
    <3>1. world.closes + 1 \in 0 .. MaxCloseCalls
      BY <1>1, SessionIoActorAssumption DEF TypeOK
    <3> DEFINE closed == 0 .. MaxCloseCalls
    <3>2. world.closes + 1 \in closed /\ world \in [sends: 0 .. MaxSends, closes: closed,
                                                    sending: BOOLEAN]
      BY <3>1 DEF TypeOK
    <3> HIDE DEF closed
    <3>3. world' \in [sends: 0 .. MaxSends, closes: closed, sending: BOOLEAN]
      BY <1>1, <3>2
    <3> QED
      BY <3>3 DEF closed
  <2> QED
    BY <1>1, <2>1, <2>2, <2>3 DEF TypeOK
<1>4. ActorSound(actor)' /\ RunInv'
  BY <1>1 DEF ActorSound, RunInv, Registered
<1>5. Count(recvLane', RecvCompletions) = Count(recvLane, RecvCompletions)
  BY <1>1, <1>2, CountAppend
<1>6. OneCompletionPerContext'
  <2>1. Registered => RecvLedger' /\ SendLedger'
    BY <1>1, <1>5, Ledger DEF RecvLedger, SendLedger
  <2> QED
    BY <1>1, <1>4, <2>1, LedgerFormPrime DEF Registered
<1>7. BirthInv'
  BY <1>1, <1>2, NoSecondAccept DEF BirthInv
<1>8. EndInv'
  <2>1. ErasedOnlyWhenQuiet'
    BY <1>1, <1>5, QuietForm DEF EndInv
  <2> QED
    BY <1>1, <2>1 DEF EndInv, HasPendingIo
<1> QED
  BY <1>3, <1>4, <1>6, <1>7, <1>8

\* A step of the gate, the run or the scheduler that leaves the session, its lanes
\* and its entry alone.
LEMMA RestsKeeps ==
  ASSUME IoInv, TypeOK', RunInv',
         UNCHANGED <<actor, recvLane, sendLane, kernel, lifecycle, world>>
  PROVE  IoInv'
<1>1. OneCompletionPerContext' /\ BirthInv'
  BY DEF IoInv, OneCompletionPerContext, BirthInv, Registered
<1>2. ActorSound(actor)' /\ EndInv'
  BY DEF IoInv, ActorSound, EndInv, ErasedOnlyWhenQuiet, HasPendingIo
<1> QED
  BY <1>1, <1>2 DEF IoInv

-----------------------------------------------------------------------------
(***************************************************************************)
(* The steps of the worker.                                                *)
(***************************************************************************)
RunState == [pc: {"Idle", "AcceptRecv", "Send", "EndDrain", "Finish"},
             drained: 0 .. DrainBudget, took: BOOLEAN, failed: BOOLEAN,
             rescheduled: BOOLEAN]

\* TryRun starts a drain with a full budget.
LEMMA BeginDrainKeeps ==
  ASSUME IoInv, BeginDrain
  PROVE  IoInv'
<1>1. /\ Registered /\ UNCHANGED <<actor, recvLane, sendLane, kernel, lifecycle, world, stopping>>
      /\ gate' = [phase |-> "Draining", pending |-> FALSE]
      /\ run' = [pc |-> "AcceptRecv", drained |-> 0, took |-> FALSE,
                 failed |-> FALSE, rescheduled |-> FALSE]
  BY DEF BeginDrain
<1>2. 0 \in 0 .. DrainBudget /\ 0 < DrainBudget
  BY SessionIoActorAssumption
<1>3. run' \in RunState
  BY <1>1, <1>2 DEF RunState
<1>4. gate' \in [phase: {"Idle", "Scheduled", "Draining"}, pending: BOOLEAN]
  BY <1>1
<1>5. TypeOK'
  BY <1>1, <1>3, <1>4 DEF IoInv, TypeOK, RunState
<1>6. RunInv'
  BY <1>1, <1>2 DEF RunInv, Registered
<1> QED
  BY <1>1, <1>5, <1>6, RestsKeeps

\* The drain ends; the actor is scheduled again or rests.
LEMMA CompleteDrainKeeps ==
  ASSUME IoInv, CompleteDrain
  PROVE  IoInv'
<1> DEFINE again == gate.pending \/ (~ run.failed /\ run.drained = DrainBudget)
<1>1. /\ run.pc = "EndDrain"
      /\ UNCHANGED <<actor, recvLane, sendLane, kernel, lifecycle, world, stopping>>
      /\ gate' = [phase |-> IF again THEN "Scheduled" ELSE "Idle", pending |-> FALSE]
      /\ run' = [run EXCEPT !.pc = "Finish", !.rescheduled = again]
  BY DEF CompleteDrain
<1>2. again \in BOOLEAN
  BY DEF IoInv, TypeOK
<1> HIDE DEF again
<1>3. run \in RunState
  BY DEF IoInv, TypeOK, RunState
<1>4. run' \in RunState /\ run'.pc = "Finish" /\ run'.failed = run.failed
  BY <1>1, <1>2, <1>3 DEF RunState
<1>5. gate' \in [phase: {"Idle", "Scheduled", "Draining"}, pending: BOOLEAN]
  BY <1>1
<1>6. TypeOK'
  BY <1>1, <1>4, <1>5 DEF IoInv, TypeOK, RunState
<1>7. RunInv'
  BY <1>1, <1>4 DEF IoInv, RunInv, Registered
<1> QED
  BY <1>1, <1>6, <1>7, RestsKeeps

\* A lane that is found empty.
LEMMA EmptyLaneKeeps ==
  ASSUME IoInv, NEW r \in RunState, run' = r, r.failed = run.failed,
         r.pc \in {"AcceptRecv", "Send"} => r.drained < DrainBudget, run.pc # "Idle",
         UNCHANGED <<actor, kernel, recvLane, sendLane, gate, lifecycle, world, stopping>>
  PROVE  IoInv'
<1>1. TypeOK'
  BY DEF IoInv, TypeOK, RunState
<1>2. RunInv'
  BY DEF IoInv, RunInv, Registered
<1> QED
  BY <1>1, <1>2, RestsKeeps

\* An event of either lane has been handled, with an outcome of its handler.
LEMMA AfterEventKeeps ==
  ASSUME IoInv, run.pc \in {"AcceptRecv", "Send"},
         NEW r \in Nat, NEW s \in Nat, NEW o, Outcome(actor, o, r, s),
         NEW next \in {"AcceptRecv", "Send"}, AfterEvent(o, next),
         recvLane' \in Seq(RecvEvents), Len(recvLane') <= MailboxCapacity,
         sendLane' \in Seq(SendEvents), Len(sendLane') <= MailboxCapacity,
         Count(recvLane, RecvCompletions) = Count(recvLane', RecvCompletions) + r,
         Count(sendLane, SendCompletions) = Count(sendLane', SendCompletions) + s,
         \A i \in DOMAIN recvLane' : recvLane'[i] # "Accepted",
         UNCHANGED <<gate, lifecycle, world, stopping>>
  PROVE  IoInv'
<1>1. Registered /\ Registered'
  BY DEF IoInv, RunInv, Registered
<1>2. /\ actor' = o.actor /\ o \in OutcomeState
      /\ ActorSound(o.actor) /\ o.actor.phase # "Unknown"
      /\ o.actor.recvIo = actor.recvIo - r + (IF o.posted = "recv" THEN 1 ELSE 0)
      /\ o.actor.sendIo = actor.sendIo - s + (IF o.posted = "send" THEN 1 ELSE 0)
      /\ o.failed => o.actor.closeRequested
      /\ actor.closeRequested => o.actor.closeRequested /\ o.posted = "None"
  BY DEF AfterEvent, Outcome
<1>3. actor' \in ActorState /\ o.failed \in BOOLEAN /\ o.posted \in {"None", "recv", "send"}
  BY <1>2 DEF OutcomeState
<1>4. ActorSound(actor)'
  BY <1>2 DEF ActorSound
<1>5. /\ Count(recvLane', RecvCompletions) \in Nat
      /\ Count(sendLane', SendCompletions) \in Nat
  BY PlacesFinite
<1>6. /\ actor'.recvIo \in 0 .. 1 /\ actor'.sendIo \in 0 .. 1
      /\ actor.recvIo \in 0 .. 1 /\ actor.sendIo \in 0 .. 1
  BY <1>3 DEF IoInv, TypeOK, ActorState
<1>7. /\ kernel \in [recv: BOOLEAN, send: BOOLEAN, lost: SUBSET {"recv", "send"}]
      /\ run \in RunState
  BY DEF IoInv, TypeOK, RunState
<1>8. /\ kernel' \in [recv: BOOLEAN, send: BOOLEAN, lost: SUBSET {"recv", "send"}]
      /\ kernel'.lost = kernel.lost
      /\ kernel'.recv <=> kernel.recv \/ o.posted = "recv"
      /\ kernel'.send <=> kernel.send \/ o.posted = "send"
  <2>1. CASE o.posted = "recv"
    <3>1. kernel' = [kernel EXCEPT !.recv = TRUE]
      BY <2>1 DEF AfterEvent
    <3> QED
      BY <1>7, <2>1, <3>1
  <2>2. CASE o.posted = "send"
    <3>1. kernel' = [kernel EXCEPT !.send = TRUE]
      BY <2>2 DEF AfterEvent
    <3> QED
      BY <1>7, <2>2, <3>1
  <2>3. CASE o.posted = "None"
    <3>1. kernel' = kernel
      BY <2>3 DEF AfterEvent
    <3> QED
      BY <1>7, <2>3, <3>1
  <2> QED
    BY <1>3, <2>1, <2>2, <2>3
<1>9. RecvLedger' /\ SendLedger'
  <2>1. RecvLedger /\ SendLedger
    BY <1>1, Ledger
  <2>2. RecvLedger'
    <3> DEFINE held == One(kernel.recv)
               left == Count(recvLane', RecvCompletions)
               lost == One("recv" \in kernel.lost)
    <3>1. held \in Nat /\ left \in Nat /\ lost \in Nat /\ (kernel.recv <=> held # 0)
      BY <1>5 DEF One
    <3>2. actor.recvIo = held + (left + r) + lost
      BY <2>1 DEF RecvLedger
    <3>3. One(kernel'.recv) = (IF o.posted = "recv" THEN 1 ELSE held)
      BY <1>8 DEF One
    <3> HIDE DEF held, left, lost
    <3>4. actor'.recvIo = One(kernel'.recv) + left + lost
      BY <1>2, <1>6, <3>1, <3>2, <3>3
    <3> QED
      BY <1>8, <3>4 DEF RecvLedger, left, lost
  <2>3. SendLedger'
    <3> DEFINE held == One(kernel.send)
               left == Count(sendLane', SendCompletions)
               lost == One("send" \in kernel.lost)
    <3>1. held \in Nat /\ left \in Nat /\ lost \in Nat /\ (kernel.send <=> held # 0)
      BY <1>5 DEF One
    <3>2. actor.sendIo = held + (left + s) + lost
      BY <2>1 DEF SendLedger
    <3>3. One(kernel'.send) = (IF o.posted = "send" THEN 1 ELSE held)
      BY <1>8 DEF One
    <3> HIDE DEF held, left, lost
    <3>4. actor'.sendIo = One(kernel'.send) + left + lost
      BY <1>2, <1>6, <3>1, <3>2, <3>3
    <3> QED
      BY <1>8, <3>4 DEF SendLedger, left, lost
  <2> QED
    BY <2>2, <2>3
<1>10. OneCompletionPerContext'
  BY <1>4, <1>9, LedgerFormPrime
<1>11. BirthInv'
  BY <1>2 DEF BirthInv
<1>12. EndInv'
  <2>1. lifecycle' # "Active" => actor'.closeRequested
    BY <1>2 DEF IoInv, EndInv
  <2>2. lifecycle' = "ReadyToDeregister" => ~ HasPendingIo(actor')
    <3> SUFFICES ASSUME lifecycle = "ReadyToDeregister" PROVE ~ HasPendingIo(actor')
      OBVIOUS
    <3>1. actor.closeRequested /\ actor.recvIo = 0 /\ actor.sendIo = 0
      BY DEF IoInv, EndInv, HasPendingIo
    <3>2. actor'.recvIo = 0 /\ actor'.sendIo = 0
      BY <1>2, <1>6, <3>1
    <3> QED
      BY <3>2 DEF HasPendingIo
  <2>3. lifecycle' # "Erased"
    BY <1>1 DEF Registered
  <2> QED
    BY <2>1, <2>2, <2>3 DEF EndInv, ErasedOnlyWhenQuiet
<1>13. /\ run' \in RunState /\ run'.failed = o.failed
       /\ run'.pc \in {"AcceptRecv", "Send"} => run'.drained < DrainBudget
  <2>1. run.drained \in Nat /\ run.drained < DrainBudget /\ DrainBudget \in Nat
    BY <1>7, SessionIoActorAssumption DEF IoInv, RunInv, RunState
  <2>2. run.drained + 1 \in 0 .. DrainBudget
    BY <2>1
  <2> DEFINE pc == IF o.failed \/ run.drained + 1 = DrainBudget THEN "EndDrain" ELSE next
             drained == run.drained + 1
             budget == 0 .. DrainBudget
  <2>3. run' = [run EXCEPT !.drained = drained, !.failed = o.failed, !.took = TRUE, !.pc = pc]
    BY DEF AfterEvent
  <2>4. /\ pc \in {"AcceptRecv", "Send", "EndDrain"} /\ drained \in budget
        /\ pc \in {"AcceptRecv", "Send"} => drained < DrainBudget
    BY <2>1, <2>2
  <2>5. RunState = [pc: {"Idle", "AcceptRecv", "Send", "EndDrain", "Finish"},
                    drained: budget, took: BOOLEAN, failed: BOOLEAN,
                    rescheduled: BOOLEAN]
    BY DEF RunState
  <2> HIDE DEF pc, drained, budget
  <2> QED
    BY <1>3, <1>7, <2>3, <2>4, <2>5
<1>14. RunInv'
  BY <1>1, <1>2, <1>13 DEF RunInv
<1>15. TypeOK'
  BY <1>3, <1>8, <1>13 DEF IoInv, TypeOK, RunState
<1> QED
  BY <1>4, <1>10, <1>11, <1>12, <1>14, <1>15 DEF IoInv

\* What is left of a lane without its head.
LEMMA TakenLane ==
  ASSUME NEW T, NEW lane \in Seq(T), lane # <<>>, Len(lane) <= MailboxCapacity
  PROVE  /\ Head(lane) \in T /\ Head(lane) = lane[1] /\ 1 \in DOMAIN lane
         /\ Tail(lane) \in Seq(T) /\ Len(Tail(lane)) <= MailboxCapacity
         /\ \A i \in DOMAIN Tail(lane) : i + 1 \in DOMAIN lane /\ Tail(lane)[i] = lane[i + 1]
<1>1. /\ Head(lane) \in T /\ Tail(lane) \in Seq(T) /\ Len(Tail(lane)) = Len(lane) - 1
      /\ \A i \in 1 .. Len(Tail(lane)) : Tail(lane)[i] = lane[i + 1]
  BY HeadTailProperties
<1>2. Len(lane) \in Nat \ {0} /\ DOMAIN lane = 1 .. Len(lane) /\ Head(lane) = lane[1]
  BY LenProperties, EmptySeq
<1>3. DOMAIN Tail(lane) = 1 .. Len(lane) - 1
  BY <1>1, LenProperties
<1> QED
  BY <1>1, <1>2, <1>3, SessionIoActorAssumption

\* A turn of the accept and receive lane.
LEMMA DrainRecvKeeps ==
  ASSUME IoInv, TryDrainOneAcceptRecvEvent
  PROVE  IoInv'
<1>1. run.pc = "AcceptRecv" /\ UNCHANGED <<sendLane, gate, lifecycle, world, stopping>>
  BY DEF TryDrainOneAcceptRecvEvent
<1>2. /\ recvLane \in Seq(RecvEvents) /\ Len(recvLane) <= MailboxCapacity
      /\ sendLane \in Seq(SendEvents) /\ Len(sendLane) <= MailboxCapacity
      /\ actor \in ActorState /\ ActorSound(actor) /\ run \in RunState
  BY DEF IoInv, TypeOK, RunState
<1>3. Registered
  BY <1>1 DEF IoInv, RunInv
<1>4. CASE recvLane # <<>>
  <2> DEFINE e == Head(recvLane)
  <2>1. /\ e \in RecvEvents /\ e = recvLane[1] /\ 1 \in DOMAIN recvLane
        /\ Tail(recvLane) \in Seq(RecvEvents) /\ Len(Tail(recvLane)) <= MailboxCapacity
        /\ \A i \in DOMAIN Tail(recvLane) :
             i + 1 \in DOMAIN recvLane /\ Tail(recvLane)[i] = recvLane[i + 1]
    BY <1>2, <1>4, TakenLane
  <2>2. PICK o \in HandleRecvEvent(actor, e) : AfterEvent(o, "Send")
    BY <1>4 DEF TryDrainOneAcceptRecvEvent
  <2>3. recvLane' = Tail(recvLane)
    BY <1>4 DEF TryDrainOneAcceptRecvEvent
  <2>4. Count(recvLane, RecvCompletions)
          = Count(Tail(recvLane), RecvCompletions) + Taken(e, RecvCompletions)
    BY <1>2, <1>4, CountTail DEF Taken
  <2> HIDE DEF e
  <2>5. Count(Tail(recvLane), RecvCompletions) \in Nat
    BY <2>1, PlacesFinite
  <2>6. e \in RecvCompletions => actor.recvIo = 1
    BY <1>3, <2>4, <2>5, LedgerBounds DEF Taken
  <2>7. /\ actor.phase = "Unknown" <=> e = "Accepted"
        /\ e = "Accepted" => ~ actor.recvContext /\ ~ actor.postRecv /\ ~ actor.closeRequested
    BY <1>3, <2>1 DEF IoInv, BirthInv
  <2>8. Outcome(actor, o, Taken(e, RecvCompletions), 0)
    BY <1>2, <2>1, <2>2, <2>6, <2>7, RecvEventOutcome
  <2>9. \A i \in DOMAIN recvLane' : recvLane'[i] # "Accepted"
    <3>1. CASE actor.phase = "Unknown"
      <4>1. recvLane = <<"Accepted">>
        BY <3>1 DEF IoInv, BirthInv
      <4>2. DOMAIN Tail(recvLane) = {}
        BY <4>1
      <4> QED
        BY <2>3, <4>2
    <3>2. CASE actor.phase # "Unknown"
      BY <2>1, <2>3, <3>2 DEF IoInv, BirthInv
    <3> QED
      BY <3>1, <3>2
  <2>10. Taken(e, RecvCompletions) \in Nat
    BY DEF Taken
  <2>11. Count(sendLane, SendCompletions) \in Nat
    BY <1>2, PlacesFinite
  <2>12. Count(sendLane, SendCompletions) = Count(sendLane', SendCompletions) + 0
    BY <1>1, <2>11
  <2> QED
    BY <1>1, <1>2, <2>1, <2>2, <2>3, <2>4, <2>8, <2>9, <2>10, <2>12, AfterEventKeeps
<1>5. CASE recvLane = <<>>
  <2>1. /\ run' = [run EXCEPT !.took = FALSE, !.pc = "Send"]
        /\ UNCHANGED <<actor, kernel, recvLane>>
    BY <1>5 DEF TryDrainOneAcceptRecvEvent
  <2>2. run' \in RunState /\ run'.failed = run.failed /\ run'.drained = run.drained
    BY <1>2, <2>1 DEF RunState
  <2>3. run.drained < DrainBudget
    BY <1>1 DEF IoInv, RunInv
  <2> QED
    BY <1>1, <2>1, <2>2, <2>3, EmptyLaneKeeps
<1> QED
  BY <1>4, <1>5

\* A turn of the send lane.
LEMMA DrainSendKeeps ==
  ASSUME IoInv, TryDrainOneSendEvent
  PROVE  IoInv'
<1>1. run.pc = "Send" /\ UNCHANGED <<recvLane, gate, lifecycle, world, stopping>>
  BY DEF TryDrainOneSendEvent
<1>2. /\ recvLane \in Seq(RecvEvents) /\ Len(recvLane) <= MailboxCapacity
      /\ sendLane \in Seq(SendEvents) /\ Len(sendLane) <= MailboxCapacity
      /\ actor \in ActorState /\ ActorSound(actor) /\ run \in RunState
  BY DEF IoInv, TypeOK, RunState
<1>3. Registered
  BY <1>1 DEF IoInv, RunInv
<1>4. CASE sendLane # <<>>
  <2> DEFINE e == Head(sendLane)
  <2>1. /\ e \in SendEvents
        /\ Tail(sendLane) \in Seq(SendEvents) /\ Len(Tail(sendLane)) <= MailboxCapacity
    BY <1>2, <1>4, TakenLane
  <2>2. PICK o \in HandleSendEvent(actor, e) : AfterEvent(o, "AcceptRecv")
    BY <1>4 DEF TryDrainOneSendEvent
  <2>3. sendLane' = Tail(sendLane)
    BY <1>4 DEF TryDrainOneSendEvent
  <2>4. Count(sendLane, SendCompletions)
          = Count(Tail(sendLane), SendCompletions) + Taken(e, SendCompletions)
    BY <1>2, <1>4, CountTail DEF Taken
  <2> HIDE DEF e
  <2>5. Count(Tail(sendLane), SendCompletions) \in Nat
    BY <2>1, PlacesFinite
  <2>6. e \in SendCompletions => actor.sendIo = 1
    BY <1>3, <2>4, <2>5, LedgerBounds DEF Taken
  <2>7. actor.phase # "Unknown"
    BY <1>4 DEF IoInv, BirthInv
  <2>8. Outcome(actor, o, 0, Taken(e, SendCompletions))
    BY <1>2, <2>1, <2>2, <2>6, <2>7, SendEventOutcome
  <2>9. \A i \in DOMAIN recvLane' : recvLane'[i] # "Accepted"
    BY <1>1, <2>7 DEF IoInv, BirthInv
  <2>10. Taken(e, SendCompletions) \in Nat
    BY DEF Taken
  <2>11. Count(recvLane, RecvCompletions) \in Nat
    BY <1>2, PlacesFinite
  <2>12. Count(recvLane, RecvCompletions) = Count(recvLane', RecvCompletions) + 0
    BY <1>1, <2>11
  <2> QED
    BY <1>1, <1>2, <2>1, <2>2, <2>3, <2>4, <2>8, <2>9, <2>10, <2>12, AfterEventKeeps
<1>5. CASE sendLane = <<>>
  <2>1. /\ run' = [run EXCEPT !.pc = IF run.took THEN "AcceptRecv" ELSE "EndDrain"]
        /\ UNCHANGED <<actor, kernel, sendLane>>
    BY <1>5 DEF TryDrainOneSendEvent
  <2>2. run' \in RunState /\ run'.failed = run.failed /\ run'.drained = run.drained
    BY <1>2, <2>1 DEF RunState
  <2>3. run.drained < DrainBudget
    BY <1>1 DEF IoInv, RunInv
  <2> QED
    BY <1>1, <2>1, <2>2, <2>3, EmptyLaneKeeps
<1> QED
  BY <1>4, <1>5

\* The report is taken and the next receive posted; the outcome as FinishRun sees it.
FinishOutcome(o) ==
    /\ o \in OutcomeState
    /\ ActorSound(o.actor)
    /\ o.actor.recvIo = actor.recvIo + (IF o.posted = "recv" THEN 1 ELSE 0)
    /\ o.actor.sendIo = actor.sendIo /\ o.posted # "send"
    /\ o.failed => o.actor.closeRequested
    /\ actor.closeRequested => o.actor.closeRequested /\ o.posted = "None"
    /\ IF actor.phase = "Unknown"
       THEN /\ o.actor.phase = "Unknown" /\ ~ o.actor.closeRequested
            /\ ~ o.actor.recvContext /\ ~ o.actor.sendContext /\ ~ o.actor.postRecv
       ELSE o.actor.phase # "Unknown"

\* Only a live session without a pending receive posts the next one.
LEMMA FinishOutcomes ==
  ASSUME IoInv, Registered,
         NEW x, x = [actor EXCEPT !.postRecv = FALSE],
         NEW o \in IF MayPostRecv(actor, run.failed) THEN PostRequestedRecv(x) ELSE {Ok(x)}
  PROVE  FinishOutcome(o)
<1>1. actor \in ActorState /\ ActorSound(actor)
  BY DEF IoInv, TypeOK
<1>2. /\ x \in ActorState /\ ActorSound(x) /\ x.phase = actor.phase
      /\ x.closeRequested = actor.closeRequested
      /\ x.recvContext = actor.recvContext /\ x.sendContext = actor.sendContext
      /\ x.recvIo = actor.recvIo /\ x.sendIo = actor.sendIo /\ ~ x.postRecv
  <2>1. x \in ActorState
    BY <1>1 DEF ActorState
  <2>2. /\ x.closeRequested = actor.closeRequested /\ x.socketOpen = actor.socketOpen
        /\ x.channelOpen = actor.channelOpen /\ x.postRecv = FALSE
        /\ x.recvContext = actor.recvContext /\ x.sendContext = actor.sendContext
        /\ x.recvIo = actor.recvIo /\ x.sendIo = actor.sendIo /\ x.phase = actor.phase
    BY <1>1 DEF ActorState
  <2>3. ActorSound(x)
    BY <1>1, <2>2 DEF ActorSound
  <2> QED
    BY <2>1, <2>2, <2>3
<1>3. actor.recvIo \in Nat /\ actor.sendIo \in Nat
  BY <1>1 DEF ActorState
<1>4. CASE MayPostRecv(actor, run.failed)
  <2>1. actor.postRecv /\ o \in PostRequestedRecv(x)
    BY <1>4 DEF MayPostRecv
  <2>2. ~ x.recvContext
    BY <1>1, <1>2, <2>1 DEF ActorSound
  <2>3. actor.phase # "Unknown"
    BY <2>1 DEF IoInv, BirthInv
  <2>4. Outcome(x, o, 0, 0)
    BY <1>2, <2>1, <2>2, <2>3, PostRecvOutcome
  <2>5. o.posted # "send"
    <3>1. o.posted \in {"None", "recv"}
      BY <2>1 DEF PostRequestedRecv, Posted, Failed
    <3> QED
      BY <3>1
  <2> QED
    BY <1>2, <1>3, <2>3, <2>4, <2>5 DEF Outcome, FinishOutcome
<1>5. CASE ~ MayPostRecv(actor, run.failed)
  <2>1. o = Ok(x)
    BY <1>5
  <2>2. /\ o \in OutcomeState /\ o.actor = x /\ ~ o.failed /\ o.posted = "None"
    BY <1>2, <2>1 DEF Ok, OutcomeState
  <2>3. actor.phase = "Unknown" => /\ ~ actor.closeRequested
                                   /\ ~ actor.recvContext /\ ~ actor.sendContext
    BY DEF IoInv, BirthInv
  <2> QED
    BY <1>2, <1>3, <2>2, <2>3 DEF FinishOutcome
<1> QED
  BY <1>4, <1>5

\* An entry that leaves the Active state belongs to a closed session, and one that
\* is ready to go has no pending context.
LEMMA NextLifecycleSound ==
  ASSUME IoInv, Registered, NEW x, NEW failed \in BOOLEAN,
         failed => x.closeRequested,
         actor.closeRequested => x.closeRequested,
         lifecycle = "ReadyToDeregister" => ~ HasPendingIo(x),
         NEW next, next = NextLifecycle(x, failed)
  PROVE  /\ next \in {"Active", "AwaitingDrain", "ReadyToDeregister"}
         /\ next # "Active" => x.closeRequested
         /\ next = "ReadyToDeregister" => ~ HasPendingIo(x)
<1>1. lifecycle # "Active" => x.closeRequested
  BY DEF IoInv, EndInv
<1> DEFINE ready == IF failed THEN ~ HasPendingIo(x) ELSE CloseReady(x)
<1>2. ready => x.closeRequested /\ ~ HasPendingIo(x)
  BY DEF CloseReady
<1>3. next = CASE lifecycle = "Active" /\ ~(failed \/ x.closeRequested) -> "Active"
               [] lifecycle = "ReadyToDeregister" \/ ready -> "ReadyToDeregister"
               [] OTHER -> "AwaitingDrain"
  BY DEF NextLifecycle
<1> HIDE DEF ready
<1>4. CASE lifecycle = "Active" /\ ~(failed \/ x.closeRequested)
  BY <1>2, <1>3, <1>4
<1>5. CASE lifecycle = "ReadyToDeregister" \/ ready
  BY <1>1, <1>2, <1>3, <1>5
<1>6. CASE /\ ~ (lifecycle = "Active" /\ ~(failed \/ x.closeRequested))
           /\ ~ (lifecycle = "ReadyToDeregister" \/ ready)
  BY <1>1, <1>3, <1>6
<1> QED
  BY <1>4, <1>5, <1>6

\* The worker's last step of a run, which may erase the entry.
LEMMA FinishRunKeeps ==
  ASSUME IoInv, FinishRun
  PROVE  IoInv'
<1> DEFINE x == [actor EXCEPT !.postRecv = FALSE]
<1>1. /\ run.pc = "Finish" /\ run' = [run EXCEPT !.pc = "Idle"]
      /\ UNCHANGED <<recvLane, sendLane, gate, world, stopping>>
  BY DEF FinishRun
<1>2. Registered
  BY <1>1 DEF IoInv, RunInv
<1>3. PICK o \in IF MayPostRecv(actor, run.failed) THEN PostRequestedRecv(x) ELSE {Ok(x)} :
        LET failed == run.failed \/ o.failed
            next   == NextLifecycle(o.actor, failed)
            erases == next = "ReadyToDeregister" /\ ~ run.rescheduled
        IN /\ actor' = o.actor
           /\ kernel' = IF o.posted = "recv" THEN [kernel EXCEPT !.recv = TRUE] ELSE kernel
           /\ lifecycle' = IF erases THEN "Erased" ELSE next
  BY DEF FinishRun
<1> DEFINE failed == run.failed \/ o.failed
           next   == NextLifecycle(o.actor, failed)
<1>4. /\ actor' = o.actor
      /\ kernel' = IF o.posted = "recv" THEN [kernel EXCEPT !.recv = TRUE] ELSE kernel
      /\ lifecycle' \in {next, "Erased"} /\ (lifecycle' = "Erased" => next \in {"ReadyToDeregister", "Erased"})
  BY <1>3
<1>5. FinishOutcome(o)
  BY <1>2, FinishOutcomes
<1> HIDE DEF x
<1>6. /\ kernel \in [recv: BOOLEAN, send: BOOLEAN, lost: SUBSET {"recv", "send"}]
      /\ run \in RunState /\ actor \in ActorState
      /\ recvLane \in Seq(RecvEvents) /\ sendLane \in Seq(SendEvents)
  BY DEF IoInv, TypeOK, RunState
<1>7. /\ actor' \in ActorState /\ ActorSound(actor)' /\ o.failed \in BOOLEAN
      /\ o.posted \in {"None", "recv"}
  <2>1. o \in OutcomeState /\ ActorSound(o.actor) /\ o.posted # "send"
    BY <1>5 DEF FinishOutcome
  <2>2. ActorSound(actor)'
    BY <1>4, <2>1 DEF ActorSound
  <2> QED
    BY <1>4, <2>1, <2>2 DEF OutcomeState
<1>8. /\ actor'.recvIo \in 0 .. 1 /\ actor'.sendIo \in 0 .. 1
      /\ actor.recvIo \in 0 .. 1 /\ actor.sendIo \in 0 .. 1
  BY <1>6, <1>7 DEF ActorState
<1>9. /\ kernel' \in [recv: BOOLEAN, send: BOOLEAN, lost: SUBSET {"recv", "send"}]
      /\ kernel'.lost = kernel.lost /\ kernel'.send = kernel.send
      /\ kernel'.recv <=> kernel.recv \/ o.posted = "recv"
  <2>1. CASE o.posted = "recv"
    <3>1. kernel' = [kernel EXCEPT !.recv = TRUE]
      BY <1>4, <2>1
    <3> QED
      BY <1>6, <2>1, <3>1
  <2>2. CASE o.posted # "recv"
    BY <1>4, <1>6, <2>2
  <2> QED
    BY <2>1, <2>2
<1>10. /\ Count(recvLane, RecvCompletions) \in Nat
       /\ Count(sendLane, SendCompletions) \in Nat
  BY LaneCounts DEF IoInv
<1>11. RecvLedger' /\ SendLedger'
  <2>1. RecvLedger /\ SendLedger
    BY <1>2, Ledger
  <2>2. RecvLedger'
    <3> DEFINE held == One(kernel.recv)
               left == Count(recvLane, RecvCompletions)
               lost == One("recv" \in kernel.lost)
    <3>1. held \in Nat /\ left \in Nat /\ lost \in Nat
      BY <1>10 DEF One
    <3>2. actor.recvIo = held + left + lost
      BY <2>1 DEF RecvLedger
    <3>3. One(kernel'.recv) = (IF o.posted = "recv" THEN 1 ELSE held)
      BY <1>9 DEF One
    <3>4. actor'.recvIo = actor.recvIo + (IF o.posted = "recv" THEN 1 ELSE 0)
      BY <1>4, <1>5 DEF FinishOutcome
    <3> HIDE DEF held, left, lost
    <3>5. actor'.recvIo = One(kernel'.recv) + left + lost
      BY <1>8, <3>1, <3>2, <3>3, <3>4
    <3> QED
      BY <1>1, <1>9, <3>5 DEF RecvLedger, left, lost
  <2>3. SendLedger'
    <3>1. actor'.sendIo = actor.sendIo
      BY <1>4, <1>5 DEF FinishOutcome
    <3> QED
      BY <1>1, <1>9, <2>1, <3>1 DEF SendLedger
  <2> QED
    BY <2>2, <2>3
<1>12. /\ next \in {"Active", "AwaitingDrain", "ReadyToDeregister"}
       /\ next # "Active" => actor'.closeRequested
       /\ next = "ReadyToDeregister" => ~ HasPendingIo(actor')
  <2>1. failed \in BOOLEAN
    BY <1>6, <1>7 DEF RunState
  <2>2. run.failed => actor.closeRequested
    BY DEF IoInv, RunInv
  <2>3. actor.closeRequested => o.actor.closeRequested
    BY <1>5 DEF FinishOutcome
  <2>4. failed => o.actor.closeRequested
    BY <1>5, <2>2, <2>3 DEF FinishOutcome
  <2>5. lifecycle = "ReadyToDeregister" => ~ HasPendingIo(o.actor)
    <3> SUFFICES ASSUME lifecycle = "ReadyToDeregister" PROVE ~ HasPendingIo(o.actor)
      OBVIOUS
    <3>1. actor.closeRequested /\ actor.recvIo = 0 /\ actor.sendIo = 0
      BY DEF IoInv, EndInv, HasPendingIo
    <3>2. o.posted = "None"
      BY <1>5, <3>1 DEF FinishOutcome
    <3>3. o.actor.recvIo = 0 /\ o.actor.sendIo = 0
      BY <1>5, <3>1, <3>2 DEF FinishOutcome
    <3> QED
      BY <3>3 DEF HasPendingIo
  <2> HIDE DEF failed
  <2> QED
    BY <1>2, <1>4, <2>1, <2>3, <2>4, <2>5, NextLifecycleSound
<1> HIDE DEF next, failed
<1>13. /\ lifecycle' \in {"Active", "AwaitingDrain", "ReadyToDeregister", "Erased"}
       /\ lifecycle' # "Active" => actor'.closeRequested
       /\ lifecycle' \in {"ReadyToDeregister", "Erased"} => ~ HasPendingIo(actor')
  BY <1>4, <1>12
<1>14. OneCompletionPerContext'
  BY <1>7, <1>11, LedgerFormPrime
<1>15. ErasedOnlyWhenQuiet'
  <2> SUFFICES ASSUME lifecycle' = "Erased"
               PROVE  /\ ~ kernel'.recv /\ ~ kernel'.send
                      /\ Count(recvLane', RecvCompletions) = 0
                      /\ Count(sendLane', SendCompletions) = 0
    BY QuietForm
  <2>1. actor'.recvIo = 0 /\ actor'.sendIo = 0
    BY <1>13 DEF HasPendingIo
  <2> QED
    BY <1>1, <1>10, <1>11, <2>1 DEF RecvLedger, SendLedger, One
<1>16. EndInv'
  BY <1>13, <1>15 DEF EndInv
<1>17. BirthInv'
  <2>1. CASE actor.phase = "Unknown"
    <3>1. recvLane = <<"Accepted">> /\ sendLane = <<>> /\ ~ world.sending
      BY <2>1 DEF IoInv, BirthInv
    <3>2. /\ o.actor.phase = "Unknown" /\ ~ o.actor.closeRequested
          /\ ~ o.actor.recvContext /\ ~ o.actor.sendContext /\ ~ o.actor.postRecv
      BY <1>5, <2>1 DEF FinishOutcome
    <3> QED
      BY <1>1, <1>4, <3>1, <3>2 DEF BirthInv
  <2>2. CASE actor.phase # "Unknown"
    <3>1. o.actor.phase # "Unknown"
      BY <1>5, <2>2 DEF FinishOutcome
    <3>2. \A i \in DOMAIN recvLane : recvLane[i] # "Accepted"
      BY <2>2 DEF IoInv, BirthInv
    <3> QED
      BY <1>1, <1>4, <3>1, <3>2 DEF BirthInv
  <2> QED
    BY <2>1, <2>2
<1>18. run' \in RunState /\ run'.pc = "Idle" /\ run'.failed = run.failed
  BY <1>1, <1>6 DEF RunState
<1>19. RunInv'
  <2>1. run.failed => o.actor.closeRequested
    BY <1>5 DEF IoInv, RunInv, FinishOutcome
  <2> QED
    BY <1>4, <1>18, <2>1 DEF RunInv
<1>20. TypeOK'
  BY <1>1, <1>7, <1>9, <1>13, <1>18 DEF IoInv, TypeOK, RunState
<1> QED
  BY <1>7, <1>14, <1>16, <1>17, <1>19, <1>20 DEF IoInv

-----------------------------------------------------------------------------
(***************************************************************************)
(* The end of the server.                                                  *)
(***************************************************************************)
\* The stop request touches no session.
LEMMA RequestStopKeeps ==
  ASSUME IoInv, RequestStop
  PROVE  IoInv'
<1>1. /\ stopping' = TRUE
      /\ UNCHANGED <<actor, recvLane, sendLane, kernel, gate, run, lifecycle, world>>
  BY DEF RequestStop
<1>2. TypeOK'
  BY <1>1 DEF IoInv, TypeOK
<1>3. RunInv'
  BY <1>1 DEF IoInv, RunInv, Registered
<1> QED
  BY <1>1, <1>2, <1>3, RestsKeeps

\* A session that was never announced is closed without a word to the World.
LEMMA ShutdownKeeps ==
  ASSUME IoInv, Shutdown
  PROVE  IoInv'
<1>1. /\ run.pc = "Idle" /\ lifecycle' = "Shutdown" /\ Registered
      /\ actor' = RecordCloseRequested(actor, "ServerStopping")
      /\ UNCHANGED <<recvLane, sendLane, kernel, gate, run, world, stopping>>
  BY DEF Shutdown
<1>2. actor \in ActorState /\ ActorSound(actor)
  BY DEF IoInv, TypeOK
<1>3. /\ actor' \in ActorState /\ ActorSound(actor') /\ actor'.closeRequested
      /\ actor'.phase = "Unknown" <=> actor.phase = "Unknown"
      /\ actor.phase = "Unknown" =>
           actor'.recvContext = actor.recvContext /\ actor'.sendContext = actor.sendContext
           /\ actor'.postRecv = actor.postRecv
  <2>1. CASE actor.phase # "Unknown"
    BY <1>1, <1>2, <2>1, CloseKeeps
  <2>2. CASE actor.phase = "Unknown"
    <3>1. ~ actor.closeRequested
      BY <1>1, <2>2 DEF IoInv, BirthInv
    <3>2. ClosedPhase(actor, "ServerStopping") = "Unknown"
      BY <2>2 DEF ClosedPhase
    <3>3. actor' = [actor EXCEPT !.closeRequested = TRUE, !.socketOpen = FALSE,
                                 !.channelOpen = FALSE, !.phase = "Unknown"]
      BY <1>1, <2>2, <3>1, <3>2 DEF RecordCloseRequested
    <3>4. actor' \in ActorState
      BY <1>2, <3>3 DEF ActorState
    <3>5. /\ actor'.closeRequested /\ ~ actor'.socketOpen /\ ~ actor'.channelOpen
          /\ actor'.postRecv = actor.postRecv /\ actor'.phase = "Unknown"
          /\ actor'.recvContext = actor.recvContext /\ actor'.recvIo = actor.recvIo
          /\ actor'.sendContext = actor.sendContext /\ actor'.sendIo = actor.sendIo
      BY <1>2, <3>3 DEF ActorState
    <3>6. ActorSound(actor')
      BY <1>2, <3>5 DEF ActorSound
    <3> QED
      BY <2>2, <3>4, <3>5, <3>6
  <2> QED
    BY <2>1, <2>2
<1>4. ~ Registered'
  BY <1>1 DEF Registered
<1>5. TypeOK'
  BY <1>1, <1>3 DEF IoInv, TypeOK
<1>6. ActorSound(actor)'
  BY <1>3
<1>7. OneCompletionPerContext'
  BY <1>4 DEF OneCompletionPerContext
<1>8. BirthInv'
  BY <1>1, <1>3, <1>4 DEF IoInv, BirthInv
<1>9. EndInv'
  BY <1>1, <1>3 DEF EndInv, ErasedOnlyWhenQuiet
<1>10. RunInv'
  BY <1>1, <1>3 DEF RunInv
<1> QED
  BY <1>5, <1>6, <1>7, <1>8, <1>9, <1>10 DEF IoInv

\* Every step keeps the invariant.
LEMMA StepKeeps ==
  ASSUME IoInv, [Next]_vars
  PROVE  IoInv'
<1>1. CASE KernelStep
  <2>1. CASE \E e \in {"RecvBytes", "RecvEnded"} : RecvCompletes(e)
    BY <2>1, RecvCompletesKeeps DEF RecvCompletions
  <2>2. CASE \E e \in SendEvents \ {"SendRequested"} : SendCompletes(e)
    BY <2>2, SendCompletesKeeps DEF SendCompletions, SendEvents
  <2> QED
    BY <1>1, <2>1, <2>2 DEF KernelStep
<1>2. CASE WorldStep
  BY <1>2, SeesChannelOpenKeeps, EnqueueSendRequestedKeeps, RequestSessionCloseKeeps
     DEF WorldStep
<1>3. CASE WorkerStep
  BY <1>3, BeginDrainKeeps, DrainRecvKeeps, DrainSendKeeps, CompleteDrainKeeps,
     FinishRunKeeps DEF WorkerStep
<1>4. CASE RequestStop
  BY <1>4, RequestStopKeeps
<1>5. CASE Shutdown
  BY <1>5, ShutdownKeeps
<1>6. CASE UNCHANGED vars
  <2>1. TypeOK' /\ RunInv'
    BY <1>6 DEF IoInv, TypeOK, RunInv, Registered, vars
  <2> QED
    BY <1>6, <2>1, RestsKeeps DEF vars
<1> QED
  BY <1>1, <1>2, <1>3, <1>4, <1>5, <1>6 DEF Next

-----------------------------------------------------------------------------
(***************************************************************************)
(* The theorems.                                                           *)
(***************************************************************************)
\* The invariant holds of every state of every session.
THEOREM SessionIsSound == Spec => []IoInv
<1>1. Init => IoInv
  BY InitInv
<1>2. IoInv /\ [Next]_vars => IoInv'
  BY StepKeeps
<1> QED
  BY <1>1, <1>2, PTL DEF Spec

\* From the first post to the erased entry every I/O context is accounted for: the
\* kernel holds its operation, or its one completion is in a lane, or that one was
\* refused; and no entry is erased before (NrSessionIoActor, ApplyDrainReport).
THEOREM ContextsAreAccounted == Spec => []ContextsAccounted
<1>1. IoInv => ContextsAccounted
  BY DEF IoInv, EndInv, ContextsAccounted
<1> QED
  BY <1>1, SessionIsSound, PTL

\* The World hears of the end of every session it was told of before the actor is
\* gone, and the handoff never refuses a fact (RecordCloseRequested).
THEOREM TheEndIsHeard == Spec => []WorldHearsTheEnd
<1>1. IoInv => WorldHearsTheEnd
  <2> SUFFICES ASSUME IoInv PROVE WorldHearsTheEnd
    OBVIOUS
  <2>1. ActorSound(actor) /\ (lifecycle # "Active" => actor.closeRequested)
    BY DEF IoInv, EndInv
  <2> QED
    BY <2>1 DEF ActorSound, WorldHearsTheEnd, Registered
<1> QED
  BY <1>1, SessionIsSound, PTL

=============================================================================
