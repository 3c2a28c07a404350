------------------------ MODULE ServerLifecycle_proofs ------------------------
(***************************************************************************)
(* First the submission gate alone: for any finite set of gateways and any *)
(* limit on the count, nothing is submitted to a server being stopped, and *)
(* the gate's state lives exactly as long as somebody refers to it.        *)
(*                                                                         *)
(* Then the gate inside the whole server: what it promises alone holds     *)
(* while components are started, stopped, rolled back and torn down around *)
(* it.                                                                     *)
(*                                                                         *)
(* Then the server's own safety.  ServerInv ties everything to one number, *)
(* how many components are started: what the owner is doing says how many  *)
(* (OwnerProgress), each part of the system runs only while those below it *)
(* are started (ComponentsNested), and a session exists only while the     *)
(* registry serves (RegistryInv).  MakingInv follows the one session the   *)
(* pump is making through every step at which it can be refused.           *)
(***************************************************************************)
EXTENDS ServerLifecycle, FiniteSetTheorems, TLAPS

\* The count is the number of permits: without this the owner could see zero
\* while a submission is inside.
CountsPermits == inFlight = Cardinality(PermitHolders)

\* InvalidateAndWait has set the bit before it looks at the count, and a server
\* that is not running has been through it.
InvalidatedFirst == (owner # "Idle" \/ server # "Running") => invalidated

StoppedIsEmpty == server # "Running" => inFlight = 0

GateInv == TypeOK /\ CountsPermits /\ InvalidatedFirst /\ StoppedIsEmpty

-----------------------------------------------------------------------------
\* Permit holders form a finite set, so their number is a natural number.
LEMMA SubsetsAreFinite ==
    ASSUME NEW S \in SUBSET Gateways
    PROVE  IsFiniteSet(S) /\ Cardinality(S) \in Nat
<1>1. IsFiniteSet(Gateways)
  BY SubmissionGateAssumption
<1>2. IsFiniteSet(S)
  BY <1>1, FS_Subset
<1> QED
  BY <1>2, FS_CardinalityType

\* The gateways that the assignment f of steps puts at one of the steps T.
At(f, T) == {h \in Gateways : f[h] \in T}

\* It is finite, whatever the steps.
LEMMA AtIsFinite ==
    ASSUME NEW f, NEW T
    PROVE  IsFiniteSet(At(f, T)) /\ Cardinality(At(f, T)) \in Nat
BY SubsetsAreFinite DEF At

\* When gateway g alone moves, to step, the set of gateways at T gains it, loses
\* it or is the same set.
LEMMA MoveOne ==
    ASSUME gateway \in [Gateways -> GatewaySteps], NEW g \in Gateways,
           NEW step \in GatewaySteps, NEW T, SetGateway(g, step)
    PROVE  /\ gateway[g] \in T /\ step \notin T =>
                  Cardinality(At(gateway', T)) = Cardinality(At(gateway, T)) - 1
           /\ gateway[g] \notin T /\ step \in T =>
                  Cardinality(At(gateway', T)) = Cardinality(At(gateway, T)) + 1
           /\ (gateway[g] \in T <=> step \in T) => At(gateway', T) = At(gateway, T)
<1>1. \A h \in Gateways : gateway'[h] = IF h = g THEN step ELSE gateway[h]
  BY DEF SetGateway
<1>2. IsFiniteSet(At(gateway, T))
  BY AtIsFinite
<1>3. ASSUME gateway[g] \in T, step \notin T
      PROVE  Cardinality(At(gateway', T)) = Cardinality(At(gateway, T)) - 1
  <2>1. At(gateway', T) = At(gateway, T) \ {g} /\ g \in At(gateway, T)
    BY <1>1, <1>3 DEF At
  <2> QED
    BY <2>1, <1>2, FS_RemoveElement
<1>4. ASSUME gateway[g] \notin T, step \in T
      PROVE  Cardinality(At(gateway', T)) = Cardinality(At(gateway, T)) + 1
  <2>1. At(gateway', T) = At(gateway, T) \cup {g} /\ g \notin At(gateway, T)
    BY <1>1, <1>4 DEF At
  <2> QED
    BY <2>1, <1>2, FS_AddElement
<1>5. (gateway[g] \in T <=> step \in T) => At(gateway', T) = At(gateway, T)
  BY <1>1 DEF At
<1> QED
  BY <1>3, <1>4, <1>5

-----------------------------------------------------------------------------
PermitSteps == {"AddRef", "Inside"}

\* The invariant holds initially.
LEMMA InitGate == Init => GateInv
<1> SUFFICES ASSUME Init PROVE GateInv
  OBVIOUS
<1>1. PermitHolders = {}
  BY DEF Init, PermitHolders
<1>2. CountsPermits
  BY <1>1, FS_EmptySet DEF CountsPermits, Init
<1>3. 0 \in 0 .. MaxInFlight /\ 1 \in Nat
  BY SubmissionGateAssumption
<1>4. gateway \in [Gateways -> GatewaySteps]
  BY DEF Init, GatewaySteps
<1>5. TypeOK
  BY <1>3, <1>4, Zenon DEF Init, TypeOK
<1> QED
  BY <1>2, <1>5 DEF GateInv, InvalidatedFirst, StoppedIsEmpty, Init

\* The count keeps up with the permits over the step of one gateway: it grows by
\* one with a permit taken, and falls by one with a permit given back.
LEMMA CountKeepsUp ==
    ASSUME GateInv, NEW g \in Gateways, NEW step \in GatewaySteps,
           SetGateway(g, step),
           \/ gateway[g] \notin PermitSteps /\ step \in PermitSteps
                 /\ inFlight' = inFlight + 1
           \/ gateway[g] \in PermitSteps /\ step \notin PermitSteps
                 /\ inFlight' = inFlight - 1
           \/ (gateway[g] \in PermitSteps <=> step \in PermitSteps)
                 /\ inFlight' = inFlight
    PROVE  CountsPermits'
<1>1. gateway' = [gateway EXCEPT ![g] = step]
  BY DEF SetGateway
<1>2. gateway \in [Gateways -> GatewaySteps]
  BY DEF GateInv, TypeOK
<1>3. PermitHolders = At(gateway, PermitSteps)
      /\ PermitHolders' = At(gateway', PermitSteps)
  BY DEF PermitHolders, At, PermitSteps
<1>4. /\ gateway[g] \in PermitSteps /\ step \notin PermitSteps =>
             Cardinality(At(gateway', PermitSteps))
                = Cardinality(At(gateway, PermitSteps)) - 1
      /\ gateway[g] \notin PermitSteps /\ step \in PermitSteps =>
             Cardinality(At(gateway', PermitSteps))
                = Cardinality(At(gateway, PermitSteps)) + 1
      /\ (gateway[g] \in PermitSteps <=> step \in PermitSteps) =>
             At(gateway', PermitSteps) = At(gateway, PermitSteps)
  BY <1>1, <1>2, MoveOne
<1>5. inFlight = Cardinality(At(gateway, PermitSteps))
  BY <1>3 DEF GateInv, CountsPermits
<1>6. inFlight' = Cardinality(At(gateway', PermitSteps))
  BY <1>4, <1>5
<1> QED
  BY <1>3, <1>6 DEF CountsPermits

\* A holder of a permit makes the count positive.
LEMMA HolderCounts ==
    ASSUME GateInv, NEW g \in Gateways, gateway[g] \in PermitSteps
    PROVE  inFlight >= 1
<1>1. g \in PermitHolders
  BY DEF PermitHolders, PermitSteps
<1>2. IsFiniteSet(PermitHolders) /\ Cardinality(PermitHolders) \in Nat
  BY SubsetsAreFinite DEF PermitHolders
<1>3. Cardinality(PermitHolders) # 0
  BY <1>1, <1>2, FS_EmptySet
<1> QED
  BY <1>2, <1>3 DEF GateInv, CountsPermits

\* A step of a gateway preserves the invariant.
LEMMA GatewayPreserves ==
    ASSUME GateInv, NEW g \in Gateways, GatewayStep(g), TypeOK'
    PROVE  GateInv'
<1> USE DEF GatewayStep, Submission
<1>1. CASE CreateGateway(g)
  <2>1. CountsPermits'
    BY <1>1, CountKeepsUp DEF CreateGateway, PermitSteps, GatewaySteps, gateVars
  <2> QED
    BY <1>1, <2>1 DEF CreateGateway, GateInv, InvalidatedFirst, StoppedIsEmpty,
                      gateVars, ownerVars
<1>2. CASE TryAcquire(g)
  <2>1. CountsPermits'
    BY <1>2, CountKeepsUp DEF TryAcquire, PermitSteps, GatewaySteps
  <2>2. server = "Running" /\ server' = "Running"
    BY <1>2 DEF TryAcquire, MayAdmit, GateInv, InvalidatedFirst, ownerVars
  <2> QED
    BY <1>2, <2>1, <2>2 DEF TryAcquire, GateInv, InvalidatedFirst, StoppedIsEmpty,
                            ownerVars
<1>3. CASE PermitAddsRef(g)
  <2>1. CountsPermits'
    BY <1>3, CountKeepsUp DEF PermitAddsRef, PermitSteps, GatewaySteps, gateVars
  <2> QED
    BY <1>3, <2>1 DEF PermitAddsRef, GateInv, InvalidatedFirst, StoppedIsEmpty,
                      gateVars, ownerVars
<1>4. CASE ReleasePermit(g)
  <2>1. CountsPermits'
    BY <1>4, CountKeepsUp DEF ReleasePermit, PermitSteps, GatewaySteps
  <2>2. inFlight >= 1
    BY <1>4, HolderCounts DEF ReleasePermit, PermitSteps
  <2>3. server = "Running" /\ server' = "Running"
    BY <1>4, <2>2 DEF ReleasePermit, GateInv, StoppedIsEmpty, ownerVars
  <2> QED
    BY <1>4, <2>1, <2>3 DEF ReleasePermit, GateInv, InvalidatedFirst,
                            StoppedIsEmpty, ownerVars
<1>5. CASE NotifyOwner(g)
  <2>1. CountsPermits'
    BY <1>5, CountKeepsUp DEF NotifyOwner, PermitSteps, GatewaySteps, gateVars
  <2> QED
    BY <1>5, <2>1 DEF NotifyOwner, GateInv, InvalidatedFirst, StoppedIsEmpty,
                      gateVars
<1>6. CASE PermitReleasesRef(g)
  <2>1. CountsPermits'
    BY <1>6, CountKeepsUp DEF PermitReleasesRef, PermitSteps, GatewaySteps, gateVars
  <2> QED
    BY <1>6, <2>1 DEF PermitReleasesRef, GateInv, InvalidatedFirst,
                      StoppedIsEmpty, gateVars, ownerVars
<1>7. CASE DestroyGateway(g)
  <2>1. CountsPermits'
    BY <1>7, CountKeepsUp DEF DestroyGateway, PermitSteps, GatewaySteps, gateVars
  <2> QED
    BY <1>7, <2>1 DEF DestroyGateway, GateInv, InvalidatedFirst, StoppedIsEmpty,
                      gateVars, ownerVars
<1> QED
  BY <1>1, <1>2, <1>3, <1>4, <1>5, <1>6, <1>7

\* A step of the owner preserves it: the bit is set before the count is read, and
\* the server leaves Running only on a count of zero.
LEMMA OwnerPreserves ==
    ASSUME GateInv, BeginSomeCall \/ OwnerStep \/ UNCHANGED vars, TypeOK'
    PROVE  GateInv'
<1>1. gateway' = gateway /\ inFlight' = inFlight
  BY DEF BeginSomeCall, BeginInvalidate, OwnerStep, LoadAdmissionWord,
         WaitOnAdmissionWord, gateVars, vars
<1>2. CountsPermits'
  BY <1>1 DEF GateInv, CountsPermits, PermitHolders
<1>3. CASE BeginSomeCall
  BY <1>2, <1>3 DEF BeginSomeCall, BeginInvalidate, GateInv, InvalidatedFirst,
                    StoppedIsEmpty
<1>4. CASE LoadAdmissionWord
  <2>1. invalidated /\ invalidated'
    BY <1>4 DEF LoadAdmissionWord, GateInv, InvalidatedFirst, gateVars
  <2>2. StoppedIsEmpty'
    BY <1>1, <1>4 DEF LoadAdmissionWord, GateInv, StoppedIsEmpty
  <2> QED
    BY <1>2, <2>1, <2>2 DEF GateInv, InvalidatedFirst
<1>5. CASE WaitOnAdmissionWord
  BY <1>2, <1>5 DEF WaitOnAdmissionWord, GateInv, InvalidatedFirst,
                    StoppedIsEmpty, gateVars
<1>6. CASE UNCHANGED vars
  BY <1>2, <1>6 DEF GateInv, InvalidatedFirst, StoppedIsEmpty, vars
<1> QED
  BY <1>3, <1>4, <1>5, <1>6 DEF OwnerStep

-----------------------------------------------------------------------------
\* The owner works on a server that exists, so its own reference is still there.
OwnerHasServer == owner # "Idle" => server # "Destroyed"

SubmissionInv == GateInv /\ StateOutlivesUsers /\ OwnerHasServer

HandleSteps  == {"Ready", "AddRef", "Inside", "Notify", "ReleaseRef"}
RefSteps     == {"Inside", "Notify", "ReleaseRef"}

ServerRef == IF server = "Destroyed" THEN 0 ELSE 1

\* The reference count in terms of the gateways' steps.
LEMMA RefCountAt ==
    ASSUME TypeOK, StateOutlivesUsers
    PROVE  /\ refCount = Cardinality(At(gateway, HandleSteps))
                         + Cardinality(At(gateway, RefSteps)) + ServerRef
           /\ freed <=> refCount = 0
<1>1. Handles = At(gateway, HandleSteps) /\ Permits = At(gateway, RefSteps)
  BY DEF Handles, Permits, At, HandleSteps, RefSteps, TypeOK, GatewaySteps
<1> QED
  BY <1>1 DEF StateOutlivesUsers, ServerRef

\* The same, read after a step.
LEMMA RefCountAtNext ==
    ASSUME gateway' \in [Gateways -> GatewaySteps],
           refCount' = Cardinality(At(gateway', HandleSteps))
                       + Cardinality(At(gateway', RefSteps)) + ServerRef',
           freed' <=> refCount' = 0
    PROVE  StateOutlivesUsers'
<1>1. Handles' = At(gateway', HandleSteps) /\ Permits' = At(gateway', RefSteps)
  BY DEF Handles, Permits, At, HandleSteps, RefSteps, GatewaySteps
<1> QED
  BY <1>1 DEF StateOutlivesUsers, ServerRef

\* Whoever holds a reference is counted.
LEMMA HolderReferred ==
    ASSUME TypeOK, StateOutlivesUsers
    PROVE  /\ \A g \in Gateways : gateway[g] \in HandleSteps => refCount >= 1
           /\ server # "Destroyed" => refCount >= 1
<1>1. /\ Cardinality(At(gateway, HandleSteps)) \in Nat
      /\ Cardinality(At(gateway, RefSteps)) \in Nat
      /\ ServerRef \in {0, 1}
  BY AtIsFinite DEF ServerRef
<1>2. ASSUME NEW g \in Gateways, gateway[g] \in HandleSteps
      PROVE  Cardinality(At(gateway, HandleSteps)) # 0
  <2>1. g \in At(gateway, HandleSteps)
    BY <1>2 DEF At
  <2> QED
    BY <2>1, AtIsFinite, FS_EmptySet
<1>3. server # "Destroyed" => ServerRef = 1
  BY DEF ServerRef
<1> QED
  BY <1>1, <1>2, <1>3, RefCountAt

\* The reference count keeps up with the gateways' moves.
LEMMA RefKeepsUp ==
    ASSUME TypeOK, StateOutlivesUsers, NEW g \in Gateways,
           NEW step \in GatewaySteps, SetGateway(g, step), server' = server,
           \/ gateway[g] = "None" /\ step = "Ready" /\ AddRef
                 /\ server # "Destroyed"
           \/ gateway[g] = "Ready" /\ step = "AddRef" /\ UNCHANGED <<refCount, freed>>
           \/ gateway[g] = "AddRef" /\ step = "Inside" /\ AddRef
           \/ gateway[g] = "Inside" /\ step \in {"Notify", "ReleaseRef"}
                 /\ UNCHANGED <<refCount, freed>>
           \/ gateway[g] = "Notify" /\ step = "ReleaseRef"
                 /\ UNCHANGED <<refCount, freed>>
           \/ gateway[g] = "ReleaseRef" /\ step = "Ready" /\ ReleaseRef
           \/ gateway[g] = "Ready" /\ step = "Gone" /\ ReleaseRef
    PROVE  StateOutlivesUsers' /\ refCount' \in Nat
<1> DEFINE H  == Cardinality(At(gateway, HandleSteps))
           R  == Cardinality(At(gateway, RefSteps))
           H1 == Cardinality(At(gateway', HandleSteps))
           R1 == Cardinality(At(gateway', RefSteps))
<1>1. gateway \in [Gateways -> GatewaySteps] /\ refCount \in Nat
  BY DEF TypeOK
<1>2. /\ gateway[g] \in HandleSteps /\ step \notin HandleSteps => H1 = H - 1
      /\ gateway[g] \notin HandleSteps /\ step \in HandleSteps => H1 = H + 1
      /\ (gateway[g] \in HandleSteps <=> step \in HandleSteps) => H1 = H
  BY <1>1, MoveOne
<1>3. /\ gateway[g] \in RefSteps /\ step \notin RefSteps => R1 = R - 1
      /\ gateway[g] \notin RefSteps /\ step \in RefSteps => R1 = R + 1
      /\ (gateway[g] \in RefSteps <=> step \in RefSteps) => R1 = R
  BY <1>1, MoveOne
<1>4. H \in Nat /\ R \in Nat /\ H1 \in Nat /\ R1 \in Nat
  BY AtIsFinite
<1>5. ServerRef' = ServerRef /\ ServerRef \in {0, 1}
  BY DEF ServerRef
<1>6. refCount = H + R + ServerRef /\ (freed <=> refCount = 0)
  BY RefCountAt
<1>7. server # "Destroyed" \/ gateway[g] \in HandleSteps => refCount >= 1
  BY HolderReferred
<1> HIDE DEF H, R, H1, R1
<1>8. refCount' = H1 + R1 + ServerRef' /\ (freed' <=> refCount' = 0)
  <2>1. CASE gateway[g] = "None" /\ step = "Ready" /\ AddRef /\ server # "Destroyed"
    <3>1. H1 = H + 1 /\ R1 = R
      BY <1>2, <1>3, <2>1 DEF HandleSteps, RefSteps
    <3> QED
      BY <3>1, <2>1, <1>1, <1>4, <1>5, <1>6, <1>7 DEF AddRef
  <2>2. CASE gateway[g] = "Ready" /\ step = "AddRef" /\ UNCHANGED <<refCount, freed>>
    <3>1. H1 = H /\ R1 = R
      BY <1>2, <1>3, <2>2 DEF HandleSteps, RefSteps
    <3> QED
      BY <3>1, <2>2, <1>5, <1>6
  <2>3. CASE gateway[g] = "AddRef" /\ step = "Inside" /\ AddRef
    <3>1. H1 = H /\ R1 = R + 1 /\ gateway[g] \in HandleSteps
      BY <1>2, <1>3, <2>3 DEF HandleSteps, RefSteps
    <3> QED
      BY <3>1, <2>3, <1>1, <1>4, <1>5, <1>6, <1>7 DEF AddRef
  <2>4. CASE gateway[g] \in {"Inside", "Notify"} /\ step \in {"Notify", "ReleaseRef"}
             /\ UNCHANGED <<refCount, freed>>
    <3>1. H1 = H /\ R1 = R
      BY <1>2, <1>3, <2>4 DEF HandleSteps, RefSteps
    <3> QED
      BY <3>1, <2>4, <1>5, <1>6
  <2>5. CASE gateway[g] = "ReleaseRef" /\ step = "Ready" /\ ReleaseRef
    <3>1. H1 = H /\ R1 = R - 1 /\ gateway[g] \in HandleSteps
      BY <1>2, <1>3, <2>5 DEF HandleSteps, RefSteps
    <3>2. freed' <=> refCount = 1
      BY <2>5, Zenon DEF ReleaseRef
    <3>3. refCount' = refCount - 1 /\ (refCount' = 0 <=> refCount = 1)
      BY <2>5, <1>1 DEF ReleaseRef
    <3> QED
      BY <3>1, <3>2, <3>3, <1>4, <1>5, <1>6
  <2>6. CASE gateway[g] = "Ready" /\ step = "Gone" /\ ReleaseRef
    <3>1. H1 = H - 1 /\ R1 = R /\ gateway[g] \in HandleSteps
      BY <1>2, <1>3, <2>6 DEF HandleSteps, RefSteps
    <3>2. freed' <=> refCount = 1
      BY <2>6, Zenon DEF ReleaseRef
    <3>3. refCount' = refCount - 1 /\ (refCount' = 0 <=> refCount = 1)
      BY <2>6, <1>1 DEF ReleaseRef
    <3> QED
      BY <3>1, <3>2, <3>3, <1>4, <1>5, <1>6
  <2> QED
    BY <2>1, <2>2, <2>3, <2>4, <2>5, <2>6
<1>9. gateway' \in [Gateways -> GatewaySteps]
  BY <1>1 DEF SetGateway
<1>10. StateOutlivesUsers'
  BY <1>8, <1>9, RefCountAtNext DEF H1, R1
<1> QED
  BY <1>8, <1>4, <1>5, <1>10

\* A step of a gateway keeps the references in order, and the types.
LEMMA GatewayKeepsRefs ==
    ASSUME SubmissionInv, NEW g \in Gateways, GatewayStep(g)
    PROVE  StateOutlivesUsers' /\ OwnerHasServer' /\ TypeOK'
<1> USE DEF GatewayStep, Submission
<1>1. TypeOK /\ StateOutlivesUsers /\ inFlight \in Nat /\ MaxInFlight \in Nat
  BY SubmissionGateAssumption DEF SubmissionInv, GateInv, TypeOK
<1>2. \E step \in GatewaySteps :
        /\ SetGateway(g, step)
        /\ \/ gateway[g] = "None" /\ step = "Ready" /\ AddRef
                 /\ server # "Destroyed"
           \/ gateway[g] = "Ready" /\ step = "AddRef" /\ UNCHANGED <<refCount, freed>>
           \/ gateway[g] = "AddRef" /\ step = "Inside" /\ AddRef
           \/ gateway[g] = "Inside" /\ step \in {"Notify", "ReleaseRef"}
                 /\ UNCHANGED <<refCount, freed>>
           \/ gateway[g] = "Notify" /\ step = "ReleaseRef"
                 /\ UNCHANGED <<refCount, freed>>
           \/ gateway[g] = "ReleaseRef" /\ step = "Ready" /\ ReleaseRef
           \/ gateway[g] = "Ready" /\ step = "Gone" /\ ReleaseRef
  <2>1. CASE CreateGateway(g)
    BY <2>1 DEF CreateGateway, GatewaySteps
  <2>2. CASE TryAcquire(g)
    BY <2>2 DEF TryAcquire, GatewaySteps
  <2>3. CASE PermitAddsRef(g)
    BY <2>3 DEF PermitAddsRef, GatewaySteps
  <2>4. CASE ReleasePermit(g)
    BY <2>4 DEF ReleasePermit, GatewaySteps
  <2>5. CASE NotifyOwner(g)
    BY <2>5 DEF NotifyOwner, GatewaySteps
  <2>6. CASE PermitReleasesRef(g)
    BY <2>6 DEF PermitReleasesRef, GatewaySteps
  <2>7. CASE DestroyGateway(g)
    BY <2>7 DEF DestroyGateway, GatewaySteps
  <2> QED
    BY <2>1, <2>2, <2>3, <2>4, <2>5, <2>6, <2>7
<1>3. server' = server /\ call' = call /\ observed' = observed
  BY DEF CreateGateway, TryAcquire, PermitAddsRef, ReleasePermit, NotifyOwner,
         PermitReleasesRef, DestroyGateway, gateVars, ownerVars
<1>owner. owner' = owner \/ (owner = "Blocked" /\ owner' = "Wait")
  BY DEF CreateGateway, TryAcquire, PermitAddsRef, ReleasePermit, NotifyOwner,
         PermitReleasesRef, DestroyGateway, gateVars, ownerVars
<1>bit. invalidated' = invalidated
  BY DEF CreateGateway, TryAcquire, PermitAddsRef, ReleasePermit, NotifyOwner,
         PermitReleasesRef, DestroyGateway, gateVars, ownerVars
<1>4. PICK step \in GatewaySteps :
        /\ SetGateway(g, step)
        /\ \/ gateway[g] = "None" /\ step = "Ready" /\ AddRef
                 /\ server # "Destroyed"
           \/ gateway[g] = "Ready" /\ step = "AddRef" /\ UNCHANGED <<refCount, freed>>
           \/ gateway[g] = "AddRef" /\ step = "Inside" /\ AddRef
           \/ gateway[g] = "Inside" /\ step \in {"Notify", "ReleaseRef"}
                 /\ UNCHANGED <<refCount, freed>>
           \/ gateway[g] = "Notify" /\ step = "ReleaseRef"
                 /\ UNCHANGED <<refCount, freed>>
           \/ gateway[g] = "ReleaseRef" /\ step = "Ready" /\ ReleaseRef
           \/ gateway[g] = "Ready" /\ step = "Gone" /\ ReleaseRef
  BY <1>2
<1>5. StateOutlivesUsers' /\ refCount' \in Nat
  BY <1>1, <1>3, <1>4, RefKeepsUp
<1>6. inFlight' \in 0 .. MaxInFlight
  <2>1. CASE TryAcquire(g)
    BY <2>1, <1>1 DEF TryAcquire, MayAdmit, TypeOK
  <2>2. CASE ReleasePermit(g)
    <3>1. inFlight >= 1
      BY <2>2, HolderCounts DEF ReleasePermit, PermitSteps, SubmissionInv
    <3> QED
      BY <2>2, <3>1, <1>1 DEF ReleasePermit, TypeOK
  <2>3. CASE inFlight' = inFlight
    BY <2>3, <1>1 DEF TypeOK
  <2> QED
    BY <2>1, <2>2, <2>3 DEF CreateGateway, PermitAddsRef, NotifyOwner,
                            PermitReleasesRef, DestroyGateway, gateVars
<1>7. freed' \in BOOLEAN
  <2>1. freed \in BOOLEAN
    BY <1>1 DEF TypeOK
  <2>2. freed' = freed \/ freed' = (refCount = 1)
    BY <1>4, Zenon DEF AddRef, ReleaseRef
  <2> QED
    BY <2>1, <2>2, Zenon
<1>8. gateway' \in [Gateways -> GatewaySteps]
  BY <1>1, <1>4 DEF SetGateway, TypeOK
<1>9. TypeOK'
  <2>1. /\ owner' \in {"Idle", "Load", "Wait", "Blocked"}
        /\ call' \in {"RequestStop", "Shutdown", "Reset"}
        /\ server' \in {"Running", "StopRequested", "Shutdown", "Destroyed"}
    BY <1>1, <1>3, <1>owner DEF TypeOK
  <2>2. invalidated' \in BOOLEAN /\ observed' \in 0 .. MaxInFlight
    BY <1>1, <1>3, <1>bit, Zenon DEF TypeOK
  <2> QED
    BY <1>5, <1>6, <1>7, <1>8, <2>1, <2>2, Zenon DEF TypeOK
<1>10. OwnerHasServer'
  BY <1>3, <1>owner DEF SubmissionInv, OwnerHasServer
<1> QED
  BY <1>5, <1>9, <1>10

\* So does a step of the owner, whose destructor gives one reference back.
LEMMA OwnerKeepsRefs ==
    ASSUME SubmissionInv, BeginSomeCall \/ OwnerStep \/ UNCHANGED vars
    PROVE  StateOutlivesUsers' /\ OwnerHasServer' /\ TypeOK'
<1>1. TypeOK /\ StateOutlivesUsers /\ OwnerHasServer
  BY DEF SubmissionInv, GateInv
<1>2. gateway' = gateway /\ inFlight' = inFlight
  BY DEF BeginSomeCall, BeginInvalidate, OwnerStep, LoadAdmissionWord,
         WaitOnAdmissionWord, gateVars, vars
<1>3. Handles' = Handles /\ Permits' = Permits
  BY <1>2 DEF Handles, Permits
<1>4. CASE BeginSomeCall
  <2>1. UNCHANGED <<refCount, freed, server, observed>> /\ invalidated' = TRUE
        /\ owner' = "Load" /\ call' \in {"RequestStop", "Shutdown", "Reset"}
        /\ server # "Destroyed"
    BY <1>4 DEF BeginSomeCall, BeginInvalidate
  <2>2. StateOutlivesUsers' /\ OwnerHasServer'
    BY <2>1, <1>1, <1>3 DEF StateOutlivesUsers, OwnerHasServer
  <2>3. invalidated' \in BOOLEAN /\ owner' \in {"Idle", "Load", "Wait", "Blocked"}
    BY <2>1
  <2>4. TypeOK'
    BY <2>1, <2>3, <1>1, <1>2, Zenon DEF TypeOK
  <2> QED
    BY <2>2, <2>4
<1>5. CASE WaitOnAdmissionWord \/ UNCHANGED vars
  <2>1. UNCHANGED <<refCount, freed, server, observed, call, invalidated>>
    BY <1>5 DEF WaitOnAdmissionWord, gateVars, vars
  <2>owner. owner' = owner \/ (owner = "Wait" /\ owner' \in {"Blocked", "Load"})
    BY <1>5 DEF WaitOnAdmissionWord, vars
  <2>2. StateOutlivesUsers' /\ OwnerHasServer'
    BY <2>1, <2>owner, <1>1, <1>3 DEF StateOutlivesUsers, OwnerHasServer
  <2>3. owner' \in {"Idle", "Load", "Wait", "Blocked"}
    BY <2>owner, <1>1 DEF TypeOK
  <2>4. TypeOK'
    BY <2>1, <2>3, <1>1, <1>2, Zenon DEF TypeOK
  <2> QED
    BY <2>2, <2>4
<1>6. CASE LoadAdmissionWord
  <2>1. /\ owner = "Load" /\ observed' = inFlight /\ UNCHANGED <<invalidated, call>>
        /\ owner' \in {"Idle", "Wait"}
        /\ server' \in {"Running", "StopRequested", "Shutdown", "Destroyed"}
        /\ server # "Destroyed" /\ (server' = "Destroyed" => owner' = "Idle")
    BY <1>6, <1>1 DEF LoadAdmissionWord, FinishCall, gateVars, TypeOK,
                      OwnerHasServer
  <2>2. \/ server' # "Destroyed" /\ UNCHANGED <<refCount, freed>>
        \/ server' = "Destroyed" /\ ReleaseRef
    BY <1>6, <1>1, <2>1 DEF LoadAdmissionWord, FinishCall, TypeOK
  <2>3. refCount \in Nat /\ refCount >= 1 /\ (freed <=> refCount = 0)
    BY <1>1, <2>1, HolderReferred DEF TypeOK, StateOutlivesUsers
  <2>4. Cardinality(Handles) \in Nat /\ Cardinality(Permits) \in Nat
        /\ refCount = Cardinality(Handles) + Cardinality(Permits) + 1
    BY <1>1, <2>1, SubsetsAreFinite DEF StateOutlivesUsers, Handles, Permits
  <2>5. StateOutlivesUsers' /\ refCount' \in Nat /\ freed' \in BOOLEAN
    <3>1. CASE server' # "Destroyed" /\ UNCHANGED <<refCount, freed>>
      <4>1. StateOutlivesUsers'
        BY <3>1, <1>1, <1>3, <2>1 DEF StateOutlivesUsers
      <4> QED
        BY <3>1, <4>1, <1>1 DEF TypeOK
    <3>2. CASE server' = "Destroyed" /\ ReleaseRef
      <4>1. freed' = (refCount = 1) /\ refCount' = refCount - 1
        BY <3>2, Zenon DEF ReleaseRef
      <4>2. freed' <=> refCount = 1
        BY <4>1, Zenon
      <4>3. refCount' \in Nat /\ (refCount' = 0 <=> refCount = 1)
        BY <4>1, <2>3
      <4>4. refCount' = Cardinality(Handles') + Cardinality(Permits') + 0
        BY <4>1, <2>4, <1>3
      <4>5. StateOutlivesUsers'
        BY <4>2, <4>3, <4>4, <3>2 DEF StateOutlivesUsers
      <4>6. freed' \in BOOLEAN
        BY <4>1, Zenon
      <4> QED
        BY <4>3, <4>5, <4>6
    <3> QED
      BY <2>2, <3>1, <3>2
  <2>6. OwnerHasServer'
    BY <2>1 DEF OwnerHasServer
  <2>7. owner' \in {"Idle", "Load", "Wait", "Blocked"}
    BY <2>1
  <2>8. TypeOK'
    BY <2>1, <2>5, <2>7, <1>1, <1>2, Zenon DEF TypeOK
  <2> QED
    BY <2>5, <2>6, <2>8
<1> QED
  BY <1>4, <1>5, <1>6 DEF OwnerStep

-----------------------------------------------------------------------------
\* The invariant as a whole: it holds initially and every step keeps it.
LEMMA InitSubmission == Init => SubmissionInv
<1> SUFFICES ASSUME Init PROVE SubmissionInv
  OBVIOUS
<1>1. GateInv
  BY InitGate
<1>2. Handles = {} /\ Permits = {}
  BY DEF Init, Handles, Permits
<1>3. Cardinality(Handles) = 0 /\ Cardinality(Permits) = 0
  BY <1>2, FS_EmptySet
<1>4. StateOutlivesUsers
  BY <1>3 DEF StateOutlivesUsers, Init
<1> QED
  BY <1>1, <1>4 DEF SubmissionInv, OwnerHasServer, Init

\* Every step of a gateway or of the owner keeps it.
LEMMA NextSubmission == SubmissionInv /\ [Next]_vars => SubmissionInv'
<1> SUFFICES ASSUME SubmissionInv, [Next]_vars PROVE SubmissionInv'
  OBVIOUS
<1>1. CASE \E g \in Gateways : GatewayStep(g)
  <2>1. PICK g \in Gateways : GatewayStep(g)
    BY <1>1
  <2>2. StateOutlivesUsers' /\ OwnerHasServer' /\ TypeOK'
    BY <2>1, GatewayKeepsRefs
  <2>3. GateInv'
    BY <2>1, <2>2, GatewayPreserves DEF SubmissionInv
  <2> QED
    BY <2>2, <2>3 DEF SubmissionInv
<1>2. CASE BeginSomeCall \/ OwnerStep \/ UNCHANGED vars
  <2>1. StateOutlivesUsers' /\ OwnerHasServer' /\ TypeOK'
    BY <1>2, OwnerKeepsRefs
  <2>2. GateInv'
    BY <1>2, <2>1, OwnerPreserves DEF SubmissionInv
  <2> QED
    BY <2>1, <2>2 DEF SubmissionInv
<1> QED
  BY <1>1, <1>2 DEF Next

\* The inductive invariant holds throughout: the count, the bit and the reference
\* count agree with where the gateways' threads and the owner are.
THEOREM SubmissionInvariant == Spec => []SubmissionInv
  BY InitSubmission, NextSubmission, PTL DEF Spec

\* Once RequestStop or Shutdown stops the components, no submission is inside the
\* server and none will be, for any number of gateways.
THEOREM StoppedServerIsQuiet == Spec => []NoSubmissionInStoppedServer
<1>1. ASSUME SubmissionInv PROVE NoSubmissionInStoppedServer
  <2> SUFFICES ASSUME server # "Running"
               PROVE  invalidated /\ PermitHolders = {}
    BY DEF NoSubmissionInStoppedServer
  <2>1. invalidated /\ Cardinality(PermitHolders) = 0
    BY <1>1 DEF SubmissionInv, GateInv, InvalidatedFirst, StoppedIsEmpty,
                CountsPermits
  <2>2. IsFiniteSet(PermitHolders)
    BY SubsetsAreFinite DEF PermitHolders
  <2> QED
    BY <2>1, <2>2, FS_EmptySet
<1> QED
  BY <1>1, SubmissionInvariant, PTL

\* The gate's state is freed with its last reference and no earlier, although the
\* owner may destroy the server between a release's fetch_sub and its notify_all.
THEOREM StateLifetime == Spec => []StateOutlivesUsers
<1>1. ASSUME SubmissionInv PROVE StateOutlivesUsers
  BY <1>1 DEF SubmissionInv
<1> QED
  BY <1>1, SubmissionInvariant, PTL

-----------------------------------------------------------------------------

\* The components never touch the gate's variables.
LEMMA ComponentsLeaveTheGate ==
  ASSUME \/ Start \/ StartComponent \/ PostInitialAccept \/ StopComponent
         \/ ShutdownComponent \/ JoinComponent \/ ComponentsAreDown \/ Pump
         \/ ActorWorkersLeave
         \/ \E k \in Keys : ActorDrains(k) \/ CloseSession(k) \/ RecvCompletes(k)
         \/ \E s \in Slots : AcceptCompletes(s) \/ AcceptAborts(s)
  PROVE  UNCHANGED vars
<1>1. ASSUME Start \/ StartComponent \/ PostInitialAccept \/ StopComponent
             \/ ShutdownComponent \/ JoinComponent \/ ComponentsAreDown
      PROVE  UNCHANGED vars
  BY <1>1 DEF Start, StartComponent, PostInitialAccept, StopComponent,
              ShutdownComponent, JoinComponent, ComponentsAreDown
<1>2. ASSUME Pump PROVE UNCHANGED vars
  BY <1>2 DEF Pump, PumpTestsStop, PumpDequeues, PumpCompletesAccept, PumpTakesSocket,
              PumpReservesSlot, PumpRegistersActor, PumpEnqueuesAccepted,
              PumpDeregisters, PumpCancelsReservation, PumpRepostsAccept,
              PumpRoutesReceive, gateAndOwner
<1>3. ASSUME \/ ActorWorkersLeave
             \/ \E k \in Keys : ActorDrains(k) \/ CloseSession(k) \/ RecvCompletes(k)
             \/ \E s \in Slots : AcceptCompletes(s) \/ AcceptAborts(s)
      PROVE  UNCHANGED vars
  BY <1>3 DEF ActorWorkersLeave, ActorDrains, CloseSession, RecvCompletes,
              AcceptCompletes, AcceptAborts, gateAndOwner
<1> QED BY <1>1, <1>2, <1>3

\* A step of the server is a step of the gate, or leaves the gate alone.
LEMMA ServerStepIsGateStep ==
  ASSUME [ServerNext]_serverVars
  PROVE  [Next]_vars
<1>1. CASE \E c \in {"RequestStop", "Shutdown", "Reset"} : BeginCall(c)
  BY <1>1 DEF BeginCall, Next, BeginSomeCall
<1>2. CASE ShutGate
  BY <1>2 DEF ShutGate, Next
<1>3. CASE \E g \in Gateways : GatewayMoves(g)
  BY <1>3 DEF GatewayMoves, Next
<1>4. CASE UNCHANGED serverVars
  BY <1>4 DEF serverVars
<1> QED
  BY <1>1, <1>2, <1>3, <1>4, ComponentsLeaveTheGate DEF ServerNext, OwnerMoves

\* The server with all its components implements the gate's specification:
\* starting, rolling back and tearing down never disturb the admission word, the
\* reference count or the owner's wait.
THEOREM ServerImplementsGate == ServerSpec => Spec
<1>1. ServerInit => Init
  BY DEF ServerInit
<1> QED
  BY <1>1, ServerStepIsGateStep, PTL DEF ServerSpec, Spec

\* Once RequestStop or Shutdown has begun to stop the components of a server, no
\* submission is inside it and none enters, for any number of gateways, accept
\* slots, sessions and connections.
THEOREM NoSubmissionDuringTeardown == ServerSpec => []NoSubmissionInStoppedServer
  BY ServerImplementsGate, StoppedServerIsQuiet, PTL

-----------------------------------------------------------------------------
(***************************************************************************)
(* What the inductive invariant says.                                      *)
(***************************************************************************)
Making == {"Take", "Reserve", "Register", "Enqueue", "Undo", "Cancel", "Repost"}

PumpStates ==
    [at : {"None", "Test", "Wait", "Done"}]
    \cup [at : {"Accept"}, slot : Slots, ok : BOOLEAN]
    \cup [at : Making, slot : Slots, key : Nat]
    \cup [at : {"Route"}, key : Keys]

Completions ==
    [type : {"Control"}] \cup [type : {"Accept"}, slot : Slots, ok : BOOLEAN]
    \cup [type : {"Recv"}, key : Keys]

PlanStates == [op : {"Idle", "Start", "PostAccepts", "RequestStop", "Shutdown", "Rollback"},
               at : Nat, join : BOOLEAN]

PortStates == [state : {"None", "Open", "Closed"}, queue : Seq(Completions)]

ListenerStates ==
    [open : BOOLEAN, slot : [Slots -> {"Idle", "Posted", "Queued", "Aborting", "Closed"}]]

ActorStates == [open : BOOLEAN, workers : {"None", "Up", "Left"}]

SessionStates == [registered : BOOLEAN, mail : {"None", "Accepted", "Recv"},
                  io : {"None", "Posted", "Queued"}]

ServerTypeOK ==
    /\ shell \in {"Created", "Running", "StopRequested", "Shutdown"}
    /\ plan \in PlanStates
    /\ startedCount \in 0 .. 7
    /\ port \in PortStates
    /\ listener \in ListenerStates
    /\ pump \in PumpStates
    /\ actors \in ActorStates
    /\ told \in [Keys -> {"None", "Reserved", "Accepted", "Ended"}]
    /\ session \in [Keys -> SessionStates]
    /\ nextKey \in Nat

\* How many components are started, for each thing the owner may be doing, and
\* in which state of the server it does it.
OwnerProgress ==
    /\ plan.op = "Idle" =>
         /\ ~plan.join
         /\ startedCount = IF shell \in {"Running", "StopRequested"} THEN 7 ELSE 0
    /\ plan.op = "Start" =>
         ~plan.join /\ shell = "Created" /\ plan.at \in 1 .. 7 /\ startedCount = plan.at - 1
    /\ plan.op = "PostAccepts" =>
         ~plan.join /\ shell = "Created" /\ plan.at \in Slots /\ startedCount = 6
    /\ plan.op = "RequestStop" =>
         ~plan.join /\ shell = "Running" /\ plan.at \in 0 .. 7 /\ startedCount = 7
    /\ plan.op = "Shutdown" => shell # "Shutdown"
    /\ plan.op = "Rollback" => shell = "Created"
    /\ plan.join => startedCount > 0
    /\ owner # "Idle" => plan.op = "Idle" /\ (call = "RequestStop" => shell = "Running")
    /\ handoffClosed => shell = "Shutdown"

PumpRuns == pump.at \notin {"None", "Done"}

\* The component at index i of LifecycleOrder is started and its shutdown has
\* not begun.
Serving(i) == startedCount >= i /\ ~(startedCount = i /\ plan.join)

\* A component is up only while the ones it stands on are.
ComponentsNested ==
    /\ port.state = "Open" <=> Serving(3)
    /\ actors.workers = "Up" => startedCount >= 5
    /\ PumpRuns => startedCount >= 6
    /\ listener.open => Serving(7) \/ plan.op = "PostAccepts"

\* What is left of a session nobody works on.
Blank(k) == k \in Keys => told[k] = "None" /\ session[k] = NoActor

\* The session that the pump is making, step by step; its key is its own.
MakingInv ==
    /\ pump.at \in Making => pump.key < nextKey
    /\ \A k \in Keys : k >= nextKey => Blank(k)
    /\ pump.at \in {"Take", "Reserve"} => Blank(pump.key)
    /\ pump.at \in {"Register", "Cancel"} /\ pump.key \in Keys =>
          told[pump.key] = "Reserved" /\ session[pump.key] = NoActor
    /\ pump.at \in {"Enqueue", "Undo"} /\ pump.key \in Keys =>
          /\ told[pump.key] = "Reserved" /\ session[pump.key].registered
          /\ session[pump.key].mail = "None" /\ session[pump.key].io = "None"

\* Mail and receives are those of a registered session.
SessionInv ==
    \A k \in Keys : ~session[k].registered => session[k] = NoActor

\* The registry has closed every session by the time its shutdown is joined.
RegistryInv ==
    ~Serving(4) => \A k \in Keys : session[k] = NoActor /\ told[k] \in {"None", "Ended"}

ServerInv == /\ ServerTypeOK /\ OwnerProgress /\ ComponentsNested
             /\ MakingInv /\ SessionInv /\ SlotAndActorAgree /\ RegistryInv

-----------------------------------------------------------------------------
(***************************************************************************)
(* Types.                                                                  *)
(***************************************************************************)
\* The pump goes on to another step of making the same session.
LEMMA PumpGoesOn ==
    ASSUME pump \in PumpStates, NEW step, PumpGoesTo(step)
    PROVE  /\ pump'.at = step
           /\ pump.at \in {"None", "Test", "Wait", "Done"}
                /\ step \in {"None", "Test", "Wait", "Done"} => pump' \in PumpStates
           /\ pump.at \in Making /\ step \in Making =>
                pump' \in PumpStates /\ pump'.key = pump.key /\ pump'.slot = pump.slot
  BY DEF PumpStates, PumpGoesTo, Making

\* What the pump knows at each of its steps.
LEMMA PumpKnows ==
    ASSUME pump \in PumpStates
    PROVE  /\ pump.at = "Accept" => pump.slot \in Slots /\ pump.ok \in BOOLEAN
           /\ pump.at \in Making => pump.slot \in Slots /\ pump.key \in Nat
           /\ pump.at = "Route" => pump.key \in Keys
  BY DEF PumpStates, Making

\* The pump after a pass of its loop.
LEMMA PumpAtTest == [at |-> "Test"] \in PumpStates
  BY DEF PumpStates

\* A completion that is queued keeps the port's type and state.
LEMMA PortKeepsType ==
    ASSUME port \in PortStates, NEW item \in Completions, Complete(item)
    PROVE  port' \in PortStates /\ port'.state = port.state
  BY DEF Complete, PortStates

\* The completion that wakes the pump.
LEMMA ControlIsCompletion ==
    ASSUME port \in PortStates, WakeWorker
    PROVE  port' \in PortStates /\ port'.state = port.state
<1>1. PICK item \in Completions : port' = [port EXCEPT !.queue = Append(@, item)]
  BY DEF WakeWorker, Completions
<1>2. port.queue \in Seq(Completions) /\ Append(port.queue, item) \in Seq(Completions)
  BY DEF PortStates
<1> DEFINE q == Append(port.queue, item)
<1>3. port' = [port EXCEPT !.queue = q]
  BY <1>1
<1> HIDE DEF q
<1> QED
  BY <1>2, <1>3 DEF PortStates, q

\* The listener: one slot, all slots at a shutdown, or the listen socket opened.
LEMMA SlotTyped ==
    ASSUME listener \in ListenerStates, NEW s,
           NEW v \in {"Idle", "Posted", "Queued", "Aborting", "Closed"}, SetSlot(s, v)
    PROVE  listener' \in ListenerStates /\ listener'.open = listener.open
  BY DEF ListenerStates, SetSlot

LEMMA ListenerTyped ==
    ASSUME listener \in ListenerStates,
           ShutListener \/ listener' = [listener EXCEPT !.open = TRUE]
    PROVE  listener' \in ListenerStates /\ (ShutListener => ~listener'.open)
<1>1. CASE ShutListener
  <2> DEFINE slots == [s \in Slots |-> IF listener.slot[s] = "Posted"
                                       THEN "Aborting" ELSE "Closed"]
  <2>1. slots \in [Slots -> {"Idle", "Posted", "Queued", "Aborting", "Closed"}]
    OBVIOUS
  <2>2. listener' = [open |-> FALSE, slot |-> slots]
    BY <1>1 DEF ShutListener
  <2> HIDE DEF slots
  <2> QED
    BY <2>1, <2>2 DEF ListenerStates
<1>2. CASE listener' = [listener EXCEPT !.open = TRUE]
  <2>1. ~ShutListener
    BY <1>2 DEF ListenerStates, ShutListener
  <2> QED
    BY <1>2, <2>1 DEF ListenerStates
<1> QED
  BY <1>1, <1>2

\* A session's record.
LEMMA SessionMoves ==
    ASSUME NEW x \in SessionStates
    PROVE  /\ NoActor \in SessionStates /\ ~NoActor.registered
           /\ NoActor.mail = "None" /\ NoActor.io = "None"
           /\ [x EXCEPT !.registered = TRUE] \in SessionStates
           /\ [x EXCEPT !.registered = TRUE].registered
           /\ [x EXCEPT !.registered = TRUE].mail = x.mail
           /\ [x EXCEPT !.registered = TRUE].io = x.io
           /\ [x EXCEPT !.mail = "Accepted"] \in SessionStates
           /\ [x EXCEPT !.mail = "Accepted"].registered = x.registered
           /\ [x EXCEPT !.mail = "Recv", !.io = "None"] \in SessionStates
           /\ [x EXCEPT !.mail = "Recv", !.io = "None"].registered = x.registered
           /\ [x EXCEPT !.mail = "None", !.io = "Posted"] \in SessionStates
           /\ [x EXCEPT !.mail = "None", !.io = "Posted"].registered = x.registered
           /\ [x EXCEPT !.io = "Queued"] \in SessionStates
           /\ [x EXCEPT !.io = "Queued"].registered = x.registered
  BY DEF SessionStates, NoActor

\* What the owner's steps do to its plan, its count and the components, with the
\* names of LifecycleOrder replaced by their places.
LEMMA StartComponentEffect ==
    ASSUME ServerTypeOK, OwnerProgress, StartComponent
    PROVE  /\ plan.op = "Start" /\ ~plan.join /\ plan.at = startedCount + 1
           /\ startedCount \in 0 .. 6 /\ shell = "Created"
           /\ UNCHANGED <<shell, told, session, nextKey, handoffClosed, owner, call>>
           /\ \/ /\ startedCount' = startedCount + 1 /\ plan' = [plan EXCEPT !.at = @ + 1]
                 /\ startedCount < 6 /\ listener' = listener
                 /\ port' = IF startedCount = 2 THEN [port EXCEPT !.state = "Open"] ELSE port
                 /\ actors' = IF startedCount = 4 THEN [open |-> TRUE, workers |-> "Up"]
                              ELSE actors
                 /\ pump' = IF startedCount = 5 THEN [at |-> "Test"] ELSE pump
              \/ /\ startedCount = 6 /\ startedCount' = 6
                 /\ plan' = [plan EXCEPT !.op = "PostAccepts", !.at = 1]
                 /\ UNCHANGED <<port, actors, pump>>
                 /\ listener' = [listener EXCEPT !.open = TRUE]
              \/ Rollback /\ UNCHANGED <<startedCount, port, actors, pump, listener>>
<1>1. /\ plan.op = "Start" /\ ~plan.join /\ plan.at = startedCount + 1
      /\ startedCount \in 0 .. 6 /\ shell = "Created" /\ plan.at \in 1 .. 7
  BY DEF StartComponent, OwnerProgress, ServerTypeOK
<1>2. UNCHANGED <<shell, told, session, nextKey, handoffClosed, owner, call>>
  BY DEF StartComponent, vars, sessionVars
<1>3. /\ LifecycleOrder[plan.at] = "Listener" <=> startedCount = 6
      /\ LifecycleOrder[plan.at] = "Port" <=> startedCount = 2
      /\ LifecycleOrder[plan.at] = "Scheduler" <=> startedCount = 4
      /\ LifecycleOrder[plan.at] = "Pipeline" <=> startedCount = 5
  BY <1>1 DEF LifecycleOrder
<1> QED
  BY <1>1, <1>2, <1>3 DEF StartComponent, StartEffect

\* The shutdown of a component, up to the join.
LEMMA ShutdownComponentEffect ==
    ASSUME ServerTypeOK, OwnerProgress, ShutdownComponent
    PROVE  /\ plan.op \in {"Shutdown", "Rollback"} /\ ~plan.join
           /\ startedCount \in 1 .. 7 /\ startedCount' = startedCount
           /\ plan' = [plan EXCEPT !.join = TRUE]
           /\ UNCHANGED <<shell, pump, nextKey, handoffClosed, owner, call>>
           /\ IF startedCount = 3 THEN port' = [state |-> "Closed", queue |-> <<>>]
              ELSE WakeWorker \/ port' = port
           /\ IF startedCount = 7 THEN ShutListener ELSE listener' = listener
           /\ IF startedCount = 4 THEN RecordServerStopping ELSE UNCHANGED <<told, session>>
           /\ actors' = IF startedCount = 5 THEN [actors EXCEPT !.open = FALSE] ELSE actors
<1>1. /\ plan.op \in {"Shutdown", "Rollback"} /\ ~plan.join
      /\ startedCount \in 1 .. 7 /\ startedCount' = startedCount
      /\ plan' = [plan EXCEPT !.join = TRUE]
      /\ UNCHANGED <<shell, pump, nextKey, handoffClosed, owner, call>>
      /\ ShutdownEffect(NextToShutDown)
  BY DEF ShutdownComponent, ServerTypeOK, vars
<1>2. /\ NextToShutDown = "Listener" <=> startedCount = 7
      /\ NextToShutDown = "Port" <=> startedCount = 3
      /\ NextToShutDown = "Registry" <=> startedCount = 4
      /\ NextToShutDown = "Scheduler" <=> startedCount = 5
      /\ NextToShutDown = "Pipeline" <=> startedCount = 6
  BY <1>1 DEF LifecycleOrder, NextToShutDown
<1>3. IF startedCount = 3 THEN port' = [state |-> "Closed", queue |-> <<>>]
      ELSE WakeWorker \/ port' = port
  <2>1. CASE startedCount = 3
    BY <1>1, <1>2, <2>1 DEF ShutdownEffect
  <2>2. CASE startedCount = 6
    BY <1>1, <1>2, <2>2 DEF ShutdownEffect
  <2>3. CASE startedCount \notin {3, 6}
    BY <1>1, <1>2, <2>3 DEF ShutdownEffect
  <2> QED
    BY <2>1, <2>2, <2>3
<1> QED
  BY <1>1, <1>2, <1>3 DEF ShutdownEffect, sessionVars

\* The join, at the end of a component's shutdown.
LEMMA JoinComponentEffect ==
    ASSUME ServerTypeOK, OwnerProgress, JoinComponent
    PROVE  /\ plan.join /\ startedCount \in 1 .. 7 /\ startedCount' = startedCount - 1
           /\ plan.op \in {"Shutdown", "Rollback"}
           /\ plan' = [plan EXCEPT !.join = FALSE]
           /\ UNCHANGED <<shell, port, listener, pump, actors, told, session, nextKey,
                          handoffClosed, owner, call>>
           /\ startedCount = 6 => pump.at = "Done"
           /\ startedCount = 5 => actors.workers = "Left"
<1>1. /\ plan.join /\ startedCount \in 1 .. 7 /\ startedCount' = startedCount - 1
      /\ plan.op \in {"Shutdown", "Rollback"}
  BY DEF JoinComponent, OwnerProgress, ServerTypeOK, PlanStates
<1>2. /\ startedCount = 6 => NextToShutDown = "Pipeline"
      /\ startedCount = 5 => NextToShutDown = "Scheduler"
  BY DEF LifecycleOrder, NextToShutDown
<1> QED
  BY <1>1, <1>2 DEF JoinComponent, Joined, vars, sessionVars

\* The stop of one component, or the end of RequestStop.
LEMMA StopComponentEffect ==
    ASSUME ServerTypeOK, OwnerProgress, StopComponent
    PROVE  /\ plan.op = "RequestStop" /\ ~plan.join /\ plan.at \in 0 .. 7
           /\ startedCount = 7 /\ startedCount' = 7 /\ shell = "Running"
           /\ UNCHANGED <<listener, pump, told, session, nextKey, handoffClosed, owner, call>>
           /\ WakeWorker \/ port' = port
           /\ actors' = actors \/ actors' = [actors EXCEPT !.open = FALSE]
           /\ \/ plan.at = 0 /\ shell' = "StopRequested" /\ plan' = Resting
              \/ plan.at # 0 /\ shell' = shell /\ plan' = [plan EXCEPT !.at = @ - 1]
  BY DEF StopComponent, StopEffect, OwnerProgress, ServerTypeOK, vars, sessionVars

\* One more accept slot posted, the last of them, or a failed start.
LEMMA PostInitialAcceptEffect ==
    ASSUME ServerTypeOK, OwnerProgress, PostInitialAccept
    PROVE  /\ plan.op = "PostAccepts" /\ ~plan.join /\ plan.at \in Slots
           /\ startedCount = 6 /\ shell = "Created"
           /\ UNCHANGED <<port, pump, actors, told, session, nextKey, handoffClosed,
                          owner, call>>
           /\ \/ /\ SetSlot(plan.at, "Posted")
                 /\ \/ shell' = "Running" /\ startedCount' = 7 /\ plan' = Resting
                    \/ /\ shell' = shell /\ startedCount' = startedCount
                       /\ plan.at + 1 \in Slots /\ plan' = [plan EXCEPT !.at = @ + 1]
              \/ ShutListener /\ Rollback /\ UNCHANGED <<shell, startedCount>>
<1>1. /\ plan.op = "PostAccepts" /\ ~plan.join /\ plan.at \in Slots
      /\ startedCount = 6 /\ shell = "Created"
  BY DEF PostInitialAccept, OwnerProgress
<1>2. Len(LifecycleOrder) = 7
  BY DEF LifecycleOrder
<1>3. plan.at # AcceptSlotCount => plan.at + 1 \in Slots
  BY <1>1, ServerLifecycleAssumption DEF Slots
<1> QED
  BY <1>1, <1>2, <1>3 DEF PostInitialAccept, StartSucceeds, vars, sessionVars

\* The server's variables keep their types, whatever the owner does.
LEMMA OwnerTyped ==
    ASSUME ServerTypeOK, OwnerProgress,
           \/ Start \/ StartComponent \/ PostInitialAccept \/ StopComponent
           \/ ShutdownComponent \/ JoinComponent \/ ComponentsAreDown \/ ShutGate
           \/ \E c \in {"RequestStop", "Shutdown", "Reset"} : BeginCall(c)
    PROVE  ServerTypeOK'
<1>t. /\ plan \in PlanStates /\ port \in PortStates /\ listener \in ListenerStates
      /\ actors \in ActorStates /\ plan.at \in Nat /\ pump \in PumpStates
      /\ Resting \in PlanStates
  BY DEF ServerTypeOK, PlanStates, Resting
<1>r. Rollback => plan' \in PlanStates
  BY DEF Rollback, PlanStates
<1>1. CASE Start
  <2>1. plan' \in PlanStates
    BY <1>1 DEF Start, PlanStates
  <2> QED
    BY <1>1, <2>1 DEF Start, sessionVars, ServerTypeOK
<1>2. CASE StartComponent
  <2>1. plan' \in PlanStates /\ startedCount' \in 0 .. 7
    <3>1. [plan EXCEPT !.at = @ + 1] \in PlanStates
      BY <1>t DEF PlanStates
    <3>2. [plan EXCEPT !.op = "PostAccepts", !.at = 1] \in PlanStates
      BY <1>t DEF PlanStates
    <3> QED
      BY <1>2, <1>r, <3>1, <3>2, StartComponentEffect
  <2>2. port' \in PortStates
    <3>1. [port EXCEPT !.state = "Open"] \in PortStates
      BY <1>t DEF PortStates
    <3> QED
      BY <1>2, <1>t, <3>1, StartComponentEffect
  <2>3. listener' \in ListenerStates
    BY <1>2, <1>t, ListenerTyped, StartComponentEffect
  <2>4. actors' \in ActorStates /\ pump' \in PumpStates
    <3>1. [open |-> TRUE, workers |-> "Up"] \in ActorStates
      BY DEF ActorStates
    <3> QED
      BY <1>2, <1>t, <3>1, PumpAtTest, StartComponentEffect
  <2> QED
    BY <1>2, <2>1, <2>2, <2>3, <2>4, StartComponentEffect DEF ServerTypeOK
<1>3. CASE PostInitialAccept
  <2>1. plan' \in PlanStates
    <3>1. [plan EXCEPT !.at = @ + 1] \in PlanStates
      BY <1>t DEF PlanStates
    <3> QED
      BY <1>3, <1>t, <1>r, <3>1, PostInitialAcceptEffect
  <2>2. listener' \in ListenerStates
    BY <1>3, <1>t, ListenerTyped, SlotTyped, PostInitialAcceptEffect
  <2>3. shell' \in {"Created", "Running"} /\ startedCount' \in 0 .. 7
    BY <1>3, PostInitialAcceptEffect
  <2> QED
    BY <1>3, <2>1, <2>2, <2>3, PostInitialAcceptEffect DEF ServerTypeOK
<1>4. CASE StopComponent
  <2>1. plan' \in PlanStates
    <3>1. ASSUME plan.at # 0, plan.at \in 0 .. 7
          PROVE  [plan EXCEPT !.at = @ - 1] \in PlanStates
      BY <1>t, <3>1 DEF PlanStates
    <3> QED
      BY <1>4, <1>t, <3>1, StopComponentEffect
  <2>2. port' \in PortStates
    BY <1>4, <1>t, ControlIsCompletion, StopComponentEffect
  <2>3. actors' \in ActorStates
    <3>1. [actors EXCEPT !.open = FALSE] \in ActorStates
      BY <1>t DEF ActorStates
    <3> QED
      BY <1>4, <1>t, <3>1, StopComponentEffect
  <2>4. shell' \in {"Running", "StopRequested"} /\ startedCount' = 7
    BY <1>4, StopComponentEffect
  <2> QED
    BY <1>4, <2>1, <2>2, <2>3, <2>4, StopComponentEffect DEF ServerTypeOK
<1>5. CASE ShutdownComponent
  <2>1. plan' \in PlanStates
    <3>1. [plan EXCEPT !.join = TRUE] \in PlanStates
      BY <1>t DEF PlanStates
    <3> QED
      BY <1>5, <3>1, ShutdownComponentEffect
  <2>2. port' \in PortStates
    <3>1. [state |-> "Closed", queue |-> <<>>] \in PortStates
      BY DEF PortStates
    <3> QED
      BY <1>5, <1>t, <3>1, ControlIsCompletion, ShutdownComponentEffect
  <2>3. listener' \in ListenerStates
    BY <1>5, <1>t, ListenerTyped, ShutdownComponentEffect
  <2>4. actors' \in ActorStates
    <3>1. [actors EXCEPT !.open = FALSE] \in ActorStates
      BY <1>t DEF ActorStates
    <3> QED
      BY <1>5, <1>t, <3>1, ShutdownComponentEffect
  <2>5. /\ told' \in [Keys -> {"None", "Reserved", "Accepted", "Ended"}]
        /\ session' \in [Keys -> SessionStates]
    <3>1. NoActor \in SessionStates
      BY DEF SessionStates, NoActor
    <3>2. CASE startedCount = 4
      BY <1>5, <3>1, <3>2, ShutdownComponentEffect DEF RecordServerStopping, ServerTypeOK
    <3>3. CASE startedCount # 4
      BY <1>5, <3>3, ShutdownComponentEffect DEF ServerTypeOK
    <3> QED
      BY <3>2, <3>3
  <2>6. UNCHANGED <<shell, startedCount, pump, nextKey>>
    BY <1>5, ShutdownComponentEffect
  <2> QED
    BY <2>1, <2>2, <2>3, <2>4, <2>5, <2>6 DEF ServerTypeOK
<1>6. CASE JoinComponent
  <2>1. plan' \in PlanStates /\ startedCount' \in 0 .. 7
    <3>1. [plan EXCEPT !.join = FALSE] \in PlanStates
      BY <1>t DEF PlanStates
    <3>2. plan' \in PlanStates
      BY <1>6, <3>1, JoinComponentEffect
    <3>3. startedCount' \in 0 .. 7
      BY <1>6, JoinComponentEffect
    <3> QED
      BY <3>2, <3>3
  <2> QED
    BY <1>6, <2>1, JoinComponentEffect DEF ServerTypeOK
<1>7. CASE ComponentsAreDown
  BY <1>7, <1>t DEF ComponentsAreDown, sessionVars, ServerTypeOK
<1>8. CASE ShutGate
  <2>1. plan' \in PlanStates
    <3>1. /\ [op |-> "RequestStop", at |-> startedCount, join |-> FALSE] \in PlanStates
          /\ [op |-> "Shutdown", at |-> 0, join |-> FALSE] \in PlanStates
      BY DEF PlanStates, ServerTypeOK
    <3> QED
      BY <1>8, <1>t, <3>1 DEF ShutGate
  <2> QED
    BY <1>8, <2>1 DEF ShutGate, sessionVars, ServerTypeOK
<1>9. CASE \E c \in {"RequestStop", "Shutdown", "Reset"} : BeginCall(c)
  BY <1>9 DEF BeginCall, lifecycleVars, sessionVars, ServerTypeOK
<1> QED
  BY <1>1, <1>2, <1>3, <1>4, <1>5, <1>6, <1>7, <1>8, <1>9

\* And whatever the pump does.
LEMMA PumpTyped ==
    ASSUME ServerTypeOK, Pump
    PROVE  ServerTypeOK'
<1>t. /\ pump \in PumpStates /\ [at |-> "Test"] \in PumpStates
      /\ listener \in ListenerStates /\ port \in PortStates
      /\ told \in [Keys -> {"None", "Reserved", "Accepted", "Ended"}]
      /\ session \in [Keys -> SessionStates] /\ nextKey \in Nat
  BY PumpAtTest DEF ServerTypeOK
<1>f. PumpFails \/ PumpSucceeds => pump' \in PumpStates
  BY <1>t DEF PumpFails, PumpSucceeds
<1>1. UNCHANGED <<shell, plan, startedCount, actors>>
  BY DEF Pump, PumpTestsStop, PumpDequeues, PumpCompletesAccept, PumpTakesSocket,
         PumpReservesSlot, PumpRegistersActor, PumpEnqueuesAccepted,
         PumpDeregisters, PumpCancelsReservation, PumpRepostsAccept,
         PumpRoutesReceive, gateAndOwner, lifecycleVars
<1>2. pump' \in PumpStates
  <2>1. CASE PumpTestsStop
    BY <1>t, <2>1, PumpGoesOn DEF PumpTestsStop
  <2>2. CASE PumpDequeues
    <3>1. Head(port.queue) \in Completions
      BY <1>t, <2>2 DEF PumpDequeues, PortStates
    <3> QED
      BY <3>1, <2>2 DEF PumpDequeues, Completions, PumpStates
  <2>3. CASE PumpCompletesAccept
    <3>1. pump.slot \in Slots
      BY <1>t, <2>3, PumpKnows DEF PumpCompletesAccept
    <3>2. [at |-> "Take", slot |-> pump.slot, key |-> nextKey] \in PumpStates
      BY <1>t, <3>1 DEF PumpStates, Making
    <3> QED
      BY <1>f, <2>3, <3>2 DEF PumpCompletesAccept
  <2>4. CASE PumpTakesSocket \/ PumpReservesSlot
    BY <1>t, <1>f, <2>4, PumpGoesOn DEF PumpTakesSocket, PumpReservesSlot, Making
  <2>5. CASE PumpRegistersActor \/ PumpEnqueuesAccepted \/ PumpDeregisters
    BY <1>t, <2>5, PumpGoesOn
    DEF PumpRegistersActor, PumpEnqueuesAccepted, PumpDeregisters, Making
  <2>6. CASE PumpCancelsReservation \/ PumpRepostsAccept \/ PumpRoutesReceive
    BY <1>f, <2>6 DEF PumpCancelsReservation, PumpRepostsAccept, PumpRoutesReceive
  <2> QED
    BY <2>1, <2>2, <2>3, <2>4, <2>5, <2>6 DEF Pump
<1>3. port' \in PortStates
  <2>1. CASE PumpDequeues
    <3>1. Tail(port.queue) \in Seq(Completions)
      BY <1>t, <2>1 DEF PumpDequeues, PortStates
    <3> DEFINE q == Tail(port.queue)
    <3>2. port' = [port EXCEPT !.queue = q]
      BY <2>1 DEF PumpDequeues
    <3> HIDE DEF q
    <3> QED
      BY <1>t, <3>1, <3>2 DEF PortStates, q
  <2>2. CASE ~PumpDequeues
    BY <1>t, <2>2 DEF Pump, PumpTestsStop, PumpCompletesAccept, PumpTakesSocket,
         PumpReservesSlot, PumpRegistersActor, PumpEnqueuesAccepted,
         PumpDeregisters, PumpCancelsReservation, PumpRepostsAccept, PumpRoutesReceive
  <2> QED
    BY <2>1, <2>2
<1>4. listener' \in ListenerStates
  <2>1. CASE PumpTakesSocket
    BY <1>t, <2>1, SlotTyped DEF PumpTakesSocket
  <2>2. CASE PumpRepostsAccept
    BY <1>t, <2>2, SlotTyped DEF PumpRepostsAccept
  <2>3. CASE ~PumpTakesSocket /\ ~PumpRepostsAccept
    BY <1>t, <2>3 DEF Pump, PumpTestsStop, PumpDequeues, PumpCompletesAccept,
         PumpReservesSlot, PumpRegistersActor, PumpEnqueuesAccepted,
         PumpDeregisters, PumpCancelsReservation, PumpRoutesReceive
  <2> QED
    BY <2>1, <2>2, <2>3
<1>5. told' \in [Keys -> {"None", "Reserved", "Accepted", "Ended"}]
  BY <1>t DEF Pump, PumpTestsStop, PumpDequeues, PumpCompletesAccept, PumpTakesSocket,
         PumpReservesSlot, PumpRegistersActor, PumpEnqueuesAccepted,
         PumpDeregisters, PumpCancelsReservation, PumpRepostsAccept,
         PumpRoutesReceive, sessionVars
<1>6. session' \in [Keys -> SessionStates]
  <2>1. \A k \in Keys :
            /\ NoActor \in SessionStates
            /\ [session[k] EXCEPT !.registered = TRUE] \in SessionStates
            /\ [session[k] EXCEPT !.mail = "Accepted"] \in SessionStates
            /\ [session[k] EXCEPT !.mail = "Recv", !.io = "None"] \in SessionStates
    BY <1>t, SessionMoves
  <2>2. CASE PumpRegistersActor
    <3>1. \/ session' = session
          \/ \E k \in Keys : session' = [session EXCEPT ![k] = [session[k] EXCEPT !.registered = TRUE]]
      BY <1>t, <2>2 DEF PumpRegistersActor
    <3> QED
      BY <1>t, <2>1, <3>1
  <2>3. CASE PumpEnqueuesAccepted
    <3>1. \/ session' = session
          \/ \E k \in Keys : session' = [session EXCEPT ![k] = [session[k] EXCEPT !.mail = "Accepted"]]
      BY <1>t, <2>3 DEF PumpEnqueuesAccepted
    <3> QED
      BY <1>t, <2>1, <3>1
  <2>4. CASE PumpDeregisters
    BY <1>t, <2>1, <2>4 DEF PumpDeregisters
  <2>5. CASE PumpRoutesReceive
    <3>1. PICK k \in Keys : k = pump.key
      BY <1>t, <2>5, PumpKnows DEF PumpRoutesReceive
    <3>2. \/ session' = session
          \/ session' = [session EXCEPT ![k] = [session[k] EXCEPT !.mail = "Recv", !.io = "None"]]
      BY <1>t, <2>5, <3>1 DEF PumpRoutesReceive
    <3> QED
      BY <1>t, <2>1, <3>2
  <2>6. CASE ~(PumpRegistersActor \/ PumpEnqueuesAccepted \/ PumpDeregisters \/ PumpRoutesReceive)
    BY <1>t, <2>6 DEF Pump, PumpTestsStop, PumpDequeues, PumpCompletesAccept,
         PumpTakesSocket, PumpReservesSlot, PumpCancelsReservation, PumpRepostsAccept,
         sessionVars
  <2> QED
    BY <2>2, <2>3, <2>4, <2>5, <2>6
<1>7. nextKey' \in Nat
  BY <1>t DEF Pump, PumpTestsStop, PumpDequeues, PumpCompletesAccept, PumpTakesSocket,
         PumpReservesSlot, PumpRegistersActor, PumpEnqueuesAccepted,
         PumpDeregisters, PumpCancelsReservation, PumpRepostsAccept,
         PumpRoutesReceive
<1> QED
  BY <1>1, <1>2, <1>3, <1>4, <1>5, <1>6, <1>7 DEF ServerTypeOK

\* And whatever the others do.
LEMMA OthersTyped ==
    ASSUME ServerTypeOK,
           \/ ActorWorkersLeave
           \/ \E k \in Keys : ActorDrains(k) \/ CloseSession(k) \/ RecvCompletes(k)
           \/ \E s \in Slots : AcceptCompletes(s) \/ AcceptAborts(s)
           \/ \E g \in Gateways : GatewayMoves(g)
    PROVE  ServerTypeOK'
<1>t. /\ listener \in ListenerStates /\ port \in PortStates /\ actors \in ActorStates
      /\ told \in [Keys -> {"None", "Reserved", "Accepted", "Ended"}]
      /\ session \in [Keys -> SessionStates]
  BY DEF ServerTypeOK
<1>1. CASE ActorWorkersLeave
  <2>1. actors' \in ActorStates
    BY <1>1, <1>t DEF ActorWorkersLeave, ActorStates
  <2> QED
    BY <1>1, <2>1 DEF ActorWorkersLeave, gateAndOwner, lifecycleVars, sessionVars, ServerTypeOK
<1>2. ASSUME NEW k \in Keys, ActorDrains(k) \/ CloseSession(k) PROVE ServerTypeOK'
  <2>1. /\ NoActor \in SessionStates
        /\ [session[k] EXCEPT !.mail = "None", !.io = "Posted"] \in SessionStates
    BY <1>t, SessionMoves
  <2>2. /\ told' \in [Keys -> {"None", "Reserved", "Accepted", "Ended"}]
        /\ session' \in [Keys -> SessionStates]
    BY <1>2, <1>t, <2>1 DEF ActorDrains, CloseSession, EndSession
  <2> QED
    BY <1>2, <2>2 DEF ActorDrains, CloseSession, gateAndOwner, lifecycleVars, ServerTypeOK
<1>3. ASSUME NEW k \in Keys, RecvCompletes(k) PROVE ServerTypeOK'
  <2>1. [type |-> "Recv", key |-> k] \in Completions
    BY DEF Completions
  <2>2. port' \in PortStates
    BY <1>3, <1>t, <2>1, PortKeepsType DEF RecvCompletes
  <2>3. [session[k] EXCEPT !.io = "Queued"] \in SessionStates
    BY <1>t, SessionMoves
  <2>4. session' \in [Keys -> SessionStates]
    BY <1>3, <1>t, <2>3 DEF RecvCompletes
  <2> QED
    BY <1>3, <2>2, <2>4 DEF RecvCompletes, gateAndOwner, lifecycleVars, ServerTypeOK
<1>4. ASSUME NEW s \in Slots, AcceptCompletes(s) \/ AcceptAborts(s) PROVE ServerTypeOK'
  <2>1. \A ok \in BOOLEAN : [type |-> "Accept", slot |-> s, ok |-> ok] \in Completions
    BY DEF Completions
  <2>2. port' \in PortStates
    BY <1>4, <1>t, <2>1, PortKeepsType DEF AcceptCompletes, AcceptAborts
  <2>3. listener' \in ListenerStates
    BY <1>4, <1>t, SlotTyped DEF AcceptCompletes, AcceptAborts
  <2> QED
    BY <1>4, <2>2, <2>3 DEF AcceptCompletes, AcceptAborts, gateAndOwner, lifecycleVars,
                      sessionVars, ServerTypeOK
<1>5. ASSUME NEW g \in Gateways, GatewayMoves(g) PROVE ServerTypeOK'
  BY <1>5 DEF GatewayMoves, lifecycleVars, sessionVars, ServerTypeOK
<1> QED
  BY <1>1, <1>2, <1>3, <1>4, <1>5

-----------------------------------------------------------------------------
(***************************************************************************)
(* The owner's steps.                                                      *)
(***************************************************************************)
Rest == MakingInv /\ SessionInv /\ SlotAndActorAgree /\ RegistryInv

\* A step that leaves the sessions and the pump alone leaves them as they were;
\* the registry may have gone from not serving to serving.
LEMMA SessionsKept ==
    ASSUME ServerTypeOK, Rest, UNCHANGED <<told, session, nextKey>>,
           \/ pump' = pump
           \/ pump.at \notin Making /\ pump'.at \notin Making,
           Serving(4) => Serving(4)'
    PROVE  Rest'
<1>1. pump.at \in Making <=> pump'.at \in Making
  OBVIOUS
<1>2. \A k \in Keys : BeingMade(k)' <=> BeingMade(k)
  BY DEF BeingMade, Making
<1>3. SlotAndActorAgree'
  BY <1>2 DEF Rest, SlotAndActorAgree
<1>4. MakingInv'
  BY DEF Rest, MakingInv, Blank, Making
<1> QED
  BY <1>3, <1>4 DEF Rest, SessionInv, RegistryInv

\* The count of started components and what the owner is doing agree.
LEMMA OwnerProgressKept ==
    ASSUME ServerTypeOK, OwnerProgress,
           \/ Start \/ StartComponent \/ PostInitialAccept \/ StopComponent
           \/ ShutdownComponent \/ JoinComponent \/ ComponentsAreDown \/ ShutGate
           \/ \E c \in {"RequestStop", "Shutdown", "Reset"} : BeginCall(c)
    PROVE  OwnerProgress'
<1>t. /\ plan \in PlanStates /\ startedCount \in 0 .. 7 /\ AcceptSlotCount \in Nat \ {0}
      /\ plan.op \in {"Idle", "Start", "PostAccepts", "RequestStop", "Shutdown", "Rollback"}
  BY ServerLifecycleAssumption DEF ServerTypeOK, PlanStates
<1>r. Rollback => plan'.op = "Rollback" /\ ~plan'.join
  BY DEF Rollback
<1>i. plan' = Resting => plan'.op = "Idle" /\ ~plan'.join
  BY DEF Resting
<1>1. CASE Start
  BY <1>1, <1>t DEF Start, OwnerIsFree, vars, OwnerProgress
<1>2. CASE StartComponent
  <2>1. /\ plan.op = "Start" /\ ~plan.join /\ plan.at = startedCount + 1
        /\ startedCount \in 0 .. 6 /\ shell = "Created"
        /\ UNCHANGED <<shell, handoffClosed, owner, call>>
    BY <1>2, StartComponentEffect
  <2>2. \/ /\ startedCount' = startedCount + 1 /\ startedCount < 6
           /\ plan'.op = "Start" /\ ~plan'.join /\ plan'.at = plan.at + 1
        \/ /\ startedCount' = 6
           /\ plan'.op = "PostAccepts" /\ ~plan'.join /\ plan'.at = 1
        \/ /\ startedCount' = startedCount
           /\ plan'.op = "Rollback" /\ ~plan'.join
    BY <1>2, <1>t, <1>r, <2>1, StartComponentEffect DEF PlanStates
  <2> QED
    BY <1>t, <2>1, <2>2 DEF OwnerProgress, Slots
<1>3. CASE PostInitialAccept
  <2>1. /\ plan.op = "PostAccepts" /\ ~plan.join /\ startedCount = 6 /\ shell = "Created"
        /\ UNCHANGED <<handoffClosed, owner, call>>
    BY <1>3, PostInitialAcceptEffect
  <2>2. \/ startedCount' = 7 /\ shell' = "Running" /\ plan'.op = "Idle" /\ ~plan'.join
        \/ /\ startedCount' = 6 /\ shell' = "Created"
           /\ plan'.op = "PostAccepts" /\ ~plan'.join /\ plan'.at \in Slots
        \/ startedCount' = 6 /\ shell' = "Created" /\ plan'.op = "Rollback" /\ ~plan'.join
    BY <1>3, <1>t, <1>r, <1>i, <2>1, PostInitialAcceptEffect DEF PlanStates
  <2> QED
    BY <2>1, <2>2 DEF OwnerProgress
<1>4. CASE StopComponent
  <2>1. /\ plan.op = "RequestStop" /\ ~plan.join /\ plan.at \in 0 .. 7
        /\ startedCount' = 7 /\ shell = "Running"
        /\ UNCHANGED <<handoffClosed, owner, call>>
    BY <1>4, StopComponentEffect
  <2>2. \/ shell' = "StopRequested" /\ plan'.op = "Idle" /\ ~plan'.join
        \/ /\ shell' = "Running" /\ plan'.op = "RequestStop" /\ ~plan'.join
           /\ plan'.at \in 0 .. 7
    BY <1>4, <1>t, <1>i, <2>1, StopComponentEffect DEF PlanStates
  <2> QED
    BY <2>1, <2>2 DEF OwnerProgress
<1>5. CASE ShutdownComponent
  <2>1. /\ plan.op \in {"Shutdown", "Rollback"} /\ startedCount \in 1 .. 7
        /\ startedCount' = startedCount /\ plan'.op = plan.op
        /\ UNCHANGED <<shell, handoffClosed, owner, call>>
    BY <1>5, <1>t, ShutdownComponentEffect DEF PlanStates
  <2> QED
    BY <2>1 DEF OwnerProgress
<1>6. CASE JoinComponent
  <2>1. /\ plan.op \in {"Shutdown", "Rollback"} /\ plan'.op = plan.op /\ ~plan'.join
        /\ UNCHANGED <<shell, handoffClosed, owner, call>>
    BY <1>6, <1>t, JoinComponentEffect DEF PlanStates
  <2> QED
    BY <2>1 DEF OwnerProgress
<1>7. CASE ComponentsAreDown
  BY <1>7, <1>i DEF ComponentsAreDown, vars, OwnerProgress
<1>8. CASE ShutGate
  <2>1. owner # "Idle" /\ plan.op = "Idle" /\ ~plan.join
    BY <1>8 DEF ShutGate, OwnerStep, LoadAdmissionWord, WaitOnAdmissionWord, OwnerProgress
  <2>2. UNCHANGED <<shell, startedCount, handoffClosed, call>>
    BY <1>8 DEF ShutGate, OwnerStep, LoadAdmissionWord, WaitOnAdmissionWord
  <2>3. \/ plan' = plan
        \/ /\ owner' = "Idle" /\ plan'.op = "Shutdown" /\ ~plan'.join /\ shell # "Shutdown"
        \/ /\ owner' = "Idle" /\ call = "RequestStop" /\ plan'.op = "RequestStop"
           /\ plan'.at = startedCount /\ ~plan'.join
    BY <1>8 DEF ShutGate
  <2>4. call = "RequestStop" => shell = "Running" /\ startedCount = 7
    BY <2>1 DEF OwnerProgress
  <2> QED
    BY <2>1, <2>2, <2>3, <2>4, <1>t DEF OwnerProgress
<1>9. CASE \E c \in {"RequestStop", "Shutdown", "Reset"} : BeginCall(c)
  BY <1>9 DEF BeginCall, BeginInvalidate, lifecycleVars, OwnerProgress
<1> QED
  BY <1>1, <1>2, <1>3, <1>4, <1>5, <1>6, <1>7, <1>8, <1>9

\* Components are started and shut down one inside the other.
LEMMA ComponentsNestedKept ==
    ASSUME ServerTypeOK, OwnerProgress, ComponentsNested,
           \/ Start \/ StartComponent \/ PostInitialAccept \/ StopComponent
           \/ ShutdownComponent \/ JoinComponent \/ ComponentsAreDown \/ ShutGate
           \/ \E c \in {"RequestStop", "Shutdown", "Reset"} : BeginCall(c)
    PROVE  ComponentsNested'
<1>t. /\ plan \in PlanStates /\ startedCount \in 0 .. 7 /\ port \in PortStates
      /\ listener \in ListenerStates /\ actors \in ActorStates /\ pump \in PumpStates
  BY DEF ServerTypeOK
<1>1. CASE Start
  <2>1. plan.op = "Idle" /\ startedCount = 0 /\ startedCount' = 0 /\ ~plan.join
        /\ plan'.op = "Start" /\ ~plan'.join
    BY <1>1 DEF Start, OwnerIsFree, OwnerProgress
  <2>2. UNCHANGED <<port, actors, pump, listener>>
    BY <1>1 DEF Start
  <2> QED
    BY <2>1, <2>2 DEF ComponentsNested, Serving, PumpRuns
<1>2. CASE StartComponent
  <2>1. /\ plan.op = "Start" /\ ~plan.join /\ startedCount \in 0 .. 6
    BY <1>2, StartComponentEffect
  <2>0. ~listener.open
    BY <2>1 DEF ComponentsNested, Serving
  <2>2. CASE /\ startedCount' = startedCount + 1 /\ plan' = [plan EXCEPT !.at = @ + 1]
             /\ startedCount < 6 /\ listener' = listener
             /\ port' = IF startedCount = 2 THEN [port EXCEPT !.state = "Open"] ELSE port
             /\ actors' = IF startedCount = 4 THEN [open |-> TRUE, workers |-> "Up"] ELSE actors
             /\ pump' = IF startedCount = 5 THEN [at |-> "Test"] ELSE pump
    <3>1. ~plan'.join
      BY <1>t, <2>1, <2>2 DEF PlanStates
    <3>2. port'.state = IF startedCount = 2 THEN "Open" ELSE port.state
      BY <1>t, <2>2 DEF PortStates
    <3>3. /\ actors'.workers = "Up" => actors.workers = "Up" \/ startedCount = 4
          /\ PumpRuns' => PumpRuns \/ startedCount = 5
      BY <2>2 DEF PumpRuns
    <3> QED
      BY <2>0, <2>1, <2>2, <3>1, <3>2, <3>3 DEF ComponentsNested, Serving
  <2>3. CASE /\ startedCount = 6 /\ startedCount' = 6
             /\ plan' = [plan EXCEPT !.op = "PostAccepts", !.at = 1]
             /\ UNCHANGED <<port, actors, pump>>
    <3>1. ~plan'.join /\ plan'.op = "PostAccepts"
      BY <1>t, <2>1, <2>3 DEF PlanStates
    <3> QED
      BY <2>1, <2>3, <3>1 DEF ComponentsNested, Serving, PumpRuns
  <2>4. CASE Rollback /\ UNCHANGED <<startedCount, port, actors, pump, listener>>
    <3>1. ~plan'.join
      BY <2>4 DEF Rollback
    <3> QED
      BY <2>0, <2>1, <2>4, <3>1 DEF ComponentsNested, Serving, PumpRuns
  <2> QED
    BY <1>2, <2>2, <2>3, <2>4, StartComponentEffect
<1>3. CASE PostInitialAccept
  <2>1. /\ plan.op = "PostAccepts" /\ ~plan.join /\ startedCount = 6
        /\ UNCHANGED <<port, pump, actors>>
    BY <1>3, PostInitialAcceptEffect
  <2>2. \/ startedCount' = 7 /\ ~plan'.join
        \/ startedCount' = 6 /\ ~plan'.join /\ plan'.op = "PostAccepts"
        \/ startedCount' = 6 /\ ~plan'.join /\ ~listener'.open
    BY <1>3, <1>t, <2>1, ListenerTyped, PostInitialAcceptEffect
    DEF PlanStates, Resting, Rollback
  <2> QED
    BY <2>1, <2>2 DEF ComponentsNested, Serving, PumpRuns
<1>4. CASE StopComponent
  <2>1. /\ ~plan.join /\ startedCount = 7 /\ startedCount' = 7
        /\ UNCHANGED <<listener, pump>> /\ ~plan'.join
    BY <1>4, <1>t, StopComponentEffect DEF PlanStates, Resting
  <2>2. port'.state = port.state
    BY <1>4, <1>t, ControlIsCompletion, StopComponentEffect
  <2>3. actors'.workers = actors.workers
    BY <1>4, <1>t, StopComponentEffect DEF ActorStates
  <2> QED
    BY <2>1, <2>2, <2>3 DEF ComponentsNested, Serving, PumpRuns
<1>5. CASE ShutdownComponent
  <2>1. /\ ~plan.join /\ startedCount \in 1 .. 7 /\ startedCount' = startedCount
        /\ pump' = pump /\ plan'.join /\ plan.op \in {"Shutdown", "Rollback"}
    BY <1>5, <1>t, ShutdownComponentEffect DEF PlanStates
  <2>2. port'.state = IF startedCount = 3 THEN "Closed" ELSE port.state
    <3>1. CASE startedCount = 3
      BY <1>5, <3>1, ShutdownComponentEffect
    <3>2. CASE startedCount # 3
      BY <1>5, <1>t, <3>2, ControlIsCompletion, ShutdownComponentEffect
    <3> QED
      BY <3>1, <3>2
  <2>3. actors'.workers = actors.workers
    BY <1>5, <1>t, ShutdownComponentEffect DEF ActorStates
  <2>4. IF startedCount = 7 THEN ~listener'.open ELSE listener' = listener
    BY <1>5, <1>t, ListenerTyped, ShutdownComponentEffect
  <2> QED
    BY <2>1, <2>2, <2>3, <2>4 DEF ComponentsNested, Serving, PumpRuns
<1>6. CASE JoinComponent
  <2>1. /\ plan.join /\ startedCount \in 1 .. 7 /\ startedCount' = startedCount - 1
        /\ UNCHANGED <<port, listener, pump, actors>>
        /\ ~plan'.join /\ plan.op \in {"Shutdown", "Rollback"}
        /\ startedCount = 6 => pump.at = "Done"
        /\ startedCount = 5 => actors.workers = "Left"
    BY <1>6, <1>t, JoinComponentEffect DEF PlanStates
  <2> QED
    BY <2>1 DEF ComponentsNested, Serving, PumpRuns
<1>7. CASE ComponentsAreDown
  <2>1. startedCount = 0 /\ startedCount' = 0 /\ ~plan'.join /\ ~plan.join
        /\ plan.op \in {"Shutdown", "Rollback"} /\ UNCHANGED <<port, listener, pump, actors>>
    BY <1>7 DEF ComponentsAreDown, Resting, OwnerProgress
  <2> QED
    BY <2>1 DEF ComponentsNested, Serving, PumpRuns
<1>8. CASE ShutGate
  <2>1. plan.op = "Idle" /\ ~plan.join
    BY <1>8 DEF ShutGate, OwnerStep, LoadAdmissionWord, WaitOnAdmissionWord, OwnerProgress
  <2>2. ~plan'.join /\ UNCHANGED <<startedCount, port, listener, pump, actors>>
    BY <1>8, <2>1 DEF ShutGate
  <2> QED
    BY <2>1, <2>2 DEF ComponentsNested, Serving, PumpRuns
<1>9. CASE \E c \in {"RequestStop", "Shutdown", "Reset"} : BeginCall(c)
  BY <1>9 DEF BeginCall, lifecycleVars, ComponentsNested, Serving, PumpRuns
<1> QED
  BY <1>1, <1>2, <1>3, <1>4, <1>5, <1>6, <1>7, <1>8, <1>9

\* No step of the owner disturbs a session but the registry's shutdown, which
\* ends them all.
LEMMA OwnerKeepsSessions ==
    ASSUME ServerInv,
           \/ Start \/ StartComponent \/ PostInitialAccept \/ StopComponent
           \/ ShutdownComponent \/ JoinComponent \/ ComponentsAreDown \/ ShutGate
           \/ \E c \in {"RequestStop", "Shutdown", "Reset"} : BeginCall(c)
    PROVE  Rest'
<1>t. /\ ServerTypeOK /\ OwnerProgress /\ ComponentsNested /\ Rest
      /\ plan \in PlanStates /\ startedCount \in 0 .. 7
      /\ told \in [Keys -> {"None", "Reserved", "Accepted", "Ended"}]
      /\ session \in [Keys -> SessionStates]
  BY DEF ServerInv, ServerTypeOK, Rest
<1>1. CASE Start
  <2>1. UNCHANGED <<told, session, nextKey, pump>> /\ startedCount = 0
    BY <1>1, <1>t DEF Start, sessionVars, OwnerIsFree, OwnerProgress
  <2> QED
    BY <1>t, <2>1, SessionsKept DEF Serving
<1>2. CASE StartComponent
  <2>1. /\ UNCHANGED <<told, session, nextKey>> /\ startedCount \in 0 .. 6 /\ ~plan.join
        /\ pump' = pump \/ (startedCount = 5 /\ pump' = [at |-> "Test"])
        /\ startedCount' \in {startedCount, startedCount + 1}
    BY <1>2, <1>t, StartComponentEffect
  <2>2. ~plan'.join
    <3>1. /\ [plan EXCEPT !.at = @ + 1].join = plan.join
          /\ [plan EXCEPT !.op = "PostAccepts", !.at = 1].join = plan.join
      BY <1>t DEF PlanStates
    <3>2. Rollback => ~plan'.join
      BY DEF Rollback
    <3> QED
      BY <1>2, <1>t, <2>1, <3>1, <3>2, StartComponentEffect
  <2>3. startedCount = 5 => pump.at \notin Making
    BY <1>t DEF ComponentsNested, PumpRuns, Making
  <2>4. Serving(4) => Serving(4)'
    BY <2>1, <2>2 DEF Serving
  <2> QED
    BY <1>t, <2>1, <2>3, <2>4, SessionsKept DEF Making
<1>3. CASE PostInitialAccept
  <2>1. /\ UNCHANGED <<told, session, nextKey, pump>> /\ startedCount = 6
        /\ startedCount' \in {6, 7}
    BY <1>3, <1>t, PostInitialAcceptEffect
  <2> QED
    BY <1>t, <2>1, SessionsKept DEF Serving
<1>4. CASE StopComponent
  <2>1. UNCHANGED <<told, session, nextKey, pump>> /\ startedCount' = 7
    BY <1>4, <1>t, StopComponentEffect
  <2> QED
    BY <1>t, <2>1, SessionsKept DEF Serving
<1>5. CASE ShutdownComponent
  <2>1. /\ startedCount \in 1 .. 7 /\ startedCount' = startedCount /\ ~plan.join
        /\ UNCHANGED <<pump, nextKey>>
        /\ IF startedCount = 4 THEN RecordServerStopping ELSE UNCHANGED <<told, session>>
    BY <1>5, <1>t, ShutdownComponentEffect
  <2>2. CASE startedCount # 4
    BY <1>t, <2>1, <2>2, SessionsKept DEF Serving
  <2>3. CASE startedCount = 4
    <3>1. pump.at \notin Making /\ pump'.at \notin Making
      BY <1>t, <2>1, <2>3 DEF ComponentsNested, PumpRuns, Making
    <3>2. \A k \in Keys : session'[k] = NoActor /\ told'[k] \in {"None", "Ended"}
      BY <1>t, <2>1, <2>3, <3>1
      DEF RecordServerStopping, Rest, SlotAndActorAgree, BeingMade, Making
    <3>3. \A k \in Keys : Blank(k) => Blank(k)'
      BY <1>t, <2>1, <2>3 DEF RecordServerStopping, Blank, NoActor
    <3>4. MakingInv'
      BY <1>t, <2>1, <3>1, <3>3 DEF Rest, MakingInv, Making
    <3>5. SlotAndActorAgree'
      BY <3>2 DEF SlotAndActorAgree, NoActor
    <3> QED
      BY <3>2, <3>4, <3>5 DEF Rest, SessionInv, RegistryInv
  <2> QED
    BY <2>2, <2>3
<1>6. CASE JoinComponent
  <2>1. /\ UNCHANGED <<told, session, nextKey, pump>> /\ plan.join
        /\ startedCount \in 1 .. 7 /\ startedCount' = startedCount - 1 /\ ~plan'.join
    BY <1>6, <1>t, JoinComponentEffect DEF PlanStates
  <2>2. Serving(4) => Serving(4)'
    BY <2>1 DEF Serving
  <2> QED
    BY <1>t, <2>1, <2>2, SessionsKept
<1>7. CASE ComponentsAreDown
  <2>1. UNCHANGED <<told, session, nextKey, pump>> /\ startedCount = 0
    BY <1>7 DEF ComponentsAreDown, sessionVars
  <2> QED
    BY <1>t, <2>1, SessionsKept DEF Serving
<1>8. CASE ShutGate
  <2>1. UNCHANGED <<told, session, nextKey, pump, startedCount>>
    BY <1>8 DEF ShutGate, sessionVars
  <2>2. plan.op = "Idle" /\ ~plan.join
    BY <1>8, <1>t DEF ShutGate, OwnerStep, LoadAdmissionWord, WaitOnAdmissionWord, OwnerProgress
  <2>3. ~plan'.join
    BY <1>8, <2>2 DEF ShutGate
  <2> QED
    BY <1>t, <2>1, <2>2, <2>3, SessionsKept DEF Serving
<1>9. CASE \E c \in {"RequestStop", "Shutdown", "Reset"} : BeginCall(c)
  <2>1. UNCHANGED <<told, session, nextKey, pump, startedCount, plan>>
    BY <1>9 DEF BeginCall, lifecycleVars, sessionVars
  <2> QED
    BY <1>t, <2>1, SessionsKept DEF Serving
<1> QED
  BY <1>1, <1>2, <1>3, <1>4, <1>5, <1>6, <1>7, <1>8, <1>9

-----------------------------------------------------------------------------
(***************************************************************************)
(* Everybody else's steps.                                                 *)
(***************************************************************************)
\* A step that leaves the owner alone, and wakes, opens and starts nothing,
\* keeps what the owner's progress says.
LEMMA ComponentsKept ==
    ASSUME OwnerProgress, ComponentsNested,
           UNCHANGED <<plan, startedCount, shell, owner, call, handoffClosed>>,
           port'.state = port.state, listener'.open = listener.open,
           actors'.workers = "Up" => actors.workers = "Up", PumpRuns' => PumpRuns
    PROVE  OwnerProgress' /\ ComponentsNested' /\ \A i : Serving(i)' <=> Serving(i)
<1>1. \A i : Serving(i)' <=> Serving(i)
  BY DEF Serving
<1> QED
  BY <1>1 DEF OwnerProgress, ComponentsNested, Serving

\* The pump's steps, but for what they do to the session it makes.
LEMMA PumpFrame ==
    ASSUME ServerTypeOK, Pump
    PROVE  /\ UNCHANGED <<plan, startedCount, shell, owner, call, handoffClosed, actors>>
           /\ port'.state = port.state /\ listener'.open = listener.open
           /\ PumpRuns
<1>t. /\ pump \in PumpStates /\ port \in PortStates /\ listener \in ListenerStates
  BY DEF ServerTypeOK
<1>1. /\ UNCHANGED <<plan, startedCount, shell, owner, call, handoffClosed, actors>>
      /\ PumpRuns
  BY DEF Pump, PumpTestsStop, PumpDequeues, PumpCompletesAccept, PumpTakesSocket,
         PumpReservesSlot, PumpRegistersActor, PumpEnqueuesAccepted,
         PumpDeregisters, PumpCancelsReservation, PumpRepostsAccept,
         PumpRoutesReceive, gateAndOwner, lifecycleVars, vars, PumpRuns
<1>2. port'.state = port.state
  <2>1. CASE PumpDequeues
    BY <1>t, <2>1 DEF PumpDequeues, PortStates
  <2>2. CASE ~PumpDequeues
    BY <2>2 DEF Pump, PumpTestsStop, PumpCompletesAccept, PumpTakesSocket,
         PumpReservesSlot, PumpRegistersActor, PumpEnqueuesAccepted,
         PumpDeregisters, PumpCancelsReservation, PumpRepostsAccept, PumpRoutesReceive
  <2> QED
    BY <2>1, <2>2
<1>3. listener'.open = listener.open
  <2>1. CASE PumpTakesSocket
    BY <1>t, <2>1, SlotTyped DEF PumpTakesSocket
  <2>2. CASE PumpRepostsAccept
    BY <1>t, <2>2, SlotTyped DEF PumpRepostsAccept
  <2>3. CASE ~PumpTakesSocket /\ ~PumpRepostsAccept
    BY <1>t, <2>3 DEF Pump, PumpTestsStop, PumpDequeues, PumpCompletesAccept,
         PumpReservesSlot, PumpRegistersActor, PumpEnqueuesAccepted,
         PumpDeregisters, PumpCancelsReservation, PumpRoutesReceive
  <2> QED
    BY <2>1, <2>2, <2>3
<1> QED
  BY <1>1, <1>2, <1>3

\* The pump makes one session after the other, and leaves each finished or gone.
LEMMA PumpKeepsSessions ==
    ASSUME ServerInv, Pump
    PROVE  Rest'
<1>t. /\ ServerTypeOK /\ OwnerProgress /\ ComponentsNested /\ Rest
      /\ pump \in PumpStates /\ nextKey \in Nat /\ startedCount \in 0 .. 7
      /\ told \in [Keys -> {"None", "Reserved", "Accepted", "Ended"}]
      /\ session \in [Keys -> SessionStates] /\ Keys \subseteq Nat
  BY DEF ServerInv, ServerTypeOK, Rest, Keys
<1>s. Serving(4) /\ Serving(4)'
  <2>1. startedCount >= 6 /\ UNCHANGED <<plan, startedCount>>
    BY <1>t, PumpFrame DEF ComponentsNested
  <2> QED
    BY <1>t, <2>1 DEF Serving
<1>f. PumpFails \/ PumpSucceeds => pump'.at = "Test"
  BY DEF PumpFails, PumpSucceeds
<1>1. CASE PumpTestsStop
  <2>1. pump.at \notin Making /\ pump'.at \notin Making
    BY <1>t, <1>1, PumpGoesOn DEF PumpTestsStop, Making
  <2> QED
    BY <1>t, <1>1, <1>s, <2>1, SessionsKept DEF PumpTestsStop, sessionVars
<1>2. CASE PumpDequeues
  <2>1. Head(port.queue) \in Completions
    BY <1>t, <1>2 DEF PumpDequeues, PortStates, ServerTypeOK
  <2>2. pump.at \notin Making /\ pump'.at \notin Making
    BY <1>2, <2>1 DEF PumpDequeues, Completions, Making
  <2> QED
    BY <1>t, <1>2, <1>s, <2>2, SessionsKept DEF PumpDequeues, sessionVars
<1>3. CASE PumpCompletesAccept
  <2>1. UNCHANGED <<told, session>> /\ pump.at = "Accept" /\ nextKey' \in {nextKey, nextKey + 1}
    BY <1>3 DEF PumpCompletesAccept, sessionVars
  <2>2. \/ pump'.at = "Test"
        \/ pump'.at = "Take" /\ pump'.key = nextKey /\ nextKey' = nextKey + 1
    BY <1>3, <1>f DEF PumpCompletesAccept
  <2>3. \A k \in Keys : ~BeingMade(k)
    BY <2>1 DEF BeingMade
  <2>4. MakingInv'
    BY <1>t, <2>1, <2>2 DEF Rest, MakingInv, Blank, Making
  <2>5. SlotAndActorAgree'
    BY <1>t, <2>1, <2>3 DEF Rest, SlotAndActorAgree
  <2> QED
    BY <1>t, <1>s, <2>1, <2>4, <2>5 DEF Rest, SessionInv, RegistryInv
<1>4. CASE PumpTakesSocket
  <2>1. UNCHANGED <<told, session, nextKey>> /\ pump.at = "Take"
    BY <1>4 DEF PumpTakesSocket, sessionVars
  <2>2. \/ pump'.at = "Test"
        \/ pump'.at = "Reserve" /\ pump'.key = pump.key
    BY <1>4, <1>f, <1>t, PumpGoesOn DEF PumpTakesSocket, Making
  <2>3. \A k \in Keys : ~BeingMade(k)
    BY <2>1 DEF BeingMade
  <2>4. MakingInv'
    BY <1>t, <2>1, <2>2 DEF Rest, MakingInv, Blank, Making
  <2>5. SlotAndActorAgree'
    BY <1>t, <2>1, <2>3 DEF Rest, SlotAndActorAgree
  <2> QED
    BY <1>t, <1>s, <2>1, <2>4, <2>5 DEF Rest, SessionInv, RegistryInv
<1>5. CASE PumpReservesSlot
  <2>1. UNCHANGED <<session, nextKey>> /\ pump.at = "Reserve" /\ pump.key < nextKey
        /\ Blank(pump.key) /\ pump.key \in Nat
    BY <1>5, <1>t, PumpKnows DEF PumpReservesSlot, Rest, MakingInv, Making
  <2>2. \/ pump'.at = "Test" /\ told' = told
        \/ /\ pump'.at = "Register" /\ pump'.key = pump.key
           /\ told' = [told EXCEPT ![pump.key] = "Reserved"]
    BY <1>5, <1>f, <1>t, PumpGoesOn DEF PumpReservesSlot, Making
  <2>3. \A k \in Keys : ~BeingMade(k)
    BY <2>1 DEF BeingMade
  <2>4. MakingInv'
    BY <1>t, <2>1, <2>2 DEF Rest, MakingInv, Blank, Making
  <2>5. SlotAndActorAgree'
    BY <1>t, <2>1, <2>2, <2>3 DEF Rest, SlotAndActorAgree, BeingMade
  <2> QED
    BY <1>t, <1>s, <2>1, <2>4, <2>5 DEF Rest, SessionInv, RegistryInv
<1>6. CASE PumpRegistersActor
  <2>1. /\ UNCHANGED <<told, nextKey>> /\ pump.at = "Register" /\ pump.key < nextKey
        /\ pump.key \in Nat
        /\ pump.key \in Keys => told[pump.key] = "Reserved" /\ session[pump.key] = NoActor
    BY <1>6, <1>t, PumpKnows DEF PumpRegistersActor, Rest, MakingInv, Making
  <2>2. \/ pump'.at = "Cancel" /\ pump'.key = pump.key /\ session' = session
        \/ /\ pump'.at = "Enqueue" /\ pump'.key = pump.key
           /\ session' = [session EXCEPT ![pump.key] = [session[pump.key] EXCEPT !.registered = TRUE]]
    BY <1>6, <1>t, PumpGoesOn DEF PumpRegistersActor, Making
  <2>3. /\ NoActor.mail = "None" /\ NoActor.io = "None" /\ ~NoActor.registered
        /\ [NoActor EXCEPT !.registered = TRUE].registered
        /\ [NoActor EXCEPT !.registered = TRUE].mail = "None"
        /\ [NoActor EXCEPT !.registered = TRUE].io = "None"
    BY DEF NoActor
  <2>4. /\ \A j \in Keys : j # pump.key => session'[j] = session[j]
        /\ pump'.at = "Enqueue" /\ pump.key \in Keys =>
              session'[pump.key] = [NoActor EXCEPT !.registered = TRUE]
        /\ pump'.at = "Cancel" => session' = session
    BY <1>t, <2>1, <2>2
  <2>4a. /\ pump'.at = "Enqueue" /\ pump.key \in Keys =>
              /\ session'[pump.key].registered
              /\ session'[pump.key].mail = "None" /\ session'[pump.key].io = "None"
         /\ pump'.at \in {"Enqueue", "Cancel"} /\ pump'.key = pump.key
    BY <2>2, <2>3, <2>4
  <2>5. MakingInv'
    <3>1. \A j \in Keys : j >= nextKey => Blank(j)'
      BY <1>t, <2>1, <2>4 DEF Rest, MakingInv, Blank
    <3> QED
      BY <2>1, <2>4, <2>4a, <3>1 DEF MakingInv, Blank, Making
  <2>6. \A j \in Keys : BeingMade(j)' <=> BeingMade(j)
    BY <2>1, <2>2 DEF BeingMade
  <2>7. SlotAndActorAgree'
    BY <1>t, <2>1, <2>2, <2>4, <2>6 DEF Rest, SlotAndActorAgree, BeingMade
  <2>8. SessionInv'
    BY <1>t, <2>4, <2>4a DEF Rest, SessionInv
  <2> QED
    BY <1>s, <2>5, <2>7, <2>8 DEF Rest, RegistryInv
<1>7. CASE PumpEnqueuesAccepted
  <2>1. /\ UNCHANGED <<told, nextKey>> /\ pump.at = "Enqueue" /\ pump.key < nextKey
        /\ pump.key \in Nat
        /\ pump.key \in Keys =>
              /\ told[pump.key] = "Reserved" /\ session[pump.key].registered
              /\ session[pump.key].mail = "None" /\ session[pump.key].io = "None"
    BY <1>7, <1>t, PumpKnows DEF PumpEnqueuesAccepted, Rest, MakingInv, Making
  <2>2. \/ pump'.at = "Undo" /\ pump'.key = pump.key /\ session' = session
        \/ /\ pump'.at = "Repost" /\ pump'.key = pump.key
           /\ session' = [session EXCEPT ![pump.key] = [session[pump.key] EXCEPT !.mail = "Accepted"]]
    BY <1>7, <1>t, PumpGoesOn DEF PumpEnqueuesAccepted, Making
  <2>3. pump.key \in Keys => [session[pump.key] EXCEPT !.mail = "Accepted"].registered
    <3>1. ASSUME pump.key \in Keys
          PROVE  [session[pump.key] EXCEPT !.mail = "Accepted"].registered
                    = session[pump.key].registered
      BY <1>t, <3>1, SessionMoves
    <3> QED
      BY <2>1, <3>1
  <2>4. /\ \A j \in Keys : j # pump.key => session'[j] = session[j]
        /\ pump'.at = "Repost" /\ pump.key \in Keys => session'[pump.key].registered
        /\ pump'.at = "Undo" => session' = session
    BY <1>t, <2>1, <2>2, <2>3
  <2>5. MakingInv'
    BY <1>t, <2>1, <2>2, <2>4 DEF Rest, MakingInv, Blank, Making
  <2>6. \A j \in Keys : j # pump.key => ~BeingMade(j)
    BY DEF BeingMade
  <2>7. SlotAndActorAgree'
    BY <1>t, <2>1, <2>2, <2>4, <2>6 DEF Rest, SlotAndActorAgree, BeingMade
  <2>8. SessionInv'
    BY <1>t, <2>1, <2>2, <2>4 DEF Rest, SessionInv
  <2> QED
    BY <1>s, <2>5, <2>7, <2>8 DEF Rest, RegistryInv
<1>8. CASE PumpDeregisters
  <2>1. /\ UNCHANGED <<told, nextKey>> /\ pump.at = "Undo" /\ pump.key < nextKey
        /\ pump.key \in Nat
        /\ pump.key \in Keys => told[pump.key] = "Reserved"
    BY <1>8, <1>t, PumpKnows DEF PumpDeregisters, Rest, MakingInv, Making
  <2>2. /\ pump'.at = "Cancel" /\ pump'.key = pump.key
        /\ session' = [session EXCEPT ![pump.key] = NoActor]
    BY <1>8, <1>t, PumpGoesOn DEF PumpDeregisters, Making
  <2>3. /\ \A j \in Keys : j # pump.key => session'[j] = session[j]
        /\ pump.key \in Keys => session'[pump.key] = NoActor
    BY <1>t, <2>2
  <2>5. MakingInv'
    BY <1>t, <2>1, <2>2, <2>3 DEF Rest, MakingInv, Blank, Making
  <2>6. \A j \in Keys : j # pump.key => ~BeingMade(j)
    BY DEF BeingMade
  <2>7. SlotAndActorAgree'
    BY <1>t, <2>1, <2>2, <2>3, <2>6 DEF Rest, SlotAndActorAgree, BeingMade
  <2>8. SessionInv'
    BY <1>t, <2>3 DEF Rest, SessionInv
  <2> QED
    BY <1>s, <2>5, <2>7, <2>8 DEF Rest, RegistryInv
<1>9. CASE PumpCancelsReservation
  <2>1. /\ UNCHANGED <<session, nextKey>> /\ pump.at = "Cancel" /\ pump.key < nextKey
        /\ pump.key \in Nat
        /\ pump.key \in Keys => session[pump.key] = NoActor
        /\ pump'.at = "Test" /\ told' = [told EXCEPT ![pump.key] = "None"]
    BY <1>9, <1>f, <1>t, PumpKnows DEF PumpCancelsReservation, Rest, MakingInv, Making
  <2>2. /\ \A j \in Keys : j # pump.key => told'[j] = told[j]
        /\ pump.key \in Keys => told'[pump.key] = "None"
    BY <1>t, <2>1
  <2>3. ~NoActor.registered
    BY DEF NoActor
  <2>5. MakingInv'
    BY <1>t, <2>1, <2>2 DEF Rest, MakingInv, Blank, Making
  <2>6. \A j \in Keys : j # pump.key => ~BeingMade(j)
    BY DEF BeingMade
  <2>7. SlotAndActorAgree'
    BY <1>t, <2>1, <2>2, <2>3, <2>6 DEF Rest, SlotAndActorAgree
  <2> QED
    BY <1>t, <1>s, <2>1, <2>5, <2>7 DEF Rest, SessionInv, RegistryInv
<1>10. CASE PumpRepostsAccept
  <2>1. /\ UNCHANGED <<told, session, nextKey>> /\ pump.at = "Repost" /\ pump'.at = "Test"
    BY <1>10, <1>f DEF PumpRepostsAccept, sessionVars
  <2>3. \A k \in Keys : ~BeingMade(k)
    BY <2>1 DEF BeingMade
  <2>4. MakingInv'
    BY <1>t, <2>1 DEF Rest, MakingInv, Blank, Making
  <2>5. SlotAndActorAgree'
    BY <1>t, <2>1, <2>3 DEF Rest, SlotAndActorAgree
  <2> QED
    BY <1>t, <1>s, <2>1, <2>4, <2>5 DEF Rest, SessionInv, RegistryInv
<1>11. CASE PumpRoutesReceive
  <2>1. PICK k \in Keys : k = pump.key
    BY <1>t, <1>11, PumpKnows DEF PumpRoutesReceive
  <2>2. /\ UNCHANGED <<told, nextKey>> /\ pump.at = "Route" /\ pump'.at = "Test"
        /\ \/ session' = session
           \/ /\ session[k].registered
              /\ session' = [session EXCEPT ![k] = [session[k] EXCEPT !.mail = "Recv", !.io = "None"]]
    BY <1>11, <1>f, <2>1 DEF PumpRoutesReceive
  <2>3. [session[k] EXCEPT !.mail = "Recv", !.io = "None"].registered = session[k].registered
    BY <1>t, SessionMoves
  <2>4. /\ \A j \in Keys : j # k => session'[j] = session[j]
        /\ session'[k] = session[k] \/ (session[k].registered /\ session'[k].registered)
    BY <1>t, <2>2, <2>3
  <2>5. k >= nextKey => session'[k] = session[k]
    BY <1>t, <2>4 DEF Rest, MakingInv, Blank, NoActor
  <2>6. MakingInv'
    BY <1>t, <2>2, <2>4, <2>5 DEF Rest, MakingInv, Blank, Making
  <2>7. SlotAndActorAgree'
    BY <1>t, <2>2, <2>4 DEF Rest, SlotAndActorAgree, BeingMade
  <2>8. SessionInv'
    BY <1>t, <2>4 DEF Rest, SessionInv
  <2> QED
    BY <1>s, <2>6, <2>7, <2>8 DEF Rest, RegistryInv
<1> QED
  BY <1>1, <1>2, <1>3, <1>4, <1>5, <1>6, <1>7, <1>8, <1>9, <1>10, <1>11 DEF Pump

\* A session that is announced, fed or ended is not one that is being made.
LEMMA SessionStepKeeps ==
    ASSUME ServerInv, NEW k \in Keys, ActorDrains(k) \/ CloseSession(k) \/ RecvCompletes(k)
    PROVE  ServerInv'
<1>t. /\ ServerTypeOK /\ OwnerProgress /\ ComponentsNested /\ Rest /\ ServerTypeOK'
      /\ port \in PortStates /\ nextKey \in Nat /\ Keys \subseteq Nat /\ startedCount \in 0 .. 7
      /\ told \in [Keys -> {"None", "Reserved", "Accepted", "Ended"}]
      /\ session \in [Keys -> SessionStates]
  BY OthersTyped DEF ServerInv, ServerTypeOK, Rest, Keys
<1>1. /\ UNCHANGED <<plan, startedCount, shell, owner, call, handoffClosed, pump, actors,
                     nextKey>>
      /\ listener' = listener
      /\ \A j \in Keys : j # k => told'[j] = told[j] /\ session'[j] = session[j]
  BY <1>t DEF ActorDrains, CloseSession, RecvCompletes, EndSession, gateAndOwner,
              lifecycleVars, vars
<1>2. port'.state = port.state
  <2>1. [type |-> "Recv", key |-> k] \in Completions
    BY DEF Completions
  <2>2. ASSUME RecvCompletes(k) PROVE port'.state = port.state
    BY <1>t, <2>1, <2>2, PortKeepsType DEF RecvCompletes
  <2> QED
    BY <2>2 DEF ActorDrains, CloseSession
<1>3. OwnerProgress' /\ ComponentsNested' /\ \A i : Serving(i)' <=> Serving(i)
  BY <1>t, <1>1, <1>2, ComponentsKept DEF PumpRuns
<1>n. NoActor.mail = "None" /\ NoActor.io = "None" /\ ~NoActor.registered
  BY DEF NoActor
<1>4. /\ session[k].mail # "None" \/ told[k] = "Accepted" \/ session[k].io = "Posted"
      /\ \/ told'[k] = "Accepted" /\ session'[k].registered = session[k].registered
            /\ session[k].mail # "None"
         \/ told'[k] = "Ended" /\ session'[k] = NoActor
         \/ told'[k] = "Ended" /\ session'[k] = session[k]
         \/ /\ told'[k] = told[k] /\ session'[k].registered = session[k].registered
            /\ session[k].io = "Posted"
  <2>1. /\ [session[k] EXCEPT !.mail = "None", !.io = "Posted"].registered = session[k].registered
        /\ [session[k] EXCEPT !.io = "Queued"].registered = session[k].registered
    BY <1>t, SessionMoves
  <2>2. CASE ActorDrains(k)
    BY <1>t, <2>1, <2>2 DEF ActorDrains, EndSession
  <2>3. CASE CloseSession(k)
    BY <1>t, <2>3 DEF CloseSession
  <2>4. CASE RecvCompletes(k)
    BY <1>t, <2>1, <2>4 DEF RecvCompletes
  <2> QED
    BY <2>2, <2>3, <2>4
<1>5. /\ ~Blank(k) /\ k < nextKey
      /\ ~(pump.at \in Making \ {"Repost"} /\ pump.key = k)
  BY <1>t, <1>4, <1>n DEF Rest, MakingInv, Blank, Making
<1>6. ~BeingMade(k)
  BY <1>5 DEF BeingMade, Making
<1>7. Serving(4)
  BY <1>t, <1>4, <1>n DEF Rest, RegistryInv
<1>8. session[k].registered \/ (session'[k] = session[k] \/ session'[k] = NoActor)
  BY <1>t, <1>4, <1>n DEF Rest, SessionInv
<1>9. /\ told'[k] \in {"Reserved", "Accepted"} => session'[k].registered
      /\ session'[k].registered => told'[k] # "None"
  BY <1>t, <1>4, <1>6, <1>n DEF Rest, SessionInv, SlotAndActorAgree
<1>10. SessionInv'
  BY <1>t, <1>1, <1>4, <1>8, <1>n DEF Rest, SessionInv
<1>11. SlotAndActorAgree'
  BY <1>t, <1>1, <1>9 DEF Rest, SlotAndActorAgree, BeingMade
<1>12. MakingInv'
  BY <1>t, <1>1, <1>5 DEF Rest, MakingInv, Blank, Making
<1>13. RegistryInv'
  BY <1>3, <1>7 DEF RegistryInv
<1> QED
  BY <1>t, <1>3, <1>10, <1>11, <1>12, <1>13 DEF ServerInv

\* The kernel, the actor workers and the gateways.
LEMMA OthersKeep ==
    ASSUME ServerInv,
           \/ ActorWorkersLeave
           \/ \E s \in Slots : AcceptCompletes(s) \/ AcceptAborts(s)
           \/ \E g \in Gateways : GatewayMoves(g)
    PROVE  ServerInv'
<1>t. /\ ServerTypeOK /\ OwnerProgress /\ ComponentsNested /\ Rest /\ ServerTypeOK'
      /\ port \in PortStates /\ listener \in ListenerStates /\ actors \in ActorStates
  BY OthersTyped DEF ServerInv, ServerTypeOK, Rest
<1>1. /\ UNCHANGED <<told, session, pump, nextKey, plan, startedCount, shell, call,
                     handoffClosed>>
  BY DEF ActorWorkersLeave, AcceptCompletes, AcceptAborts, GatewayMoves, GatewayStep,
         gateAndOwner, lifecycleVars, sessionVars, vars, CreateGateway, TryAcquire,
         Submission, PermitAddsRef, ReleasePermit, NotifyOwner, PermitReleasesRef,
         DestroyGateway, ownerVars
<1>2. owner' # "Idle" => owner # "Idle"
  BY DEF ActorWorkersLeave, AcceptCompletes, AcceptAborts, GatewayMoves, GatewayStep,
         gateAndOwner, vars, CreateGateway, TryAcquire,
         Submission, PermitAddsRef, ReleasePermit, NotifyOwner, PermitReleasesRef,
         DestroyGateway, ownerVars
<1>3. /\ port'.state = port.state /\ listener'.open = listener.open
      /\ actors'.workers = "Up" => actors.workers = "Up"
  <2>1. CASE ActorWorkersLeave
    BY <1>t, <2>1 DEF ActorWorkersLeave, ActorStates
  <2>2. ASSUME NEW s \in Slots, AcceptCompletes(s) \/ AcceptAborts(s)
        PROVE  /\ port'.state = port.state /\ listener'.open = listener.open
               /\ actors' = actors
    <3>1. \A ok \in BOOLEAN : [type |-> "Accept", slot |-> s, ok |-> ok] \in Completions
      BY DEF Completions
    <3> QED
      BY <1>t, <2>2, <3>1, PortKeepsType, SlotTyped DEF AcceptCompletes, AcceptAborts
  <2>3. CASE \E g \in Gateways : GatewayMoves(g)
    BY <2>3 DEF GatewayMoves
  <2> QED
    BY <2>1, <2>2, <2>3
<1>4. OwnerProgress'
  BY <1>t, <1>1, <1>2 DEF OwnerProgress
<1>5. ComponentsNested' /\ (Serving(4)' <=> Serving(4))
  BY <1>t, <1>1, <1>3 DEF ComponentsNested, Serving, PumpRuns
<1>6. Rest'
  BY <1>t, <1>1, <1>5, SessionsKept
<1> QED
  BY <1>t, <1>4, <1>5, <1>6 DEF ServerInv, Rest

-----------------------------------------------------------------------------
\* A server that was just created.
LEMMA InitServer == ServerInit => ServerInv
<1> SUFFICES ASSUME ServerInit PROVE ServerInv
  OBVIOUS
<1>1. /\ shell = "Created" /\ plan = Resting /\ startedCount = 0
      /\ port = [state |-> "None", queue |-> <<>>]
      /\ listener = [open |-> FALSE, slot |-> [s \in Slots |-> "Idle"]]
      /\ pump = [at |-> "None"] /\ actors = [open |-> FALSE, workers |-> "None"]
      /\ told = [k \in Keys |-> "None"] /\ session = [k \in Keys |-> NoActor]
      /\ nextKey = 1 /\ handoffClosed = FALSE /\ owner = "Idle"
  BY DEF ServerInit, Init
<1>2. /\ plan.op = "Idle" /\ ~plan.join /\ port.state = "None" /\ ~listener.open
      /\ pump.at = "None" /\ actors.workers = "None" /\ ~NoActor.registered
  BY <1>1 DEF Resting, NoActor
<1>3. ServerTypeOK
  <2>1. Resting \in PlanStates /\ port \in PortStates /\ actors \in ActorStates
    BY <1>1 DEF PlanStates, Resting, PortStates, ActorStates
  <2>2. listener \in ListenerStates
    BY <1>1 DEF ListenerStates
  <2>3. pump \in PumpStates /\ NoActor \in SessionStates
    BY <1>1 DEF PumpStates, SessionStates, NoActor
  <2> QED
    BY <1>1, <2>1, <2>2, <2>3 DEF ServerTypeOK
<1>4. OwnerProgress /\ ComponentsNested
  BY <1>1, <1>2 DEF OwnerProgress, ComponentsNested, Serving, PumpRuns
<1>5. MakingInv
  BY <1>1, <1>2 DEF MakingInv, Blank, Making
<1>6. SessionInv /\ SlotAndActorAgree /\ RegistryInv
  BY <1>1, <1>2 DEF SessionInv, SlotAndActorAgree, RegistryInv
<1> QED
  BY <1>3, <1>4, <1>5, <1>6 DEF ServerInv

\* No step of any thread breaks the invariant.
LEMMA StepServer == ServerInv /\ [ServerNext]_serverVars => ServerInv'
<1> SUFFICES ASSUME ServerInv, [ServerNext]_serverVars PROVE ServerInv'
  OBVIOUS
<1>t. ServerTypeOK /\ OwnerProgress /\ ComponentsNested /\ Rest
  BY DEF ServerInv, Rest
<1>1. CASE \/ Start \/ StartComponent \/ PostInitialAccept \/ StopComponent
           \/ ShutdownComponent \/ JoinComponent \/ ComponentsAreDown \/ ShutGate
           \/ \E c \in {"RequestStop", "Shutdown", "Reset"} : BeginCall(c)
  BY <1>1, <1>t, OwnerTyped, OwnerProgressKept, ComponentsNestedKept, OwnerKeepsSessions
  DEF ServerInv, Rest
<1>2. CASE Pump
  <2>1. OwnerProgress' /\ ComponentsNested'
    BY <1>2, <1>t, PumpFrame, ComponentsKept
  <2> QED
    BY <1>2, <1>t, <2>1, PumpTyped, PumpKeepsSessions DEF ServerInv, Rest
<1>3. CASE \E k \in Keys : ActorDrains(k) \/ CloseSession(k) \/ RecvCompletes(k)
  BY <1>3, SessionStepKeeps
<1>4. CASE \/ ActorWorkersLeave
           \/ \E s \in Slots : AcceptCompletes(s) \/ AcceptAborts(s)
           \/ \E g \in Gateways : GatewayMoves(g)
  BY <1>4, OthersKeep
<1>5. CASE UNCHANGED serverVars
  <2>1. UNCHANGED <<shell, plan, startedCount, port, listener, pump, actors, told, session,
                    nextKey, handoffClosed, owner, call>>
    BY <1>5 DEF serverVars, lifecycleVars, sessionVars, vars
  <2>2. ServerTypeOK'
    BY <1>t, <2>1 DEF ServerTypeOK
  <2>3. OwnerProgress' /\ ComponentsNested' /\ \A i : Serving(i)' <=> Serving(i)
    BY <1>t, <2>1, ComponentsKept DEF PumpRuns
  <2>4. Rest'
    BY <1>t, <2>1, <2>3, SessionsKept
  <2> QED
    BY <2>2, <2>3, <2>4 DEF ServerInv, Rest
<1> QED
  BY <1>1, <1>2, <1>3, <1>4, <1>5 DEF ServerNext, OwnerMoves

\* Every reachable state of the server satisfies the inductive invariant.
THEOREM ServerIsSafe == ServerSpec => []ServerInv
  BY InitServer, StepServer, PTL DEF ServerSpec

\* SlotAndActorAgree for any number of sessions and any capacity: whatever step
\* of NrRuntimeIoPipelineComponent's accept path is refused, the place in the
\* handoff and the actor of a session come and go together.
THEOREM SlotAndActorComeTogether == ServerSpec => []SlotAndActorAgree
<1>1. ServerInv => SlotAndActorAgree
  BY DEF ServerInv
<1> QED
  BY <1>1, ServerIsSafe, PTL

\* TeardownIsOrderly for any number of accept slots, sessions and connections:
\* no thread of the server outlives what it stands on, and a server that is down,
\* by Shutdown or by the rollback of a failed Start, has ended every session.
THEOREM TeardownNests == ServerSpec => []TeardownIsOrderly
<1>1. ASSUME ServerInv PROVE TeardownIsOrderly
  <2>t. /\ startedCount \in 0 .. 7 /\ OwnerProgress /\ ComponentsNested /\ RegistryInv
    BY <1>1 DEF ServerInv, ServerTypeOK
  <2>p. "Pump" \in Threads <=> PumpRuns
    BY DEF Threads, PumpRuns
  <2>a. "Actors" \in Threads <=> actors.workers = "Up"
    BY DEF Threads
  <2>e. (~PumpRuns /\ actors.workers # "Up") => Threads = {}
    BY DEF Threads, PumpRuns
  <2>1. "Pump" \in Threads \/ listener.open => port.state = "Open"
    BY <2>t, <2>p DEF ComponentsNested, Serving, OwnerProgress
  <2>2. plan.join /\ NextToShutDown = "Registry" => Threads = {}
    <3>1. plan.join /\ NextToShutDown = "Registry" => startedCount = 4
      BY <2>t DEF OwnerProgress, NextToShutDown, LifecycleOrder
    <3> QED
      BY <2>e, <2>t, <3>1 DEF ComponentsNested
  <2>3. ASSUME startedCount = 0, plan.op = "Idle"
        PROVE  /\ Threads = {} /\ ~listener.open /\ port.state # "Open"
               /\ \A k \in Keys : ~session[k].registered /\ told[k] \in {"None", "Ended"}
    BY <2>e, <2>t, <2>3 DEF ComponentsNested, Serving, RegistryInv, NoActor
  <2>4. shell = "Shutdown" /\ OwnerIsFree => startedCount = 0 /\ plan.op = "Idle"
    BY <2>t DEF OwnerProgress, OwnerIsFree
  <2>5. handoffClosed => \A k \in Keys : told[k] \in {"None", "Ended"}
    <3>1. handoffClosed => shell = "Shutdown" /\ startedCount = 0
      BY <1>1, <2>t DEF OwnerProgress, ServerInv, ServerTypeOK, PlanStates
    <3> QED
      BY <2>t, <3>1 DEF RegistryInv, Serving
  <2> QED
    BY <2>1, <2>2, <2>3, <2>4, <2>5 DEF TeardownIsOrderly
<1> QED
  BY <1>1, ServerIsSafe, PTL

==============================================================================
