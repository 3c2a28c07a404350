--------------------------- MODULE SubmissionGate ---------------------------
(***************************************************************************)
(* NrServerSubmissionGate and its users.  World threads submit packets     *)
(* through NrGateway objects, which may outlive the NrServer that made     *)
(* them; the thread that owns the server stops and destroys it.  One       *)
(* atomic word (an Invalidated bit and a count of permits) orders the two, *)
(* and a reference count keeps the word alive for whoever comes last.      *)
(***************************************************************************)
EXTENDS Naturals, FiniteSets

CONSTANTS Gateways,      \* NrGateway objects, each used by one thread
          MaxInFlight    \* NrInFlightMask, 2^63 - 1 in the code

ASSUME SubmissionGateAssumption ==
    /\ IsFiniteSet(Gateways)
    /\ MaxInFlight \in Nat \ {0}

VARIABLES invalidated,   \* the I bit of admissionWord
          inFlight,      \* the count of admissionWord
          refCount,      \* references to the gate's state
          freed,         \* the state was deleted
          gateway,       \* where each gateway's thread is
          owner,         \* where the server's owner is in InvalidateAndWait
          call,          \* the call the owner makes InvalidateAndWait from
          observed,      \* the count the owner loaded before it waits
          server         \* how far the owner has got: the state it is taking
                         \* the server to, and Destroyed once it is deleted

vars == <<invalidated, inFlight, refCount, freed, gateway, owner, call,
          observed, server>>

gateVars  == <<invalidated, inFlight>>
ownerVars == <<owner, call, observed, server>>

GatewaySteps == {"None", "Ready", "AddRef", "Inside", "Notify", "ReleaseRef",
                 "Gone"}

TypeOK ==
    /\ invalidated \in BOOLEAN
    /\ inFlight \in 0 .. MaxInFlight
    /\ refCount \in Nat
    /\ freed \in BOOLEAN
    /\ gateway \in [Gateways -> GatewaySteps]
    /\ owner \in {"Idle", "Load", "Wait", "Blocked"}
    /\ call \in {"RequestStop", "Shutdown", "Reset"}
    /\ observed \in 0 .. MaxInFlight
    /\ server \in {"Running", "StopRequested", "Shutdown", "Destroyed"}

Init ==
    /\ invalidated = FALSE /\ inFlight = 0
    /\ refCount = 1 /\ freed = FALSE
    /\ gateway = [g \in Gateways |-> "None"]
    /\ owner = "Idle" /\ call = "Shutdown" /\ observed = 0
    /\ server = "Running"

-----------------------------------------------------------------------------
SetGateway(g, step) == gateway' = [gateway EXCEPT ![g] = step]

AddRef == refCount' = refCount + 1 /\ UNCHANGED freed

\* The last reference deletes the state.
ReleaseRef == /\ refCount' = refCount - 1
              /\ freed' = (refCount = 1)

\* NrServer::CreateGateway, called by the owner of a running server: the
\* gateway's admission handle is a reference.
CreateGateway(g) ==
    /\ gateway[g] = "None" /\ owner = "Idle" /\ server = "Running"
    /\ AddRef
    /\ SetGateway(g, "Ready")
    /\ UNCHANGED <<gateVars, ownerVars>>

\* Mutant: the Invalidated bit is not looked at.
MayAdmit_IgnoresInvalidation == inFlight # MaxInFlight

\* TryAcquire refuses a permit once the gate is invalidated, or at the limit.
MayAdmit == ~invalidated /\ inFlight # MaxInFlight

\* Submit or SubmitMany begins: the compare-and-swap of TryAcquire.  A refused
\* call returns and changes nothing.
TryAcquire(g) ==
    /\ gateway[g] = "Ready"
    /\ MayAdmit
    /\ inFlight' = inFlight + 1
    /\ SetGateway(g, "AddRef")
    /\ UNCHANGED <<invalidated, refCount, freed, ownerVars>>

\* Mutant: the permit holds no reference of its own.
PermitAddsRef_Borrowed(g) ==
    /\ gateway[g] = "AddRef"
    /\ SetGateway(g, "Inside")
    /\ UNCHANGED <<gateVars, refCount, freed, ownerVars>>

\* TryAcquirePermit: the permit is a reference too.
PermitAddsRef(g) ==
    /\ gateway[g] = "AddRef"
    /\ AddRef
    /\ SetGateway(g, "Inside")
    /\ UNCHANGED <<gateVars, ownerVars>>

\* The submission is over and its permit is released: fetch_sub.
ReleasePermit(g) ==
    /\ gateway[g] = "Inside"
    /\ inFlight' = inFlight - 1
    /\ SetGateway(g, IF inFlight = 1 THEN "Notify" ELSE "ReleaseRef")
    /\ UNCHANGED <<invalidated, refCount, freed, ownerVars>>

\* notify_all, a step later: the owner may have seen the count already.
NotifyOwner(g) ==
    /\ gateway[g] = "Notify"
    /\ owner' = IF owner = "Blocked" THEN "Wait" ELSE owner
    /\ SetGateway(g, "ReleaseRef")
    /\ UNCHANGED <<gateVars, refCount, freed, call, observed, server>>

PermitReleasesRef(g) ==
    /\ gateway[g] = "ReleaseRef"
    /\ ReleaseRef
    /\ SetGateway(g, "Ready")
    /\ UNCHANGED <<gateVars, ownerVars>>

\* The gateway is destroyed, at any time, and its handle with it.
DestroyGateway(g) ==
    /\ gateway[g] = "Ready"
    /\ ReleaseRef
    /\ SetGateway(g, "Gone")
    /\ UNCHANGED <<gateVars, ownerVars>>

-----------------------------------------------------------------------------
\* The owner calls RequestStop, Shutdown, or the destructor, which shuts down
\* first and then resets the gate.  Each starts with InvalidateAndWait.
BeginInvalidate(c) ==
    /\ owner = "Idle"
    /\ \/ c = "RequestStop" /\ server = "Running"
       \/ c = "Shutdown" /\ server # "Destroyed"
       \/ c = "Reset" /\ server = "Shutdown"
    /\ invalidated' = TRUE
    /\ owner' = "Load" /\ call' = c
    /\ UNCHANGED <<inFlight, refCount, freed, gateway, observed, server>>

\* What each call does once no submission is left: RequestStop and Shutdown stop
\* the components; the destructor lets go of the gate and frees the server.
FinishCall ==
    /\ owner' = "Idle"
    /\ CASE call = "RequestStop" ->
              server' = "StopRequested" /\ UNCHANGED <<refCount, freed>>
         [] call = "Shutdown" ->
              server' = "Shutdown" /\ UNCHANGED <<refCount, freed>>
         [] call = "Reset" -> server' = "Destroyed" /\ ReleaseRef

LoadAdmissionWord ==
    /\ owner = "Load"
    /\ observed' = inFlight
    /\ IF inFlight = 0
       THEN FinishCall
       ELSE owner' = "Wait" /\ UNCHANGED <<server, refCount, freed>>
    /\ UNCHANGED <<gateVars, gateway, call>>

\* std::atomic::wait: it blocks while the word equals the value observed.
WaitOnAdmissionWord ==
    /\ owner = "Wait"
    /\ owner' = IF inFlight = observed THEN "Blocked" ELSE "Load"
    /\ UNCHANGED <<gateVars, refCount, freed, gateway, call, observed, server>>

-----------------------------------------------------------------------------
Submission(g) == PermitAddsRef(g) \/ ReleasePermit(g) \/ NotifyOwner(g)
                 \/ PermitReleasesRef(g)

GatewayStep(g) == CreateGateway(g) \/ TryAcquire(g) \/ Submission(g)
                  \/ DestroyGateway(g)

OwnerStep == LoadAdmissionWord \/ WaitOnAdmissionWord

BeginSomeCall == \E c \in {"RequestStop", "Shutdown", "Reset"} : BeginInvalidate(c)

Next == \/ \E g \in Gateways : GatewayStep(g)
        \/ BeginSomeCall
        \/ OwnerStep

Spec == Init /\ [][Next]_vars

-----------------------------------------------------------------------------
(***************************************************************************)
(* Properties.                                                             *)
(***************************************************************************)
PermitHolders == {g \in Gateways : gateway[g] \in {"AddRef", "Inside"}}

\* The promise of the gate: once RequestStop or Shutdown has begun to stop the
\* components, no submission is inside the server and none will enter it.
NoSubmissionInStoppedServer ==
    server # "Running" => invalidated /\ PermitHolders = {}

\* Who holds a reference to the gate's state.
Handles == {g \in Gateways : gateway[g] \notin {"None", "Gone"}}
Permits == {g \in Gateways : gateway[g] \in {"Inside", "Notify", "ReleaseRef"}}

\* The gate's state is deleted exactly when the server, the last gateway and the
\* last permit have let go of it: the releaser's notify_all, after the owner may
\* have destroyed the server, still finds it alive.
StateOutlivesUsers ==
    /\ refCount = Cardinality(Handles) + Cardinality(Permits)
                  + (IF server = "Destroyed" THEN 0 ELSE 1)
    /\ freed <=> refCount = 0

=============================================================================
