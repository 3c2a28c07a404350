--------------------------- MODULE ServerLifecycle ---------------------------
(***************************************************************************)
(* NrServer from creation to destruction.  The thread that owns the server *)
(* starts, stops and shuts down a list of components (NrBootstrapPlan),    *)
(* while three others are at work: the I/O pump (NrRuntimeIoPipeline-      *)
(* Component), which turns accept completions into sessions; the actor     *)
(* workers; and the gateways' threads, which the submission gate keeps     *)
(* out.  The gate is the module SubmissionGate itself: every step here is  *)
(* a step of the gate or leaves it alone, and `server' says how far the    *)
(* owner has got with the gate, `shell' what state the server is in.       *)
(***************************************************************************)
EXTENDS SubmissionGate, Sequences

CONSTANTS AcceptSlotCount,   \* acceptSlotCount of the listener
          MaxSessions,       \* maxSessionCount of handoff and registry
          MaxConnections     \* connections the environment makes

ASSUME ServerLifecycleAssumption ==
    /\ AcceptSlotCount \in Nat \ {0}
    /\ MaxSessions \in Nat \ {0}
    /\ MaxConnections \in Nat

VARIABLES shell,          \* ServerShellState
          plan,           \* what the owner is doing to the components
          startedCount,   \* startedCount_ of the bootstrap plan
          port,           \* the completion port, [state, queue]
          listener,       \* the listen socket and the accept slots
          pump,           \* the I/O pump's thread
          stopPump,       \* stopRequested_ of the pipeline
          actors,         \* the scheduler: its started_ flag, its workers
          told,           \* what the handoff holds of each session
          session,        \* what the registry holds of each session
          nextKey,        \* nextSessionKey_
          connections,    \* connections made so far
          handoffClosed

lifecycleVars == <<shell, plan, startedCount>>
sessionVars   == <<told, session>>
serverVars == <<vars, lifecycleVars, port, listener, pump, stopPump, actors,
                sessionVars, nextKey, connections, handoffClosed>>

Slots == 1 .. AcceptSlotCount
Keys  == 1 .. MaxConnections

\* BuildServerGraph adds the components in this order.
LifecycleOrder == <<"Diagnostics", "Winsock", "Port", "Registry", "Scheduler",
                    "Pipeline", "Listener">>

Resting == [op |-> "Idle", at |-> 0, join |-> FALSE]
NoActor == [registered |-> FALSE, mail |-> "None", io |-> "None"]

\* NrServer::Create has built and configured the graph.
ServerInit ==
    /\ Init
    /\ shell = "Created" /\ plan = Resting /\ startedCount = 0
    /\ port = [state |-> "None", queue |-> <<>>]
    /\ listener = [open |-> FALSE, slot |-> [s \in Slots |-> "Idle"]]
    /\ pump = [at |-> "None"] /\ stopPump = FALSE
    /\ actors = [open |-> FALSE, workers |-> "None"]
    /\ told = [k \in Keys |-> "None"]
    /\ session = [k \in Keys |-> NoActor]
    /\ nextKey = 1 /\ connections = 0
    /\ handoffClosed = FALSE

-----------------------------------------------------------------------------
(***************************************************************************)
(* What the components do when they are started and stopped.               *)
(***************************************************************************)
SetSlot(s, v) == listener' = [listener EXCEPT !.slot[s] = v]

\* NrListener::Shutdown: the listen socket and the accept sockets are closed,
\* and the kernel ends the accepts that were posted.
ShutListener ==
    listener' = [open |-> FALSE,
                 slot |-> [s \in Slots |-> IF listener.slot[s] = "Posted"
                                           THEN "Aborting" ELSE "Closed"]]

\* Mutant: the pipeline is told to stop and its thread is not woken.
WakeWorker_Forgotten == UNCHANGED port

\* PostControlCompletion.
WakeWorker == port' = [port EXCEPT !.queue = Append(@, [type |-> "Control"])]

\* The Start of a component; the listener's goes on with its accept slots.
StartEffect(c) ==
    /\ port' = IF c = "Port" THEN [port EXCEPT !.state = "Open"] ELSE port
    /\ actors' = IF c = "Scheduler" THEN [open |-> TRUE, workers |-> "Up"] ELSE actors
    /\ pump' = IF c = "Pipeline" THEN [at |-> "Test"] ELSE pump
    /\ listener' = IF c = "Listener" THEN [listener EXCEPT !.open = TRUE] ELSE listener

\* The RequestStop of a component.
StopEffect(c) ==
    /\ IF c = "Pipeline" THEN stopPump' = TRUE /\ WakeWorker ELSE UNCHANGED <<stopPump, port>>
    /\ actors' = IF c = "Scheduler" THEN [actors EXCEPT !.open = FALSE] ELSE actors

\* A session that was never announced is dropped, an announced one is closed
\* with the reason ServerStopping.
RecordServerStopping ==
    /\ told' = [k \in Keys |->
                 IF ~session[k].registered THEN told[k]
                 ELSE IF told[k] = "Reserved" THEN "None" ELSE "Ended"]
    /\ session' = [k \in Keys |-> NoActor]

\* The Shutdown of a component, up to the point where it joins its threads.
ShutdownEffect(c) ==
    /\ CASE c = "Pipeline" -> stopPump' = TRUE /\ WakeWorker
         [] c = "Port" -> port' = [state |-> "Closed", queue |-> <<>>] /\ UNCHANGED stopPump
         [] OTHER -> UNCHANGED <<stopPump, port>>
    /\ actors' = IF c = "Scheduler" THEN [actors EXCEPT !.open = FALSE] ELSE actors
    /\ IF c = "Listener" THEN ShutListener ELSE UNCHANGED listener
    /\ IF c = "Registry" THEN RecordServerStopping ELSE UNCHANGED sessionVars

Joined(c) == CASE c = "Pipeline" -> pump.at = "Done"
               [] c = "Scheduler" -> actors.workers = "Left"
               [] OTHER -> TRUE

-----------------------------------------------------------------------------
(***************************************************************************)
(* The owner's calls.                                                      *)
(***************************************************************************)
OwnerIsFree == owner = "Idle" /\ plan.op = "Idle"

\* NrServer::Start.
Start ==
    /\ OwnerIsFree /\ shell = "Created"
    /\ plan' = [op |-> "Start", at |-> 1, join |-> FALSE]
    /\ startedCount' = 0
    /\ UNCHANGED <<vars, shell, port, listener, pump, stopPump, actors, sessionVars,
                   nextKey, connections, handoffClosed>>

StartSucceeds ==
    /\ plan' = Resting /\ shell' = "Running" /\ startedCount' = Len(LifecycleOrder)

Rollback == plan' = [op |-> "Rollback", at |-> 0, join |-> FALSE]

\* A component is started, or fails and what was started is shut down.  Only the
\* registry cannot fail.
StartComponent ==
    /\ plan.op = "Start"
    /\ LET c == LifecycleOrder[plan.at] IN
       \/ /\ StartEffect(c)
          /\ IF c = "Listener"
             THEN plan' = [plan EXCEPT !.op = "PostAccepts", !.at = 1] /\ UNCHANGED startedCount
             ELSE plan' = [plan EXCEPT !.at = @ + 1] /\ startedCount' = startedCount + 1
       \/ /\ c # "Registry"
          /\ Rollback
          /\ UNCHANGED <<startedCount, port, actors, pump, listener>>
    /\ UNCHANGED <<vars, shell, stopPump, sessionVars, nextKey, connections, handoffClosed>>

\* The listener posts its accepts one by one, with the pump already running.
PostInitialAccept ==
    /\ plan.op = "PostAccepts"
    /\ \/ /\ SetSlot(plan.at, "Posted")
          /\ IF plan.at = AcceptSlotCount
             THEN StartSucceeds
             ELSE plan' = [plan EXCEPT !.at = @ + 1] /\ UNCHANGED <<shell, startedCount>>
       \/ ShutListener /\ Rollback /\ UNCHANGED <<shell, startedCount>>
    /\ UNCHANGED <<vars, port, pump, stopPump, actors, sessionVars, nextKey, connections,
                   handoffClosed>>

\* RequestStop and Shutdown of NrServer first shut the gate; RequestStop of a
\* server that is not running does nothing.
BeginCall(c) ==
    /\ plan.op = "Idle"
    /\ c = "RequestStop" => shell = "Running"
    /\ BeginInvalidate(c)
    /\ UNCHANGED <<lifecycleVars, port, listener, pump, stopPump, actors, sessionVars,
                   nextKey, connections, handoffClosed>>

\* The wait for the last submission ends, and the components' turn comes.
ShutGate ==
    /\ OwnerStep
    /\ plan' = IF owner' # "Idle" THEN plan
               ELSE CASE call = "RequestStop" -> [op |-> "RequestStop", at |-> startedCount, join |-> FALSE]
                      [] call = "Shutdown" /\ shell # "Shutdown" -> [op |-> "Shutdown", at |-> 0, join |-> FALSE]
                      [] OTHER -> plan
    /\ UNCHANGED <<shell, startedCount, port, listener, pump, stopPump, actors, sessionVars,
                   nextKey, connections, handoffClosed>>

\* NrBootstrapPlan::RequestStop, from the last component to the first.
StopComponent ==
    /\ plan.op = "RequestStop"
    /\ IF plan.at = 0
       THEN shell' = "StopRequested" /\ plan' = Resting /\ UNCHANGED <<stopPump, port, actors>>
       ELSE /\ StopEffect(LifecycleOrder[plan.at])
            /\ plan' = [plan EXCEPT !.at = @ - 1] /\ UNCHANGED shell
    /\ UNCHANGED <<vars, startedCount, listener, pump, sessionVars, nextKey, connections,
                   handoffClosed>>

\* Mutant: components are shut down in the order they were started.
NextToShutDown_First == LifecycleOrder[Len(LifecycleOrder) + 1 - startedCount]

NextToShutDown == LifecycleOrder[startedCount]

\* NrBootstrapPlan::ShutdownStarted, for Shutdown and for a failed Start.
ShutdownComponent ==
    /\ plan.op \in {"Shutdown", "Rollback"} /\ startedCount > 0 /\ ~plan.join
    /\ ShutdownEffect(NextToShutDown)
    /\ plan' = [plan EXCEPT !.join = TRUE]
    /\ UNCHANGED <<vars, shell, startedCount, pump, nextKey, connections, handoffClosed>>

JoinComponent ==
    /\ plan.join
    /\ Joined(NextToShutDown)
    /\ startedCount' = startedCount - 1
    /\ plan' = [plan EXCEPT !.join = FALSE]
    /\ UNCHANGED <<vars, shell, port, listener, pump, stopPump, actors, sessionVars, nextKey,
                   connections, handoffClosed>>

\* Only Shutdown closes the handoff; a server that failed to start is in the
\* state Shutdown already, and its handoff stays open.
ComponentsAreDown ==
    /\ plan.op \in {"Shutdown", "Rollback"} /\ startedCount = 0
    /\ shell' = "Shutdown" /\ plan' = Resting
    /\ handoffClosed' = (handoffClosed \/ plan.op = "Shutdown")
    /\ UNCHANGED <<vars, startedCount, port, listener, pump, stopPump, actors, sessionVars,
                   nextKey, connections>>

-----------------------------------------------------------------------------
(***************************************************************************)
(* The I/O pump: NrRuntimeIoPipelineComponent::WorkerLoop.                 *)
(***************************************************************************)
gateAndOwner == <<vars, lifecycleVars, handoffClosed>>

PumpGoesTo(step) == pump' = [pump EXCEPT !.at = step]

PumpSucceeds == pump' = [at |-> "Test"] /\ UNCHANGED stopPump

\* A failed PumpOnce ends the loop, whatever failed.
PumpFails == pump' = [at |-> "Test"] /\ stopPump' = TRUE

PumpTestsStop ==
    /\ pump.at = "Test"
    /\ PumpGoesTo(IF stopPump THEN "Done" ELSE "Wait")
    /\ UNCHANGED <<gateAndOwner, port, listener, stopPump, actors, sessionVars, nextKey, connections>>

\* WaitForCompletion: the pump sleeps until the port has something for it.
PumpDequeues ==
    /\ pump.at = "Wait" /\ port.queue # <<>>
    /\ LET item == Head(port.queue) IN
       pump' = CASE item.type = "Control" -> [at |-> "Test"]
                 [] item.type = "Accept" -> [at |-> "Accept", slot |-> item.slot, ok |-> item.ok]
                 [] item.type = "Recv" -> [at |-> "Route", key |-> item.key]
    /\ port' = [port EXCEPT !.queue = Tail(@)]
    /\ UNCHANGED <<gateAndOwner, listener, stopPump, actors, sessionVars, nextKey, connections>>

\* DispatchAccept: a key is taken, then CompleteAccept associates the socket with
\* the port; a socket the listener has closed cannot be.
PumpCompletesAccept ==
    /\ pump.at = "Accept"
    /\ IF ~pump.ok
       THEN PumpFails /\ UNCHANGED nextKey
       ELSE /\ nextKey' = nextKey + 1
            /\ \/ /\ listener.open /\ listener.slot[pump.slot] = "Queued"
                  /\ pump' = [at |-> "Take", slot |-> pump.slot, key |-> nextKey]
                  /\ UNCHANGED stopPump
               \/ PumpFails
    /\ UNCHANGED <<gateAndOwner, port, listener, actors, sessionVars, connections>>

\* TakeAcceptedSocket and NrSession::Create.
PumpTakesSocket ==
    /\ pump.at = "Take"
    /\ IF listener.slot[pump.slot] = "Queued" THEN SetSlot(pump.slot, "Idle") ELSE UNCHANGED listener
    /\ \/ /\ listener.slot[pump.slot] = "Queued"
          /\ PumpGoesTo("Reserve") /\ UNCHANGED stopPump
       \/ PumpFails
    /\ UNCHANGED <<gateAndOwner, port, actors, sessionVars, nextKey, connections>>

PumpReservesSlot ==
    /\ pump.at = "Reserve"
    /\ \/ /\ Cardinality({k \in Keys : told[k] \in {"Reserved", "Accepted"}}) < MaxSessions
          /\ told' = [told EXCEPT ![pump.key] = "Reserved"]
          /\ PumpGoesTo("Register") /\ UNCHANGED stopPump
       \/ PumpFails /\ UNCHANGED told
    /\ UNCHANGED <<gateAndOwner, port, listener, actors, session, nextKey, connections>>

\* NrSessionIoActor::Create and TryRegisterActor.
PumpRegistersActor ==
    /\ pump.at = "Register"
    /\ \/ /\ Cardinality({k \in Keys : session[k].registered}) < MaxSessions
          /\ session' = [session EXCEPT ![pump.key].registered = TRUE]
          /\ PumpGoesTo("Enqueue")
       \/ PumpGoesTo("Cancel") /\ UNCHANGED session
    /\ UNCHANGED <<gateAndOwner, port, listener, stopPump, actors, told, nextKey, connections>>

\* Enqueue(Accepted) is refused once the scheduler stops, or for want of a permit.
PumpEnqueuesAccepted ==
    /\ pump.at = "Enqueue"
    /\ \/ /\ actors.open
          /\ session' = [session EXCEPT ![pump.key].mail = "Accepted"]
          /\ PumpGoesTo("Repost")
       \/ PumpGoesTo("Undo") /\ UNCHANGED session
    /\ UNCHANGED <<gateAndOwner, port, listener, stopPump, actors, told, nextKey, connections>>

\* RequestClose and DeregisterClosedActors.
PumpDeregisters ==
    /\ pump.at = "Undo"
    /\ session' = [session EXCEPT ![pump.key] = NoActor]
    /\ PumpGoesTo("Cancel")
    /\ UNCHANGED <<gateAndOwner, port, listener, stopPump, actors, told, nextKey, connections>>

\* Mutant: a refused session keeps its place in the handoff.
PumpCancelsReservation_Forgotten ==
    /\ pump.at = "Cancel"
    /\ PumpFails
    /\ UNCHANGED <<gateAndOwner, port, listener, actors, sessionVars, nextKey, connections>>

\* CancelSessionReservation; the accept fails.
PumpCancelsReservation ==
    /\ pump.at = "Cancel"
    /\ told' = [told EXCEPT ![pump.key] = "None"]
    /\ PumpFails
    /\ UNCHANGED <<gateAndOwner, port, listener, actors, session, nextKey, connections>>

\* PostAccept, for the next connection.
PumpRepostsAccept ==
    /\ pump.at = "Repost"
    /\ \/ listener.open /\ SetSlot(pump.slot, "Posted") /\ PumpSucceeds
       \/ PumpFails /\ UNCHANGED listener
    /\ UNCHANGED <<gateAndOwner, port, actors, sessionVars, nextKey, connections>>

\* DispatchRecv: the completion goes to its actor, or is lost with the pump.
PumpRoutesReceive ==
    /\ pump.at = "Route"
    /\ LET k == pump.key IN
       \/ /\ actors.open /\ session[k].registered
          /\ session' = [session EXCEPT ![k].mail = "Recv", ![k].io = "None"]
          /\ PumpSucceeds
       \/ PumpFails /\ UNCHANGED session
    /\ UNCHANGED <<gateAndOwner, port, listener, actors, told, nextKey, connections>>

Pump == \/ PumpTestsStop \/ PumpDequeues \/ PumpCompletesAccept \/ PumpTakesSocket
        \/ PumpReservesSlot \/ PumpRegistersActor \/ PumpEnqueuesAccepted
        \/ PumpDeregisters \/ PumpCancelsReservation \/ PumpRepostsAccept
        \/ PumpRoutesReceive

-----------------------------------------------------------------------------
(***************************************************************************)
(* Actor workers, the World, the kernel.                                   *)
(***************************************************************************)
EndSession(k) ==
    /\ told' = [told EXCEPT ![k] = "Ended"]
    /\ session' = [session EXCEPT ![k] = NoActor]

\* A worker drains one event: the session is announced and asks for input, asks
\* for more, or ends.  Nothing more is posted for a session that has ended.
ActorDrains(k) ==
    /\ actors.workers = "Up" /\ session[k].mail # "None"
    /\ \/ /\ told[k] # "Ended"
          /\ told' = [told EXCEPT ![k] = "Accepted"]
          /\ session' = [session EXCEPT ![k].mail = "None", ![k].io = "Posted"]
       \/ EndSession(k)
    /\ UNCHANGED <<gateAndOwner, port, listener, pump, stopPump, actors, nextKey, connections>>

\* The World asks for a session's end.  The World hears of it at once; the
\* entry stays until the receive that was posted has come back.
CloseSession(k) ==
    /\ shell = "Running" /\ actors.open /\ actors.workers = "Up"
    /\ told[k] = "Accepted"
    /\ told' = [told EXCEPT ![k] = "Ended"]
    /\ UNCHANGED <<gateAndOwner, session, port, listener, pump, stopPump, actors, nextKey, connections>>

ActorWorkersLeave ==
    /\ actors.workers = "Up" /\ ~actors.open
    /\ actors' = [actors EXCEPT !.workers = "Left"]
    /\ UNCHANGED <<gateAndOwner, port, listener, pump, stopPump, sessionVars, nextKey, connections>>

Complete(item) == port' = [port EXCEPT !.queue = IF port.state = "Open" THEN Append(@, item) ELSE @]

\* A client connects to a posted slot, or the accept fails.
AcceptCompletes(s) ==
    /\ listener.slot[s] = "Posted" /\ connections < MaxConnections
    /\ connections' = connections + 1
    /\ SetSlot(s, "Queued")
    /\ \E ok \in BOOLEAN : Complete([type |-> "Accept", slot |-> s, ok |-> ok])
    /\ UNCHANGED <<gateAndOwner, pump, stopPump, actors, sessionVars, nextKey>>

\* The accept of a closed socket ends.
AcceptAborts(s) ==
    /\ listener.slot[s] = "Aborting"
    /\ SetSlot(s, "Closed")
    /\ Complete([type |-> "Accept", slot |-> s, ok |-> FALSE])
    /\ UNCHANGED <<gateAndOwner, pump, stopPump, actors, sessionVars, nextKey, connections>>

RecvCompletes(k) ==
    /\ session[k].io = "Posted"
    /\ session' = [session EXCEPT ![k].io = "Queued"]
    /\ Complete([type |-> "Recv", key |-> k])
    /\ UNCHANGED <<gateAndOwner, listener, pump, stopPump, actors, told, nextKey, connections>>

-----------------------------------------------------------------------------
GatewayMoves(g) ==
    /\ GatewayStep(g)
    /\ gateway[g] = "None" => shell = "Running" /\ plan.op = "Idle"
    /\ UNCHANGED <<lifecycleVars, port, listener, pump, stopPump, actors, sessionVars, nextKey,
                   connections, handoffClosed>>

OwnerMoves == \/ StartComponent \/ PostInitialAccept \/ ShutGate \/ StopComponent
              \/ ShutdownComponent \/ JoinComponent \/ ComponentsAreDown

ServerNext ==
    \/ Start
    \/ \E c \in {"RequestStop", "Shutdown", "Reset"} : BeginCall(c)
    \/ OwnerMoves
    \/ Pump
    \/ ActorWorkersLeave
    \/ \E k \in Keys : ActorDrains(k) \/ CloseSession(k) \/ RecvCompletes(k)
    \/ \E s \in Slots : AcceptCompletes(s) \/ AcceptAborts(s)
    \/ \E g \in Gateways : GatewayMoves(g)

ServerSpec == ServerInit /\ [][ServerNext]_serverVars

\* The owner, once in a call, the pump, the actor workers and a submission under
\* way go on when they can.  Clients and the World owe nothing.
ServerFairness ==
    /\ WF_serverVars(OwnerMoves)
    /\ WF_serverVars(Pump)
    /\ WF_serverVars(ActorWorkersLeave)
    /\ \A g \in Gateways : WF_serverVars(GatewayMoves(g) /\ Submission(g))

ServerFairSpec == ServerSpec /\ ServerFairness

-----------------------------------------------------------------------------
(***************************************************************************)
(* Properties.                                                             *)
(***************************************************************************)
Threads == {t \in {"Pump", "Actors"} :
              \/ t = "Pump" /\ pump.at \notin {"None", "Done"}
              \/ t = "Actors" /\ actors.workers = "Up"}

\* A thread never runs without what it stands on: the pump and the listener need
\* the port, and the registry publishes the last word on its sessions when no
\* thread is left that could still touch them ("pipeline and scheduler have been
\* joined", says the registry's Shutdown).  A server that is down, after Shutdown
\* or after a Start that failed half way, has let go of everything it started, and
\* the World has heard the end of every session it had heard the beginning of.
TeardownIsOrderly ==
    /\ "Pump" \in Threads \/ listener.open => port.state = "Open"
    /\ plan.join /\ NextToShutDown = "Registry" => Threads = {}
    /\ shell = "Shutdown" /\ OwnerIsFree =>
         /\ Threads = {} /\ ~listener.open /\ port.state # "Open"
         /\ \A k \in Keys : ~session[k].registered /\ told[k] \in {"None", "Ended"}
    /\ handoffClosed => \A k \in Keys : told[k] \in {"None", "Ended"}

\* A session has its place in the handoff exactly as long as it has its actor,
\* whichever step of its making was refused; only the pump, between two steps of
\* the making, may see the one without the other.
BeingMade(k) == pump.at \in {"Register", "Enqueue", "Undo", "Cancel"} /\ pump.key = k

SlotAndActorAgree ==
    \A k \in Keys : ~BeingMade(k) =>
        /\ told[k] \in {"Reserved", "Accepted"} => session[k].registered
        /\ session[k].registered => told[k] # "None"

\* Start, RequestStop, Shutdown and the destructor return: the pump, asleep in the
\* port or making a session, hears of the stop and is joined, and so are the
\* submissions and the actor workers.
CallsReturn == ~OwnerIsFree ~> OwnerIsFree

==============================================================================
