--------------------------- MODULE ClientRuntime ---------------------------
(***************************************************************************)
(* NrClient: the thread that calls it, its I/O worker, and what they       *)
(* share.  The caller (Connect, Send, Disconnect, TryPopEvent, Shutdown)   *)
(* leaves commands in four one-command slots and sends in a bounded queue, *)
(* and wakes the worker through a schedule gate; the worker drains them,   *)
(* handles the completions of one connection, and answers with events in a *)
(* bounded queue.  The connection's state is kept twice: the worker's      *)
(* lifecycle record and the channel's atomics, which both threads write.   *)
(* A step is one access to what the threads share.                         *)
(*                                                                         *)
(* One thread calls the client, as everywhere in the repository.  Payloads,*)
(* packet bytes, status codes, disconnect reasons and the queue-depth      *)
(* metrics are abstracted.  Both queues are what BoundedMpscQueue is shown *)
(* to implement.                                                           *)
(***************************************************************************)
EXTENDS Integers, Sequences

CONSTANTS EventCapacity,      \* config.eventQueueCapacity
          SendCapacity,       \* config.payloadQueueCapacity
          DrainBudget,        \* 16 in HandleClientControlCompletion
          MaxAttempts,        \* bound: connection attempts
          MaxPostFailures     \* bound: control completions the port refuses

ASSUME ClientRuntimeAssumption ==
    /\ EventCapacity \in Nat \ {0} /\ SendCapacity \in Nat \ {0}
    /\ DrainBudget \in Nat \ {0}
    /\ MaxAttempts \in Nat \ {0} /\ MaxPostFailures \in Nat

VARIABLES chan,      \* the channel's atomics
          gate,      \* scheduleGate_
          slots,     \* the four command slots
          sends,     \* pendingSendQueue_: the attempt each send belongs to
          depth,     \* sendPipelineDepth_
          port,      \* the completion port's queue
          kernel,    \* operations the kernel holds
          tp,        \* the transport: lifecycle, connection, disconnect
          store,     \* the event store of NrClient::Impl
          caller,    \* where the calling thread is
          worker,    \* where the I/O worker is
          refused    \* control completions the port has refused

shared == <<chan, gate, slots, sends, depth, port>>
vars == <<chan, gate, slots, sends, depth, port, kernel, tp, store, caller,
          worker, refused>>

Gate == INSTANCE ActorScheduleGate WITH MaxProducerInFlight <- 1
Life == INSTANCE ClientLifecycle

-----------------------------------------------------------------------------
Generations == 0 .. MaxAttempts

EmptySlot == -1

\* The order in which TryPopCommand looks at the slots.
SlotOrder == <<"Connect", "Disconnect", "Shutdown", "EventSpace">>
CommandKinds == {SlotOrder[i] : i \in DOMAIN SlotOrder}

EventKinds == {"Connected", "Failed", "Packet", "Disconnected"}
NoEvent == [kind |-> "None", gen |-> 0]
Event(kind, gen) == [kind |-> kind, gen |-> gen]
Events == [kind: EventKinds, gen: Generations]

Control(kind) == [kind |-> kind, gen |-> 0, outcome |-> "None"]
Completion(op, gen, outcome) == [kind |-> op, gen |-> gen, outcome |-> outcome]

\* What the kernel may report; Ended stands for a failed or empty receive and
\* for bytes that are no frame.
OutcomesOf(op) ==
    CASE op = "Connect" -> {"Done", "Failed"}
      [] op = "Recv"    -> {"Packet", "Partial", "Ended"}
      [] op = "Send"    -> {"Done", "Partial", "Failed"}

ChannelState == [state: Life!LifecycleStates, gen: Generations,
                 sendGen: Generations, wakeFailure: BOOLEAN]

\* conn: the attempt of the NrClientConnection, 0 for nullptr.  closed, recv
\* and send are the connection's; active is activeSendUsesAdmission_.
TransportState == [life: Life!Lifecycle(Generations), conn: Generations,
                   closed: BOOLEAN, recv: BOOLEAN, send: BOOLEAN,
                   connectIo: BOOLEAN, disconnecting: BOOLEAN,
                   shutdown: BOOLEAN, stopPosted: BOOLEAN, active: BOOLEAN]

EventStore == [queue: Seq(Events), outcome: Events \cup {NoEvent},
               ended: Events \cup {NoEvent}, pending: BOOLEAN, wake: BOOLEAN]

IdleCaller == [pc |-> "Idle", kind |-> "None", gen |-> 0,
               ticket |-> "Rejected", accepted |-> FALSE]

IdleWorker == [pc |-> "Pump", inDrain |-> FALSE, drained |-> 0, scan |-> 0,
               ok |-> FALSE, event |-> NoEvent, status |-> "Ok"]

Init ==
    /\ chan = [state |-> "Idle", gen |-> 0, sendGen |-> 0, wakeFailure |-> FALSE]
    /\ gate = Gate!InitialWord
    /\ slots = [k \in CommandKinds |-> EmptySlot]
    /\ sends = <<>> /\ depth = 0
    /\ port = <<>> /\ kernel = {}
    /\ tp = [life |-> Life!InitialLifecycle, conn |-> 0, closed |-> FALSE,
             recv |-> FALSE, send |-> FALSE, connectIo |-> FALSE,
             disconnecting |-> FALSE, shutdown |-> FALSE, stopPosted |-> FALSE,
             active |-> FALSE]
    /\ store = [queue |-> <<>>, outcome |-> NoEvent, ended |-> NoEvent,
                pending |-> FALSE, wake |-> FALSE]
    /\ caller = IdleCaller
    /\ worker = IdleWorker
    /\ refused = 0

Crashed == worker.pc = "Crashed"
IsRunning == worker.pc \notin {"Stopped", "Crashed"}

-----------------------------------------------------------------------------
(***************************************************************************)
(* NrClientCommandChannel, called by the one calling thread.               *)
(***************************************************************************)
CallerAt(pc) == caller.pc = pc /\ ~Crashed

RecordWakeFailure(c) ==
    [c EXCEPT !.wakeFailure = TRUE, !.sendGen = 0, !.state = "Shutdown"]

\* SubmitConnect takes the channel from Idle before anything else.
SubmitConnect ==
    /\ CallerAt("Idle")
    /\ ~chan.wakeFailure /\ chan.state = "Idle" /\ chan.gen < MaxAttempts
    /\ chan' = [chan EXCEPT !.state = "Connecting"]
    /\ caller' = [caller EXCEPT !.pc = "Generation", !.kind = "Connect"]
    /\ UNCHANGED <<gate, slots, sends, depth, port, kernel, tp, store, worker, refused>>

SetGeneration ==
    /\ CallerAt("Generation")
    /\ chan' = [chan EXCEPT !.gen = @ + 1]
    /\ caller' = [caller EXCEPT !.pc = "Admit"]
    /\ UNCHANGED <<gate, slots, sends, depth, port, kernel, tp, store, worker, refused>>

\* SubmitDisconnect on a connecting or connected channel; on a disconnecting
\* one it succeeds and on any other it fails, changing nothing.
SubmitDisconnect ==
    /\ CallerAt("Idle")
    /\ ~chan.wakeFailure /\ chan.state \in {"Connecting", "Connected"}
    /\ chan' = [chan EXCEPT !.state = "Disconnecting"]
    /\ caller' = [caller EXCEPT !.pc = "CloseSends", !.kind = "Disconnect"]
    /\ UNCHANGED <<gate, slots, sends, depth, port, kernel, tp, store, worker, refused>>

\* NrClient::Shutdown of a running client.  A second call, or one after a wake
\* failure, finds the state set and only joins; after a wake failure that left
\* another state it fails, changing nothing.
SubmitShutdown ==
    /\ CallerAt("Idle") /\ IsRunning
    /\ chan.state = "Shutdown" \/ ~chan.wakeFailure
    /\ IF chan.state = "Shutdown"
       THEN caller' = [caller EXCEPT !.pc = "Join"] /\ UNCHANGED chan
       ELSE /\ chan' = [chan EXCEPT !.state = "Shutdown"]
            /\ caller' = [caller EXCEPT !.pc = "CloseSends", !.kind = "Shutdown"]
    /\ UNCHANGED <<gate, slots, sends, depth, port, kernel, tp, store, worker, refused>>

CloseSends ==
    /\ CallerAt("CloseSends")
    /\ chan' = [chan EXCEPT !.sendGen = 0]
    /\ caller' = [caller EXCEPT !.pc = "Admit"]
    /\ UNCHANGED <<gate, slots, sends, depth, port, kernel, tp, store, worker, refused>>

\* SubmitSend: the channel is connected and a place in the pipeline is free;
\* the payload is framed in memory of the pool, which may be exhausted (then
\* the place is given back and nothing has changed).
SubmitSend ==
    /\ CallerAt("Idle")
    /\ ~chan.wakeFailure /\ chan.sendGen # 0 /\ chan.state = "Connected"
    /\ depth < SendCapacity
    /\ depth' = depth + 1
    /\ caller' = [caller EXCEPT !.pc = "Admit", !.kind = "Send", !.gen = chan.sendGen]
    /\ UNCHANGED <<chan, gate, slots, sends, port, kernel, tp, store, worker, refused>>

\* The channel's atomics c after a command was refused.
ChannelAfterRefusal(c, kind) ==
    CASE kind = "Connect" -> [c EXCEPT !.state = "Idle"]
      [] kind \in {"Disconnect", "Shutdown"} -> RecordWakeFailure(c)
      [] OTHER -> c

\* The gate refuses a ticket only while another producer is admitted.
TryBeginAdmission ==
    /\ CallerAt("Admit")
    /\ IF Gate!CanBeginAdmission(gate)
       THEN /\ gate' = Gate!TryBeginAdmission(gate)
            /\ caller' = [caller EXCEPT !.pc = "Publish",
                                        !.ticket = Gate!AdmissionDecision(gate)]
            /\ UNCHANGED <<chan, depth>>
       ELSE /\ chan' = ChannelAfterRefusal(chan, caller.kind)
            /\ depth' = IF caller.kind = "Send" THEN depth - 1 ELSE depth
            /\ caller' = IF caller.kind = "EventSpace"
                         THEN [caller EXCEPT !.pc = "ForgetWake"] ELSE IdleCaller
            /\ UNCHANGED gate
    /\ UNCHANGED <<slots, sends, port, kernel, tp, store, worker, refused>>

\* A command carries the attempt it is for.
CommandGeneration(kind) ==
    IF kind \in {"Connect", "Disconnect"} THEN chan.gen ELSE 0

\* NrClientCommandSlot::TryPublish.
TryPublish ==
    /\ CallerAt("Publish") /\ caller.kind # "Send"
    /\ slots' = IF slots[caller.kind] # EmptySlot THEN slots
                ELSE [slots EXCEPT ![caller.kind] = CommandGeneration(caller.kind)]
    /\ caller' = [caller EXCEPT !.pc = "Commit",
                                !.accepted = slots[caller.kind] = EmptySlot]
    /\ UNCHANGED <<chan, gate, sends, depth, port, kernel, tp, store, worker, refused>>

\* The send is pushed if the channel still is what it was at the start.
PushSend ==
    /\ CallerAt("Publish") /\ caller.kind = "Send"
    /\ LET valid == chan.state = "Connected" /\ chan.sendGen = caller.gen
       IN  /\ sends' = IF valid THEN Append(sends, caller.gen) ELSE sends
           /\ caller' = [caller EXCEPT !.pc = "Commit", !.accepted = valid]
    /\ UNCHANGED <<chan, gate, slots, depth, port, kernel, tp, store, worker, refused>>

\* Where each operation goes after its admission, given how that ended.
AfterCommit(kind, accepted, woken) ==
    CASE kind = "Connect" /\ accepted /\ woken -> [caller EXCEPT !.pc = "ClearSendGen"]
      [] kind = "Shutdown" /\ accepted /\ woken -> [caller EXCEPT !.pc = "Join"]
      [] kind = "EventSpace" /\ accepted /\ ~woken -> [caller EXCEPT !.pc = "ForgetWake"]
      [] OTHER -> IdleCaller

\* CompleteAdmission and ApplyScheduleDirective, which may fail to wake the
\* worker, and after them what a refused command does to the channel.
CompleteAdmission ==
    /\ CallerAt("Commit")
    /\ LET resolution == IF caller.accepted THEN "MailboxCommitted" ELSE "MailboxRejected"
           done == Gate!CompleteAdmission(gate, caller.ticket, resolution)
           wakes == done.directive = "EnqueueReadyToken"
           After(c) == IF caller.accepted THEN c ELSE ChannelAfterRefusal(c, caller.kind)
       IN  /\ gate' = done.word
           /\ \/ /\ port' = IF wakes THEN Append(port, Control("Commands")) ELSE port
                 /\ chan' = After(chan)
                 /\ caller' = AfterCommit(caller.kind, caller.accepted, TRUE)
                 /\ UNCHANGED refused
              \/ /\ wakes /\ refused < MaxPostFailures
                 /\ chan' = After(RecordWakeFailure(chan))
                 /\ caller' = AfterCommit(caller.kind, caller.accepted, FALSE)
                 /\ refused' = refused + 1
                 /\ UNCHANGED port
           /\ depth' = IF caller.kind = "Send" /\ ~caller.accepted THEN depth - 1 ELSE depth
    /\ UNCHANGED <<slots, sends, kernel, tp, store, worker>>

\* The last store of SubmitConnect.
ClearSendGeneration ==
    /\ CallerAt("ClearSendGen")
    /\ chan' = [chan EXCEPT !.sendGen = 0]
    /\ caller' = IdleCaller
    /\ UNCHANGED <<gate, slots, sends, depth, port, kernel, tp, store, worker, refused>>

-----------------------------------------------------------------------------
(***************************************************************************)
(* NrClient::Impl, the caller's side of the event store.                   *)
(***************************************************************************)
\* The ring frees the slot of the event it has taken, then advances dequeuePos_.
TryPopEvent ==
    /\ CallerAt("Idle")
    /\ chan.state # "Shutdown" /\ store.queue # <<>>
    /\ store' = [store EXCEPT !.queue = Tail(@)]
    /\ caller' = [caller EXCEPT !.pc = "AdvancePos"]
    /\ UNCHANGED <<chan, gate, slots, sends, depth, port, kernel, tp, worker,
                   refused>>

AdvanceDequeuePos ==
    /\ CallerAt("AdvancePos")
    /\ caller' = [caller EXCEPT !.pc = "CheckPending"]
    /\ UNCHANGED <<chan, gate, slots, sends, depth, port, kernel, tp, store, worker, refused>>

\* A lifecycle event waits for the place just made: tell the worker, once.
CheckPending ==
    /\ CallerAt("CheckPending")
    /\ IF store.pending /\ ~store.wake
       THEN /\ store' = [store EXCEPT !.wake = TRUE]
            /\ caller' = [caller EXCEPT !.pc = "Signal", !.kind = "EventSpace"]
       ELSE caller' = IdleCaller /\ UNCHANGED store
    /\ UNCHANGED <<chan, gate, slots, sends, depth, port, kernel, tp, worker, refused>>

SignalEventSpaceAvailable ==
    /\ CallerAt("Signal")
    /\ caller' = [caller EXCEPT
                    !.pc = IF chan.wakeFailure \/ chan.state = "Shutdown"
                           THEN "ForgetWake" ELSE "Admit"]
    /\ UNCHANGED <<chan, gate, slots, sends, depth, port, kernel, tp, store,
                   worker, refused>>

ForgetWake ==
    /\ CallerAt("ForgetWake")
    /\ store' = [store EXCEPT !.wake = FALSE]
    /\ caller' = IdleCaller
    /\ UNCHANGED <<chan, gate, slots, sends, depth, port, kernel, tp, worker, refused>>

\* The worker has ended: NrClientIoWorker::Join and ClearEventStorage.
Join ==
    /\ \/ CallerAt("Join") /\ ~IsRunning
       \/ CallerAt("Idle") /\ ~IsRunning
    /\ store' = [queue |-> <<>>, outcome |-> NoEvent, ended |-> NoEvent,
                 pending |-> FALSE, wake |-> FALSE]
    /\ caller' = [IdleCaller EXCEPT !.pc = "Closed"]
    /\ UNCHANGED <<chan, gate, slots, sends, depth, port, kernel, tp, worker, refused>>

-----------------------------------------------------------------------------
(***************************************************************************)
(* NrClientIoWorker and NrClientTransport.  A handler returns to the pump, *)
(* or to the drain that called it; a failure ends the drain and the loop.  *)
(***************************************************************************)
WorkerAt(pc) == worker.pc = pc
Goto(w, pc) == [w EXCEPT !.pc = pc]

ReturnOk(w) ==
    IF ~w.inDrain THEN IdleWorker
    ELSE [IdleWorker EXCEPT
            !.pc = IF w.drained + 1 = DrainBudget THEN "CompleteDrain" ELSE "Scan",
            !.scan = 1, !.inDrain = TRUE, !.drained = w.drained + 1]

ReturnFailed(w, site) ==
    [w EXCEPT !.pc = IF w.inDrain THEN "CompleteDrain" ELSE "Exit",
              !.status = site]

HasPendingIo_NoRecv(t) == t.connectIo \/ t.send
HasPendingIo(t) == t.connectIo \/ t.recv \/ t.send

ReleasedSends(t) == IF t.active THEN 1 ELSE 0

ReleaseConnection(t) ==
    [t EXCEPT !.conn = 0, !.closed = FALSE, !.recv = FALSE, !.send = FALSE]

\* DiscardPendingSends, with the active send's place given back before it.
DiscardQueuedSends(released) ==
    /\ sends' = <<>>
    /\ depth' = depth - Len(sends) - released

BeginDisconnect_DropsActive(t, w, released) ==
    LET request == Life!RequestDisconnect(t.life)
    IN  /\ DiscardQueuedSends(released)
        /\ tp' = IF request.ok
                 THEN [t EXCEPT !.life = request.life, !.disconnecting = TRUE,
                                !.closed = TRUE, !.active = FALSE]
                 ELSE t
        /\ worker' = CASE ~request.ok -> ReturnFailed(w, "Disconnect")
                       [] request.ok /\ t.life.state = "Connecting" -> ReturnOk(w)
                       [] OTHER -> Goto(w, "Finish")

\* BeginDisconnect of a connection that is not yet disconnecting, from the
\* transport t that the handler w has left.
BeginDisconnect(t, w, released) ==
    LET request == Life!RequestDisconnect(t.life)
    IN  /\ DiscardQueuedSends(released)
        /\ tp' = IF request.ok
                 THEN [t EXCEPT !.life = request.life, !.disconnecting = TRUE,
                                !.closed = TRUE]
                 ELSE t
        /\ worker' = CASE ~request.ok -> ReturnFailed(w, "Disconnect")
                       [] request.ok /\ t.life.state = "Connecting" -> ReturnOk(w)
                       [] OTHER -> Goto(w, "Finish")

CompleteShutdown_NoStop(t, next) ==
    /\ tp' = [t EXCEPT !.life = Life!Shutdown(@), !.disconnecting = FALSE,
                       !.stopPosted = TRUE]
    /\ worker' = next
    /\ UNCHANGED <<port, refused>>

\* CompleteShutdown posts Stop once; next is where the handler goes on.
CompleteShutdown(t, next) ==
    LET done == [t EXCEPT !.life = Life!Shutdown(@), !.disconnecting = FALSE]
    IN  \/ /\ tp' = [done EXCEPT !.stopPosted = TRUE]
           /\ port' = IF t.stopPosted THEN port ELSE Append(port, Control("Stop"))
           /\ worker' = next
           /\ UNCHANGED refused
        \/ /\ ~t.stopPosted /\ refused < MaxPostFailures
           /\ tp' = done
           /\ worker' = ReturnFailed(worker, "Post")
           /\ refused' = refused + 1
           /\ UNCHANGED port

\* RecordConnectFailure: the connection goes, the failure is to be published.
RecordConnectFailure(t, w) ==
    LET record == Life!RecordConnectFailed(t.life, t.life.gen)
    IN  /\ tp' = [ReleaseConnection(t) EXCEPT !.life = record.life]
        /\ worker' = IF record.ok
                     THEN [w EXCEPT !.pc = "Publish", !.event = Event("Failed", t.life.gen)]
                     ELSE ReturnFailed(w, "ConnectFailure")

Pump(kind) ==
    /\ WorkerAt("Pump") /\ port # <<>> /\ Head(port).kind = kind
    /\ port' = Tail(port)

PumpStop ==
    /\ Pump("Stop")
    /\ worker' = [worker EXCEPT !.pc = "Exit"]
    /\ UNCHANGED <<chan, gate, slots, sends, depth, kernel, tp, store, caller, refused>>

PumpCommands ==
    /\ Pump("Commands")
    /\ IF Gate!CanBeginDrain(gate)
       THEN /\ gate' = Gate!TryBeginDrain(gate)
            /\ worker' = [worker EXCEPT !.pc = "Scan", !.scan = 1, !.inDrain = TRUE]
       ELSE UNCHANGED <<gate, worker>>
    /\ UNCHANGED <<chan, slots, sends, depth, kernel, tp, store, caller,
                   refused>>

-----------------------------------------------------------------------------
\* The drain looks at one slot after the other, then at the sends.
Scanned(kind) == WorkerAt("Scan") /\ SlotOrder[worker.scan] = kind

ScanEmpty ==
    /\ WorkerAt("Scan") /\ slots[SlotOrder[worker.scan]] = EmptySlot
    /\ worker' = IF worker.scan = Len(SlotOrder) THEN Goto(worker, "ConsumeSend")
                 ELSE [worker EXCEPT !.scan = @ + 1]
    /\ UNCHANGED <<shared, kernel, tp, store, caller, refused>>

TryConsume(kind) ==
    /\ Scanned(kind) /\ slots[kind] # EmptySlot
    /\ slots' = [slots EXCEPT ![kind] = EmptySlot]

\* StartConnect opens, binds and associates the socket and posts ConnectEx;
\* any of these may fail.
HandleConnect ==
    /\ TryConsume("Connect")
    /\ LET begin == Life!BeginConnect(tp.life)
           t == [tp EXCEPT !.life = begin.life]
       IN  IF slots["Connect"] # tp.life.gen + 1 \/ ~begin.ok \/ tp.conn # 0
           THEN worker' = ReturnFailed(worker, "Connect") /\ UNCHANGED <<tp, kernel>>
           ELSE \/ /\ tp' = [t EXCEPT !.conn = t.life.gen, !.connectIo = TRUE]
                   /\ kernel' = kernel \cup {[op |-> "Connect", gen |-> t.life.gen]}
                   /\ worker' = ReturnOk(worker)
                \/ RecordConnectFailure(t, worker) /\ UNCHANGED kernel
    /\ UNCHANGED <<chan, gate, sends, depth, port, store, caller, refused>>

\* A disconnect of an older attempt is ignored; one that finds the attempt over
\* takes the channel back to Idle.
HandleDisconnect ==
    /\ TryConsume("Disconnect")
    /\ LET over == tp.conn = 0 /\ tp.life.state = "Idle"
       IN  CASE \/ slots["Disconnect"] # tp.life.gen
                \/ over /\ chan.state = "Idle"
                \/ ~over /\ tp.disconnecting ->
                  worker' = ReturnOk(worker) /\ UNCHANGED <<sends, depth, tp>>
             [] slots["Disconnect"] = tp.life.gen /\ over /\ chan.state # "Idle" ->
                  /\ worker' = [worker EXCEPT !.pc = "RecordDisconnected",
                                              !.event = Event("None", tp.life.gen)]
                  /\ UNCHANGED <<sends, depth, tp>>
             [] slots["Disconnect"] = tp.life.gen /\ ~over /\ ~tp.disconnecting ->
                  IF tp.conn = 0
                  THEN /\ worker' = ReturnFailed(worker, "DisconnectAfterShutdown")
                       /\ UNCHANGED <<sends, depth, tp>>
                  ELSE BeginDisconnect(tp, worker, 0)
    /\ UNCHANGED <<chan, gate, port, kernel, store, caller, refused>>

\* RequestShutdown.
HandleShutdown ==
    /\ TryConsume("Shutdown")
    /\ CASE tp.shutdown ->
              worker' = ReturnOk(worker) /\ UNCHANGED <<sends, depth, tp, port, refused>>
         [] ~tp.shutdown /\ tp.conn = 0 ->
              /\ DiscardQueuedSends(0)
              /\ CompleteShutdown([tp EXCEPT !.shutdown = TRUE], ReturnOk(worker))
         [] OTHER ->
              /\ DiscardQueuedSends(0)
              /\ tp' = [tp EXCEPT !.shutdown = TRUE, !.disconnecting = TRUE,
                                  !.closed = TRUE]
              /\ worker' = Goto(worker, "Finish")
              /\ UNCHANGED <<port, refused>>
    /\ UNCHANGED <<chan, gate, kernel, store, caller>>

HandleEventSpaceAvailable ==
    /\ TryConsume("EventSpace")
    /\ store' = [store EXCEPT !.wake = FALSE]
    /\ worker' = IF store.wake THEN Goto(worker, "Promote")
                 ELSE ReturnFailed(worker, "EventSpace")
    /\ UNCHANGED <<chan, gate, sends, depth, port, kernel, tp, caller,
                   refused>>

\* The drain is over: no command, and no send it can take.
DrainEmpty ==
    /\ WorkerAt("ConsumeSend") /\ (tp.send \/ sends = <<>>)
    /\ worker' = IF worker.inDrain THEN Goto(worker, "CompleteDrain") ELSE IdleWorker
    /\ UNCHANGED <<shared, kernel, tp, store, caller, refused>>

\* TryConsumeNextSend.  A send of an attempt that is over, or that is being
\* disconnected, gives its place back; another is posted, which may fail.
MaySend ==
    /\ tp.conn # 0 /\ ~tp.disconnecting /\ chan.state = "Connected"
    /\ tp.life.state # "Disconnecting" /\ Head(sends) = tp.conn

TryConsumeNextSend ==
    /\ WorkerAt("ConsumeSend") /\ ~tp.send /\ sends # <<>>
    /\ IF ~MaySend
       THEN /\ sends' = Tail(sends) /\ depth' = depth - 1
            /\ worker' = IF worker.inDrain THEN ReturnOk(worker) ELSE worker
            /\ UNCHANGED <<tp, kernel>>
       ELSE \/ /\ Life!CanSend(tp.life) /\ ~tp.closed
               /\ sends' = Tail(sends)
               /\ tp' = [tp EXCEPT !.send = TRUE, !.active = TRUE]
               /\ kernel' = kernel \cup {[op |-> "Send", gen |-> tp.conn]}
               /\ worker' = ReturnOk(worker)
               /\ UNCHANGED depth
            \/ BeginDisconnect(tp, worker, 0) /\ UNCHANGED kernel
    /\ UNCHANGED <<chan, gate, slots, port, store, caller, refused>>

NeedsReschedule(w) == w.status = "Ok" /\ w.drained = DrainBudget

CompleteDrain ==
    /\ WorkerAt("CompleteDrain")
    /\ LET failed == worker.status # "Ok"
           done == Gate!CompleteDrain(gate, NeedsReschedule(worker))
           wakes == done.directive = "EnqueueReadyToken"
           next == IF failed THEN Goto(worker, "Exit") ELSE IdleWorker
       IN  /\ gate' = done.word
           /\ \/ /\ port' = IF wakes THEN Append(port, Control("Commands")) ELSE port
                 /\ worker' = next
                 /\ UNCHANGED <<chan, refused>>
              \/ /\ wakes /\ refused < MaxPostFailures
                 /\ chan' = RecordWakeFailure(chan)
                 /\ worker' = [worker EXCEPT !.pc = "Exit",
                                             !.status = IF failed THEN @ ELSE "Post"]
                 /\ refused' = refused + 1
                 /\ UNCHANGED port
    /\ UNCHANGED <<slots, sends, depth, kernel, tp, store, caller>>

-----------------------------------------------------------------------------
(***************************************************************************)
(* Completions.  RouteByGeneration drops one of an older attempt.          *)
(***************************************************************************)
Routed(packet) == packet.gen = tp.life.gen

\* The caller has asked for a disconnect the worker has not seen as a command.
DisconnectRequested_Ignored == FALSE
DisconnectRequested == ~tp.disconnecting /\ chan.state = "Disconnecting"

\* HandleConnectCompletion, up to its look at a requested shutdown.
PumpConnect ==
    /\ Pump("Connect")
    /\ LET packet == Head(port)
           t == [tp EXCEPT !.connectIo = FALSE]
           w == [worker EXCEPT !.pc = "ConnectShutdown", !.ok = packet.outcome = "Done"]
       IN  CASE ~Routed(packet) -> UNCHANGED <<tp, sends, depth, worker>>
             [] Routed(packet) /\ tp.conn = 0 ->
                  /\ worker' = ReturnFailed(worker, "ConnectCompletion")
                  /\ UNCHANGED <<tp, sends, depth>>
             [] Routed(packet) /\ tp.conn # 0 /\ DisconnectRequested ->
                  /\ DiscardQueuedSends(0)
                  /\ tp' = [t EXCEPT !.life = Life!RequestDisconnect(@).life,
                                     !.disconnecting = TRUE, !.closed = TRUE]
                  /\ worker' = w
             [] OTHER -> tp' = t /\ worker' = w /\ UNCHANGED <<sends, depth>>
    /\ UNCHANGED <<chan, gate, slots, kernel, store, caller, refused>>

\* The rest of the handler runs on even if RequestShutdown has released the
\* connection.
ConnectShutdown ==
    /\ WorkerAt("ConnectShutdown")
    /\ IF ~tp.shutdown /\ chan.state = "Shutdown"
       THEN /\ DiscardQueuedSends(0)
            /\ CompleteShutdown([ReleaseConnection(tp) EXCEPT !.shutdown = TRUE],
                                Goto(worker, "ConnectOutcome"))
       ELSE /\ worker' = Goto(worker, "ConnectOutcome")
            /\ UNCHANGED <<tp, sends, depth, port, refused>>
    /\ UNCHANGED <<chan, gate, slots, kernel, store, caller>>

\* SO_UPDATE_CONNECT_CONTEXT or the first receive may fail.  Without a
\* connection the call goes through a null pointer.
ConnectOutcome ==
    /\ WorkerAt("ConnectOutcome")
    /\ CASE tp.disconnecting ->
              worker' = Goto(worker, "Finish") /\ UNCHANGED <<tp, kernel>>
         [] ~tp.disconnecting /\ ~worker.ok ->
              RecordConnectFailure(tp, worker) /\ UNCHANGED kernel
         [] ~tp.disconnecting /\ worker.ok /\ tp.conn = 0 ->
              worker' = Goto(worker, "Crashed") /\ UNCHANGED <<tp, kernel>>
         [] OTHER ->
              \/ RecordConnectFailure(tp, worker) /\ UNCHANGED kernel
              \/ LET record == Life!RecordConnectSucceeded(tp.life, tp.conn)
                 IN  /\ tp' = [tp EXCEPT !.recv = TRUE, !.life = record.life]
                     /\ kernel' = kernel \cup {[op |-> "Recv", gen |-> tp.conn]}
                     /\ worker' = IF record.ok
                                  THEN [worker EXCEPT !.pc = "Publish",
                                          !.event = Event("Connected", tp.conn)]
                                  ELSE ReturnFailed(worker, "ConnectSuccess")
    /\ UNCHANGED <<shared, store, caller, refused>>

\* PostRecv after a receive that went well; it may fail.
RepostRecv(t) ==
    \/ /\ tp' = [t EXCEPT !.recv = TRUE]
       /\ kernel' = kernel \cup {[op |-> "Recv", gen |-> t.conn]}
       /\ worker' = ReturnOk(worker)
       /\ UNCHANGED <<sends, depth>>
    \/ BeginDisconnect(t, worker, 0) /\ UNCHANGED kernel

PumpRecv ==
    /\ Pump("Recv")
    /\ LET packet == Head(port)
           t == [tp EXCEPT !.recv = FALSE]
       IN  CASE ~Routed(packet) -> UNCHANGED <<tp, sends, depth, worker, kernel>>
             [] Routed(packet) /\ tp.conn = 0 ->
                  /\ worker' = ReturnFailed(worker, "RecvCompletion")
                  /\ UNCHANGED <<tp, sends, depth, kernel>>
             [] Routed(packet) /\ tp.conn # 0 /\ tp.disconnecting ->
                  /\ tp' = t /\ worker' = Goto(worker, "Finish")
                  /\ UNCHANGED <<sends, depth, kernel>>
             [] Routed(packet) /\ tp.conn # 0 /\ ~tp.disconnecting
                  /\ packet.outcome = "Ended" ->
                  BeginDisconnect(t, worker, 0) /\ UNCHANGED kernel
             [] Routed(packet) /\ tp.conn # 0 /\ ~tp.disconnecting
                  /\ packet.outcome = "Packet" ->
                  /\ tp' = t /\ worker' = Goto(worker, "PublishPacket")
                  /\ UNCHANGED <<sends, depth, kernel>>
             [] OTHER -> RepostRecv(t)
    /\ UNCHANGED <<chan, gate, slots, store, caller, refused>>

Full == Len(store.queue) = EventCapacity

\* SizeApprox() == capacity.  While TryPopEvent is at its last step the size is
\* one too large: a queue with a free place looks full, and a full one does not.
LooksFull ==
    Len(store.queue) + (IF caller.pc = "AdvancePos" THEN 1 ELSE 0) = EventCapacity

\* PublishPacketReceived: a packet never overtakes a lifecycle event.
PublishPacketReceived ==
    /\ WorkerAt("PublishPacket")
    /\ IF ~Life!CanSend(tp.life) \/ store.pending \/ LooksFull \/ Full
       THEN BeginDisconnect(tp, worker, 0) /\ UNCHANGED <<store, kernel>>
       ELSE /\ store' = [store EXCEPT !.queue = Append(@, Event("Packet", tp.conn))]
            /\ RepostRecv(tp)
    /\ UNCHANGED <<chan, gate, slots, port, caller, refused>>

\* A send that ends gives its place back; one that was sent in part is posted
\* again, which may fail.
PumpSend ==
    /\ Pump("Send")
    /\ LET packet == Head(port)
           t == [tp EXCEPT !.send = FALSE]
           released == [t EXCEPT !.active = FALSE]
       IN  CASE ~Routed(packet) -> UNCHANGED <<tp, sends, depth, worker, kernel>>
             [] Routed(packet) /\ tp.conn = 0 ->
                  /\ worker' = ReturnFailed(worker, "SendCompletion")
                  /\ UNCHANGED <<tp, sends, depth, kernel>>
             [] Routed(packet) /\ tp.conn # 0 /\ tp.disconnecting ->
                  /\ tp' = released /\ depth' = depth - ReleasedSends(t)
                  /\ worker' = Goto(worker, "Finish")
                  /\ UNCHANGED <<sends, kernel>>
             [] Routed(packet) /\ tp.conn # 0 /\ ~tp.disconnecting
                  /\ packet.outcome = "Failed" ->
                  BeginDisconnect(released, worker, ReleasedSends(t)) /\ UNCHANGED kernel
             [] Routed(packet) /\ tp.conn # 0 /\ ~tp.disconnecting
                  /\ packet.outcome = "Done" ->
                  /\ tp' = released /\ depth' = depth - ReleasedSends(t)
                  /\ worker' = Goto(worker, "StartNextSend")
                  /\ UNCHANGED <<sends, kernel>>
             [] OTHER ->
                  \/ /\ kernel' = kernel \cup {[op |-> "Send", gen |-> tp.conn]}
                     /\ worker' = ReturnOk(worker)
                     /\ UNCHANGED <<tp, sends, depth>>
                  \/ BeginDisconnect(released, worker, ReleasedSends(t)) /\ UNCHANGED kernel
    /\ UNCHANGED <<chan, gate, slots, store, caller, refused>>

\* Mutant: the handler of a send completion leaves the next send in the queue.
TryStartNextSend_LeavesNext ==
    /\ WorkerAt("StartNextSend")
    /\ worker' = ReturnOk(worker)
    /\ UNCHANGED <<chan, gate, slots, sends, depth, port, kernel, tp, store, caller,
                   refused>>

TryStartNextSend ==
    /\ WorkerAt("StartNextSend")
    /\ IF chan.state # "Connected" \/ Life!CanSend(tp.life)
       THEN /\ worker' = IF chan.state # "Connected" THEN ReturnOk(worker)
                         ELSE Goto(worker, "ConsumeSend")
            /\ UNCHANGED <<tp, sends, depth>>
       ELSE BeginDisconnect(tp, worker, 0)
    /\ UNCHANGED <<chan, gate, slots, port, kernel, store, caller, refused>>

\* TryFinishDisconnect: once the kernel has returned every operation.
TryFinishDisconnect ==
    /\ WorkerAt("Finish")
    /\ CASE HasPendingIo(tp) ->
              worker' = ReturnOk(worker) /\ UNCHANGED <<tp, port, refused>>
         [] ~HasPendingIo(tp) /\ tp.shutdown ->
              CompleteShutdown(ReleaseConnection(tp), ReturnOk(worker))
         [] OTHER ->
              LET record == Life!RecordDisconnected(tp.life, tp.conn)
              IN  /\ tp' = [ReleaseConnection(tp) EXCEPT !.life = record.life]
                  /\ worker' = IF record.ok
                               THEN [worker EXCEPT !.pc = "Publish",
                                       !.event = Event("Disconnected", tp.conn)]
                               ELSE ReturnFailed(worker, "Disconnected")
                  /\ UNCHANGED <<port, refused>>
    /\ UNCHANGED <<chan, gate, slots, sends, depth, kernel, store, caller>>

-----------------------------------------------------------------------------
(***************************************************************************)
(* The worker's side of the event store: PublishLifecycleEvent and         *)
(* TryPublishPendingLifecycleEvents.                                       *)
(***************************************************************************)
PendingSlot(kind) == IF kind = "Disconnected" THEN "ended" ELSE "outcome"

PublishLifecycleEvent ==
    /\ WorkerAt("Publish")
    /\ worker' = CASE store[PendingSlot(worker.event.kind)] # NoEvent ->
                        ReturnFailed(worker, "PendingSlot")
                   [] store[PendingSlot(worker.event.kind)] = NoEvent /\ LooksFull ->
                        Goto(worker, "Defer")
                   [] OTHER -> Goto(worker, "Push")
    /\ UNCHANGED <<shared, kernel, tp, store, caller, refused>>

\* A push into a full queue that did not look full fails, and the handler with it.
PushEvent ==
    /\ WorkerAt("Push")
    /\ IF Full
       THEN worker' = ReturnFailed(worker, "PushFull") /\ UNCHANGED store
       ELSE /\ store' = [store EXCEPT !.queue = Append(@, worker.event)]
            /\ worker' = Goto(worker, "Published")
    /\ UNCHANGED <<shared, kernel, tp, caller, refused>>

DeferEvent ==
    /\ WorkerAt("Defer")
    /\ store' = [store EXCEPT ![PendingSlot(worker.event.kind)] = worker.event,
                              !.pending = TRUE]
    /\ worker' = Goto(worker, "Promote")
    /\ UNCHANGED <<shared, kernel, tp, caller, refused>>

\* A handler that defers an event goes on whatever this returns; one that
\* answers the caller's signal returns it.
PromoteReturns(ok) ==
    CASE worker.event # NoEvent -> Goto(worker, "Published")
      [] worker.event = NoEvent /\ ok -> ReturnOk(worker)
      [] OTHER -> ReturnFailed(worker, "PromoteFull")

PromoteOutcome ==
    /\ WorkerAt("Promote") /\ store.outcome # NoEvent /\ ~Full
    /\ store' = [store EXCEPT !.queue = Append(@, store.outcome), !.outcome = NoEvent]
    /\ UNCHANGED <<shared, kernel, tp, caller, worker, refused>>

PromoteEnded ==
    /\ WorkerAt("Promote") /\ store.outcome = NoEvent /\ store.ended # NoEvent /\ ~Full
    /\ store' = [store EXCEPT !.queue = Append(@, store.ended), !.ended = NoEvent]
    /\ UNCHANGED <<shared, kernel, tp, caller, worker, refused>>

PromoteDone ==
    /\ WorkerAt("Promote") /\ store.outcome = NoEvent /\ store.ended = NoEvent
    /\ store' = [store EXCEPT !.pending = FALSE]
    /\ worker' = PromoteReturns(TRUE)
    /\ UNCHANGED <<shared, kernel, tp, caller, refused>>

PromoteFull ==
    /\ WorkerAt("Promote") /\ Full
    /\ store.outcome # NoEvent \/ store.ended # NoEvent
    /\ worker' = PromoteReturns(FALSE)
    /\ UNCHANGED <<shared, kernel, tp, store, caller, refused>>

\* CommitNextPending, then the channel hears of it.
CommitPublished ==
    /\ WorkerAt("Published")
    /\ LET commit == Life!CommitNextPending(tp.life)
       IN  /\ tp' = [tp EXCEPT !.life = commit.life]
           /\ worker' = CASE ~commit.ok -> ReturnFailed(worker, "Commit")
                         [] commit.ok /\ worker.event.kind = "Connected" ->
                              Goto(worker, "RecordConnected")
                         [] commit.ok /\ worker.event.kind = "Failed" ->
                              Goto(worker, "RecordFailed")
                         [] OTHER -> Goto(worker, "RecordDisconnected")
    /\ UNCHANGED <<shared, kernel, store, caller, refused>>

-----------------------------------------------------------------------------
(***************************************************************************)
(* The channel's Record operations, called by the worker.                  *)
(***************************************************************************)
StillCurrent == worker.event.gen = chan.gen

RecordConnectSucceeded ==
    /\ WorkerAt("RecordConnected")
    /\ IF StillCurrent /\ chan.state = "Connecting"
       THEN /\ chan' = [chan EXCEPT !.state = "Connected"]
            /\ worker' = Goto(worker, "OpenSends")
       ELSE /\ worker' = IF ~StillCurrent \/ chan.state \in {"Disconnecting", "Shutdown"}
                         THEN ReturnOk(worker) ELSE ReturnFailed(worker, "RecordConnected")
            /\ UNCHANGED chan
    /\ UNCHANGED <<gate, slots, sends, depth, port, kernel, tp, store, caller, refused>>

OpenSends ==
    /\ WorkerAt("OpenSends")
    /\ chan' = [chan EXCEPT !.sendGen = worker.event.gen]
    /\ worker' = Goto(worker, "RecheckConnected")
    /\ UNCHANGED <<gate, slots, sends, depth, port, kernel, tp, store, caller, refused>>

RecheckConnected ==
    /\ WorkerAt("RecheckConnected")
    /\ chan' = IF chan.state # "Connected" /\ chan.sendGen = worker.event.gen
               THEN [chan EXCEPT !.sendGen = 0] ELSE chan
    /\ worker' = ReturnOk(worker)
    /\ UNCHANGED <<gate, slots, sends, depth, port, kernel, tp, store, caller, refused>>

\* RecordConnectFailed and RecordDisconnected first close the sends, then move
\* the state: the first from Connecting, the second from Connected or
\* Disconnecting, both to Idle.
RecordEnd(pc, next) ==
    /\ WorkerAt(pc)
    /\ IF StillCurrent
       THEN /\ chan' = [chan EXCEPT !.sendGen = 0]
            /\ worker' = Goto(worker, next)
            /\ UNCHANGED tp
       ELSE /\ worker' = ReturnOk(worker)
            /\ tp' = [tp EXCEPT !.disconnecting = FALSE]
            /\ UNCHANGED chan
    /\ UNCHANGED <<gate, slots, sends, depth, port, kernel, store, caller, refused>>

RecordConnectFailed == RecordEnd("RecordFailed", "FailedIdle")
RecordDisconnected == RecordEnd("RecordDisconnected", "DisconnectedIdle")

BackToIdle(pc, from, tolerated, site) ==
    /\ WorkerAt(pc)
    /\ chan' = IF chan.state \in from THEN [chan EXCEPT !.state = "Idle"] ELSE chan
    /\ IF chan.state \in from \cup tolerated
       THEN /\ worker' = ReturnOk(worker)
            /\ tp' = [tp EXCEPT !.disconnecting = FALSE]
       ELSE worker' = ReturnFailed(worker, site) /\ UNCHANGED tp
    /\ UNCHANGED <<gate, slots, sends, depth, port, kernel, store, caller, refused>>

FailedIdle ==
    BackToIdle("FailedIdle", {"Connecting"}, {"Disconnecting", "Shutdown"},
               "RecordFailed")
DisconnectedIdle ==
    BackToIdle("DisconnectedIdle", {"Connected", "Disconnecting"}, {"Shutdown"},
               "RecordDisconnected")

\* The loop ends; CompleteDrain of a failed drain has already run.
WorkerExits ==
    /\ WorkerAt("Exit")
    /\ worker' = [IdleWorker EXCEPT !.pc = "Stopped", !.status = worker.status]
    /\ UNCHANGED <<shared, kernel, tp, store, caller, refused>>

-----------------------------------------------------------------------------
\* The kernel ends an operation; on a closed socket it can only fail.
KernelCompletes ==
    /\ IsRunning
    /\ \E o \in kernel : \E outcome \in OutcomesOf(o.op) :
          /\ tp.closed => outcome \in {"Failed", "Ended"}
          /\ port' = Append(port, Completion(o.op, o.gen, outcome))
          /\ kernel' = kernel \ {o}
    /\ UNCHANGED <<chan, gate, slots, sends, depth, tp, store, caller, worker, refused>>

CallerNext ==
    \/ SubmitConnect \/ SetGeneration \/ SubmitDisconnect \/ SubmitShutdown
    \/ CloseSends \/ SubmitSend \/ TryBeginAdmission \/ TryPublish \/ PushSend
    \/ CompleteAdmission \/ ClearSendGeneration \/ TryPopEvent
    \/ AdvanceDequeuePos \/ CheckPending \/ SignalEventSpaceAvailable \/ ForgetWake \/ Join

WorkerNext ==
    \/ PumpStop \/ PumpCommands \/ ScanEmpty \/ HandleConnect \/ HandleDisconnect
    \/ HandleShutdown \/ HandleEventSpaceAvailable \/ DrainEmpty
    \/ TryConsumeNextSend \/ CompleteDrain \/ PumpConnect \/ ConnectShutdown
    \/ ConnectOutcome \/ PumpRecv \/ PublishPacketReceived \/ PumpSend
    \/ TryStartNextSend \/ TryFinishDisconnect \/ PublishLifecycleEvent
    \/ PushEvent \/ DeferEvent \/ PromoteOutcome \/ PromoteEnded \/ PromoteDone
    \/ PromoteFull \/ CommitPublished \/ RecordConnectSucceeded \/ OpenSends
    \/ RecheckConnected \/ RecordConnectFailed \/ RecordDisconnected
    \/ FailedIdle \/ DisconnectedIdle \/ WorkerExits

Next == CallerNext \/ WorkerNext \/ KernelCompletes

Spec == Init /\ [][Next]_vars

-----------------------------------------------------------------------------
TypeOK ==
    /\ chan \in ChannelState
    /\ gate \in Gate!GateWord
    /\ slots \in [CommandKinds -> {EmptySlot} \cup Generations]
    /\ sends \in Seq(Generations) /\ depth \in 0 .. SendCapacity
    /\ port \in Seq([kind: {"Commands", "Stop", "Connect", "Recv", "Send"},
                     gen: Generations,
                     outcome: {"None", "Done", "Failed", "Packet", "Partial", "Ended"}])
    /\ kernel \subseteq [op: {"Connect", "Recv", "Send"}, gen: Generations]
    /\ tp \in TransportState
    /\ store \in EventStore
    /\ refused \in 0 .. MaxPostFailures

\* Every place taken in the send pipeline is a send in the queue, the send the
\* kernel holds, or the one the caller is about to queue: no path through the
\* worker or a failed call loses or returns one twice.
SendSlotsConserved ==
    depth = Len(sends) + ReleasedSends(tp)
            + (IF caller.kind = "Send" /\ ~caller.accepted THEN 1 ELSE 0)

\* The channel and the transport stay within their records, sends included.
ChannelIsSound == TypeOK /\ SendSlotsConserved

\* The kernel writes into, and the dispatcher reads, an I/O context inside the
\* connection: no operation outlives the connection it was posted on.
NoIoOnFreedConnection ==
    /\ \A o \in kernel : o.gen = tp.conn
    /\ \A i \in DOMAIN port :
          port[i].kind \in {"Connect", "Recv", "Send"} => port[i].gen = tp.conn

WakeComing ==
    \/ \E i \in DOMAIN port : port[i].kind = "Commands"
    \/ worker.inDrain
    \/ caller.pc \in {"Publish", "Commit"}

\* The caller is on its way to publish a command that discards the sends.
DiscardComing ==
    caller.pc \in {"CloseSends", "Admit"} /\ caller.kind \in {"Disconnect", "Shutdown"}

\* The connection may send, has nothing in the kernel and a send in the queue.
SendWaits ==
    /\ tp.conn # 0 /\ ~tp.disconnecting /\ ~tp.send
    /\ \E i \in DOMAIN sends : sends[i] = tp.conn

\* As long as the port has refused no wake-up, a published command will be looked
\* at, and so will a send the connection could post, unless it is about to be
\* discarded.
NoStrandedCommand ==
    (IsRunning /\ worker.pc # "Exit" /\ ~chan.wakeFailure /\ ~tp.stopPosted)
    => /\ (\E k \in CommandKinds : slots[k] # EmptySlot) => WakeComing
       /\ SendWaits => WakeComing \/ DiscardComing \/ worker.pc # "Pump"

Resting ==
    /\ worker.pc = "Pump" /\ port = <<>> /\ caller.pc \in {"Idle", "Join"}
    /\ ~chan.wakeFailure

\* Not so: a send pushed after the disconnect discarded the queue stays, and keeps
\* its place, when the dying connection's own send is still in the kernel.
StaleSendIsDropped == Resting /\ ~tp.send => sends = <<>>

\* A disconnect dropped as older than the worker's attempt (the scan passed the
\* Connect slot before that command came) whose attempt then fails at once.
LostDisconnect ==
    chan.state = "Disconnecting" /\ tp.life.state = "Idle" /\ tp.life.outcome = "Failed"

\* A Connect that found the one before still in the slot was refused, but counts.
LostConnect == chan.state = "Idle" /\ chan.gen > tp.life.gen

\* When both threads rest and no connection attempt or disconnect is under way,
\* the two records of the connection agree, but for a lost command.
RestingAgreement ==
    Resting /\ ~tp.disconnecting /\ ~tp.connectIo
    => \/ chan.gen = tp.life.gen /\ chan.state = tp.life.state
       \/ chan.gen = tp.life.gen /\ LostDisconnect
       \/ LostConnect

\* NrClient::Shutdown joins a worker that waits for its packets.
JoinsSleepingWorker == caller.pc = "Join" /\ worker.pc = "Pump" /\ port = <<>>

\* NrClient::Shutdown waits for operations of the kernel only: the worker it
\* joins has no packet to come but theirs.  Not so once the port has refused a
\* wake-up.
ShutdownNotStranded ==
    JoinsSleepingWorker => kernel # {} \/ chan.wakeFailure

\* As long as the port has refused no wake-up, whoever handed work to the other
\* thread, or waits for it, gets it done.
NothingStranded == NoStrandedCommand /\ ShutdownNotStranded

\* Not so: after a refused wake-up the state says Shutdown, SubmitShutdown believes
\* it, and NrClient::Shutdown joins a worker that nobody has told to stop.
ShutdownReturns == JoinsSleepingWorker => kernel # {}

\* The worker's own records fit together whatever the caller does: a routed
\* completion finds its connection, a signal finds that the store waits for it,
\* and the lifecycle accepts every success, disconnect and commit the transport
\* reports.  A failed connect it refuses only once the client is shut down and the
\* Stop that ends the worker is posted.  The statuses not named here are those of
\* failures that the code provides for.
TransportNeverRefused ==
    /\ worker.status \notin {"ConnectCompletion", "RecvCompletion", "SendCompletion",
                             "ConnectSuccess", "Disconnected", "Disconnect",
                             "EventSpace", "Commit"}
    /\ worker.status = "ConnectFailure"
       => tp.life.state = "Shutdown" /\ tp.shutdown /\ tp.stopPosted

\* The end of an attempt is recorded in the channel of that attempt: a newer one
\* is not taken back to Idle.
StaleRecordChangesNothing ==
    worker.event.gen # chan.gen
    => /\ worker.pc = "FailedIdle" => chan.state # "Connecting"
       /\ worker.pc = "DisconnectedIdle" => chan.state \notin {"Connected", "Disconnecting"}

\* A shutdown requested while the connection is being made waits for the
\* pending connect and stops the worker; it uses no connection it released.
ShutdownWhileConnectingIsClean == ~Crashed

=============================================================================
