----------------------- MODULE ClientRuntime_invariant -----------------------
(***************************************************************************)
(* What ClientRuntime_proofs shows about ClientRuntime: the definitions of *)
(* its three inductive invariants, each on top of the one before.          *)
(*                                                                         *)
(* IInv has one part per group of variables; the ones that matter relate   *)
(* the operations the kernel and the port hold to the flags of the         *)
(* connection (OpsAccounted), the connection to the lifecycle record and   *)
(* the disconnect under way (ConnectionSound), and both to the place where *)
(* the worker is (WorkerFits).                                             *)
(*                                                                         *)
(* Promises says what is still to come: a drain that looks at a published  *)
(* command, the Stop that ends the worker, the signal for a free place in  *)
(* the event queue.  RefusedPart, on top of it, says when the lifecycle    *)
(* refuses a failed connect.                                               *)
(*                                                                         *)
(* Agreement relates the channel to the transport: the attempts the two    *)
(* count, what the channel's state is when they are of one attempt, and    *)
(* the sends that are queued.                                              *)
(***************************************************************************)
EXTENDS ClientRuntime

IoOps == {"Connect", "Recv", "Send"}

PortKinds == {"Commands", "Stop"} \cup IoOps

Packets == [kind: PortKinds, gen: Generations,
            outcome: {"None", "Done", "Failed", "Packet", "Partial", "Ended"}]

Operations == [op: IoOps, gen: Generations]

\* What the port holds and the kernel holds.
Kinds(p) == {p[i].kind : i \in DOMAIN p}

Held(k, op) == \E o \in k : o.op = op

Pending(t, op) == CASE op = "Connect" -> t.connectIo
                    [] op = "Recv" -> t.recv
                    [] op = "Send" -> t.send

\* No two packets of a port are of one kind.
Distinct(p) == \A i, j \in DOMAIN p : p[i].kind = p[j].kind => i = j

\* The completions in a port are of one attempt.
OfAttempt(p, gen) == \A i \in DOMAIN p : p[i].kind \in IoOps => p[i].gen = gen

\* A pending operation is in the kernel or in the port, once.
OpsAccounted(t, k, p) ==
    /\ \A o \in k : o.gen = t.conn
    /\ OfAttempt(p, t.conn)
    /\ Distinct(p)
    /\ \A op \in IoOps : Pending(t, op) <=> (Held(k, op) \/ op \in Kinds(p))
    /\ \A op \in IoOps : ~ (Held(k, op) /\ op \in Kinds(p))
    /\ "Stop" \in Kinds(p) => t.stopPosted

-----------------------------------------------------------------------------
CallerPcs == {"Idle", "Generation", "Admit", "Publish", "Commit", "CloseSends",
              "ClearSendGen", "AdvancePos", "CheckPending", "Signal", "ForgetWake",
              "Join", "Closed"}

CallerStates == [pc: CallerPcs, kind: CommandKinds \cup {"None", "Send"},
                 gen: Generations, ticket: Gate!Tickets, accepted: BOOLEAN]

EventPcs == {"Publish", "Push", "Defer", "Published"}

WorkerPcs == EventPcs \cup
             {"Pump", "Scan", "ConsumeSend", "CompleteDrain", "ConnectShutdown",
              "ConnectOutcome", "PublishPacket", "StartNextSend", "Finish",
              "Promote", "RecordConnected", "OpenSends", "RecheckConnected",
              "RecordFailed", "FailedIdle", "RecordDisconnected",
              "DisconnectedIdle", "Exit", "Stopped", "Crashed"}

\* The failures a handler may report; the others are shown never to occur.
Statuses == {"Ok", "Connect", "ConnectFailure", "PendingSlot", "PushFull", "Post",
             "PromoteFull", "RecordConnected", "RecordFailed", "RecordDisconnected",
             "DisconnectAfterShutdown", "EventSpace"}

WorkerStates == [pc: WorkerPcs, inDrain: BOOLEAN, drained: Nat, scan: 0 .. 4,
                 ok: BOOLEAN,
                 event: [kind: EventKinds \cup {"None"}, gen: Generations],
                 status: Statuses]

\* The worker is handing an event of the lifecycle to the store.
Publishing(w) == w.pc \in EventPcs \/ (w.pc = "Promote" /\ w.event.kind # "None")

\* The worker has failed and is on its way out.
Failing(w) ==
    w.pc \in {"Exit", "Stopped"} \/ (w.pc = "CompleteDrain" /\ w.status # "Ok")

Draining(w) == w.inDrain /\ w.pc # "Exit"

CallerFits(c, gen) ==
    /\ c.pc = "Idle" => c.kind = "None" /\ ~ c.accepted
    /\ c.pc \in {"AdvancePos", "CheckPending"} => c.kind = "None"
    /\ c.pc = "CloseSends" => c.kind \in {"Disconnect", "Shutdown"}
    /\ c.pc \in {"Signal", "ForgetWake"} => c.kind = "EventSpace"
    /\ c.pc = "Generation" => c.kind = "Connect" /\ gen < MaxAttempts
    /\ c.kind = "Send" => c.pc \in {"Admit", "Publish", "Commit"}
    /\ c.kind = "Send" /\ c.accepted => c.pc = "Commit"
    /\ c.pc \in {"Admit", "Publish", "Commit"} => c.kind # "None"

\* The connection, the lifecycle and the disconnect under way go together.
LiveConnection(t, w) ==
    /\ t.life.gen = t.conn
    /\ t.life.state \in {"Connecting", "Connected", "Disconnecting"}
    /\ t.life.outcome # "Failed" /\ ~ t.life.ended /\ ~ t.life.endCommitted
    /\ t.life.outcome = "None" => ~ t.life.outcomeCommitted
    /\ (t.life.outcome = "Connected" /\ ~ t.life.outcomeCommitted)
         => (Publishing(w) /\ w.event.kind = "Connected") \/ Failing(w)
    /\ t.life.state = "Connecting"
         => /\ t.life.outcome = "None"
            /\ \/ t.connectIo \/ t.shutdown
               \/ w.pc \in {"ConnectShutdown", "ConnectOutcome"}
    /\ t.life.state = "Connected" => t.life.outcome = "Connected"
    /\ t.life.state = "Disconnecting" => t.disconnecting
    /\ t.disconnecting => t.shutdown \/ t.life.state = "Disconnecting"
    /\ t.shutdown => t.disconnecting

NoConnection(t) ==
    /\ ~ t.closed /\ ~ t.recv /\ ~ t.send /\ ~ t.connectIo
    /\ t.shutdown => t.life.state = "Shutdown"

ConnectionSound(t, w) ==
    /\ t.conn # 0 => LiveConnection(t, w)
    /\ t.conn = 0 => NoConnection(t)
    /\ t.life.state = "Shutdown" => t.life.outcome = "None" /\ ~ t.life.ended /\ t.shutdown
    /\ t.connectIo => ~ t.recv /\ ~ t.send /\ t.life.outcome = "None"
    /\ t.active = t.send

\* What the worker keeps for itself.
WorkerLocal(w) ==
    /\ w.pc \in {"Pump", "Scan"} => w.event = NoEvent /\ w.status = "Ok"
    /\ w.pc \in {"Scan", "CompleteDrain"} => w.inDrain
    /\ w.inDrain => w.pc \notin {"Pump", "Stopped", "Crashed", "ConnectShutdown",
                                 "ConnectOutcome"}
    /\ w.pc = "Promote" => w.event = NoEvent \/ w.event.kind # "None"
    /\ w.pc = "Scan" => w.scan # 0

\* A disconnect under way waits for the kernel, or has its end to be published.
DisconnectGoesOn(t, w) ==
    t.disconnecting =>
      IF t.conn = 0
      THEN Publishing(w) \/ w.pc \in {"RecordDisconnected", "DisconnectedIdle"}
           \/ Failing(w)
      ELSE w.pc \in {"Finish", "ConnectShutdown", "ConnectOutcome"} \/ HasPendingIo(t)

\* Where the worker is says what its transport is like.
PlaceFits(t, w) ==
    /\ w.pc \in {"ConnectShutdown", "ConnectOutcome"} =>
         /\ ~ t.connectIo /\ ~ t.recv /\ ~ t.send /\ t.life.outcome = "None"
         /\ t.conn = 0 => /\ w.pc = "ConnectOutcome" /\ ~ t.disconnecting
                          /\ t.life.state = "Shutdown"
    /\ w.pc = "Finish" => t.conn # 0 /\ t.disconnecting
    /\ w.pc = "PublishPacket" =>
         t.conn # 0 /\ ~ t.disconnecting /\ ~ t.recv /\ ~ t.connectIo
    /\ w.pc = "StartNextSend" =>
         t.conn # 0 /\ ~ t.disconnecting /\ ~ t.send /\ ~ t.connectIo
    /\ Publishing(w) =>
         /\ w.event.kind \in {"Connected", "Failed", "Disconnected"}
         /\ Life!NextPendingKind(t.life) = w.event.kind
         /\ w.event.kind = "Connected" <=> t.conn # 0
         /\ w.event.kind \in {"Connected", "Failed"} => ~ t.disconnecting
         /\ w.event.kind = "Connected" => ~ t.connectIo
    /\ w.pc \in {"RecordFailed", "FailedIdle", "RecordDisconnected",
                 "DisconnectedIdle"} => t.conn = 0

WorkerFits(t, w) == WorkerLocal(w) /\ DisconnectGoesOn(t, w) /\ PlaceFits(t, w)

\* The schedule gate, the producer in it, the drain and the posted packet.
GateFits(g, c, draining, posted, failed) ==
    /\ g.inFlight = 1 <=> c.pc \in {"Publish", "Commit"}
    /\ c.pc \in {"Publish", "Commit"} =>
         /\ c.ticket # "Rejected" /\ g.phase # "Idle"
         /\ c.ticket = "RequiresNewPermit" <=> g.phase = "Admitting"
    /\ g.phase \in {"Admitting", "DrainCompleting"} => g.inFlight = 1
    /\ g.phase = "Draining" <=> draining
    /\ posted => g.phase = "Scheduled"
    /\ g.phase = "Scheduled" => posted \/ failed
    /\ g.phase \in {"Idle", "Admitting", "Scheduled"} => ~ g.resched /\ ~ g.pending
    /\ g.phase = "Draining" => ~ g.resched

-----------------------------------------------------------------------------
(***************************************************************************)
(* The inductive invariant.                                                *)
(***************************************************************************)
ChannelPart == chan \in ChannelState /\ refused \in 0 .. MaxPostFailures

SlotsPart == slots \in [CommandKinds -> {EmptySlot} \cup Generations]

StorePart == store \in EventStore

CallerPart == caller \in CallerStates /\ CallerFits(caller, chan.gen)

SendsPart ==
    /\ sends \in Seq(Generations) /\ depth \in Nat /\ depth <= SendCapacity
    /\ SendSlotsConserved

OpsPart ==
    /\ port \in Seq(Packets) /\ kernel \in SUBSET Operations
    /\ OpsAccounted(tp, kernel, port)

TransportPart ==
    /\ tp \in TransportState /\ worker \in WorkerStates
    /\ ConnectionSound(tp, worker) /\ WorkerFits(tp, worker)

GatePart ==
    /\ gate \in Gate!GateWord
    /\ GateFits(gate, caller, Draining(worker), "Commands" \in Kinds(port),
                chan.wakeFailure)

IInv ==
    /\ ChannelPart /\ SlotsPart /\ StorePart /\ CallerPart /\ SendsPart
    /\ OpsPart /\ TransportPart /\ GatePart

\* The worker goes on to publish an event.
ToPublish(w, kind, gen) == [w EXCEPT !.pc = "Publish", !.event = Event(kind, gen)]

\* The worker is not between two steps that belong together.
Settled(w) ==
    ~ Publishing(w) /\ ~ Failing(w) /\ w.pc \notin {"ConnectShutdown", "ConnectOutcome"}

\* The connection, its operations and stopPosted are as they were.
SameOps(t, u) ==
    /\ u.conn = t.conn /\ u.recv = t.recv /\ u.send = t.send
    /\ u.connectIo = t.connectIo /\ u.active = t.active
    /\ u.stopPosted = t.stopPosted

\* What a disconnect that has begun leaves of the transport.
Closing(t, u) ==
    /\ SameOps(t, u) /\ u \in TransportState
    /\ u.life.state = "Disconnecting" /\ u.life.gen = t.life.gen
    /\ u.life.outcome = t.life.outcome
    /\ u.life.outcomeCommitted = t.life.outcomeCommitted
    /\ u.life.ended = t.life.ended /\ u.life.endCommitted = t.life.endCommitted
    /\ u.disconnecting /\ u.shutdown = t.shutdown

Closed(t) == [t EXCEPT !.life = Life!RequestDisconnect(t.life).life,
                       !.disconnecting = TRUE, !.closed = TRUE]

\* The producer in flight leaves: what it makes of the gate's word g.
AdmissionOver(g, accepted, word, wakes) ==
    /\ word \in Gate!GateWord /\ word.inFlight = 0
    /\ wakes => word.phase = "Scheduled" /\ g.phase # "Scheduled"
    /\ ~ wakes => (word.phase = "Scheduled" <=> g.phase = "Scheduled")
    /\ word.phase = "Draining" <=> g.phase = "Draining"
    /\ word.phase \in {"Idle", "Scheduled", "Draining"}
    /\ word.phase \in {"Idle", "Scheduled"} => ~ word.resched /\ ~ word.pending
    /\ word.phase = "Draining" => word.resched = g.resched
    /\ accepted => word.phase # "Idle"
    /\ word.phase = "Draining" => (word.pending <=> g.pending \/ accepted)
    /\ g.phase = "DrainCompleting" /\ (g.pending \/ g.resched) => word.phase = "Scheduled"

\* The channel after an admission whose wake-up was refused.
Unwoken(accepted, kind) ==
    LET c == RecordWakeFailure(chan) IN IF accepted THEN c ELSE ChannelAfterRefusal(c, kind)

\* The drain is over: what it makes of the gate's word g.
DrainOver(g, again, word, wakes) ==
    /\ word \in Gate!GateWord /\ word.inFlight = g.inFlight
    /\ word.phase \in {"DrainCompleting", "Scheduled", "Idle"}
    /\ word.phase = "DrainCompleting" <=> g.inFlight = 1
    /\ wakes <=> word.phase = "Scheduled"
    /\ word.phase # "DrainCompleting" =>
         /\ ~ word.pending /\ ~ word.resched
         /\ word.phase = "Scheduled" <=> g.pending \/ g.resched \/ again
    /\ word.phase = "DrainCompleting" =>
         /\ word.pending = g.pending
         /\ word.resched = (g.resched \/ again)

\* The places where the worker writes the channel; only the first three may find
\* a connection.
RecordPcs == {"RecordConnected", "OpenSends", "RecheckConnected", "RecordFailed",
              "FailedIdle", "RecordDisconnected", "DisconnectedIdle"}

EndPcs == {"RecordFailed", "FailedIdle", "RecordDisconnected", "DisconnectedIdle"}

\* The disconnect, if one was under way, is over.
Over(t) == [t EXCEPT !.disconnecting = FALSE]

-----------------------------------------------------------------------------

(***************************************************************************)
(* Promises: what keeps a command, a shutdown and an event that waits for  *)
(* a place from being forgotten, while the worker is not on its way out.   *)
(***************************************************************************)
Lost(w) == w.pc = "Crashed" \/ Failing(w)

\* The drain w is in will look at slot i, or asks for another.
StillToScan(w, i) ==
    /\ w.inDrain /\ w.pc # "ConsumeSend"
    /\ w.pc = "Scan" => w.scan <= i
    /\ w.pc = "CompleteDrain" => w.drained = DrainBudget

\* The gate, or the producer in it, will have the actor drained again.
Promised == gate.pending \/ gate.resched \/ (caller.pc = "Commit" /\ caller.accepted)

\* A command in a slot will be looked at.
CommandsPart ==
    ~ Lost(worker) /\ ~ chan.wakeFailure =>
      \A i \in 1 .. 4 :
         slots[SlotOrder[i]] # EmptySlot =>
           Promised \/ gate.phase = "Scheduled" \/ StillToScan(worker, i)

\* The worker has ended, or a wake was refused and no drain will follow.
NoDrainToCome ==
    \/ worker.pc \in {"Exit", "Stopped", "Crashed"}
    \/ gate.phase = "Scheduled" /\ "Commands" \notin Kinds(port)

SignalsSpace ==
    caller.pc = "Signal" \/ (caller.kind = "EventSpace" /\ caller.pc \in {"Admit", "Publish"})

\* The signal for a free place is in its slot only while the store says that it
\* was given, and the caller forgets it only when it is not in the slot.
SpaceKnown ==
    /\ slots["EventSpace"] # EmptySlot => store.wake
    /\ SignalsSpace => store.wake /\ slots["EventSpace"] = EmptySlot
    /\ caller.pc = "ForgetWake" => slots["EventSpace"] = EmptySlot
    /\ caller.pc # "Closed"

WakePart == worker.status # "EventSpace" /\ (NoDrainToCome \/ SpaceKnown)

Calling(kind) ==
    caller.kind = kind /\ caller.pc \in {"CloseSends", "Admit", "Publish", "Commit"}

\* A caller that waits for the worker has left it a shutdown, which the worker
\* keeps in mind until it has posted Stop.
ShutdownPart ==
    /\ chan.state = "Shutdown" =>
         chan.wakeFailure \/ Calling("Shutdown") \/ caller.pc \in {"Join", "Closed"}
    /\ \/ caller.pc = "Join"
       \/ caller.kind = "Shutdown" /\ caller.pc = "Commit" /\ caller.accepted
       => \/ chan.wakeFailure \/ Lost(worker)
          \/ slots["Shutdown"] # EmptySlot \/ tp.shutdown
    /\ tp.conn = 0 /\ tp.shutdown => tp.stopPosted \/ Lost(worker)
    /\ tp.stopPosted => "Stop" \in Kinds(port) \/ Lost(worker)

StartPart == worker.pc = "StartNextSend" => ~ worker.inDrain

Promises == CommandsPart /\ WakePart /\ ShutdownPart /\ StartPart

\* The worker w reports a failed connect that the lifecycle refused: the client is
\* shut down, and the worker on its way out.
RefusedConnect(w, t) ==
    Failing(w) /\ t.life.state = "Shutdown" /\ t.shutdown /\ t.stopPosted

RefusedPart == worker.status = "ConnectFailure" => RefusedConnect(worker, tp)

-----------------------------------------------------------------------------
\* What a step of a handler does to the worker, as far as promises go.
Onward(w, v) ==
    /\ \/ v.status = w.status \/ v.status \notin {"EventSpace", "ConnectFailure"}
       \/ v.status = "ConnectFailure" /\ RefusedConnect(v, tp')
    /\ ~ Lost(v) => \A i \in 1 .. 4 : StillToScan(w, i) => StillToScan(v, i)
    /\ v.pc = "StartNextSend" => v = w \/ ~ v.inDrain

\* What becomes of the shutdown in such a step.
Settles ==
    /\ tp.shutdown => tp'.shutdown
    /\ tp.stopPosted => tp'.stopPosted
    /\ slots["Shutdown"] # EmptySlot => slots'["Shutdown"] # EmptySlot \/ tp'.shutdown
    /\ tp'.conn = 0 /\ tp'.shutdown
         => tp'.stopPosted \/ (tp.conn = 0 /\ tp.shutdown) \/ Lost(worker')
    /\ tp'.stopPosted
         => \/ "Stop" \in Kinds(port') \/ Lost(worker')
            \/ tp.stopPosted /\ ("Stop" \in Kinds(port) => "Stop" \in Kinds(port'))

\* A step of the worker in between taking the gate and giving it back.
Round ==
    /\ UNCHANGED <<gate, caller>>
    /\ chan'.wakeFailure = chan.wakeFailure
    /\ chan'.state = "Shutdown" => chan.state = "Shutdown"
    /\ \A k \in CommandKinds : slots'[k] \in {slots[k], EmptySlot}
    /\ "Commands" \in Kinds(port') => "Commands" \in Kinds(port)
    /\ worker.pc # "Exit" /\ ~ Lost(worker) /\ Onward(worker, worker')
    /\ Settles

Turn == Round /\ store'.wake = store.wake

-----------------------------------------------------------------------------
\* BeginDisconnect, CompleteShutdown, RecordConnectFailure and RepostRecv, as
\* far as promises go; each is called with the transport t a handler has made.
SameEnd(t, u) ==
    u.conn = t.conn /\ u.shutdown = t.shutdown /\ u.stopPosted = t.stopPosted

-----------------------------------------------------------------------------
(***************************************************************************)
(* Agreement: the channel and the transport are about the same attempt, or *)
(* a command that makes them so is on its way.                             *)
(***************************************************************************)
\* A Connect that has its number and is not in its slot, or is not to have one.
ConnectAhead(c) ==
    c.kind = "Connect" /\ (c.pc \in {"Admit", "Publish"} \/ (c.pc = "Commit" /\ ~ c.accepted))

ConnectUnderWay(c) == (c.kind = "Connect" /\ c.pc = "Generation") \/ ConnectAhead(c)

\* The attempts the channel counts, and the one of the Connect in its slot.
AttemptsPart ==
    /\ tp.life.gen <= chan.gen
    /\ slots["Connect"] # EmptySlot =>
         tp.life.gen < slots["Connect"] /\ slots["Connect"] <= chan.gen
    /\ ConnectAhead(caller) =>
         /\ tp.life.gen < chan.gen
         /\ slots["Connect"] # EmptySlot => slots["Connect"] < chan.gen

\* An attempt the worker has not begun has its Connect in the slot, or on its
\* way there, or none has been accepted.
AheadPart ==
    LET known == ConnectUnderWay(caller) \/ chan.state \in {"Idle", "Shutdown"}
    IN  /\ tp.life.gen < chan.gen => slots["Connect"] # EmptySlot \/ known
        /\ slots["Connect"] # EmptySlot => slots["Connect"] = chan.gen \/ known

OpeningPcs == {"RecordConnected", "OpenSends", "RecheckConnected"}

EndingPcs == {"RecordFailed", "FailedIdle", "RecordDisconnected", "DisconnectedIdle"}

\* The event the worker reports is of the transport's attempt, and tells how that ended.
EventPart ==
    /\ Publishing(worker) \/ worker.pc \in OpeningPcs \cup EndingPcs
         => worker.event.gen = tp.life.gen
    /\ worker.pc \in OpeningPcs =>
         tp.conn # 0 /\ ~ tp.disconnecting /\ tp.life.state = "Connected"
    /\ worker.pc \in {"RecordFailed", "FailedIdle"} => tp.life.outcome = "Failed"

\* An attempt that sends, or may, has been connected.
Opened(t, gen) ==
    gen <= t.life.gen
    /\ (t.conn # 0 /\ gen = t.conn /\ ~ t.disconnecting => t.life.state = "Connected")

OpenedPart ==
    /\ Opened(tp, chan.sendGen)
    /\ caller.kind = "Send" => Opened(tp, caller.gen)
    /\ \A i \in DOMAIN sends : Opened(tp, sends[i])

\* A disconnect of the transport's attempt is in its slot, or on its way there.
DisconnectAsked ==
    \/ slots["Disconnect"] = tp.life.gen
    \/ /\ caller.kind = "Disconnect"
       /\ \/ caller.pc \in {"CloseSends", "Admit", "Publish"}
          \/ caller.pc = "Commit" /\ ~ caller.accepted

Live(t) == t.conn # 0 /\ ~ t.disconnecting

Reporting(w) == Publishing(w) \/ w.pc = "RecordConnected"

\* What the channel's state is while the two are about one attempt.
StatePart ==
    chan.gen = tp.life.gen =>
      /\ Live(tp) /\ tp.life.state = "Connected" /\ ~ Reporting(worker)
           => chan.state \in {"Connected", "Disconnecting", "Shutdown"}
      /\ Live(tp) /\ ~ tp.connectIo /\ chan.state = "Disconnecting" => DisconnectAsked
      /\ tp.conn = 0 /\ tp.life.state = "Idle" /\ worker.pc \notin EndingPcs
           => \/ chan.state \in {"Idle", "Shutdown"} \/ caller.pc = "Generation"
              \/ chan.state = "Disconnecting" /\ tp.life.outcome = "Failed"

\* A lifecycle that is neither idle nor shut down has a connection or an event.
EndPart ==
    tp.conn = 0 /\ tp.life.state \notin {"Idle", "Shutdown"} => Publishing(worker)

\* The connection's attempt has a send in the queue.
Queued == Live(tp) /\ \E i \in DOMAIN sends : sends[i] = tp.conn

StillToSend(w) ==
    \/ w.inDrain /\ (w.pc = "CompleteDrain" => w.drained = DrainBudget)
    \/ w.pc \in {"StartNextSend", "ConsumeSend"}

Looked == Promised \/ gate.phase = "Scheduled" \/ StillToSend(worker)

\* A queued send is of the channel's attempt, and will be looked at as long as
\* no command that discards it comes first.
QueuedPart ==
    Queued =>
      /\ \/ slots["Connect"] # EmptySlot
         \/ /\ chan.gen = tp.life.gen /\ caller.kind # "Connect"
            /\ chan.state \in {"Connected", "Disconnecting", "Shutdown"}
      /\ ~ tp.send /\ chan.gen = tp.life.gen /\ chan.state = "Connected" => Looked

Agreement ==
    ~ Lost(worker) /\ ~ chan.wakeFailure =>
      /\ AttemptsPart /\ AheadPart /\ EventPart /\ OpenedPart
      /\ StatePart /\ EndPart /\ QueuedPart

-----------------------------------------------------------------------------
\* The steps of the worker that leave the channel alone.  What such a step owes,
\* unless the worker fails in it.
SendsLeft == \A j \in DOMAIN sends' : \E i \in DOMAIN sends : sends'[j] = sends[i]

LiveOn ==
    Live(tp') =>
      /\ Live(tp) /\ tp'.conn = tp.conn
      /\ tp.life.state = "Connected" => tp'.life.state = "Connected"
      /\ tp'.life.state = "Connected" /\ ~ Reporting(worker')
           => tp.life.state = "Connected" /\ ~ Reporting(worker)
      /\ ~ tp'.connectIo => ~ tp.connectIo \/ chan.state # "Disconnecting"
      /\ slots["Disconnect"] = tp.life.gen => slots'["Disconnect"] = tp.life.gen
      /\ Queued' /\ ~ tp'.send /\ chan.state = "Connected"
           => Looked' \/ (~ tp.send /\ (Looked => Looked'))

EndOn ==
    tp'.conn = 0 =>
      \/ tp'.life.state = "Shutdown"
      \/ tp'.life.state # "Idle" /\ Publishing(worker')
      \/ tp'.life.state = "Idle" /\ worker'.pc \in EndingPcs
      \/ /\ tp.conn = 0 /\ tp'.life = tp.life
         /\ Publishing(worker) => Publishing(worker')
         /\ worker.pc \in EndingPcs => worker'.pc \in EndingPcs

Calm ==
    /\ UNCHANGED <<chan, caller>> /\ ~ Lost(worker)
    /\ slots'["Connect"] = slots["Connect"]
    /\ ~ Lost(worker') =>
         /\ tp'.life.gen = tp.life.gen
         /\ EventPart' /\ SendsLeft /\ LiveOn /\ EndOn

-----------------------------------------------------------------------------
Plain(w) == ~ Publishing(w) /\ w.pc \notin OpeningPcs \cup EndingPcs

\* The worker goes from w on to v, with the transport as it is.
Still(w, v) ==
    /\ Reporting(w) => Reporting(v)
    /\ Publishing(w) => Publishing(v)
    /\ w.pc \in EndingPcs => v.pc \in EndingPcs

-----------------------------------------------------------------------------
\* What a handler does to the connection.
SameLink(t, u) ==
    /\ u.conn = t.conn /\ u.life = t.life /\ u.connectIo = t.connectIo
    /\ u.disconnecting = t.disconnecting /\ u.send = t.send

\* The connection is being disconnected.
Dropped ==
    /\ tp'.conn # 0 /\ tp'.disconnecting /\ tp'.life.gen = tp.life.gen
    /\ SendsLeft /\ Plain(worker')

-----------------------------------------------------------------------------
\* The steps of the caller.  Most leave the slots alone and move the channel on
\* within the attempt.
ConnectKnown == ConnectUnderWay(caller) \/ chan.state \in {"Idle", "Shutdown"}

Mild ==
    /\ UNCHANGED <<slots, sends, tp, worker>> /\ chan'.gen = chan.gen
    /\ ConnectAhead(caller') => ConnectAhead(caller)
    /\ ConnectKnown => ConnectKnown'
    /\ caller'.kind = "Connect" => caller.kind = "Connect"
    /\ Opened(tp, chan.sendGen) => Opened(tp, chan'.sendGen)
    /\ Opened(tp, chan.sendGen) /\ (caller.kind = "Send" => Opened(tp, caller.gen))
         => (caller'.kind = "Send" => Opened(tp, caller'.gen))
    /\ chan'.state \in {chan.state, "Disconnecting", "Shutdown"}
    /\ chan'.state = "Disconnecting" =>
         DisconnectAsked' \/ (chan.state = "Disconnecting" /\ ~ DisconnectAsked)
    /\ \/ chan'.state = "Shutdown"
       \/ caller.pc # "Generation" /\ chan'.state = chan.state
       \/ caller.pc # "Generation" /\ chan.state \in {"Connecting", "Connected"}
    /\ chan'.state = "Connected" => (Looked => Looked')

=============================================================================
