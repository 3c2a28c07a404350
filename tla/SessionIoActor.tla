--------------------------- MODULE SessionIoActor ---------------------------
(***************************************************************************)
(* NrSessionIoActor: one accepted session, its socket, its two mailbox     *)
(* lanes and the run of its actor, from BootstrapAcceptedSessionActor to   *)
(* the end of its registry entry.  The kernel holds at most one receive    *)
(* and one send; each ends as a completion that an I/O thread enqueues.    *)
(* The World sends and may ask for the close.                              *)
(*                                                                         *)
(* Enqueue is one step here and the schedule gate is what                  *)
(* SessionActorScheduler shows it to be: a mail enqueued outside a drain   *)
(* schedules the actor, one enqueued during a drain is remembered.         *)
(* The handoff keeps the promise of SessionEventChannel.                   *)
(***************************************************************************)
EXTENDS Naturals, Sequences, FiniteSets

CONSTANTS MailboxCapacity,            \* events of each lane
          PendingSendQueueCapacity,   \* payloads waiting behind the send
          DrainBudget,                \* events per drain
          MaxSends,                   \* bound: sends the World submits
          MaxCloseCalls,              \* bound: closes the World asks for
          InputMayFail,               \* may received bytes be refused?
          AdmissionMayFail            \* may the scheduler be out of permits?

ASSUME SessionIoActorAssumption ==
    /\ MailboxCapacity \in Nat \ {0}
    /\ PendingSendQueueCapacity \in Nat \ {0}
    /\ DrainBudget \in Nat \ {0}
    /\ MaxSends \in Nat /\ MaxCloseCalls \in Nat
    /\ InputMayFail \in BOOLEAN /\ AdmissionMayFail \in BOOLEAN

VARIABLES actor,       \* the actor's own state, and the session it owns
          recvLane,    \* acceptRecvMailbox_
          sendLane,    \* sendMailbox_
          kernel,      \* which operations the kernel holds
          gate,        \* the schedule gate
          run,         \* the worker's run of the actor
          lifecycle,   \* the registry entry
          world,       \* the World's calls
          stopping     \* the scheduler was asked to stop

vars == <<actor, recvLane, sendLane, kernel, gate, run, lifecycle, world,
          stopping>>

\* recvContext and sendContext: the session holds a pending context.
\* recvIo and sendIo: pendingRecvIoCount_ and pendingSendIoCount_.
\* phase: what the handoff has recorded; Broken if it refused a fact.
ActorState == [closeRequested: BOOLEAN, socketOpen: BOOLEAN,
               channelOpen: BOOLEAN, postRecv: BOOLEAN,
               recvContext: BOOLEAN, sendContext: BOOLEAN,
               recvIo: 0 .. 1, sendIo: 0 .. 1,
               sendQueue: 0 .. PendingSendQueueCapacity,
               phase: {"Unknown", "Open", "Ended", "Broken"}]

RecvEvents == {"Accepted", "RecvBytes", "RecvEnded", "CloseRequested"}
SendEvents == {"SendRequested", "Sent", "PartlySent", "SendFailed"}

TypeOK ==
    /\ actor \in ActorState
    /\ recvLane \in Seq(RecvEvents) /\ Len(recvLane) <= MailboxCapacity
    /\ sendLane \in Seq(SendEvents) /\ Len(sendLane) <= MailboxCapacity
    /\ kernel \in [recv: BOOLEAN, send: BOOLEAN, lost: SUBSET {"recv", "send"}]
    /\ gate \in [phase: {"Idle", "Scheduled", "Draining"}, pending: BOOLEAN]
    /\ run \in [pc: {"Idle", "AcceptRecv", "Send", "EndDrain", "Finish"},
                drained: 0 .. DrainBudget, took: BOOLEAN, failed: BOOLEAN,
                rescheduled: BOOLEAN]
    /\ lifecycle \in {"Active", "AwaitingDrain", "ReadyToDeregister", "Erased",
                      "Shutdown"}
    /\ world \in [sends: 0 .. MaxSends, closes: 0 .. MaxCloseCalls,
                  sending: BOOLEAN]
    /\ stopping \in BOOLEAN

\* The session is registered and its Accepted event enqueued.
Init ==
    /\ actor = [closeRequested |-> FALSE, socketOpen |-> TRUE,
                channelOpen |-> TRUE, postRecv |-> FALSE,
                recvContext |-> FALSE, sendContext |-> FALSE,
                recvIo |-> 0, sendIo |-> 0, sendQueue |-> 0,
                phase |-> "Unknown"]
    /\ recvLane = <<"Accepted">> /\ sendLane = <<>>
    /\ kernel = [recv |-> FALSE, send |-> FALSE, lost |-> {}]
    /\ gate = [phase |-> "Scheduled", pending |-> FALSE]
    /\ run = [pc |-> "Idle", drained |-> 0, took |-> FALSE, failed |-> FALSE,
              rescheduled |-> FALSE]
    /\ lifecycle = "Active"
    /\ world = [sends |-> 0, closes |-> 0, sending |-> FALSE]
    /\ stopping = FALSE

-----------------------------------------------------------------------------
(***************************************************************************)
(* The handlers.  Each maps the actor's state x to the set of its possible *)
(* outcomes: the new state, whether the drain fails, and the operation the *)
(* kernel was given, if any.                                               *)
(***************************************************************************)
Ok(x)     == [actor |-> x, failed |-> FALSE, posted |-> "None"]
Failed(x) == [actor |-> x, failed |-> TRUE, posted |-> "None"]
Posted(x, operation) == [actor |-> x, failed |-> FALSE, posted |-> operation]

HasPendingIo(x) == x.recvIo # 0 \/ x.sendIo # 0

\* NrToWorldHandoff::RecordClosed as the actor sees it.
ClosedPhase(x, reason) ==
    CASE x.phase = "Open" -> "Ended"
      [] x.phase = "Unknown" /\ reason = "ServerStopping" -> "Unknown"
      [] OTHER -> "Broken"

\* Mutant: the World is not told.
RecordCloseRequested_Silent(x, reason) ==
    IF x.closeRequested THEN x
    ELSE [x EXCEPT !.closeRequested = TRUE, !.socketOpen = FALSE,
                   !.channelOpen = FALSE]

\* Mutant: the socket stays open until the actor is destroyed.
RecordCloseRequested_KeepsSocket(x, reason) ==
    IF x.closeRequested THEN x
    ELSE [x EXCEPT !.closeRequested = TRUE, !.channelOpen = FALSE,
                   !.phase = IF x.channelOpen THEN ClosedPhase(x, reason) ELSE @]

\* The first request counts: the socket is closed, which ends pending I/O, the
\* send channel too, and the World is told.
RecordCloseRequested(x, reason) ==
    IF x.closeRequested THEN x
    ELSE [x EXCEPT !.closeRequested = TRUE, !.socketOpen = FALSE,
                   !.channelOpen = FALSE,
                   !.phase = IF x.channelOpen THEN ClosedPhase(x, reason) ELSE @]

PostRequestedRecv(x) ==
    IF x.recvContext \/ ~x.socketOpen
    THEN {Failed(x)}
    ELSE {Posted([x EXCEPT !.recvContext = TRUE, !.recvIo = @ + 1], "recv"),
          Failed(RecordCloseRequested(x, "TransportError"))}

HandleAccepted(x) ==
    {[o EXCEPT !.actor = IF o.failed THEN RecordCloseRequested(@, "TransportError")
                                     ELSE @] :
        o \in PostRequestedRecv([x EXCEPT !.phase = "Open"])}

\* The bytes are parsed and published, unless a close is under way; a protocol
\* error, a full queue or buffer closes the session and fails the drain.
HandleRecvBytes(x) ==
    IF x.closeRequested THEN {Ok(x)}
    ELSE {Ok([x EXCEPT !.postRecv = TRUE])}
         \cup (IF InputMayFail THEN {Failed(RecordCloseRequested(x, "ProtocolError"))}
                               ELSE {})

HandleRecvCompleted(x, event) ==
    LET freed == [x EXCEPT !.recvContext = FALSE, !.recvIo = @ - 1]
    IN CASE ~x.recvContext -> {Failed(RecordCloseRequested(x, "TransportError"))}
         [] x.recvContext /\ event = "RecvBytes" -> HandleRecvBytes(freed)
         [] x.recvContext /\ event = "RecvEnded" ->
              {Ok(RecordCloseRequested(freed, "RemoteClosed"))}

\* PostSend gives the kernel x's next payload, or fails.
PostSend(x) ==
    LET taken == [x EXCEPT !.sendQueue = @ - 1]
    IN {o \in {Posted([taken EXCEPT !.sendContext = TRUE, !.sendIo = @ + 1], "send"),
               Failed(RecordCloseRequested(taken, "TransportError"))} :
           x.socketOpen \/ o.failed}

TryPostNextPendingSend(x) ==
    IF x.closeRequested \/ x.sendContext \/ x.sendQueue = 0
    THEN {Ok(x)}
    ELSE PostSend(x)

HandleSendRequested(x) ==
    CASE x.closeRequested -> {Ok(x)}
      [] ~x.closeRequested /\ x.sendQueue = PendingSendQueueCapacity ->
           {Ok(RecordCloseRequested(x, "SendPressure"))}
      [] OTHER -> TryPostNextPendingSend([x EXCEPT !.sendQueue = @ + 1])

\* Mutant: the second post of a context is not counted.
RepostPendingSend_Uncounted(x) ==
    {o \in {Posted(x, "send"),
            Failed(RecordCloseRequested([x EXCEPT !.sendContext = FALSE],
                                        "TransportError"))} :
        x.socketOpen \/ o.failed}

\* The rest of a partly sent payload is posted again, in the same context.
RepostPendingSend(x) ==
    {o \in {Posted([x EXCEPT !.sendIo = @ + 1], "send"),
            Failed(RecordCloseRequested([x EXCEPT !.sendContext = FALSE],
                                        "TransportError"))} :
        x.socketOpen \/ o.failed}

HandleSendCompleted(x, event) ==
    LET counted == [x EXCEPT !.sendIo = @ - 1]
        freed   == [counted EXCEPT !.sendContext = FALSE]
    IN CASE ~x.sendContext -> {Failed(RecordCloseRequested(x, "TransportError"))}
         [] x.sendContext /\ event = "SendFailed" ->
              {Ok(RecordCloseRequested(freed, "TransportError"))}
         [] x.sendContext /\ event # "SendFailed" /\ x.closeRequested -> {Ok(freed)}
         [] x.sendContext /\ event = "Sent" /\ ~x.closeRequested ->
              TryPostNextPendingSend(freed)
         [] x.sendContext /\ event = "PartlySent" /\ ~x.closeRequested ->
              RepostPendingSend(counted)

HandleRecvEvent(x, event) ==
    CASE event = "Accepted" -> HandleAccepted(x)
      [] event = "CloseRequested" -> {Ok(RecordCloseRequested(x, "Requested"))}
      [] OTHER -> HandleRecvCompleted(x, event)

HandleSendEvent(x, event) ==
    IF event = "SendRequested" THEN HandleSendRequested(x)
                               ELSE HandleSendCompleted(x, event)

-----------------------------------------------------------------------------
(***************************************************************************)
(* Enqueue: refused when the entry is gone, the scheduler stops, the lane  *)
(* is full, or an idle actor gets no runnable permit.                      *)
(***************************************************************************)
Registered == lifecycle \notin {"Erased", "Shutdown"}

MayEnqueue(lane) == Registered /\ ~stopping /\ Len(lane) < MailboxCapacity

MustEnqueue(lane) == MayEnqueue(lane) /\ ~(AdmissionMayFail /\ gate.phase = "Idle")

Notify == gate' = IF gate.phase = "Draining"
                  THEN [gate EXCEPT !.pending = TRUE]
                  ELSE [gate EXCEPT !.phase = "Scheduled"]

\* The kernel ends an operation, with any result while the socket is open or a
\* moment after, and an I/O thread enqueues the completion, or fails to.
RecvCompletes(event) ==
    /\ kernel.recv
    /\ \/ /\ MayEnqueue(recvLane)
          /\ recvLane' = Append(recvLane, event) /\ Notify
          /\ kernel' = [kernel EXCEPT !.recv = FALSE]
       \/ /\ ~MustEnqueue(recvLane)
          /\ kernel' = [kernel EXCEPT !.recv = FALSE, !.lost = @ \cup {"recv"}]
          /\ UNCHANGED <<recvLane, gate>>
    /\ UNCHANGED <<actor, sendLane, run, lifecycle, world, stopping>>

SendCompletes(event) ==
    /\ kernel.send
    /\ \/ /\ MayEnqueue(sendLane)
          /\ sendLane' = Append(sendLane, event) /\ Notify
          /\ kernel' = [kernel EXCEPT !.send = FALSE]
       \/ /\ ~MustEnqueue(sendLane)
          /\ kernel' = [kernel EXCEPT !.send = FALSE, !.lost = @ \cup {"send"}]
          /\ UNCHANGED <<sendLane, gate>>
    /\ UNCHANGED <<actor, recvLane, run, lifecycle, world, stopping>>

\* The World submits a payload: the channel is seen open, and a moment later the
\* event is enqueued.
SeesChannelOpen ==
    /\ actor.phase # "Unknown" /\ actor.channelOpen
    /\ ~world.sending /\ world.sends < MaxSends
    /\ world' = [world EXCEPT !.sending = TRUE, !.sends = @ + 1]
    /\ UNCHANGED <<actor, recvLane, sendLane, kernel, gate, run, lifecycle, stopping>>

EnqueueSendRequested ==
    /\ world.sending
    /\ world' = [world EXCEPT !.sending = FALSE]
    /\ \/ MayEnqueue(sendLane) /\ sendLane' = Append(sendLane, "SendRequested") /\ Notify
       \/ ~MustEnqueue(sendLane) /\ UNCHANGED <<sendLane, gate>>
    /\ UNCHANGED <<actor, recvLane, kernel, run, lifecycle, stopping>>

\* RequestSessionClose; a refused call is not a step.
RequestSessionClose ==
    /\ actor.phase # "Unknown" /\ world.closes < MaxCloseCalls
    /\ MayEnqueue(recvLane)
    /\ world' = [world EXCEPT !.closes = @ + 1]
    /\ recvLane' = Append(recvLane, "CloseRequested") /\ Notify
    /\ UNCHANGED <<actor, sendLane, kernel, run, lifecycle, stopping>>

-----------------------------------------------------------------------------
(***************************************************************************)
(* The run of the actor, by the one worker that owns its shard.            *)
(***************************************************************************)
BeginDrain ==
    /\ run.pc = "Idle" /\ Registered /\ gate.phase = "Scheduled"
    /\ gate' = [phase |-> "Draining", pending |-> FALSE]
    /\ run' = [pc |-> "AcceptRecv", drained |-> 0, took |-> FALSE,
               failed |-> FALSE, rescheduled |-> FALSE]
    /\ UNCHANGED <<actor, recvLane, sendLane, kernel, lifecycle, world, stopping>>

\* One event was handled with outcome o; next is where the drain goes on.
AfterEvent(o, next) ==
    /\ actor' = o.actor
    /\ kernel' = CASE o.posted = "recv" -> [kernel EXCEPT !.recv = TRUE]
                   [] o.posted = "send" -> [kernel EXCEPT !.send = TRUE]
                   [] OTHER -> kernel
    /\ run' = [run EXCEPT !.drained = @ + 1, !.failed = o.failed, !.took = TRUE,
                 !.pc = IF o.failed \/ run.drained + 1 = DrainBudget
                        THEN "EndDrain" ELSE next]

\* The lanes take turns, and a drain ends when both are found empty.
TryDrainOneAcceptRecvEvent ==
    /\ run.pc = "AcceptRecv"
    /\ \/ /\ recvLane # <<>>
          /\ \E o \in HandleRecvEvent(actor, Head(recvLane)) : AfterEvent(o, "Send")
          /\ recvLane' = Tail(recvLane)
       \/ /\ recvLane = <<>>
          /\ run' = [run EXCEPT !.took = FALSE, !.pc = "Send"]
          /\ UNCHANGED <<actor, kernel, recvLane>>
    /\ UNCHANGED <<sendLane, gate, lifecycle, world, stopping>>

TryDrainOneSendEvent ==
    /\ run.pc = "Send"
    /\ \/ /\ sendLane # <<>>
          /\ \E o \in HandleSendEvent(actor, Head(sendLane)) : AfterEvent(o, "AcceptRecv")
          /\ sendLane' = Tail(sendLane)
       \/ /\ sendLane = <<>>
          /\ run' = [run EXCEPT !.pc = IF run.took THEN "AcceptRecv" ELSE "EndDrain"]
          /\ UNCHANGED <<actor, kernel, sendLane>>
    /\ UNCHANGED <<recvLane, gate, lifecycle, world, stopping>>

\* CompleteDrain: the actor is scheduled again if a mail came in meanwhile, or
\* if the drain used up its budget and did not fail.
CompleteDrain ==
    /\ run.pc = "EndDrain"
    /\ LET again == gate.pending \/ (~run.failed /\ run.drained = DrainBudget)
       IN /\ gate' = [phase |-> IF again THEN "Scheduled" ELSE "Idle",
                      pending |-> FALSE]
          /\ run' = [run EXCEPT !.pc = "Finish", !.rescheduled = again]
    /\ UNCHANGED <<actor, recvLane, sendLane, kernel, lifecycle, world, stopping>>

CloseReady(x) == x.closeRequested /\ ~HasPendingIo(x)

\* ApplyDrainReport: a failed run closes the entry, whatever the actor says.
NextLifecycle(x, failed) ==
    LET ready == IF failed THEN ~HasPendingIo(x) ELSE CloseReady(x)
    IN CASE lifecycle = "Active" /\ ~(failed \/ x.closeRequested) -> "Active"
         [] lifecycle = "ReadyToDeregister" \/ ready -> "ReadyToDeregister"
         [] OTHER -> "AwaitingDrain"

MayPostRecv(x, failed) ==
    ~failed /\ x.postRecv /\ ~x.closeRequested /\ lifecycle = "Active"

\* After the drain: the report is taken, the next receive posted, the lease
\* released, and the entry erased when it is ready and not scheduled again.
FinishRun ==
    LET x == [actor EXCEPT !.postRecv = FALSE]
    IN /\ run.pc = "Finish"
       /\ \E o \in IF MayPostRecv(actor, run.failed) THEN PostRequestedRecv(x)
                                                     ELSE {Ok(x)} :
            LET failed == run.failed \/ o.failed
                next   == NextLifecycle(o.actor, failed)
                erases == next = "ReadyToDeregister" /\ ~run.rescheduled
            IN /\ actor' = o.actor
               /\ kernel' = IF o.posted = "recv" THEN [kernel EXCEPT !.recv = TRUE]
                                                 ELSE kernel
               /\ lifecycle' = IF erases THEN "Erased" ELSE next
       /\ run' = [run EXCEPT !.pc = "Idle"]
       /\ UNCHANGED <<recvLane, sendLane, gate, world, stopping>>

-----------------------------------------------------------------------------
\* RequestStop: no Enqueue is admitted from here on.
RequestStop ==
    /\ ~stopping
    /\ stopping' = TRUE
    /\ UNCHANGED <<actor, recvLane, sendLane, kernel, gate, run, lifecycle, world>>

\* Registry Shutdown, once the worker has run what was scheduled and is joined.
Shutdown ==
    /\ stopping /\ run.pc = "Idle" /\ gate.phase # "Scheduled" /\ Registered
    /\ actor' = RecordCloseRequested(actor, "ServerStopping")
    /\ lifecycle' = "Shutdown"
    /\ UNCHANGED <<recvLane, sendLane, kernel, gate, run, world, stopping>>

KernelStep == (\E e \in {"RecvBytes", "RecvEnded"} : RecvCompletes(e))
              \/ (\E e \in SendEvents \ {"SendRequested"} : SendCompletes(e))

WorldStep == SeesChannelOpen \/ EnqueueSendRequested \/ RequestSessionClose

WorkerStep == BeginDrain \/ TryDrainOneAcceptRecvEvent \/ TryDrainOneSendEvent
              \/ CompleteDrain \/ FinishRun

Next == KernelStep \/ WorldStep \/ WorkerStep \/ RequestStop \/ Shutdown

Spec == Init /\ [][Next]_vars

\* The worker runs.  A closed socket ends what the kernel holds; an open one need
\* not.
Fairness ==
    /\ WF_vars(WorkerStep)
    /\ WF_vars(~actor.socketOpen /\ KernelStep)
    /\ WF_vars(EnqueueSendRequested)

FairSpec == Spec /\ Fairness

-----------------------------------------------------------------------------
(***************************************************************************)
(* Properties.                                                             *)
(***************************************************************************)
Count(lane, kinds) == Cardinality({i \in DOMAIN lane : lane[i] \in kinds})

\* A pending context, its counter and its operation agree: the kernel holds it,
\* or its one completion is in a lane, or that completion was refused.  So no
\* completion meets an actor without the context it belongs to.
OneCompletionPerContext ==
    Registered =>
        /\ actor.recvIo = (IF kernel.recv THEN 1 ELSE 0)
                          + Count(recvLane, {"RecvBytes", "RecvEnded"})
                          + (IF "recv" \in kernel.lost THEN 1 ELSE 0)
        /\ actor.sendIo = (IF kernel.send THEN 1 ELSE 0)
                          + Count(sendLane, SendEvents \ {"SendRequested"})
                          + (IF "send" \in kernel.lost THEN 1 ELSE 0)
        /\ actor.recvContext <=> actor.recvIo = 1
        /\ actor.sendContext <=> actor.sendIo = 1

\* The registry erases an entry only when neither the kernel nor a mailbox still
\* refers to a context of its session.
ErasedOnlyWhenQuiet ==
    lifecycle = "Erased" =>
        /\ ~kernel.recv /\ ~kernel.send
        /\ Count(recvLane, {"RecvBytes", "RecvEnded"}) = 0
        /\ Count(sendLane, SendEvents \ {"SendRequested"}) = 0

\* From the first post to the erased entry, every I/O context is accounted for.
ContextsAccounted == TypeOK /\ OneCompletionPerContext /\ ErasedOnlyWhenQuiet

\* The World hears of the end of every session it was told of, before the actor
\* is gone, and the handoff never refuses a fact (the assertion in
\* RecordCloseRequested).
WorldHearsTheEnd ==
    /\ actor.phase # "Broken"
    /\ ~Registered => actor.phase # "Open"

\* A closed session leaves the registry: its pending I/O ends, the completions
\* release the contexts, and the last run erases the entry.
ClosedSessionIsReclaimed == actor.closeRequested ~> (~Registered \/ stopping)

\* The same, where no completion was refused and no drain of the closed session
\* failed: run.failed tells of the last one.
SoundSessionIsReclaimed ==
    actor.closeRequested
        ~> (~Registered \/ stopping \/ run.failed \/ kernel.lost # {})

=============================================================================
