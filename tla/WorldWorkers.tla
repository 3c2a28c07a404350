---------------------------- MODULE WorldWorkers ----------------------------
(***************************************************************************)
(* The four threads of a running World server and what they share.         *)
(*                                                                         *)
(*   pump         WorldIngressPumpWorker: moves events from the runtime's  *)
(*                queue into the write slot of the ingress double buffer   *)
(*   coordinator  WorldDoubleBufferedCoordinatorWorker: per tick swaps the *)
(*                ingress slots, handles the events, seals an outbound     *)
(*                batch; after gameplay stopped, drains epoch by epoch     *)
(*   publisher    WorldOutboundPublisherWorker: submits sealed batches     *)
(*   host         WorldServerHostRunner: starts the workers, watches them, *)
(*                and runs WorldWorkerShutdown                             *)
(*                                                                         *)
(* A step is what one thread does under one mutex, or one access to an     *)
(* atomic flag.  A wait with a timeout has a step for the timeout, enabled *)
(* whenever its predicate does not hold; a wait without one blocks.  The   *)
(* simulation a tick runs is abstracted to whether it succeeded and        *)
(* whether it left a record to publish.                                    *)
(***************************************************************************)
EXTENDS Naturals, Sequences, SequencesExt, OutboundBuffer

CONSTANTS MaxEvents,        \* events the runtime hands over in one behaviour
          SlotCapacity,     \* eventCapacityPerSlot
          BatchSize,        \* NrMaxToWorldEventBatchSize
          MaxTicks,         \* gameplay epochs run before a stop
          MayFail           \* whether ticks, submissions and starts can fail

ASSUME WorldWorkersAssumption ==
    /\ MaxEvents \in Nat
    /\ SlotCapacity \in Nat \ {0}
    /\ BatchSize \in Nat \ {0}
    /\ MaxTicks \in Nat
    /\ MayFail \in BOOLEAN

X == INSTANCE RoleExchange

VARIABLES
    source,       \* the runtime's To-World queue: events and closed flag
    emitted,      \* how many events the runtime has produced
    ingress,      \* WorldDoubleBufferRoleExchange of the ingress buffer
    slots,        \* committed events of the two ingress slots
    exchange,     \* WorldIngressWorkerExchange: one plan, one completion
    outbound,     \* WorldOutboundDoubleBuffer
    flags,        \* the workers' atomic request flags
    deadline,     \* terminalDeadline_, set by EnterTerminalConsume
    pump, coordinator, publisher, host,
    consumed,     \* history: events handled, or discarded, by the coordinator
    sealed,       \* history: epochs sealed, in order
    submitted     \* history: epochs the publisher submitted or discarded

vars == <<source, emitted, ingress, slots, exchange, outbound, flags,
          deadline, pump, coordinator, publisher, host, consumed, sealed,
          submitted>>

\* The variables of one thread's steps, grouped for UNCHANGED.
ingressVars == <<source, emitted, ingress, slots>>
historyVars == <<consumed, sealed, submitted>>

NoPlan == 0
NoCompletion == [epoch |-> 0, reason |-> "None"]

MaxEpoch == MaxTicks + MaxEvents + 3

StopReasons == {"NotStarted", "Running", "StopRequested", "Completed",
                "OperationFailed", "StartFailed"}

Flags == [gameplayStop : BOOLEAN, gameplayStopped : BOOLEAN,
          terminalDrain : BOOLEAN, drain : BOOLEAN,
          pumpStop : BOOLEAN, publisherStop : BOOLEAN]

Init ==
    /\ source = [queue |-> << >>, closed |-> FALSE]
    /\ emitted = 0
    /\ ingress = X!InitialExchange
    /\ slots = [s \in 0 .. 1 |-> << >>]
    /\ exchange = [plan |-> NoPlan, completion |-> NoCompletion, closed |-> FALSE]
    /\ outbound = InitialOutbound
    /\ flags = [gameplayStop |-> FALSE, gameplayStopped |-> FALSE,
                terminalDrain |-> FALSE, drain |-> FALSE,
                pumpStop |-> FALSE, publisherStop |-> FALSE]
    /\ deadline = "unset"
    /\ pump = [pc |-> "new", minimumGeneration |-> 1,
               claim |-> [slot |-> 0, generation |-> 0], batch |-> << >>,
               full |-> FALSE, fullReported |-> FALSE, epoch |-> 0,
               report |-> "None", reason |-> "NotStarted"]
    /\ coordinator = [pc |-> "new", epoch |-> 1, terminal |-> FALSE,
                      slot |-> 0, ok |-> TRUE, completion |-> "None",
                      reason |-> "NotStarted"]
    /\ publisher = [pc |-> "new", slot |-> NoSlot, report |-> "None",
                    reason |-> "NotStarted"]
    /\ host = [pc |-> "startPublisher", gameplayStopped |-> FALSE,
               outboundDrained |-> FALSE, runtimeStopped |-> FALSE,
               result |-> "None"]
    /\ consumed = << >>
    /\ sealed = << >>
    /\ submitted = << >>

-----------------------------------------------------------------------------
(* The runtime, as the pump sees it: events arrive until it closes.        *)

RuntimeEmits ==
    /\ ~ source.closed
    /\ emitted < MaxEvents
    /\ emitted' = emitted + 1
    /\ source' = [source EXCEPT !.queue = Append(@, emitted + 1)]
    /\ UNCHANGED <<ingress, slots, exchange, outbound, flags, deadline, pump,
                   coordinator, publisher, host, consumed, sealed, submitted>>

\* The terminal deadline passes some time after EnterTerminalConsume set it.
DeadlinePasses ==
    /\ deadline = "set"
    /\ deadline' = "passed"
    /\ UNCHANGED <<source, emitted, ingress, slots, exchange, outbound, flags,
                   pump, coordinator, publisher, host, consumed, sealed, submitted>>

-----------------------------------------------------------------------------
(* The pump.  RunStep is acquire, hold, then commit or wait; AfterStep is  *)
(* what its caller does with the report, in the normal loop (epoch 0) or   *)
(* in a terminal epoch.                                                    *)

PumpExits(p, reason) == [p EXCEPT !.pc = "exit", !.report = reason]

Completes(p, reason) == [p EXCEPT !.pc = "complete", !.report = reason]

NormalAfterStep(p, report) ==
    CASE report \in {"Progressed", "Idle", "SlotFull"} -> [p EXCEPT !.pc = "loop"]
      [] report = "SourceClosed" /\ flags.terminalDrain -> [p EXCEPT !.pc = "takePlan"]
      [] OTHER -> PumpExits(p, "OperationFailed")

TerminalAfterStep(p, report) ==
    CASE report \in {"Progressed", "Idle"} -> [p EXCEPT !.pc = "terminal"]
      [] report = "SlotFull" -> Completes([p EXCEPT !.fullReported = TRUE], "SealedFull")
      [] report = "SourceClosed" -> Completes(p, "SourceClosed")
      [] OTHER -> Completes(p, "SourceFailure")

AfterStep(p, report) ==
    IF p.epoch = 0 THEN NormalAfterStep(p, report) ELSE TerminalAfterStep(p, report)

\* The head of the normal loop, and of the terminal loop after it.
PumpLoops ==
    /\ pump.pc = "loop"
    /\ pump' = [pump EXCEPT !.pc =
                    IF flags.pumpStop \/ flags.terminalDrain
                    THEN "takePlan" ELSE "acquire"]
    /\ UNCHANGED <<ingressVars, exchange, outbound, flags, deadline,
                   coordinator, publisher, host, historyVars>>

\* WaitAcquireWrite: a closed exchange, a claim, or a timeout.
PumpAcquires ==
    /\ pump.pc = "acquire"
    /\ IF ~ ingress.closed /\ X!WriteReady(ingress, pump.minimumGeneration)
       THEN /\ ingress' = X!AcquireWrite(ingress)
            /\ pump' = [pump EXCEPT
                   !.pc = "hold", !.full = FALSE, !.fullReported = FALSE,
                   !.claim = [slot |-> ingress.write,
                              generation |-> ingress.generation]]
       ELSE /\ pump' = AfterStep(pump, IF ingress.closed THEN "BufferFailure"
                                                         ELSE "Idle")
            /\ UNCHANGED ingress
    /\ UNCHANGED <<source, emitted, slots, exchange, outbound, flags, deadline,
                   coordinator, publisher, host, historyVars>>

FreeRoom == SlotCapacity - Len(slots[pump.claim.slot])

\* A slot without room: wait for the next generation before writing again.
SealFullSlot ==
    /\ pump.pc = "hold"
    /\ FreeRoom = 0
    /\ ingress' = X!ReleaseWrite(ingress)
    /\ pump' = AfterStep([pump EXCEPT
                   !.minimumGeneration = pump.claim.generation + 1,
                   !.full = TRUE], "SlotFull")
    /\ UNCHANGED <<source, emitted, slots, exchange, outbound, flags, deadline,
                   coordinator, publisher, host, historyVars>>

\* TryPopBatch moves events out of the runtime's queue into the claimed slot.
PumpPops ==
    /\ pump.pc = "hold"
    /\ FreeRoom > 0
    /\ source.queue # << >>
    /\ LET n == Min({FreeRoom, BatchSize, Len(source.queue)}) IN
       /\ pump' = [pump EXCEPT !.pc = "commit",
                               !.batch = SubSeq(source.queue, 1, n)]
       /\ source' = [source EXCEPT !.queue = SubSeq(@, n + 1, Len(@))]
    /\ UNCHANGED <<emitted, ingress, slots, exchange, outbound, flags, deadline,
                   coordinator, publisher, host, historyVars>>

\* QueueEmpty: the claim is given back before the pump waits for events.
PumpFindsNothing ==
    /\ pump.pc = "hold"
    /\ FreeRoom > 0
    /\ source.queue = << >>
    /\ ingress' = X!ReleaseWrite(ingress)
    /\ pump' = [pump EXCEPT !.pc = "wait"]
    /\ UNCHANGED <<source, emitted, slots, exchange, outbound, flags, deadline,
                   coordinator, publisher, host, historyVars>>

\* CommitWrite of the popped events.
PumpCommits ==
    /\ pump.pc = "commit"
    /\ IF X!MatchesActiveWrite(ingress, pump.claim)
       THEN /\ slots' = [slots EXCEPT ![pump.claim.slot] = @ \o pump.batch]
            /\ ingress' = X!ReleaseWrite(ingress)
            /\ pump' = AfterStep([pump EXCEPT !.batch = << >>], "Progressed")
       ELSE /\ pump' = AfterStep(pump, "SourceFailure")
            /\ UNCHANGED <<slots, ingress>>
    /\ UNCHANGED <<source, emitted, exchange, outbound, flags, deadline,
                   coordinator, publisher, host, historyVars>>

\* WaitForEvents: events or a timeout are both Idle, an emptied closed queue is
\* not, and the wait itself may fail.
PumpWaits ==
    /\ pump.pc = "wait"
    /\ \E ok \in {TRUE, ~ MayFail} :
        pump' = AfterStep(pump,
                   IF ~ ok THEN "SourceFailure"
                   ELSE IF source.closed /\ source.queue = << >> THEN "SourceClosed"
                   ELSE "Idle")
    /\ UNCHANGED <<ingressVars, exchange, outbound, flags, deadline,
                   coordinator, publisher, host, historyVars>>

-----------------------------------------------------------------------------
(* The pump's terminal loop, one plan of the coordinator at a time.        *)

\* WaitTakePlan blocks for a plan or a close; a plan is taken even then.  A
\* slot found full before the plan came is reported at once.
PumpTakesPlan ==
    /\ pump.pc = "takePlan"
    /\ \/ /\ flags.pumpStop \/ (exchange.closed /\ exchange.plan = NoPlan)
          /\ pump' = PumpExits(pump, "StopRequested")
          /\ UNCHANGED exchange
       \/ /\ ~ flags.pumpStop
          /\ exchange.plan # NoPlan
          /\ exchange' = [exchange EXCEPT !.plan = NoPlan]
          /\ LET p == [pump EXCEPT !.epoch = exchange.plan] IN
             pump' = IF pump.full /\ ~ pump.fullReported
                     THEN Completes([p EXCEPT !.fullReported = TRUE], "SealedFull")
                     ELSE [p EXCEPT !.pc = "terminal"]
    /\ UNCHANGED <<ingressVars, outbound, flags, deadline, coordinator,
                   publisher, host, historyVars>>

\* The loop of RunTerminalEpoch runs steps until the deadline.
PumpRunsTerminal ==
    /\ pump.pc = "terminal"
    /\ pump' = IF deadline = "passed" THEN Completes(pump, "TimedOut")
                                      ELSE [pump EXCEPT !.pc = "acquire"]
    /\ UNCHANGED <<ingressVars, exchange, outbound, flags, deadline,
                   coordinator, publisher, host, historyVars>>

AfterCompletion ==
    CASE pump.report = "SealedFull"   -> [pump EXCEPT !.pc = "takePlan"]
      [] pump.report = "SourceClosed" -> PumpExits(pump, "Completed")
      [] OTHER                        -> PumpExits(pump, "OperationFailed")

PumpCompletes ==
    /\ pump.pc = "complete"
    /\ IF exchange.closed \/ exchange.plan # NoPlan \/ exchange.completion # NoCompletion
       THEN /\ pump' = PumpExits(pump, "StopRequested")
            /\ UNCHANGED exchange
       ELSE /\ exchange' = [exchange EXCEPT !.completion =
                   [epoch |-> pump.epoch, reason |-> pump.report]]
            /\ pump' = AfterCompletion
    /\ UNCHANGED <<ingressVars, outbound, flags, deadline, coordinator,
                   publisher, host, historyVars>>

PumpEnds ==
    /\ pump.pc = "exit"
    /\ pump' = [pump EXCEPT !.pc = "end", !.reason = pump.report]
    /\ exchange' = [exchange EXCEPT !.closed = TRUE]
    /\ UNCHANGED <<ingressVars, outbound, flags, deadline, coordinator,
                   publisher, host, historyVars>>

PumpNext ==
    \/ PumpLoops \/ PumpAcquires \/ SealFullSlot \/ PumpPops \/ PumpFindsNothing
    \/ PumpCommits \/ PumpWaits \/ PumpTakesPlan \/ PumpRunsTerminal
    \/ PumpCompletes \/ PumpEnds

-----------------------------------------------------------------------------
(* The coordinator's tick.  A failed tick, swap or exchange ends the       *)
(* worker: exit stores the stop reason, then the channels are closed.      *)

CoordinatorExits(c, reason) == [c EXCEPT !.pc = "exit", !.completion = reason]

\* The loop head and the check after the sleep until the seal deadline.
CoordinatorSleeps ==
    /\ coordinator.pc = "loop"
    /\ \/ /\ flags.gameplayStop
          /\ coordinator' = [coordinator EXCEPT !.pc = "stopped"]
       \/ /\ ~ flags.gameplayStop
          /\ coordinator.epoch <= MaxTicks
          /\ coordinator' = [coordinator EXCEPT !.pc = "swap"]
    /\ UNCHANGED <<ingressVars, exchange, outbound, flags, deadline, pump,
                   publisher, host, historyVars>>

AfterSwap(c) == [c EXCEPT !.pc = IF c.terminal THEN "acquire" ELSE "prepare"]

\* WaitSwap: refused, done at once, or left pending for the claims to end.
CoordinatorSwaps ==
    /\ coordinator.pc = "swap"
    /\ IF ingress.closed \/ ~ X!MaySwap(ingress, coordinator.epoch)
       THEN /\ coordinator' = CoordinatorExits(coordinator, "OperationFailed")
            /\ UNCHANGED ingress
       ELSE IF X!SwapReady(ingress)
       THEN /\ ingress' = X!Swap(ingress, coordinator.epoch)
            /\ coordinator' = AfterSwap(coordinator)
       ELSE /\ ingress' = [ingress EXCEPT !.swapPending = TRUE]
            /\ coordinator' = [coordinator EXCEPT !.pc = "swapWait"]
    /\ UNCHANGED <<source, emitted, slots, exchange, outbound, flags, deadline,
                   pump, publisher, host, historyVars>>

\* The wait ends with the swap, a close or, while a claim is out, a timeout.
CoordinatorWaitsSwap ==
    /\ coordinator.pc = "swapWait"
    /\ IF X!SwapReady(ingress) /\ ~ ingress.closed
       THEN /\ ingress' = X!Swap(ingress, coordinator.epoch)
            /\ coordinator' = AfterSwap(coordinator)
       ELSE /\ ingress' = X!AbandonSwap(ingress)
            /\ coordinator' = CoordinatorExits(coordinator, "OperationFailed")
    /\ UNCHANGED <<source, emitted, slots, exchange, outbound, flags, deadline,
                   pump, publisher, host, historyVars>>

\* WaitPrepareWrite: a write slot, or a failure (refused writes or a timeout).
CoordinatorPrepares ==
    /\ coordinator.pc = "prepare"
    /\ IF RefusesWrites(outbound) \/ ~ WriteSlotAvailable(outbound)
       THEN /\ coordinator' = CoordinatorExits(coordinator, "OperationFailed")
            /\ UNCHANGED outbound
       ELSE /\ outbound' = PrepareWrite(outbound)
            /\ coordinator' = [coordinator EXCEPT !.pc = "acquire"]
    /\ UNCHANGED <<ingressVars, exchange, flags, deadline, pump, publisher,
                   host, historyVars>>

\* WaitAcquireRead of the epoch just swapped in, without waiting.
CoordinatorAcquires ==
    /\ coordinator.pc = "acquire"
    /\ IF X!MayAcquireRead(ingress, coordinator.epoch)
       THEN /\ ingress' = X!AcquireRead(ingress)
            /\ coordinator' = [coordinator EXCEPT
                   !.pc = IF coordinator.terminal THEN "consume" ELSE "begin",
                   !.slot = X!ReadSlot(ingress)]
       ELSE /\ coordinator' = CoordinatorExits(coordinator, "OperationFailed")
            /\ UNCHANGED ingress
    /\ UNCHANGED <<source, emitted, slots, exchange, outbound, flags, deadline,
                   pump, publisher, host, historyVars>>

\* A refused BeginWriteBatch releases the slot without handling its events.
CoordinatorBegins ==
    /\ coordinator.pc = "begin"
    /\ IF MayBeginWriteBatch(outbound, coordinator.epoch)
       THEN /\ outbound' = BeginWriteBatch(outbound, coordinator.epoch)
            /\ coordinator' = [coordinator EXCEPT !.pc = "handle"]
       ELSE /\ coordinator' = [coordinator EXCEPT !.pc = "release", !.ok = FALSE]
            /\ UNCHANGED outbound
    /\ UNCHANGED <<ingressVars, exchange, flags, deadline, pump, publisher,
                   host, historyVars>>

\* The events are handled and the due ticks run; they may leave a record, which
\* a closed or finished buffer refuses, and they may fail.
CoordinatorHandles ==
    /\ coordinator.pc = "handle"
    /\ consumed' = consumed \o slots[coordinator.slot]
    /\ \E record \in BOOLEAN, ok \in {TRUE, ~ MayFail} :
        LET appended == record /\ ~ RefusesWrites(outbound)
            success == ok /\ (record => appended)
        IN /\ outbound' = IF appended THEN Append1(outbound) ELSE outbound
           /\ coordinator' = [coordinator EXCEPT !.ok = success,
                                 !.pc = IF success THEN "seal" ELSE "release"]
    /\ UNCHANGED <<ingressVars, exchange, flags, deadline, pump, publisher,
                   host, sealed, submitted>>

\* SealWrite looks at the closed and finished flags before it takes the mutex.
CoordinatorChecksSeal ==
    /\ coordinator.pc = "seal"
    /\ coordinator' = IF RefusesWrites(outbound)
                      THEN [coordinator EXCEPT !.pc = "release", !.ok = FALSE]
                      ELSE [coordinator EXCEPT !.pc = "sealLocked"]
    /\ UNCHANGED <<ingressVars, exchange, outbound, flags, deadline, pump,
                   publisher, host, historyVars>>

CoordinatorSeals ==
    /\ coordinator.pc = "sealLocked"
    /\ IF MaySealWrite(outbound, coordinator.epoch)
       THEN /\ outbound' = SealWrite(outbound, coordinator.epoch)
            /\ sealed' = IF outbound.records[outbound.write] = 0 THEN sealed
                         ELSE Append(sealed, coordinator.epoch)
            /\ coordinator' = [coordinator EXCEPT !.pc = "release"]
       ELSE /\ coordinator' = [coordinator EXCEPT !.pc = "release", !.ok = FALSE]
            /\ UNCHANGED <<outbound, sealed>>
    /\ UNCHANGED <<ingressVars, exchange, flags, deadline, pump, publisher,
                   host, consumed, submitted>>

\* ReleaseRead empties the slot, then the tick's outcome counts.
CoordinatorReleases ==
    /\ coordinator.pc = "release"
    /\ slots' = [slots EXCEPT ![coordinator.slot] = << >>]
    /\ ingress' = X!ReleaseRead(ingress)
    /\ coordinator' =
           IF coordinator.ok
           THEN [coordinator EXCEPT !.pc = "loop", !.epoch = @ + 1]
           ELSE CoordinatorExits(coordinator, "OperationFailed")
    /\ UNCHANGED <<source, emitted, exchange, outbound, flags, deadline, pump,
                   publisher, host, historyVars>>

-----------------------------------------------------------------------------
(* The coordinator after gameplay: RunTerminalLoop and the ways out.       *)

CoordinatorStops ==
    /\ coordinator.pc = "stopped"
    /\ flags' = [flags EXCEPT !.gameplayStopped = TRUE]
    /\ coordinator' = [coordinator EXCEPT !.pc = "publish", !.terminal = TRUE]
    /\ UNCHANGED <<ingressVars, exchange, outbound, deadline, pump, publisher,
                   host, historyVars>>

\* WaitForTerminalMode, then the loop head and Publish of the next plan.
CoordinatorPublishes ==
    /\ coordinator.pc = "publish"
    /\ deadline # "unset"
    /\ IF deadline = "passed" \/ exchange.closed \/ exchange.plan # NoPlan
          \/ exchange.completion # NoCompletion
       THEN /\ coordinator' = CoordinatorExits(coordinator, "OperationFailed")
            /\ UNCHANGED exchange
       ELSE /\ exchange' = [exchange EXCEPT !.plan = coordinator.epoch]
            /\ coordinator' = [coordinator EXCEPT !.pc = "take"]
    /\ UNCHANGED <<ingressVars, outbound, flags, deadline, pump, publisher,
                   host, historyVars>>

\* Mutant: the slot of the last epoch is not read any more.
CoordinatorTakes_SkipsLastSlot ==
    /\ coordinator.pc = "take"
    /\ exchange.completion # NoCompletion \/ exchange.closed
    /\ exchange' = [exchange EXCEPT !.completion = NoCompletion]
    /\ coordinator' =
           CASE exchange.completion.reason = "SealedFull" ->
                    [coordinator EXCEPT !.pc = "swap", !.completion = "SealedFull"]
             [] exchange.completion.reason = "SourceClosed" ->
                    CoordinatorExits(coordinator, "Completed")
             [] OTHER -> CoordinatorExits(coordinator, "OperationFailed")
    /\ UNCHANGED <<ingressVars, outbound, flags, deadline, pump, publisher,
                   host, historyVars>>

\* WaitTakeCompletion blocks for the completion of this epoch, or a close.
CoordinatorTakes ==
    /\ coordinator.pc = "take"
    /\ exchange.completion # NoCompletion \/ exchange.closed
    /\ IF exchange.completion.epoch # coordinator.epoch
       THEN /\ coordinator' = CoordinatorExits(coordinator, "OperationFailed")
            /\ UNCHANGED exchange
       ELSE /\ exchange' = [exchange EXCEPT !.completion = NoCompletion]
            /\ coordinator' = [coordinator EXCEPT !.pc = "swap",
                                   !.completion = exchange.completion.reason]
    /\ UNCHANGED <<ingressVars, outbound, flags, deadline, pump, publisher,
                   host, historyVars>>

AfterTerminalEpoch(c) ==
    CASE c.completion = "SourceClosed" -> CoordinatorExits(c, "Completed")
      [] c.completion = "SealedFull"   -> [c EXCEPT !.pc = "publish", !.epoch = @ + 1]
      [] OTHER                         -> CoordinatorExits(c, "OperationFailed")

\* WorldIngressTerminalConsumer::Consume, then ReleaseRead.
CoordinatorConsumes ==
    /\ coordinator.pc = "consume"
    /\ consumed' = consumed \o slots[coordinator.slot]
    /\ slots' = [slots EXCEPT ![coordinator.slot] = << >>]
    /\ ingress' = X!ReleaseRead(ingress)
    /\ coordinator' = AfterTerminalEpoch(coordinator)
    /\ UNCHANGED <<source, emitted, exchange, outbound, flags, deadline, pump,
                   publisher, host, sealed, submitted>>

\* Every way out of Run stores the reason before it closes the channels.
CoordinatorStoresReason ==
    /\ coordinator.pc = "exit"
    /\ coordinator' = [coordinator EXCEPT !.pc = "close",
                                          !.reason = coordinator.completion]
    /\ flags' = [flags EXCEPT !.gameplayStopped = TRUE]
    /\ UNCHANGED <<ingressVars, exchange, outbound, deadline, pump, publisher,
                   host, historyVars>>

CoordinatorEnds ==
    /\ coordinator.pc = "close"
    /\ coordinator' = [coordinator EXCEPT !.pc = "end"]
    /\ exchange' = [exchange EXCEPT !.closed = TRUE]
    /\ outbound' = IF coordinator.reason = "Completed" THEN outbound
                   ELSE Close(outbound)
    /\ UNCHANGED <<ingressVars, flags, deadline, pump, publisher, host,
                   historyVars>>

CoordinatorNext ==
    \/ CoordinatorSleeps \/ CoordinatorSwaps \/ CoordinatorWaitsSwap
    \/ CoordinatorPrepares \/ CoordinatorAcquires \/ CoordinatorBegins
    \/ CoordinatorHandles \/ CoordinatorChecksSeal \/ CoordinatorSeals
    \/ CoordinatorReleases \/ CoordinatorStops \/ CoordinatorPublishes
    \/ CoordinatorTakes \/ CoordinatorConsumes \/ CoordinatorStoresReason
    \/ CoordinatorEnds

-----------------------------------------------------------------------------
(* The publisher.                                                          *)

\* Mutant: the end of writes is looked at before the batches that are ready.
PublisherAcquires_FinishedFirst ==
    /\ publisher.pc = "acquire"
    /\ IF ReadReady(outbound) /\ ~ outbound.writesFinished
       THEN /\ outbound' = AcquireRead(outbound)
            /\ publisher' = [publisher EXCEPT !.pc = "submit",
                                              !.slot = Head(outbound.ready)]
       ELSE /\ publisher' = [publisher EXCEPT !.report = "Empty",
                    !.pc = IF outbound.closed THEN "failed" ELSE "noBatch"]
            /\ UNCHANGED outbound
    /\ UNCHANGED <<ingressVars, exchange, flags, deadline, pump, coordinator,
                   host, historyVars>>

\* WaitAcquireRead: closed, a sealed batch, nothing more to come, or a timeout.
PublisherAcquires ==
    /\ publisher.pc = "acquire"
    /\ IF ReadReady(outbound)
       THEN /\ outbound' = AcquireRead(outbound)
            /\ publisher' = [publisher EXCEPT !.pc = "submit",
                                              !.slot = Head(outbound.ready)]
       ELSE /\ publisher' =
                 [publisher EXCEPT
                    !.pc = IF outbound.closed THEN "failed" ELSE "noBatch",
                    !.report = IF outbound.closed THEN "AcquireFailed"
                               ELSE IF Drained(outbound) THEN "Empty" ELSE "TimedOut"]
            /\ UNCHANGED outbound
    /\ UNCHANGED <<ingressVars, exchange, flags, deadline, pump, coordinator,
                   host, historyVars>>

\* SubmitMany of every record; a failure discards the rest of the batch.
PublisherSubmits ==
    /\ publisher.pc = "submit"
    /\ submitted' = Append(submitted, outbound.epoch[publisher.slot])
    /\ \E ok \in {TRUE, ~ MayFail} :
        publisher' = [publisher EXCEPT !.pc = "release",
                          !.report = IF ok THEN "Published" ELSE "PublicationFailed"]
    /\ UNCHANGED <<ingressVars, exchange, outbound, flags, deadline, pump,
                   coordinator, host, consumed, sealed>>

PublisherReleases ==
    /\ publisher.pc = "release"
    /\ outbound' = ReleaseRead(outbound, publisher.slot)
    /\ publisher' = [publisher EXCEPT !.slot = NoSlot,
                        !.pc = IF publisher.report = "Published" THEN "acquire"
                                                                 ELSE "failed"]
    /\ UNCHANGED <<ingressVars, exchange, flags, deadline, pump, coordinator,
                   host, historyVars>>

\* Mutant: a drain request alone does not end the publisher.
PublisherFindsNoBatch_StopOnly ==
    /\ publisher.pc = "noBatch"
    /\ publisher' = [publisher EXCEPT !.pc =
                        IF flags.publisherStop THEN "exit" ELSE "acquire"]
    /\ UNCHANGED <<ingressVars, exchange, outbound, flags, deadline, pump,
                   coordinator, host, historyVars>>

\* No batch: leave if a drain or a stop was requested by now.
PublisherFindsNoBatch ==
    /\ publisher.pc = "noBatch"
    /\ publisher' = [publisher EXCEPT !.pc =
                        IF flags.drain \/ flags.publisherStop THEN "exit" ELSE "acquire"]
    /\ UNCHANGED <<ingressVars, exchange, outbound, flags, deadline, pump,
                   coordinator, host, historyVars>>

PublisherFails ==
    /\ publisher.pc = "failed"
    /\ IF flags.publisherStop
       THEN /\ publisher' = [publisher EXCEPT !.pc = "exit"]
            /\ UNCHANGED outbound
       ELSE /\ publisher' = [publisher EXCEPT !.pc = "end",
                                              !.reason = "OperationFailed"]
            /\ outbound' = Close(outbound)
    /\ UNCHANGED <<ingressVars, exchange, flags, deadline, pump, coordinator,
                   host, historyVars>>

PublisherEnds ==
    /\ publisher.pc = "exit"
    /\ outbound' = Close(outbound)
    /\ publisher' = [publisher EXCEPT !.pc = "end",
                        !.reason = IF flags.drain THEN "Completed" ELSE "StopRequested"]
    /\ UNCHANGED <<ingressVars, exchange, flags, deadline, pump, coordinator,
                   host, historyVars>>

PublisherNext ==
    \/ PublisherAcquires \/ PublisherSubmits \/ PublisherReleases
    \/ PublisherFindsNoBatch \/ PublisherFails \/ PublisherEnds

-----------------------------------------------------------------------------
(* The host: WorldWorkerStartup, the watch loop and WorldWorkerShutdown.   *)

\* Start of a worker thread; a failure rolls back the workers already running.
HostStartsPublisher ==
    /\ host.pc = "startPublisher"
    /\ \E ok \in {TRUE, ~ MayFail} :
        /\ publisher' = IF ok THEN [publisher EXCEPT !.pc = "acquire", !.reason = "Running"]
                              ELSE [publisher EXCEPT !.reason = "StartFailed"]
        /\ host' = [host EXCEPT !.pc = IF ok THEN "startPump" ELSE "startFailed"]
    /\ UNCHANGED <<ingressVars, exchange, outbound, flags, deadline, pump,
                   coordinator, historyVars>>

HostStartsPump ==
    /\ host.pc = "startPump"
    /\ \E ok \in {TRUE, ~ MayFail} :
        /\ pump' = IF ok THEN [pump EXCEPT !.pc = "loop", !.reason = "Running"]
                         ELSE [pump EXCEPT !.reason = "StartFailed"]
        /\ host' = [host EXCEPT !.pc = IF ok THEN "startCoordinator"
                                             ELSE "rollbackPublisher"]
    /\ UNCHANGED <<ingressVars, exchange, outbound, flags, deadline,
                   coordinator, publisher, historyVars>>

HostStartsCoordinator ==
    /\ host.pc = "startCoordinator"
    /\ \E ok \in {TRUE, ~ MayFail} :
        /\ coordinator' = IF ok THEN [coordinator EXCEPT !.pc = "loop", !.reason = "Running"]
                                ELSE [coordinator EXCEPT !.reason = "StartFailed"]
        /\ host' = [host EXCEPT !.pc = IF ok THEN "running" ELSE "rollbackPump"]
    /\ UNCHANGED <<ingressVars, exchange, outbound, flags, deadline, pump,
                   publisher, historyVars>>

\* WorldIngressPumpWorker::RequestStop.
HostStopsPump ==
    /\ host.pc = "rollbackPump"
    /\ flags' = [flags EXCEPT !.pumpStop = TRUE]
    /\ ingress' = X!Close(ingress)
    /\ exchange' = [exchange EXCEPT !.closed = TRUE]
    /\ host' = [host EXCEPT !.pc = "rollbackPublisher"]
    /\ UNCHANGED <<source, emitted, slots, outbound, deadline, pump,
                   coordinator, publisher, historyVars>>

\* WorldOutboundPublisherWorker::RequestStop.
HostStopsPublisher ==
    /\ host.pc = "rollbackPublisher"
    /\ flags' = [flags EXCEPT !.publisherStop = TRUE]
    /\ outbound' = Close(outbound)
    /\ host' = [host EXCEPT !.pc = "joinStarted"]
    /\ UNCHANGED <<ingressVars, exchange, deadline, pump, coordinator,
                   publisher, historyVars>>

HostJoinsStarted ==
    /\ host.pc = "joinStarted"
    /\ pump.pc \in {"new", "end"}
    /\ publisher.pc = "end"
    /\ host' = [host EXCEPT !.pc = "startFailed"]
    /\ UNCHANGED <<ingressVars, exchange, outbound, flags, deadline, pump,
                   coordinator, publisher, historyVars>>

\* Leaving the watch loop: StopGameplayAndWait raises its flag.
BeginShutdown ==
    /\ host.pc = "running"
    /\ flags' = [flags EXCEPT !.gameplayStop = TRUE]
    /\ host' = [host EXCEPT !.pc = "waitGameplay"]
    /\ UNCHANGED <<ingressVars, exchange, outbound, deadline, pump,
                   coordinator, publisher, historyVars>>

\* Mutant: only the ingress side is watched.
WorkerStopped_IgnoresPublisher == pump.reason # "Running" \/ coordinator.reason # "Running"

WorkerStopped ==
    \/ publisher.reason # "Running"
    \/ pump.reason # "Running"
    \/ coordinator.reason # "Running"

HostIsAskedToStop == BeginShutdown

HostSeesWorkerStop == WorkerStopped /\ BeginShutdown

GameplayHasStopped ==
    flags.gameplayStopped \/ coordinator.reason \notin {"NotStarted", "Running"}

\* The bounded wait for the coordinator to leave its tick loop.
HostWaitsGameplay ==
    /\ host.pc = "waitGameplay"
    /\ host' = [host EXCEPT !.pc = "drain", !.gameplayStopped = GameplayHasStopped]
    /\ UNCHANGED <<ingressVars, exchange, outbound, flags, deadline, pump,
                   coordinator, publisher, historyVars>>

\* DrainAndStop: the request flag, FinishWrites, then the unbounded join.
HostRequestsDrain ==
    /\ host.pc = "drain"
    /\ flags' = [flags EXCEPT !.drain = TRUE]
    /\ host' = [host EXCEPT !.pc = "finishWrites"]
    /\ UNCHANGED <<ingressVars, exchange, outbound, deadline, pump,
                   coordinator, publisher, historyVars>>

HostFinishesWrites ==
    /\ host.pc = "finishWrites"
    /\ outbound' = FinishWrites(outbound)
    /\ host' = [host EXCEPT !.pc = "joinPublisher"]
    /\ UNCHANGED <<ingressVars, exchange, flags, deadline, pump, coordinator,
                   publisher, historyVars>>

HostJoinsPublisher ==
    /\ host.pc = "joinPublisher"
    /\ publisher.pc = "end"
    /\ host' = [host EXCEPT !.pc = "terminalConsume",
                    !.outboundDrained = publisher.reason \in {"Completed", "StopRequested"}]
    /\ UNCHANGED <<ingressVars, exchange, outbound, flags, deadline, pump,
                   coordinator, publisher, historyVars>>

\* EnterTerminalConsume of the coordinator.
HostEntersTerminalConsume ==
    /\ host.pc = "terminalConsume"
    /\ deadline' = "set"
    /\ host' = [host EXCEPT !.pc = "terminalDrain"]
    /\ UNCHANGED <<ingressVars, exchange, outbound, flags, pump, coordinator,
                   publisher, historyVars>>

\* EnterTerminalDrain of the pump.
HostEntersTerminalDrain ==
    /\ host.pc = "terminalDrain"
    /\ flags' = [flags EXCEPT !.terminalDrain = TRUE]
    /\ host' = [host EXCEPT !.pc = "shutdown"]
    /\ UNCHANGED <<ingressVars, exchange, outbound, deadline, pump,
                   coordinator, publisher, historyVars>>

\* RequestStopAndShutdown: the queue is closed whether or not it succeeds.
HostShutsDownRuntime ==
    /\ host.pc = "shutdown"
    /\ source' = [source EXCEPT !.closed = TRUE]
    /\ \E ok \in {TRUE, ~ MayFail} :
        host' = [host EXCEPT !.pc = "joinPump", !.runtimeStopped = ok]
    /\ UNCHANGED <<emitted, ingress, slots, exchange, outbound, flags,
                   deadline, pump, coordinator, publisher, historyVars>>

HostJoinsPump ==
    /\ host.pc = "joinPump"
    /\ pump.pc = "end"
    /\ host' = [host EXCEPT !.pc = "joinCoordinator"]
    /\ UNCHANGED <<ingressVars, exchange, outbound, flags, deadline, pump,
                   coordinator, publisher, historyVars>>

TerminalIngressDrained ==
    pump.reason = "Completed" /\ coordinator.reason = "Completed"

ShutdownResult ==
    IF ~ host.gameplayStopped THEN "GameplayStopTimedOut"
    ELSE IF ~ host.outboundDrained THEN "OutboundDrainFailed"
    ELSE IF ~ TerminalIngressDrained THEN "TerminalIngressDrainFailed"
    ELSE IF host.runtimeStopped THEN "Completed" ELSE "RuntimeShutdownFailed"

HostReports ==
    /\ host.pc = "joinCoordinator"
    /\ coordinator.pc = "end"
    /\ host' = [host EXCEPT !.pc = "report", !.result = ShutdownResult]
    /\ UNCHANGED <<ingressVars, exchange, outbound, flags, deadline, pump,
                   coordinator, publisher, historyVars>>

HostNext ==
    \/ HostStartsPublisher \/ HostStartsPump \/ HostStartsCoordinator
    \/ HostStopsPump \/ HostStopsPublisher \/ HostJoinsStarted
    \/ HostSeesWorkerStop \/ HostWaitsGameplay \/ HostRequestsDrain
    \/ HostFinishesWrites \/ HostJoinsPublisher \/ HostEntersTerminalConsume
    \/ HostEntersTerminalDrain \/ HostShutsDownRuntime \/ HostJoinsPump
    \/ HostReports

\* A host that has reported leaves the process with every thread joined.
HostHasEnded ==
    /\ host.pc \in {"report", "startFailed"}
    /\ UNCHANGED vars

Next ==
    \/ RuntimeEmits \/ DeadlinePasses
    \/ PumpNext \/ CoordinatorNext \/ PublisherNext
    \/ HostNext \/ HostIsAskedToStop \/ HostHasEnded

Spec == Init /\ [][Next]_vars

\* Every thread keeps running, every bounded wait ends and the deadline passes.
\* Nobody is obliged to ask the host to stop, or to send an event.
FairSpec ==
    /\ Spec
    /\ WF_vars(PumpNext)
    /\ WF_vars(CoordinatorNext)
    /\ WF_vars(PublisherNext)
    /\ WF_vars(HostNext)
    /\ WF_vars(DeadlinePasses)

-----------------------------------------------------------------------------
(* Properties.                                                             *)

PumpPcs == {"new", "loop", "acquire", "hold", "commit", "wait", "takePlan",
            "terminal", "complete", "exit", "end"}
CoordinatorPcs == {"new", "loop", "swap", "swapWait", "prepare", "acquire",
                   "begin", "handle", "seal", "sealLocked", "release",
                   "stopped", "publish", "take", "consume", "exit", "close", "end"}
PublisherPcs == {"new", "acquire", "submit", "release", "noBatch", "failed",
                 "exit", "end"}
Results == {"None", "GameplayStopTimedOut", "OutboundDrainFailed",
            "TerminalIngressDrainFailed", "RuntimeShutdownFailed", "Completed"}

Events == 1 .. MaxEvents

\* Types, the capacity of the ingress slots, and the bound on epochs: a terminal
\* epoch is opened only for a slot the previous one found full.
TypeOK ==
    /\ source \in [queue : Seq(Events), closed : BOOLEAN]
    /\ emitted \in 0 .. MaxEvents
    /\ ingress \in X!ExchangeStates
    /\ \A s \in 0 .. 1 : slots[s] \in Seq(Events) /\ Len(slots[s]) <= SlotCapacity
    /\ exchange.plan \in 0 .. MaxEpoch
    /\ outbound \in OutboundStates(MaxEpoch, 1)
    /\ flags \in Flags
    /\ deadline \in {"unset", "set", "passed"}
    /\ pump.pc \in PumpPcs /\ pump.reason \in StopReasons
    /\ coordinator.pc \in CoordinatorPcs /\ coordinator.reason \in StopReasons
    /\ coordinator.epoch \in 1 .. MaxEpoch
    /\ publisher.pc \in PublisherPcs /\ publisher.reason \in StopReasons
    /\ host.result \in Results

\* The slot memory the pump writes without a lock is never the slot the
\* coordinator reads, and the pump's claim is still current when it commits.
SlotsNeverShared ==
    pump.pc \in {"hold", "commit"} =>
        /\ X!MatchesActiveWrite(ingress, pump.claim)
        /\ coordinator.pc \in {"begin", "handle", "seal", "sealLocked",
                               "release", "consume"} => coordinator.slot # pump.claim.slot

\* The outbound slot the publisher reads is not the one the coordinator appends
\* to, whatever timed out or was closed in between.
OutboundNeverShared ==
    publisher.pc \in {"submit", "release"} =>
        /\ outbound.state[publisher.slot] = "Reading"
        /\ ~ (outbound.writeActive /\ outbound.write = publisher.slot)

\* No slot of either double buffer is in the hands of two threads.
BuffersNeverShared == TypeOK /\ SlotsNeverShared /\ OutboundNeverShared

EventsHeld ==
    LET unread == IF coordinator.pc \in {"seal", "sealLocked", "release"}
                  THEN << >> ELSE slots[X!ReadSlot(ingress)]
    IN  consumed \o unread \o slots[ingress.write] \o pump.batch \o source.queue

\* Until the coordinator fails, every event the runtime handed over has been
\* handled once or waits in one place, and order is kept across slot swaps.
EventsInOrder ==
    coordinator.ok => EventsHeld = [i \in 1 .. emitted |-> i]

\* Batches reach the gateway in the order they were sealed, none twice.
BatchesInOrder == IsPrefix(submitted, sealed)

\* Neither stream, events in or batches out, is reordered or repeated.
StreamsInOrder == EventsInOrder /\ BatchesInOrder

\* A shutdown reported Completed handled every event the runtime handed over
\* and no worker of it had failed.
CompletedMeansDrained ==
    host.result = "Completed" =>
        /\ consumed = [i \in 1 .. emitted |-> i]
        /\ \A reason \in {pump.reason, coordinator.reason, publisher.reason} :
               reason = "Completed"

\* A publisher that left because the finished buffer was empty, after gameplay
\* had stopped in time, submitted every batch that was sealed.
EmptyMeansAllSubmitted ==
    /\ host.pc = "report"
    /\ host.gameplayStopped
    /\ publisher.reason = "Completed"
    /\ publisher.report = "Empty"
    => submitted = sealed

\* What the wiki and the comment on WorldWorkerShutdown say of a shutdown that
\* reports success: the last sealed batch was drained.
LastBatchIsDrained == host.result = "Completed" => submitted = sealed

\* Once the host leaves its watch loop, or rolls a start back, it joins every
\* thread: nobody waits for a thread that waits for somebody else.
ShutdownEnds ==
    host.pc \in {"rollbackPump", "rollbackPublisher", "waitGameplay"}
        ~> host.pc \in {"report", "startFailed"}

\* A worker that stops by itself, whichever it is, takes the whole host down.
WorkerStopEndsHost ==
    /\ host.pc = "running"
    /\ {pump.reason, coordinator.reason, publisher.reason} # {"Running"}
    ~> host.pc = "report"

=============================================================================
