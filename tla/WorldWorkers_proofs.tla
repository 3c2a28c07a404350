------------------------- MODULE WorldWorkers_proofs -------------------------
(***************************************************************************)
(* Proofs about the four threads of a running World server: what the runs  *)
(* of WorldWorkers check on small instances holds for every number of      *)
(* events, slot capacity, batch size and number of ticks, and for two or   *)
(* three outbound slots.                                                   *)
(*                                                                         *)
(* The properties speak of contents: who holds a slot, which events have   *)
(* been handled, which batches submitted.  What makes them hold is the     *)
(* threads' control, so the invariant ties the program counters of the     *)
(* four threads to the claims and the flags they share:                    *)
(*                                                                         *)
(*   HostInv       the host asks for one stop after the other              *)
(*   ClaimInv      the claims of the ingress exchange and who holds them   *)
(*   ContentInv    the read slot is empty when it is given back            *)
(*   EventInv      the events as one sequence, cut into the five places    *)
(*   TurnInv       one plan, then one completion, never both               *)
(*   FullInv       SealedFull speaks of a slot that is full, or of an      *)
(*                 early epoch: so an epoch costs a slotful of events      *)
(*   EpochInv      and their number is bounded                             *)
(*   EndInv        the news that the source is done, on its way from the   *)
(*                 queue to the host                                       *)
(*   BufferInv     the outbound slots: one state, one hand, queued once    *)
(*   BatchInv      the batches as one sequence, cut into three places      *)
(*   PublisherInv, ReportInv    what the publisher and the host may say    *)
(*                                                                         *)
(* The proof has three layers.  A lemma per action (...Effect) says what   *)
(* it does to the fields the invariant mentions.  A lemma per part         *)
(* (...Kept) goes through all the actions, with the parts it needs as      *)
(* hypotheses.  The theorems at the end put them together.                 *)
(***************************************************************************)
EXTENDS WorldWorkers, SequenceTheorems, TLAPS

-----------------------------------------------------------------------------
(***************************************************************************)
(* The shape of each thread's locals and of each shared record.            *)
(***************************************************************************)
HostPcs ==
    {"startPublisher", "startPump", "startCoordinator", "rollbackPump",
     "rollbackPublisher", "joinStarted", "startFailed", "running",
     "waitGameplay", "drain", "finishWrites", "joinPublisher",
     "terminalConsume", "terminalDrain", "shutdown", "joinPump",
     "joinCoordinator", "report"}

Reports == StopReasons \cup {"None", "SealedFull", "SourceClosed",
                             "SourceFailure", "TimedOut"}

PumpStates ==
    [pc : PumpPcs, minimumGeneration : Nat, claim : [slot : 0 .. 1, generation : Nat],
     batch : Seq(Events), full : BOOLEAN, fullReported : BOOLEAN, epoch : Nat,
     report : Reports, reason : StopReasons]

CoordinatorStates ==
    [pc : CoordinatorPcs, epoch : Nat \ {0}, terminal : BOOLEAN, slot : 0 .. 1,
     ok : BOOLEAN, completion : Reports, reason : StopReasons]

PublisherStates ==
    [pc : PublisherPcs, slot : OutboundSlots \cup {NoSlot},
     report : {"None", "Empty", "TimedOut", "AcquireFailed", "Published",
               "PublicationFailed"},
     reason : StopReasons]

HostStates ==
    [pc : HostPcs, gameplayStopped : BOOLEAN, outboundDrained : BOOLEAN,
     runtimeStopped : BOOLEAN, result : Results]

CompletionStates == [epoch : Nat, reason : Reports]

ChannelStates == [plan : Nat, completion : CompletionStates, closed : BOOLEAN]

BufferStates ==
    [state : [OutboundSlots -> SlotStates], epoch : [OutboundSlots -> Nat],
     records : [OutboundSlots -> Nat], ready : Seq(OutboundSlots),
     write : OutboundSlots, writeActive : BOOLEAN, readClaim : BOOLEAN,
     lastSealed : Nat, writesFinished : BOOLEAN, closed : BOOLEAN]

SourceStates == [queue : Seq(Events), closed : BOOLEAN]

Shapes ==
    /\ source \in SourceStates
    /\ emitted \in 0 .. MaxEvents
    /\ ingress \in X!ExchangeStates
    /\ slots \in [0 .. 1 -> Seq(Events)]
    /\ exchange \in ChannelStates
    /\ outbound \in BufferStates
    /\ flags \in Flags
    /\ deadline \in {"unset", "set", "passed"}
    /\ pump \in PumpStates
    /\ coordinator \in CoordinatorStates
    /\ publisher \in PublisherStates
    /\ host \in HostStates
    /\ consumed \in Seq(Events)
    /\ sealed \in Seq(Nat)
    /\ submitted \in Seq(Nat)
    /\ pump.pc = "exit" => pump.report \in StopReasons
    /\ coordinator.pc = "exit" => coordinator.completion \in StopReasons

-----------------------------------------------------------------------------
(***************************************************************************)
(* The host's order of events.                                             *)
(***************************************************************************)
RollbackSteps == {"rollbackPump", "rollbackPublisher", "joinStarted", "startFailed"}
DrainedSteps == {"joinPublisher", "terminalConsume", "terminalDrain", "shutdown",
                 "joinPump", "joinCoordinator", "report"}
DrainSteps == {"finishWrites"} \cup DrainedSteps

CoordinatorGone == coordinator.pc \in {"close", "end"}

\* A thread is started once, stops are requested in one order, and a rollback
\* happens before the coordinator runs.
HostInv ==
    /\ host.pc = "startPublisher" => publisher.pc = "new"
    /\ host.pc \in {"startPublisher", "startPump"} => pump.pc = "new"
    /\ host.pc \in {"startPublisher", "startPump", "startCoordinator"} \cup RollbackSteps
          => coordinator.pc = "new"
    /\ ingress.closed \/ flags.pumpStop \/ flags.publisherStop
          => host.pc \in RollbackSteps
    /\ flags.drain <=> host.pc \in DrainSteps
    /\ outbound.writesFinished => flags.drain /\ host.pc \in DrainedSteps
    /\ flags.gameplayStopped => coordinator.terminal \/ CoordinatorGone
    /\ coordinator.reason \notin {"NotStarted", "Running"}
          => CoordinatorGone \/ host.pc \in RollbackSteps
    /\ host.gameplayStopped =>
          /\ coordinator.terminal \/ CoordinatorGone
          /\ host.pc \in {"drain"} \cup DrainSteps

-----------------------------------------------------------------------------
(***************************************************************************)
(* Who holds which ingress slot.                                           *)
(***************************************************************************)
WriteSteps == {"hold", "commit"}
ReadSteps == {"begin", "handle", "seal", "sealLocked", "release", "consume"}
CoordinatorExitSteps == {"exit", "close", "end"}

ClaimInv ==
    /\ ingress.writeClaim <=> pump.pc \in WriteSteps
    /\ pump.pc \in WriteSteps => pump.claim.slot = ingress.write
                                 /\ pump.claim.generation = ingress.generation
    /\ ingress.readClaim <=> coordinator.pc \in ReadSteps
    /\ coordinator.pc \in ReadSteps => coordinator.slot = 1 - ingress.write
    /\ ingress.readReady =>
          coordinator.pc \in {"prepare", "acquire"} \cup CoordinatorExitSteps

\* The slots' contents: the read slot is emptied before it is given back, and
\* what the pump has popped fits the room it has seen.
ContentInv ==
    /\ \A s \in 0 .. 1 : Len(slots[s]) <= SlotCapacity
    /\ ~ ingress.readReady /\ ~ ingress.readClaim => slots[1 - ingress.write] = << >>
    /\ pump.pc # "commit" => pump.batch = << >>
    /\ pump.pc = "commit" =>
          Len(slots[ingress.write]) + Len(pump.batch) <= SlotCapacity

\* A step that failed only releases its slot and leaves.
OkInv == ~ coordinator.ok => coordinator.pc \in {"release"} \cup CoordinatorExitSteps

EventInv == EventsInOrder /\ Len(consumed) <= emitted /\ OkInv

-----------------------------------------------------------------------------
(***************************************************************************)
(* The terminal drain: one plan or completion at a time.                   *)
(***************************************************************************)
PumpAtWork ==
    \/ pump.pc \in {"terminal", "complete"}
    \/ pump.epoch # 0 /\ pump.pc \in {"acquire", "hold", "commit", "wait"}

\* While the pump works on a plan, or its answer is under way, the coordinator waits.
TurnInv ==
    /\ pump.pc \in {"terminal", "complete"} => pump.epoch # 0
    /\ pump.epoch # 0 => pump.pc \notin {"new", "loop"}
    /\ PumpAtWork \/ exchange.completion # NoCompletion \/ exchange.plan # NoPlan
          => coordinator.pc \in {"take"} \cup CoordinatorExitSteps /\ coordinator.terminal
    /\ exchange.plan # NoPlan => ~ PumpAtWork /\ exchange.completion = NoCompletion
                                 /\ exchange.plan <= coordinator.epoch
    /\ exchange.completion # NoCompletion => ~ PumpAtWork /\ pump.epoch # 0
    /\ pump.epoch # 0 => coordinator.terminal
    /\ coordinator.pc \in {"publish", "take", "consume"} => coordinator.terminal
    /\ coordinator.pc \in {"new", "loop", "prepare", "begin", "handle", "seal",
                           "sealLocked", "release", "stopped"} => ~ coordinator.terminal
    /\ coordinator.terminal /\ coordinator.pc \in {"swap", "swapWait", "acquire", "consume"}
          => pump.epoch # 0

SlotFull(s) == Len(slots[s]) = SlotCapacity

EarlyEpoch == coordinator.epoch <= MaxTicks + 1

WriteFull == SlotFull(ingress.write)
WriteFullOrEarly == WriteFull \/ EarlyEpoch
ReadFullOrEarly == SlotFull(1 - ingress.write) \/ EarlyEpoch

\* A plan answered with SealedFull belongs to a full slot, except for the first
\* one: the pump may have found full a slot that a tick has emptied since.
FullInv ==
    /\ pump.claim.generation <= ingress.generation
    /\ pump.full /\ pump.claim.generation = ingress.generation => WriteFull
    /\ pump.epoch # 0 /\ pump.full => pump.fullReported
    /\ pump.epoch = 0 => EarlyEpoch
    /\ pump.pc = "complete" /\ pump.report = "SealedFull" => WriteFullOrEarly
    /\ exchange.completion.reason = "SealedFull" => WriteFullOrEarly
    /\ coordinator.terminal /\ coordinator.completion = "SealedFull" =>
          /\ coordinator.pc \in {"swap", "swapWait"} => WriteFullOrEarly
          /\ coordinator.pc \in {"acquire", "consume"} => ReadFullOrEarly

EpochInv ==
    /\ coordinator.epoch <= MaxTicks + 2 + Len(consumed)
    /\ ~ coordinator.terminal => EarlyEpoch
    /\ ~ coordinator.terminal /\ coordinator.pc \in {"swap", "swapWait", "prepare", "acquire"} \cup ReadSteps
          => coordinator.epoch <= MaxTicks

-----------------------------------------------------------------------------
(***************************************************************************)
(* The end of the stream.                                                  *)
(***************************************************************************)
SourceDone == source.closed /\ source.queue = << >> /\ pump.batch = << >>

PumpDone == SourceDone /\ pump.pc \in {"exit", "end"}

EndInv ==
    /\ pump.pc = "complete" /\ pump.report = "SourceClosed" => SourceDone
    /\ pump.pc = "exit" /\ pump.report = "Completed" => SourceDone
    /\ pump.reason = "Completed" => SourceDone /\ pump.pc = "end"
    /\ exchange.completion.reason = "SourceClosed" => PumpDone
    /\ pump.pc = "complete" => pump.report # "Completed"
    /\ exchange.completion.reason # "Completed"
    /\ coordinator.completion = "SourceClosed" =>
          /\ PumpDone
          /\ coordinator.pc \in {"prepare", "acquire", "consume"} => slots[ingress.write] = << >>
    /\ coordinator.completion = "Completed" =>
          /\ PumpDone
          /\ coordinator.ok
          /\ coordinator.pc \in CoordinatorExitSteps
          /\ slots[ingress.write] = << >> /\ slots[1 - ingress.write] = << >>
    /\ coordinator.reason = "Completed" => coordinator.completion = "Completed"

-----------------------------------------------------------------------------
(***************************************************************************)
(* The outbound buffer.                                                    *)
(***************************************************************************)
\* The slots that wait to be read are sealed ones, each of them once.
ReadyInv(ready, state) ==
    /\ \A i \in 1 .. Len(ready) : state[ready[i]] = "Sealed"
    /\ \A i, j \in 1 .. Len(ready) : ready[i] = ready[j] => i = j

BufferInv ==
    /\ ReadyInv(outbound.ready, outbound.state)
    /\ outbound.readClaim <=> publisher.pc \in {"submit", "release"}
    /\ publisher.pc \in {"submit", "release"} =>
          /\ publisher.slot \in OutboundSlots
          /\ outbound.state[publisher.slot] = "Reading"
    /\ \A s \in OutboundSlots :
          outbound.state[s] = "Writing" <=> outbound.writeActive /\ s = outbound.write
    /\ \A s \in OutboundSlots : outbound.records[s] <= 1 /\ outbound.epoch[s] <= MaxEpoch
    /\ outbound.lastSealed <= MaxEpoch
    /\ coordinator.pc = "handle" => outbound.records[outbound.write] = 0

InHand == IF publisher.pc = "submit" THEN 1 ELSE 0

BatchInv ==
    /\ Len(sealed) = Len(submitted) + InHand + Len(outbound.ready)
    /\ \A i \in 1 .. Len(submitted) : submitted[i] = sealed[i]
    /\ publisher.pc = "submit" =>
          outbound.epoch[publisher.slot] = sealed[Len(submitted) + 1]
    /\ \A i \in 1 .. Len(outbound.ready) :
          outbound.epoch[outbound.ready[i]] = sealed[Len(submitted) + InHand + i]

PublisherInv ==
    /\ publisher.pc = "exit" => flags.drain \/ flags.publisherStop
    /\ publisher.reason \in {"Completed", "StopRequested"} => publisher.pc = "end"
    /\ publisher.reason = "StopRequested" => flags.publisherStop
    /\ publisher.report = "Empty" =>
          /\ outbound.writesFinished
          /\ publisher.pc \in {"noBatch", "exit", "end"}
          /\ host.gameplayStopped => outbound.ready = << >>

ReportInv ==
    /\ host.outboundDrained => publisher.pc = "end" /\ publisher.reason = "Completed"
    /\ host.result = "Completed" =>
          /\ host.pc = "report" /\ host.outboundDrained
          /\ pump.reason = "Completed" /\ coordinator.reason = "Completed"

WorkersInv ==
    /\ Shapes
    /\ HostInv
    /\ ClaimInv /\ ContentInv /\ EventInv
    /\ TurnInv /\ FullInv /\ EpochInv
    /\ EndInv
    /\ BufferInv /\ BatchInv /\ PublisherInv /\ ReportInv

-----------------------------------------------------------------------------
(***************************************************************************)
(* What each action does to the fields the invariant speaks of.            *)
(***************************************************************************)
\* A pump that has only moved on, and one that leaves.
PumpMoves(p, q) ==
    /\ q \in PumpStates
    /\ q.claim = p.claim /\ q.batch = p.batch /\ q.full = p.full
    /\ q.fullReported = p.fullReported /\ q.epoch = p.epoch
    /\ q.report = p.report /\ q.reason = p.reason

PumpReports(p, q) ==
    /\ q \in PumpStates
    /\ q.claim = p.claim /\ q.batch = p.batch /\ q.full = p.full
    /\ q.fullReported = p.fullReported /\ q.epoch = p.epoch
    /\ q.reason = p.reason

StepReports == {"Progressed", "Idle", "SlotFull", "SourceClosed", "BufferFailure",
                "SourceFailure"}

\* What AfterStep makes of a pump, in the normal loop and in a terminal epoch.
StepTaken(p, q, report) ==
    /\ q \in PumpStates
    /\ q.claim = p.claim /\ q.batch = p.batch /\ q.full = p.full
    /\ q.epoch = p.epoch /\ q.reason = p.reason
    /\ p.epoch = 0 =>
          /\ q.pc \in {"loop", "takePlan", "exit"}
          /\ q.pc = "exit" => q.report = "OperationFailed"
    /\ p.epoch # 0 =>
          /\ q.pc \in {"terminal", "complete"}
          /\ q.pc = "complete" => q.report \notin {"None", "Completed"}
          /\ q.pc = "complete" /\ q.report = "SealedFull" => report = "SlotFull"
          /\ q.pc = "complete" /\ q.report = "SourceClosed" => report = "SourceClosed"
          /\ (p.fullReported \/ report = "SlotFull") => q.fullReported

\* A pump whose program counter alone changes.
LEMMA PumpMove ==
    ASSUME NEW p \in PumpStates, NEW pc \in PumpPcs
    PROVE  /\ PumpMoves(p, [p EXCEPT !.pc = pc])
           /\ [p EXCEPT !.pc = pc].pc = pc
BY DEF PumpStates, PumpMoves

\* Leaving, and completing a plan, name a reason as well.
LEMMA PumpReport ==
    ASSUME NEW p \in PumpStates, NEW reason \in Reports
    PROVE  /\ PumpReports(p, PumpExits(p, reason))
           /\ PumpExits(p, reason).pc = "exit"
           /\ PumpExits(p, reason).report = reason
           /\ PumpReports(p, Completes(p, reason))
           /\ Completes(p, reason).pc = "complete"
           /\ Completes(p, reason).report = reason
BY DEF PumpStates, PumpReports, PumpExits, Completes, PumpPcs

\* A pump that notes that its full slot was reported.
LEMMA PumpNotesFull ==
    ASSUME NEW p \in PumpStates
    PROVE  LET q == [p EXCEPT !.fullReported = TRUE] IN
           /\ q \in PumpStates
           /\ q.pc = p.pc /\ q.claim = p.claim /\ q.batch = p.batch /\ q.full = p.full
           /\ q.fullReported /\ q.epoch = p.epoch /\ q.report = p.report
           /\ q.reason = p.reason
BY DEF PumpStates

\* AfterStep on each report of a step.
LEMMA AfterStepTaken ==
    ASSUME NEW p \in PumpStates, NEW report \in StepReports
    PROVE  StepTaken(p, AfterStep(p, report), report)
<1> DEFINE f == [p EXCEPT !.fullReported = TRUE]
<1>f. /\ f \in PumpStates
      /\ f.claim = p.claim /\ f.batch = p.batch /\ f.full = p.full
      /\ f.fullReported /\ f.epoch = p.epoch /\ f.reason = p.reason
  BY PumpNotesFull
<1>m. /\ PumpMoves(p, [p EXCEPT !.pc = "loop"]) /\ [p EXCEPT !.pc = "loop"].pc = "loop"
      /\ PumpMoves(p, [p EXCEPT !.pc = "takePlan"]) /\ [p EXCEPT !.pc = "takePlan"].pc = "takePlan"
      /\ PumpMoves(p, [p EXCEPT !.pc = "terminal"]) /\ [p EXCEPT !.pc = "terminal"].pc = "terminal"
  BY PumpMove DEF PumpPcs
<1>x. /\ PumpReports(p, PumpExits(p, "OperationFailed"))
      /\ PumpExits(p, "OperationFailed").pc = "exit"
      /\ PumpExits(p, "OperationFailed").report = "OperationFailed"
  BY PumpReport DEF Reports, StopReasons
<1>c. /\ PumpReports(f, Completes(f, "SealedFull"))
      /\ Completes(f, "SealedFull").pc = "complete"
      /\ Completes(f, "SealedFull").report = "SealedFull"
      /\ PumpReports(p, Completes(p, "SourceClosed"))
      /\ Completes(p, "SourceClosed").pc = "complete"
      /\ Completes(p, "SourceClosed").report = "SourceClosed"
      /\ PumpReports(p, Completes(p, "SourceFailure"))
      /\ Completes(p, "SourceFailure").pc = "complete"
      /\ Completes(p, "SourceFailure").report = "SourceFailure"
  BY <1>f, PumpReport DEF Reports, StopReasons
<1> HIDE DEF f
<1>1. CASE p.epoch = 0
  <2>1. AfterStep(p, report) = NormalAfterStep(p, report)
    BY <1>1 DEF AfterStep
  <2>2. CASE report \in {"Progressed", "Idle", "SlotFull"}
    <3>1. AfterStep(p, report) = [p EXCEPT !.pc = "loop"]
      BY <2>1, <2>2 DEF NormalAfterStep
    <3> QED
      BY <3>1, <1>m, <1>1 DEF StepTaken, PumpMoves
  <2>3. CASE report = "SourceClosed" /\ flags.terminalDrain
    <3>1. AfterStep(p, report) = [p EXCEPT !.pc = "takePlan"]
      BY <2>1, <2>3 DEF NormalAfterStep
    <3> QED
      BY <3>1, <1>m, <1>1 DEF StepTaken, PumpMoves
  <2>4. CASE ~ (report \in {"Progressed", "Idle", "SlotFull"})
             /\ ~ (report = "SourceClosed" /\ flags.terminalDrain)
    <3>1. AfterStep(p, report) = PumpExits(p, "OperationFailed")
      BY <2>1, <2>4 DEF NormalAfterStep
    <3> QED
      BY <3>1, <1>x, <1>1 DEF StepTaken, PumpReports
  <2> QED
    BY <2>2, <2>3, <2>4
<1>2. CASE p.epoch # 0
  <2>1. AfterStep(p, report) = TerminalAfterStep(p, report)
    BY <1>2 DEF AfterStep
  <2>2. CASE report \in {"Progressed", "Idle"}
    <3>1. AfterStep(p, report) = [p EXCEPT !.pc = "terminal"]
      BY <2>1, <2>2 DEF TerminalAfterStep
    <3> QED
      BY <3>1, <1>m, <1>2, <2>2 DEF StepTaken, PumpMoves
  <2>3. CASE report = "SlotFull"
    <3>1. AfterStep(p, report) = Completes(f, "SealedFull")
      BY <2>1, <2>3 DEF TerminalAfterStep, f
    <3> QED
      BY <3>1, <1>c, <1>f, <1>2, <2>3 DEF StepTaken, PumpReports
  <2>4. CASE report = "SourceClosed"
    <3>1. AfterStep(p, report) = Completes(p, "SourceClosed")
      BY <2>1, <2>4 DEF TerminalAfterStep
    <3> QED
      BY <3>1, <1>c, <1>2, <2>4 DEF StepTaken, PumpReports
  <2>5. CASE report \in {"BufferFailure", "SourceFailure"}
    <3>1. AfterStep(p, report) = Completes(p, "SourceFailure")
      BY <2>1, <2>5 DEF TerminalAfterStep
    <3> QED
      BY <3>1, <1>c, <1>2, <2>5 DEF StepTaken, PumpReports
  <2> QED
    BY <2>2, <2>3, <2>4, <2>5 DEF StepReports
<1> QED
  BY <1>1, <1>2

-----------------------------------------------------------------------------
(***************************************************************************)
(* The pump's actions.                                                     *)
(***************************************************************************)
\* The pump leaves everything of the outbound side and of the other threads alone.
PumpFrame ==
    UNCHANGED <<emitted, outbound, flags, deadline, coordinator, publisher, host,
                consumed, sealed, submitted>>

\* The head of the normal loop leaves the pump's findings alone.
LEMMA PumpLoopsEffect ==
    ASSUME Shapes, PumpLoops
    PROVE  /\ PumpFrame /\ UNCHANGED <<source, ingress, slots, exchange>>
           /\ pump.pc = "loop"
           /\ PumpMoves(pump, pump') /\ pump'.pc \in {"takePlan", "acquire"}
<1>1. /\ PumpFrame /\ UNCHANGED <<source, ingress, slots, exchange>>
      /\ pump.pc = "loop"
      /\ \/ pump' = [pump EXCEPT !.pc = "takePlan"]
         \/ pump' = [pump EXCEPT !.pc = "acquire"]
  BY DEF PumpLoops, PumpFrame, ingressVars, historyVars
<1>2. /\ PumpMoves(pump, [pump EXCEPT !.pc = "takePlan"])
      /\ [pump EXCEPT !.pc = "takePlan"].pc = "takePlan"
  BY PumpMove DEF Shapes, PumpPcs
<1>3. /\ PumpMoves(pump, [pump EXCEPT !.pc = "acquire"])
      /\ [pump EXCEPT !.pc = "acquire"].pc = "acquire"
  BY PumpMove DEF Shapes, PumpPcs
<1> QED
  BY <1>1, <1>2, <1>3

\* Waiting for the write claim: it is taken, or the step ends without it.
LEMMA PumpAcquiresEffect ==
    ASSUME Shapes, PumpAcquires
    PROVE  /\ PumpFrame /\ UNCHANGED <<source, slots, exchange>>
           /\ pump.pc = "acquire"
           /\ \/ /\ ~ ingress.closed /\ ~ ingress.swapPending /\ ~ ingress.writeClaim
                 /\ ingress' \in X!ExchangeStates
                 /\ ingress'.writeClaim
                 /\ ingress'.write = ingress.write
                 /\ ingress'.generation = ingress.generation
                 /\ ingress'.readClaim = ingress.readClaim
                 /\ ingress'.readReady = ingress.readReady
                 /\ ingress'.closed = ingress.closed
                 /\ pump' \in PumpStates
                 /\ pump'.pc = "hold" /\ ~ pump'.full /\ ~ pump'.fullReported
                 /\ pump'.claim.slot = ingress.write
                 /\ pump'.claim.generation = ingress.generation
                 /\ pump'.batch = pump.batch /\ pump'.epoch = pump.epoch
                 /\ pump'.reason = pump.reason
              \/ /\ ingress' = ingress
                 /\ \E report \in {"BufferFailure", "Idle"} :
                        StepTaken(pump, pump', report)
<1>1. /\ PumpFrame /\ UNCHANGED <<source, slots, exchange>>
      /\ pump.pc = "acquire"
  BY DEF PumpAcquires, PumpFrame, historyVars
<1>2. CASE ~ ingress.closed /\ X!WriteReady(ingress, pump.minimumGeneration)
  <2> DEFINE c == [slot |-> ingress.write, generation |-> ingress.generation]
  <2>1. /\ ingress' = [ingress EXCEPT !.writeClaim = TRUE]
        /\ pump' = [pump EXCEPT !.pc = "hold", !.full = FALSE,
                                !.fullReported = FALSE, !.claim = c]
    BY <1>2 DEF PumpAcquires, X!AcquireWrite
  <2>2. c \in [slot : 0 .. 1, generation : Nat] /\ c.slot = ingress.write
        /\ c.generation = ingress.generation
    BY DEF Shapes, X!ExchangeStates
  <2> HIDE DEF c
  <2>3. /\ pump' \in PumpStates
        /\ pump'.pc = "hold" /\ ~ pump'.full /\ ~ pump'.fullReported
        /\ pump'.claim = c
        /\ pump'.batch = pump.batch /\ pump'.epoch = pump.epoch
        /\ pump'.reason = pump.reason
    BY <2>1, <2>2 DEF Shapes, PumpStates, PumpPcs
  <2>4. /\ ingress' \in X!ExchangeStates
        /\ ingress'.writeClaim
        /\ ingress'.write = ingress.write
        /\ ingress'.generation = ingress.generation
        /\ ingress'.readClaim = ingress.readClaim
        /\ ingress'.readReady = ingress.readReady
        /\ ingress'.closed = ingress.closed
    BY <2>1 DEF Shapes, X!ExchangeStates
  <2> QED
    BY <1>1, <1>2, <2>2, <2>3, <2>4 DEF X!WriteReady
<1>3. CASE ~ (~ ingress.closed /\ X!WriteReady(ingress, pump.minimumGeneration))
  <2>1. /\ ingress' = ingress
        /\ \/ pump' = AfterStep(pump, "BufferFailure")
           \/ pump' = AfterStep(pump, "Idle")
    BY <1>3 DEF PumpAcquires
  <2>2. /\ StepTaken(pump, AfterStep(pump, "BufferFailure"), "BufferFailure")
        /\ StepTaken(pump, AfterStep(pump, "Idle"), "Idle")
    BY AfterStepTaken DEF Shapes, StepReports
  <2> QED
    BY <1>1, <2>1, <2>2
<1> QED
  BY <1>2, <1>3

\* Giving the write claim back changes nothing else of the exchange.
WriteReleased ==
    /\ ingress' \in X!ExchangeStates
    /\ ~ ingress'.writeClaim
    /\ ingress'.write = ingress.write
    /\ ingress'.generation = ingress.generation
    /\ ingress'.readClaim = ingress.readClaim
    /\ ingress'.readReady = ingress.readReady
    /\ ingress'.closed = ingress.closed

\* ReleaseWrite gives the claim back.
LEMMA ReleaseWriteEffect ==
    ASSUME Shapes, ingress' = X!ReleaseWrite(ingress)
    PROVE  WriteReleased
BY DEF Shapes, X!ExchangeStates, X!ReleaseWrite, WriteReleased

\* A slot without room is noted as full and given back.
LEMMA SealFullSlotEffect ==
    ASSUME Shapes, SealFullSlot
    PROVE  /\ PumpFrame /\ UNCHANGED <<source, slots, exchange>>
           /\ WriteReleased
           /\ pump.pc = "hold" /\ FreeRoom = 0
           /\ pump' \in PumpStates
           /\ pump'.full /\ pump'.claim = pump.claim /\ pump'.batch = pump.batch
           /\ pump'.epoch = pump.epoch /\ pump'.reason = pump.reason
           /\ pump.epoch = 0 =>
                 /\ pump'.pc \in {"loop", "takePlan", "exit"}
                 /\ pump'.pc = "exit" => pump'.report = "OperationFailed"
           /\ pump.epoch # 0 =>
                 /\ pump'.pc \in {"terminal", "complete"}
                 /\ pump'.pc = "complete" => pump'.report \notin {"SourceClosed", "Completed"}
                 /\ pump'.fullReported
<1>1. /\ PumpFrame /\ UNCHANGED <<source, slots, exchange>>
      /\ pump.pc = "hold" /\ FreeRoom = 0
      /\ WriteReleased
  BY ReleaseWriteEffect DEF SealFullSlot, PumpFrame, historyVars
<1> DEFINE p == [pump EXCEPT !.minimumGeneration = pump.claim.generation + 1,
                             !.full = TRUE]
<1>2. /\ p \in PumpStates
      /\ p.full /\ p.claim = pump.claim /\ p.batch = pump.batch
      /\ p.epoch = pump.epoch /\ p.reason = pump.reason
  <2>1. pump.claim.generation + 1 \in Nat
    BY DEF Shapes, PumpStates
  <2> QED
    BY <2>1 DEF Shapes, PumpStates
<1>3. pump' = AfterStep(p, "SlotFull")
  BY DEF SealFullSlot
<1> HIDE DEF p
<1>4. StepTaken(p, pump', "SlotFull")
  BY <1>2, <1>3, AfterStepTaken DEF StepReports
<1> QED
  BY <1>1, <1>2, <1>4 DEF StepTaken

\* A sequence cut in two.
LEMMA CutSeq ==
    ASSUME NEW S, NEW q \in Seq(S), NEW n \in 1 .. Len(q)
    PROVE  /\ SubSeq(q, 1, n) \in Seq(S)
           /\ Len(SubSeq(q, 1, n)) = n
           /\ SubSeq(q, n + 1, Len(q)) \in Seq(S)
           /\ q = SubSeq(q, 1, n) \o SubSeq(q, n + 1, Len(q))
<1>1. Len(q) \in Nat /\ \A i \in 1 .. Len(q) : q[i] \in S
  BY ElementOfSeq, LenProperties
<1>2. SubSeq(q, 1, n) \in Seq(S) /\ Len(SubSeq(q, 1, n)) = n
  <2>1. n \in Int /\ \A i \in 1 .. n : q[i] \in S
    BY <1>1
  <2> QED
    BY <2>1, SubSeqProperties
<1>3. SubSeq(q, n + 1, Len(q)) \in Seq(S)
  <2>1. n + 1 \in Int /\ Len(q) \in Int /\ \A i \in n + 1 .. Len(q) : q[i] \in S
    BY <1>1
  <2> DEFINE m == n + 1
             e == Len(q)
  <2>2. m \in Int /\ e \in Int /\ \A i \in m .. e : q[i] \in S
    BY <2>1
  <2> HIDE DEF m, e
  <2>3. SubSeq(q, m, e) \in Seq(S)
    BY <2>2, SubSeqProperties
  <2> QED
    BY <2>3 DEF m, e
<1>4. SubSeq(q, 1, n) \o SubSeq(q, n + 1, Len(q)) = SubSeq(q, 1, Len(q))
  <2>1. 1 \in 1 .. Len(q) + 1 /\ n \in 1 - 1 .. Len(q) /\ Len(q) \in n .. Len(q)
    BY <1>1
  <2> QED
    BY <2>1, ConcatAdjacentSubSeq
<1> QED
  BY <1>2, <1>3, <1>4, SubSeqFull

\* TryPopBatch: what was popped and what stays queued.
LEMMA PumpPopsEffect ==
    ASSUME Shapes, PumpPops
    PROVE  /\ PumpFrame /\ UNCHANGED <<ingress, slots, exchange>>
           /\ pump.pc = "hold" /\ pump'.pc = "commit"
           /\ pump' \in PumpStates /\ source' \in SourceStates
           /\ pump'.claim = pump.claim /\ pump'.full = pump.full
           /\ pump'.fullReported = pump.fullReported /\ pump'.epoch = pump.epoch
           /\ pump'.report = pump.report /\ pump'.reason = pump.reason
           /\ source'.closed = source.closed
           /\ Len(pump'.batch) <= FreeRoom
           /\ source.queue # << >>
           /\ source.queue = pump'.batch \o source'.queue
<1> DEFINE q == source.queue
           L == {FreeRoom, BatchSize, Len(q)}
           n == Min(L)
           front == SubSeq(q, 1, n)
           rest == SubSeq(q, n + 1, Len(q))
<1>1. /\ PumpFrame /\ UNCHANGED <<ingress, slots, exchange>>
      /\ pump.pc = "hold" /\ q # << >> /\ FreeRoom > 0
      /\ pump' = [pump EXCEPT !.pc = "commit", !.batch = front]
      /\ source' = [source EXCEPT !.queue = rest]
  BY DEF PumpPops, PumpFrame, historyVars, Shapes, SourceStates
<1>2. q \in Seq(Events) /\ Len(q) \in Nat \ {0}
  BY <1>1, EmptySeq DEF Shapes, SourceStates
<1>3. slots[pump.claim.slot] \in Seq(Events)
  BY DEF Shapes, PumpStates
<1>4. FreeRoom \in Nat \ {0}
  <2> DEFINE a == Len(slots[pump.claim.slot])
  <2>1. a \in Nat /\ SlotCapacity \in Nat
    BY <1>3, WorldWorkersAssumption, LenProperties
  <2>2. SlotCapacity - a > 0
    BY <1>1 DEF FreeRoom
  <2> HIDE DEF a
  <2>3. SlotCapacity - a \in Nat \ {0}
    BY <2>1, <2>2
  <2> QED
    BY <2>3 DEF FreeRoom, a
<1>5. n \in L /\ \A m \in L : n <= m
  <2>1. \E x \in L : \A y \in L : x <= y
    BY <1>2, <1>4, WorldWorkersAssumption
  <2> QED
    BY <2>1 DEF Min
<1>6. n \in Nat \ {0} /\ n <= FreeRoom /\ n <= Len(q)
  BY <1>2, <1>4, <1>5, WorldWorkersAssumption
<1>7. /\ front \in Seq(Events) /\ rest \in Seq(Events)
      /\ Len(front) = n
      /\ q = front \o rest
  <2> HIDE DEF n, q
  <2>1. q \in Seq(Events) /\ n \in 1 .. Len(q)
    BY <1>2, <1>6
  <2> QED
    BY <2>1, CutSeq
<1> HIDE DEF q, L, n, front, rest
<1>9. /\ pump' \in PumpStates /\ pump'.pc = "commit" /\ pump'.batch = front
      /\ pump'.claim = pump.claim /\ pump'.full = pump.full
      /\ pump'.fullReported = pump.fullReported /\ pump'.epoch = pump.epoch
      /\ pump'.report = pump.report /\ pump'.reason = pump.reason
  BY <1>1, <1>7 DEF Shapes, PumpStates, PumpPcs
<1>10. source' \in SourceStates /\ source'.closed = source.closed /\ source'.queue = rest
  BY <1>1, <1>7 DEF Shapes, SourceStates
<1> QED
  BY <1>1, <1>6, <1>7, <1>9, <1>10 DEF q

\* A pump that found the queue empty waits without a claim.
LEMMA PumpFindsNothingEffect ==
    ASSUME Shapes, PumpFindsNothing
    PROVE  /\ PumpFrame /\ UNCHANGED <<source, slots, exchange>>
           /\ WriteReleased
           /\ pump.pc = "hold"
           /\ PumpMoves(pump, pump') /\ pump'.pc = "wait"
BY ReleaseWriteEffect, PumpMove DEF Shapes, PumpFindsNothing, PumpFrame, PumpPcs, historyVars

\* CommitWrite: the claim still matches, so the popped events always get in.
LEMMA PumpCommitsEffect ==
    ASSUME Shapes, ClaimInv, PumpCommits
    PROVE  /\ PumpFrame /\ UNCHANGED <<source, exchange>>
           /\ WriteReleased
           /\ pump.pc = "commit"
           /\ slots' \in [0 .. 1 -> Seq(Events)]
           /\ slots'[ingress.write] = slots[ingress.write] \o pump.batch
           /\ slots'[1 - ingress.write] = slots[1 - ingress.write]
           /\ pump' \in PumpStates /\ pump'.batch = << >>
           /\ pump'.claim = pump.claim /\ pump'.full = pump.full
           /\ pump'.epoch = pump.epoch /\ pump'.reason = pump.reason
           /\ pump.epoch = 0 =>
                 /\ pump'.pc \in {"loop", "takePlan", "exit"}
                 /\ pump'.pc = "exit" => pump'.report = "OperationFailed"
           /\ pump.epoch # 0 =>
                 /\ pump'.pc \in {"terminal", "complete"}
                 /\ pump'.pc = "complete" => pump'.report \notin {"SourceClosed", "SealedFull", "Completed"}
                 /\ pump.fullReported => pump'.fullReported
<1>1. /\ PumpFrame /\ UNCHANGED <<source, exchange>>
      /\ pump.pc = "commit"
  BY DEF PumpCommits, PumpFrame, historyVars
<1>2. X!MatchesActiveWrite(ingress, pump.claim)
  BY <1>1 DEF ClaimInv, WriteSteps, X!MatchesActiveWrite
<1> DEFINE p == [pump EXCEPT !.batch = << >>]
<1>3. /\ slots' = [slots EXCEPT ![pump.claim.slot] = @ \o pump.batch]
      /\ ingress' = X!ReleaseWrite(ingress)
      /\ pump' = AfterStep(p, "Progressed")
  BY <1>1, <1>2 DEF PumpCommits
<1>4. WriteReleased
  BY <1>3, ReleaseWriteEffect
<1>5. /\ p \in PumpStates
      /\ p.batch = << >> /\ p.claim = pump.claim /\ p.full = pump.full
      /\ p.epoch = pump.epoch /\ p.reason = pump.reason
      /\ p.fullReported = pump.fullReported
  <2>1. << >> \in Seq(Events)
    BY EmptySeq
  <2> QED
    BY <2>1 DEF Shapes, PumpStates
<1> HIDE DEF p
<1>6. StepTaken(p, pump', "Progressed")
  BY <1>3, <1>5, AfterStepTaken DEF StepReports
<1>7. /\ slots' \in [0 .. 1 -> Seq(Events)]
      /\ slots'[ingress.write] = slots[ingress.write] \o pump.batch
      /\ slots'[1 - ingress.write] = slots[1 - ingress.write]
  <2>1. ingress.write \in 0 .. 1 /\ pump.claim.slot = ingress.write
    BY <1>1 DEF ClaimInv, WriteSteps, Shapes, X!ExchangeStates
  <2>2. slots \in [0 .. 1 -> Seq(Events)] /\ pump.batch \in Seq(Events)
    BY DEF Shapes, PumpStates
  <2> DEFINE w == ingress.write
             s == slots[w] \o pump.batch
  <2>3. s \in Seq(Events)
    BY <2>1, <2>2, ConcatProperties
  <2>4. slots' = [slots EXCEPT ![w] = s]
    BY <2>1, <1>3
  <2> HIDE DEF s
  <2>5. slots' \in [0 .. 1 -> Seq(Events)] /\ slots'[w] = s /\ slots'[1 - w] = slots[1 - w]
    BY <2>1, <2>2, <2>3, <2>4
  <2> QED
    BY <2>5 DEF s
<1> QED
  BY <1>1, <1>4, <1>5, <1>6, <1>7 DEF StepTaken

\* WaitForEvents: only an emptied, closed queue is reported as SourceClosed.
LEMMA PumpWaitsEffect ==
    ASSUME Shapes, PumpWaits
    PROVE  /\ PumpFrame /\ UNCHANGED <<source, ingress, slots, exchange>>
           /\ pump.pc = "wait"
           /\ \E report \in {"SourceFailure", "SourceClosed", "Idle"} :
                 /\ StepTaken(pump, pump', report)
                 /\ report = "SourceClosed" => source.closed /\ source.queue = << >>
<1>1. /\ PumpFrame /\ UNCHANGED <<source, ingress, slots, exchange>>
      /\ pump.pc = "wait"
      /\ \E report \in {"SourceFailure", "SourceClosed", "Idle"} :
            /\ pump' = AfterStep(pump, report)
            /\ report = "SourceClosed" => source.closed /\ source.queue = << >>
  BY DEF PumpWaits, PumpFrame, ingressVars, historyVars
<1>2. \A report \in StepReports : StepTaken(pump, AfterStep(pump, report), report)
  BY AfterStepTaken DEF Shapes
<1> QED
  BY <1>1, <1>2 DEF StepReports

\* The plan is taken: the pump leaves, reports a slot it found full, or goes to work.
LEMMA PumpTakesPlanEffect ==
    ASSUME Shapes, PumpTakesPlan
    PROVE  /\ PumpFrame /\ UNCHANGED <<source, ingress, slots>>
           /\ pump.pc = "takePlan"
           /\ pump' \in PumpStates /\ exchange' \in ChannelStates
           /\ pump'.claim = pump.claim /\ pump'.batch = pump.batch
           /\ pump'.full = pump.full /\ pump'.reason = pump.reason
           /\ exchange'.completion = exchange.completion
           /\ exchange'.closed = exchange.closed
           /\ \/ /\ exchange' = exchange
                 /\ pump'.epoch = pump.epoch /\ pump'.fullReported = pump.fullReported
                 /\ pump'.pc = "exit" /\ pump'.report = "StopRequested"
              \/ /\ exchange.plan # NoPlan /\ exchange'.plan = NoPlan
                 /\ pump'.epoch = exchange.plan
                 /\ \/ /\ pump.full /\ ~ pump.fullReported
                       /\ pump'.pc = "complete" /\ pump'.report = "SealedFull"
                       /\ pump'.fullReported
                    \/ /\ ~ (pump.full /\ ~ pump.fullReported)
                       /\ pump'.pc = "terminal"
                       /\ pump'.fullReported = pump.fullReported
<1>1. /\ PumpFrame /\ UNCHANGED <<source, ingress, slots>>
      /\ pump.pc = "takePlan"
  BY DEF PumpTakesPlan, PumpFrame, ingressVars, historyVars
<1>2. CASE /\ pump' = PumpExits(pump, "StopRequested")
           /\ UNCHANGED exchange
  <2>1. /\ PumpReports(pump, pump') /\ pump'.pc = "exit"
        /\ pump'.report = "StopRequested"
    BY <1>2, PumpReport DEF Shapes, Reports, StopReasons
  <2> QED
    BY <1>1, <1>2, <2>1 DEF PumpReports, Shapes
<1>3. CASE /\ exchange.plan # NoPlan
           /\ exchange' = [exchange EXCEPT !.plan = NoPlan]
           /\ LET p == [pump EXCEPT !.epoch = exchange.plan] IN
              pump' = IF pump.full /\ ~ pump.fullReported
                      THEN Completes([p EXCEPT !.fullReported = TRUE], "SealedFull")
                      ELSE [p EXCEPT !.pc = "terminal"]
  <2> DEFINE p == [pump EXCEPT !.epoch = exchange.plan]
             f == [p EXCEPT !.fullReported = TRUE]
  <2>1. /\ exchange' \in ChannelStates /\ exchange'.plan = NoPlan
        /\ exchange'.completion = exchange.completion
        /\ exchange'.closed = exchange.closed
    BY <1>3 DEF Shapes, ChannelStates, NoPlan
  <2>2. /\ p \in PumpStates /\ p.epoch = exchange.plan
        /\ p.claim = pump.claim /\ p.batch = pump.batch /\ p.full = pump.full
        /\ p.fullReported = pump.fullReported /\ p.reason = pump.reason
    BY DEF Shapes, PumpStates, ChannelStates
  <2>3. \/ /\ pump.full /\ ~ pump.fullReported
           /\ pump' = Completes(f, "SealedFull")
        \/ /\ ~ (pump.full /\ ~ pump.fullReported)
           /\ pump' = [p EXCEPT !.pc = "terminal"]
    BY <1>3
  <2> HIDE DEF p
  <2>4. /\ f \in PumpStates /\ f.fullReported /\ f.epoch = p.epoch
        /\ f.claim = p.claim /\ f.batch = p.batch /\ f.full = p.full
        /\ f.reason = p.reason
    BY <2>2, PumpNotesFull
  <2> HIDE DEF f
  <2>5. /\ PumpReports(f, Completes(f, "SealedFull"))
        /\ Completes(f, "SealedFull").pc = "complete"
        /\ Completes(f, "SealedFull").report = "SealedFull"
    BY <2>4, PumpReport DEF Reports
  <2>6. /\ PumpMoves(p, [p EXCEPT !.pc = "terminal"])
        /\ [p EXCEPT !.pc = "terminal"].pc = "terminal"
    BY <2>2, PumpMove DEF PumpPcs
  <2>7. CASE /\ pump.full /\ ~ pump.fullReported
             /\ pump' = Completes(f, "SealedFull")
    BY <1>1, <1>3, <2>1, <2>2, <2>4, <2>5, <2>7 DEF PumpReports
  <2>8. CASE /\ ~ (pump.full /\ ~ pump.fullReported)
             /\ pump' = [p EXCEPT !.pc = "terminal"]
    BY <1>1, <1>3, <2>1, <2>2, <2>6, <2>8 DEF PumpMoves
  <2> QED
    BY <2>3, <2>7, <2>8
<1> QED
  BY <1>2, <1>3 DEF PumpTakesPlan

\* The head of the terminal loop.
LEMMA PumpRunsTerminalEffect ==
    ASSUME Shapes, PumpRunsTerminal
    PROVE  /\ PumpFrame /\ UNCHANGED <<source, ingress, slots, exchange>>
           /\ pump.pc = "terminal"
           /\ PumpReports(pump, pump')
           /\ \/ pump'.pc = "acquire"
              \/ pump'.pc = "complete" /\ pump'.report = "TimedOut"
<1>1. /\ PumpFrame /\ UNCHANGED <<source, ingress, slots, exchange>>
      /\ pump.pc = "terminal"
      /\ \/ pump' = Completes(pump, "TimedOut")
         \/ pump' = [pump EXCEPT !.pc = "acquire"]
  BY DEF PumpRunsTerminal, PumpFrame, ingressVars, historyVars
<1>2. /\ PumpReports(pump, Completes(pump, "TimedOut"))
      /\ Completes(pump, "TimedOut").pc = "complete"
      /\ Completes(pump, "TimedOut").report = "TimedOut"
  BY PumpReport DEF Shapes, Reports
<1>3. /\ PumpMoves(pump, [pump EXCEPT !.pc = "acquire"])
      /\ [pump EXCEPT !.pc = "acquire"].pc = "acquire"
  BY PumpMove DEF Shapes, PumpPcs
<1> QED
  BY <1>1, <1>2, <1>3 DEF PumpReports, PumpMoves

\* The completion is handed over, or refused by a channel that is not in order.
LEMMA PumpCompletesEffect ==
    ASSUME Shapes, PumpCompletes
    PROVE  /\ PumpFrame /\ UNCHANGED <<source, ingress, slots>>
           /\ pump.pc = "complete"
           /\ PumpReports(pump, pump') /\ exchange' \in ChannelStates
           /\ exchange'.closed = exchange.closed /\ exchange'.plan = exchange.plan
           /\ \/ /\ exchange' = exchange
                 /\ pump'.pc = "exit" /\ pump'.report = "StopRequested"
              \/ /\ exchange.completion = NoCompletion
                 /\ exchange.plan = NoPlan
                 /\ exchange'.completion.epoch = pump.epoch
                 /\ exchange'.completion.reason = pump.report
                 /\ \/ pump'.pc = "takePlan" /\ pump.report = "SealedFull"
                    \/ /\ pump.report = "SourceClosed"
                       /\ pump'.pc = "exit" /\ pump'.report = "Completed"
                    \/ /\ pump.report \notin {"SourceClosed", "SealedFull"}
                       /\ pump'.pc = "exit" /\ pump'.report = "OperationFailed"
<1>1. /\ PumpFrame /\ UNCHANGED <<source, ingress, slots>>
      /\ pump.pc = "complete"
  BY DEF PumpCompletes, PumpFrame, ingressVars, historyVars
<1>2. \A r \in Reports : /\ PumpReports(pump, PumpExits(pump, r))
                          /\ PumpExits(pump, r).pc = "exit"
                          /\ PumpExits(pump, r).report = r
  BY PumpReport DEF Shapes
<1>5. /\ PumpMoves(pump, [pump EXCEPT !.pc = "takePlan"])
      /\ [pump EXCEPT !.pc = "takePlan"].pc = "takePlan"
  BY PumpMove DEF Shapes, PumpPcs
<1>3. CASE exchange.closed \/ exchange.plan # NoPlan \/ exchange.completion # NoCompletion
  <2>1. pump' = PumpExits(pump, "StopRequested") /\ exchange' = exchange
    BY <1>3 DEF PumpCompletes
  <2> QED
    BY <1>1, <1>2, <2>1 DEF Reports, StopReasons, Shapes
<1>4. CASE ~ (exchange.closed \/ exchange.plan # NoPlan \/ exchange.completion # NoCompletion)
  <2> DEFINE c == [epoch |-> pump.epoch, reason |-> pump.report]
  <2>1. exchange' = [exchange EXCEPT !.completion = c] /\ pump' = AfterCompletion
    BY <1>4 DEF PumpCompletes
  <2>2. c \in CompletionStates /\ c.epoch = pump.epoch /\ c.reason = pump.report
    BY DEF Shapes, PumpStates, CompletionStates
  <2> HIDE DEF c
  <2>3. /\ exchange' \in ChannelStates /\ exchange'.completion = c
        /\ exchange'.closed = exchange.closed /\ exchange'.plan = exchange.plan
    BY <2>1, <2>2 DEF Shapes, ChannelStates
  <2>4. \/ pump.report = "SealedFull" /\ pump' = [pump EXCEPT !.pc = "takePlan"]
        \/ pump.report = "SourceClosed" /\ pump' = PumpExits(pump, "Completed")
        \/ /\ pump.report \notin {"SourceClosed", "SealedFull"}
           /\ pump' = PumpExits(pump, "OperationFailed")
    BY <2>1 DEF AfterCompletion
  <2>5. \/ /\ PumpReports(pump, pump') /\ pump'.pc = "takePlan"
           /\ pump.report = "SealedFull"
        \/ /\ pump.report = "SourceClosed"
           /\ PumpReports(pump, pump') /\ pump'.pc = "exit" /\ pump'.report = "Completed"
        \/ /\ pump.report \notin {"SourceClosed", "SealedFull"}
           /\ PumpReports(pump, pump') /\ pump'.pc = "exit"
           /\ pump'.report = "OperationFailed"
    <3>1. /\ PumpReports(pump, PumpExits(pump, "Completed"))
          /\ PumpExits(pump, "Completed").pc = "exit"
          /\ PumpExits(pump, "Completed").report = "Completed"
          /\ PumpReports(pump, PumpExits(pump, "OperationFailed"))
          /\ PumpExits(pump, "OperationFailed").pc = "exit"
          /\ PumpExits(pump, "OperationFailed").report = "OperationFailed"
      BY <1>2 DEF Reports, StopReasons
    <3>2. PumpReports(pump, [pump EXCEPT !.pc = "takePlan"])
      BY <1>5 DEF PumpReports, PumpMoves
    <3> QED
      BY <1>5, <2>4, <3>1, <3>2
  <2> QED
    BY <1>1, <1>4, <2>2, <2>3, <2>5
<1> QED
  BY <1>3, <1>4

\* The pump's end publishes its reason and closes the channel.
LEMMA PumpEndsEffect ==
    ASSUME Shapes, PumpEnds
    PROVE  /\ PumpFrame /\ UNCHANGED <<source, ingress, slots>>
           /\ pump.pc = "exit" /\ pump'.pc = "end"
           /\ pump' \in PumpStates
           /\ pump'.reason = pump.report /\ pump'.claim = pump.claim
           /\ pump'.batch = pump.batch /\ pump'.full = pump.full
           /\ pump'.fullReported = pump.fullReported /\ pump'.epoch = pump.epoch
           /\ exchange' \in ChannelStates /\ exchange'.plan = exchange.plan
           /\ exchange'.completion = exchange.completion
BY DEF Shapes, PumpEnds, PumpFrame, PumpStates, ChannelStates, PumpPcs, ingressVars,
       historyVars

-----------------------------------------------------------------------------
(***************************************************************************)
(* The coordinator's actions.                                              *)
(***************************************************************************)
CoordinatorMoves(c, d) ==
    /\ d \in CoordinatorStates
    /\ d.epoch = c.epoch /\ d.terminal = c.terminal /\ d.slot = c.slot
    /\ d.ok = c.ok /\ d.completion = c.completion /\ d.reason = c.reason

\* The worker gives up: what it held stays as it is.
CoordinatorFails(c, d) ==
    /\ d \in CoordinatorStates
    /\ d.pc = "exit" /\ d.completion = "OperationFailed"
    /\ d.epoch = c.epoch /\ d.terminal = c.terminal /\ d.slot = c.slot
    /\ d.ok = c.ok /\ d.reason = c.reason

\* A coordinator whose program counter alone changes.
LEMMA CoordinatorMove ==
    ASSUME NEW c \in CoordinatorStates, NEW pc \in CoordinatorPcs
    PROVE  /\ CoordinatorMoves(c, [c EXCEPT !.pc = pc])
           /\ [c EXCEPT !.pc = pc].pc = pc
BY DEF CoordinatorStates, CoordinatorMoves

\* A coordinator that gives up.
LEMMA CoordinatorFailure ==
    ASSUME NEW c \in CoordinatorStates
    PROVE  CoordinatorFails(c, CoordinatorExits(c, "OperationFailed"))
BY DEF CoordinatorStates, CoordinatorFails, CoordinatorExits, CoordinatorPcs, Reports,
       StopReasons

\* A step that ends in a failure is marked as such and still releases its slot.
LEMMA CoordinatorNotOk ==
    ASSUME NEW c \in CoordinatorStates
    PROVE  LET d == [c EXCEPT !.pc = "release", !.ok = FALSE] IN
           /\ d \in CoordinatorStates /\ d.pc = "release" /\ ~ d.ok
           /\ d.epoch = c.epoch /\ d.terminal = c.terminal /\ d.slot = c.slot
           /\ d.completion = c.completion /\ d.reason = c.reason
BY DEF CoordinatorStates, CoordinatorPcs

CoordinatorNotOkStep ==
    /\ coordinator' \in CoordinatorStates
    /\ coordinator'.pc = "release" /\ ~ coordinator'.ok
    /\ coordinator'.epoch = coordinator.epoch
    /\ coordinator'.terminal = coordinator.terminal
    /\ coordinator'.slot = coordinator.slot
    /\ coordinator'.completion = coordinator.completion
    /\ coordinator'.reason = coordinator.reason

CoordinatorFrame ==
    UNCHANGED <<source, emitted, deadline, pump, publisher, host, submitted>>

\* The loop head: stop, or run one more tick.
LEMMA CoordinatorSleepsEffect ==
    ASSUME Shapes, CoordinatorSleeps
    PROVE  /\ CoordinatorFrame
           /\ UNCHANGED <<ingress, slots, exchange, outbound, flags, consumed, sealed>>
           /\ coordinator.pc = "loop"
           /\ CoordinatorMoves(coordinator, coordinator')
           /\ \/ coordinator'.pc = "stopped"
              \/ coordinator'.pc = "swap" /\ coordinator.epoch <= MaxTicks
<1>1. /\ CoordinatorFrame
      /\ UNCHANGED <<ingress, slots, exchange, outbound, flags, consumed, sealed>>
      /\ coordinator.pc = "loop"
      /\ \/ coordinator' = [coordinator EXCEPT !.pc = "stopped"]
         \/ /\ coordinator' = [coordinator EXCEPT !.pc = "swap"]
            /\ coordinator.epoch <= MaxTicks
  BY DEF CoordinatorSleeps, CoordinatorFrame, ingressVars, historyVars
<1>2. /\ CoordinatorMoves(coordinator, [coordinator EXCEPT !.pc = "stopped"])
      /\ [coordinator EXCEPT !.pc = "stopped"].pc = "stopped"
  BY CoordinatorMove DEF Shapes, CoordinatorPcs
<1>3. /\ CoordinatorMoves(coordinator, [coordinator EXCEPT !.pc = "swap"])
      /\ [coordinator EXCEPT !.pc = "swap"].pc = "swap"
  BY CoordinatorMove DEF Shapes, CoordinatorPcs
<1> QED
  BY <1>1, <1>2, <1>3

\* The slots change hands.
Swapped ==
    /\ ~ ingress.writeClaim /\ ~ ingress.readClaim /\ ~ ingress.readReady
    /\ ~ ingress.closed
    /\ ingress' \in X!ExchangeStates
    /\ ingress'.write = 1 - ingress.write
    /\ ingress'.generation = ingress.generation + 1
    /\ ingress'.readReady
    /\ ~ ingress'.writeClaim /\ ~ ingress'.readClaim
    /\ ~ ingress'.closed

\* Swap hands the written slot to the reader.
LEMMA SwapEffect ==
    ASSUME Shapes, X!SwapReady(ingress), ~ ingress.closed,
           ingress' = X!Swap(ingress, coordinator.epoch)
    PROVE  Swapped
<1> DEFINE w == 1 - ingress.write
           g == ingress.generation + 1
<1>1. coordinator.epoch \in Nat /\ w \in 0 .. 1 /\ g \in Nat \ {0}
  BY DEF Shapes, CoordinatorStates, X!ExchangeStates
<1>2. ingress' = [ingress EXCEPT !.write = w, !.generation = g,
                     !.publishedEpoch = coordinator.epoch, !.readReady = TRUE,
                     !.swapPending = FALSE]
  BY DEF X!Swap
<1> HIDE DEF w, g
<1>3. /\ ingress' \in X!ExchangeStates
      /\ ingress'.write = w /\ ingress'.generation = g
      /\ ingress'.readReady
      /\ ingress'.writeClaim = ingress.writeClaim
      /\ ingress'.readClaim = ingress.readClaim
      /\ ingress'.closed = ingress.closed
  BY <1>1, <1>2 DEF Shapes, X!ExchangeStates
<1> QED
  BY <1>3 DEF X!SwapReady, Swapped, w, g

\* An exchange of which only the pending request has changed.
ExchangeKept ==
    /\ ingress' \in X!ExchangeStates
    /\ ingress'.write = ingress.write
    /\ ingress'.generation = ingress.generation
    /\ ingress'.writeClaim = ingress.writeClaim
    /\ ingress'.readClaim = ingress.readClaim
    /\ ingress'.readReady = ingress.readReady
    /\ ingress'.closed = ingress.closed

\* Asking for a swap, withdrawing the request, or neither, moves no slot.
LEMMA ExchangeKeeps ==
    ASSUME Shapes
    PROVE  /\ ingress' = [ingress EXCEPT !.swapPending = TRUE] => ExchangeKept
           /\ ingress' = X!AbandonSwap(ingress) => ExchangeKept
           /\ ingress' = ingress => ExchangeKept
BY DEF Shapes, X!ExchangeStates, X!AbandonSwap, ExchangeKept

AfterSwapStep ==
    /\ CoordinatorMoves(coordinator, coordinator')
    /\ coordinator'.pc = IF coordinator.terminal THEN "acquire" ELSE "prepare"

\* After a swap the coordinator goes on with the tick, or with the terminal epoch.
LEMMA AfterSwapMoves ==
    ASSUME Shapes, coordinator' = AfterSwap(coordinator)
    PROVE  AfterSwapStep
<1>1. \A pc \in CoordinatorPcs :
         /\ CoordinatorMoves(coordinator, [coordinator EXCEPT !.pc = pc])
         /\ [coordinator EXCEPT !.pc = pc].pc = pc
  BY CoordinatorMove DEF Shapes
<1>2. coordinator' = [coordinator EXCEPT !.pc =
                         IF coordinator.terminal THEN "acquire" ELSE "prepare"]
  BY DEF AfterSwap
<1> QED
  BY <1>1, <1>2 DEF AfterSwapStep, CoordinatorPcs

\* WaitSwap: refused, done at once, or left pending.
LEMMA CoordinatorSwapsEffect ==
    ASSUME Shapes, CoordinatorSwaps
    PROVE  /\ CoordinatorFrame
           /\ UNCHANGED <<slots, exchange, outbound, flags, consumed, sealed>>
           /\ coordinator.pc = "swap"
           /\ \/ CoordinatorFails(coordinator, coordinator') /\ ExchangeKept
              \/ Swapped /\ AfterSwapStep
              \/ /\ CoordinatorMoves(coordinator, coordinator')
                 /\ coordinator'.pc = "swapWait" /\ ExchangeKept
<1>1. /\ CoordinatorFrame
      /\ UNCHANGED <<slots, exchange, outbound, flags, consumed, sealed>>
      /\ coordinator.pc = "swap"
      /\ \/ /\ coordinator' = CoordinatorExits(coordinator, "OperationFailed")
            /\ ingress' = ingress
         \/ /\ ~ ingress.closed /\ X!SwapReady(ingress)
            /\ ingress' = X!Swap(ingress, coordinator.epoch)
            /\ coordinator' = AfterSwap(coordinator)
         \/ /\ ingress' = [ingress EXCEPT !.swapPending = TRUE]
            /\ coordinator' = [coordinator EXCEPT !.pc = "swapWait"]
  BY DEF CoordinatorSwaps, CoordinatorFrame, historyVars
<1>2. CoordinatorFails(coordinator, CoordinatorExits(coordinator, "OperationFailed"))
  BY CoordinatorFailure DEF Shapes
<1>3. /\ CoordinatorMoves(coordinator, [coordinator EXCEPT !.pc = "swapWait"])
      /\ [coordinator EXCEPT !.pc = "swapWait"].pc = "swapWait"
  BY CoordinatorMove DEF Shapes, CoordinatorPcs
<1> QED
  BY <1>1, <1>2, <1>3, SwapEffect, ExchangeKeeps, AfterSwapMoves

\* The end of the wait: the swap, or a failure that moves no slot.
LEMMA CoordinatorWaitsSwapEffect ==
    ASSUME Shapes, CoordinatorWaitsSwap
    PROVE  /\ CoordinatorFrame
           /\ UNCHANGED <<slots, exchange, outbound, flags, consumed, sealed>>
           /\ coordinator.pc = "swapWait"
           /\ \/ CoordinatorFails(coordinator, coordinator') /\ ExchangeKept
              \/ Swapped /\ AfterSwapStep
<1>1. /\ CoordinatorFrame
      /\ UNCHANGED <<slots, exchange, outbound, flags, consumed, sealed>>
      /\ coordinator.pc = "swapWait"
      /\ \/ /\ coordinator' = CoordinatorExits(coordinator, "OperationFailed")
            /\ ingress' = X!AbandonSwap(ingress)
         \/ /\ ~ ingress.closed /\ X!SwapReady(ingress)
            /\ ingress' = X!Swap(ingress, coordinator.epoch)
            /\ coordinator' = AfterSwap(coordinator)
  BY DEF CoordinatorWaitsSwap, CoordinatorFrame, historyVars
<1>2. CoordinatorFails(coordinator, CoordinatorExits(coordinator, "OperationFailed"))
  BY CoordinatorFailure DEF Shapes
<1> QED
  BY <1>1, <1>2, SwapEffect, ExchangeKeeps, AfterSwapMoves

\* Nothing of the buffer changes but which slot the coordinator writes.
WritePrepared ==
    \/ /\ outbound.writeActive /\ outbound' = outbound
    \/ /\ ~ outbound.writeActive
       /\ outbound' \in BufferStates
       /\ outbound.state[outbound'.write] = "Empty"
       /\ outbound'.state = [outbound.state EXCEPT ![outbound'.write] = "Writing"]
       /\ outbound'.writeActive
       /\ outbound'.epoch = outbound.epoch /\ outbound'.records = outbound.records
       /\ outbound'.ready = outbound.ready /\ outbound'.readClaim = outbound.readClaim
       /\ outbound'.lastSealed = outbound.lastSealed
       /\ outbound'.writesFinished = outbound.writesFinished
       /\ outbound'.closed = outbound.closed

\* The least slot that is empty is one of them.
LEMMA LeastEmptySlot ==
    ASSUME NEW b, EmptySlots(b) # {}
    PROVE  /\ Min(EmptySlots(b)) \in OutboundSlots
           /\ b.state[Min(EmptySlots(b))] = "Empty"
<1> DEFINE E == EmptySlots(b)
<1>1. E \subseteq OutboundSlots /\ \A s \in E : b.state[s] = "Empty"
  BY DEF EmptySlots
<1>2. E \subseteq {0, 1, 2}
  BY <1>1, OutboundSlotsAssumption
<1>3. E # {}
  OBVIOUS
<1> HIDE DEF E
<1>4. \E x \in E : \A y \in E : x <= y
  <2>1. CASE 0 \in E
    BY <1>2, <2>1
  <2>2. CASE 0 \notin E /\ 1 \in E
    BY <1>2, <2>2
  <2>3. CASE 0 \notin E /\ 1 \notin E
    <3>1. 2 \in E /\ \A y \in E : y = 2
      BY <1>2, <1>3, <2>3
    <3> QED
      BY <3>1
  <2> QED
    BY <2>1, <2>2, <2>3
<1>5. Min(E) \in E
  BY <1>4 DEF Min
<1> QED
  BY <1>1, <1>5 DEF E

\* PrepareWrite keeps the active slot or takes an empty one.
LEMMA PrepareWriteEffect ==
    ASSUME Shapes, WriteSlotAvailable(outbound), outbound' = PrepareWrite(outbound)
    PROVE  WritePrepared
<1>1. CASE outbound.writeActive
  BY <1>1 DEF PrepareWrite, WritePrepared
<1>2. CASE ~ outbound.writeActive
  <2> DEFINE s == Min(EmptySlots(outbound))
  <2>1. outbound' = [outbound EXCEPT !.state[s] = "Writing", !.write = s,
                                     !.writeActive = TRUE]
    BY <1>2 DEF PrepareWrite
  <2>2. s \in OutboundSlots /\ outbound.state[s] = "Empty"
    BY <1>2, LeastEmptySlot DEF WriteSlotAvailable
  <2> HIDE DEF s
  <2> DEFINE st == [outbound.state EXCEPT ![s] = "Writing"]
  <2>3. st \in [OutboundSlots -> SlotStates]
    BY <2>2 DEF Shapes, BufferStates, SlotStates
  <2>4. outbound' = [outbound EXCEPT !.state = st, !.write = s, !.writeActive = TRUE]
    BY <2>1
  <2> HIDE DEF st
  <2>5. /\ outbound' \in BufferStates
        /\ outbound'.write = s /\ outbound'.state = st /\ outbound'.writeActive
        /\ outbound'.epoch = outbound.epoch /\ outbound'.records = outbound.records
        /\ outbound'.ready = outbound.ready /\ outbound'.readClaim = outbound.readClaim
        /\ outbound'.lastSealed = outbound.lastSealed
        /\ outbound'.writesFinished = outbound.writesFinished
        /\ outbound'.closed = outbound.closed
    BY <2>2, <2>3, <2>4 DEF Shapes, BufferStates
  <2> QED
    BY <1>2, <2>2, <2>5 DEF WritePrepared, st
<1> QED
  BY <1>1, <1>2

\* WaitPrepareWrite: a slot to write to, or a failure.
LEMMA CoordinatorPreparesEffect ==
    ASSUME Shapes, CoordinatorPrepares
    PROVE  /\ CoordinatorFrame
           /\ UNCHANGED <<ingress, slots, exchange, flags, consumed, sealed>>
           /\ coordinator.pc = "prepare"
           /\ \/ CoordinatorFails(coordinator, coordinator') /\ outbound' = outbound
              \/ /\ CoordinatorMoves(coordinator, coordinator')
                 /\ coordinator'.pc = "acquire"
                 /\ WritePrepared
<1>1. /\ CoordinatorFrame
      /\ UNCHANGED <<ingress, slots, exchange, flags, consumed, sealed>>
      /\ coordinator.pc = "prepare"
      /\ \/ /\ coordinator' = CoordinatorExits(coordinator, "OperationFailed")
            /\ outbound' = outbound
         \/ /\ WriteSlotAvailable(outbound)
            /\ outbound' = PrepareWrite(outbound)
            /\ coordinator' = [coordinator EXCEPT !.pc = "acquire"]
  BY DEF CoordinatorPrepares, CoordinatorFrame, ingressVars, historyVars
<1>2. CoordinatorFails(coordinator, CoordinatorExits(coordinator, "OperationFailed"))
  BY CoordinatorFailure DEF Shapes
<1>3. /\ CoordinatorMoves(coordinator, [coordinator EXCEPT !.pc = "acquire"])
      /\ [coordinator EXCEPT !.pc = "acquire"].pc = "acquire"
  BY CoordinatorMove DEF Shapes, CoordinatorPcs
<1> QED
  BY <1>1, <1>2, <1>3, PrepareWriteEffect

\* WaitAcquireRead: the slot just swapped in, or a failure.
LEMMA CoordinatorAcquiresEffect ==
    ASSUME Shapes, CoordinatorAcquires
    PROVE  /\ CoordinatorFrame
           /\ UNCHANGED <<slots, exchange, outbound, flags, consumed, sealed>>
           /\ coordinator.pc = "acquire"
           /\ \/ CoordinatorFails(coordinator, coordinator') /\ ExchangeKept
              \/ /\ ingress.readReady
                 /\ ingress' \in X!ExchangeStates
                 /\ ingress'.write = ingress.write
                 /\ ingress'.generation = ingress.generation
                 /\ ingress'.writeClaim = ingress.writeClaim
                 /\ ingress'.closed = ingress.closed
                 /\ ~ ingress'.readReady /\ ingress'.readClaim
                 /\ coordinator' \in CoordinatorStates
                 /\ coordinator'.pc = IF coordinator.terminal THEN "consume" ELSE "begin"
                 /\ coordinator'.slot = 1 - ingress.write
                 /\ coordinator'.epoch = coordinator.epoch
                 /\ coordinator'.terminal = coordinator.terminal
                 /\ coordinator'.ok = coordinator.ok
                 /\ coordinator'.completion = coordinator.completion
                 /\ coordinator'.reason = coordinator.reason
<1>1. /\ CoordinatorFrame
      /\ UNCHANGED <<slots, exchange, outbound, flags, consumed, sealed>>
      /\ coordinator.pc = "acquire"
  BY DEF CoordinatorAcquires, CoordinatorFrame, historyVars
<1>2. CASE ~ X!MayAcquireRead(ingress, coordinator.epoch)
  <2>1. /\ coordinator' = CoordinatorExits(coordinator, "OperationFailed")
        /\ ingress' = ingress
    BY <1>2 DEF CoordinatorAcquires
  <2> QED
    BY <1>1, <2>1, CoordinatorFailure, ExchangeKeeps DEF Shapes
<1>3. CASE X!MayAcquireRead(ingress, coordinator.epoch)
  <2> DEFINE pc == IF coordinator.terminal THEN "consume" ELSE "begin"
             s == 1 - ingress.write
  <2>1. /\ ingress' = X!AcquireRead(ingress)
        /\ coordinator' = [coordinator EXCEPT !.pc = pc, !.slot = s]
    BY <1>3 DEF CoordinatorAcquires, X!ReadSlot
  <2>2. pc \in CoordinatorPcs /\ s \in 0 .. 1
    BY DEF CoordinatorPcs, Shapes, X!ExchangeStates
  <2> HIDE DEF pc, s
  <2>3. /\ coordinator' \in CoordinatorStates
        /\ coordinator'.pc = pc /\ coordinator'.slot = s
        /\ coordinator'.epoch = coordinator.epoch
        /\ coordinator'.terminal = coordinator.terminal
        /\ coordinator'.ok = coordinator.ok
        /\ coordinator'.completion = coordinator.completion
        /\ coordinator'.reason = coordinator.reason
    BY <2>1, <2>2 DEF Shapes, CoordinatorStates
  <2>4. /\ ingress.readReady
        /\ ingress' \in X!ExchangeStates
        /\ ingress'.write = ingress.write
        /\ ingress'.generation = ingress.generation
        /\ ingress'.writeClaim = ingress.writeClaim
        /\ ingress'.closed = ingress.closed
        /\ ~ ingress'.readReady /\ ingress'.readClaim
    BY <2>1, <1>3 DEF Shapes, X!ExchangeStates, X!AcquireRead, X!MayAcquireRead
  <2> QED
    BY <1>1, <2>3, <2>4 DEF pc, s
<1> QED
  BY <1>2, <1>3

\* Nothing but the record of one slot's epoch or of its number of records.
EpochSet(s, epoch) ==
    /\ outbound' \in BufferStates
    /\ outbound'.epoch = [outbound.epoch EXCEPT ![s] = epoch]
    /\ outbound'.state = outbound.state /\ outbound'.records = outbound.records
    /\ outbound'.ready = outbound.ready /\ outbound'.write = outbound.write
    /\ outbound'.writeActive = outbound.writeActive
    /\ outbound'.readClaim = outbound.readClaim
    /\ outbound'.lastSealed = outbound.lastSealed
    /\ outbound'.writesFinished = outbound.writesFinished

\* Noting an epoch in the slot being written.
LEMMA SetEpochEffect ==
    ASSUME Shapes, NEW epoch \in Nat,
           outbound' = [outbound EXCEPT !.epoch[outbound.write] = epoch]
    PROVE  EpochSet(outbound.write, epoch)
<1> DEFINE e == [outbound.epoch EXCEPT ![outbound.write] = epoch]
<1>1. e \in [OutboundSlots -> Nat]
  BY DEF Shapes, BufferStates
<1>2. outbound' = [outbound EXCEPT !.epoch = e]
  OBVIOUS
<1> HIDE DEF e
<1>3. /\ outbound' \in BufferStates
      /\ outbound'.epoch = e
      /\ outbound'.state = outbound.state /\ outbound'.records = outbound.records
      /\ outbound'.ready = outbound.ready /\ outbound'.write = outbound.write
      /\ outbound'.writeActive = outbound.writeActive
      /\ outbound'.readClaim = outbound.readClaim
      /\ outbound'.lastSealed = outbound.lastSealed
      /\ outbound'.writesFinished = outbound.writesFinished
  BY <1>1, <1>2 DEF Shapes, BufferStates
<1> QED
  BY <1>3 DEF EpochSet, e

\* BeginWriteBatch: an empty slot takes the epoch, or the tick fails.
LEMMA CoordinatorBeginsEffect ==
    ASSUME Shapes, CoordinatorBegins
    PROVE  /\ CoordinatorFrame
           /\ UNCHANGED <<ingress, slots, exchange, flags, consumed, sealed>>
           /\ coordinator.pc = "begin"
           /\ \/ /\ EpochSet(outbound.write, coordinator.epoch)
                 /\ outbound.state[outbound.write] = "Writing"
                 /\ outbound.records[outbound.write] = 0
                 /\ CoordinatorMoves(coordinator, coordinator')
                 /\ coordinator'.pc = "handle"
              \/ CoordinatorNotOkStep /\ outbound' = outbound
<1>1. /\ CoordinatorFrame
      /\ UNCHANGED <<ingress, slots, exchange, flags, consumed, sealed>>
      /\ coordinator.pc = "begin"
      /\ \/ /\ outbound' = [outbound EXCEPT !.epoch[outbound.write] = coordinator.epoch]
            /\ outbound.state[outbound.write] = "Writing"
            /\ outbound.records[outbound.write] = 0
            /\ coordinator' = [coordinator EXCEPT !.pc = "handle"]
         \/ /\ coordinator' = [coordinator EXCEPT !.pc = "release", !.ok = FALSE]
            /\ outbound' = outbound
  BY DEF CoordinatorBegins, CoordinatorFrame, ingressVars, historyVars,
         MayBeginWriteBatch, BeginWriteBatch
<1>2. /\ CoordinatorMoves(coordinator, [coordinator EXCEPT !.pc = "handle"])
      /\ [coordinator EXCEPT !.pc = "handle"].pc = "handle"
  BY CoordinatorMove DEF Shapes, CoordinatorPcs
<1>3. coordinator' = [coordinator EXCEPT !.pc = "release", !.ok = FALSE]
        => CoordinatorNotOkStep
  BY CoordinatorNotOk DEF Shapes, CoordinatorNotOkStep
<1>4. coordinator.epoch \in Nat
  BY DEF Shapes, CoordinatorStates
<1>5. outbound' = [outbound EXCEPT !.epoch[outbound.write] = coordinator.epoch]
        => EpochSet(outbound.write, coordinator.epoch)
  BY <1>4, SetEpochEffect
<1> QED
  BY <1>1, <1>2, <1>3, <1>5

\* One more record in the slot being written.
RecordAdded ==
    /\ outbound' \in BufferStates
    /\ outbound'.records =
          [outbound.records EXCEPT ![outbound.write] = outbound.records[outbound.write] + 1]
    /\ outbound'.state = outbound.state /\ outbound'.epoch = outbound.epoch
    /\ outbound'.ready = outbound.ready /\ outbound'.write = outbound.write
    /\ outbound'.writeActive = outbound.writeActive
    /\ outbound'.readClaim = outbound.readClaim
    /\ outbound'.lastSealed = outbound.lastSealed
    /\ outbound'.writesFinished = outbound.writesFinished

\* Appending a record to the slot being written.
LEMMA AddRecordEffect ==
    ASSUME Shapes, outbound' = Append1(outbound)
    PROVE  RecordAdded
<1> DEFINE n == outbound.records[outbound.write] + 1
           r == [outbound.records EXCEPT ![outbound.write] = n]
<1>1. n \in Nat
  BY DEF Shapes, BufferStates
<1>2. r \in [OutboundSlots -> Nat]
  <2> HIDE DEF n
  <2> QED
    BY <1>1 DEF Shapes, BufferStates
<1>3. outbound' = [outbound EXCEPT !.records = r]
  BY DEF Append1
<1> HIDE DEF r
<1>4. /\ outbound' \in BufferStates
      /\ outbound'.records = r
      /\ outbound'.state = outbound.state /\ outbound'.epoch = outbound.epoch
      /\ outbound'.ready = outbound.ready /\ outbound'.write = outbound.write
      /\ outbound'.writeActive = outbound.writeActive
      /\ outbound'.readClaim = outbound.readClaim
      /\ outbound'.lastSealed = outbound.lastSealed
      /\ outbound'.writesFinished = outbound.writesFinished
  BY <1>2, <1>3 DEF Shapes, BufferStates
<1> QED
  BY <1>4 DEF RecordAdded, r

\* The tick handles the events of its slot, whether or not it succeeds.
LEMMA CoordinatorHandlesEffect ==
    ASSUME Shapes, CoordinatorHandles
    PROVE  /\ CoordinatorFrame
           /\ UNCHANGED <<ingress, slots, exchange, flags, sealed>>
           /\ coordinator.pc = "handle"
           /\ consumed' = consumed \o slots[coordinator.slot]
           /\ RecordAdded \/ outbound' = outbound
           /\ coordinator' \in CoordinatorStates
           /\ \/ coordinator'.ok /\ coordinator'.pc = "seal"
              \/ ~ coordinator'.ok /\ coordinator'.pc = "release"
           /\ coordinator'.epoch = coordinator.epoch
           /\ coordinator'.terminal = coordinator.terminal
           /\ coordinator'.slot = coordinator.slot
           /\ coordinator'.completion = coordinator.completion
           /\ coordinator'.reason = coordinator.reason
<1>1. /\ CoordinatorFrame
      /\ UNCHANGED <<ingress, slots, exchange, flags, sealed>>
      /\ coordinator.pc = "handle"
      /\ consumed' = consumed \o slots[coordinator.slot]
  BY DEF CoordinatorHandles, CoordinatorFrame, ingressVars
<1>2. PICK record \in BOOLEAN, ok \in {TRUE, ~ MayFail} :
         LET appended == record /\ ~ RefusesWrites(outbound)
             success == ok /\ (record => appended)
         IN /\ outbound' = IF appended THEN Append1(outbound) ELSE outbound
            /\ coordinator' = [coordinator EXCEPT !.ok = success,
                                  !.pc = IF success THEN "seal" ELSE "release"]
  BY DEF CoordinatorHandles
<1> DEFINE success == ok /\ (record => (record /\ ~ RefusesWrites(outbound)))
           pc == IF success THEN "seal" ELSE "release"
<1>3. ok \in BOOLEAN
  BY WorldWorkersAssumption
<1>4. success \in BOOLEAN /\ pc \in CoordinatorPcs
  BY <1>3 DEF CoordinatorPcs
<1>5. /\ outbound' = Append1(outbound) \/ outbound' = outbound
      /\ coordinator' = [coordinator EXCEPT !.ok = success, !.pc = pc]
  BY <1>2
<1>6. \/ success = TRUE /\ pc = "seal"
      \/ success = FALSE /\ pc = "release"
  OBVIOUS
<1> HIDE DEF success, pc
<1>7. /\ coordinator' \in CoordinatorStates
      /\ coordinator'.ok = success /\ coordinator'.pc = pc
      /\ coordinator'.epoch = coordinator.epoch
      /\ coordinator'.terminal = coordinator.terminal
      /\ coordinator'.slot = coordinator.slot
      /\ coordinator'.completion = coordinator.completion
      /\ coordinator'.reason = coordinator.reason
  BY <1>4, <1>5 DEF Shapes, CoordinatorStates
<1>8. RecordAdded \/ outbound' = outbound
  BY <1>5, AddRecordEffect
<1> QED
  BY <1>1, <1>6, <1>7, <1>8

\* The look at the flags before the seal.
LEMMA CoordinatorChecksSealEffect ==
    ASSUME Shapes, CoordinatorChecksSeal
    PROVE  /\ CoordinatorFrame
           /\ UNCHANGED <<ingress, slots, exchange, outbound, flags, consumed, sealed>>
           /\ coordinator.pc = "seal"
           /\ \/ CoordinatorNotOkStep
              \/ /\ CoordinatorMoves(coordinator, coordinator')
                 /\ coordinator'.pc = "sealLocked"
<1>1. /\ CoordinatorFrame
      /\ UNCHANGED <<ingress, slots, exchange, outbound, flags, consumed, sealed>>
      /\ coordinator.pc = "seal"
      /\ \/ coordinator' = [coordinator EXCEPT !.pc = "release", !.ok = FALSE]
         \/ coordinator' = [coordinator EXCEPT !.pc = "sealLocked"]
  BY DEF CoordinatorChecksSeal, CoordinatorFrame, ingressVars, historyVars
<1>2. /\ CoordinatorMoves(coordinator, [coordinator EXCEPT !.pc = "sealLocked"])
      /\ [coordinator EXCEPT !.pc = "sealLocked"].pc = "sealLocked"
  BY CoordinatorMove DEF Shapes, CoordinatorPcs
<1>3. coordinator' = [coordinator EXCEPT !.pc = "release", !.ok = FALSE]
        => CoordinatorNotOkStep
  BY CoordinatorNotOk DEF Shapes, CoordinatorNotOkStep
<1> QED
  BY <1>1, <1>2, <1>3

\* The written slot becomes the last of those ready to be read.
BatchSealed ==
    /\ outbound' \in BufferStates
    /\ outbound.writeActive
    /\ outbound.state[outbound.write] = "Writing"
    /\ outbound'.state = [outbound.state EXCEPT ![outbound.write] = "Sealed"]
    /\ outbound'.epoch = [outbound.epoch EXCEPT ![outbound.write] = coordinator.epoch]
    /\ outbound'.records = outbound.records
    /\ outbound'.ready = Append(outbound.ready, outbound.write)
    /\ outbound'.write = outbound.write
    /\ ~ outbound'.writeActive
    /\ outbound'.readClaim = outbound.readClaim
    /\ outbound'.lastSealed = coordinator.epoch
    /\ outbound'.writesFinished = outbound.writesFinished
    /\ sealed' = Append(sealed, coordinator.epoch)

\* SealWrite: an empty batch keeps its slot, any other is queued to be read.
LEMMA CoordinatorSealsEffect ==
    ASSUME Shapes, CoordinatorSeals
    PROVE  /\ CoordinatorFrame
           /\ UNCHANGED <<ingress, slots, exchange, flags, consumed>>
           /\ coordinator.pc = "sealLocked"
           /\ \/ /\ CoordinatorMoves(coordinator, coordinator')
                 /\ coordinator'.pc = "release"
                 /\ \/ EpochSet(outbound.write, 0) /\ sealed' = sealed
                       /\ outbound.state[outbound.write] = "Writing"
                    \/ BatchSealed
              \/ CoordinatorNotOkStep /\ outbound' = outbound /\ sealed' = sealed
<1>1. /\ CoordinatorFrame
      /\ UNCHANGED <<ingress, slots, exchange, flags, consumed>>
      /\ coordinator.pc = "sealLocked"
  BY DEF CoordinatorSeals, CoordinatorFrame, ingressVars
<1>2. CASE ~ MaySealWrite(outbound, coordinator.epoch)
  <2>1. /\ coordinator' = [coordinator EXCEPT !.pc = "release", !.ok = FALSE]
        /\ outbound' = outbound /\ sealed' = sealed
    BY <1>2 DEF CoordinatorSeals
  <2>2. CoordinatorNotOkStep
    BY <2>1, CoordinatorNotOk DEF Shapes, CoordinatorNotOkStep
  <2> QED
    BY <1>1, <2>1, <2>2
<1>3. CASE MaySealWrite(outbound, coordinator.epoch)
  <2>1. /\ outbound' = SealWrite(outbound, coordinator.epoch)
        /\ sealed' = IF outbound.records[outbound.write] = 0 THEN sealed
                     ELSE Append(sealed, coordinator.epoch)
        /\ coordinator' = [coordinator EXCEPT !.pc = "release"]
    BY <1>3 DEF CoordinatorSeals
  <2>2. /\ CoordinatorMoves(coordinator, coordinator')
        /\ coordinator'.pc = "release"
    BY <2>1, CoordinatorMove DEF Shapes, CoordinatorPcs
  <2>3. CASE outbound.records[outbound.write] = 0
    <3>1. outbound' = [outbound EXCEPT !.epoch[outbound.write] = 0]
      BY <2>1, <2>3 DEF SealWrite
    <3>2. EpochSet(outbound.write, 0)
      BY <3>1, SetEpochEffect
    <3> QED
      BY <1>1, <1>3, <2>1, <2>2, <2>3, <3>2 DEF MaySealWrite
  <2>4. CASE outbound.records[outbound.write] # 0
    <3> DEFINE w == outbound.write
               st == [outbound.state EXCEPT ![w] = "Sealed"]
               ep == [outbound.epoch EXCEPT ![w] = coordinator.epoch]
               rd == Append(outbound.ready, w)
    <3>1. /\ st \in [OutboundSlots -> SlotStates]
          /\ ep \in [OutboundSlots -> Nat]
      BY DEF Shapes, BufferStates, SlotStates, CoordinatorStates
    <3>2. rd \in Seq(OutboundSlots) /\ coordinator.epoch \in Nat
      BY AppendProperties DEF Shapes, BufferStates, CoordinatorStates
    <3>3. outbound' = [outbound EXCEPT !.epoch = ep, !.state = st,
                          !.lastSealed = coordinator.epoch, !.writeActive = FALSE,
                          !.ready = rd]
      BY <2>1, <2>4 DEF SealWrite
    <3> HIDE DEF st, ep, rd
    <3>4. /\ outbound' \in BufferStates
          /\ outbound'.state = st /\ outbound'.epoch = ep
          /\ outbound'.records = outbound.records /\ outbound'.ready = rd
          /\ outbound'.write = outbound.write /\ ~ outbound'.writeActive
          /\ outbound'.readClaim = outbound.readClaim
          /\ outbound'.lastSealed = coordinator.epoch
          /\ outbound'.writesFinished = outbound.writesFinished
      BY <3>1, <3>2, <3>3 DEF Shapes, BufferStates
    <3>5. BatchSealed
      BY <1>3, <2>1, <2>4, <3>4 DEF BatchSealed, MaySealWrite, st, ep, rd
    <3> QED
      BY <1>1, <2>2, <3>5
  <2> QED
    BY <2>3, <2>4
<1> QED
  BY <1>2, <1>3

\* The read slot is emptied and given back.
ReadReleased ==
    /\ slots' = [slots EXCEPT ![coordinator.slot] = << >>]
    /\ slots' \in [0 .. 1 -> Seq(Events)]
    /\ ingress' \in X!ExchangeStates
    /\ ingress'.write = ingress.write
    /\ ingress'.generation = ingress.generation
    /\ ingress'.writeClaim = ingress.writeClaim
    /\ ingress'.readReady = ingress.readReady
    /\ ingress'.closed = ingress.closed
    /\ ~ ingress'.readClaim

\* ReleaseRead empties the slot and gives it back.
LEMMA ReleaseReadEffect ==
    ASSUME Shapes, slots' = [slots EXCEPT ![coordinator.slot] = << >>],
           ingress' = X!ReleaseRead(ingress)
    PROVE  ReadReleased
<1>1. slots' \in [0 .. 1 -> Seq(Events)]
  <2>1. << >> \in Seq(Events)
    BY EmptySeq
  <2> QED
    BY <2>1 DEF Shapes
<1> QED
  BY <1>1 DEF Shapes, X!ExchangeStates, X!ReleaseRead, ReadReleased

\* The end of a tick: the next epoch, or the way out.
LEMMA CoordinatorReleasesEffect ==
    ASSUME Shapes, CoordinatorReleases
    PROVE  /\ CoordinatorFrame
           /\ UNCHANGED <<exchange, outbound, flags, consumed, sealed>>
           /\ coordinator.pc = "release"
           /\ ReadReleased
           /\ \/ CoordinatorFails(coordinator, coordinator')
              \/ /\ coordinator.ok
                 /\ coordinator' \in CoordinatorStates
                 /\ coordinator'.pc = "loop"
                 /\ coordinator'.epoch = coordinator.epoch + 1
                 /\ coordinator'.terminal = coordinator.terminal
                 /\ coordinator'.slot = coordinator.slot
                 /\ coordinator'.ok = coordinator.ok
                 /\ coordinator'.completion = coordinator.completion
                 /\ coordinator'.reason = coordinator.reason
<1>1. /\ CoordinatorFrame
      /\ UNCHANGED <<exchange, outbound, flags, consumed, sealed>>
      /\ coordinator.pc = "release"
      /\ ReadReleased
  BY ReleaseReadEffect DEF CoordinatorReleases, CoordinatorFrame, historyVars
<1>2. CASE ~ coordinator.ok
  <2>1. coordinator' = CoordinatorExits(coordinator, "OperationFailed")
    BY <1>2 DEF CoordinatorReleases
  <2> QED
    BY <1>1, <2>1, CoordinatorFailure DEF Shapes
<1>3. CASE coordinator.ok
  <2> DEFINE n == coordinator.epoch + 1
  <2>1. coordinator' = [coordinator EXCEPT !.pc = "loop", !.epoch = n]
    BY <1>3 DEF CoordinatorReleases
  <2>2. n \in Nat \ {0}
    BY DEF Shapes, CoordinatorStates
  <2> HIDE DEF n
  <2>3. /\ coordinator' \in CoordinatorStates
        /\ coordinator'.pc = "loop" /\ coordinator'.epoch = n
        /\ coordinator'.terminal = coordinator.terminal
        /\ coordinator'.slot = coordinator.slot
        /\ coordinator'.ok = coordinator.ok
        /\ coordinator'.completion = coordinator.completion
        /\ coordinator'.reason = coordinator.reason
    BY <2>1, <2>2 DEF Shapes, CoordinatorStates, CoordinatorPcs
  <2> QED
    BY <1>1, <1>3, <2>3 DEF n
<1> QED
  BY <1>2, <1>3

\* Leaving the tick loop for the terminal one.
LEMMA CoordinatorStopsEffect ==
    ASSUME Shapes, CoordinatorStops
    PROVE  /\ CoordinatorFrame
           /\ UNCHANGED <<ingress, slots, exchange, outbound, consumed, sealed>>
           /\ coordinator.pc = "stopped"
           /\ flags' \in Flags
           /\ flags'.drain = flags.drain /\ flags'.pumpStop = flags.pumpStop
           /\ flags'.publisherStop = flags.publisherStop
           /\ coordinator' \in CoordinatorStates
           /\ coordinator'.pc = "publish" /\ coordinator'.terminal
           /\ coordinator'.epoch = coordinator.epoch
           /\ coordinator'.slot = coordinator.slot /\ coordinator'.ok = coordinator.ok
           /\ coordinator'.completion = coordinator.completion
           /\ coordinator'.reason = coordinator.reason
<1>1. /\ CoordinatorFrame
      /\ UNCHANGED <<ingress, slots, exchange, outbound, consumed, sealed>>
      /\ coordinator.pc = "stopped"
      /\ flags' = [flags EXCEPT !.gameplayStopped = TRUE]
      /\ coordinator' = [coordinator EXCEPT !.pc = "publish", !.terminal = TRUE]
  BY DEF CoordinatorStops, CoordinatorFrame, ingressVars, historyVars
<1>2. /\ flags' \in Flags
      /\ flags'.drain = flags.drain /\ flags'.pumpStop = flags.pumpStop
      /\ flags'.publisherStop = flags.publisherStop
  BY <1>1 DEF Shapes, Flags
<1>3. /\ coordinator' \in CoordinatorStates
      /\ coordinator'.pc = "publish" /\ coordinator'.terminal
      /\ coordinator'.epoch = coordinator.epoch
      /\ coordinator'.slot = coordinator.slot /\ coordinator'.ok = coordinator.ok
      /\ coordinator'.completion = coordinator.completion
      /\ coordinator'.reason = coordinator.reason
  BY <1>1 DEF Shapes, CoordinatorStates, CoordinatorPcs
<1> QED
  BY <1>1, <1>2, <1>3

\* Publishing a plan needs an empty channel.
LEMMA CoordinatorPublishesEffect ==
    ASSUME Shapes, CoordinatorPublishes
    PROVE  /\ CoordinatorFrame
           /\ UNCHANGED <<ingress, slots, outbound, flags, consumed, sealed>>
           /\ coordinator.pc = "publish"
           /\ \/ CoordinatorFails(coordinator, coordinator') /\ exchange' = exchange
              \/ /\ exchange.plan = NoPlan
                 /\ exchange.completion = NoCompletion
                 /\ exchange' \in ChannelStates
                 /\ exchange'.plan = coordinator.epoch
                 /\ exchange'.completion = exchange.completion
                 /\ CoordinatorMoves(coordinator, coordinator')
                 /\ coordinator'.pc = "take"
<1>1. /\ CoordinatorFrame
      /\ UNCHANGED <<ingress, slots, outbound, flags, consumed, sealed>>
      /\ coordinator.pc = "publish"
      /\ \/ /\ coordinator' = CoordinatorExits(coordinator, "OperationFailed")
            /\ exchange' = exchange
         \/ /\ exchange.plan = NoPlan /\ exchange.completion = NoCompletion
            /\ exchange' = [exchange EXCEPT !.plan = coordinator.epoch]
            /\ coordinator' = [coordinator EXCEPT !.pc = "take"]
  BY DEF CoordinatorPublishes, CoordinatorFrame, ingressVars, historyVars
<1>2. CoordinatorFails(coordinator, CoordinatorExits(coordinator, "OperationFailed"))
  BY CoordinatorFailure DEF Shapes
<1>3. /\ CoordinatorMoves(coordinator, [coordinator EXCEPT !.pc = "take"])
      /\ [coordinator EXCEPT !.pc = "take"].pc = "take"
  BY CoordinatorMove DEF Shapes, CoordinatorPcs
<1>4. exchange' = [exchange EXCEPT !.plan = coordinator.epoch] =>
         /\ exchange' \in ChannelStates
         /\ exchange'.plan = coordinator.epoch
         /\ exchange'.completion = exchange.completion
  BY DEF Shapes, ChannelStates, CoordinatorStates
<1> QED
  BY <1>1, <1>2, <1>3, <1>4

\* A completion of this epoch is taken out; anything else ends the worker.
LEMMA CoordinatorTakesEffect ==
    ASSUME Shapes, CoordinatorTakes
    PROVE  /\ CoordinatorFrame
           /\ UNCHANGED <<ingress, slots, outbound, flags, consumed, sealed>>
           /\ coordinator.pc = "take"
           /\ \/ CoordinatorFails(coordinator, coordinator') /\ exchange' = exchange
              \/ /\ exchange.completion # NoCompletion
                 /\ exchange' \in ChannelStates
                 /\ exchange'.completion = NoCompletion
                 /\ exchange'.plan = exchange.plan
                 /\ coordinator' \in CoordinatorStates
                 /\ coordinator'.pc = "swap"
                 /\ coordinator'.completion = exchange.completion.reason
                 /\ coordinator'.epoch = coordinator.epoch
                 /\ coordinator'.terminal = coordinator.terminal
                 /\ coordinator'.slot = coordinator.slot
                 /\ coordinator'.ok = coordinator.ok
                 /\ coordinator'.reason = coordinator.reason
<1>1. /\ CoordinatorFrame
      /\ UNCHANGED <<ingress, slots, outbound, flags, consumed, sealed>>
      /\ coordinator.pc = "take"
  BY DEF CoordinatorTakes, CoordinatorFrame, ingressVars, historyVars
<1>2. CASE exchange.completion.epoch # coordinator.epoch
  <2>1. /\ coordinator' = CoordinatorExits(coordinator, "OperationFailed")
        /\ exchange' = exchange
    BY <1>2 DEF CoordinatorTakes
  <2> QED
    BY <1>1, <2>1, CoordinatorFailure DEF Shapes
<1>3. CASE exchange.completion.epoch = coordinator.epoch
  <2> DEFINE r == exchange.completion.reason
  <2>1. /\ exchange' = [exchange EXCEPT !.completion = NoCompletion]
        /\ coordinator' = [coordinator EXCEPT !.pc = "swap", !.completion = r]
    BY <1>3 DEF CoordinatorTakes
  <2>2. r \in Reports /\ coordinator.epoch # 0
    BY DEF Shapes, ChannelStates, CompletionStates, CoordinatorStates
  <2>3. exchange.completion # NoCompletion
    BY <1>3, <2>2 DEF NoCompletion
  <2>4. NoCompletion \in CompletionStates
    BY DEF NoCompletion, CompletionStates, Reports
  <2>5. /\ exchange' \in ChannelStates
        /\ exchange'.completion = NoCompletion
        /\ exchange'.plan = exchange.plan
    BY <2>1, <2>4 DEF Shapes, ChannelStates
  <2> HIDE DEF r
  <2>6. /\ coordinator' \in CoordinatorStates
        /\ coordinator'.pc = "swap" /\ coordinator'.completion = r
        /\ coordinator'.epoch = coordinator.epoch
        /\ coordinator'.terminal = coordinator.terminal
        /\ coordinator'.slot = coordinator.slot
        /\ coordinator'.ok = coordinator.ok
        /\ coordinator'.reason = coordinator.reason
    BY <2>1, <2>2 DEF Shapes, CoordinatorStates, CoordinatorPcs
  <2> QED
    BY <1>1, <2>3, <2>5, <2>6 DEF r
<1> QED
  BY <1>2, <1>3

\* The slot of a terminal epoch is discarded event by event.
LEMMA CoordinatorConsumesEffect ==
    ASSUME Shapes, CoordinatorConsumes
    PROVE  /\ CoordinatorFrame
           /\ UNCHANGED <<exchange, outbound, flags, sealed>>
           /\ coordinator.pc = "consume"
           /\ ReadReleased
           /\ consumed' = consumed \o slots[coordinator.slot]
           /\ coordinator' \in CoordinatorStates
           /\ coordinator'.terminal = coordinator.terminal
           /\ coordinator'.slot = coordinator.slot
           /\ coordinator'.ok = coordinator.ok
           /\ coordinator'.reason = coordinator.reason
           /\ \/ /\ coordinator.completion = "SourceClosed"
                 /\ coordinator'.pc = "exit" /\ coordinator'.completion = "Completed"
                 /\ coordinator'.epoch = coordinator.epoch
              \/ /\ coordinator.completion = "SealedFull"
                 /\ coordinator'.pc = "publish"
                 /\ coordinator'.completion = coordinator.completion
                 /\ coordinator'.epoch = coordinator.epoch + 1
              \/ CoordinatorFails(coordinator, coordinator')
<1>1. /\ CoordinatorFrame
      /\ UNCHANGED <<exchange, outbound, flags, sealed>>
      /\ coordinator.pc = "consume"
      /\ ReadReleased
      /\ consumed' = consumed \o slots[coordinator.slot]
      /\ coordinator' = AfterTerminalEpoch(coordinator)
  BY ReleaseReadEffect DEF CoordinatorConsumes, CoordinatorFrame
<1>2. CASE coordinator.completion = "SourceClosed"
  <2>1. coordinator' = [coordinator EXCEPT !.pc = "exit", !.completion = "Completed"]
    BY <1>1, <1>2 DEF AfterTerminalEpoch, CoordinatorExits
  <2> QED
    BY <1>1, <1>2, <2>1 DEF Shapes, CoordinatorStates, CoordinatorPcs, Reports, StopReasons
<1>3. CASE coordinator.completion = "SealedFull"
  <2> DEFINE n == coordinator.epoch + 1
  <2>1. coordinator' = [coordinator EXCEPT !.pc = "publish", !.epoch = n]
    BY <1>1, <1>3 DEF AfterTerminalEpoch
  <2>2. n \in Nat \ {0}
    BY DEF Shapes, CoordinatorStates
  <2> HIDE DEF n
  <2>3. /\ coordinator' \in CoordinatorStates
        /\ coordinator'.pc = "publish" /\ coordinator'.epoch = n
        /\ coordinator'.completion = coordinator.completion
        /\ coordinator'.terminal = coordinator.terminal
        /\ coordinator'.slot = coordinator.slot
        /\ coordinator'.ok = coordinator.ok
        /\ coordinator'.reason = coordinator.reason
    BY <2>1, <2>2 DEF Shapes, CoordinatorStates, CoordinatorPcs
  <2> QED
    BY <1>1, <1>3, <2>3 DEF n
<1>4. CASE coordinator.completion \notin {"SourceClosed", "SealedFull"}
  <2>1. coordinator' = CoordinatorExits(coordinator, "OperationFailed")
    BY <1>1, <1>4 DEF AfterTerminalEpoch
  <2>2. CoordinatorFails(coordinator, coordinator')
    BY <2>1, CoordinatorFailure DEF Shapes
  <2> QED
    BY <1>1, <2>2 DEF CoordinatorFails
<1> QED
  BY <1>2, <1>3, <1>4

\* The stop reason becomes visible.
LEMMA CoordinatorStoresReasonEffect ==
    ASSUME Shapes, CoordinatorStoresReason
    PROVE  /\ CoordinatorFrame
           /\ UNCHANGED <<ingress, slots, exchange, outbound, consumed, sealed>>
           /\ coordinator.pc = "exit" /\ coordinator'.pc = "close"
           /\ flags' \in Flags
           /\ flags'.drain = flags.drain /\ flags'.pumpStop = flags.pumpStop
           /\ flags'.publisherStop = flags.publisherStop
           /\ coordinator' \in CoordinatorStates
           /\ coordinator'.reason = coordinator.completion
           /\ coordinator'.terminal = coordinator.terminal
           /\ coordinator'.epoch = coordinator.epoch
           /\ coordinator'.slot = coordinator.slot /\ coordinator'.ok = coordinator.ok
           /\ coordinator'.completion = coordinator.completion
<1>1. /\ CoordinatorFrame
      /\ UNCHANGED <<ingress, slots, exchange, outbound, consumed, sealed>>
      /\ coordinator.pc = "exit"
      /\ flags' = [flags EXCEPT !.gameplayStopped = TRUE]
      /\ coordinator' = [coordinator EXCEPT !.pc = "close",
                                            !.reason = coordinator.completion]
  BY DEF CoordinatorStoresReason, CoordinatorFrame, ingressVars, historyVars
<1>2. /\ flags' \in Flags
      /\ flags'.drain = flags.drain /\ flags'.pumpStop = flags.pumpStop
      /\ flags'.publisherStop = flags.publisherStop
  BY <1>1 DEF Shapes, Flags
<1>3. coordinator.completion \in StopReasons
  BY <1>1 DEF Shapes
<1>4. /\ coordinator' \in CoordinatorStates /\ coordinator'.pc = "close"
      /\ coordinator'.reason = coordinator.completion
      /\ coordinator'.terminal = coordinator.terminal
      /\ coordinator'.epoch = coordinator.epoch
      /\ coordinator'.slot = coordinator.slot /\ coordinator'.ok = coordinator.ok
      /\ coordinator'.completion = coordinator.completion
  BY <1>1, <1>3 DEF Shapes, CoordinatorStates, CoordinatorPcs
<1> QED
  BY <1>1, <1>2, <1>4

\* A buffer that was closed, and one whose writes were finished.
BufferClosed ==
    /\ outbound' \in BufferStates
    /\ outbound'.state = outbound.state /\ outbound'.epoch = outbound.epoch
    /\ outbound'.records = outbound.records /\ outbound'.ready = outbound.ready
    /\ outbound'.write = outbound.write
    /\ outbound'.writeActive = outbound.writeActive
    /\ outbound'.readClaim = outbound.readClaim
    /\ outbound'.lastSealed = outbound.lastSealed
    /\ outbound'.writesFinished = outbound.writesFinished

\* Close touches only the closed flag.
LEMMA CloseBufferEffect ==
    ASSUME Shapes
    PROVE  /\ outbound' = Close(outbound) => BufferClosed
           /\ outbound' = outbound => BufferClosed
BY DEF Shapes, BufferStates, Close, BufferClosed

\* The channels are closed after the reason was stored.
LEMMA CoordinatorEndsEffect ==
    ASSUME Shapes, CoordinatorEnds
    PROVE  /\ CoordinatorFrame
           /\ UNCHANGED <<ingress, slots, flags, consumed, sealed>>
           /\ coordinator.pc = "close"
           /\ CoordinatorMoves(coordinator, coordinator') /\ coordinator'.pc = "end"
           /\ exchange' \in ChannelStates /\ exchange'.plan = exchange.plan
           /\ exchange'.completion = exchange.completion
           /\ BufferClosed
<1>1. /\ CoordinatorFrame
      /\ UNCHANGED <<ingress, slots, flags, consumed, sealed>>
      /\ coordinator.pc = "close"
      /\ coordinator' = [coordinator EXCEPT !.pc = "end"]
      /\ exchange' = [exchange EXCEPT !.closed = TRUE]
      /\ outbound' = outbound \/ outbound' = Close(outbound)
  BY DEF CoordinatorEnds, CoordinatorFrame, ingressVars, historyVars
<1>2. /\ CoordinatorMoves(coordinator, coordinator')
      /\ coordinator'.pc = "end"
  BY <1>1, CoordinatorMove DEF Shapes, CoordinatorPcs
<1>3. /\ exchange' \in ChannelStates /\ exchange'.plan = exchange.plan
      /\ exchange'.completion = exchange.completion
  BY <1>1 DEF Shapes, ChannelStates
<1>4. BufferClosed
  BY <1>1, CloseBufferEffect
<1> QED
  BY <1>1, <1>2, <1>3, <1>4

-----------------------------------------------------------------------------
(***************************************************************************)
(* The publisher's actions, and the runtime's.                             *)
(***************************************************************************)
PublisherFrame ==
    UNCHANGED <<source, emitted, ingress, slots, exchange, flags, deadline, pump,
                coordinator, host, consumed, sealed>>

\* The first sealed batch is taken out to be read.
BatchTaken ==
    /\ outbound.ready # << >>
    /\ ~ outbound.readClaim
    /\ outbound' \in BufferStates
    /\ outbound'.ready = Tail(outbound.ready)
    /\ outbound'.state = [outbound.state EXCEPT ![Head(outbound.ready)] = "Reading"]
    /\ outbound'.readClaim
    /\ outbound'.epoch = outbound.epoch /\ outbound'.records = outbound.records
    /\ outbound'.write = outbound.write
    /\ outbound'.writeActive = outbound.writeActive
    /\ outbound'.lastSealed = outbound.lastSealed
    /\ outbound'.writesFinished = outbound.writesFinished

\* AcquireRead takes the batch that was sealed first.
LEMMA AcquireReadEffect ==
    ASSUME Shapes, ReadReady(outbound), outbound' = AcquireRead(outbound)
    PROVE  BatchTaken /\ Head(outbound.ready) \in OutboundSlots
<1> DEFINE h == Head(outbound.ready)
           t == Tail(outbound.ready)
           st == [outbound.state EXCEPT ![h] = "Reading"]
<1>1. outbound.ready # << >> /\ ~ outbound.readClaim
  BY DEF ReadReady
<1>2. h \in OutboundSlots /\ t \in Seq(OutboundSlots)
  BY <1>1, HeadTailProperties DEF Shapes, BufferStates
<1>3. st \in [OutboundSlots -> SlotStates]
  BY <1>2 DEF Shapes, BufferStates, SlotStates
<1>4. outbound' = [outbound EXCEPT !.ready = t, !.readClaim = TRUE, !.state = st]
  BY DEF AcquireRead
<1> HIDE DEF h, t, st
<1>5. /\ outbound' \in BufferStates
      /\ outbound'.ready = t /\ outbound'.state = st /\ outbound'.readClaim
      /\ outbound'.epoch = outbound.epoch /\ outbound'.records = outbound.records
      /\ outbound'.write = outbound.write
      /\ outbound'.writeActive = outbound.writeActive
      /\ outbound'.lastSealed = outbound.lastSealed
      /\ outbound'.writesFinished = outbound.writesFinished
  BY <1>2, <1>3, <1>4 DEF Shapes, BufferStates
<1> QED
  BY <1>1, <1>2, <1>5 DEF BatchTaken, h, t, st

\* WaitAcquireRead: a batch, or a report of why there is none.
LEMMA PublisherAcquiresEffect ==
    ASSUME Shapes, PublisherAcquires
    PROVE  /\ PublisherFrame /\ submitted' = submitted
           /\ publisher.pc = "acquire"
           /\ publisher' \in PublisherStates
           /\ publisher'.reason = publisher.reason
           /\ \/ /\ BatchTaken
                 /\ publisher'.pc = "submit"
                 /\ publisher'.slot = Head(outbound.ready)
                 /\ publisher'.slot \in OutboundSlots
                 /\ publisher'.report = publisher.report
              \/ /\ outbound' = outbound
                 /\ publisher'.pc \in {"failed", "noBatch"}
                 /\ publisher'.pc = "failed" => publisher'.report = "AcquireFailed"
                 /\ publisher'.report = "Empty" =>
                       outbound.ready = << >> /\ outbound.writesFinished
<1>1. /\ PublisherFrame /\ submitted' = submitted
      /\ publisher.pc = "acquire"
  BY DEF PublisherAcquires, PublisherFrame, ingressVars, historyVars
<1>2. CASE ReadReady(outbound)
  <2> DEFINE h == Head(outbound.ready)
  <2>1. /\ outbound' = AcquireRead(outbound)
        /\ publisher' = [publisher EXCEPT !.pc = "submit", !.slot = h]
    BY <1>2 DEF PublisherAcquires
  <2>2. BatchTaken /\ h \in OutboundSlots
    BY <1>2, <2>1, AcquireReadEffect
  <2> HIDE DEF h
  <2>3. /\ publisher' \in PublisherStates
        /\ publisher'.pc = "submit" /\ publisher'.slot = h
        /\ publisher'.report = publisher.report
        /\ publisher'.reason = publisher.reason
    BY <2>1, <2>2 DEF Shapes, PublisherStates, PublisherPcs
  <2> QED
    BY <1>1, <2>2, <2>3 DEF h
<1>3. CASE ~ ReadReady(outbound)
  <2> DEFINE pc == IF outbound.closed THEN "failed" ELSE "noBatch"
             r == IF outbound.closed THEN "AcquireFailed"
                  ELSE IF Drained(outbound) THEN "Empty" ELSE "TimedOut"
  <2>1. /\ outbound' = outbound
        /\ publisher' = [publisher EXCEPT !.pc = pc, !.report = r]
    BY <1>3 DEF PublisherAcquires
  <2>2. /\ pc \in {"failed", "noBatch"}
        /\ pc = "failed" => r = "AcquireFailed"
        /\ r \in {"AcquireFailed", "Empty", "TimedOut"}
        /\ r = "Empty" => outbound.ready = << >> /\ outbound.writesFinished
    BY DEF Drained
  <2> HIDE DEF pc, r
  <2>3. /\ publisher' \in PublisherStates
        /\ publisher'.pc = pc /\ publisher'.report = r
        /\ publisher'.reason = publisher.reason
    BY <2>1, <2>2 DEF Shapes, PublisherStates, PublisherPcs
  <2> QED
    BY <1>1, <2>1, <2>2, <2>3
<1> QED
  BY <1>2, <1>3

\* The batch is submitted, or discarded, once.
LEMMA PublisherSubmitsEffect ==
    ASSUME Shapes, PublisherSubmits
    PROVE  /\ PublisherFrame /\ outbound' = outbound
           /\ publisher.pc = "submit" /\ publisher'.pc = "release"
           /\ submitted' = Append(submitted, outbound.epoch[publisher.slot])
           /\ publisher' \in PublisherStates
           /\ publisher'.slot = publisher.slot /\ publisher'.reason = publisher.reason
           /\ publisher'.report # "Empty"
<1>1. /\ PublisherFrame /\ outbound' = outbound
      /\ publisher.pc = "submit"
      /\ submitted' = Append(submitted, outbound.epoch[publisher.slot])
      /\ \E r \in {"Published", "PublicationFailed"} :
            publisher' = [publisher EXCEPT !.pc = "release", !.report = r]
  BY DEF PublisherSubmits, PublisherFrame, ingressVars
<1> QED
  BY <1>1 DEF Shapes, PublisherStates, PublisherPcs

\* The slot that was read is empty again.
SlotReturned ==
    /\ outbound' \in BufferStates
    /\ outbound'.state = [outbound.state EXCEPT ![publisher.slot] = "Empty"]
    /\ outbound'.epoch = [outbound.epoch EXCEPT ![publisher.slot] = 0]
    /\ outbound'.records = [outbound.records EXCEPT ![publisher.slot] = 0]
    /\ ~ outbound'.readClaim
    /\ outbound'.ready = outbound.ready /\ outbound'.write = outbound.write
    /\ outbound'.writeActive = outbound.writeActive
    /\ outbound'.lastSealed = outbound.lastSealed
    /\ outbound'.writesFinished = outbound.writesFinished

\* The slot that was read becomes free.
LEMMA PublisherReleasesEffect ==
    ASSUME Shapes, PublisherReleases
    PROVE  /\ PublisherFrame /\ submitted' = submitted
           /\ publisher.pc = "release" /\ publisher'.pc \in {"acquire", "failed"}
           /\ SlotReturned
           /\ publisher' \in PublisherStates
           /\ publisher'.report = publisher.report /\ publisher'.reason = publisher.reason
<1> DEFINE s == publisher.slot
           st == [outbound.state EXCEPT ![s] = "Empty"]
           ep == [outbound.epoch EXCEPT ![s] = 0]
           rc == [outbound.records EXCEPT ![s] = 0]
<1>1. /\ PublisherFrame /\ submitted' = submitted
      /\ publisher.pc = "release"
      /\ outbound' = [outbound EXCEPT !.records = rc, !.epoch = ep, !.state = st,
                                      !.readClaim = FALSE]
      /\ \E pc \in {"acquire", "failed"} :
            publisher' = [publisher EXCEPT !.slot = NoSlot, !.pc = pc]
  BY DEF PublisherReleases, PublisherFrame, ReleaseRead, ingressVars, historyVars
<1>2. /\ st \in [OutboundSlots -> SlotStates]
      /\ ep \in [OutboundSlots -> Nat]
      /\ rc \in [OutboundSlots -> Nat]
  BY DEF Shapes, BufferStates, SlotStates
<1> HIDE DEF st, ep, rc
<1>3. /\ outbound' \in BufferStates
      /\ outbound'.state = st /\ outbound'.epoch = ep /\ outbound'.records = rc
      /\ ~ outbound'.readClaim
      /\ outbound'.ready = outbound.ready /\ outbound'.write = outbound.write
      /\ outbound'.writeActive = outbound.writeActive
      /\ outbound'.lastSealed = outbound.lastSealed
      /\ outbound'.writesFinished = outbound.writesFinished
  BY <1>1, <1>2 DEF Shapes, BufferStates
<1>4. /\ publisher' \in PublisherStates /\ publisher'.pc \in {"acquire", "failed"}
      /\ publisher'.report = publisher.report /\ publisher'.reason = publisher.reason
  BY <1>1 DEF Shapes, PublisherStates, PublisherPcs
<1> QED
  BY <1>1, <1>3, <1>4 DEF SlotReturned, st, ep, rc

\* Without a batch the publisher leaves if it was asked to.
LEMMA PublisherFindsNoBatchEffect ==
    ASSUME Shapes, PublisherFindsNoBatch
    PROVE  /\ PublisherFrame /\ submitted' = submitted /\ outbound' = outbound
           /\ publisher.pc = "noBatch"
           /\ publisher' \in PublisherStates
           /\ publisher'.report = publisher.report /\ publisher'.reason = publisher.reason
           /\ \/ publisher'.pc = "exit" /\ (flags.drain \/ flags.publisherStop)
              \/ publisher'.pc = "acquire" /\ ~ flags.drain
<1>1. /\ PublisherFrame /\ submitted' = submitted /\ outbound' = outbound
      /\ publisher.pc = "noBatch"
      /\ \/ /\ publisher' = [publisher EXCEPT !.pc = "exit"]
            /\ flags.drain \/ flags.publisherStop
         \/ /\ publisher' = [publisher EXCEPT !.pc = "acquire"]
            /\ ~ flags.drain
  BY DEF PublisherFindsNoBatch, PublisherFrame, ingressVars, historyVars
<1> QED
  BY <1>1 DEF Shapes, PublisherStates, PublisherPcs

\* A failed publisher ends, unless it was asked to stop.
LEMMA PublisherFailsEffect ==
    ASSUME Shapes, PublisherFails
    PROVE  /\ PublisherFrame /\ submitted' = submitted
           /\ publisher.pc = "failed"
           /\ publisher' \in PublisherStates
           /\ publisher'.report = publisher.report
           /\ BufferClosed
           /\ \/ /\ publisher'.pc = "exit" /\ flags.publisherStop
                 /\ publisher'.reason = publisher.reason
              \/ /\ publisher'.pc = "end" /\ publisher'.reason = "OperationFailed"
<1>1. /\ PublisherFrame /\ submitted' = submitted
      /\ publisher.pc = "failed"
      /\ \/ /\ publisher' = [publisher EXCEPT !.pc = "exit"] /\ flags.publisherStop
            /\ outbound' = outbound
         \/ /\ publisher' = [publisher EXCEPT !.pc = "end", !.reason = "OperationFailed"]
            /\ outbound' = Close(outbound)
  BY DEF PublisherFails, PublisherFrame, ingressVars, historyVars
<1>2. BufferClosed
  BY <1>1, CloseBufferEffect
<1>3. /\ publisher' \in PublisherStates
      /\ publisher'.report = publisher.report
      /\ \/ /\ publisher'.pc = "exit" /\ flags.publisherStop
            /\ publisher'.reason = publisher.reason
         \/ /\ publisher'.pc = "end" /\ publisher'.reason = "OperationFailed"
  BY <1>1 DEF Shapes, PublisherStates, PublisherPcs, StopReasons
<1> QED
  BY <1>1, <1>2, <1>3

\* The reason names the request that the publisher obeyed.
LEMMA PublisherEndsEffect ==
    ASSUME Shapes, PublisherEnds
    PROVE  /\ PublisherFrame /\ submitted' = submitted
           /\ publisher.pc = "exit" /\ publisher'.pc = "end"
           /\ publisher' \in PublisherStates
           /\ publisher'.report = publisher.report
           /\ BufferClosed
           /\ \/ publisher'.reason = "Completed" /\ flags.drain
              \/ publisher'.reason = "StopRequested" /\ ~ flags.drain
<1>1. /\ PublisherFrame /\ submitted' = submitted
      /\ publisher.pc = "exit"
      /\ outbound' = Close(outbound)
      /\ \/ /\ publisher' = [publisher EXCEPT !.pc = "end", !.reason = "Completed"]
            /\ flags.drain
         \/ /\ publisher' = [publisher EXCEPT !.pc = "end", !.reason = "StopRequested"]
            /\ ~ flags.drain
  BY DEF PublisherEnds, PublisherFrame, ingressVars, historyVars
<1>2. BufferClosed
  BY <1>1, CloseBufferEffect
<1>3. /\ publisher' \in PublisherStates /\ publisher'.pc = "end"
      /\ publisher'.report = publisher.report
      /\ \/ publisher'.reason = "Completed" /\ flags.drain
         \/ publisher'.reason = "StopRequested" /\ ~ flags.drain
  BY <1>1 DEF Shapes, PublisherStates, PublisherPcs, StopReasons
<1> QED
  BY <1>1, <1>2, <1>3

RuntimeFrame ==
    UNCHANGED <<ingress, slots, exchange, outbound, flags, deadline, pump,
                coordinator, publisher, host, consumed, sealed, submitted>>

\* An event arrives at the end of the queue, while it is open.
LEMMA RuntimeEmitsEffect ==
    ASSUME Shapes, RuntimeEmits
    PROVE  /\ RuntimeFrame
           /\ ~ source.closed
           /\ emitted + 1 \in Events /\ emitted' = emitted + 1
           /\ source' \in SourceStates
           /\ source'.queue = Append(source.queue, emitted + 1)
           /\ source'.closed = source.closed
<1> DEFINE q == Append(source.queue, emitted + 1)
<1>1. /\ RuntimeFrame /\ ~ source.closed
      /\ emitted < MaxEvents /\ emitted' = emitted + 1
      /\ source' = [source EXCEPT !.queue = q]
  BY DEF RuntimeEmits, RuntimeFrame
<1>2. emitted + 1 \in Events
  BY <1>1, WorldWorkersAssumption DEF Events, Shapes
<1>3. q \in Seq(Events)
  BY <1>2, AppendProperties DEF Shapes, SourceStates
<1> HIDE DEF q
<1>4. source' \in SourceStates /\ source'.queue = q /\ source'.closed = source.closed
  BY <1>1, <1>3 DEF Shapes, SourceStates
<1> QED
  BY <1>1, <1>2, <1>4 DEF q

-----------------------------------------------------------------------------
(***************************************************************************)
(* The host's actions.                                                     *)
(***************************************************************************)
HostFrame == UNCHANGED <<emitted, slots, consumed, sealed, submitted>>

HostMoves(pc) ==
    /\ host' \in HostStates /\ host'.pc = pc
    /\ host'.gameplayStopped = host.gameplayStopped
    /\ host'.outboundDrained = host.outboundDrained
    /\ host'.result = host.result

\* A host whose program counter alone changes.
LEMMA HostMove ==
    ASSUME Shapes, NEW pc \in HostPcs, host' = [host EXCEPT !.pc = pc]
    PROVE  HostMoves(pc)
BY DEF Shapes, HostStates, HostMoves

\* The thread starts, or its reason says that it did not.
LEMMA HostStartsPublisherEffect ==
    ASSUME Shapes, HostStartsPublisher
    PROVE  /\ HostFrame
           /\ UNCHANGED <<source, ingress, exchange, outbound, flags, deadline, pump, coordinator>>
           /\ host.pc = "startPublisher"
           /\ publisher' \in PublisherStates
           /\ publisher'.slot = publisher.slot /\ publisher'.report = publisher.report
           /\ \/ /\ HostMoves("startPump")
                 /\ publisher'.pc = "acquire" /\ publisher'.reason = "Running"
              \/ /\ HostMoves("startFailed")
                 /\ publisher'.pc = publisher.pc /\ publisher'.reason = "StartFailed"
<1>1. /\ HostFrame
      /\ UNCHANGED <<source, ingress, exchange, outbound, flags, deadline, pump, coordinator>>
      /\ host.pc = "startPublisher"
      /\ \/ /\ publisher' = [publisher EXCEPT !.pc = "acquire", !.reason = "Running"]
            /\ host' = [host EXCEPT !.pc = "startPump"]
         \/ /\ publisher' = [publisher EXCEPT !.reason = "StartFailed"]
            /\ host' = [host EXCEPT !.pc = "startFailed"]
  BY DEF HostStartsPublisher, HostFrame, ingressVars, historyVars
<1>2. /\ publisher' \in PublisherStates
      /\ publisher'.slot = publisher.slot /\ publisher'.report = publisher.report
      /\ \/ /\ host' = [host EXCEPT !.pc = "startPump"]
            /\ publisher'.pc = "acquire" /\ publisher'.reason = "Running"
         \/ /\ host' = [host EXCEPT !.pc = "startFailed"]
            /\ publisher'.pc = publisher.pc /\ publisher'.reason = "StartFailed"
  BY <1>1 DEF Shapes, PublisherStates, PublisherPcs, StopReasons
<1> QED
  BY <1>1, <1>2, HostMove DEF HostPcs

\* The pump starts, or the start is rolled back.
LEMMA HostStartsPumpEffect ==
    ASSUME Shapes, HostStartsPump
    PROVE  /\ HostFrame
           /\ UNCHANGED <<source, ingress, exchange, outbound, flags, deadline, coordinator, publisher>>
           /\ host.pc = "startPump"
           /\ pump' \in PumpStates
           /\ pump'.claim = pump.claim /\ pump'.batch = pump.batch
           /\ pump'.full = pump.full /\ pump'.fullReported = pump.fullReported
           /\ pump'.epoch = pump.epoch /\ pump'.report = pump.report
           /\ \/ /\ HostMoves("startCoordinator")
                 /\ pump'.pc = "loop" /\ pump'.reason = "Running"
              \/ /\ HostMoves("rollbackPublisher")
                 /\ pump'.pc = pump.pc /\ pump'.reason = "StartFailed"
<1>1. /\ HostFrame
      /\ UNCHANGED <<source, ingress, exchange, outbound, flags, deadline, coordinator, publisher>>
      /\ host.pc = "startPump"
      /\ \/ /\ pump' = [pump EXCEPT !.pc = "loop", !.reason = "Running"]
            /\ host' = [host EXCEPT !.pc = "startCoordinator"]
         \/ /\ pump' = [pump EXCEPT !.reason = "StartFailed"]
            /\ host' = [host EXCEPT !.pc = "rollbackPublisher"]
  BY DEF HostStartsPump, HostFrame, ingressVars, historyVars
<1>2. /\ pump' \in PumpStates
      /\ pump'.claim = pump.claim /\ pump'.batch = pump.batch
      /\ pump'.full = pump.full /\ pump'.fullReported = pump.fullReported
      /\ pump'.epoch = pump.epoch /\ pump'.report = pump.report
      /\ \/ /\ host' = [host EXCEPT !.pc = "startCoordinator"]
            /\ pump'.pc = "loop" /\ pump'.reason = "Running"
         \/ /\ host' = [host EXCEPT !.pc = "rollbackPublisher"]
            /\ pump'.pc = pump.pc /\ pump'.reason = "StartFailed"
  <2>1. CASE /\ pump' = [pump EXCEPT !.pc = "loop", !.reason = "Running"]
             /\ host' = [host EXCEPT !.pc = "startCoordinator"]
    BY <2>1 DEF Shapes, PumpStates, PumpPcs, StopReasons
  <2>2. CASE /\ pump' = [pump EXCEPT !.reason = "StartFailed"]
             /\ host' = [host EXCEPT !.pc = "rollbackPublisher"]
    BY <2>2 DEF Shapes, PumpStates, StopReasons
  <2> QED
    BY <1>1, <2>1, <2>2
<1> QED
  BY <1>1, <1>2, HostMove DEF HostPcs

\* The coordinator starts, or the start is rolled back.
LEMMA HostStartsCoordinatorEffect ==
    ASSUME Shapes, HostStartsCoordinator
    PROVE  /\ HostFrame
           /\ UNCHANGED <<source, ingress, exchange, outbound, flags, deadline, pump, publisher>>
           /\ host.pc = "startCoordinator"
           /\ coordinator' \in CoordinatorStates
           /\ coordinator'.epoch = coordinator.epoch
           /\ coordinator'.terminal = coordinator.terminal
           /\ coordinator'.slot = coordinator.slot /\ coordinator'.ok = coordinator.ok
           /\ coordinator'.completion = coordinator.completion
           /\ \/ /\ HostMoves("running")
                 /\ coordinator'.pc = "loop" /\ coordinator'.reason = "Running"
              \/ /\ HostMoves("rollbackPump")
                 /\ coordinator'.pc = coordinator.pc
                 /\ coordinator'.reason = "StartFailed"
<1>1. /\ HostFrame
      /\ UNCHANGED <<source, ingress, exchange, outbound, flags, deadline, pump, publisher>>
      /\ host.pc = "startCoordinator"
      /\ \/ /\ coordinator' = [coordinator EXCEPT !.pc = "loop", !.reason = "Running"]
            /\ host' = [host EXCEPT !.pc = "running"]
         \/ /\ coordinator' = [coordinator EXCEPT !.reason = "StartFailed"]
            /\ host' = [host EXCEPT !.pc = "rollbackPump"]
  BY DEF HostStartsCoordinator, HostFrame, ingressVars, historyVars
<1>2. /\ coordinator' \in CoordinatorStates
      /\ coordinator'.epoch = coordinator.epoch
      /\ coordinator'.terminal = coordinator.terminal
      /\ coordinator'.slot = coordinator.slot /\ coordinator'.ok = coordinator.ok
      /\ coordinator'.completion = coordinator.completion
      /\ \/ /\ host' = [host EXCEPT !.pc = "running"]
            /\ coordinator'.pc = "loop" /\ coordinator'.reason = "Running"
         \/ /\ host' = [host EXCEPT !.pc = "rollbackPump"]
            /\ coordinator'.pc = coordinator.pc /\ coordinator'.reason = "StartFailed"
  BY <1>1 DEF Shapes, CoordinatorStates, CoordinatorPcs, StopReasons
<1> QED
  BY <1>1, <1>2, HostMove DEF HostPcs

\* Stopping the pump closes its exchange and its channel.
LEMMA HostStopsPumpEffect ==
    ASSUME Shapes, HostStopsPump
    PROVE  /\ HostFrame
           /\ UNCHANGED <<source, outbound, deadline, pump, coordinator, publisher>>
           /\ host.pc = "rollbackPump" /\ HostMoves("rollbackPublisher")
           /\ ingress' \in X!ExchangeStates
           /\ ingress'.write = ingress.write
           /\ ingress'.generation = ingress.generation
           /\ ingress'.writeClaim = ingress.writeClaim
           /\ ingress'.readClaim = ingress.readClaim
           /\ ingress'.readReady = ingress.readReady
           /\ exchange' \in ChannelStates /\ exchange'.plan = exchange.plan
           /\ exchange'.completion = exchange.completion
           /\ flags' \in Flags
           /\ flags'.drain = flags.drain
           /\ flags'.gameplayStopped = flags.gameplayStopped
           /\ flags'.publisherStop = flags.publisherStop
<1>1. /\ HostFrame
      /\ UNCHANGED <<source, outbound, deadline, pump, coordinator, publisher>>
      /\ host.pc = "rollbackPump"
      /\ host' = [host EXCEPT !.pc = "rollbackPublisher"]
      /\ ingress' = [ingress EXCEPT !.closed = TRUE]
      /\ exchange' = [exchange EXCEPT !.closed = TRUE]
      /\ flags' = [flags EXCEPT !.pumpStop = TRUE]
  BY DEF HostStopsPump, HostFrame, X!Close, historyVars
<1>2. HostMoves("rollbackPublisher")
  BY <1>1, HostMove DEF HostPcs
<1>3. /\ ingress' \in X!ExchangeStates
      /\ ingress'.write = ingress.write
      /\ ingress'.generation = ingress.generation
      /\ ingress'.writeClaim = ingress.writeClaim
      /\ ingress'.readClaim = ingress.readClaim
      /\ ingress'.readReady = ingress.readReady
  BY <1>1 DEF Shapes, X!ExchangeStates
<1>4. /\ exchange' \in ChannelStates /\ exchange'.plan = exchange.plan
      /\ exchange'.completion = exchange.completion
  BY <1>1 DEF Shapes, ChannelStates
<1>5. /\ flags' \in Flags /\ flags'.drain = flags.drain
      /\ flags'.gameplayStopped = flags.gameplayStopped
      /\ flags'.publisherStop = flags.publisherStop
  BY <1>1 DEF Shapes, Flags
<1> QED
  BY <1>1, <1>2, <1>3, <1>4, <1>5

\* Stopping the publisher closes the outbound buffer.
LEMMA HostStopsPublisherEffect ==
    ASSUME Shapes, HostStopsPublisher
    PROVE  /\ HostFrame
           /\ UNCHANGED <<source, ingress, exchange, deadline, pump, coordinator, publisher>>
           /\ host.pc = "rollbackPublisher" /\ HostMoves("joinStarted")
           /\ BufferClosed
           /\ flags' \in Flags
           /\ flags'.drain = flags.drain
           /\ flags'.gameplayStopped = flags.gameplayStopped
           /\ flags'.pumpStop = flags.pumpStop /\ flags'.publisherStop
<1>1. /\ HostFrame
      /\ UNCHANGED <<source, ingress, exchange, deadline, pump, coordinator, publisher>>
      /\ host.pc = "rollbackPublisher"
      /\ host' = [host EXCEPT !.pc = "joinStarted"]
      /\ outbound' = Close(outbound)
      /\ flags' = [flags EXCEPT !.publisherStop = TRUE]
  BY DEF HostStopsPublisher, HostFrame, ingressVars, historyVars
<1>2. HostMoves("joinStarted")
  BY <1>1, HostMove DEF HostPcs
<1>3. BufferClosed
  BY <1>1, CloseBufferEffect
<1>4. /\ flags' \in Flags /\ flags'.drain = flags.drain
      /\ flags'.gameplayStopped = flags.gameplayStopped
      /\ flags'.pumpStop = flags.pumpStop /\ flags'.publisherStop
  BY <1>1 DEF Shapes, Flags
<1> QED
  BY <1>1, <1>2, <1>3, <1>4

\* The host's steps that touch nothing but its own locals and the deadline.
HostAlone ==
    /\ HostFrame
    /\ UNCHANGED <<source, ingress, exchange, outbound, flags, pump, coordinator, publisher>>

\* The end of a rolled back start.
LEMMA HostJoinsStartedEffect ==
    ASSUME Shapes, HostJoinsStarted
    PROVE  /\ HostAlone /\ deadline' = deadline
           /\ host.pc = "joinStarted" /\ HostMoves("startFailed")
<1>1. /\ HostAlone /\ deadline' = deadline
      /\ host.pc = "joinStarted" /\ host' = [host EXCEPT !.pc = "startFailed"]
  BY DEF HostJoinsStarted, HostAlone, HostFrame, ingressVars, historyVars
<1> QED
  BY <1>1, HostMove DEF HostPcs

\* The request to stop gameplay.
LEMMA BeginShutdownEffect ==
    ASSUME Shapes, BeginShutdown
    PROVE  /\ HostFrame
           /\ UNCHANGED <<source, ingress, exchange, outbound, deadline, pump, coordinator, publisher>>
           /\ host.pc = "running" /\ HostMoves("waitGameplay")
           /\ flags' \in Flags
           /\ flags'.drain = flags.drain
           /\ flags'.gameplayStopped = flags.gameplayStopped
           /\ flags'.pumpStop = flags.pumpStop
           /\ flags'.publisherStop = flags.publisherStop
<1>1. /\ HostFrame
      /\ UNCHANGED <<source, ingress, exchange, outbound, deadline, pump, coordinator, publisher>>
      /\ host.pc = "running"
      /\ host' = [host EXCEPT !.pc = "waitGameplay"]
      /\ flags' = [flags EXCEPT !.gameplayStop = TRUE]
  BY DEF BeginShutdown, HostFrame, ingressVars, historyVars
<1>2. HostMoves("waitGameplay")
  BY <1>1, HostMove DEF HostPcs
<1>3. /\ flags' \in Flags /\ flags'.drain = flags.drain
      /\ flags'.gameplayStopped = flags.gameplayStopped
      /\ flags'.pumpStop = flags.pumpStop
      /\ flags'.publisherStop = flags.publisherStop
  BY <1>1 DEF Shapes, Flags
<1> QED
  BY <1>1, <1>2, <1>3

\* The bounded wait notes whether gameplay has stopped.
LEMMA HostWaitsGameplayEffect ==
    ASSUME Shapes, HostWaitsGameplay
    PROVE  /\ HostAlone /\ deadline' = deadline
           /\ host.pc = "waitGameplay" /\ host'.pc = "drain"
           /\ host' \in HostStates
           /\ host'.gameplayStopped = GameplayHasStopped
           /\ host'.outboundDrained = host.outboundDrained
           /\ host'.result = host.result
<1> DEFINE g == GameplayHasStopped
<1>1. /\ HostAlone /\ deadline' = deadline
      /\ host.pc = "waitGameplay"
      /\ host' = [host EXCEPT !.pc = "drain", !.gameplayStopped = g]
  BY DEF HostWaitsGameplay, HostAlone, HostFrame, ingressVars, historyVars
<1>2. g \in BOOLEAN
  BY DEF GameplayHasStopped, Shapes, Flags
<1> HIDE DEF g
<1>3. /\ host' \in HostStates /\ host'.pc = "drain"
      /\ host'.gameplayStopped = g
      /\ host'.outboundDrained = host.outboundDrained
      /\ host'.result = host.result
  BY <1>1, <1>2 DEF Shapes, HostStates, HostPcs
<1> QED
  BY <1>1, <1>3 DEF g

\* The drain request.
LEMMA HostRequestsDrainEffect ==
    ASSUME Shapes, HostRequestsDrain
    PROVE  /\ HostFrame
           /\ UNCHANGED <<source, ingress, exchange, outbound, deadline, pump, coordinator, publisher>>
           /\ host.pc = "drain" /\ HostMoves("finishWrites")
           /\ flags' \in Flags /\ flags'.drain
           /\ flags'.gameplayStopped = flags.gameplayStopped
           /\ flags'.pumpStop = flags.pumpStop
           /\ flags'.publisherStop = flags.publisherStop
<1>1. /\ HostFrame
      /\ UNCHANGED <<source, ingress, exchange, outbound, deadline, pump, coordinator, publisher>>
      /\ host.pc = "drain"
      /\ host' = [host EXCEPT !.pc = "finishWrites"]
      /\ flags' = [flags EXCEPT !.drain = TRUE]
  BY DEF HostRequestsDrain, HostFrame, ingressVars, historyVars
<1>2. HostMoves("finishWrites")
  BY <1>1, HostMove DEF HostPcs
<1>3. /\ flags' \in Flags /\ flags'.drain
      /\ flags'.gameplayStopped = flags.gameplayStopped
      /\ flags'.pumpStop = flags.pumpStop
      /\ flags'.publisherStop = flags.publisherStop
  BY <1>1 DEF Shapes, Flags
<1> QED
  BY <1>1, <1>2, <1>3

\* No batch is written after FinishWrites.
LEMMA HostFinishesWritesEffect ==
    ASSUME Shapes, HostFinishesWrites
    PROVE  /\ HostFrame
           /\ UNCHANGED <<source, ingress, exchange, flags, deadline, pump, coordinator, publisher>>
           /\ host.pc = "finishWrites" /\ HostMoves("joinPublisher")
           /\ outbound' \in BufferStates /\ outbound'.writesFinished
           /\ outbound'.state = outbound.state /\ outbound'.epoch = outbound.epoch
           /\ outbound'.records = outbound.records /\ outbound'.ready = outbound.ready
           /\ outbound'.write = outbound.write
           /\ outbound'.writeActive = outbound.writeActive
           /\ outbound'.readClaim = outbound.readClaim
           /\ outbound'.lastSealed = outbound.lastSealed
<1>1. /\ HostFrame
      /\ UNCHANGED <<source, ingress, exchange, flags, deadline, pump, coordinator, publisher>>
      /\ host.pc = "finishWrites"
      /\ host' = [host EXCEPT !.pc = "joinPublisher"]
      /\ outbound' = [outbound EXCEPT !.writesFinished = TRUE]
  BY DEF HostFinishesWrites, HostFrame, FinishWrites, ingressVars, historyVars
<1>2. HostMoves("joinPublisher")
  BY <1>1, HostMove DEF HostPcs
<1> QED
  BY <1>1, <1>2 DEF Shapes, BufferStates

\* The join notes whether the publisher left as asked.
LEMMA HostJoinsPublisherEffect ==
    ASSUME Shapes, HostJoinsPublisher
    PROVE  /\ HostAlone /\ deadline' = deadline
           /\ host.pc = "joinPublisher" /\ host'.pc = "terminalConsume"
           /\ publisher.pc = "end"
           /\ host' \in HostStates
           /\ host'.gameplayStopped = host.gameplayStopped
           /\ host'.outboundDrained => publisher.reason \in {"Completed", "StopRequested"}
           /\ host'.result = host.result
<1>1. /\ HostAlone /\ deadline' = deadline
      /\ host.pc = "joinPublisher" /\ publisher.pc = "end"
      /\ host' = [host EXCEPT !.pc = "terminalConsume",
                    !.outboundDrained = publisher.reason \in {"Completed", "StopRequested"}]
  BY DEF HostJoinsPublisher, HostAlone, HostFrame, ingressVars, historyVars
<1>2. (publisher.reason \in {"Completed", "StopRequested"}) \in BOOLEAN
  OBVIOUS
<1> QED
  BY <1>1, <1>2 DEF Shapes, HostStates, HostPcs

\* The terminal deadline is set.
LEMMA HostEntersTerminalConsumeEffect ==
    ASSUME Shapes, HostEntersTerminalConsume
    PROVE  /\ HostAlone /\ deadline' = "set"
           /\ host.pc = "terminalConsume" /\ HostMoves("terminalDrain")
<1>1. /\ HostAlone /\ deadline' = "set"
      /\ host.pc = "terminalConsume" /\ host' = [host EXCEPT !.pc = "terminalDrain"]
  BY DEF HostEntersTerminalConsume, HostAlone, HostFrame, ingressVars, historyVars
<1> QED
  BY <1>1, HostMove DEF HostPcs

\* The pump may end its normal loop.
LEMMA HostEntersTerminalDrainEffect ==
    ASSUME Shapes, HostEntersTerminalDrain
    PROVE  /\ HostFrame
           /\ UNCHANGED <<source, ingress, exchange, outbound, deadline, pump, coordinator, publisher>>
           /\ host.pc = "terminalDrain" /\ HostMoves("shutdown")
           /\ flags' \in Flags /\ flags'.drain = flags.drain
           /\ flags'.gameplayStopped = flags.gameplayStopped
           /\ flags'.pumpStop = flags.pumpStop
           /\ flags'.publisherStop = flags.publisherStop
<1>1. /\ HostFrame
      /\ UNCHANGED <<source, ingress, exchange, outbound, deadline, pump, coordinator, publisher>>
      /\ host.pc = "terminalDrain"
      /\ host' = [host EXCEPT !.pc = "shutdown"]
      /\ flags' = [flags EXCEPT !.terminalDrain = TRUE]
  BY DEF HostEntersTerminalDrain, HostFrame, ingressVars, historyVars
<1>2. HostMoves("shutdown")
  BY <1>1, HostMove DEF HostPcs
<1>3. /\ flags' \in Flags /\ flags'.drain = flags.drain
      /\ flags'.gameplayStopped = flags.gameplayStopped
      /\ flags'.pumpStop = flags.pumpStop
      /\ flags'.publisherStop = flags.publisherStop
  BY <1>1 DEF Shapes, Flags
<1> QED
  BY <1>1, <1>2, <1>3

\* The runtime's queue is closed.
LEMMA HostShutsDownRuntimeEffect ==
    ASSUME Shapes, HostShutsDownRuntime
    PROVE  /\ HostFrame
           /\ UNCHANGED <<ingress, exchange, outbound, flags, deadline, pump, coordinator, publisher>>
           /\ host.pc = "shutdown" /\ HostMoves("joinPump")
           /\ source' \in SourceStates /\ source'.closed
           /\ source'.queue = source.queue
<1>1. PICK ok \in {TRUE, ~ MayFail} :
         host' = [host EXCEPT !.pc = "joinPump", !.runtimeStopped = ok]
  BY DEF HostShutsDownRuntime
<1>2. ok \in BOOLEAN
  BY WorldWorkersAssumption
<1>3. HostMoves("joinPump")
  BY <1>1, <1>2 DEF Shapes, HostStates, HostPcs, HostMoves
<1>4. source' \in SourceStates /\ source'.closed /\ source'.queue = source.queue
  BY DEF HostShutsDownRuntime, Shapes, SourceStates
<1>5. /\ HostFrame
      /\ UNCHANGED <<ingress, exchange, outbound, flags, deadline, pump, coordinator, publisher>>
      /\ host.pc = "shutdown"
  BY DEF HostShutsDownRuntime, HostFrame, historyVars
<1> QED
  BY <1>3, <1>4, <1>5

\* The pump is joined before the coordinator.
LEMMA HostJoinsPumpEffect ==
    ASSUME Shapes, HostJoinsPump
    PROVE  /\ HostAlone /\ deadline' = deadline
           /\ host.pc = "joinPump" /\ HostMoves("joinCoordinator")
<1>1. /\ HostAlone /\ deadline' = deadline
      /\ host.pc = "joinPump" /\ host' = [host EXCEPT !.pc = "joinCoordinator"]
  BY DEF HostJoinsPump, HostAlone, HostFrame, ingressVars, historyVars
<1> QED
  BY <1>1, HostMove DEF HostPcs

\* A shutdown reported Completed has seen two completed workers and the drain.
LEMMA HostReportsEffect ==
    ASSUME Shapes, HostReports
    PROVE  /\ HostAlone /\ deadline' = deadline
           /\ host.pc = "joinCoordinator" /\ host'.pc = "report"
           /\ host' \in HostStates
           /\ host'.gameplayStopped = host.gameplayStopped
           /\ host'.outboundDrained = host.outboundDrained
           /\ host'.result = "Completed" =>
                 /\ host.outboundDrained
                 /\ pump.reason = "Completed" /\ coordinator.reason = "Completed"
<1> DEFINE r == ShutdownResult
<1>1. /\ HostAlone /\ deadline' = deadline
      /\ host.pc = "joinCoordinator"
      /\ host' = [host EXCEPT !.pc = "report", !.result = r]
  BY DEF HostReports, HostAlone, HostFrame, ingressVars, historyVars
<1>2. /\ r \in Results
      /\ r = "Completed" =>
            /\ host.outboundDrained
            /\ pump.reason = "Completed" /\ coordinator.reason = "Completed"
  BY DEF ShutdownResult, TerminalIngressDrained, Results
<1> HIDE DEF r
<1>3. /\ host' \in HostStates /\ host'.pc = "report"
      /\ host'.gameplayStopped = host.gameplayStopped
      /\ host'.outboundDrained = host.outboundDrained
      /\ host'.result = r
  BY <1>1, <1>2 DEF Shapes, HostStates, HostPcs
<1> QED
  BY <1>1, <1>2, <1>3

-----------------------------------------------------------------------------
(***************************************************************************)
(* Each part of the invariant is kept by every step.                       *)
(***************************************************************************)
\* What a whole thread leaves alone.
LEMMA PumpNextFrame ==
    ASSUME PumpNext
    PROVE  PumpFrame
BY DEF PumpNext, PumpFrame, PumpLoops, PumpAcquires, SealFullSlot, PumpPops,
       PumpFindsNothing, PumpCommits, PumpWaits, PumpTakesPlan, PumpRunsTerminal,
       PumpCompletes, PumpEnds, ingressVars, historyVars

\* What the coordinator leaves alone.
LEMMA CoordinatorNextFrame ==
    ASSUME CoordinatorNext
    PROVE  CoordinatorFrame
BY DEF CoordinatorNext, CoordinatorFrame, CoordinatorSleeps, CoordinatorSwaps,
       CoordinatorWaitsSwap, CoordinatorPrepares, CoordinatorAcquires, CoordinatorBegins,
       CoordinatorHandles, CoordinatorChecksSeal, CoordinatorSeals, CoordinatorReleases,
       CoordinatorStops, CoordinatorPublishes, CoordinatorTakes, CoordinatorConsumes,
       CoordinatorStoresReason, CoordinatorEnds, ingressVars, historyVars

\* What the publisher leaves alone.
LEMMA PublisherNextFrame ==
    ASSUME PublisherNext
    PROVE  PublisherFrame
BY DEF PublisherNext, PublisherFrame, PublisherAcquires, PublisherSubmits,
       PublisherReleases, PublisherFindsNoBatch, PublisherFails, PublisherEnds,
       ingressVars, historyVars

\* Every record and sequence keeps its shape.
LEMMA ShapesKept ==
    ASSUME Shapes, ClaimInv, BufferInv, [Next]_vars
    PROVE  Shapes'
<1>1. CASE RuntimeEmits
  BY <1>1, RuntimeEmitsEffect DEF RuntimeFrame, Shapes, StopReasons, Events
<1>2. CASE DeadlinePasses
  BY <1>2 DEF DeadlinePasses, Shapes, StopReasons
<1>3. CASE PumpLoops
  BY <1>3, PumpLoopsEffect DEF PumpMoves, PumpFrame, Shapes, StopReasons
<1>4. CASE PumpAcquires
  BY <1>4, PumpAcquiresEffect DEF StepTaken, PumpFrame, Shapes, StopReasons
<1>5. CASE SealFullSlot
  BY <1>5, SealFullSlotEffect DEF WriteReleased, PumpFrame, Shapes, StopReasons
<1>6. CASE PumpPops
  BY <1>6, PumpPopsEffect DEF PumpFrame, Shapes, StopReasons
<1>7. CASE PumpFindsNothing
  BY <1>7, PumpFindsNothingEffect DEF PumpMoves, WriteReleased, PumpFrame, Shapes,
         StopReasons
<1>8. CASE PumpCommits
  BY <1>8, PumpCommitsEffect DEF WriteReleased, PumpFrame, Shapes, StopReasons
<1>9. CASE PumpWaits
  BY <1>9, PumpWaitsEffect DEF StepTaken, PumpFrame, Shapes, StopReasons
<1>10. CASE PumpTakesPlan
  BY <1>10, PumpTakesPlanEffect DEF PumpFrame, Shapes, StopReasons
<1>11. CASE PumpRunsTerminal
  BY <1>11, PumpRunsTerminalEffect DEF PumpReports, PumpFrame, Shapes, StopReasons
<1>12. CASE PumpCompletes
  BY <1>12, PumpCompletesEffect DEF PumpReports, PumpFrame, Shapes, StopReasons
<1>13. CASE PumpEnds
  BY <1>13, PumpEndsEffect DEF PumpFrame, Shapes, StopReasons
<1>14. CASE CoordinatorSleeps
  BY <1>14, CoordinatorSleepsEffect DEF CoordinatorMoves, CoordinatorFrame, Shapes,
         StopReasons
<1>15. CASE CoordinatorSwaps
  BY <1>15, CoordinatorSwapsEffect DEF CoordinatorMoves, CoordinatorFails,
         ExchangeKept, Swapped, AfterSwapStep, CoordinatorFrame, Shapes, StopReasons
<1>16. CASE CoordinatorWaitsSwap
  BY <1>16, CoordinatorWaitsSwapEffect DEF CoordinatorMoves, CoordinatorFails,
         ExchangeKept, Swapped, AfterSwapStep, CoordinatorFrame, Shapes, StopReasons
<1>17. CASE CoordinatorPrepares
  BY <1>17, CoordinatorPreparesEffect DEF CoordinatorMoves, CoordinatorFails,
         WritePrepared, CoordinatorFrame, Shapes, StopReasons
<1>18. CASE CoordinatorAcquires
  BY <1>18, CoordinatorAcquiresEffect DEF CoordinatorFails, ExchangeKept,
         CoordinatorFrame, Shapes, StopReasons
<1>19. CASE CoordinatorBegins
  BY <1>19, CoordinatorBeginsEffect DEF CoordinatorMoves, CoordinatorNotOkStep,
         EpochSet, CoordinatorFrame, Shapes, StopReasons
<1>20. CASE CoordinatorHandles
  <2>1. slots[coordinator.slot] \in Seq(Events) /\ consumed \in Seq(Events)
    BY DEF Shapes, CoordinatorStates
  <2>2. consumed' \in Seq(Events)
    BY <1>20, <2>1, CoordinatorHandlesEffect, ConcatProperties
  <2> QED
    BY <1>20, <2>2, CoordinatorHandlesEffect DEF RecordAdded, CoordinatorFrame,
       Shapes, StopReasons
<1>21. CASE CoordinatorChecksSeal
  BY <1>21, CoordinatorChecksSealEffect DEF CoordinatorMoves, CoordinatorNotOkStep,
         CoordinatorFrame, Shapes, StopReasons
<1>22. CASE CoordinatorSeals
  <2>1. coordinator.epoch \in Nat /\ sealed \in Seq(Nat)
    BY DEF Shapes, CoordinatorStates
  <2>2. Append(sealed, coordinator.epoch) \in Seq(Nat)
    BY <2>1, AppendProperties
  <2> QED
    BY <1>22, <2>1, <2>2, CoordinatorSealsEffect DEF CoordinatorMoves,
       CoordinatorNotOkStep, EpochSet, BatchSealed, CoordinatorFrame, Shapes, StopReasons
<1>23. CASE CoordinatorReleases
  BY <1>23, CoordinatorReleasesEffect DEF CoordinatorFails, ReadReleased,
         CoordinatorFrame, Shapes, StopReasons
<1>24. CASE CoordinatorStops
  BY <1>24, CoordinatorStopsEffect DEF CoordinatorFrame, Shapes, StopReasons
<1>25. CASE CoordinatorPublishes
  BY <1>25, CoordinatorPublishesEffect DEF CoordinatorMoves, CoordinatorFails,
         CoordinatorFrame, Shapes, StopReasons
<1>26. CASE CoordinatorTakes
  BY <1>26, CoordinatorTakesEffect DEF CoordinatorFails, CoordinatorFrame, Shapes,
         StopReasons
<1>27. CASE CoordinatorConsumes
  <2>1. slots[coordinator.slot] \in Seq(Events) /\ consumed \in Seq(Events)
    BY DEF Shapes, CoordinatorStates
  <2>2. consumed' \in Seq(Events)
    BY <1>27, <2>1, CoordinatorConsumesEffect, ConcatProperties
  <2> QED
    BY <1>27, <2>2, CoordinatorConsumesEffect DEF CoordinatorFails, ReadReleased, CoordinatorFrame,
       Shapes, StopReasons
<1>28. CASE CoordinatorStoresReason
  BY <1>28, CoordinatorStoresReasonEffect DEF CoordinatorFrame, Shapes, StopReasons
<1>29. CASE CoordinatorEnds
  BY <1>29, CoordinatorEndsEffect DEF CoordinatorMoves, BufferClosed,
         CoordinatorFrame, Shapes, StopReasons
<1>30. CASE PublisherAcquires
  BY <1>30, PublisherAcquiresEffect DEF BatchTaken, PublisherFrame, Shapes,
         StopReasons
<1>31. CASE PublisherSubmits
  <2>1. publisher.slot \in OutboundSlots
    BY <1>31, PublisherSubmitsEffect DEF BufferInv
  <2>2. outbound.epoch[publisher.slot] \in Nat /\ submitted \in Seq(Nat)
    BY <2>1 DEF Shapes, BufferStates
  <2>3. submitted' \in Seq(Nat)
    BY <1>31, <2>2, PublisherSubmitsEffect, AppendProperties
  <2> QED
    BY <1>31, <2>3, PublisherSubmitsEffect DEF PublisherFrame, Shapes, StopReasons
<1>32. CASE PublisherReleases
  BY <1>32, PublisherReleasesEffect DEF SlotReturned, PublisherFrame, Shapes,
         StopReasons
<1>33. CASE PublisherFindsNoBatch
  BY <1>33, PublisherFindsNoBatchEffect DEF PublisherFrame, Shapes, StopReasons
<1>34. CASE PublisherFails
  BY <1>34, PublisherFailsEffect DEF BufferClosed, PublisherFrame, Shapes,
         StopReasons
<1>35. CASE PublisherEnds
  BY <1>35, PublisherEndsEffect DEF BufferClosed, PublisherFrame, Shapes,
         StopReasons
<1>36. CASE HostStartsPublisher
  BY <1>36, HostStartsPublisherEffect DEF HostMoves, HostFrame, Shapes, StopReasons
<1>37. CASE HostStartsPump
  BY <1>37, HostStartsPumpEffect DEF HostMoves, HostFrame, Shapes, StopReasons
<1>38. CASE HostStartsCoordinator
  BY <1>38, HostStartsCoordinatorEffect DEF HostMoves, HostFrame, Shapes,
         StopReasons
<1>39. CASE HostStopsPump
  BY <1>39, HostStopsPumpEffect DEF HostMoves, HostFrame, Shapes, StopReasons
<1>40. CASE HostStopsPublisher
  BY <1>40, HostStopsPublisherEffect DEF BufferClosed, HostMoves, HostFrame, Shapes,
         StopReasons
<1>41. CASE HostJoinsStarted
  BY <1>41, HostJoinsStartedEffect DEF HostMoves, HostAlone, HostFrame, Shapes,
         StopReasons
<1>42. CASE BeginShutdown
  BY <1>42, BeginShutdownEffect DEF HostMoves, HostFrame, Shapes, StopReasons
<1>43. CASE HostWaitsGameplay
  BY <1>43, HostWaitsGameplayEffect DEF HostAlone, HostFrame, Shapes, StopReasons
<1>44. CASE HostRequestsDrain
  BY <1>44, HostRequestsDrainEffect DEF HostMoves, HostFrame, Shapes, StopReasons
<1>45. CASE HostFinishesWrites
  BY <1>45, HostFinishesWritesEffect DEF HostMoves, HostFrame, Shapes, StopReasons
<1>46. CASE HostJoinsPublisher
  BY <1>46, HostJoinsPublisherEffect DEF HostAlone, HostFrame, Shapes, StopReasons
<1>47. CASE HostEntersTerminalConsume
  BY <1>47, HostEntersTerminalConsumeEffect DEF HostMoves, HostAlone, HostFrame,
         Shapes, StopReasons
<1>48. CASE HostEntersTerminalDrain
  BY <1>48, HostEntersTerminalDrainEffect DEF HostMoves, HostFrame, Shapes,
         StopReasons
<1>49. CASE HostShutsDownRuntime
  BY <1>49, HostShutsDownRuntimeEffect DEF HostMoves, HostFrame, Shapes, StopReasons
<1>50. CASE HostJoinsPump
  BY <1>50, HostJoinsPumpEffect DEF HostMoves, HostAlone, HostFrame, Shapes,
         StopReasons
<1>51. CASE HostReports
  BY <1>51, HostReportsEffect DEF HostAlone, HostFrame, Shapes, StopReasons
<1>52. CASE UNCHANGED vars
  BY <1>52 DEF vars, Shapes, StopReasons
<1> QED
  BY <1>1, <1>2, <1>3, <1>4, <1>5, <1>6, <1>7, <1>8, <1>9, <1>10, <1>11, <1>12,
         <1>13, <1>14, <1>15, <1>16, <1>17, <1>18, <1>19, <1>20, <1>21, <1>22,
         <1>23, <1>24, <1>25, <1>26, <1>27, <1>28, <1>29, <1>30, <1>31, <1>32,
         <1>33, <1>34, <1>35, <1>36, <1>37, <1>38, <1>39, <1>40, <1>41, <1>42,
         <1>43, <1>44, <1>45, <1>46, <1>47, <1>48, <1>49, <1>50, <1>51, <1>52
  DEF Next, PumpNext, CoordinatorNext, PublisherNext, HostNext, HostSeesWorkerStop,
      HostIsAskedToStop, HostHasEnded

\* The claims on the ingress slots stay with the threads whose program counters say
\* so, and the exchange's two slots with one thread each.
LEMMA ClaimsKept ==
    ASSUME Shapes, HostInv, ClaimInv, [Next]_vars
    PROVE  ClaimInv'
<1>u. ASSUME UNCHANGED <<ingress, pump, coordinator>> PROVE ClaimInv'
  BY <1>u DEF ClaimInv, WriteSteps, ReadSteps, CoordinatorExitSteps
<1>1. CASE PublisherNext
  BY <1>1, <1>u, PublisherNextFrame DEF PublisherFrame
<1>2. CASE RuntimeEmits \/ DeadlinePasses \/ UNCHANGED vars
  BY <1>2, <1>u, RuntimeEmitsEffect
  DEF RuntimeFrame, DeadlinePasses, vars
<1>3. CASE HostStartsPublisher \/ HostStopsPublisher \/ HostJoinsStarted \/
            BeginShutdown \/ HostWaitsGameplay \/ HostRequestsDrain \/
            HostFinishesWrites \/ HostJoinsPublisher \/ HostEntersTerminalConsume \/
            HostEntersTerminalDrain \/ HostShutsDownRuntime \/ HostJoinsPump \/
            HostReports
  BY <1>3, <1>u, HostStartsPublisherEffect, HostStopsPublisherEffect,
         HostJoinsStartedEffect, BeginShutdownEffect, HostWaitsGameplayEffect,
         HostRequestsDrainEffect, HostFinishesWritesEffect,
         HostJoinsPublisherEffect, HostEntersTerminalConsumeEffect,
         HostEntersTerminalDrainEffect, HostShutsDownRuntimeEffect,
         HostJoinsPumpEffect, HostReportsEffect
  DEF HostFrame, HostAlone
<1>4. CASE PumpLoops
  BY <1>4, PumpLoopsEffect DEF PumpMoves, PumpFrame, ClaimInv, WriteSteps,
         ReadSteps, CoordinatorExitSteps
<1>5. CASE PumpAcquires
  BY <1>5, PumpAcquiresEffect DEF StepTaken, PumpFrame, ClaimInv, WriteSteps,
         ReadSteps, CoordinatorExitSteps
<1>6. CASE SealFullSlot
  BY <1>6, SealFullSlotEffect DEF WriteReleased, PumpFrame, ClaimInv, WriteSteps,
         ReadSteps, CoordinatorExitSteps
<1>7. CASE PumpPops
  BY <1>7, PumpPopsEffect DEF PumpFrame, ClaimInv, WriteSteps, ReadSteps,
         CoordinatorExitSteps
<1>8. CASE PumpFindsNothing
  BY <1>8, PumpFindsNothingEffect DEF PumpMoves, WriteReleased, PumpFrame, ClaimInv,
         WriteSteps, ReadSteps, CoordinatorExitSteps
<1>9. CASE PumpCommits
  BY <1>9, PumpCommitsEffect DEF WriteReleased, PumpFrame, ClaimInv, WriteSteps,
         ReadSteps, CoordinatorExitSteps
<1>10. CASE PumpWaits
  BY <1>10, PumpWaitsEffect DEF StepTaken, PumpFrame, ClaimInv, WriteSteps,
         ReadSteps, CoordinatorExitSteps
<1>11. CASE PumpTakesPlan
  BY <1>11, PumpTakesPlanEffect DEF PumpFrame, ClaimInv, WriteSteps, ReadSteps,
         CoordinatorExitSteps
<1>12. CASE PumpRunsTerminal
  BY <1>12, PumpRunsTerminalEffect DEF PumpReports, PumpFrame, ClaimInv, WriteSteps,
         ReadSteps, CoordinatorExitSteps
<1>13. CASE PumpCompletes
  BY <1>13, PumpCompletesEffect DEF PumpReports, PumpFrame, ClaimInv, WriteSteps,
         ReadSteps, CoordinatorExitSteps
<1>14. CASE PumpEnds
  BY <1>14, PumpEndsEffect DEF PumpFrame, ClaimInv, WriteSteps, ReadSteps,
         CoordinatorExitSteps
<1>15. CASE CoordinatorSleeps
  BY <1>15, CoordinatorSleepsEffect DEF CoordinatorMoves, CoordinatorFrame,
         ClaimInv, WriteSteps, ReadSteps, CoordinatorExitSteps
<1>16. CASE CoordinatorSwaps
  BY <1>16, CoordinatorSwapsEffect DEF CoordinatorMoves, CoordinatorFails,
         ExchangeKept, Swapped, AfterSwapStep, CoordinatorFrame, ClaimInv,
         WriteSteps, ReadSteps, CoordinatorExitSteps
<1>17. CASE CoordinatorWaitsSwap
  BY <1>17, CoordinatorWaitsSwapEffect DEF CoordinatorMoves, CoordinatorFails,
         ExchangeKept, Swapped, AfterSwapStep, CoordinatorFrame, ClaimInv,
         WriteSteps, ReadSteps, CoordinatorExitSteps
<1>18. CASE CoordinatorPrepares
  BY <1>18, CoordinatorPreparesEffect DEF CoordinatorMoves, CoordinatorFails,
         WritePrepared, CoordinatorFrame, ClaimInv, WriteSteps, ReadSteps,
         CoordinatorExitSteps
<1>19. CASE CoordinatorAcquires
  BY <1>19, CoordinatorAcquiresEffect DEF CoordinatorFails, ExchangeKept,
         CoordinatorFrame, ClaimInv, WriteSteps, ReadSteps, CoordinatorExitSteps
<1>20. CASE CoordinatorBegins
  BY <1>20, CoordinatorBeginsEffect DEF CoordinatorMoves, CoordinatorNotOkStep,
         EpochSet, CoordinatorFrame, ClaimInv, WriteSteps, ReadSteps,
         CoordinatorExitSteps
<1>21. CASE CoordinatorHandles
  BY <1>21, CoordinatorHandlesEffect DEF RecordAdded, CoordinatorFrame, ClaimInv,
         WriteSteps, ReadSteps, CoordinatorExitSteps
<1>22. CASE CoordinatorChecksSeal
  BY <1>22, CoordinatorChecksSealEffect DEF CoordinatorMoves, CoordinatorNotOkStep,
         CoordinatorFrame, ClaimInv, WriteSteps, ReadSteps, CoordinatorExitSteps
<1>23. CASE CoordinatorSeals
  BY <1>23, CoordinatorSealsEffect DEF CoordinatorMoves, CoordinatorNotOkStep,
         EpochSet, BatchSealed, CoordinatorFrame, ClaimInv, WriteSteps, ReadSteps,
         CoordinatorExitSteps
<1>24. CASE CoordinatorReleases
  BY <1>24, CoordinatorReleasesEffect DEF CoordinatorFails, ReadReleased,
         CoordinatorFrame, ClaimInv, WriteSteps, ReadSteps, CoordinatorExitSteps
<1>25. CASE CoordinatorStops
  BY <1>25, CoordinatorStopsEffect DEF CoordinatorFrame, ClaimInv, WriteSteps,
         ReadSteps, CoordinatorExitSteps
<1>26. CASE CoordinatorPublishes
  BY <1>26, CoordinatorPublishesEffect DEF CoordinatorMoves, CoordinatorFails,
         CoordinatorFrame, ClaimInv, WriteSteps, ReadSteps, CoordinatorExitSteps
<1>27. CASE CoordinatorTakes
  BY <1>27, CoordinatorTakesEffect DEF CoordinatorFails, CoordinatorFrame, ClaimInv,
         WriteSteps, ReadSteps, CoordinatorExitSteps
<1>28. CASE CoordinatorConsumes
  BY <1>28, CoordinatorConsumesEffect DEF CoordinatorFails, ReadReleased,
         CoordinatorFrame, ClaimInv, WriteSteps, ReadSteps, CoordinatorExitSteps
<1>29. CASE CoordinatorStoresReason
  BY <1>29, CoordinatorStoresReasonEffect DEF CoordinatorFrame, ClaimInv,
         WriteSteps, ReadSteps, CoordinatorExitSteps
<1>30. CASE CoordinatorEnds
  BY <1>30, CoordinatorEndsEffect DEF CoordinatorMoves, BufferClosed,
         CoordinatorFrame, ClaimInv, WriteSteps, ReadSteps, CoordinatorExitSteps
<1>31. CASE HostStartsPump
  BY <1>31, HostStartsPumpEffect DEF HostMoves, HostFrame, ClaimInv, WriteSteps,
         ReadSteps, CoordinatorExitSteps, HostInv
<1>32. CASE HostStartsCoordinator
  BY <1>32, HostStartsCoordinatorEffect DEF HostMoves, HostFrame, ClaimInv,
         WriteSteps, ReadSteps, CoordinatorExitSteps, HostInv
<1>33. CASE HostStopsPump
  BY <1>33, HostStopsPumpEffect DEF HostMoves, HostFrame, ClaimInv, WriteSteps,
         ReadSteps, CoordinatorExitSteps
<1> QED
  BY <1>1, <1>2, <1>3, <1>4, <1>5, <1>6, <1>7, <1>8, <1>9, <1>10, <1>11, <1>12,
         <1>13, <1>14, <1>15, <1>16, <1>17, <1>18, <1>19, <1>20, <1>21, <1>22,
         <1>23, <1>24, <1>25, <1>26, <1>27, <1>28, <1>29, <1>30, <1>31, <1>32, <1>33
  DEF Next, PumpNext, CoordinatorNext, PublisherNext, HostNext, HostSeesWorkerStop,
      HostIsAskedToStop, HostHasEnded
\* The host starts, watches, drains and joins in its one order.
LEMMA HostOrderKept ==
    ASSUME Shapes, HostInv, ClaimInv, [Next]_vars
    PROVE  HostInv'
<1>1. CASE RuntimeEmits
  BY <1>1, RuntimeEmitsEffect DEF RuntimeFrame, HostInv, RollbackSteps, DrainSteps,
         DrainedSteps, CoordinatorGone
<1>2. CASE DeadlinePasses
  BY <1>2 DEF DeadlinePasses, HostInv, RollbackSteps, DrainSteps, DrainedSteps,
         CoordinatorGone
<1>3. CASE PumpLoops
  BY <1>3, PumpLoopsEffect DEF PumpMoves, PumpFrame, HostInv, RollbackSteps,
         DrainSteps, DrainedSteps, CoordinatorGone
<1>4. CASE PumpAcquires
  BY <1>4, PumpAcquiresEffect DEF StepTaken, PumpFrame, HostInv, RollbackSteps,
         DrainSteps, DrainedSteps, CoordinatorGone
<1>5. CASE SealFullSlot
  BY <1>5, SealFullSlotEffect DEF WriteReleased, PumpFrame, HostInv, RollbackSteps,
         DrainSteps, DrainedSteps, CoordinatorGone
<1>6. CASE PumpPops
  BY <1>6, PumpPopsEffect DEF PumpFrame, HostInv, RollbackSteps, DrainSteps,
         DrainedSteps, CoordinatorGone
<1>7. CASE PumpFindsNothing
  BY <1>7, PumpFindsNothingEffect DEF PumpMoves, WriteReleased, PumpFrame, HostInv,
         RollbackSteps, DrainSteps, DrainedSteps, CoordinatorGone
<1>8. CASE PumpCommits
  BY <1>8, PumpCommitsEffect DEF WriteReleased, PumpFrame, HostInv, RollbackSteps,
         DrainSteps, DrainedSteps, CoordinatorGone
<1>9. CASE PumpWaits
  BY <1>9, PumpWaitsEffect DEF StepTaken, PumpFrame, HostInv, RollbackSteps,
         DrainSteps, DrainedSteps, CoordinatorGone
<1>10. CASE PumpTakesPlan
  BY <1>10, PumpTakesPlanEffect DEF PumpFrame, HostInv, RollbackSteps, DrainSteps,
         DrainedSteps, CoordinatorGone
<1>11. CASE PumpRunsTerminal
  BY <1>11, PumpRunsTerminalEffect DEF PumpReports, PumpFrame, HostInv,
         RollbackSteps, DrainSteps, DrainedSteps, CoordinatorGone
<1>12. CASE PumpCompletes
  BY <1>12, PumpCompletesEffect DEF PumpReports, PumpFrame, HostInv, RollbackSteps,
         DrainSteps, DrainedSteps, CoordinatorGone
<1>13. CASE PumpEnds
  BY <1>13, PumpEndsEffect DEF PumpFrame, HostInv, RollbackSteps, DrainSteps,
         DrainedSteps, CoordinatorGone
<1>14. CASE CoordinatorSleeps
  BY <1>14, CoordinatorSleepsEffect DEF CoordinatorMoves, CoordinatorFrame, HostInv,
         RollbackSteps, DrainSteps, DrainedSteps, CoordinatorGone
<1>15. CASE CoordinatorSwaps
  BY <1>15, CoordinatorSwapsEffect DEF CoordinatorMoves, CoordinatorFails,
         ExchangeKept, Swapped, AfterSwapStep, CoordinatorFrame, HostInv,
         RollbackSteps, DrainSteps, DrainedSteps, CoordinatorGone
<1>16. CASE CoordinatorWaitsSwap
  BY <1>16, CoordinatorWaitsSwapEffect DEF CoordinatorMoves, CoordinatorFails,
         ExchangeKept, Swapped, AfterSwapStep, CoordinatorFrame, HostInv,
         RollbackSteps, DrainSteps, DrainedSteps, CoordinatorGone
<1>17. CASE CoordinatorPrepares
  BY <1>17, CoordinatorPreparesEffect DEF CoordinatorMoves, CoordinatorFails,
         WritePrepared, CoordinatorFrame, HostInv, RollbackSteps, DrainSteps,
         DrainedSteps, CoordinatorGone
<1>18. CASE CoordinatorAcquires
  BY <1>18, CoordinatorAcquiresEffect DEF CoordinatorFails, ExchangeKept,
         CoordinatorFrame, HostInv, RollbackSteps, DrainSteps, DrainedSteps,
         CoordinatorGone
<1>19. CASE CoordinatorBegins
  BY <1>19, CoordinatorBeginsEffect DEF CoordinatorMoves, CoordinatorNotOkStep,
         EpochSet, CoordinatorFrame, HostInv, RollbackSteps, DrainSteps,
         DrainedSteps, CoordinatorGone
<1>20. CASE CoordinatorHandles
  BY <1>20, CoordinatorHandlesEffect DEF RecordAdded, CoordinatorFrame, HostInv,
         RollbackSteps, DrainSteps, DrainedSteps, CoordinatorGone
<1>21. CASE CoordinatorChecksSeal
  BY <1>21, CoordinatorChecksSealEffect DEF CoordinatorMoves, CoordinatorNotOkStep,
         CoordinatorFrame, HostInv, RollbackSteps, DrainSteps, DrainedSteps,
         CoordinatorGone
<1>22. CASE CoordinatorSeals
  BY <1>22, CoordinatorSealsEffect DEF CoordinatorMoves, CoordinatorNotOkStep,
         EpochSet, BatchSealed, CoordinatorFrame, HostInv, RollbackSteps,
         DrainSteps, DrainedSteps, CoordinatorGone
<1>23. CASE CoordinatorReleases
  BY <1>23, CoordinatorReleasesEffect DEF CoordinatorFails, ReadReleased,
         CoordinatorFrame, HostInv, RollbackSteps, DrainSteps, DrainedSteps,
         CoordinatorGone
<1>24. CASE CoordinatorStops
  BY <1>24, CoordinatorStopsEffect DEF CoordinatorFrame, HostInv, RollbackSteps,
         DrainSteps, DrainedSteps, CoordinatorGone
<1>25. CASE CoordinatorPublishes
  BY <1>25, CoordinatorPublishesEffect DEF CoordinatorMoves, CoordinatorFails,
         CoordinatorFrame, HostInv, RollbackSteps, DrainSteps, DrainedSteps,
         CoordinatorGone
<1>26. CASE CoordinatorTakes
  BY <1>26, CoordinatorTakesEffect DEF CoordinatorFails, CoordinatorFrame, HostInv,
         RollbackSteps, DrainSteps, DrainedSteps, CoordinatorGone
<1>27. CASE CoordinatorConsumes
  BY <1>27, CoordinatorConsumesEffect DEF CoordinatorFails, ReadReleased,
         CoordinatorFrame, HostInv, RollbackSteps, DrainSteps, DrainedSteps,
         CoordinatorGone
<1>28. CASE CoordinatorStoresReason
  BY <1>28, CoordinatorStoresReasonEffect DEF CoordinatorFrame, HostInv,
         RollbackSteps, DrainSteps, DrainedSteps, CoordinatorGone
<1>29. CASE CoordinatorEnds
  BY <1>29, CoordinatorEndsEffect DEF CoordinatorMoves, BufferClosed,
         CoordinatorFrame, HostInv, RollbackSteps, DrainSteps, DrainedSteps,
         CoordinatorGone
<1>30. CASE PublisherAcquires
  BY <1>30, PublisherAcquiresEffect DEF BatchTaken, PublisherFrame, HostInv,
         RollbackSteps, DrainSteps, DrainedSteps, CoordinatorGone
<1>31. CASE PublisherSubmits
  BY <1>31, PublisherSubmitsEffect DEF PublisherFrame, HostInv, RollbackSteps,
         DrainSteps, DrainedSteps, CoordinatorGone
<1>32. CASE PublisherReleases
  BY <1>32, PublisherReleasesEffect DEF SlotReturned, PublisherFrame, HostInv,
         RollbackSteps, DrainSteps, DrainedSteps, CoordinatorGone
<1>33. CASE PublisherFindsNoBatch
  BY <1>33, PublisherFindsNoBatchEffect DEF PublisherFrame, HostInv, RollbackSteps,
         DrainSteps, DrainedSteps, CoordinatorGone
<1>34. CASE PublisherFails
  BY <1>34, PublisherFailsEffect DEF BufferClosed, PublisherFrame, HostInv,
         RollbackSteps, DrainSteps, DrainedSteps, CoordinatorGone
<1>35. CASE PublisherEnds
  BY <1>35, PublisherEndsEffect DEF BufferClosed, PublisherFrame, HostInv,
         RollbackSteps, DrainSteps, DrainedSteps, CoordinatorGone
<1>36. CASE HostStartsPublisher
  BY <1>36, HostStartsPublisherEffect DEF HostMoves, HostFrame, HostInv,
         RollbackSteps, DrainSteps, DrainedSteps, CoordinatorGone
<1>37. CASE HostStartsPump
  BY <1>37, HostStartsPumpEffect DEF HostMoves, HostFrame, HostInv, RollbackSteps,
         DrainSteps, DrainedSteps, CoordinatorGone
<1>38. CASE HostStartsCoordinator
  BY <1>38, HostStartsCoordinatorEffect DEF HostMoves, HostFrame, HostInv,
         RollbackSteps, DrainSteps, DrainedSteps, CoordinatorGone
<1>39. CASE HostStopsPump
  BY <1>39, HostStopsPumpEffect DEF HostMoves, HostFrame, HostInv, RollbackSteps,
         DrainSteps, DrainedSteps, CoordinatorGone
<1>40. CASE HostStopsPublisher
  BY <1>40, HostStopsPublisherEffect DEF BufferClosed, HostMoves, HostFrame,
         HostInv, RollbackSteps, DrainSteps, DrainedSteps, CoordinatorGone
<1>41. CASE HostJoinsStarted
  BY <1>41, HostJoinsStartedEffect DEF HostMoves, HostAlone, HostFrame, HostInv,
         RollbackSteps, DrainSteps, DrainedSteps, CoordinatorGone
<1>42. CASE BeginShutdown
  BY <1>42, BeginShutdownEffect DEF HostMoves, HostFrame, HostInv, RollbackSteps,
         DrainSteps, DrainedSteps, CoordinatorGone
<1>43. CASE HostWaitsGameplay
  BY <1>43, HostWaitsGameplayEffect DEF HostAlone, HostFrame, HostInv,
         RollbackSteps, DrainSteps, DrainedSteps, CoordinatorGone,
         GameplayHasStopped
<1>44. CASE HostRequestsDrain
  BY <1>44, HostRequestsDrainEffect DEF HostMoves, HostFrame, HostInv,
         RollbackSteps, DrainSteps, DrainedSteps, CoordinatorGone
<1>45. CASE HostFinishesWrites
  BY <1>45, HostFinishesWritesEffect DEF HostMoves, HostFrame, HostInv,
         RollbackSteps, DrainSteps, DrainedSteps, CoordinatorGone
<1>46. CASE HostJoinsPublisher
  BY <1>46, HostJoinsPublisherEffect DEF HostAlone, HostFrame, HostInv,
         RollbackSteps, DrainSteps, DrainedSteps, CoordinatorGone
<1>47. CASE HostEntersTerminalConsume
  BY <1>47, HostEntersTerminalConsumeEffect DEF HostMoves, HostAlone, HostFrame,
         HostInv, RollbackSteps, DrainSteps, DrainedSteps, CoordinatorGone
<1>48. CASE HostEntersTerminalDrain
  BY <1>48, HostEntersTerminalDrainEffect DEF HostMoves, HostFrame, HostInv,
         RollbackSteps, DrainSteps, DrainedSteps, CoordinatorGone
<1>49. CASE HostShutsDownRuntime
  BY <1>49, HostShutsDownRuntimeEffect DEF HostMoves, HostFrame, HostInv,
         RollbackSteps, DrainSteps, DrainedSteps, CoordinatorGone
<1>50. CASE HostJoinsPump
  BY <1>50, HostJoinsPumpEffect DEF HostMoves, HostAlone, HostFrame, HostInv,
         RollbackSteps, DrainSteps, DrainedSteps, CoordinatorGone
<1>51. CASE HostReports
  BY <1>51, HostReportsEffect DEF HostAlone, HostFrame, HostInv, RollbackSteps,
         DrainSteps, DrainedSteps, CoordinatorGone
<1>52. CASE UNCHANGED vars
  BY <1>52 DEF vars, HostInv, RollbackSteps, DrainSteps, DrainedSteps,
         CoordinatorGone
<1> QED
  BY <1>1, <1>2, <1>3, <1>4, <1>5, <1>6, <1>7, <1>8, <1>9, <1>10, <1>11, <1>12,
         <1>13, <1>14, <1>15, <1>16, <1>17, <1>18, <1>19, <1>20, <1>21, <1>22,
         <1>23, <1>24, <1>25, <1>26, <1>27, <1>28, <1>29, <1>30, <1>31, <1>32,
         <1>33, <1>34, <1>35, <1>36, <1>37, <1>38, <1>39, <1>40, <1>41, <1>42,
         <1>43, <1>44, <1>45, <1>46, <1>47, <1>48, <1>49, <1>50, <1>51, <1>52
  DEF Next, PumpNext, CoordinatorNext, PublisherNext, HostNext, HostSeesWorkerStop,
      HostIsAskedToStop, HostHasEnded

\* A step of the coordinator that failed leads to the release of its slot and out.
LEMMA OkKept ==
    ASSUME Shapes, OkInv, HostInv, [Next]_vars
    PROVE  OkInv'
<1>u. ASSUME UNCHANGED <<coordinator>> PROVE OkInv'
  BY <1>u DEF OkInv, CoordinatorExitSteps
<1>1. CASE PumpNext
  BY <1>1, <1>u, PumpNextFrame DEF PumpFrame
<1>2. CASE PublisherNext
  BY <1>2, <1>u, PublisherNextFrame DEF PublisherFrame
<1>3. CASE RuntimeEmits \/ DeadlinePasses \/ UNCHANGED vars
  BY <1>3, <1>u, RuntimeEmitsEffect
  DEF RuntimeFrame, DeadlinePasses, vars
<1>4. CASE HostStartsPublisher \/ HostStartsPump \/ HostStopsPump \/
            HostStopsPublisher \/ HostJoinsStarted \/ BeginShutdown \/
            HostWaitsGameplay \/ HostRequestsDrain \/ HostFinishesWrites \/
            HostJoinsPublisher \/ HostEntersTerminalConsume \/
            HostEntersTerminalDrain \/ HostShutsDownRuntime \/ HostJoinsPump \/
            HostReports
  BY <1>4, <1>u, HostStartsPublisherEffect, HostStartsPumpEffect,
         HostStopsPumpEffect, HostStopsPublisherEffect, HostJoinsStartedEffect,
         BeginShutdownEffect, HostWaitsGameplayEffect, HostRequestsDrainEffect,
         HostFinishesWritesEffect, HostJoinsPublisherEffect,
         HostEntersTerminalConsumeEffect, HostEntersTerminalDrainEffect,
         HostShutsDownRuntimeEffect, HostJoinsPumpEffect, HostReportsEffect
  DEF HostFrame, HostAlone
<1>5. CASE CoordinatorSleeps
  BY <1>5, CoordinatorSleepsEffect DEF CoordinatorMoves, CoordinatorFrame, OkInv,
         CoordinatorExitSteps
<1>6. CASE CoordinatorSwaps
  BY <1>6, CoordinatorSwapsEffect DEF CoordinatorMoves, CoordinatorFails,
         ExchangeKept, Swapped, AfterSwapStep, CoordinatorFrame, OkInv,
         CoordinatorExitSteps
<1>7. CASE CoordinatorWaitsSwap
  BY <1>7, CoordinatorWaitsSwapEffect DEF CoordinatorMoves, CoordinatorFails,
         ExchangeKept, Swapped, AfterSwapStep, CoordinatorFrame, OkInv,
         CoordinatorExitSteps
<1>8. CASE CoordinatorPrepares
  BY <1>8, CoordinatorPreparesEffect DEF CoordinatorMoves, CoordinatorFails,
         WritePrepared, CoordinatorFrame, OkInv, CoordinatorExitSteps
<1>9. CASE CoordinatorAcquires
  BY <1>9, CoordinatorAcquiresEffect DEF CoordinatorFails, ExchangeKept,
         CoordinatorFrame, OkInv, CoordinatorExitSteps
<1>10. CASE CoordinatorBegins
  BY <1>10, CoordinatorBeginsEffect DEF CoordinatorMoves, CoordinatorNotOkStep,
         EpochSet, CoordinatorFrame, OkInv, CoordinatorExitSteps
<1>11. CASE CoordinatorHandles
  BY <1>11, CoordinatorHandlesEffect DEF RecordAdded, CoordinatorFrame, OkInv,
         CoordinatorExitSteps
<1>12. CASE CoordinatorChecksSeal
  BY <1>12, CoordinatorChecksSealEffect DEF CoordinatorMoves, CoordinatorNotOkStep,
         CoordinatorFrame, OkInv, CoordinatorExitSteps
<1>13. CASE CoordinatorSeals
  BY <1>13, CoordinatorSealsEffect DEF CoordinatorMoves, CoordinatorNotOkStep,
         EpochSet, BatchSealed, CoordinatorFrame, OkInv, CoordinatorExitSteps
<1>14. CASE CoordinatorReleases
  BY <1>14, CoordinatorReleasesEffect DEF CoordinatorFails, ReadReleased,
         CoordinatorFrame, OkInv, CoordinatorExitSteps
<1>15. CASE CoordinatorStops
  BY <1>15, CoordinatorStopsEffect DEF CoordinatorFrame, OkInv, CoordinatorExitSteps
<1>16. CASE CoordinatorPublishes
  BY <1>16, CoordinatorPublishesEffect DEF CoordinatorMoves, CoordinatorFails,
         CoordinatorFrame, OkInv, CoordinatorExitSteps
<1>17. CASE CoordinatorTakes
  BY <1>17, CoordinatorTakesEffect DEF CoordinatorFails, CoordinatorFrame, OkInv,
         CoordinatorExitSteps
<1>18. CASE CoordinatorConsumes
  BY <1>18, CoordinatorConsumesEffect DEF CoordinatorFails, ReadReleased,
         CoordinatorFrame, OkInv, CoordinatorExitSteps
<1>19. CASE CoordinatorStoresReason
  BY <1>19, CoordinatorStoresReasonEffect DEF CoordinatorFrame, OkInv,
         CoordinatorExitSteps
<1>20. CASE CoordinatorEnds
  BY <1>20, CoordinatorEndsEffect DEF CoordinatorMoves, BufferClosed,
         CoordinatorFrame, OkInv, CoordinatorExitSteps
<1>21. CASE HostStartsCoordinator
  BY <1>21, HostStartsCoordinatorEffect DEF HostMoves, HostFrame, OkInv,
         CoordinatorExitSteps, HostInv
<1> QED
  BY <1>1, <1>2, <1>3, <1>4, <1>5, <1>6, <1>7, <1>8, <1>9, <1>10, <1>11, <1>12,
         <1>13, <1>14, <1>15, <1>16, <1>17, <1>18, <1>19, <1>20, <1>21
  DEF Next, PumpNext, CoordinatorNext, PublisherNext, HostNext, HostSeesWorkerStop,
      HostIsAskedToStop, HostHasEnded

\* The ingress slots stay within their capacity, and the read slot is empty when it
\* is given back.
LEMMA ContentKept ==
    ASSUME Shapes, ClaimInv, ContentInv, HostInv, [Next]_vars
    PROVE  ContentInv'
<1>u. ASSUME UNCHANGED <<ingress, pump, slots>> PROVE ContentInv'
  BY <1>u DEF ContentInv, ClaimInv, WriteSteps, ReadSteps, CoordinatorExitSteps
<1>1. CASE PublisherNext
  BY <1>1, <1>u, PublisherNextFrame DEF PublisherFrame
<1>2. CASE RuntimeEmits \/ DeadlinePasses \/ UNCHANGED vars
  BY <1>2, <1>u, RuntimeEmitsEffect
  DEF RuntimeFrame, DeadlinePasses, vars
<1>3. CASE CoordinatorSleeps \/ CoordinatorPrepares \/ CoordinatorBegins \/
            CoordinatorHandles \/ CoordinatorChecksSeal \/ CoordinatorSeals \/
            CoordinatorStops \/ CoordinatorPublishes \/ CoordinatorTakes \/
            CoordinatorStoresReason \/ CoordinatorEnds
  BY <1>3, <1>u, CoordinatorSleepsEffect, CoordinatorPreparesEffect,
         CoordinatorBeginsEffect, CoordinatorHandlesEffect,
         CoordinatorChecksSealEffect, CoordinatorSealsEffect,
         CoordinatorStopsEffect, CoordinatorPublishesEffect, CoordinatorTakesEffect,
         CoordinatorStoresReasonEffect, CoordinatorEndsEffect
  DEF CoordinatorFrame
<1>4. CASE HostStartsPublisher \/ HostStartsCoordinator \/ HostStopsPublisher \/
            HostJoinsStarted \/ BeginShutdown \/ HostWaitsGameplay \/
            HostRequestsDrain \/ HostFinishesWrites \/ HostJoinsPublisher \/
            HostEntersTerminalConsume \/ HostEntersTerminalDrain \/
            HostShutsDownRuntime \/ HostJoinsPump \/ HostReports
  BY <1>4, <1>u, HostStartsPublisherEffect, HostStartsCoordinatorEffect,
         HostStopsPublisherEffect, HostJoinsStartedEffect, BeginShutdownEffect,
         HostWaitsGameplayEffect, HostRequestsDrainEffect, HostFinishesWritesEffect,
         HostJoinsPublisherEffect, HostEntersTerminalConsumeEffect,
         HostEntersTerminalDrainEffect, HostShutsDownRuntimeEffect,
         HostJoinsPumpEffect, HostReportsEffect
  DEF HostFrame, HostAlone
<1>5. CASE PumpLoops
  BY <1>5, PumpLoopsEffect DEF PumpMoves, PumpFrame, ContentInv, ClaimInv,
         WriteSteps, ReadSteps, CoordinatorExitSteps
<1>6. CASE PumpAcquires
  BY <1>6, PumpAcquiresEffect DEF StepTaken, PumpFrame, ContentInv, ClaimInv,
         WriteSteps, ReadSteps, CoordinatorExitSteps
<1>7. CASE SealFullSlot
  BY <1>7, SealFullSlotEffect DEF WriteReleased, PumpFrame, ContentInv, ClaimInv,
         WriteSteps, ReadSteps, CoordinatorExitSteps, FreeRoom
<1>8. CASE PumpPops
  <2>1. /\ ingress.write \in 0 .. 1 /\ SlotCapacity \in Nat
        /\ Len(slots[ingress.write]) \in Nat
    BY WorldWorkersAssumption, LenProperties DEF Shapes, X!ExchangeStates
  <2>2. pump.claim.slot = ingress.write
    BY <1>8, PumpPopsEffect DEF ClaimInv, WriteSteps
  <2>3. Len(pump'.batch) \in Nat
    BY <1>8, PumpPopsEffect, LenProperties DEF PumpStates
  <2>4. Len(slots[ingress.write]) + Len(pump'.batch) <= SlotCapacity
    <3>1. Len(pump'.batch) <= SlotCapacity - Len(slots[ingress.write])
      BY <1>8, <2>2, PumpPopsEffect DEF FreeRoom
    <3> DEFINE a == Len(slots[ingress.write])
               n == Len(pump'.batch)
    <3>2. a \in Nat /\ n \in Nat /\ SlotCapacity \in Nat /\ n <= SlotCapacity - a
      BY <3>1, <2>1, <2>3
    <3> HIDE DEF a, n
    <3>3. a + n <= SlotCapacity
      BY <3>2
    <3> QED
      BY <3>3 DEF a, n
  <2> QED
    BY <1>8, <2>4, PumpPopsEffect DEF PumpFrame, ContentInv
<1>9. CASE PumpFindsNothing
  BY <1>9, PumpFindsNothingEffect DEF PumpMoves, WriteReleased, PumpFrame,
         ContentInv, ClaimInv, WriteSteps, ReadSteps, CoordinatorExitSteps
<1>10. CASE PumpCommits
  <2>1. /\ ingress.write \in 0 .. 1
        /\ slots[ingress.write] \in Seq(Events) /\ pump.batch \in Seq(Events)
    BY DEF Shapes, X!ExchangeStates, PumpStates
  <2>2. Len(slots[ingress.write] \o pump.batch) = Len(slots[ingress.write]) + Len(pump.batch)
    BY <2>1, ConcatProperties
  <2>3. \A s \in 0 .. 1 : s = ingress.write \/ s = 1 - ingress.write
    BY <2>1
  <2>4. \A s \in 0 .. 1 : Len(slots'[s]) <= SlotCapacity
    <3>1. Len(slots'[ingress.write]) <= SlotCapacity
      BY <1>10, <2>2, PumpCommitsEffect DEF ContentInv
    <3>2. Len(slots'[1 - ingress.write]) <= SlotCapacity
      BY <1>10, <2>1, PumpCommitsEffect DEF ContentInv
    <3> QED
      BY <2>3, <3>1, <3>2
  <2>5. pump'.pc # "commit" /\ pump'.batch = << >>
    BY <1>10, PumpCommitsEffect
  <2> QED
    BY <1>10, <2>4, <2>5, PumpCommitsEffect DEF WriteReleased, PumpFrame, ContentInv
<1>11. CASE PumpWaits
  BY <1>11, PumpWaitsEffect DEF StepTaken, PumpFrame, ContentInv, ClaimInv,
         WriteSteps, ReadSteps, CoordinatorExitSteps
<1>12. CASE PumpTakesPlan
  BY <1>12, PumpTakesPlanEffect DEF PumpFrame, ContentInv, ClaimInv, WriteSteps,
         ReadSteps, CoordinatorExitSteps
<1>13. CASE PumpRunsTerminal
  BY <1>13, PumpRunsTerminalEffect DEF PumpReports, PumpFrame, ContentInv, ClaimInv,
         WriteSteps, ReadSteps, CoordinatorExitSteps
<1>14. CASE PumpCompletes
  BY <1>14, PumpCompletesEffect DEF PumpReports, PumpFrame, ContentInv, ClaimInv,
         WriteSteps, ReadSteps, CoordinatorExitSteps
<1>15. CASE PumpEnds
  BY <1>15, PumpEndsEffect DEF PumpFrame, ContentInv, ClaimInv, WriteSteps,
         ReadSteps, CoordinatorExitSteps
<1>16. CASE CoordinatorSwaps
  BY <1>16, CoordinatorSwapsEffect DEF CoordinatorMoves, CoordinatorFails,
         ExchangeKept, Swapped, AfterSwapStep, CoordinatorFrame, ContentInv,
         ClaimInv, WriteSteps, ReadSteps, CoordinatorExitSteps
<1>17. CASE CoordinatorWaitsSwap
  BY <1>17, CoordinatorWaitsSwapEffect DEF CoordinatorMoves, CoordinatorFails,
         ExchangeKept, Swapped, AfterSwapStep, CoordinatorFrame, ContentInv,
         ClaimInv, WriteSteps, ReadSteps, CoordinatorExitSteps
<1>18. CASE CoordinatorAcquires
  BY <1>18, CoordinatorAcquiresEffect DEF CoordinatorFails, ExchangeKept,
         CoordinatorFrame, ContentInv, ClaimInv, WriteSteps, ReadSteps,
         CoordinatorExitSteps
<1>19. CASE CoordinatorReleases
  <2>1. /\ ingress.write \in 0 .. 1 /\ SlotCapacity \in Nat
        /\ coordinator.slot = 1 - ingress.write
        /\ ingress.readClaim
    BY <1>19, CoordinatorReleasesEffect, WorldWorkersAssumption
    DEF Shapes, X!ExchangeStates, ClaimInv, ReadSteps
  <2>2. /\ slots'[1 - ingress.write] = << >>
        /\ slots'[ingress.write] = slots[ingress.write]
    BY <1>19, <2>1, CoordinatorReleasesEffect DEF ReadReleased, Shapes
  <2>3. \A s \in 0 .. 1 : s = ingress.write \/ s = 1 - ingress.write
    BY <2>1
  <2>4. \A s \in 0 .. 1 : Len(slots'[s]) <= SlotCapacity
    BY <2>1, <2>2, <2>3, EmptySeq DEF ContentInv
  <2> QED
    BY <1>19, <2>2, <2>4, CoordinatorReleasesEffect DEF ReadReleased, CoordinatorFrame, ContentInv
<1>20. CASE CoordinatorConsumes
  <2>1. /\ ingress.write \in 0 .. 1 /\ SlotCapacity \in Nat
        /\ coordinator.slot = 1 - ingress.write
        /\ ingress.readClaim
    BY <1>20, CoordinatorConsumesEffect, WorldWorkersAssumption
    DEF Shapes, X!ExchangeStates, ClaimInv, ReadSteps
  <2>2. /\ slots'[1 - ingress.write] = << >>
        /\ slots'[ingress.write] = slots[ingress.write]
    BY <1>20, <2>1, CoordinatorConsumesEffect DEF ReadReleased, Shapes
  <2>3. \A s \in 0 .. 1 : s = ingress.write \/ s = 1 - ingress.write
    BY <2>1
  <2>4. \A s \in 0 .. 1 : Len(slots'[s]) <= SlotCapacity
    BY <2>1, <2>2, <2>3, EmptySeq DEF ContentInv
  <2> QED
    BY <1>20, <2>2, <2>4, CoordinatorConsumesEffect DEF ReadReleased, CoordinatorFrame, ContentInv
<1>21. CASE HostStartsPump
  BY <1>21, HostStartsPumpEffect DEF HostMoves, HostFrame, ContentInv, ClaimInv,
         WriteSteps, ReadSteps, CoordinatorExitSteps, HostInv
<1>22. CASE HostStopsPump
  BY <1>22, HostStopsPumpEffect DEF HostMoves, HostFrame, ContentInv, ClaimInv,
         WriteSteps, ReadSteps, CoordinatorExitSteps
<1> QED
  BY <1>1, <1>2, <1>3, <1>4, <1>5, <1>6, <1>7, <1>8, <1>9, <1>10, <1>11, <1>12,
         <1>13, <1>14, <1>15, <1>16, <1>17, <1>18, <1>19, <1>20, <1>21, <1>22
  DEF Next, PumpNext, CoordinatorNext, PublisherNext, HostNext, HostSeesWorkerStop,
      HostIsAskedToStop, HostHasEnded

-----------------------------------------------------------------------------
(***************************************************************************)
(* The stream of events.  Held is the concatenation of the five places an  *)
(* event can be in; each step moves a stretch of it from one place to the  *)
(* next one.                                                               *)
(***************************************************************************)
Held(c, u, w, b, q) == c \o u \o w \o b \o q

\* Popping: the batch comes off the front of the queue.
LEMMA PopPart ==
    ASSUME NEW S, NEW h \in Seq(S), NEW b \in Seq(S), NEW q \in Seq(S)
    PROVE  h \o << >> \o (b \o q) = h \o b \o q
<1>1. h \o << >> = h
  BY ConcatEmptySeq
<1>2. (h \o b) \o q = h \o (b \o q)
  BY ConcatAssociative
<1> QED
  BY <1>1, <1>2

\* The same with everything that is ahead of the batch.
LEMMA HeldPop ==
    ASSUME NEW S, NEW c \in Seq(S), NEW u \in Seq(S), NEW w \in Seq(S),
           NEW b \in Seq(S), NEW q \in Seq(S)
    PROVE  Held(c, u, w, << >>, b \o q) = Held(c, u, w, b, q)
<1> DEFINE h == c \o u \o w
<1>1. h \in Seq(S)
  BY ConcatProperties
<1> HIDE DEF h
<1>2. \A x \in Seq(S) : x \o << >> \o (b \o q) = x \o b \o q
  BY PopPart, SMTT(30)
<1> QED
  BY <1>1, <1>2 DEF Held, h

\* Committing: the batch goes to the end of the written slot.
LEMMA HeldCommit ==
    ASSUME NEW S, NEW c \in Seq(S), NEW u \in Seq(S), NEW w \in Seq(S),
           NEW b \in Seq(S), NEW q \in Seq(S)
    PROVE  Held(c, u, w \o b, << >>, q) = Held(c, u, w, b, q)
<1> DEFINE h == c \o u
<1>1. h \in Seq(S)
  BY ConcatProperties
<1> HIDE DEF h
<1>2. (h \o w) \o b = h \o (w \o b)
  BY <1>1, ConcatAssociative, SMTT(30)
<1>3. (h \o w) \o b \in Seq(S)
  BY <1>1, ConcatProperties
<1>4. ((h \o w) \o b) \o << >> = (h \o w) \o b
  BY <1>3, ConcatEmptySeq
<1> QED
  BY <1>2, <1>4 DEF Held, h

\* Swapping: the written slot becomes the unread one.
LEMMA HeldSwap ==
    ASSUME NEW S, NEW c \in Seq(S), NEW w \in Seq(S), NEW b \in Seq(S), NEW q \in Seq(S)
    PROVE  Held(c, w, << >>, b, q) = Held(c, << >>, w, b, q)
<1>1. (c \o w) \o << >> = c \o w
  <2>1. c \o w \in Seq(S)
    BY ConcatProperties
  <2> QED
    BY <2>1, ConcatEmptySeq
<1>2. c \o << >> = c
  BY ConcatEmptySeq
<1> QED
  BY <1>1, <1>2 DEF Held

\* Handling: the unread events are appended to the handled ones.
LEMMA HeldHandle ==
    ASSUME NEW S, NEW c \in Seq(S), NEW u \in Seq(S), NEW w, NEW b, NEW q
    PROVE  Held(c \o u, << >>, w, b, q) = Held(c, u, w, b, q)
<1>1. (c \o u) \o << >> = c \o u
  <2>1. c \o u \in Seq(S)
    BY ConcatProperties
  <2> QED
    BY <2>1, ConcatEmptySeq
<1> QED
  BY <1>1 DEF Held

\* Arrival: the new event goes to the end.
LEMMA HeldArrival ==
    ASSUME NEW S, NEW h \in Seq(S), NEW q \in Seq(S), NEW e \in S
    PROVE  h \o Append(q, e) = Append(h \o q, e)
<1>1. Append(q, e) = q \o <<e>> /\ <<e>> \in Seq(S)
  BY AppendIsConcat
<1>2. h \o (q \o <<e>>) = (h \o q) \o <<e>>
  BY <1>1, ConcatAssociative
<1>3. h \o q \in Seq(S)
  BY ConcatProperties
<1>4. Append(h \o q, e) = (h \o q) \o <<e>>
  BY <1>3, AppendIsConcat
<1> QED
  BY <1>1, <1>2, <1>4

\* What was handled and what is still unread are part of what is held.
LEMMA HeldLength ==
    ASSUME NEW S, NEW c \in Seq(S), NEW u \in Seq(S), NEW w \in Seq(S),
           NEW b \in Seq(S), NEW q \in Seq(S)
    PROVE  Len(c) + Len(u) <= Len(Held(c, u, w, b, q))
<1>1. c \o u \in Seq(S) /\ Len(c \o u) = Len(c) + Len(u)
  BY ConcatProperties
<1>2. c \o u \o w \in Seq(S) /\ Len(c \o u \o w) = Len(c \o u) + Len(w)
  BY <1>1, ConcatProperties
<1>3. c \o u \o w \o b \in Seq(S) /\ Len(c \o u \o w \o b) = Len(c \o u \o w) + Len(b)
  BY <1>2, ConcatProperties
<1>4. Len(c \o u \o w \o b \o q) = Len(c \o u \o w \o b) + Len(q)
  BY <1>3, ConcatProperties
<1>5. Len(c) \in Nat /\ Len(u) \in Nat /\ Len(w) \in Nat /\ Len(b) \in Nat /\ Len(q) \in Nat
  BY LenProperties
<1> QED
  BY <1>1, <1>2, <1>3, <1>4, <1>5 DEF Held

\* The events emitted so far, one longer.
LEMMA StreamGrows ==
    ASSUME NEW n \in Nat
    PROVE  [i \in 1 .. n + 1 |-> i] = Append([i \in 1 .. n |-> i], n + 1)
<1> DEFINE s == [i \in 1 .. n |-> i]
           t == [i \in 1 .. n + 1 |-> i]
           a == Append(s, n + 1)
<1>1. s \in Seq(Nat) /\ Len(s) = n
  OBVIOUS
<1>2. t \in Seq(Nat) /\ Len(t) = n + 1
  OBVIOUS
<1>3. n + 1 \in Nat
  OBVIOUS
<1> HIDE DEF s, t
<1>4. /\ a \in Seq(Nat) /\ Len(a) = Len(s) + 1
      /\ \A i \in 1 .. Len(s) : a[i] = s[i]
      /\ a[Len(s) + 1] = n + 1
  BY <1>1, <1>3, AppendProperties
<1> HIDE DEF a
<1>5. \A i \in 1 .. Len(t) : t[i] = a[i]
  BY <1>1, <1>2, <1>4 DEF s, t
<1>6. t = a
  BY <1>1, <1>2, <1>4, <1>5, SeqEqual
<1> QED
  BY <1>6 DEF s, t, a

\* The events of the read slot that the coordinator has not handled yet.
Unread ==
    IF coordinator.pc \in {"seal", "sealLocked", "release"} THEN << >>
    ELSE slots[1 - ingress.write]

\* EventsHeld in terms of the five places, now and after a step.
LEMMA EventsHeldIsHeld ==
    EventsHeld = Held(consumed, Unread, slots[ingress.write], pump.batch, source.queue)
BY DEF EventsHeld, Held, Unread, X!ReadSlot

\* The five places hold sequences of events.
LEMMA HeldShapes ==
    ASSUME Shapes
    PROVE  /\ ingress.write \in 0 .. 1
           /\ consumed \in Seq(Events) /\ Unread \in Seq(Events)
           /\ slots[0] \in Seq(Events) /\ slots[1] \in Seq(Events)
           /\ slots[ingress.write] \in Seq(Events)
           /\ slots[1 - ingress.write] \in Seq(Events)
           /\ pump.batch \in Seq(Events) /\ source.queue \in Seq(Events)
BY EmptySeq DEF Shapes, X!ExchangeStates, PumpStates, SourceStates, Unread

\* A step that moves no event.
LEMMA NothingMoves ==
    ASSUME UNCHANGED <<emitted, consumed, slots>>,
           ingress'.write = ingress.write, pump'.batch = pump.batch,
           source'.queue = source.queue, Unread' = Unread,
           coordinator'.ok => coordinator.ok, EventsInOrder
    PROVE  EventsInOrder'
<1>1. EventsHeld' = EventsHeld
  BY EventsHeldIsHeld DEF EventsHeld, X!ReadSlot, Unread
<1> QED
  BY <1>1 DEF EventsInOrder

\* EventsHeld after a step.
LEMMA EventsHeldNext ==
    EventsHeld' = Held(consumed', Unread', slots'[ingress'.write], pump'.batch, source'.queue)
BY DEF EventsHeld, Held, Unread, X!ReadSlot

\* A step that moves events from one place to the next.
LEMMA EventsMove ==
    ASSUME emitted' = emitted, coordinator'.ok => coordinator.ok, EventsInOrder,
           Held(consumed', Unread', slots'[ingress'.write], pump'.batch, source'.queue)
               = Held(consumed, Unread, slots[ingress.write], pump.batch, source.queue)
    PROVE  EventsInOrder'
BY EventsHeldIsHeld, EventsHeldNext DEF EventsInOrder

\* Each event the runtime handed over stays in one place, in order.
LEMMA EventsKept ==
    ASSUME Shapes, HostInv, ClaimInv, ContentInv, EventInv, [Next]_vars
    PROVE  EventsInOrder'
<1>1. CASE RuntimeEmits
  <2> DEFINE e == emitted + 1
  <2>1. /\ emitted \in Nat /\ e \in Events
        /\ Unread' = Unread
    BY <1>1, RuntimeEmitsEffect DEF Shapes, RuntimeFrame, Unread, Events
  <2>2. source'.queue = Append(source.queue, e) /\ emitted' = e
    BY <1>1, RuntimeEmitsEffect
  <2>3. [i \in 1 .. e |-> i] = Append([i \in 1 .. emitted |-> i], e)
    BY <2>1, StreamGrows
  <2> HIDE DEF e
  <2>4. EventsHeld' = Held(consumed, Unread, slots[ingress.write], pump.batch,
                           Append(source.queue, e))
    BY <1>1, <2>1, <2>2, RuntimeEmitsEffect, EventsHeldNext DEF RuntimeFrame
  <2>5. Held(consumed, Unread, slots[ingress.write], pump.batch, Append(source.queue, e))
            = Append(Held(consumed, Unread, slots[ingress.write], pump.batch,
                          source.queue), e)
    <3> DEFINE h == consumed \o Unread \o slots[ingress.write] \o pump.batch
    <3>1. h \in Seq(Events) /\ source.queue \in Seq(Events)
      BY HeldShapes, ConcatProperties
    <3> HIDE DEF h
    <3>2. h \o Append(source.queue, e) = Append(h \o source.queue, e)
      BY <2>1, <3>1, HeldArrival
    <3> QED
      BY <3>2 DEF h, Held
  <2>6. EventsHeld' = Append(EventsHeld, e)
    BY <2>4, <2>5, EventsHeldIsHeld
  <2>7. coordinator' = coordinator
    BY <1>1, RuntimeEmitsEffect DEF RuntimeFrame
  <2>8. [i \in 1 .. emitted' |-> i] = Append([i \in 1 .. emitted |-> i], e)
    BY <2>2, <2>3
  <2> QED
    BY <2>6, <2>7, <2>8 DEF EventsInOrder, EventInv
<1>2. CASE DeadlinePasses
  BY <1>2, NothingMoves DEF DeadlinePasses, Unread, EventInv
<1>3. CASE PumpLoops
  BY <1>3, PumpLoopsEffect, NothingMoves DEF PumpMoves, PumpFrame, Unread, EventInv
<1>4. CASE PumpAcquires
  BY <1>4, PumpAcquiresEffect, NothingMoves DEF StepTaken, PumpFrame, Unread,
         EventInv
<1>5. CASE SealFullSlot
  BY <1>5, SealFullSlotEffect, NothingMoves DEF WriteReleased, PumpFrame, Unread,
         EventInv
<1>6. CASE PumpPops
  <2>1. /\ pump.batch = << >> /\ pump'.batch \in Seq(Events) /\ source'.queue \in Seq(Events)
        /\ source.queue = pump'.batch \o source'.queue
    BY <1>6, PumpPopsEffect DEF ContentInv, PumpStates, SourceStates
  <2>2. UNCHANGED <<emitted, consumed, slots, ingress, coordinator>> /\ Unread' = Unread
    BY <1>6, PumpPopsEffect DEF PumpFrame, Unread
  <2>3. Held(consumed, Unread, slots[ingress.write], << >>, pump'.batch \o source'.queue)
            = Held(consumed, Unread, slots[ingress.write], pump'.batch, source'.queue)
    BY <2>1, HeldShapes, HeldPop, SMTT(30)
  <2> QED
    BY <2>1, <2>2, <2>3, EventsMove DEF EventInv
<1>7. CASE PumpFindsNothing
  BY <1>7, PumpFindsNothingEffect, NothingMoves DEF PumpMoves, WriteReleased,
         PumpFrame, Unread, EventInv
<1>8. CASE PumpCommits
  <2>1. UNCHANGED <<emitted, consumed, source, coordinator>> /\ Unread' = Unread
    BY <1>8, PumpCommitsEffect DEF PumpFrame, Unread, WriteReleased
  <2>2. /\ pump'.batch = << >> /\ ingress'.write = ingress.write
        /\ slots'[ingress.write] = slots[ingress.write] \o pump.batch
    BY <1>8, PumpCommitsEffect DEF WriteReleased
  <2>3. Held(consumed, Unread, slots[ingress.write] \o pump.batch, << >>, source.queue)
            = Held(consumed, Unread, slots[ingress.write], pump.batch, source.queue)
    BY HeldShapes, HeldCommit
  <2> QED
    BY <2>1, <2>2, <2>3, EventsMove DEF EventInv
<1>9. CASE PumpWaits
  BY <1>9, PumpWaitsEffect, NothingMoves DEF StepTaken, PumpFrame, Unread, EventInv
<1>10. CASE PumpTakesPlan
  BY <1>10, PumpTakesPlanEffect, NothingMoves DEF PumpFrame, Unread, EventInv
<1>11. CASE PumpRunsTerminal
  BY <1>11, PumpRunsTerminalEffect, NothingMoves DEF PumpReports, PumpFrame, Unread,
         EventInv
<1>12. CASE PumpCompletes
  BY <1>12, PumpCompletesEffect, NothingMoves DEF PumpReports, PumpFrame, Unread,
         EventInv
<1>13. CASE PumpEnds
  BY <1>13, PumpEndsEffect, NothingMoves DEF PumpFrame, Unread, EventInv
<1>14. CASE CoordinatorSleeps
  BY <1>14, CoordinatorSleepsEffect, NothingMoves DEF CoordinatorMoves,
         CoordinatorFrame, Unread, EventInv
<1>15. CASE CoordinatorSwaps
  <2>1. CASE CoordinatorFails(coordinator, coordinator') /\ ExchangeKept
    BY <1>15, <2>1, CoordinatorSwapsEffect, NothingMoves DEF CoordinatorFails, ExchangeKept,
       CoordinatorFrame, Unread, EventInv
  <2>2. CASE Swapped /\ AfterSwapStep
    <3>1. /\ ~ ingress.readReady /\ ~ ingress.readClaim
          /\ ingress'.write = 1 - ingress.write
      BY <2>2 DEF Swapped
    <3>2. 1 - ingress'.write = ingress.write
      BY <3>1, HeldShapes
    <3>3. slots[1 - ingress.write] = << >>
      BY <3>1 DEF ContentInv
    <3>4. Unread = << >> /\ Unread' = slots[ingress.write] /\ slots'[ingress'.write] = << >>
      BY <1>15, <2>2, <3>1, <3>2, <3>3, CoordinatorSwapsEffect DEF Unread, AfterSwapStep, CoordinatorFrame
    <3>5. Held(consumed, slots[ingress.write], << >>, pump.batch, source.queue)
              = Held(consumed, << >>, slots[ingress.write], pump.batch, source.queue)
      BY HeldShapes, HeldSwap
    <3> QED
      BY <1>15, <2>2, <3>4, <3>5, CoordinatorSwapsEffect, EventsMove
      DEF CoordinatorFrame, AfterSwapStep, CoordinatorMoves, EventInv
  <2>3. CASE /\ CoordinatorMoves(coordinator, coordinator')
             /\ coordinator'.pc = "swapWait" /\ ExchangeKept
    BY <1>15, <2>3, CoordinatorSwapsEffect, NothingMoves DEF CoordinatorMoves, ExchangeKept,
       CoordinatorFrame, Unread, EventInv
  <2> QED
    BY <1>15, <2>1, <2>2, <2>3, CoordinatorSwapsEffect
<1>16. CASE CoordinatorWaitsSwap
  <2>1. CASE CoordinatorFails(coordinator, coordinator') /\ ExchangeKept
    BY <1>16, <2>1, CoordinatorWaitsSwapEffect, NothingMoves DEF CoordinatorFails, ExchangeKept,
       CoordinatorFrame, Unread, EventInv
  <2>2. CASE Swapped /\ AfterSwapStep
    <3>1. /\ ~ ingress.readReady /\ ~ ingress.readClaim
          /\ ingress'.write = 1 - ingress.write
      BY <2>2 DEF Swapped
    <3>2. 1 - ingress'.write = ingress.write
      BY <3>1, HeldShapes
    <3>3. slots[1 - ingress.write] = << >>
      BY <3>1 DEF ContentInv
    <3>4. Unread = << >> /\ Unread' = slots[ingress.write] /\ slots'[ingress'.write] = << >>
      BY <1>16, <2>2, <3>1, <3>2, <3>3, CoordinatorWaitsSwapEffect DEF Unread, AfterSwapStep, CoordinatorFrame
    <3>5. Held(consumed, slots[ingress.write], << >>, pump.batch, source.queue)
              = Held(consumed, << >>, slots[ingress.write], pump.batch, source.queue)
      BY HeldShapes, HeldSwap
    <3> QED
      BY <1>16, <2>2, <3>4, <3>5, CoordinatorWaitsSwapEffect, EventsMove
      DEF CoordinatorFrame, AfterSwapStep, CoordinatorMoves, EventInv
  <2> QED
    BY <1>16, <2>1, <2>2, CoordinatorWaitsSwapEffect
<1>17. CASE CoordinatorPrepares
  BY <1>17, CoordinatorPreparesEffect, NothingMoves DEF CoordinatorMoves,
         CoordinatorFails, WritePrepared, CoordinatorFrame, Unread, EventInv
<1>18. CASE CoordinatorAcquires
  BY <1>18, CoordinatorAcquiresEffect, NothingMoves DEF CoordinatorFails,
         ExchangeKept, CoordinatorFrame, Unread, EventInv
<1>19. CASE CoordinatorBegins
  <2>1. CASE ~ coordinator'.ok
    BY <2>1 DEF EventsInOrder
  <2>2. CASE coordinator'.ok
    BY <1>19, <2>2, CoordinatorBeginsEffect, NothingMoves DEF CoordinatorMoves, CoordinatorNotOkStep,
       CoordinatorFrame, Unread, EventInv
  <2> QED
    BY <2>1, <2>2
<1>20. CASE CoordinatorHandles
  <2>1. /\ coordinator.slot = 1 - ingress.write /\ coordinator.ok
        /\ Unread = slots[1 - ingress.write]
    BY <1>20, CoordinatorHandlesEffect DEF ClaimInv, ReadSteps, OkInv, EventInv,
       CoordinatorExitSteps, Unread
  <2>2. CASE ~ coordinator'.ok
    BY <2>2 DEF EventsInOrder
  <2>3. CASE coordinator'.pc = "seal"
    <3>1. Unread' = << >> /\ consumed' = consumed \o Unread
      BY <1>20, <2>1, <2>3, CoordinatorHandlesEffect DEF Unread
    <3>2. Held(consumed \o Unread, << >>, slots[ingress.write], pump.batch, source.queue)
              = Held(consumed, Unread, slots[ingress.write], pump.batch, source.queue)
      BY HeldShapes, HeldHandle
    <3> QED
      BY <1>20, <2>1, <3>1, <3>2, CoordinatorHandlesEffect, EventsMove
      DEF CoordinatorFrame, EventInv
  <2> QED
    BY <1>20, <2>2, <2>3, CoordinatorHandlesEffect
<1>21. CASE CoordinatorChecksSeal
  <2>1. CASE ~ coordinator'.ok
    BY <2>1 DEF EventsInOrder
  <2>2. CASE coordinator'.ok
    BY <1>21, <2>2, CoordinatorChecksSealEffect, NothingMoves DEF CoordinatorMoves, CoordinatorNotOkStep,
       CoordinatorFrame, Unread, EventInv
  <2> QED
    BY <2>1, <2>2
<1>22. CASE CoordinatorSeals
  <2>1. CASE ~ coordinator'.ok
    BY <2>1 DEF EventsInOrder
  <2>2. CASE coordinator'.ok
    BY <1>22, <2>2, CoordinatorSealsEffect, NothingMoves DEF CoordinatorMoves, CoordinatorNotOkStep,
       CoordinatorFrame, Unread, EventInv
  <2> QED
    BY <2>1, <2>2
<1>23. CASE CoordinatorReleases
  <2>1. /\ coordinator.slot = 1 - ingress.write /\ Unread = << >>
        /\ ingress'.write = ingress.write
        /\ slots' = [slots EXCEPT ![1 - ingress.write] = << >>]
        /\ coordinator'.ok = coordinator.ok
        /\ coordinator'.pc \in {"loop", "exit"}
    BY <1>23, CoordinatorReleasesEffect DEF ClaimInv, ReadSteps, ReadReleased, Unread,
       CoordinatorFails
  <2>2. slots'[1 - ingress.write] = << >> /\ slots'[ingress.write] = slots[ingress.write]
    BY <2>1, HeldShapes DEF Shapes
  <2>3. Unread' = << >>
    BY <2>1, <2>2 DEF Unread
  <2> QED
    BY <1>23, <2>1, <2>2, <2>3, CoordinatorReleasesEffect, EventsMove
    DEF CoordinatorFrame, EventInv
<1>24. CASE CoordinatorStops
  BY <1>24, CoordinatorStopsEffect, NothingMoves DEF CoordinatorFrame, Unread,
         EventInv
<1>25. CASE CoordinatorPublishes
  BY <1>25, CoordinatorPublishesEffect, NothingMoves DEF CoordinatorMoves,
         CoordinatorFails, CoordinatorFrame, Unread, EventInv
<1>26. CASE CoordinatorTakes
  BY <1>26, CoordinatorTakesEffect, NothingMoves DEF CoordinatorFails,
         CoordinatorFrame, Unread, EventInv
<1>27. CASE CoordinatorConsumes
  <2>1. /\ coordinator.slot = 1 - ingress.write
        /\ Unread = slots[1 - ingress.write]
        /\ ingress'.write = ingress.write
        /\ slots' = [slots EXCEPT ![1 - ingress.write] = << >>]
        /\ coordinator'.ok = coordinator.ok
        /\ coordinator'.pc \in {"publish", "exit"}
    BY <1>27, CoordinatorConsumesEffect DEF ClaimInv, ReadSteps, ReadReleased, Unread,
       CoordinatorFails
  <2>2. slots'[1 - ingress.write] = << >> /\ slots'[ingress.write] = slots[ingress.write]
    BY <2>1, HeldShapes DEF Shapes
  <2>3. Unread' = << >> /\ consumed' = consumed \o Unread
    BY <1>27, <2>1, <2>2, CoordinatorConsumesEffect DEF Unread
  <2>4. Held(consumed \o Unread, << >>, slots[ingress.write], pump.batch, source.queue)
            = Held(consumed, Unread, slots[ingress.write], pump.batch, source.queue)
    BY HeldShapes, HeldHandle
  <2> QED
    BY <1>27, <2>1, <2>2, <2>3, <2>4, CoordinatorConsumesEffect, EventsMove
    DEF CoordinatorFrame, EventInv
<1>28. CASE CoordinatorStoresReason
  BY <1>28, CoordinatorStoresReasonEffect, NothingMoves DEF CoordinatorFrame,
         Unread, EventInv
<1>29. CASE CoordinatorEnds
  BY <1>29, CoordinatorEndsEffect, NothingMoves DEF CoordinatorMoves, BufferClosed,
         CoordinatorFrame, Unread, EventInv
<1>30. CASE PublisherAcquires
  BY <1>30, PublisherAcquiresEffect, NothingMoves DEF BatchTaken, PublisherFrame,
         Unread, EventInv
<1>31. CASE PublisherSubmits
  BY <1>31, PublisherSubmitsEffect, NothingMoves DEF PublisherFrame, Unread,
         EventInv
<1>32. CASE PublisherReleases
  BY <1>32, PublisherReleasesEffect, NothingMoves DEF SlotReturned, PublisherFrame,
         Unread, EventInv
<1>33. CASE PublisherFindsNoBatch
  BY <1>33, PublisherFindsNoBatchEffect, NothingMoves DEF PublisherFrame, Unread,
         EventInv
<1>34. CASE PublisherFails
  BY <1>34, PublisherFailsEffect, NothingMoves DEF BufferClosed, PublisherFrame,
         Unread, EventInv
<1>35. CASE PublisherEnds
  BY <1>35, PublisherEndsEffect, NothingMoves DEF BufferClosed, PublisherFrame,
         Unread, EventInv
<1>36. CASE HostStartsPublisher
  BY <1>36, HostStartsPublisherEffect, NothingMoves DEF HostMoves, HostFrame,
         Unread, EventInv
<1>37. CASE HostStartsPump
  BY <1>37, HostStartsPumpEffect, NothingMoves DEF HostMoves, HostFrame, Unread,
         EventInv
<1>38. CASE HostStartsCoordinator
  BY <1>38, HostStartsCoordinatorEffect, NothingMoves DEF HostMoves, HostFrame,
         Unread, EventInv, HostInv
<1>39. CASE HostStopsPump
  BY <1>39, HostStopsPumpEffect, NothingMoves DEF HostMoves, HostFrame, Unread,
         EventInv
<1>40. CASE HostStopsPublisher
  BY <1>40, HostStopsPublisherEffect, NothingMoves DEF BufferClosed, HostMoves,
         HostFrame, Unread, EventInv
<1>41. CASE HostJoinsStarted
  BY <1>41, HostJoinsStartedEffect, NothingMoves DEF HostMoves, HostAlone,
         HostFrame, Unread, EventInv
<1>42. CASE BeginShutdown
  BY <1>42, BeginShutdownEffect, NothingMoves DEF HostMoves, HostFrame, Unread,
         EventInv
<1>43. CASE HostWaitsGameplay
  BY <1>43, HostWaitsGameplayEffect, NothingMoves DEF HostAlone, HostFrame, Unread,
         EventInv
<1>44. CASE HostRequestsDrain
  BY <1>44, HostRequestsDrainEffect, NothingMoves DEF HostMoves, HostFrame, Unread,
         EventInv
<1>45. CASE HostFinishesWrites
  BY <1>45, HostFinishesWritesEffect, NothingMoves DEF HostMoves, HostFrame, Unread,
         EventInv
<1>46. CASE HostJoinsPublisher
  BY <1>46, HostJoinsPublisherEffect, NothingMoves DEF HostAlone, HostFrame, Unread,
         EventInv
<1>47. CASE HostEntersTerminalConsume
  BY <1>47, HostEntersTerminalConsumeEffect, NothingMoves DEF HostMoves, HostAlone,
         HostFrame, Unread, EventInv
<1>48. CASE HostEntersTerminalDrain
  BY <1>48, HostEntersTerminalDrainEffect, NothingMoves DEF HostMoves, HostFrame,
         Unread, EventInv
<1>49. CASE HostShutsDownRuntime
  BY <1>49, HostShutsDownRuntimeEffect, NothingMoves DEF HostMoves, HostFrame,
         Unread, EventInv
<1>50. CASE HostJoinsPump
  BY <1>50, HostJoinsPumpEffect, NothingMoves DEF HostMoves, HostAlone, HostFrame,
         Unread, EventInv
<1>51. CASE HostReports
  BY <1>51, HostReportsEffect, NothingMoves DEF HostAlone, HostFrame, Unread,
         EventInv
<1>52. CASE UNCHANGED vars
  BY <1>52, NothingMoves DEF vars, Unread, EventInv
<1> QED
  BY <1>1, <1>2, <1>3, <1>4, <1>5, <1>6, <1>7, <1>8, <1>9, <1>10, <1>11, <1>12,
         <1>13, <1>14, <1>15, <1>16, <1>17, <1>18, <1>19, <1>20, <1>21, <1>22,
         <1>23, <1>24, <1>25, <1>26, <1>27, <1>28, <1>29, <1>30, <1>31, <1>32,
         <1>33, <1>34, <1>35, <1>36, <1>37, <1>38, <1>39, <1>40, <1>41, <1>42,
         <1>43, <1>44, <1>45, <1>46, <1>47, <1>48, <1>49, <1>50, <1>51, <1>52
  DEF Next, PumpNext, CoordinatorNext, PublisherNext, HostNext, HostSeesWorkerStop,
      HostIsAskedToStop, HostHasEnded

\* The events emitted so far, counted.
LEMMA StreamLength ==
    ASSUME emitted \in 0 .. MaxEvents
    PROVE  Len([i \in 1 .. emitted |-> i]) = emitted
BY WorldWorkersAssumption

\* No more events are handled than were emitted.
LEMMA ConsumedKept ==
    ASSUME Shapes, ClaimInv, EventInv, [Next]_vars
    PROVE  (Len(consumed) <= emitted)'
<1>u. ASSUME UNCHANGED <<consumed, emitted>> PROVE (Len(consumed) <= emitted)'
  BY <1>u DEF EventInv
<1>1. CASE PumpNext
  BY <1>1, <1>u, PumpNextFrame DEF PumpFrame
<1>2. CASE PublisherNext
  BY <1>2, <1>u, PublisherNextFrame DEF PublisherFrame
<1>3. CASE DeadlinePasses \/ UNCHANGED vars
  BY <1>3, <1>u
  DEF DeadlinePasses, vars
<1>4. CASE CoordinatorSleeps \/ CoordinatorSwaps \/ CoordinatorWaitsSwap \/
            CoordinatorPrepares \/ CoordinatorAcquires \/ CoordinatorBegins \/
            CoordinatorChecksSeal \/ CoordinatorSeals \/ CoordinatorReleases \/
            CoordinatorStops \/ CoordinatorPublishes \/ CoordinatorTakes \/
            CoordinatorStoresReason \/ CoordinatorEnds
  BY <1>4, <1>u, CoordinatorSleepsEffect, CoordinatorSwapsEffect,
         CoordinatorWaitsSwapEffect, CoordinatorPreparesEffect,
         CoordinatorAcquiresEffect, CoordinatorBeginsEffect,
         CoordinatorChecksSealEffect, CoordinatorSealsEffect,
         CoordinatorReleasesEffect, CoordinatorStopsEffect,
         CoordinatorPublishesEffect, CoordinatorTakesEffect,
         CoordinatorStoresReasonEffect, CoordinatorEndsEffect
  DEF CoordinatorFrame
<1>5. CASE HostStartsPublisher \/ HostStartsPump \/ HostStartsCoordinator \/
            HostStopsPump \/ HostStopsPublisher \/ HostJoinsStarted \/ BeginShutdown
            \/ HostWaitsGameplay \/ HostRequestsDrain \/ HostFinishesWrites \/
            HostJoinsPublisher \/ HostEntersTerminalConsume \/
            HostEntersTerminalDrain \/ HostShutsDownRuntime \/ HostJoinsPump \/
            HostReports
  BY <1>5, <1>u, HostStartsPublisherEffect, HostStartsPumpEffect,
         HostStartsCoordinatorEffect, HostStopsPumpEffect, HostStopsPublisherEffect,
         HostJoinsStartedEffect, BeginShutdownEffect, HostWaitsGameplayEffect,
         HostRequestsDrainEffect, HostFinishesWritesEffect,
         HostJoinsPublisherEffect, HostEntersTerminalConsumeEffect,
         HostEntersTerminalDrainEffect, HostShutsDownRuntimeEffect,
         HostJoinsPumpEffect, HostReportsEffect
  DEF HostFrame, HostAlone
<1>6. CASE RuntimeEmits
  BY <1>6, RuntimeEmitsEffect, LenProperties DEF RuntimeFrame, Shapes, EventInv
<1>7. CASE CoordinatorHandles
  <2>1. /\ coordinator.slot = 1 - ingress.write /\ coordinator.ok
        /\ Unread = slots[1 - ingress.write]
    BY <1>7, CoordinatorHandlesEffect DEF ClaimInv, ReadSteps, OkInv, EventInv,
       CoordinatorExitSteps, Unread
  <2>2. consumed' = consumed \o Unread /\ emitted' = emitted
    BY <1>7, <2>1, CoordinatorHandlesEffect DEF CoordinatorFrame
  <2>3. Len(consumed') = Len(consumed) + Len(Unread)
    BY <2>2, HeldShapes, ConcatProperties
  <2>4. Len(consumed) + Len(Unread) <= Len(EventsHeld)
    BY HeldShapes, HeldLength, EventsHeldIsHeld
  <2>5. Len(EventsHeld) = emitted
    BY <2>1, StreamLength DEF EventInv, EventsInOrder, Shapes
  <2> QED
    BY <2>2, <2>3, <2>4, <2>5
<1>8. CASE CoordinatorConsumes
  <2>1. /\ coordinator.slot = 1 - ingress.write /\ coordinator.ok
        /\ Unread = slots[1 - ingress.write]
    BY <1>8, CoordinatorConsumesEffect DEF ClaimInv, ReadSteps, OkInv, EventInv,
       CoordinatorExitSteps, Unread
  <2>2. consumed' = consumed \o Unread /\ emitted' = emitted
    BY <1>8, <2>1, CoordinatorConsumesEffect DEF CoordinatorFrame
  <2>3. Len(consumed') = Len(consumed) + Len(Unread)
    BY <2>2, HeldShapes, ConcatProperties
  <2>4. Len(consumed) + Len(Unread) <= Len(EventsHeld)
    BY HeldShapes, HeldLength, EventsHeldIsHeld
  <2>5. Len(EventsHeld) = emitted
    BY <2>1, StreamLength DEF EventInv, EventsInOrder, Shapes
  <2> QED
    BY <2>2, <2>3, <2>4, <2>5
<1> QED
  BY <1>1, <1>2, <1>3, <1>4, <1>5, <1>6, <1>7, <1>8
  DEF Next, PumpNext, CoordinatorNext, PublisherNext, HostNext, HostSeesWorkerStop,
      HostIsAskedToStop, HostHasEnded
\* The coordinator and the pump take turns: one plan, then one completion.
LEMMA TurnKept ==
    ASSUME Shapes, HostInv, ClaimInv, TurnInv, [Next]_vars
    PROVE  TurnInv'
<1>u. ASSUME UNCHANGED <<pump, exchange, coordinator>> PROVE TurnInv'
  BY <1>u DEF TurnInv, PumpAtWork, CoordinatorExitSteps, NoPlan
<1>1. CASE PublisherNext
  BY <1>1, <1>u, PublisherNextFrame DEF PublisherFrame
<1>2. CASE RuntimeEmits \/ DeadlinePasses \/ UNCHANGED vars
  BY <1>2, <1>u, RuntimeEmitsEffect
  DEF RuntimeFrame, DeadlinePasses, vars
<1>3. CASE HostStartsPublisher \/ HostStopsPublisher \/ HostJoinsStarted \/
            BeginShutdown \/ HostWaitsGameplay \/ HostRequestsDrain \/
            HostFinishesWrites \/ HostJoinsPublisher \/ HostEntersTerminalConsume \/
            HostEntersTerminalDrain \/ HostShutsDownRuntime \/ HostJoinsPump \/
            HostReports
  BY <1>3, <1>u, HostStartsPublisherEffect, HostStopsPublisherEffect,
         HostJoinsStartedEffect, BeginShutdownEffect, HostWaitsGameplayEffect,
         HostRequestsDrainEffect, HostFinishesWritesEffect,
         HostJoinsPublisherEffect, HostEntersTerminalConsumeEffect,
         HostEntersTerminalDrainEffect, HostShutsDownRuntimeEffect,
         HostJoinsPumpEffect, HostReportsEffect
  DEF HostFrame, HostAlone
<1>4. CASE PumpLoops
  BY <1>4, PumpLoopsEffect DEF PumpMoves, PumpFrame, TurnInv, PumpAtWork,
         CoordinatorExitSteps, NoPlan
<1>5. CASE PumpAcquires
  BY <1>5, PumpAcquiresEffect DEF StepTaken, PumpFrame, TurnInv, PumpAtWork,
         CoordinatorExitSteps, NoPlan
<1>6. CASE SealFullSlot
  BY <1>6, SealFullSlotEffect DEF WriteReleased, PumpFrame, TurnInv, PumpAtWork,
         CoordinatorExitSteps, NoPlan
<1>7. CASE PumpPops
  BY <1>7, PumpPopsEffect DEF PumpFrame, TurnInv, PumpAtWork, CoordinatorExitSteps,
         NoPlan
<1>8. CASE PumpFindsNothing
  BY <1>8, PumpFindsNothingEffect DEF PumpMoves, WriteReleased, PumpFrame, TurnInv,
         PumpAtWork, CoordinatorExitSteps, NoPlan
<1>9. CASE PumpCommits
  BY <1>9, PumpCommitsEffect DEF WriteReleased, PumpFrame, TurnInv, PumpAtWork,
         CoordinatorExitSteps, NoPlan
<1>10. CASE PumpWaits
  BY <1>10, PumpWaitsEffect DEF StepTaken, PumpFrame, TurnInv, PumpAtWork,
         CoordinatorExitSteps, NoPlan
<1>11. CASE PumpTakesPlan
  BY <1>11, PumpTakesPlanEffect DEF PumpFrame, TurnInv, PumpAtWork,
         CoordinatorExitSteps, NoPlan
<1>12. CASE PumpRunsTerminal
  BY <1>12, PumpRunsTerminalEffect DEF PumpReports, PumpFrame, TurnInv, PumpAtWork,
         CoordinatorExitSteps, NoPlan
<1>13. CASE PumpCompletes
  BY <1>13, PumpCompletesEffect DEF PumpReports, PumpFrame, TurnInv, PumpAtWork,
         CoordinatorExitSteps, NoPlan
<1>14. CASE PumpEnds
  BY <1>14, PumpEndsEffect DEF PumpFrame, TurnInv, PumpAtWork, CoordinatorExitSteps,
         NoPlan
<1>15. CASE CoordinatorSleeps
  BY <1>15, CoordinatorSleepsEffect DEF CoordinatorMoves, CoordinatorFrame, TurnInv,
         PumpAtWork, CoordinatorExitSteps, NoPlan
<1>16. CASE CoordinatorSwaps
  BY <1>16, CoordinatorSwapsEffect DEF CoordinatorMoves, CoordinatorFails,
         ExchangeKept, Swapped, AfterSwapStep, CoordinatorFrame, TurnInv,
         PumpAtWork, CoordinatorExitSteps, NoPlan
<1>17. CASE CoordinatorWaitsSwap
  BY <1>17, CoordinatorWaitsSwapEffect DEF CoordinatorMoves, CoordinatorFails,
         ExchangeKept, Swapped, AfterSwapStep, CoordinatorFrame, TurnInv,
         PumpAtWork, CoordinatorExitSteps, NoPlan
<1>18. CASE CoordinatorPrepares
  BY <1>18, CoordinatorPreparesEffect DEF CoordinatorMoves, CoordinatorFails,
         WritePrepared, CoordinatorFrame, TurnInv, PumpAtWork, CoordinatorExitSteps,
         NoPlan
<1>19. CASE CoordinatorAcquires
  BY <1>19, CoordinatorAcquiresEffect DEF CoordinatorFails, ExchangeKept,
         CoordinatorFrame, TurnInv, PumpAtWork, CoordinatorExitSteps, NoPlan
<1>20. CASE CoordinatorBegins
  BY <1>20, CoordinatorBeginsEffect DEF CoordinatorMoves, CoordinatorNotOkStep,
         EpochSet, CoordinatorFrame, TurnInv, PumpAtWork, CoordinatorExitSteps,
         NoPlan
<1>21. CASE CoordinatorHandles
  BY <1>21, CoordinatorHandlesEffect DEF RecordAdded, CoordinatorFrame, TurnInv,
         PumpAtWork, CoordinatorExitSteps, NoPlan
<1>22. CASE CoordinatorChecksSeal
  BY <1>22, CoordinatorChecksSealEffect DEF CoordinatorMoves, CoordinatorNotOkStep,
         CoordinatorFrame, TurnInv, PumpAtWork, CoordinatorExitSteps, NoPlan
<1>23. CASE CoordinatorSeals
  BY <1>23, CoordinatorSealsEffect DEF CoordinatorMoves, CoordinatorNotOkStep,
         EpochSet, BatchSealed, CoordinatorFrame, TurnInv, PumpAtWork,
         CoordinatorExitSteps, NoPlan
<1>24. CASE CoordinatorReleases
  BY <1>24, CoordinatorReleasesEffect DEF CoordinatorFails, ReadReleased,
         CoordinatorFrame, TurnInv, PumpAtWork, CoordinatorExitSteps, NoPlan
<1>25. CASE CoordinatorStops
  BY <1>25, CoordinatorStopsEffect DEF CoordinatorFrame, TurnInv, PumpAtWork,
         CoordinatorExitSteps, NoPlan
<1>26. CASE CoordinatorPublishes
  BY <1>26, CoordinatorPublishesEffect DEF CoordinatorMoves, CoordinatorFails,
         CoordinatorFrame, TurnInv, PumpAtWork, CoordinatorExitSteps, NoPlan,
         Shapes, CoordinatorStates
<1>27. CASE CoordinatorTakes
  BY <1>27, CoordinatorTakesEffect DEF CoordinatorFails, CoordinatorFrame, TurnInv,
         PumpAtWork, CoordinatorExitSteps, NoPlan
<1>28. CASE CoordinatorConsumes
  BY <1>28, CoordinatorConsumesEffect DEF CoordinatorFails, ReadReleased,
         CoordinatorFrame, TurnInv, PumpAtWork, CoordinatorExitSteps, NoPlan
<1>29. CASE CoordinatorStoresReason
  BY <1>29, CoordinatorStoresReasonEffect DEF CoordinatorFrame, TurnInv, PumpAtWork,
         CoordinatorExitSteps, NoPlan
<1>30. CASE CoordinatorEnds
  BY <1>30, CoordinatorEndsEffect DEF CoordinatorMoves, BufferClosed,
         CoordinatorFrame, TurnInv, PumpAtWork, CoordinatorExitSteps, NoPlan
<1>31. CASE HostStartsPump
  BY <1>31, HostStartsPumpEffect DEF HostMoves, HostFrame, TurnInv, PumpAtWork,
         CoordinatorExitSteps, NoPlan, HostInv
<1>32. CASE HostStartsCoordinator
  BY <1>32, HostStartsCoordinatorEffect DEF HostMoves, HostFrame, TurnInv,
         PumpAtWork, CoordinatorExitSteps, NoPlan, HostInv
<1>33. CASE HostStopsPump
  BY <1>33, HostStopsPumpEffect DEF HostMoves, HostFrame, TurnInv, PumpAtWork,
         CoordinatorExitSteps, NoPlan
<1> QED
  BY <1>1, <1>2, <1>3, <1>4, <1>5, <1>6, <1>7, <1>8, <1>9, <1>10, <1>11, <1>12,
         <1>13, <1>14, <1>15, <1>16, <1>17, <1>18, <1>19, <1>20, <1>21, <1>22,
         <1>23, <1>24, <1>25, <1>26, <1>27, <1>28, <1>29, <1>30, <1>31, <1>32, <1>33
  DEF Next, PumpNext, CoordinatorNext, PublisherNext, HostNext, HostSeesWorkerStop,
      HostIsAskedToStop, HostHasEnded

\* A step that changes neither the slots nor the coordinator's epoch.
LEMMA FullFrame ==
    ASSUME slots' = slots, ingress'.write = ingress.write,
           coordinator'.epoch = coordinator.epoch
    PROVE  /\ WriteFull' <=> WriteFull
           /\ WriteFullOrEarly' <=> WriteFullOrEarly
           /\ ReadFullOrEarly' <=> ReadFullOrEarly
           /\ EarlyEpoch' <=> EarlyEpoch
BY DEF WriteFull, WriteFullOrEarly, ReadFullOrEarly, SlotFull, EarlyEpoch

\* Emptying the read slot leaves the written one as full as it was.
LEMMA FullAfterRelease ==
    ASSUME Shapes, ReadReleased, coordinator.slot = 1 - ingress.write
    PROVE  WriteFull' <=> WriteFull
BY HeldShapes DEF WriteFull, SlotFull, ReadReleased, Shapes

\* A terminal epoch is opened only after a slot was found full.
LEMMA FullKept ==
    ASSUME Shapes, HostInv, ClaimInv, ContentInv, TurnInv, FullInv, EpochInv, [Next]_vars
    PROVE  FullInv'
<1>u. ASSUME UNCHANGED <<pump, ingress, slots, exchange, coordinator>> PROVE FullInv'
  BY <1>u DEF FullInv, WriteFullOrEarly, WriteFull, ReadFullOrEarly, SlotFull,
         EarlyEpoch
<1>1. CASE PublisherNext
  BY <1>1, <1>u, PublisherNextFrame DEF PublisherFrame
<1>2. CASE RuntimeEmits \/ DeadlinePasses \/ UNCHANGED vars
  BY <1>2, <1>u, RuntimeEmitsEffect
  DEF RuntimeFrame, DeadlinePasses, vars
<1>3. CASE HostStartsPublisher \/ HostStopsPublisher \/ HostJoinsStarted \/
            BeginShutdown \/ HostWaitsGameplay \/ HostRequestsDrain \/
            HostFinishesWrites \/ HostJoinsPublisher \/ HostEntersTerminalConsume \/
            HostEntersTerminalDrain \/ HostShutsDownRuntime \/ HostJoinsPump \/
            HostReports
  BY <1>3, <1>u, HostStartsPublisherEffect, HostStopsPublisherEffect,
         HostJoinsStartedEffect, BeginShutdownEffect, HostWaitsGameplayEffect,
         HostRequestsDrainEffect, HostFinishesWritesEffect,
         HostJoinsPublisherEffect, HostEntersTerminalConsumeEffect,
         HostEntersTerminalDrainEffect, HostShutsDownRuntimeEffect,
         HostJoinsPumpEffect, HostReportsEffect
  DEF HostFrame, HostAlone
<1>4. CASE PumpLoops
  <2>1. slots' = slots /\ ingress'.write = ingress.write
        /\ coordinator'.epoch = coordinator.epoch
    BY <1>4, PumpLoopsEffect DEF PumpMoves, PumpFrame
  <2> QED
    BY <1>4, <2>1, FullFrame, PumpLoopsEffect DEF PumpMoves, PumpFrame, FullInv
<1>5. CASE PumpAcquires
  <2>1. slots' = slots /\ ingress'.write = ingress.write
        /\ coordinator' = coordinator /\ exchange' = exchange
    BY <1>5, PumpAcquiresEffect DEF PumpFrame
  <2>2. CASE ingress' = ingress
             /\ \E report \in {"BufferFailure", "Idle"} : StepTaken(pump, pump', report)
    BY <2>1, <2>2, FullFrame DEF StepTaken, FullInv
  <2>3. CASE ingress' # ingress
    <3>1. ingress.generation \in Nat
      BY DEF Shapes, X!ExchangeStates
    <3>2. /\ ingress'.generation = ingress.generation
          /\ pump'.claim.generation = ingress.generation
          /\ pump'.pc = "hold" /\ ~ pump'.full /\ pump'.epoch = pump.epoch
      BY <1>5, <2>3, PumpAcquiresEffect
    <3>3. pump'.claim.generation <= ingress'.generation
      BY <3>1, <3>2
    <3> QED
      BY <2>1, <3>2, <3>3, FullFrame DEF FullInv
  <2> QED
    BY <1>5, <2>2, <2>3, PumpAcquiresEffect
<1>6. CASE SealFullSlot
  <2>1. slots' = slots /\ ingress'.write = ingress.write
        /\ coordinator'.epoch = coordinator.epoch
    BY <1>6, SealFullSlotEffect DEF WriteReleased, PumpFrame
  <2>2. WriteFull
    <3> DEFINE a == Len(slots[ingress.write])
    <3>1. SlotCapacity - a = 0
      BY <1>6, SealFullSlotEffect DEF FreeRoom, ClaimInv, WriteSteps
    <3>2. a \in Nat /\ SlotCapacity \in Nat
      BY HeldShapes, LenProperties, WorldWorkersAssumption
    <3> HIDE DEF a
    <3>3. a = SlotCapacity
      BY <3>1, <3>2
    <3> QED
      BY <3>3 DEF WriteFull, SlotFull, a
  <2> QED
    BY <1>6, <2>1, <2>2, FullFrame, SealFullSlotEffect
    DEF WriteReleased, PumpFrame, FullInv, WriteFullOrEarly
<1>7. CASE PumpPops
  <2>1. slots' = slots /\ ingress'.write = ingress.write
        /\ coordinator'.epoch = coordinator.epoch
    BY <1>7, PumpPopsEffect DEF PumpFrame
  <2> QED
    BY <1>7, <2>1, FullFrame, PumpPopsEffect DEF PumpFrame, FullInv
<1>8. CASE PumpFindsNothing
  <2>1. slots' = slots /\ ingress'.write = ingress.write
        /\ coordinator'.epoch = coordinator.epoch
    BY <1>8, PumpFindsNothingEffect DEF PumpMoves, WriteReleased, PumpFrame
  <2> QED
    BY <1>8, <2>1, FullFrame, PumpFindsNothingEffect DEF PumpMoves, WriteReleased, PumpFrame, FullInv
<1>9. CASE PumpCommits
  <2>1. WriteFull => WriteFull'
    <3> DEFINE a == Len(slots[ingress.write])
               b == Len(pump.batch)
               c == Len(slots'[ingress.write])
    <3>1. c = a + b
      <4>1. slots[ingress.write] \in Seq(Events) /\ pump.batch \in Seq(Events)
        BY HeldShapes
      <4>2. slots'[ingress.write] = slots[ingress.write] \o pump.batch
        BY <1>9, PumpCommitsEffect
      <4>3. Len(slots[ingress.write] \o pump.batch)
                = Len(slots[ingress.write]) + Len(pump.batch)
        BY <4>1, ConcatProperties
      <4> QED
        BY <4>2, <4>3
    <3>2. a \in Nat /\ b \in Nat /\ SlotCapacity \in Nat
      BY HeldShapes, LenProperties, WorldWorkersAssumption
    <3>3. a + b <= SlotCapacity
      BY <1>9, PumpCommitsEffect DEF ContentInv
    <3> HIDE DEF a, b, c
    <3>4. a = SlotCapacity => c = SlotCapacity
      BY <3>1, <3>2, <3>3
    <3> QED
      BY <1>9, <3>4, PumpCommitsEffect DEF WriteFull, SlotFull, WriteReleased, a, c
  <2>2. EarlyEpoch' <=> EarlyEpoch
    BY <1>9, PumpCommitsEffect DEF EarlyEpoch, PumpFrame
  <2>3. ReadFullOrEarly' <=> ReadFullOrEarly
    BY <1>9, <2>2, PumpCommitsEffect DEF ReadFullOrEarly, SlotFull, WriteReleased
  <2> QED
    BY <1>9, <2>1, <2>2, <2>3, PumpCommitsEffect
    DEF WriteReleased, PumpFrame, FullInv, WriteFullOrEarly
<1>10. CASE PumpWaits
  <2>1. slots' = slots /\ ingress'.write = ingress.write
        /\ coordinator'.epoch = coordinator.epoch
    BY <1>10, PumpWaitsEffect DEF StepTaken, PumpFrame
  <2> QED
    BY <1>10, <2>1, FullFrame, PumpWaitsEffect DEF StepTaken, PumpFrame, FullInv
<1>11. CASE PumpTakesPlan
  <2>1. slots' = slots /\ ingress'.write = ingress.write
        /\ coordinator'.epoch = coordinator.epoch
    BY <1>11, PumpTakesPlanEffect DEF PumpFrame
  <2> QED
    BY <1>11, <2>1, FullFrame, PumpTakesPlanEffect DEF PumpFrame, NoPlan, WriteFullOrEarly, FullInv
<1>12. CASE PumpRunsTerminal
  <2>1. slots' = slots /\ ingress'.write = ingress.write
        /\ coordinator'.epoch = coordinator.epoch
    BY <1>12, PumpRunsTerminalEffect DEF PumpReports, PumpFrame
  <2> QED
    BY <1>12, <2>1, FullFrame, PumpRunsTerminalEffect DEF PumpReports, PumpFrame, FullInv
<1>13. CASE PumpCompletes
  <2>1. slots' = slots /\ ingress'.write = ingress.write
        /\ coordinator'.epoch = coordinator.epoch
    BY <1>13, PumpCompletesEffect DEF PumpReports, PumpFrame
  <2> QED
    BY <1>13, <2>1, FullFrame, PumpCompletesEffect DEF PumpReports, PumpFrame, FullInv
<1>14. CASE PumpEnds
  <2>1. slots' = slots /\ ingress'.write = ingress.write
        /\ coordinator'.epoch = coordinator.epoch
    BY <1>14, PumpEndsEffect DEF PumpFrame
  <2> QED
    BY <1>14, <2>1, FullFrame, PumpEndsEffect DEF PumpFrame, FullInv
<1>15. CASE CoordinatorSleeps
  <2>1. slots' = slots /\ ingress'.write = ingress.write
        /\ coordinator'.epoch = coordinator.epoch
    BY <1>15, CoordinatorSleepsEffect DEF CoordinatorMoves, CoordinatorFrame
  <2> QED
    BY <1>15, <2>1, FullFrame, CoordinatorSleepsEffect DEF CoordinatorMoves, CoordinatorFrame, TurnInv, FullInv
<1>16. CASE CoordinatorSwaps
  <2>1. CASE CoordinatorFails(coordinator, coordinator') /\ ExchangeKept
    <3>1. slots' = slots /\ ingress'.write = ingress.write
          /\ coordinator'.epoch = coordinator.epoch
      BY <1>16, <2>1, CoordinatorSwapsEffect DEF CoordinatorFails, ExchangeKept
    <3> QED
      BY <1>16, <2>1, <3>1, FullFrame, CoordinatorSwapsEffect
      DEF CoordinatorFails, ExchangeKept, CoordinatorFrame, FullInv
  <2>2. CASE Swapped /\ AfterSwapStep
    <3>1. /\ slots' = slots /\ ingress'.write = 1 - ingress.write
          /\ coordinator'.epoch = coordinator.epoch
          /\ pump' = pump /\ exchange' = exchange
      BY <1>16, <2>2, CoordinatorSwapsEffect DEF Swapped, AfterSwapStep, CoordinatorMoves,
         CoordinatorFrame
    <3>2. 1 - ingress'.write = ingress.write
      BY <3>1, HeldShapes
    <3>3. ReadFullOrEarly' <=> WriteFullOrEarly
      BY <3>1, <3>2 DEF ReadFullOrEarly, WriteFullOrEarly, WriteFull, SlotFull, EarlyEpoch
    <3>4. EarlyEpoch' <=> EarlyEpoch
      BY <3>1 DEF EarlyEpoch
    <3>5. pump.pc # "complete" /\ exchange.completion = NoCompletion
      BY <1>16, CoordinatorSwapsEffect DEF TurnInv, PumpAtWork, CoordinatorExitSteps
    <3>6. exchange.completion.reason # "SealedFull"
      BY <3>5 DEF NoCompletion
    <3>7. /\ pump.claim.generation <= ingress'.generation
          /\ pump.claim.generation # ingress'.generation
      <4> DEFINE g == ingress.generation
                 k == pump.claim.generation
      <4>1. g \in Nat /\ k \in Nat /\ k <= g /\ ingress'.generation = g + 1
        BY <2>2 DEF Swapped, Shapes, X!ExchangeStates, PumpStates, FullInv
      <4> HIDE DEF g, k
      <4>2. k <= g + 1 /\ k # g + 1
        BY <4>1
      <4> QED
        BY <4>1, <4>2 DEF k
    <3>8. /\ coordinator'.pc \in {"acquire", "prepare"}
          /\ coordinator'.terminal = coordinator.terminal
          /\ coordinator'.completion = coordinator.completion
      BY <2>2 DEF AfterSwapStep, CoordinatorMoves
    <3>9. coordinator.pc \in {"swap", "swapWait"}
      BY <1>16, CoordinatorSwapsEffect
    <3> QED
      BY <3>1, <3>3, <3>4, <3>5, <3>6, <3>7, <3>8, <3>9 DEF FullInv
  <2>3. CASE /\ CoordinatorMoves(coordinator, coordinator')
             /\ coordinator'.pc = "swapWait" /\ ExchangeKept
    <3>1. slots' = slots /\ ingress'.write = ingress.write
          /\ coordinator'.epoch = coordinator.epoch
      BY <1>16, <2>3, CoordinatorSwapsEffect DEF CoordinatorMoves, ExchangeKept
    <3> QED
      BY <1>16, <2>3, <3>1, FullFrame, CoordinatorSwapsEffect
      DEF CoordinatorMoves, ExchangeKept, CoordinatorFrame, FullInv
  <2> QED
    BY <1>16, <2>1, <2>2, <2>3, CoordinatorSwapsEffect
<1>17. CASE CoordinatorWaitsSwap
  <2>1. CASE CoordinatorFails(coordinator, coordinator') /\ ExchangeKept
    <3>1. slots' = slots /\ ingress'.write = ingress.write
          /\ coordinator'.epoch = coordinator.epoch
      BY <1>17, <2>1, CoordinatorWaitsSwapEffect DEF CoordinatorFails, ExchangeKept
    <3> QED
      BY <1>17, <2>1, <3>1, FullFrame, CoordinatorWaitsSwapEffect
      DEF CoordinatorFails, ExchangeKept, CoordinatorFrame, FullInv
  <2>2. CASE Swapped /\ AfterSwapStep
    <3>1. /\ slots' = slots /\ ingress'.write = 1 - ingress.write
          /\ coordinator'.epoch = coordinator.epoch
          /\ pump' = pump /\ exchange' = exchange
      BY <1>17, <2>2, CoordinatorWaitsSwapEffect DEF Swapped, AfterSwapStep, CoordinatorMoves,
         CoordinatorFrame
    <3>2. 1 - ingress'.write = ingress.write
      BY <3>1, HeldShapes
    <3>3. ReadFullOrEarly' <=> WriteFullOrEarly
      BY <3>1, <3>2 DEF ReadFullOrEarly, WriteFullOrEarly, WriteFull, SlotFull, EarlyEpoch
    <3>4. EarlyEpoch' <=> EarlyEpoch
      BY <3>1 DEF EarlyEpoch
    <3>5. pump.pc # "complete" /\ exchange.completion = NoCompletion
      BY <1>17, CoordinatorWaitsSwapEffect DEF TurnInv, PumpAtWork, CoordinatorExitSteps
    <3>6. exchange.completion.reason # "SealedFull"
      BY <3>5 DEF NoCompletion
    <3>7. /\ pump.claim.generation <= ingress'.generation
          /\ pump.claim.generation # ingress'.generation
      <4> DEFINE g == ingress.generation
                 k == pump.claim.generation
      <4>1. g \in Nat /\ k \in Nat /\ k <= g /\ ingress'.generation = g + 1
        BY <2>2 DEF Swapped, Shapes, X!ExchangeStates, PumpStates, FullInv
      <4> HIDE DEF g, k
      <4>2. k <= g + 1 /\ k # g + 1
        BY <4>1
      <4> QED
        BY <4>1, <4>2 DEF k
    <3>8. /\ coordinator'.pc \in {"acquire", "prepare"}
          /\ coordinator'.terminal = coordinator.terminal
          /\ coordinator'.completion = coordinator.completion
      BY <2>2 DEF AfterSwapStep, CoordinatorMoves
    <3>9. coordinator.pc \in {"swap", "swapWait"}
      BY <1>17, CoordinatorWaitsSwapEffect
    <3> QED
      BY <3>1, <3>3, <3>4, <3>5, <3>6, <3>7, <3>8, <3>9 DEF FullInv
  <2> QED
    BY <1>17, <2>1, <2>2, CoordinatorWaitsSwapEffect
<1>18. CASE CoordinatorPrepares
  <2>1. slots' = slots /\ ingress'.write = ingress.write
        /\ coordinator'.epoch = coordinator.epoch
    BY <1>18, CoordinatorPreparesEffect DEF CoordinatorMoves, CoordinatorFails, WritePrepared, CoordinatorFrame
  <2> QED
    BY <1>18, <2>1, FullFrame, CoordinatorPreparesEffect DEF CoordinatorMoves, CoordinatorFails, WritePrepared, CoordinatorFrame, TurnInv, FullInv
<1>19. CASE CoordinatorAcquires
  <2>1. slots' = slots /\ ingress'.write = ingress.write
        /\ coordinator'.epoch = coordinator.epoch
    BY <1>19, CoordinatorAcquiresEffect DEF CoordinatorFails, ExchangeKept, CoordinatorFrame
  <2> QED
    BY <1>19, <2>1, FullFrame, CoordinatorAcquiresEffect DEF CoordinatorFails, ExchangeKept, CoordinatorFrame, FullInv
<1>20. CASE CoordinatorBegins
  <2>1. slots' = slots /\ ingress'.write = ingress.write
        /\ coordinator'.epoch = coordinator.epoch
    BY <1>20, CoordinatorBeginsEffect DEF CoordinatorMoves, CoordinatorNotOkStep, EpochSet, CoordinatorFrame
  <2> QED
    BY <1>20, <2>1, FullFrame, CoordinatorBeginsEffect DEF CoordinatorMoves, CoordinatorNotOkStep, EpochSet, CoordinatorFrame, FullInv
<1>21. CASE CoordinatorHandles
  <2>1. slots' = slots /\ ingress'.write = ingress.write
        /\ coordinator'.epoch = coordinator.epoch
    BY <1>21, CoordinatorHandlesEffect DEF RecordAdded, CoordinatorFrame
  <2> QED
    BY <1>21, <2>1, FullFrame, CoordinatorHandlesEffect DEF RecordAdded, CoordinatorFrame, FullInv
<1>22. CASE CoordinatorChecksSeal
  <2>1. slots' = slots /\ ingress'.write = ingress.write
        /\ coordinator'.epoch = coordinator.epoch
    BY <1>22, CoordinatorChecksSealEffect DEF CoordinatorMoves, CoordinatorNotOkStep, CoordinatorFrame
  <2> QED
    BY <1>22, <2>1, FullFrame, CoordinatorChecksSealEffect DEF CoordinatorMoves, CoordinatorNotOkStep, CoordinatorFrame, FullInv
<1>23. CASE CoordinatorSeals
  <2>1. slots' = slots /\ ingress'.write = ingress.write
        /\ coordinator'.epoch = coordinator.epoch
    BY <1>23, CoordinatorSealsEffect DEF CoordinatorMoves, CoordinatorNotOkStep, EpochSet, BatchSealed, CoordinatorFrame
  <2> QED
    BY <1>23, <2>1, FullFrame, CoordinatorSealsEffect DEF CoordinatorMoves, CoordinatorNotOkStep, EpochSet, BatchSealed, CoordinatorFrame, FullInv
<1>24. CASE CoordinatorReleases
  <2>1. /\ pump' = pump /\ exchange' = exchange
        /\ ingress'.generation = ingress.generation
        /\ coordinator'.terminal = coordinator.terminal /\ ~ coordinator.terminal
        /\ coordinator.slot = 1 - ingress.write
    BY <1>24, CoordinatorReleasesEffect DEF CoordinatorFrame, ReadReleased, CoordinatorFails,
       TurnInv, ClaimInv, ReadSteps
  <2>2. WriteFull' <=> WriteFull
    BY <1>24, <2>1, CoordinatorReleasesEffect, FullAfterRelease
  <2>3. EarlyEpoch'
    <3>1. coordinator.epoch \in Nat /\ coordinator.epoch <= MaxTicks /\ MaxTicks \in Nat
      BY <1>24, <2>1, CoordinatorReleasesEffect, WorldWorkersAssumption
      DEF EpochInv, ReadSteps, Shapes, CoordinatorStates
    <3>2. \/ coordinator'.epoch = coordinator.epoch
          \/ coordinator'.epoch = coordinator.epoch + 1
      BY <1>24, CoordinatorReleasesEffect DEF CoordinatorFails
    <3> QED
      BY <3>1, <3>2 DEF EarlyEpoch
  <2> QED
    BY <2>1, <2>2, <2>3 DEF FullInv, WriteFullOrEarly
<1>25. CASE CoordinatorStops
  <2>1. slots' = slots /\ ingress'.write = ingress.write
        /\ coordinator'.epoch = coordinator.epoch
    BY <1>25, CoordinatorStopsEffect DEF CoordinatorFrame
  <2> QED
    BY <1>25, <2>1, FullFrame, CoordinatorStopsEffect DEF CoordinatorFrame, FullInv
<1>26. CASE CoordinatorPublishes
  <2>1. slots' = slots /\ ingress'.write = ingress.write
        /\ coordinator'.epoch = coordinator.epoch
    BY <1>26, CoordinatorPublishesEffect DEF CoordinatorMoves, CoordinatorFails, CoordinatorFrame
  <2> QED
    BY <1>26, <2>1, FullFrame, CoordinatorPublishesEffect DEF CoordinatorMoves, CoordinatorFails, CoordinatorFrame, FullInv
<1>27. CASE CoordinatorTakes
  <2>1. slots' = slots /\ ingress'.write = ingress.write
        /\ coordinator'.epoch = coordinator.epoch
    BY <1>27, CoordinatorTakesEffect DEF CoordinatorFails, CoordinatorFrame
  <2> QED
    BY <1>27, <2>1, FullFrame, CoordinatorTakesEffect DEF CoordinatorFails, CoordinatorFrame, NoCompletion, FullInv
<1>28. CASE CoordinatorConsumes
  <2>1. /\ pump' = pump /\ exchange' = exchange
        /\ ingress'.generation = ingress.generation
        /\ coordinator'.pc \in {"exit", "publish"}
        /\ coordinator.slot = 1 - ingress.write
    BY <1>28, CoordinatorConsumesEffect DEF CoordinatorFrame, ReadReleased, CoordinatorFails,
       ClaimInv, ReadSteps
  <2>2. WriteFull' <=> WriteFull
    BY <1>28, <2>1, CoordinatorConsumesEffect, FullAfterRelease
  <2>3. /\ pump.pc # "complete" /\ exchange.completion = NoCompletion
        /\ pump.epoch # 0
    BY <1>28, CoordinatorConsumesEffect DEF TurnInv, PumpAtWork, CoordinatorExitSteps
  <2>4. exchange.completion.reason # "SealedFull"
    BY <2>3 DEF NoCompletion
  <2> QED
    BY <2>1, <2>2, <2>3, <2>4 DEF FullInv
<1>29. CASE CoordinatorStoresReason
  <2>1. slots' = slots /\ ingress'.write = ingress.write
        /\ coordinator'.epoch = coordinator.epoch
    BY <1>29, CoordinatorStoresReasonEffect DEF CoordinatorFrame
  <2> QED
    BY <1>29, <2>1, FullFrame, CoordinatorStoresReasonEffect DEF CoordinatorFrame, FullInv
<1>30. CASE CoordinatorEnds
  <2>1. slots' = slots /\ ingress'.write = ingress.write
        /\ coordinator'.epoch = coordinator.epoch
    BY <1>30, CoordinatorEndsEffect DEF CoordinatorMoves, BufferClosed, CoordinatorFrame
  <2> QED
    BY <1>30, <2>1, FullFrame, CoordinatorEndsEffect DEF CoordinatorMoves, BufferClosed, CoordinatorFrame, FullInv
<1>31. CASE HostStartsPump
  <2>1. slots' = slots /\ ingress'.write = ingress.write
        /\ coordinator'.epoch = coordinator.epoch
    BY <1>31, HostStartsPumpEffect DEF HostMoves, HostFrame
  <2> QED
    BY <1>31, <2>1, FullFrame, HostStartsPumpEffect DEF HostMoves, HostFrame, HostInv, FullInv
<1>32. CASE HostStartsCoordinator
  <2>1. slots' = slots /\ ingress'.write = ingress.write
        /\ coordinator'.epoch = coordinator.epoch
    BY <1>32, HostStartsCoordinatorEffect DEF HostMoves, HostFrame
  <2> QED
    BY <1>32, <2>1, FullFrame, HostStartsCoordinatorEffect DEF HostMoves, HostFrame, HostInv, FullInv
<1>33. CASE HostStopsPump
  <2>1. slots' = slots /\ ingress'.write = ingress.write
        /\ coordinator'.epoch = coordinator.epoch
    BY <1>33, HostStopsPumpEffect DEF HostMoves, HostFrame
  <2> QED
    BY <1>33, <2>1, FullFrame, HostStopsPumpEffect DEF HostMoves, HostFrame, FullInv
<1> QED
  BY <1>1, <1>2, <1>3, <1>4, <1>5, <1>6, <1>7, <1>8, <1>9, <1>10, <1>11, <1>12,
         <1>13, <1>14, <1>15, <1>16, <1>17, <1>18, <1>19, <1>20, <1>21, <1>22,
         <1>23, <1>24, <1>25, <1>26, <1>27, <1>28, <1>29, <1>30, <1>31, <1>32, <1>33
  DEF Next, PumpNext, CoordinatorNext, PublisherNext, HostNext, HostSeesWorkerStop,
      HostIsAskedToStop, HostHasEnded

\* Hence the number of epochs is bounded by what was consumed.
LEMMA EpochKept ==
    ASSUME Shapes, HostInv, ClaimInv, TurnInv, FullInv, EpochInv, [Next]_vars
    PROVE  EpochInv'
<1>u. ASSUME UNCHANGED <<coordinator, consumed>> PROVE EpochInv'
  BY <1>u DEF EpochInv, EarlyEpoch, ReadSteps
<1>1. CASE PumpNext
  BY <1>1, <1>u, PumpNextFrame DEF PumpFrame
<1>2. CASE PublisherNext
  BY <1>2, <1>u, PublisherNextFrame DEF PublisherFrame
<1>3. CASE RuntimeEmits \/ DeadlinePasses \/ UNCHANGED vars
  BY <1>3, <1>u, RuntimeEmitsEffect
  DEF RuntimeFrame, DeadlinePasses, vars
<1>4. CASE HostStartsPublisher \/ HostStartsPump \/ HostStopsPump \/
            HostStopsPublisher \/ HostJoinsStarted \/ BeginShutdown \/
            HostWaitsGameplay \/ HostRequestsDrain \/ HostFinishesWrites \/
            HostJoinsPublisher \/ HostEntersTerminalConsume \/
            HostEntersTerminalDrain \/ HostShutsDownRuntime \/ HostJoinsPump \/
            HostReports
  BY <1>4, <1>u, HostStartsPublisherEffect, HostStartsPumpEffect,
         HostStopsPumpEffect, HostStopsPublisherEffect, HostJoinsStartedEffect,
         BeginShutdownEffect, HostWaitsGameplayEffect, HostRequestsDrainEffect,
         HostFinishesWritesEffect, HostJoinsPublisherEffect,
         HostEntersTerminalConsumeEffect, HostEntersTerminalDrainEffect,
         HostShutsDownRuntimeEffect, HostJoinsPumpEffect, HostReportsEffect
  DEF HostFrame, HostAlone
<1>5. CASE CoordinatorSleeps
  BY <1>5, CoordinatorSleepsEffect DEF CoordinatorMoves, CoordinatorFrame, EpochInv,
         EarlyEpoch, ReadSteps
<1>6. CASE CoordinatorSwaps
  BY <1>6, CoordinatorSwapsEffect DEF CoordinatorMoves, CoordinatorFails,
         ExchangeKept, Swapped, AfterSwapStep, CoordinatorFrame, EpochInv,
         EarlyEpoch, ReadSteps
<1>7. CASE CoordinatorWaitsSwap
  BY <1>7, CoordinatorWaitsSwapEffect DEF CoordinatorMoves, CoordinatorFails,
         ExchangeKept, Swapped, AfterSwapStep, CoordinatorFrame, EpochInv,
         EarlyEpoch, ReadSteps
<1>8. CASE CoordinatorPrepares
  BY <1>8, CoordinatorPreparesEffect DEF CoordinatorMoves, CoordinatorFails,
         WritePrepared, CoordinatorFrame, EpochInv, EarlyEpoch, ReadSteps
<1>9. CASE CoordinatorAcquires
  BY <1>9, CoordinatorAcquiresEffect DEF CoordinatorFails, ExchangeKept,
         CoordinatorFrame, EpochInv, EarlyEpoch, ReadSteps
<1>10. CASE CoordinatorBegins
  BY <1>10, CoordinatorBeginsEffect DEF CoordinatorMoves, CoordinatorNotOkStep,
         EpochSet, CoordinatorFrame, EpochInv, EarlyEpoch, ReadSteps
<1>11. CASE CoordinatorHandles
  <2>0. consumed \in Seq(Events) /\ slots[coordinator.slot] \in Seq(Events)
    BY DEF Shapes, CoordinatorStates
  <2> DEFINE a == Len(consumed)
             b == Len(slots[coordinator.slot])
             c == Len(consumed')
             e == coordinator.epoch
             f == coordinator'.epoch
  <2>1. a \in Nat /\ b \in Nat /\ MaxTicks \in Nat /\ e \in Nat /\ f \in Nat
        /\ SlotCapacity \in Nat \ {0}
    BY <1>11, <2>0, CoordinatorHandlesEffect, LenProperties, WorldWorkersAssumption DEF Shapes, CoordinatorStates
  <2>2. c = a + b
    BY <1>11, <2>0, CoordinatorHandlesEffect, ConcatProperties
  <2>3. e <= MaxTicks + 2 + a
    BY DEF EpochInv
  <2>4. f = e
    BY <1>11, CoordinatorHandlesEffect
  <2> HIDE DEF a, b, c, e, f
  <2>5. f <= MaxTicks + 2 + c
    BY <2>1, <2>2, <2>3, <2>4
  <2> USE DEF c, e, f
  <2>6. coordinator'.terminal = coordinator.terminal
    BY <1>11, CoordinatorHandlesEffect
  <2> QED
    BY <1>11, <2>4, <2>5, <2>6, CoordinatorHandlesEffect DEF EpochInv, EarlyEpoch, ReadSteps
<1>12. CASE CoordinatorChecksSeal
  BY <1>12, CoordinatorChecksSealEffect DEF CoordinatorMoves, CoordinatorNotOkStep,
         CoordinatorFrame, EpochInv, EarlyEpoch, ReadSteps
<1>13. CASE CoordinatorSeals
  BY <1>13, CoordinatorSealsEffect DEF CoordinatorMoves, CoordinatorNotOkStep,
         EpochSet, BatchSealed, CoordinatorFrame, EpochInv, EarlyEpoch, ReadSteps
<1>14. CASE CoordinatorReleases
  <2>1. /\ coordinator'.terminal = coordinator.terminal /\ ~ coordinator.terminal
        /\ coordinator'.pc \in {"loop", "exit"} /\ consumed' = consumed
    BY <1>14, CoordinatorReleasesEffect DEF CoordinatorFails, TurnInv
  <2>2. coordinator.epoch \in Nat /\ coordinator.epoch <= MaxTicks /\ MaxTicks \in Nat
        /\ Len(consumed) \in Nat
    BY <1>14, <2>1, CoordinatorReleasesEffect, WorldWorkersAssumption, LenProperties
    DEF EpochInv, ReadSteps, Shapes, CoordinatorStates
  <2>3. \/ coordinator'.epoch = coordinator.epoch
        \/ coordinator'.epoch = coordinator.epoch + 1
    BY <1>14, CoordinatorReleasesEffect DEF CoordinatorFails
  <2>4. coordinator'.epoch <= MaxTicks + 1
    BY <2>2, <2>3
  <2> DEFINE a == Len(consumed)
             f == coordinator'.epoch
  <2>5. a \in Nat /\ f \in Nat /\ f <= MaxTicks + 1 /\ MaxTicks \in Nat
    BY <2>2, <2>3, <2>4
  <2> HIDE DEF a, f
  <2>6. f <= MaxTicks + 2 + a
    BY <2>5
  <2> USE DEF a, f
  <2> QED
    BY <2>1, <2>4, <2>6 DEF EpochInv, EarlyEpoch, ReadSteps
<1>15. CASE CoordinatorStops
  BY <1>15, CoordinatorStopsEffect DEF CoordinatorFrame, EpochInv, EarlyEpoch,
         ReadSteps
<1>16. CASE CoordinatorPublishes
  BY <1>16, CoordinatorPublishesEffect DEF CoordinatorMoves, CoordinatorFails,
         CoordinatorFrame, EpochInv, EarlyEpoch, ReadSteps
<1>17. CASE CoordinatorTakes
  BY <1>17, CoordinatorTakesEffect DEF CoordinatorFails, CoordinatorFrame, EpochInv,
         EarlyEpoch, ReadSteps, TurnInv
<1>18. CASE CoordinatorConsumes
  <2>0. consumed \in Seq(Events) /\ slots[coordinator.slot] \in Seq(Events)
    BY DEF Shapes, CoordinatorStates
  <2> DEFINE a == Len(consumed)
             b == Len(slots[coordinator.slot])
             c == Len(consumed')
             e == coordinator.epoch
             f == coordinator'.epoch
  <2>1. a \in Nat /\ b \in Nat /\ MaxTicks \in Nat /\ e \in Nat /\ f \in Nat
        /\ SlotCapacity \in Nat \ {0}
    BY <1>18, <2>0, CoordinatorConsumesEffect, LenProperties, WorldWorkersAssumption DEF Shapes, CoordinatorStates
  <2>2. c = a + b
    BY <1>18, <2>0, CoordinatorConsumesEffect, ConcatProperties
  <2>3. e <= MaxTicks + 2 + a
    BY DEF EpochInv
  <2>4. coordinator.terminal /\ coordinator'.terminal
        /\ coordinator.slot = 1 - ingress.write
    BY <1>18, CoordinatorConsumesEffect DEF TurnInv, ClaimInv, ReadSteps
  <2>5. \/ f = e
        \/ f = e + 1 /\ (b = SlotCapacity \/ e <= MaxTicks + 1)
    BY <1>18, <2>4, CoordinatorConsumesEffect
    DEF FullInv, ReadFullOrEarly, SlotFull, EarlyEpoch, CoordinatorFails
  <2> HIDE DEF a, b, c, e, f
  <2>6. f <= MaxTicks + 2 + c
    BY <2>1, <2>2, <2>3, <2>5
  <2> USE DEF c, e, f
  <2> QED
    BY <2>4, <2>6 DEF EpochInv
<1>19. CASE CoordinatorStoresReason
  BY <1>19, CoordinatorStoresReasonEffect DEF CoordinatorFrame, EpochInv,
         EarlyEpoch, ReadSteps
<1>20. CASE CoordinatorEnds
  BY <1>20, CoordinatorEndsEffect DEF CoordinatorMoves, BufferClosed,
         CoordinatorFrame, EpochInv, EarlyEpoch, ReadSteps
<1>21. CASE HostStartsCoordinator
  BY <1>21, HostStartsCoordinatorEffect DEF HostMoves, HostFrame, EpochInv,
         EarlyEpoch, ReadSteps, HostInv
<1> QED
  BY <1>1, <1>2, <1>3, <1>4, <1>5, <1>6, <1>7, <1>8, <1>9, <1>10, <1>11, <1>12,
         <1>13, <1>14, <1>15, <1>16, <1>17, <1>18, <1>19, <1>20, <1>21
  DEF Next, PumpNext, CoordinatorNext, PublisherNext, HostNext, HostSeesWorkerStop,
      HostIsAskedToStop, HostHasEnded
\* The stream's end is reported when nothing is left to pump, and passed on as such.
LEMMA EndKept ==
    ASSUME Shapes, HostInv, ClaimInv, ContentInv, EventInv, EndInv, [Next]_vars
    PROVE  EndInv'
<1>u. ASSUME UNCHANGED <<pump, ingress, slots, exchange, coordinator, source>> PROVE EndInv'
  BY <1>u DEF EndInv, SourceDone, PumpDone, CoordinatorExitSteps
<1>1. CASE PublisherNext
  BY <1>1, <1>u, PublisherNextFrame DEF PublisherFrame
<1>2. CASE DeadlinePasses \/ UNCHANGED vars
  BY <1>2, <1>u
  DEF DeadlinePasses, vars
<1>3. CASE HostStartsPublisher \/ HostStopsPublisher \/ HostJoinsStarted \/
            BeginShutdown \/ HostWaitsGameplay \/ HostRequestsDrain \/
            HostFinishesWrites \/ HostJoinsPublisher \/ HostEntersTerminalConsume \/
            HostEntersTerminalDrain \/ HostJoinsPump \/ HostReports
  BY <1>3, <1>u, HostStartsPublisherEffect, HostStopsPublisherEffect,
         HostJoinsStartedEffect, BeginShutdownEffect, HostWaitsGameplayEffect,
         HostRequestsDrainEffect, HostFinishesWritesEffect,
         HostJoinsPublisherEffect, HostEntersTerminalConsumeEffect,
         HostEntersTerminalDrainEffect, HostJoinsPumpEffect, HostReportsEffect
  DEF HostFrame, HostAlone
<1>4. CASE RuntimeEmits
  BY <1>4, RuntimeEmitsEffect DEF RuntimeFrame, EndInv, SourceDone, PumpDone,
         CoordinatorExitSteps
<1>5. CASE PumpLoops
  BY <1>5, PumpLoopsEffect DEF PumpMoves, PumpFrame, EndInv, SourceDone, PumpDone,
         CoordinatorExitSteps
<1>6. CASE PumpAcquires
  BY <1>6, PumpAcquiresEffect DEF StepTaken, PumpFrame, EndInv, SourceDone,
         PumpDone, CoordinatorExitSteps
<1>7. CASE SealFullSlot
  BY <1>7, SealFullSlotEffect DEF WriteReleased, PumpFrame, EndInv, SourceDone,
         PumpDone, CoordinatorExitSteps
<1>8. CASE PumpPops
  BY <1>8, PumpPopsEffect DEF PumpFrame, EndInv, SourceDone, PumpDone,
         CoordinatorExitSteps
<1>9. CASE PumpFindsNothing
  BY <1>9, PumpFindsNothingEffect DEF PumpMoves, WriteReleased, PumpFrame, EndInv,
         SourceDone, PumpDone, CoordinatorExitSteps
<1>10. CASE PumpCommits
  BY <1>10, PumpCommitsEffect DEF WriteReleased, PumpFrame, EndInv, SourceDone,
         PumpDone, CoordinatorExitSteps
<1>11. CASE PumpWaits
  BY <1>11, PumpWaitsEffect DEF StepTaken, PumpFrame, EndInv, SourceDone, PumpDone,
         CoordinatorExitSteps, ContentInv
<1>12. CASE PumpTakesPlan
  BY <1>12, PumpTakesPlanEffect DEF PumpFrame, EndInv, SourceDone, PumpDone,
         CoordinatorExitSteps
<1>13. CASE PumpRunsTerminal
  BY <1>13, PumpRunsTerminalEffect DEF PumpReports, PumpFrame, EndInv, SourceDone,
         PumpDone, CoordinatorExitSteps
<1>14. CASE PumpCompletes
  BY <1>14, PumpCompletesEffect DEF PumpReports, PumpFrame, EndInv, SourceDone,
         PumpDone, CoordinatorExitSteps
<1>15. CASE PumpEnds
  BY <1>15, PumpEndsEffect DEF PumpFrame, EndInv, SourceDone, PumpDone,
         CoordinatorExitSteps
<1>16. CASE CoordinatorSleeps
  BY <1>16, CoordinatorSleepsEffect DEF CoordinatorMoves, CoordinatorFrame, EndInv,
         SourceDone, PumpDone, CoordinatorExitSteps
<1>17. CASE CoordinatorSwaps
  <2>1. source' = source /\ pump' = pump /\ exchange' = exchange /\ slots' = slots
    BY <1>17, CoordinatorSwapsEffect DEF CoordinatorFrame
  <2>2. coordinator.pc \in {"swap", "swapWait"} /\ coordinator.completion # "Completed"
    BY <1>17, CoordinatorSwapsEffect DEF EndInv, CoordinatorExitSteps
  <2>3. CASE Swapped /\ AfterSwapStep
    <3>1. slots[1 - ingress.write] = << >> /\ ingress'.write = 1 - ingress.write
      BY <2>3 DEF Swapped, ContentInv
    <3>2. /\ coordinator'.completion = coordinator.completion
          /\ coordinator'.reason = coordinator.reason
      BY <2>3 DEF AfterSwapStep, CoordinatorMoves
    <3> QED
      BY <2>1, <2>2, <3>1, <3>2 DEF EndInv, SourceDone, PumpDone
  <2>4. CASE ~ (Swapped /\ AfterSwapStep)
    <3>1. \/ coordinator'.completion = "OperationFailed"
          \/ /\ coordinator'.completion = coordinator.completion
             /\ coordinator'.pc = "swapWait"
      BY <1>17, <2>4, CoordinatorSwapsEffect DEF CoordinatorFails, CoordinatorMoves
    <3>2. coordinator'.reason = coordinator.reason
      BY <1>17, <2>4, CoordinatorSwapsEffect DEF CoordinatorFails, CoordinatorMoves
    <3> QED
      BY <2>1, <2>2, <3>1, <3>2 DEF EndInv, SourceDone, PumpDone
  <2> QED
    BY <2>3, <2>4
<1>18. CASE CoordinatorWaitsSwap
  <2>1. source' = source /\ pump' = pump /\ exchange' = exchange /\ slots' = slots
    BY <1>18, CoordinatorWaitsSwapEffect DEF CoordinatorFrame
  <2>2. coordinator.pc \in {"swap", "swapWait"} /\ coordinator.completion # "Completed"
    BY <1>18, CoordinatorWaitsSwapEffect DEF EndInv, CoordinatorExitSteps
  <2>3. CASE Swapped /\ AfterSwapStep
    <3>1. slots[1 - ingress.write] = << >> /\ ingress'.write = 1 - ingress.write
      BY <2>3 DEF Swapped, ContentInv
    <3>2. /\ coordinator'.completion = coordinator.completion
          /\ coordinator'.reason = coordinator.reason
      BY <2>3 DEF AfterSwapStep, CoordinatorMoves
    <3> QED
      BY <2>1, <2>2, <3>1, <3>2 DEF EndInv, SourceDone, PumpDone
  <2>4. CASE ~ (Swapped /\ AfterSwapStep)
    <3>1. \/ coordinator'.completion = "OperationFailed"
          \/ /\ coordinator'.completion = coordinator.completion
             /\ coordinator'.pc = "swapWait"
      BY <1>18, <2>4, CoordinatorWaitsSwapEffect DEF CoordinatorFails, CoordinatorMoves
    <3>2. coordinator'.reason = coordinator.reason
      BY <1>18, <2>4, CoordinatorWaitsSwapEffect DEF CoordinatorFails, CoordinatorMoves
    <3> QED
      BY <2>1, <2>2, <3>1, <3>2 DEF EndInv, SourceDone, PumpDone
  <2> QED
    BY <2>3, <2>4
<1>19. CASE CoordinatorPrepares
  BY <1>19, CoordinatorPreparesEffect DEF CoordinatorMoves, CoordinatorFails,
     CoordinatorFrame, EndInv, SourceDone, PumpDone, CoordinatorExitSteps
<1>20. CASE CoordinatorAcquires
  BY <1>20, CoordinatorAcquiresEffect DEF CoordinatorFails, ExchangeKept,
         CoordinatorFrame, EndInv, SourceDone, PumpDone, CoordinatorExitSteps
<1>21. CASE CoordinatorBegins
  BY <1>21, CoordinatorBeginsEffect DEF CoordinatorMoves, CoordinatorNotOkStep,
         EpochSet, CoordinatorFrame, EndInv, SourceDone, PumpDone,
         CoordinatorExitSteps
<1>22. CASE CoordinatorHandles
  BY <1>22, CoordinatorHandlesEffect DEF RecordAdded, CoordinatorFrame, EndInv,
         SourceDone, PumpDone, CoordinatorExitSteps
<1>23. CASE CoordinatorChecksSeal
  BY <1>23, CoordinatorChecksSealEffect DEF CoordinatorMoves, CoordinatorNotOkStep,
         CoordinatorFrame, EndInv, SourceDone, PumpDone, CoordinatorExitSteps
<1>24. CASE CoordinatorSeals
  BY <1>24, CoordinatorSealsEffect DEF CoordinatorMoves, CoordinatorNotOkStep,
         EpochSet, BatchSealed, CoordinatorFrame, EndInv, SourceDone, PumpDone,
         CoordinatorExitSteps
<1>25. CASE CoordinatorReleases
  BY <1>25, CoordinatorReleasesEffect DEF CoordinatorFails, ReadReleased,
         CoordinatorFrame, EndInv, SourceDone, PumpDone, CoordinatorExitSteps
<1>26. CASE CoordinatorStops
  BY <1>26, CoordinatorStopsEffect DEF CoordinatorFrame, EndInv, SourceDone,
         PumpDone, CoordinatorExitSteps
<1>27. CASE CoordinatorPublishes
  BY <1>27, CoordinatorPublishesEffect DEF CoordinatorMoves, CoordinatorFails,
         CoordinatorFrame, EndInv, SourceDone, PumpDone, CoordinatorExitSteps
<1>28. CASE CoordinatorTakes
  BY <1>28, CoordinatorTakesEffect DEF CoordinatorFails, CoordinatorFrame, EndInv,
         SourceDone, PumpDone, CoordinatorExitSteps, NoCompletion
<1>29. CASE CoordinatorConsumes
  <2>1. source' = source /\ pump' = pump /\ exchange' = exchange
    BY <1>29, CoordinatorConsumesEffect DEF CoordinatorFrame
  <2>2. /\ coordinator.slot = 1 - ingress.write /\ coordinator.ok
        /\ coordinator.completion # "Completed" /\ coordinator.reason # "Completed"
        /\ coordinator'.reason = coordinator.reason /\ coordinator'.ok = coordinator.ok
    BY <1>29, CoordinatorConsumesEffect
    DEF ClaimInv, ReadSteps, EventInv, OkInv, CoordinatorExitSteps, EndInv
  <2>3. /\ slots'[1 - ingress.write] = << >>
        /\ slots'[ingress.write] = slots[ingress.write]
        /\ ingress'.write = ingress.write
    <3>1. /\ slots' = [slots EXCEPT ![1 - ingress.write] = << >>]
          /\ ingress'.write = ingress.write
      BY <1>29, <2>2, CoordinatorConsumesEffect DEF ReadReleased
    <3>2. slots \in [0 .. 1 -> Seq(Events)] /\ ingress.write \in 0 .. 1
      BY DEF Shapes, X!ExchangeStates
    <3> QED
      BY <3>1, <3>2
  <2> QED
    BY <1>29, <2>1, <2>2, <2>3, CoordinatorConsumesEffect
    DEF CoordinatorFails, EndInv, SourceDone, PumpDone, CoordinatorExitSteps
<1>30. CASE CoordinatorStoresReason
  BY <1>30, CoordinatorStoresReasonEffect DEF CoordinatorFrame, EndInv, SourceDone,
         PumpDone, CoordinatorExitSteps
<1>31. CASE CoordinatorEnds
  BY <1>31, CoordinatorEndsEffect DEF CoordinatorMoves, BufferClosed,
         CoordinatorFrame, EndInv, SourceDone, PumpDone, CoordinatorExitSteps
<1>32. CASE HostStartsPump
  BY <1>32, HostStartsPumpEffect DEF HostMoves, HostFrame, EndInv, SourceDone,
         PumpDone, CoordinatorExitSteps, HostInv
<1>33. CASE HostStartsCoordinator
  BY <1>33, HostStartsCoordinatorEffect DEF HostMoves, HostFrame, EndInv,
         SourceDone, PumpDone, CoordinatorExitSteps, HostInv
<1>34. CASE HostStopsPump
  BY <1>34, HostStopsPumpEffect DEF HostMoves, HostFrame, EndInv, SourceDone,
         PumpDone, CoordinatorExitSteps
<1>35. CASE HostShutsDownRuntime
  BY <1>35, HostShutsDownRuntimeEffect DEF HostMoves, HostFrame, EndInv, SourceDone,
         PumpDone, CoordinatorExitSteps
<1> QED
  BY <1>1, <1>2, <1>3, <1>4, <1>5, <1>6, <1>7, <1>8, <1>9, <1>10, <1>11, <1>12,
         <1>13, <1>14, <1>15, <1>16, <1>17, <1>18, <1>19, <1>20, <1>21, <1>22,
         <1>23, <1>24, <1>25, <1>26, <1>27, <1>28, <1>29, <1>30, <1>31, <1>32,
         <1>33, <1>34, <1>35
  DEF Next, PumpNext, CoordinatorNext, PublisherNext, HostNext, HostSeesWorkerStop,
      HostIsAskedToStop, HostHasEnded

\* A sealed batch joins the queue.
LEMMA ReadyAfterSeal ==
    ASSUME NEW q \in Seq(OutboundSlots), NEW st \in [OutboundSlots -> SlotStates],
           NEW s \in OutboundSlots, ReadyInv(q, st), st[s] = "Writing"
    PROVE  ReadyInv(Append(q, s), [st EXCEPT ![s] = "Sealed"])
<1> DEFINE r == Append(q, s)
           n == Len(q)
           t == [st EXCEPT ![s] = "Sealed"]
<1>1. /\ Len(r) = n + 1 /\ n \in Nat
      /\ \A i \in 1 .. n : r[i] = q[i]
      /\ r[n + 1] = s
  BY AppendProperties, LenProperties
<1>2. \A i \in 1 .. n : q[i] \in OutboundSlots /\ q[i] # s /\ st[q[i]] = "Sealed"
  BY ElementOfSeq DEF ReadyInv
<1>3. \A i, j \in 1 .. n : q[i] = q[j] => i = j
  BY DEF ReadyInv
<1>4. t[s] = "Sealed" /\ \A x \in OutboundSlots : x # s => t[x] = st[x]
  OBVIOUS
<1> HIDE DEF r, n, t
<1>5. \A i \in 1 .. n + 1 : t[r[i]] = "Sealed"
  BY <1>1, <1>2, <1>4
<1>6. \A i, j \in 1 .. n + 1 : r[i] = r[j] => i = j
  BY <1>1, <1>2, <1>3
<1>7. ReadyInv(r, t)
  BY <1>1, <1>5, <1>6 DEF ReadyInv
<1> QED
  BY <1>7 DEF r, t

\* The first batch leaves it.
LEMMA ReadyAfterTake ==
    ASSUME NEW q \in Seq(OutboundSlots), NEW st \in [OutboundSlots -> SlotStates],
           ReadyInv(q, st), q # << >>
    PROVE  /\ ReadyInv(Tail(q), [st EXCEPT ![Head(q)] = "Reading"])
           /\ Head(q) \in OutboundSlots /\ st[Head(q)] = "Sealed"
<1> DEFINE r == Tail(q)
           n == Len(q)
           h == Head(q)
           t == [st EXCEPT ![h] = "Reading"]
<1>1. /\ n \in Nat /\ n # 0 /\ h = q[1] /\ Len(r) = n - 1
      /\ \A i \in 1 .. n - 1 : r[i] = q[i + 1]
  BY LenProperties, HeadTailProperties, EmptySeq
<1>2. \A i \in 1 .. n : q[i] \in OutboundSlots /\ st[q[i]] = "Sealed"
  BY ElementOfSeq DEF ReadyInv
<1>3. \A i, j \in 1 .. n : q[i] = q[j] => i = j
  BY DEF ReadyInv
<1>4. \A x \in OutboundSlots : x # h => t[x] = st[x]
  OBVIOUS
<1> HIDE DEF r, n, h, t
<1>5. \A i \in 1 .. n - 1 : i + 1 \in 1 .. n /\ r[i] = q[i + 1] /\ i + 1 # 1
  BY <1>1
<1>6. 1 \in 1 .. n
  BY <1>1
<1>7. \A i \in 1 .. n - 1 : t[r[i]] = "Sealed"
  BY <1>1, <1>2, <1>3, <1>4, <1>5, <1>6
<1>8. \A i, j \in 1 .. n - 1 : r[i] = r[j] => i = j
  <2> TAKE i, j \in 1 .. n - 1
  <2> HAVE r[i] = r[j]
  <2>1. i + 1 = j + 1
    BY <1>3, <1>5
  <2> QED
    BY <1>1, <2>1
<1>9. ReadyInv(r, t)
  BY <1>1, <1>7, <1>8 DEF ReadyInv
<1> QED
  BY <1>1, <1>2, <1>6, <1>9 DEF r, t, h

\* A slot that is not sealed changes its state.
LEMMA ReadyApart ==
    ASSUME NEW q \in Seq(OutboundSlots), NEW st \in [OutboundSlots -> SlotStates],
           NEW s \in OutboundSlots, NEW v, ReadyInv(q, st), st[s] # "Sealed"
    PROVE  ReadyInv(q, [st EXCEPT ![s] = v])
<1>1. \A i \in 1 .. Len(q) : q[i] \in OutboundSlots
  BY ElementOfSeq
<1> QED
  BY <1>1 DEF ReadyInv

\* A tick is run in an epoch that the buffer's bound allows.
LEMMA TickEpoch ==
    ASSUME Shapes, TurnInv, EpochInv, coordinator.pc \in {"begin", "handle", "seal", "sealLocked"}
    PROVE  coordinator.epoch \in Nat /\ coordinator.epoch <= MaxEpoch
<1>1. coordinator.epoch \in Nat /\ coordinator.epoch <= MaxTicks
  BY DEF Shapes, CoordinatorStates, TurnInv, EpochInv, ReadSteps
<1> QED
  BY <1>1, WorldWorkersAssumption DEF MaxEpoch

\* No epoch at all is within the bound.
LEMMA ZeroEpoch == 0 <= MaxEpoch
BY WorldWorkersAssumption DEF MaxEpoch

\* Each outbound slot is in one state, in one hand, and queued once.
LEMMA BufferKept ==
    ASSUME Shapes, HostInv, TurnInv, EpochInv, BufferInv, [Next]_vars
    PROVE  BufferInv'
<1>u. ASSUME UNCHANGED <<outbound, publisher, coordinator>> PROVE BufferInv'
  BY <1>u DEF BufferInv
<1>1. CASE PumpNext
  BY <1>1, <1>u, PumpNextFrame DEF PumpFrame
<1>2. CASE RuntimeEmits \/ DeadlinePasses \/ UNCHANGED vars
  BY <1>2, <1>u, RuntimeEmitsEffect
  DEF RuntimeFrame, DeadlinePasses, vars
<1>3. CASE HostStartsPump \/ HostStopsPump \/ HostJoinsStarted \/ BeginShutdown \/
            HostWaitsGameplay \/ HostRequestsDrain \/ HostJoinsPublisher \/
            HostEntersTerminalConsume \/ HostEntersTerminalDrain \/
            HostShutsDownRuntime \/ HostJoinsPump \/ HostReports
  BY <1>3, <1>u, HostStartsPumpEffect, HostStopsPumpEffect, HostJoinsStartedEffect,
         BeginShutdownEffect, HostWaitsGameplayEffect, HostRequestsDrainEffect,
         HostJoinsPublisherEffect, HostEntersTerminalConsumeEffect,
         HostEntersTerminalDrainEffect, HostShutsDownRuntimeEffect,
         HostJoinsPumpEffect, HostReportsEffect
  DEF HostFrame, HostAlone
<1>4. CASE CoordinatorSleeps
  BY <1>4, CoordinatorSleepsEffect DEF CoordinatorMoves, CoordinatorFrame, BufferInv
<1>5. CASE CoordinatorSwaps
  BY <1>5, CoordinatorSwapsEffect DEF CoordinatorMoves, CoordinatorFails,
         ExchangeKept, Swapped, AfterSwapStep, CoordinatorFrame, BufferInv
<1>6. CASE CoordinatorWaitsSwap
  BY <1>6, CoordinatorWaitsSwapEffect DEF CoordinatorMoves, CoordinatorFails,
         ExchangeKept, Swapped, AfterSwapStep, CoordinatorFrame, BufferInv
<1>7. CASE CoordinatorPrepares
  <2>0. /\ outbound.state \in [OutboundSlots -> SlotStates]
        /\ outbound.epoch \in [OutboundSlots -> Nat]
        /\ outbound.records \in [OutboundSlots -> Nat]
        /\ outbound.ready \in Seq(OutboundSlots) /\ outbound.write \in OutboundSlots
    BY DEF Shapes, BufferStates
  <2>1. /\ publisher' = publisher /\ coordinator'.pc # "handle"
    BY <1>7, CoordinatorPreparesEffect DEF CoordinatorFrame, CoordinatorMoves, CoordinatorFails
  <2>2. CASE outbound' = outbound
    BY <2>1, <2>2 DEF BufferInv
  <2>3. CASE ~ outbound.writeActive /\ WritePrepared
    <3> DEFINE w == outbound'.write
    <3>1. /\ outbound'.state = [outbound.state EXCEPT ![w] = "Writing"]
          /\ w \in OutboundSlots /\ outbound.state[w] = "Empty"
          /\ outbound'.writeActive
          /\ outbound'.ready = outbound.ready /\ outbound'.readClaim = outbound.readClaim
          /\ outbound'.epoch = outbound.epoch /\ outbound'.records = outbound.records
          /\ outbound'.lastSealed = outbound.lastSealed
      BY <2>3 DEF WritePrepared, BufferStates
    <3>2. ReadyInv(outbound'.ready, outbound'.state)
      <4>1. ReadyInv(outbound.ready, outbound.state) /\ outbound.state[w] # "Sealed"
        BY <3>1 DEF BufferInv
      <4> HIDE DEF w
      <4>2. ReadyInv(outbound.ready, [outbound.state EXCEPT ![w] = "Writing"])
        BY <2>0, <3>1, <4>1, ReadyApart
      <4> QED
        BY <3>1, <4>2
    <3>3. \A s \in OutboundSlots : outbound'.state[s] = "Writing" <=> s = w
      BY <2>0, <2>3, <3>1 DEF BufferInv
    <3>4. publisher.pc \in {"submit", "release"} =>
            /\ publisher.slot \in OutboundSlots
            /\ outbound'.state[publisher.slot] = "Reading"
      BY <2>0, <3>1 DEF BufferInv
    <3> HIDE DEF w
    <3> QED
      BY <2>1, <3>1, <3>2, <3>3, <3>4 DEF BufferInv, w
  <2> QED
    BY <1>7, <2>2, <2>3, CoordinatorPreparesEffect DEF WritePrepared
<1>8. CASE CoordinatorAcquires
  BY <1>8, CoordinatorAcquiresEffect DEF CoordinatorFails, ExchangeKept,
         CoordinatorFrame, BufferInv
<1>9. CASE CoordinatorBegins
  <2>0. /\ outbound.state \in [OutboundSlots -> SlotStates]
        /\ outbound.epoch \in [OutboundSlots -> Nat]
        /\ outbound.records \in [OutboundSlots -> Nat]
        /\ outbound.ready \in Seq(OutboundSlots) /\ outbound.write \in OutboundSlots
    BY DEF Shapes, BufferStates
  <2>1. publisher' = publisher /\ coordinator.pc = "begin"
    BY <1>9, CoordinatorBeginsEffect DEF CoordinatorFrame
  <2>2. CASE EpochSet(outbound.write, coordinator.epoch) /\ outbound.records[outbound.write] = 0
    <3>1. \A s \in OutboundSlots : outbound'.epoch[s] <= MaxEpoch
      <4>1. \A s \in OutboundSlots :
                outbound'.epoch[s] = outbound.epoch[s] \/ outbound'.epoch[s] = coordinator.epoch
        BY <2>0, <2>2 DEF EpochSet
      <4> QED
        BY <4>1, <2>1, TickEpoch DEF BufferInv
    <3> QED
      BY <2>1, <2>2, <3>1 DEF EpochSet, BufferInv, CoordinatorMoves
  <2>3. CASE CoordinatorNotOkStep /\ outbound' = outbound
    BY <2>1, <2>3 DEF CoordinatorNotOkStep, BufferInv
  <2> QED
    BY <1>9, <2>2, <2>3, CoordinatorBeginsEffect
<1>10. CASE CoordinatorHandles
  <2>0. /\ outbound.state \in [OutboundSlots -> SlotStates]
        /\ outbound.epoch \in [OutboundSlots -> Nat]
        /\ outbound.records \in [OutboundSlots -> Nat]
        /\ outbound.ready \in Seq(OutboundSlots) /\ outbound.write \in OutboundSlots
    BY DEF Shapes, BufferStates
  <2>1. publisher' = publisher /\ coordinator.pc = "handle" /\ coordinator'.pc # "handle"
    BY <1>10, CoordinatorHandlesEffect DEF CoordinatorFrame
  <2>2. CASE outbound' = outbound
    BY <2>1, <2>2 DEF BufferInv
  <2>3. CASE RecordAdded
    <3>1. \A s \in OutboundSlots : outbound'.records[s] <= 1
      BY <2>0, <2>1, <2>3 DEF RecordAdded, BufferInv
    <3> QED
      BY <2>1, <2>3, <3>1 DEF RecordAdded, BufferInv
  <2> QED
    BY <1>10, <2>2, <2>3, CoordinatorHandlesEffect
<1>11. CASE CoordinatorChecksSeal
  BY <1>11, CoordinatorChecksSealEffect DEF CoordinatorMoves, CoordinatorNotOkStep,
         CoordinatorFrame, BufferInv
<1>12. CASE CoordinatorSeals
  <2>0. /\ outbound.state \in [OutboundSlots -> SlotStates]
        /\ outbound.epoch \in [OutboundSlots -> Nat]
        /\ outbound.records \in [OutboundSlots -> Nat]
        /\ outbound.ready \in Seq(OutboundSlots) /\ outbound.write \in OutboundSlots
    BY DEF Shapes, BufferStates
  <2>1. publisher' = publisher /\ coordinator.pc = "sealLocked"
        /\ coordinator'.pc = "release"
    BY <1>12, CoordinatorSealsEffect DEF CoordinatorFrame, CoordinatorNotOkStep
  <2>2. CASE EpochSet(outbound.write, 0)
    <3>1. \A s \in OutboundSlots : outbound'.epoch[s] <= MaxEpoch
      <4>1. \A s \in OutboundSlots :
                outbound'.epoch[s] = outbound.epoch[s] \/ outbound'.epoch[s] = 0
        BY <2>0, <2>2 DEF EpochSet
      <4> QED
        BY <4>1, ZeroEpoch DEF BufferInv
    <3> QED
      BY <2>1, <2>2, <3>1 DEF EpochSet, BufferInv, CoordinatorMoves
  <2>3. CASE BatchSealed
    <3>1. ReadyInv(outbound'.ready, outbound'.state)
      <4>1. /\ ReadyInv(outbound.ready, outbound.state)
            /\ outbound.state[outbound.write] = "Writing"
        BY <2>3 DEF BufferInv, BatchSealed
      <4>2. ReadyInv(Append(outbound.ready, outbound.write),
                     [outbound.state EXCEPT ![outbound.write] = "Sealed"])
        BY <2>0, <4>1, ReadyAfterSeal
      <4> QED
        BY <2>3, <4>2 DEF BatchSealed
    <3>2. coordinator.epoch <= MaxEpoch
      BY <2>1, TickEpoch
    <3>3. \A s \in OutboundSlots : outbound'.records[s] <= 1 /\ outbound'.epoch[s] <= MaxEpoch
      BY <2>0, <2>3, <3>2 DEF BatchSealed, BufferInv
    <3>4. \A s \in OutboundSlots : outbound'.state[s] # "Writing"
      BY <2>0, <2>3 DEF BatchSealed, BufferInv
    <3>5. publisher.pc \in {"submit", "release"} =>
            /\ publisher.slot \in OutboundSlots
            /\ outbound'.state[publisher.slot] = "Reading"
      BY <2>0, <2>3 DEF BatchSealed, BufferInv
    <3> QED
      BY <2>1, <2>3, <3>1, <3>2, <3>3, <3>4, <3>5 DEF BatchSealed, BufferInv
  <2>4. CASE outbound' = outbound
    BY <2>1, <2>4 DEF BufferInv
  <2> QED
    BY <1>12, <2>2, <2>3, <2>4, CoordinatorSealsEffect
<1>13. CASE CoordinatorReleases
  BY <1>13, CoordinatorReleasesEffect DEF CoordinatorFails, ReadReleased,
         CoordinatorFrame, BufferInv
<1>14. CASE CoordinatorStops
  BY <1>14, CoordinatorStopsEffect DEF CoordinatorFrame, BufferInv
<1>15. CASE CoordinatorPublishes
  BY <1>15, CoordinatorPublishesEffect DEF CoordinatorMoves, CoordinatorFails,
         CoordinatorFrame, BufferInv
<1>16. CASE CoordinatorTakes
  BY <1>16, CoordinatorTakesEffect DEF CoordinatorFails, CoordinatorFrame, BufferInv
<1>17. CASE CoordinatorConsumes
  BY <1>17, CoordinatorConsumesEffect DEF CoordinatorFails, ReadReleased,
         CoordinatorFrame, BufferInv
<1>18. CASE CoordinatorStoresReason
  BY <1>18, CoordinatorStoresReasonEffect DEF CoordinatorFrame, BufferInv
<1>19. CASE CoordinatorEnds
  BY <1>19, CoordinatorEndsEffect DEF CoordinatorMoves, BufferClosed,
         CoordinatorFrame, BufferInv
<1>20. CASE PublisherAcquires
  <2>0. /\ outbound.state \in [OutboundSlots -> SlotStates]
        /\ outbound.epoch \in [OutboundSlots -> Nat]
        /\ outbound.records \in [OutboundSlots -> Nat]
        /\ outbound.ready \in Seq(OutboundSlots) /\ outbound.write \in OutboundSlots
    BY DEF Shapes, BufferStates
  <2>1. coordinator' = coordinator /\ publisher.pc = "acquire"
    BY <1>20, PublisherAcquiresEffect DEF PublisherFrame
  <2>2. CASE outbound' = outbound /\ publisher'.pc \in {"failed", "noBatch"}
    BY <2>1, <2>2 DEF BufferInv
  <2>3. CASE BatchTaken /\ publisher'.pc = "submit" /\ publisher'.slot = Head(outbound.ready)
    <3> DEFINE h == Head(outbound.ready)
    <3>1. /\ ReadyInv(outbound'.ready, outbound'.state)
          /\ h \in OutboundSlots /\ outbound.state[h] = "Sealed"
      <4>1. ReadyInv(outbound.ready, outbound.state) /\ outbound.ready # << >>
        BY <2>3 DEF BufferInv, BatchTaken
      <4>2. /\ ReadyInv(Tail(outbound.ready), [outbound.state EXCEPT ![h] = "Reading"])
            /\ h \in OutboundSlots /\ outbound.state[h] = "Sealed"
        BY <2>0, <4>1, ReadyAfterTake
      <4> QED
        BY <2>3, <4>2 DEF BatchTaken
    <3>2. outbound'.state = [outbound.state EXCEPT ![h] = "Reading"]
      BY <2>3 DEF BatchTaken
    <3> HIDE DEF h
    <3>3. outbound'.state[h] = "Reading"
      BY <2>0, <3>1, <3>2
    <3>4. \A s \in OutboundSlots : outbound'.state[s] = "Writing" <=> outbound.state[s] = "Writing"
      BY <2>0, <3>1, <3>2
    <3>5. publisher'.slot = h
      BY <2>3 DEF h
    <3> QED
      BY <2>1, <2>3, <3>1, <3>3, <3>4, <3>5 DEF BatchTaken, BufferInv
  <2> QED
    BY <1>20, <2>2, <2>3, PublisherAcquiresEffect
<1>21. CASE PublisherSubmits
  BY <1>21, PublisherSubmitsEffect DEF PublisherFrame, BufferInv
<1>22. CASE PublisherReleases
  <2>0. /\ outbound.state \in [OutboundSlots -> SlotStates]
        /\ outbound.epoch \in [OutboundSlots -> Nat]
        /\ outbound.records \in [OutboundSlots -> Nat]
        /\ outbound.ready \in Seq(OutboundSlots) /\ outbound.write \in OutboundSlots
    BY DEF Shapes, BufferStates
  <2>1. coordinator' = coordinator /\ publisher.pc = "release"
        /\ publisher'.pc \in {"acquire", "failed"} /\ SlotReturned
    BY <1>22, PublisherReleasesEffect DEF PublisherFrame
  <2>2. publisher.slot \in OutboundSlots /\ outbound.state[publisher.slot] = "Reading"
    BY <2>1 DEF BufferInv
  <2>3. ReadyInv(outbound'.ready, outbound'.state)
    <3>1. ReadyInv(outbound.ready, outbound.state) /\ outbound.state[publisher.slot] # "Sealed"
      BY <2>2 DEF BufferInv
    <3>2. ReadyInv(outbound.ready, [outbound.state EXCEPT ![publisher.slot] = "Empty"])
      BY <2>0, <2>2, <3>1, ReadyApart
    <3> QED
      BY <2>1, <3>2 DEF SlotReturned
  <2>4. \A s \in OutboundSlots : outbound'.state[s] = "Writing" <=> outbound.state[s] = "Writing"
    BY <2>0, <2>1, <2>2 DEF SlotReturned
  <2>5. \A s \in OutboundSlots : outbound'.records[s] <= 1 /\ outbound'.epoch[s] <= MaxEpoch
    <3>1. \A s \in OutboundSlots : outbound'.records[s] \in {0, outbound.records[s]}
                                   /\ outbound'.epoch[s] \in {0, outbound.epoch[s]}
      BY <2>0, <2>1, <2>2 DEF SlotReturned
    <3> QED
      BY <3>1, ZeroEpoch DEF BufferInv
  <2>6. coordinator.pc = "handle" => outbound'.records[outbound.write] = 0
    BY <2>0, <2>1, <2>2 DEF SlotReturned, BufferInv
  <2> QED
    BY <2>1, <2>3, <2>4, <2>5, <2>6 DEF SlotReturned, BufferInv
<1>23. CASE PublisherFindsNoBatch
  BY <1>23, PublisherFindsNoBatchEffect DEF PublisherFrame, BufferInv
<1>24. CASE PublisherFails
  BY <1>24, PublisherFailsEffect DEF BufferClosed, PublisherFrame, BufferInv
<1>25. CASE PublisherEnds
  BY <1>25, PublisherEndsEffect DEF BufferClosed, PublisherFrame, BufferInv
<1>26. CASE HostStartsPublisher
  BY <1>26, HostStartsPublisherEffect DEF HostMoves, HostFrame, BufferInv, HostInv
<1>27. CASE HostStartsCoordinator
  BY <1>27, HostStartsCoordinatorEffect DEF HostMoves, HostFrame, BufferInv, HostInv
<1>28. CASE HostStopsPublisher
  BY <1>28, HostStopsPublisherEffect DEF BufferClosed, HostMoves, HostFrame,
         BufferInv
<1>29. CASE HostFinishesWrites
  BY <1>29, HostFinishesWritesEffect DEF HostMoves, HostFrame, BufferInv
<1> QED
  BY <1>1, <1>2, <1>3, <1>4, <1>5, <1>6, <1>7, <1>8, <1>9, <1>10, <1>11, <1>12,
         <1>13, <1>14, <1>15, <1>16, <1>17, <1>18, <1>19, <1>20, <1>21, <1>22,
         <1>23, <1>24, <1>25, <1>26, <1>27, <1>28, <1>29
  DEF Next, PumpNext, CoordinatorNext, PublisherNext, HostNext, HostSeesWorkerStop,
      HostIsAskedToStop, HostHasEnded

\* The sequences of the batches, and how many are in each place.
LEMMA BatchCounts ==
    ASSUME Shapes, BatchInv
    PROVE  /\ Len(sealed) \in Nat /\ Len(submitted) \in Nat
           /\ Len(outbound.ready) \in Nat /\ InHand \in 0 .. 1
           /\ sealed \in Seq(Nat) /\ submitted \in Seq(Nat)
           /\ outbound.ready \in Seq(OutboundSlots)
           /\ outbound.state \in [OutboundSlots -> SlotStates]
           /\ outbound.epoch \in [OutboundSlots -> Nat]
           /\ outbound.write \in OutboundSlots
           /\ \A i \in 1 .. Len(outbound.ready) : outbound.ready[i] \in OutboundSlots
<1>1. /\ sealed \in Seq(Nat) /\ submitted \in Seq(Nat)
      /\ outbound.ready \in Seq(OutboundSlots)
      /\ outbound.state \in [OutboundSlots -> SlotStates]
      /\ outbound.epoch \in [OutboundSlots -> Nat]
      /\ outbound.write \in OutboundSlots
  BY DEF Shapes, BufferStates
<1>2. Len(sealed) \in Nat /\ Len(submitted) \in Nat /\ Len(outbound.ready) \in Nat
  BY <1>1, LenProperties
<1>3. \A i \in 1 .. Len(outbound.ready) : outbound.ready[i] \in OutboundSlots
  BY <1>1, ElementOfSeq
<1> QED
  BY <1>1, <1>2, <1>3 DEF InHand

\* A step that keeps the queue, and the epochs of the batches that wait.
LEMMA BatchesStay ==
    ASSUME Shapes, BatchInv, UNCHANGED <<sealed, submitted>>,
           outbound'.ready = outbound.ready,
           publisher'.pc = "submit" <=> publisher.pc = "submit",
           publisher.pc = "submit" =>
               /\ publisher'.slot = publisher.slot
               /\ outbound'.epoch[publisher.slot] = outbound.epoch[publisher.slot],
           \A i \in 1 .. Len(outbound.ready) :
               outbound'.epoch[outbound.ready[i]] = outbound.epoch[outbound.ready[i]]
    PROVE  BatchInv'
<1>1. InHand' = InHand
  BY DEF InHand
<1> QED
  BY <1>1 DEF BatchInv

\* What is being written neither waits nor is being read.
LEMMA WrittenApart ==
    ASSUME Shapes, BufferInv, outbound.state[outbound.write] = "Writing",
           NEW e,
           outbound'.epoch = [outbound.epoch EXCEPT ![outbound.write] = e]
    PROVE  /\ \A i \in 1 .. Len(outbound.ready) :
                 outbound'.epoch[outbound.ready[i]] = outbound.epoch[outbound.ready[i]]
           /\ publisher.pc = "submit" =>
                 outbound'.epoch[publisher.slot] = outbound.epoch[publisher.slot]
<1>1. /\ outbound.ready \in Seq(OutboundSlots)
      /\ outbound.epoch \in [OutboundSlots -> Nat]
      /\ outbound.write \in OutboundSlots
  BY DEF Shapes, BufferStates
<1>2. \A i \in 1 .. Len(outbound.ready) :
          outbound.ready[i] \in OutboundSlots /\ outbound.ready[i] # outbound.write
  BY <1>1, ElementOfSeq DEF BufferInv, ReadyInv
<1>3. publisher.pc = "submit" =>
          publisher.slot \in OutboundSlots /\ publisher.slot # outbound.write
  BY DEF BufferInv
<1> QED
  BY <1>1, <1>2, <1>3

\* What was sealed was submitted, is being submitted, or waits, in this order.
LEMMA BatchKept ==
    ASSUME Shapes, HostInv, BufferInv, BatchInv, [Next]_vars
    PROVE  BatchInv'
<1>u. ASSUME UNCHANGED <<outbound, publisher, sealed, submitted>> PROVE BatchInv'
  BY <1>u DEF BatchInv, InHand
<1>1. CASE PumpNext
  BY <1>1, <1>u, PumpNextFrame DEF PumpFrame
<1>2. CASE RuntimeEmits \/ DeadlinePasses \/ UNCHANGED vars
  BY <1>2, <1>u, RuntimeEmitsEffect
  DEF RuntimeFrame, DeadlinePasses, vars
<1>3. CASE CoordinatorSleeps \/ CoordinatorSwaps \/ CoordinatorWaitsSwap \/
            CoordinatorAcquires \/ CoordinatorChecksSeal \/ CoordinatorReleases \/
            CoordinatorStops \/ CoordinatorPublishes \/ CoordinatorTakes \/
            CoordinatorConsumes \/ CoordinatorStoresReason
  BY <1>3, <1>u, CoordinatorSleepsEffect, CoordinatorSwapsEffect,
         CoordinatorWaitsSwapEffect, CoordinatorAcquiresEffect,
         CoordinatorChecksSealEffect, CoordinatorReleasesEffect,
         CoordinatorStopsEffect, CoordinatorPublishesEffect, CoordinatorTakesEffect,
         CoordinatorConsumesEffect, CoordinatorStoresReasonEffect
  DEF CoordinatorFrame
<1>4. CASE HostStartsPump \/ HostStartsCoordinator \/ HostStopsPump \/
            HostJoinsStarted \/ BeginShutdown \/ HostWaitsGameplay \/
            HostRequestsDrain \/ HostJoinsPublisher \/ HostEntersTerminalConsume \/
            HostEntersTerminalDrain \/ HostShutsDownRuntime \/ HostJoinsPump \/
            HostReports
  BY <1>4, <1>u, HostStartsPumpEffect, HostStartsCoordinatorEffect,
         HostStopsPumpEffect, HostJoinsStartedEffect, BeginShutdownEffect,
         HostWaitsGameplayEffect, HostRequestsDrainEffect, HostJoinsPublisherEffect,
         HostEntersTerminalConsumeEffect, HostEntersTerminalDrainEffect,
         HostShutsDownRuntimeEffect, HostJoinsPumpEffect, HostReportsEffect
  DEF HostFrame, HostAlone
<1>5. CASE CoordinatorPrepares
  <2>1. /\ UNCHANGED <<sealed, submitted>>
        /\ outbound'.ready = outbound.ready /\ outbound'.epoch = outbound.epoch
        /\ publisher'.pc = "submit" <=> publisher.pc = "submit"
        /\ publisher.pc = "submit" => publisher'.slot = publisher.slot
    BY <1>5, CoordinatorPreparesEffect DEF WritePrepared, CoordinatorFrame
  <2> QED
    BY <2>1, BatchesStay
<1>6. CASE CoordinatorBegins
  <2>1. publisher' = publisher /\ UNCHANGED <<sealed, submitted>>
    BY <1>6, CoordinatorBeginsEffect DEF CoordinatorFrame
  <2>2. CASE /\ EpochSet(outbound.write, coordinator.epoch)
             /\ outbound.state[outbound.write] = "Writing"
    BY <2>1, <2>2, WrittenApart, BatchesStay DEF EpochSet
  <2>3. CASE outbound' = outbound
    BY <2>1, <2>3, BatchesStay
  <2> QED
    BY <1>6, <2>2, <2>3, CoordinatorBeginsEffect
<1>7. CASE CoordinatorHandles
  <2>1. /\ UNCHANGED <<sealed, submitted>>
        /\ outbound'.ready = outbound.ready /\ outbound'.epoch = outbound.epoch
        /\ publisher'.pc = "submit" <=> publisher.pc = "submit"
        /\ publisher.pc = "submit" => publisher'.slot = publisher.slot
    BY <1>7, CoordinatorHandlesEffect DEF RecordAdded, CoordinatorFrame
  <2> QED
    BY <2>1, BatchesStay
<1>8. CASE CoordinatorSeals
  <2>1. publisher' = publisher /\ submitted' = submitted
    BY <1>8, CoordinatorSealsEffect DEF CoordinatorFrame
  <2>2. CASE /\ EpochSet(outbound.write, 0) /\ sealed' = sealed
             /\ outbound.state[outbound.write] = "Writing"
    BY <2>1, <2>2, WrittenApart, BatchesStay DEF EpochSet
  <2>3. CASE BatchSealed
    <3> DEFINE N == Len(sealed)
               m == Len(submitted)
               h == InHand
               n == Len(outbound.ready)
               e == coordinator.epoch
               q == outbound.ready
               r == outbound'.ready
    <3>1. /\ N \in Nat /\ m \in Nat /\ n \in Nat /\ h \in 0 .. 1
          /\ N = m + h + n
          /\ publisher.pc = "submit" => h = 1
      BY BatchCounts DEF BatchInv, InHand
    <3>2. /\ Len(sealed') = N + 1 /\ sealed'[N + 1] = e
          /\ \A i \in 1 .. N : sealed'[i] = sealed[i]
      <4>1. e \in Nat /\ sealed \in Seq(Nat) /\ sealed' = Append(sealed, e)
        BY <2>3, BatchCounts DEF Shapes, CoordinatorStates, BatchSealed
      <4> HIDE DEF e
      <4> QED
        BY <4>1, AppendProperties
    <3>3. /\ Len(r) = n + 1 /\ r[n + 1] = outbound.write
          /\ \A i \in 1 .. n : r[i] = q[i]
      <4>1. /\ q \in Seq(OutboundSlots) /\ outbound.write \in OutboundSlots
            /\ r = Append(q, outbound.write)
        BY <2>3, BatchCounts DEF BatchSealed
      <4> HIDE DEF q, r
      <4>2. Len(q) = n
        BY DEF q
      <4> QED
        BY <4>1, <4>2, AppendProperties
    <3>4. /\ \A i \in 1 .. n : outbound'.epoch[q[i]] = outbound.epoch[q[i]]
          /\ publisher.pc = "submit" =>
                 outbound'.epoch[publisher.slot] = outbound.epoch[publisher.slot]
      BY <2>3, WrittenApart DEF BatchSealed
    <3>5. outbound'.epoch[outbound.write] = e
      BY <2>3, BatchCounts DEF BatchSealed
    <3>6. /\ \A i \in 1 .. m : submitted[i] = sealed[i]
          /\ publisher.pc = "submit" => outbound.epoch[publisher.slot] = sealed[m + 1]
          /\ \A i \in 1 .. n : outbound.epoch[q[i]] = sealed[m + h + i]
      BY DEF BatchInv
    <3>7. h' = h /\ m' = m
      BY <2>1 DEF InHand
    <3> HIDE DEF N, m, h, n, e, q, r
    <3>8. /\ N + 1 = m + h + (n + 1)
          /\ \A i \in 1 .. m : i \in 1 .. N
          /\ h = 1 => m + 1 \in 1 .. N
          /\ \A i \in 1 .. n : m + h + i \in 1 .. N
          /\ \A i \in 1 .. n + 1 : i \in 1 .. n \/ i = n + 1
          /\ m + h + (n + 1) = N + 1
      BY <3>1
    <3>9. \A i \in 1 .. m : submitted[i] = sealed'[i]
      BY <3>2, <3>6, <3>8
    <3>10. publisher.pc = "submit" => outbound'.epoch[publisher.slot] = sealed'[m + 1]
      BY <3>1, <3>2, <3>4, <3>6, <3>8
    <3>11. \A i \in 1 .. n + 1 : outbound'.epoch[r[i]] = sealed'[m + h + i]
      BY <3>2, <3>3, <3>4, <3>5, <3>6, <3>8
    <3> USE DEF m, h, r
    <3> QED
      BY <2>1, <3>2, <3>3, <3>7, <3>8, <3>9, <3>10, <3>11 DEF BatchInv
  <2>4. CASE outbound' = outbound /\ sealed' = sealed
    BY <2>1, <2>4, BatchesStay
  <2> QED
    BY <1>8, <2>2, <2>3, <2>4, CoordinatorSealsEffect
<1>9. CASE CoordinatorEnds
  <2>1. /\ UNCHANGED <<sealed, submitted>>
        /\ outbound'.ready = outbound.ready /\ outbound'.epoch = outbound.epoch
        /\ publisher'.pc = "submit" <=> publisher.pc = "submit"
        /\ publisher.pc = "submit" => publisher'.slot = publisher.slot
    BY <1>9, CoordinatorEndsEffect DEF BufferClosed, CoordinatorFrame
  <2> QED
    BY <2>1, BatchesStay
<1>10. CASE PublisherAcquires
  <2>1. UNCHANGED <<sealed, submitted>> /\ publisher.pc = "acquire"
    BY <1>10, PublisherAcquiresEffect DEF PublisherFrame
  <2>2. CASE outbound' = outbound /\ publisher'.pc \in {"failed", "noBatch"}
    BY <2>1, <2>2, BatchesStay
  <2>3. CASE BatchTaken /\ publisher'.pc = "submit" /\ publisher'.slot = Head(outbound.ready)
    <3> DEFINE N == Len(sealed)
               m == Len(submitted)
               n == Len(outbound.ready)
               q == outbound.ready
               r == outbound'.ready
    <3>1. /\ N \in Nat /\ m \in Nat /\ n \in Nat
          /\ N = m + 0 + n
          /\ \A i \in 1 .. n : outbound.epoch[q[i]] = sealed[m + 0 + i]
      BY <2>1, BatchCounts DEF BatchInv, InHand
    <3>2. q \in Seq(OutboundSlots) /\ q # << >> /\ r = Tail(q) /\ n = Len(q)
      BY <2>3, BatchCounts DEF BatchTaken
    <3>3. outbound'.epoch = outbound.epoch /\ InHand' = 1
      BY <2>3 DEF BatchTaken, InHand
    <3>4. publisher'.slot = Head(q)
      BY <2>3
    <3> HIDE DEF q, r, N, n
    <3>5. /\ Head(q) = q[1] /\ n # 0 /\ Len(r) = n - 1
          /\ \A i \in 1 .. n - 1 : r[i] = q[i + 1]
      BY <3>1, <3>2, LenProperties, HeadTailProperties, EmptySeq
    <3> HIDE DEF m
    <3>6. /\ N = m + 1 + (n - 1)
          /\ 1 \in 1 .. n /\ m + 0 + 1 = m + 1
          /\ \A i \in 1 .. n - 1 : i + 1 \in 1 .. n /\ m + 0 + (i + 1) = m + 1 + i
      BY <3>1, <3>5
    <3>7. outbound'.epoch[publisher'.slot] = sealed[m + 1]
      BY <3>1, <3>3, <3>4, <3>5, <3>6
    <3>8. \A i \in 1 .. n - 1 : outbound'.epoch[r[i]] = sealed[m + 1 + i]
      BY <3>1, <3>3, <3>5, <3>6
    <3> USE DEF m, N, r
    <3> QED
      BY <2>1, <3>3, <3>5, <3>6, <3>7, <3>8 DEF BatchInv
  <2> QED
    BY <1>10, <2>2, <2>3, PublisherAcquiresEffect
<1>11. CASE PublisherSubmits
  <2> DEFINE N == Len(sealed)
             m == Len(submitted)
             n == Len(outbound.ready)
             e == outbound.epoch[publisher.slot]
  <2>1. /\ outbound' = outbound /\ sealed' = sealed
        /\ publisher.pc = "submit" /\ publisher'.pc = "release"
        /\ submitted' = Append(submitted, e)
    BY <1>11, PublisherSubmitsEffect DEF PublisherFrame
  <2>2. /\ N \in Nat /\ m \in Nat /\ n \in Nat
        /\ N = m + 1 + n
        /\ \A i \in 1 .. m : submitted[i] = sealed[i]
        /\ e = sealed[m + 1]
        /\ \A i \in 1 .. n : outbound.epoch[outbound.ready[i]] = sealed[m + 1 + i]
    BY <2>1, BatchCounts DEF BatchInv, InHand
  <2>3. e \in Nat /\ submitted \in Seq(Nat)
    BY <2>1, BatchCounts DEF BufferInv
  <2> HIDE DEF e
  <2>4. /\ Len(submitted') = m + 1 /\ submitted'[m + 1] = e
        /\ \A i \in 1 .. m : submitted'[i] = submitted[i]
    BY <2>1, <2>3, AppendProperties
  <2>5. InHand' = 0
    BY <2>1 DEF InHand
  <2> HIDE DEF N, m, n
  <2>6. /\ N = m + 1 + 0 + n
        /\ \A i \in 1 .. m + 1 : i \in 1 .. m \/ i = m + 1
        /\ \A i \in 1 .. n : m + 1 + 0 + i = m + 1 + i
    BY <2>2
  <2>7. \A i \in 1 .. m + 1 : submitted'[i] = sealed[i]
    BY <2>2, <2>4, <2>6
  <2>8. \A i \in 1 .. n : outbound.epoch[outbound.ready[i]] = sealed[m + 1 + 0 + i]
    BY <2>2, <2>6
  <2> USE DEF N, m, n
  <2> QED
    BY <2>1, <2>4, <2>5, <2>6, <2>7, <2>8 DEF BatchInv
<1>12. CASE PublisherReleases
  <2>1. /\ UNCHANGED <<sealed, submitted>> /\ publisher.pc = "release"
        /\ publisher'.pc \in {"acquire", "failed"} /\ SlotReturned
    BY <1>12, PublisherReleasesEffect DEF PublisherFrame
  <2>2. \A i \in 1 .. Len(outbound.ready) :
            outbound'.epoch[outbound.ready[i]] = outbound.epoch[outbound.ready[i]]
    <3>1. \A i \in 1 .. Len(outbound.ready) : outbound.ready[i] # publisher.slot
      BY <2>1 DEF BufferInv, ReadyInv
    <3> QED
      BY <2>1, <3>1, BatchCounts DEF SlotReturned
  <2> QED
    BY <2>1, <2>2, BatchesStay DEF SlotReturned
<1>13. CASE PublisherFindsNoBatch
  <2>1. /\ UNCHANGED <<sealed, submitted>>
        /\ outbound'.ready = outbound.ready /\ outbound'.epoch = outbound.epoch
        /\ publisher'.pc = "submit" <=> publisher.pc = "submit"
        /\ publisher.pc = "submit" => publisher'.slot = publisher.slot
    BY <1>13, PublisherFindsNoBatchEffect DEF PublisherFrame
  <2> QED
    BY <2>1, BatchesStay
<1>14. CASE PublisherFails
  <2>1. /\ UNCHANGED <<sealed, submitted>>
        /\ outbound'.ready = outbound.ready /\ outbound'.epoch = outbound.epoch
        /\ publisher'.pc = "submit" <=> publisher.pc = "submit"
        /\ publisher.pc = "submit" => publisher'.slot = publisher.slot
    BY <1>14, PublisherFailsEffect DEF BufferClosed, PublisherFrame
  <2> QED
    BY <2>1, BatchesStay
<1>15. CASE PublisherEnds
  <2>1. /\ UNCHANGED <<sealed, submitted>>
        /\ outbound'.ready = outbound.ready /\ outbound'.epoch = outbound.epoch
        /\ publisher'.pc = "submit" <=> publisher.pc = "submit"
        /\ publisher.pc = "submit" => publisher'.slot = publisher.slot
    BY <1>15, PublisherEndsEffect DEF BufferClosed, PublisherFrame
  <2> QED
    BY <2>1, BatchesStay
<1>16. CASE HostStartsPublisher
  <2>1. /\ UNCHANGED <<sealed, submitted>>
        /\ outbound'.ready = outbound.ready /\ outbound'.epoch = outbound.epoch
        /\ publisher'.pc = "submit" <=> publisher.pc = "submit"
        /\ publisher.pc = "submit" => publisher'.slot = publisher.slot
    BY <1>16, HostStartsPublisherEffect DEF HostFrame, HostInv
  <2> QED
    BY <2>1, BatchesStay
<1>17. CASE HostStopsPublisher
  <2>1. /\ UNCHANGED <<sealed, submitted>>
        /\ outbound'.ready = outbound.ready /\ outbound'.epoch = outbound.epoch
        /\ publisher'.pc = "submit" <=> publisher.pc = "submit"
        /\ publisher.pc = "submit" => publisher'.slot = publisher.slot
    BY <1>17, HostStopsPublisherEffect DEF BufferClosed, HostFrame
  <2> QED
    BY <2>1, BatchesStay
<1>18. CASE HostFinishesWrites
  <2>1. /\ UNCHANGED <<sealed, submitted>>
        /\ outbound'.ready = outbound.ready /\ outbound'.epoch = outbound.epoch
        /\ publisher'.pc = "submit" <=> publisher.pc = "submit"
        /\ publisher.pc = "submit" => publisher'.slot = publisher.slot
    BY <1>18, HostFinishesWritesEffect DEF HostFrame
  <2> QED
    BY <2>1, BatchesStay
<1> QED
  BY <1>1, <1>2, <1>3, <1>4, <1>5, <1>6, <1>7, <1>8, <1>9, <1>10, <1>11, <1>12,
         <1>13, <1>14, <1>15, <1>16, <1>17, <1>18
  DEF Next, PumpNext, CoordinatorNext, PublisherNext, HostNext, HostSeesWorkerStop,
      HostIsAskedToStop, HostHasEnded

\* The publisher leaves for the reasons it was asked to, and reports an empty buffer
\* only when writes were finished.
LEMMA PublisherKept ==
    ASSUME Shapes, HostInv, ClaimInv, TurnInv, PublisherInv, [Next]_vars
    PROVE  PublisherInv'
<1>u. ASSUME UNCHANGED <<outbound, publisher, flags, host>> PROVE PublisherInv'
  BY <1>u DEF PublisherInv
<1>1. CASE PumpNext
  BY <1>1, <1>u, PumpNextFrame DEF PumpFrame
<1>2. CASE RuntimeEmits \/ DeadlinePasses \/ UNCHANGED vars
  BY <1>2, <1>u, RuntimeEmitsEffect
  DEF RuntimeFrame, DeadlinePasses, vars
<1>3. CASE CoordinatorSleeps \/ CoordinatorSwaps \/ CoordinatorWaitsSwap \/
            CoordinatorAcquires \/ CoordinatorChecksSeal \/ CoordinatorReleases \/
            CoordinatorPublishes \/ CoordinatorTakes \/ CoordinatorConsumes
  BY <1>3, <1>u, CoordinatorSleepsEffect, CoordinatorSwapsEffect,
         CoordinatorWaitsSwapEffect, CoordinatorAcquiresEffect,
         CoordinatorChecksSealEffect, CoordinatorReleasesEffect,
         CoordinatorPublishesEffect, CoordinatorTakesEffect,
         CoordinatorConsumesEffect
  DEF CoordinatorFrame
<1>4. CASE CoordinatorPrepares
  BY <1>4, CoordinatorPreparesEffect DEF CoordinatorMoves, CoordinatorFails,
         WritePrepared, CoordinatorFrame, PublisherInv
<1>5. CASE CoordinatorBegins
  BY <1>5, CoordinatorBeginsEffect DEF CoordinatorMoves, CoordinatorNotOkStep,
         EpochSet, CoordinatorFrame, PublisherInv
<1>6. CASE CoordinatorHandles
  BY <1>6, CoordinatorHandlesEffect DEF RecordAdded, CoordinatorFrame, PublisherInv
<1>7. CASE CoordinatorSeals
  BY <1>7, CoordinatorSealsEffect DEF CoordinatorMoves, CoordinatorNotOkStep,
         EpochSet, BatchSealed, CoordinatorFrame, PublisherInv, HostInv, TurnInv,
         CoordinatorGone
<1>8. CASE CoordinatorStops
  BY <1>8, CoordinatorStopsEffect DEF CoordinatorFrame, PublisherInv
<1>9. CASE CoordinatorStoresReason
  BY <1>9, CoordinatorStoresReasonEffect DEF CoordinatorFrame, PublisherInv
<1>10. CASE CoordinatorEnds
  BY <1>10, CoordinatorEndsEffect DEF CoordinatorMoves, BufferClosed,
         CoordinatorFrame, PublisherInv
<1>11. CASE PublisherAcquires
  BY <1>11, PublisherAcquiresEffect DEF BatchTaken, PublisherFrame, PublisherInv
<1>12. CASE PublisherSubmits
  BY <1>12, PublisherSubmitsEffect DEF PublisherFrame, PublisherInv
<1>13. CASE PublisherReleases
  BY <1>13, PublisherReleasesEffect DEF SlotReturned, PublisherFrame, PublisherInv
<1>14. CASE PublisherFindsNoBatch
  BY <1>14, PublisherFindsNoBatchEffect DEF PublisherFrame, PublisherInv, HostInv
<1>15. CASE PublisherFails
  BY <1>15, PublisherFailsEffect DEF BufferClosed, PublisherFrame, PublisherInv
<1>16. CASE PublisherEnds
  BY <1>16, PublisherEndsEffect DEF BufferClosed, PublisherFrame, PublisherInv
<1>17. CASE HostStartsPublisher
  BY <1>17, HostStartsPublisherEffect DEF HostMoves, HostFrame, PublisherInv,
         HostInv
<1>18. CASE HostStartsPump
  BY <1>18, HostStartsPumpEffect DEF HostMoves, HostFrame, PublisherInv
<1>19. CASE HostStartsCoordinator
  BY <1>19, HostStartsCoordinatorEffect DEF HostMoves, HostFrame, PublisherInv
<1>20. CASE HostStopsPump
  BY <1>20, HostStopsPumpEffect DEF HostMoves, HostFrame, PublisherInv
<1>21. CASE HostStopsPublisher
  BY <1>21, HostStopsPublisherEffect DEF BufferClosed, HostMoves, HostFrame,
         PublisherInv
<1>22. CASE HostJoinsStarted
  BY <1>22, HostJoinsStartedEffect DEF HostMoves, HostAlone, HostFrame, PublisherInv
<1>23. CASE BeginShutdown
  BY <1>23, BeginShutdownEffect DEF HostMoves, HostFrame, PublisherInv
<1>24. CASE HostWaitsGameplay
  BY <1>24, HostWaitsGameplayEffect DEF HostAlone, HostFrame, PublisherInv, HostInv,
         DrainSteps, DrainedSteps
<1>25. CASE HostRequestsDrain
  BY <1>25, HostRequestsDrainEffect DEF HostMoves, HostFrame, PublisherInv
<1>26. CASE HostFinishesWrites
  BY <1>26, HostFinishesWritesEffect DEF HostMoves, HostFrame, PublisherInv
<1>27. CASE HostJoinsPublisher
  BY <1>27, HostJoinsPublisherEffect DEF HostAlone, HostFrame, PublisherInv
<1>28. CASE HostEntersTerminalConsume
  BY <1>28, HostEntersTerminalConsumeEffect DEF HostMoves, HostAlone, HostFrame,
         PublisherInv
<1>29. CASE HostEntersTerminalDrain
  BY <1>29, HostEntersTerminalDrainEffect DEF HostMoves, HostFrame, PublisherInv
<1>30. CASE HostShutsDownRuntime
  BY <1>30, HostShutsDownRuntimeEffect DEF HostMoves, HostFrame, PublisherInv
<1>31. CASE HostJoinsPump
  BY <1>31, HostJoinsPumpEffect DEF HostMoves, HostAlone, HostFrame, PublisherInv
<1>32. CASE HostReports
  BY <1>32, HostReportsEffect DEF HostAlone, HostFrame, PublisherInv
<1> QED
  BY <1>1, <1>2, <1>3, <1>4, <1>5, <1>6, <1>7, <1>8, <1>9, <1>10, <1>11, <1>12,
         <1>13, <1>14, <1>15, <1>16, <1>17, <1>18, <1>19, <1>20, <1>21, <1>22,
         <1>23, <1>24, <1>25, <1>26, <1>27, <1>28, <1>29, <1>30, <1>31, <1>32
  DEF Next, PumpNext, CoordinatorNext, PublisherNext, HostNext, HostSeesWorkerStop,
      HostIsAskedToStop, HostHasEnded

\* The host reports what it has seen of the threads it joined.
LEMMA ReportKept ==
    ASSUME Shapes, HostInv, ClaimInv, EndInv, PublisherInv, ReportInv, [Next]_vars
    PROVE  ReportInv'
<1>u. ASSUME UNCHANGED <<publisher, host, pump, coordinator>> PROVE ReportInv'
  BY <1>u DEF ReportInv
<1>1. CASE RuntimeEmits \/ DeadlinePasses \/ UNCHANGED vars
  BY <1>1, <1>u, RuntimeEmitsEffect
  DEF RuntimeFrame, DeadlinePasses, vars
<1>2. CASE PumpLoops
  BY <1>2, PumpLoopsEffect DEF PumpMoves, PumpFrame, ReportInv
<1>3. CASE PumpAcquires
  BY <1>3, PumpAcquiresEffect DEF StepTaken, PumpFrame, ReportInv
<1>4. CASE SealFullSlot
  BY <1>4, SealFullSlotEffect DEF WriteReleased, PumpFrame, ReportInv
<1>5. CASE PumpPops
  BY <1>5, PumpPopsEffect DEF PumpFrame, ReportInv
<1>6. CASE PumpFindsNothing
  BY <1>6, PumpFindsNothingEffect DEF PumpMoves, WriteReleased, PumpFrame, ReportInv
<1>7. CASE PumpCommits
  BY <1>7, PumpCommitsEffect DEF WriteReleased, PumpFrame, ReportInv
<1>8. CASE PumpWaits
  BY <1>8, PumpWaitsEffect DEF StepTaken, PumpFrame, ReportInv
<1>9. CASE PumpTakesPlan
  BY <1>9, PumpTakesPlanEffect DEF PumpFrame, ReportInv
<1>10. CASE PumpRunsTerminal
  BY <1>10, PumpRunsTerminalEffect DEF PumpReports, PumpFrame, ReportInv
<1>11. CASE PumpCompletes
  BY <1>11, PumpCompletesEffect DEF PumpReports, PumpFrame, ReportInv
<1>12. CASE PumpEnds
  BY <1>12, PumpEndsEffect DEF PumpFrame, ReportInv, EndInv
<1>13. CASE CoordinatorSleeps
  BY <1>13, CoordinatorSleepsEffect DEF CoordinatorMoves, CoordinatorFrame,
         ReportInv
<1>14. CASE CoordinatorSwaps
  BY <1>14, CoordinatorSwapsEffect DEF CoordinatorMoves, CoordinatorFails,
         ExchangeKept, Swapped, AfterSwapStep, CoordinatorFrame, ReportInv
<1>15. CASE CoordinatorWaitsSwap
  BY <1>15, CoordinatorWaitsSwapEffect DEF CoordinatorMoves, CoordinatorFails,
         ExchangeKept, Swapped, AfterSwapStep, CoordinatorFrame, ReportInv
<1>16. CASE CoordinatorPrepares
  BY <1>16, CoordinatorPreparesEffect DEF CoordinatorMoves, CoordinatorFails,
         WritePrepared, CoordinatorFrame, ReportInv
<1>17. CASE CoordinatorAcquires
  BY <1>17, CoordinatorAcquiresEffect DEF CoordinatorFails, ExchangeKept,
         CoordinatorFrame, ReportInv
<1>18. CASE CoordinatorBegins
  BY <1>18, CoordinatorBeginsEffect DEF CoordinatorMoves, CoordinatorNotOkStep,
         EpochSet, CoordinatorFrame, ReportInv
<1>19. CASE CoordinatorHandles
  BY <1>19, CoordinatorHandlesEffect DEF RecordAdded, CoordinatorFrame, ReportInv
<1>20. CASE CoordinatorChecksSeal
  BY <1>20, CoordinatorChecksSealEffect DEF CoordinatorMoves, CoordinatorNotOkStep,
         CoordinatorFrame, ReportInv
<1>21. CASE CoordinatorSeals
  BY <1>21, CoordinatorSealsEffect DEF CoordinatorMoves, CoordinatorNotOkStep,
         EpochSet, BatchSealed, CoordinatorFrame, ReportInv
<1>22. CASE CoordinatorReleases
  BY <1>22, CoordinatorReleasesEffect DEF CoordinatorFails, ReadReleased,
         CoordinatorFrame, ReportInv
<1>23. CASE CoordinatorStops
  BY <1>23, CoordinatorStopsEffect DEF CoordinatorFrame, ReportInv
<1>24. CASE CoordinatorPublishes
  BY <1>24, CoordinatorPublishesEffect DEF CoordinatorMoves, CoordinatorFails,
         CoordinatorFrame, ReportInv
<1>25. CASE CoordinatorTakes
  BY <1>25, CoordinatorTakesEffect DEF CoordinatorFails, CoordinatorFrame, ReportInv
<1>26. CASE CoordinatorConsumes
  BY <1>26, CoordinatorConsumesEffect DEF CoordinatorFails, ReadReleased,
         CoordinatorFrame, ReportInv
<1>27. CASE CoordinatorStoresReason
  BY <1>27, CoordinatorStoresReasonEffect DEF CoordinatorFrame, ReportInv, HostInv,
         CoordinatorGone, RollbackSteps
<1>28. CASE CoordinatorEnds
  BY <1>28, CoordinatorEndsEffect DEF CoordinatorMoves, BufferClosed,
         CoordinatorFrame, ReportInv
<1>29. CASE PublisherAcquires
  BY <1>29, PublisherAcquiresEffect DEF BatchTaken, PublisherFrame, ReportInv
<1>30. CASE PublisherSubmits
  BY <1>30, PublisherSubmitsEffect DEF PublisherFrame, ReportInv
<1>31. CASE PublisherReleases
  BY <1>31, PublisherReleasesEffect DEF SlotReturned, PublisherFrame, ReportInv
<1>32. CASE PublisherFindsNoBatch
  BY <1>32, PublisherFindsNoBatchEffect DEF PublisherFrame, ReportInv
<1>33. CASE PublisherFails
  BY <1>33, PublisherFailsEffect DEF BufferClosed, PublisherFrame, ReportInv
<1>34. CASE PublisherEnds
  BY <1>34, PublisherEndsEffect DEF BufferClosed, PublisherFrame, ReportInv
<1>35. CASE HostStartsPublisher
  BY <1>35, HostStartsPublisherEffect DEF HostMoves, HostFrame, ReportInv, HostInv
<1>36. CASE HostStartsPump
  BY <1>36, HostStartsPumpEffect DEF HostMoves, HostFrame, ReportInv, HostInv,
         EndInv
<1>37. CASE HostStartsCoordinator
  BY <1>37, HostStartsCoordinatorEffect DEF HostMoves, HostFrame, ReportInv,
         HostInv, CoordinatorGone, RollbackSteps
<1>38. CASE HostStopsPump
  BY <1>38, HostStopsPumpEffect DEF HostMoves, HostFrame, ReportInv
<1>39. CASE HostStopsPublisher
  BY <1>39, HostStopsPublisherEffect DEF BufferClosed, HostMoves, HostFrame,
         ReportInv
<1>40. CASE HostJoinsStarted
  BY <1>40, HostJoinsStartedEffect DEF HostMoves, HostAlone, HostFrame, ReportInv
<1>41. CASE BeginShutdown
  BY <1>41, BeginShutdownEffect DEF HostMoves, HostFrame, ReportInv
<1>42. CASE HostWaitsGameplay
  BY <1>42, HostWaitsGameplayEffect DEF HostAlone, HostFrame, ReportInv
<1>43. CASE HostRequestsDrain
  BY <1>43, HostRequestsDrainEffect DEF HostMoves, HostFrame, ReportInv
<1>44. CASE HostFinishesWrites
  BY <1>44, HostFinishesWritesEffect DEF HostMoves, HostFrame, ReportInv
<1>45. CASE HostJoinsPublisher
  BY <1>45, HostJoinsPublisherEffect DEF HostAlone, HostFrame, ReportInv, HostInv,
         PublisherInv, RollbackSteps
<1>46. CASE HostEntersTerminalConsume
  BY <1>46, HostEntersTerminalConsumeEffect DEF HostMoves, HostAlone, HostFrame,
         ReportInv
<1>47. CASE HostEntersTerminalDrain
  BY <1>47, HostEntersTerminalDrainEffect DEF HostMoves, HostFrame, ReportInv
<1>48. CASE HostShutsDownRuntime
  BY <1>48, HostShutsDownRuntimeEffect DEF HostMoves, HostFrame, ReportInv
<1>49. CASE HostJoinsPump
  BY <1>49, HostJoinsPumpEffect DEF HostMoves, HostAlone, HostFrame, ReportInv
<1>50. CASE HostReports
  BY <1>50, HostReportsEffect DEF HostAlone, HostFrame, ReportInv
<1> QED
  BY <1>1, <1>2, <1>3, <1>4, <1>5, <1>6, <1>7, <1>8, <1>9, <1>10, <1>11, <1>12,
         <1>13, <1>14, <1>15, <1>16, <1>17, <1>18, <1>19, <1>20, <1>21, <1>22,
         <1>23, <1>24, <1>25, <1>26, <1>27, <1>28, <1>29, <1>30, <1>31, <1>32,
         <1>33, <1>34, <1>35, <1>36, <1>37, <1>38, <1>39, <1>40, <1>41, <1>42,
         <1>43, <1>44, <1>45, <1>46, <1>47, <1>48, <1>49, <1>50
  DEF Next, PumpNext, CoordinatorNext, PublisherNext, HostNext, HostSeesWorkerStop,
      HostIsAskedToStop, HostHasEnded

-----------------------------------------------------------------------------
(***************************************************************************)
(* The invariant holds at first, every step keeps it, and what a run       *)
(* checks follows from it.                                                 *)
(***************************************************************************)
\* Every thread is yet to be started, and nothing has been handed over.
LEMMA WorkersInit ==
    ASSUME Init
    PROVE  WorkersInv
<1>1. Shapes
  <2>1. source \in SourceStates /\ slots \in [0 .. 1 -> Seq(Events)]
    BY EmptySeq DEF Init, SourceStates
  <2>2. emitted \in 0 .. MaxEvents /\ deadline \in {"unset", "set", "passed"}
    BY WorldWorkersAssumption DEF Init
  <2>3. ingress \in X!ExchangeStates
    BY DEF Init, X!InitialExchange, X!ExchangeStates
  <2>4. exchange \in ChannelStates
    BY DEF Init, ChannelStates, CompletionStates, NoPlan, NoCompletion, Reports
  <2>5. outbound \in BufferStates
    <3>1. 0 \in OutboundSlots
      BY OutboundSlotsAssumption
    <3> QED
      BY <3>1, EmptySeq DEF Init, InitialOutbound, BufferStates, SlotStates
  <2>6. flags \in Flags
    BY DEF Init, Flags
  <2>7. pump \in PumpStates /\ pump.pc = "new"
    BY EmptySeq DEF Init, PumpStates, PumpPcs, Reports, StopReasons
  <2>8. coordinator \in CoordinatorStates /\ coordinator.pc = "new"
    BY DEF Init, CoordinatorStates, CoordinatorPcs, Reports, StopReasons
  <2>9. publisher \in PublisherStates
    BY DEF Init, PublisherStates, PublisherPcs, StopReasons
  <2>10. host \in HostStates
    BY DEF Init, HostStates, HostPcs, Results
  <2>11. consumed \in Seq(Events) /\ sealed \in Seq(Nat) /\ submitted \in Seq(Nat)
    BY EmptySeq DEF Init
  <2> QED
    BY <2>1, <2>2, <2>3, <2>4, <2>5, <2>6, <2>7, <2>8, <2>9, <2>10, <2>11 DEF Shapes
<1>2. HostInv
  BY DEF Init, X!InitialExchange, InitialOutbound, HostInv, DrainSteps, DrainedSteps
<1>3. ClaimInv
  BY DEF Init, X!InitialExchange, ClaimInv, WriteSteps, ReadSteps
<1>4. \A s \in 0 .. 1 : slots[s] = << >>
  BY DEF Init
<1>5. Len(<< >>) = 0 /\ SlotCapacity \in Nat \ {0}
  BY WorldWorkersAssumption
<1>6. ContentInv
  <2>1. \A s \in 0 .. 1 : Len(slots[s]) <= SlotCapacity
    BY <1>4, <1>5
  <2> QED
    BY <2>1, <1>4 DEF Init, ContentInv, X!InitialExchange
<1>7. EventInv
  <2>1. /\ consumed = << >> /\ Unread = << >> /\ slots[ingress.write] = << >>
        /\ pump.batch = << >> /\ source.queue = << >> /\ emitted = 0
    BY <1>4 DEF Init, Unread, X!InitialExchange
  <2>2. [i \in 1 .. 0 |-> i] = << >>
    OBVIOUS
  <2>3. << >> \o << >> = << >>
    BY ConcatEmptySeq, EmptySeq
  <2>4. EventsInOrder
    BY <2>1, <2>2, <2>3, EventsHeldIsHeld DEF EventsInOrder, Held
  <2>5. Len(consumed) <= emitted
    BY <2>1, <1>5
  <2> QED
    BY <2>4, <2>5 DEF EventInv, OkInv, Init
<1>8. TurnInv
  BY DEF Init, TurnInv, PumpAtWork, NoPlan, NoCompletion
<1>9. FullInv
  BY WorldWorkersAssumption
  DEF Init, FullInv, EarlyEpoch, X!InitialExchange, NoCompletion
<1>10. EpochInv
  BY <1>5, WorldWorkersAssumption DEF Init, EpochInv, EarlyEpoch, ReadSteps
<1>11. EndInv
  BY DEF Init, EndInv, NoCompletion
<1>12. outbound.ready = << >> /\ sealed = << >> /\ submitted = << >> /\ publisher.pc = "new"
  BY DEF Init, InitialOutbound
<1>13. BufferInv
  <2>1. ReadyInv(outbound.ready, outbound.state)
    BY <1>12, <1>5 DEF ReadyInv
  <2>2. \A s \in OutboundSlots : outbound.state[s] = "Writing" <=> s = 0
    BY DEF Init, InitialOutbound
  <2>3. \A s \in OutboundSlots : outbound.records[s] = 0 /\ outbound.epoch[s] = 0
    BY DEF Init, InitialOutbound
  <2>4. /\ outbound.write = 0 /\ outbound.writeActive /\ ~ outbound.readClaim
        /\ outbound.lastSealed = 0
    BY DEF Init, InitialOutbound
  <2>5. coordinator.pc = "new"
    BY DEF Init
  <2> QED
    BY <1>12, <2>1, <2>2, <2>3, <2>4, <2>5, ZeroEpoch DEF BufferInv
<1>14. BatchInv
  BY <1>12, <1>5 DEF BatchInv, InHand
<1>15. PublisherInv /\ ReportInv
  BY DEF Init, PublisherInv, ReportInv
<1> QED
  BY <1>1, <1>2, <1>3, <1>6, <1>7, <1>8, <1>9, <1>10, <1>11, <1>13, <1>14, <1>15
  DEF WorkersInv

\* One step of any thread.
LEMMA WorkersStep ==
    ASSUME WorkersInv, [Next]_vars
    PROVE  WorkersInv'
<1>1. /\ Shapes /\ HostInv /\ ClaimInv /\ ContentInv /\ EventInv /\ TurnInv /\ FullInv
      /\ EpochInv /\ EndInv /\ BufferInv /\ BatchInv /\ PublisherInv /\ ReportInv
  BY DEF WorkersInv
<1>2. Shapes' /\ HostInv' /\ ClaimInv' /\ ContentInv'
  BY <1>1, ShapesKept, HostOrderKept, ClaimsKept, ContentKept
<1>3. OkInv' /\ EventsInOrder' /\ (Len(consumed) <= emitted)'
  BY <1>1, OkKept, EventsKept, ConsumedKept DEF EventInv
<1>4. TurnInv' /\ FullInv' /\ EpochInv' /\ EndInv'
  BY <1>1, TurnKept, FullKept, EpochKept, EndKept
<1>5. BufferInv' /\ BatchInv' /\ PublisherInv' /\ ReportInv'
  BY <1>1, BufferKept, BatchKept, PublisherKept, ReportKept
<1> QED
  BY <1>2, <1>3, <1>4, <1>5 DEF WorkersInv, EventInv

\* The invariant holds in every behaviour of the four threads.
THEOREM WorkersAreSafe == Spec => []WorkersInv
<1>1. Init => WorkersInv
  BY WorkersInit
<1>2. WorkersInv /\ [Next]_vars => WorkersInv'
  BY WorkersStep
<1> QED
  BY <1>1, <1>2, PTL DEF Spec

\* The slots that wait to be read are three at most, being all different.
LEMMA ReadyIsShort ==
    ASSUME NEW q \in Seq(OutboundSlots), NEW st, ReadyInv(q, st)
    PROVE  q \in UNION {[1 .. n -> OutboundSlots] : n \in 0 .. 3}
<1> DEFINE n == Len(q)
<1>1. n \in Nat /\ q \in [1 .. n -> OutboundSlots]
  BY LenProperties
<1>2. \A i, j \in 1 .. n : q[i] = q[j] => i = j
  BY DEF ReadyInv
<1> HIDE DEF n
<1>3. n <= 3
  <2> SUFFICES ASSUME n > 3 PROVE FALSE
    BY <1>1
  <2>1. 1 \in 1 .. n /\ 2 \in 1 .. n /\ 3 \in 1 .. n /\ 4 \in 1 .. n
    BY <1>1
  <2>2. /\ q[1] \in 0 .. 2 /\ q[2] \in 0 .. 2 /\ q[3] \in 0 .. 2 /\ q[4] \in 0 .. 2
    BY <1>1, <2>1, OutboundSlotsAssumption
  <2>3. /\ q[1] # q[2] /\ q[1] # q[3] /\ q[1] # q[4]
        /\ q[2] # q[3] /\ q[2] # q[4] /\ q[3] # q[4]
    BY <1>2, <2>1
  <2> QED
    BY <2>2, <2>3
<1>4. n \in 0 .. 3
  BY <1>1, <1>3
<1> QED
  BY <1>1, <1>4

\* Epochs stay below the bound that the plan and the batches are typed with.
LEMMA EpochBound ==
    ASSUME WorkersInv
    PROVE  /\ coordinator.epoch \in 1 .. MaxEpoch
           /\ exchange.plan \in 0 .. MaxEpoch
<1> DEFINE a == Len(consumed)
           e == coordinator.epoch
           p == exchange.plan
<1>1. /\ e \in Nat \ {0} /\ p \in Nat /\ a \in Nat /\ emitted \in 0 .. MaxEvents
      /\ MaxTicks \in Nat /\ MaxEvents \in Nat
  BY LenProperties, WorldWorkersAssumption
  DEF WorkersInv, Shapes, CoordinatorStates, ChannelStates
<1>2. /\ a <= emitted /\ e <= MaxTicks + 2 + a
      /\ p # 0 => p <= e
  BY DEF WorkersInv, EventInv, EpochInv, TurnInv, NoPlan
<1> HIDE DEF a, e, p
<1>3. e \in 1 .. MaxTicks + MaxEvents + 3 /\ p \in 0 .. MaxTicks + MaxEvents + 3
  BY <1>1, <1>2
<1> QED
  BY <1>3 DEF MaxEpoch, e, p

\* The type invariant follows from the shapes and the bounds.
LEMMA WorkersTypes ==
    ASSUME WorkersInv
    PROVE  TypeOK
<1>1. /\ Shapes /\ ContentInv /\ BufferInv
  BY DEF WorkersInv
<1>2. outbound \in OutboundStates(MaxEpoch, 1)
  <2>1. /\ outbound \in BufferStates
        /\ outbound.ready \in Seq(OutboundSlots)
        /\ outbound.epoch \in [OutboundSlots -> Nat]
        /\ outbound.records \in [OutboundSlots -> Nat]
        /\ outbound.lastSealed \in Nat
    BY <1>1 DEF Shapes, BufferStates
  <2>2. outbound.ready \in UNION {[1 .. n -> OutboundSlots] : n \in 0 .. 3}
    BY <1>1, <2>1, ReadyIsShort DEF BufferInv
  <2>3. MaxEpoch \in Nat
    BY WorldWorkersAssumption DEF MaxEpoch
  <2>4. outbound.epoch \in [OutboundSlots -> 0 .. MaxEpoch]
    BY <1>1, <2>1, <2>3 DEF BufferInv
  <2>5. outbound.records \in [OutboundSlots -> 0 .. 1]
    BY <1>1, <2>1 DEF BufferInv
  <2>6. outbound.lastSealed \in 0 .. MaxEpoch
    BY <1>1, <2>1, <2>3 DEF BufferInv
  <2> QED
    BY <2>1, <2>2, <2>4, <2>5, <2>6 DEF BufferStates, OutboundStates
<1>3. /\ pump.pc \in PumpPcs /\ pump.reason \in StopReasons
      /\ coordinator.pc \in CoordinatorPcs /\ coordinator.reason \in StopReasons
      /\ publisher.pc \in PublisherPcs /\ publisher.reason \in StopReasons
      /\ host.result \in Results
  BY <1>1 DEF Shapes, PumpStates, CoordinatorStates, PublisherStates, HostStates
<1>4. /\ source \in [queue : Seq(Events), closed : BOOLEAN]
      /\ emitted \in 0 .. MaxEvents
      /\ ingress \in X!ExchangeStates
      /\ \A s \in 0 .. 1 : slots[s] \in Seq(Events) /\ Len(slots[s]) <= SlotCapacity
      /\ flags \in Flags
      /\ deadline \in {"unset", "set", "passed"}
  BY <1>1 DEF Shapes, SourceStates, ContentInv
<1> QED
  BY <1>2, <1>3, <1>4, EpochBound DEF TypeOK

\* No slot of either double buffer is in the hands of two threads: the claim the
\* pump commits under is the current one, the coordinator reads the other ingress
\* slot, and the batch the publisher reads is not the one being written.
THEOREM BuffersAreNeverShared == Spec => []BuffersNeverShared
<1>1. WorkersInv => BuffersNeverShared
  <2> SUFFICES ASSUME WorkersInv PROVE BuffersNeverShared
    OBVIOUS
  <2>1. TypeOK
    BY WorkersTypes
  <2>2. SlotsNeverShared
    <3>1. ClaimInv /\ ingress.write \in 0 .. 1
      BY DEF WorkersInv, Shapes, X!ExchangeStates
    <3>2. 1 - ingress.write # ingress.write
      BY <3>1
    <3> QED
      BY <3>1, <3>2
      DEF SlotsNeverShared, ClaimInv, WriteSteps, ReadSteps, X!MatchesActiveWrite
  <2>3. OutboundNeverShared
    BY DEF WorkersInv, BufferInv, OutboundNeverShared
  <2> QED
    BY <2>1, <2>2, <2>3 DEF BuffersNeverShared
<1> QED
  BY <1>1, WorkersAreSafe, PTL

\* Sequences that agree up to a length: the shorter one is a prefix.
LEMMA AgreeingPrefix ==
    ASSUME NEW S, NEW s \in Seq(S), NEW t \in Seq(S), Len(s) <= Len(t),
           \A i \in 1 .. Len(s) : s[i] = t[i]
    PROVE  IsPrefix(s, t)
<1> DEFINE n == Len(s)
           a == SubSeq(s, 1, n)
           b == SubSeq(t, 1, n)
<1>1. n \in Nat /\ Len(t) \in Nat
  BY LenProperties
<1>2. \A i \in 1 .. n : s[i] \in S /\ t[i] \in S
  BY <1>1, ElementOfSeq
<1>3. n \in Int /\ 1 \in Int /\ (IF 1 <= n THEN n - 1 + 1 ELSE 0) = n
  BY <1>1
<1>4. a \in Seq(S) /\ Len(a) = n /\ \A i \in 1 .. n - 1 + 1 : a[i] = s[1 + i - 1]
  BY <1>2, <1>3, SubSeqProperties
<1>5. b \in Seq(S) /\ Len(b) = n /\ \A i \in 1 .. n - 1 + 1 : b[i] = t[1 + i - 1]
  BY <1>2, <1>3, SubSeqProperties
<1> HIDE DEF a, b
<1>6. \A i \in 1 .. n : a[i] = b[i]
  <2> TAKE i \in 1 .. n
  <2>1. i \in 1 .. n - 1 + 1 /\ 1 + i - 1 = i
    BY <1>1
  <2> QED
    BY <1>4, <1>5, <2>1
<1>7. a = b
  BY <1>4, <1>5, <1>6, SeqEqual
<1> QED
  BY <1>7 DEF IsPrefix, a, b

\* Neither stream is reordered or repeated: every event the runtime handed over
\* was handled once or waits in one place, in order across slot swaps, and the
\* batches reach the gateway in the order they were sealed.
THEOREM StreamsStayInOrder == Spec => []StreamsInOrder
<1>1. WorkersInv => StreamsInOrder
  <2> SUFFICES ASSUME WorkersInv PROVE StreamsInOrder
    OBVIOUS
  <2>1. Shapes /\ BatchInv /\ EventsInOrder
    BY DEF WorkersInv, EventInv
  <2>2. BatchesInOrder
    <3> DEFINE N == Len(sealed)
               m == Len(submitted)
               n == Len(outbound.ready)
    <3>1. /\ N \in Nat /\ m \in Nat /\ n \in Nat /\ InHand \in 0 .. 1
          /\ N = m + InHand + n
      BY <2>1, BatchCounts DEF BatchInv
    <3>2. sealed \in Seq(Nat) /\ submitted \in Seq(Nat)
      BY <2>1, BatchCounts
    <3>3. \A i \in 1 .. m : submitted[i] = sealed[i]
      BY <2>1 DEF BatchInv
    <3> HIDE DEF N, m, n
    <3>4. m <= N
      BY <3>1
    <3> QED
      BY <3>2, <3>3, <3>4, AgreeingPrefix DEF BatchesInOrder, N, m
  <2> QED
    BY <2>1, <2>2 DEF StreamsInOrder
<1> QED
  BY <1>1, WorkersAreSafe, PTL

\* A shutdown reported Completed handled every event the runtime handed over, and
\* no worker of it had failed: ShutdownResult looks at three stop reasons only.
THEOREM CompletedHasDrained == Spec => []CompletedMeansDrained
<1>1. WorkersInv => CompletedMeansDrained
  <2> SUFFICES ASSUME WorkersInv, host.result = "Completed"
               PROVE  /\ consumed = [i \in 1 .. emitted |-> i]
                      /\ \A reason \in {pump.reason, coordinator.reason, publisher.reason} :
                             reason = "Completed"
    BY DEF CompletedMeansDrained
  <2>1. /\ pump.reason = "Completed" /\ coordinator.reason = "Completed"
        /\ publisher.reason = "Completed"
    BY DEF WorkersInv, ReportInv
  <2>2. /\ coordinator.ok
        /\ slots[ingress.write] = << >> /\ slots[1 - ingress.write] = << >>
        /\ pump.batch = << >> /\ source.queue = << >>
    BY <2>1 DEF WorkersInv, EndInv, PumpDone, SourceDone
  <2>3. Unread = << >>
    BY <2>2 DEF Unread
  <2>4. consumed \in Seq(Events)
    BY DEF WorkersInv, Shapes
  <2>5. consumed \o << >> = consumed
    BY <2>4, ConcatEmptySeq
  <2>6. EventsHeld = consumed
    BY <2>2, <2>3, <2>5, EventsHeldIsHeld DEF Held
  <2> QED
    BY <2>1, <2>2, <2>6 DEF WorkersInv, EventInv, EventsInOrder
<1> QED
  BY <1>1, WorkersAreSafe, PTL

\* A publisher that left because the finished buffer was empty, after gameplay had
\* stopped in time, submitted every batch that was sealed.
THEOREM EmptyHasSubmittedAll == Spec => []EmptyMeansAllSubmitted
<1>1. WorkersInv => EmptyMeansAllSubmitted
  <2> SUFFICES ASSUME WorkersInv, host.gameplayStopped,
                      publisher.reason = "Completed", publisher.report = "Empty"
               PROVE  submitted = sealed
    BY DEF EmptyMeansAllSubmitted
  <2>1. Shapes /\ BatchInv
    BY DEF WorkersInv
  <2>2. outbound.ready = << >> /\ publisher.pc = "end"
    BY DEF WorkersInv, PublisherInv
  <2>3. InHand = 0 /\ Len(outbound.ready) = 0
    BY <2>2 DEF InHand
  <2>4. sealed \in Seq(Nat) /\ submitted \in Seq(Nat)
    BY <2>1, BatchCounts
  <2>5. Len(submitted) = Len(sealed)
    <3> DEFINE N == Len(sealed)
               m == Len(submitted)
    <3>1. N \in Nat /\ m \in Nat /\ N = m + 0 + 0
      BY <2>1, <2>3, <2>4, LenProperties DEF BatchInv
    <3> HIDE DEF N, m
    <3>2. m = N
      BY <3>1
    <3> QED
      BY <3>2 DEF N, m
  <2>6. \A i \in 1 .. Len(submitted) : submitted[i] = sealed[i]
    BY <2>1 DEF BatchInv
  <2> QED
    BY <2>4, <2>5, <2>6, SeqEqual
<1> QED
  BY <1>1, WorkersAreSafe, PTL
=============================================================================
