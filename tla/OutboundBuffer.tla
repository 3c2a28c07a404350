--------------------------- MODULE OutboundBuffer ---------------------------
(***************************************************************************)
(* WorldOutboundDoubleBuffer: two or three slots that the coordinator      *)
(* fills and seals and the publisher reads in the order they were sealed.  *)
(* Locked operations are operators on the record b.  A slot's records,     *)
(* recipients and payload bytes are abstracted to how many records it has. *)
(***************************************************************************)
EXTENDS Naturals, Sequences, FiniteSetsExt

CONSTANT OutboundSlots          \* slot indices 0 .. n - 1, n is 2 or 3

ASSUME OutboundSlotsAssumption == OutboundSlots \in {0 .. 1, 0 .. 2}

NoSlot == 3                     \* InvalidSlotIndex

SlotStates == {"Empty", "Writing", "Sealed", "Reading"}

OutboundStates(maxEpoch, maxRecords) ==
    [state : [OutboundSlots -> SlotStates],
     epoch : [OutboundSlots -> 0 .. maxEpoch],
     records : [OutboundSlots -> 0 .. maxRecords],
     ready : UNION {[1 .. n -> OutboundSlots] : n \in 0 .. 3},
     write : OutboundSlots, writeActive : BOOLEAN,
     readClaim : BOOLEAN, lastSealed : 0 .. maxEpoch,
     writesFinished : BOOLEAN, closed : BOOLEAN]

\* The constructor hands slot 0 to the writer.
InitialOutbound ==
    [state |-> [s \in OutboundSlots |-> IF s = 0 THEN "Writing" ELSE "Empty"],
     epoch |-> [s \in OutboundSlots |-> 0],
     records |-> [s \in OutboundSlots |-> 0],
     ready |-> << >>, write |-> 0, writeActive |-> TRUE,
     readClaim |-> FALSE, lastSealed |-> 0,
     writesFinished |-> FALSE, closed |-> FALSE]

\* Mutant: the slot the publisher still reads counts as free.
EmptySlots_OrReading(b) == {s \in OutboundSlots : b.state[s] \in {"Empty", "Reading"}}

EmptySlots(b) == {s \in OutboundSlots : b.state[s] = "Empty"}

\* The test every append, begin and seal makes without the mutex.
RefusesWrites(b) == b.closed \/ b.writesFinished

-----------------------------------------------------------------------------
\* WaitPrepareWrite waits for one of these, or for RefusesWrites.
WriteSlotAvailable(b) == b.writeActive \/ EmptySlots(b) # {}

PrepareWrite(b) ==
    IF b.writeActive THEN b
    ELSE LET s == Min(EmptySlots(b)) IN
         [b EXCEPT !.state[s] = "Writing", !.write = s, !.writeActive = TRUE]

\* BeginWriteBatch follows a successful WaitPrepareWrite, so its own search for
\* an empty slot has nothing to do.
MayBeginWriteBatch(b, epoch) ==
    /\ ~ RefusesWrites(b)
    /\ epoch > b.lastSealed
    /\ b.state[b.write] = "Writing"
    /\ b.epoch[b.write] = 0
    /\ b.records[b.write] = 0

BeginWriteBatch(b, epoch) == [b EXCEPT !.epoch[b.write] = epoch]

Append1(b) == [b EXCEPT !.records[b.write] = @ + 1]

\* The locked part of SealWrite; the caller has found writes not refused.
MaySealWrite(b, epoch) ==
    /\ b.writeActive
    /\ b.state[b.write] = "Writing"
    /\ epoch > b.lastSealed
    /\ b.epoch[b.write] \in {0, epoch}

\* Mutant: the sealed slot goes to the front of the ready queue.
SealWrite_Lifo(b, epoch) ==
    IF b.records[b.write] = 0
    THEN [b EXCEPT !.epoch[b.write] = 0]
    ELSE [b EXCEPT !.epoch[b.write] = epoch, !.state[b.write] = "Sealed",
                   !.lastSealed = epoch, !.writeActive = FALSE,
                   !.ready = <<b.write>> \o @]

\* An empty batch is not sealed: its slot stays with the writer.
SealWrite(b, epoch) ==
    IF b.records[b.write] = 0
    THEN [b EXCEPT !.epoch[b.write] = 0]
    ELSE [b EXCEPT !.epoch[b.write] = epoch, !.state[b.write] = "Sealed",
                   !.lastSealed = epoch, !.writeActive = FALSE,
                   !.ready = Append(@, b.write)]

-----------------------------------------------------------------------------
\* WaitAcquireRead waits for a ready slot, the end of writes, or Close.
ReadReady(b) == ~ b.closed /\ ~ b.readClaim /\ b.ready # << >>

Drained(b) == ~ b.closed /\ ~ b.readClaim /\ b.ready = << >> /\ b.writesFinished

AcquireRead(b) ==
    [b EXCEPT !.ready = Tail(@), !.readClaim = TRUE,
              !.state[Head(b.ready)] = "Reading"]

ReleaseRead(b, slot) ==
    [b EXCEPT !.records[slot] = 0, !.epoch[slot] = 0,
              !.state[slot] = "Empty", !.readClaim = FALSE]

FinishWrites(b) == [b EXCEPT !.writesFinished = TRUE]

Close(b) == [b EXCEPT !.closed = TRUE]

=============================================================================
