---------------------------- MODULE RoleExchange ----------------------------
(***************************************************************************)
(* WorldDoubleBufferRoleExchange: which of two slots the writer owns and   *)
(* which the reader owns.  Every operation of the class runs under one     *)
(* mutex, so it is one operator on the record x; the predicate an          *)
(* operation waits for is an operator of its own.  The read slot is always *)
(* the other slot, so only the write slot is kept.                         *)
(***************************************************************************)
EXTENDS Naturals

ExchangeStates ==
    [write : 0 .. 1, generation : Nat \ {0}, publishedEpoch : Nat,
     writeClaim : BOOLEAN, readClaim : BOOLEAN, readReady : BOOLEAN,
     swapPending : BOOLEAN, closed : BOOLEAN]

InitialExchange ==
    [write |-> 0, generation |-> 1, publishedEpoch |-> 0,
     writeClaim |-> FALSE, readClaim |-> FALSE, readReady |-> FALSE,
     swapPending |-> FALSE, closed |-> FALSE]

ReadSlot(x) == 1 - x.write

-----------------------------------------------------------------------------
\* WaitAcquireWrite waits for WriteReady or for Close, and gives up on a timeout.
WriteReady(x, minimumGeneration) ==
    ~ x.swapPending /\ ~ x.writeClaim /\ x.generation >= minimumGeneration

AcquireWrite(x) == [x EXCEPT !.writeClaim = TRUE]

MatchesActiveWrite(x, claim) ==
    /\ x.writeClaim
    /\ claim.slot = x.write
    /\ claim.generation = x.generation

ReleaseWrite(x) == [x EXCEPT !.writeClaim = FALSE]

-----------------------------------------------------------------------------
\* WaitSwap refuses an epoch that is not new, or a second swap at once.
MaySwap(x, epoch) == epoch > x.publishedEpoch /\ ~ x.swapPending

SwapReady(x) == ~ x.writeClaim /\ ~ x.readClaim /\ ~ x.readReady

Swap(x, epoch) ==
    [x EXCEPT !.write = 1 - @, !.generation = @ + 1,
              !.publishedEpoch = epoch, !.readReady = TRUE,
              !.swapPending = FALSE]

\* A wait that timed out, or found the exchange closed, withdraws its request.
AbandonSwap(x) == [x EXCEPT !.swapPending = FALSE]

-----------------------------------------------------------------------------
\* WaitAcquireRead succeeds on an open exchange whose published epoch is asked for.
MayAcquireRead(x, epoch) ==
    /\ ~ x.closed
    /\ x.readReady
    /\ ~ x.readClaim
    /\ x.publishedEpoch = epoch

AcquireRead(x) == [x EXCEPT !.readReady = FALSE, !.readClaim = TRUE]

ReleaseRead(x) == [x EXCEPT !.readClaim = FALSE]

Close(x) == [x EXCEPT !.closed = TRUE]

=============================================================================
