---------------------- MODULE MCSessionActorScheduler ----------------------
(***************************************************************************)
(* SessionActorScheduler for TLC: a bound on the number of Enqueue calls,  *)
(* which is the only thing that keeps a behaviour going, and every key in  *)
(* the shard of one worker.                                                *)
(***************************************************************************)
EXTENDS SessionActorScheduler, TLC

CONSTANTS w1,           \* the worker of OneShard
          MaxEnqueues   \* bound on the Enqueue calls of a behaviour

VARIABLE enqueues       \* Enqueue calls made so far

OneShard == [a \in Actors |-> w1]

MCInit == Init /\ enqueues = 0

MCNext == \/ enqueues < MaxEnqueues /\ SomeEnqueue /\ enqueues' = enqueues + 1
          \/ Continue /\ UNCHANGED enqueues

MCSpec == MCInit /\ [][MCNext]_<<vars, enqueues>>

MCFairSpec == MCSpec /\ Fairness

\* Producers run the same code on the same data, so they are interchangeable.
ProducerSymmetry == Permutations(Producers)
=============================================================================
