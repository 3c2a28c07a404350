------------------------ MODULE MCBoundedMpscQueue ------------------------
EXTENDS BoundedMpscQueue, TLC

CONSTANT MaxPushes   \* bound: slots reserved in a behaviour

\* Producers stop calling once enqueuePos has gone around MaxPushes / Capacity
\* times; calls under way go on.
MCNext == \/ SomeBeginPush /\ enqueuePos < MaxPushes
          \/ Continue

MCSpec == Init /\ [][MCNext]_vars

QueueSymmetry == Permutations(Producers) \cup Permutations(Items)

=============================================================================
