\* Three sessions and slots, two places in the queue.
\* Memory may run short at any time, and the pump stops once it learns that the
\* handoff is closed.
SPECIFICATION FairSpec
CONSTANTS
    Sessions = {k1, k2, k3}
    MaxSessionCount = 3
    EventQueueCapacity = 2
    BatchSize = 3
INVARIANTS DeferralIsSound NoLostWakeup
PROPERTIES ImplementsChannel EndIsDelivered CloseReachesPump
CHECK_DEADLOCK FALSE
