\* One gateway; two accept slots, two connections, room for one session.
CONSTANTS
    Gateways = {g1}
    MaxInFlight = 1
    AcceptSlotCount = 2
    MaxSessions = 1
    MaxConnections = 2
\* A server that is destroyed has nothing left to do.
CHECK_DEADLOCK FALSE
SPECIFICATION ServerFairSpec
INVARIANTS
    NoSubmissionInStoppedServer
    StateOutlivesUsers
    TeardownIsOrderly
    SlotAndActorAgree
PROPERTY CallsReturn
