\* Slots of two events: a terminal drain meets full, partly filled and empty slots.
SPECIFICATION FairSpec
CONSTANTS
    MaxEvents = 2
    SlotCapacity = 2
    BatchSize = 2
    MaxTicks = 1
    MayFail = TRUE
    OutboundSlots = {0, 1}
PROPERTIES ShutdownEnds WorkerStopEndsHost
