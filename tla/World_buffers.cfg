\* Two events through ingress slots of two, two ticks over two outbound slots:
\* full, partly filled and empty slots, and a coordinator that meets a buffer
\* without a free slot.
SPECIFICATION Spec
CONSTANTS
    MaxEvents = 2
    SlotCapacity = 2
    BatchSize = 2
    MaxTicks = 2
    MayFail = TRUE
    OutboundSlots = {0, 1}
INVARIANTS BuffersNeverShared StreamsInOrder CompletedMeansDrained EmptyMeansAllSubmitted
