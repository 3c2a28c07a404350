CONSTANTS
    Producers = {p1, p2, p3}
    Items = {v1, v2}
    Capacity = 2
    NoItem = NoItem
    MaxPushes = 5
SPECIFICATION MCSpec
SYMMETRY QueueSymmetry
INVARIANT QueueIsSound
PROPERTY ImplementsFifo
