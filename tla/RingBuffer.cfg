\* Frames that wrap, that fill and that exceed the storage. A run ends when
\* MaxSamples samples were captured, so it may stop.
SPECIFICATION Spec
CONSTANTS
    Capacity = 4
    Readers = {kws, streaming}
    PushSizes = {3, 5}
    Counts = {2, 4}
    MaxSamples = 11
INVARIANTS TypeOK PositionsAgree InCaptureOrder
PROPERTY ImplementsFifo
CHECK_DEADLOCK FALSE
