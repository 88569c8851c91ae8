\* Every interleaving of KwsTask and StreamingTask.
SPECIFICATION Spec
CONSTANTS
    ConsecutivePositiveWindows = 2
    CooldownWindows = 2
    QueueLength = 2
    BufferFrames = 3
    WindowFrames = 2
    PreRollFrames = 1
    MaxExtraFrames = 2
INVARIANT NeverStranded
CHECK_DEADLOCK FALSE
