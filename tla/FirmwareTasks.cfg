\* With no microphone and no model nothing ever happens, so the system may stop.
SPECIFICATION TimedSpec
CONSTANTS
    ConsecutivePositiveWindows = 3
    CooldownWindows = 2
    QueueLength = 2
    BufferFrames = 4
    WindowFrames = 3
    PreRollFrames = 2
    MaxExtraFrames = 3
INVARIANTS TypeOK NoDetectionDuringSession NeverStranded NoSocketLeak WireInOrder PreRollComplete
PROPERTIES ReturnsToListening RequestsServed
CHECK_DEADLOCK FALSE
