\* The deployed shape: several windows for a trigger, then a cooldown. A run
\* ends when MaxWindows windows were evaluated, so it may stop.
SPECIFICATION Spec
CONSTANTS
    ConsecutivePositiveWindows = 3
    CooldownWindows = 2
    MaxWindows = 10
INVARIANTS TypeOK DetectionsExact TwinsAgree
CHECK_DEADLOCK FALSE
