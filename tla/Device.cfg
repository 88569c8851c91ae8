\* One window more than needed for a second evaluation, an interrupted erase
\* and a failed boot. The bounds stop the capture, and a boot may end without
\* any task: the run may stop.
SPECIFICATION Spec
CONSTANTS
    MaxFrames = 35
    MaxWindows = 2
    MaxFaults = 2
INVARIANTS TypeOK FeaturesAsExtracted LoadsUnlessArenaTooSmall
PROPERTIES FlashRepaired SizesLogged ImplementsFirmware
CHECK_DEADLOCK FALSE
