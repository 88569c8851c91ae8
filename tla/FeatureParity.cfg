\* Is the tensor the one the model was trained on?
SPECIFICATION Spec
CONSTANTS
    MaxFrames = 34
    MaxWindows = 1
    MaxFaults = 0
INVARIANT FeaturesAsTrained
CHECK_DEADLOCK FALSE
