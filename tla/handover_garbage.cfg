CONSTANTS
    MaxTries = 6
    MaxStarts = 1
SPECIFICATION Spec
CHECK_DEADLOCK FALSE
INVARIANTS
    DeviceIsTunnel
