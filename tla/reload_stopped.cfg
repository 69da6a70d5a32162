CONSTANTS
    Profiles = {plain}
    Invalid = {}
    Custom = {}
    NoProfile = NoProfile
    Jobs = {j1, j2}
    NoJob = NoJob
    Stops = {s1, s2}
    MaxTries = 0
    MayDeny = FALSE
    MaxRevokes = 1
CHECK_DEADLOCK FALSE
SPECIFICATION Spec
INVARIANT
    ReloadNeverStopped
