CONSTANTS
    Profiles = {plain}
    Invalid = {}
    Custom = {}
    NoProfile = NoProfile
    Jobs = {j1, j2}
    NoJob = NoJob
    Stops = {s1, s2}
    MaxTries = 0
    MayDeny = TRUE
    MaxRevokes = 1
SPECIFICATION FairSpec
CHECK_DEADLOCK FALSE
PROPERTIES
    RevocationTearsDown
