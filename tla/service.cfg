CONSTANTS
    Profiles = {plain, rules, broken}
    Invalid = {broken}
    Custom = {rules}
    NoProfile = NoProfile
    Jobs = {j1, j2}
    NoJob = NoJob
    Stops = {s1, s2}
    MaxTries = 5
    MayDeny = FALSE
    MaxRevokes = 0
SPECIFICATION FairSpec
INVARIANTS
    StoppedIsClean
    ConnectedIsWhole
    StopConnectingFirst
    NoCrash
PROPERTIES
    NoResurrection
    HangIsForever
    StopCompletes
    ConnectingEnds
    ReloadReconnects
