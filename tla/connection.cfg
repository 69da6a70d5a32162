CONSTANTS
    MaxLives = 2
    MaxBinds = 2
    MaxChanges = 2
    MaxActs = 2
SPECIFICATION Spec
CHECK_DEADLOCK FALSE
INVARIANTS
    ChecksHold
    FreshView
