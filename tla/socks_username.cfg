CONSTANTS
    Clients = {c1, c2}
    Methods = {"none", "password"}
    DestLen = 6
    AppendSource = TRUE
SPECIFICATION Spec
CHECK_DEADLOCK FALSE
INVARIANTS
    OwnUsername
