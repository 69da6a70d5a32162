CONSTANTS
    Peers = {p1, p2, p3}
    Concurrent = TRUE
SPECIFICATION Spec
CHECK_DEADLOCK FALSE
INVARIANTS
    AcceptedAreClosed
