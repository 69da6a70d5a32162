CONSTANTS
    Clients = {c1}
    NoClient = NoClient
    Wnd = 3
    RecvBuf = 3
    SndBuf = 2
SPECIFICATION FairSpec
CHECK_DEADLOCK FALSE
INVARIANTS
    CallbacksAreLive
    NoUseAfterFree
    ErrAbrtIffAborted
    WindowIsRoom
    PendingIsQueued
    NothingStuck
PROPERTIES
    FlushBeforeClose
    ClosedSideDrains
