CONSTANTS
    Cmds = {sslocal, tun2socks}
    Callbacks = {tun2socks}
SPECIFICATION FairSpec
CHECK_DEADLOCK FALSE
INVARIANTS
    DeathIsReported
    FirstProcessKilled
PROPERTIES
    NoStartAfterClose
    ExitIsHandled
    CloseTerminatesUnlessLost
