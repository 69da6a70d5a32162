CONSTANTS
    Cmds = {sslocal, tun2socks}
    Callbacks = {tun2socks}
SPECIFICATION FairSpec
CHECK_DEADLOCK FALSE
INVARIANT
    OtherwiseExited
