CONSTANTS
    MaxTries = 6
    MaxStarts = 2
    Services = {s1, s2}
    Nets = {n1, n2}
    Gets = {g1}
    MaxEvents = 4
    BandwidthClients = {ui, notification}
    MaxCounter = 1
    MaxReports = 3
    MaxTasks = 1
    Peers = {p1, p2, p3}
    Clients = {c1}
    Methods = {"none", "password"}
    DestLen = 18
    AppendSource = FALSE
    Hosts = {"h"}
    Subnets = {"s"}
    Urls = {"u", "v"}
    User = "user"
    Files <- RuleFiles
    MaxDepth = 2
    Failed = Failed
SPECIFICATION Spec
CHECK_DEADLOCK FALSE
INVARIANTS
    HandoverRight
    NetworkRight
    TrafficRight
    ListenerRight
    SocksRight
    AclRight
PROPERTIES
    EverythingEnds
