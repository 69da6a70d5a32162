CONSTANTS
    a = a
    b = b
    c = c
    dns1 = dns1
    dns2 = dns2
    web = web
    web1 = web1
    web2 = web2
    Locals = {a, b, c}
    Flows <- Shared
    NoFlow = NoFlow
    MaxCon = 2
    BufCap = 2
    Header = 2
    UdpMtu = 3
SPECIFICATION Spec
INVARIANTS
    RoutedRight
