CONSTANTS
    Data = {x, y}
    Junk = Junk
    Block = 2
    Mtu = 3
    Num = 2
SPECIFICATION Spec
INVARIANTS
    AssertBuffer
    PointersStayValid
PROPERTIES
    IsFifo
