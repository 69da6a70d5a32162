CONSTANTS
    Clients = {ui}
    MaxCounter = 2
    MaxReports = 2
    MaxTasks = 1
SPECIFICATION Spec
CHECK_DEADLOCK FALSE
INVARIANTS
    NoDataLoss
