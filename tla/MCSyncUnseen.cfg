SPECIFICATION Spec
CONSTANTS
    Jobs = {1, 2}
    N = 2
    NameOf <- MCDistinct
    MaxAttempts = 1
    NumSlots = 1
    Faults = {}
    MaxWorkers = 1
    Timeout = 2
    MinWait = 1
    MaxClock = 3
PROPERTIES
    BudgetFromStart
