SPECIFICATION Spec
CONSTANTS
    Jobs = {1, 2, 3}
    N = 3
    NameOf <- MCSameName
    MaxAttempts = 2
    NumSlots = 2
    Faults = {"transient", "auth", "fatal", "unlisted"}
    MaxWorkers = 2
    Timeout = 0
    MinWait = 1
    MaxClock = 0
INVARIANTS
    SessionsClosed
    OneSessionPerSnapshot
    ReturnedIsOwn
PROPERTIES
    RetryOnlyTransient
