SPECIFICATION Spec
CONSTANTS
    Jobs = {1, 2}
    N = 2
    NameOf <- MCDistinct
    MaxAttempts = 2
    NumSlots = 1
    Faults = {"transient", "unlisted"}
    MaxWorkers = 1
    Timeout = 2
    MinWait = 1
    MaxClock = 3
INVARIANTS
    ConnectionsWithinWorkers
    QuiescentOnReturn
PROPERTIES
    
    Termination
    ContractSpec
