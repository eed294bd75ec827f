SPECIFICATION Spec
CONSTANTS
    Jobs = {1, 2, 3}
    N = 3
    MaxAttempts = 2
    NumSlots = 1
    Faults = {"transient", "unlisted"}
    MaxWorkers = 2
    Timeout = 1
INVARIANTS
    SlotCoversConnection
PROPERTIES
    NoContactAfterBudget
    Termination
    ContractSpec
