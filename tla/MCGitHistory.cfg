SPECIFICATION Spec
CONSTANTS
    r1 = r1
    r2 = r2
    p1 = p1
    p2 = p2
    Procs = {p1, p2}
    Files = {r1, r2}
    Keep = keep
    Configs = {"A", "B", "empty"}
    Offers <- MCOffers
    MaxCommands = 3
    MaxFailures = 1
SYMMETRY MCSymmetry
INVARIANTS
    CommittedWhole
    NothingIsLost
PROPERTIES
    QuietSaveIsAtHead
    RollbackRestores
