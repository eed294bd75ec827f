SPECIFICATION Spec
CONSTANTS
    N = 1
    Devices = {1}
    Snippet <- MCSnippet
    Removes <- MCRemoves
    Hidden = {}
    Baselines <- MCBaselines
    Foreign = {}
    Faults = {"send"}
    Modes <- MCAskingOnly
INVARIANTS
    FailureIsRolledBack
