SPECIFICATION Spec
CONSTANTS
    N = 2
    Devices = {1, 2}
    Snippet <- MCSnippet
    Removes <- MCRemoves
    Hidden = {}
    Baselines <- MCBaselines
    Foreign <- MCForeign
    Faults = {"connect", "crash", "read", "reject", "checkpoint", "nocopy", "send", "verify", "replace", "noreplace", "push", "uncleaned"}
    Modes <- MCAllModes
INVARIANTS
    CheckpointPredatesChange
    SessionsReleased
    ChangedOnlyWhenAllowed
    StopsAtFirstFailure
    RolledBackIsUndone
    RecoveryPath
    NothingInProgressAtExit
PROPERTIES
    ContractSpec
