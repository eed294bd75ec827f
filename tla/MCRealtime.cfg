SPECIFICATION Spec
CONSTANTS
    N = 1
    Names = {1}
    Contents = {"trap", "poll"}
    RateLimit = 2
    DedupWindow = 2
    Retries = 2
    Handlers = {h1, h2}
    Configs = {"A", "B"}
    Cuts = {"cut"}
    Options <- MCOptions
    PollInterval = 1
INVARIANTS
    DropsAreExcused
PROPERTIES
    AlertsSpaced
    DriftExplained
    DriftReported
