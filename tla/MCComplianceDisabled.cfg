SPECIFICATION Spec
CONSTANTS
    Lines <- MCLines
    MaxLines = 5
    Interfaces = {"e1", "e2"}
    Addressed = {"e2"}
    AllowedVlans = {"10"}
    Servers = {"ntp1"}
    MaxMinutes = 10
    Matching <- MCMatching
INVARIANT
    DisabledTimeoutFails
CHECK_DEADLOCK FALSE
