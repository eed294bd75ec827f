SPECIFICATION Spec
CONSTANTS
    Audits = {a1, a2}
    N = 2
    Checks = {"ssh", "snmp"}
    Invocations <- MCInvocations
    Fleets <- MCFleets
    Flaky = {1}
    Vacuous = {"snmp"}
    MaxRows = 6
SYMMETRY MCSymmetry
INVARIANT CollectionErrorsDoNotShadow
