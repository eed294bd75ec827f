--------------------------- MODULE MCAuditHistory ---------------------------
(* Instances of AuditHistory for TLC.                                       *)
EXTENDS AuditHistory, TLC

MCOptions == [selected |-> {"ssh"}, noFail |-> FALSE, noDrift |-> FALSE, noHistory |-> FALSE]

\* A plain audit, one whose filter names no check and that does not look for drift,
\* and one of a check that an empty configuration passes, without the history.
MCInvocations == {MCOptions,
                  [MCOptions EXCEPT !.selected = {}, !.noDrift = TRUE],
                  [MCOptions EXCEPT !.selected = {"snmp"}, !.noHistory = TRUE]}

\* Device 1 comes and goes; device 2 is always in order.
MCFleets == {<<{"ssh", "snmp"}, {"ssh", "snmp"}>>, <<{}, {"ssh", "snmp"}>>}

MCSymmetry == Permutations(Audits)

=============================================================================
