---------------------------- MODULE MCRemediation ----------------------------
(* Instances of Remediation for TLC.                                        *)
EXTENDS Remediation

\* A description, and an address that replaces the old one.
MCSnippet == <<"desc", "addr">>
MCRemoves == [l \in {"desc", "addr"} |-> IF l = "addr" THEN {"old"} ELSE {}]
MCBaselines == {{"old"}, {"desc", "addr"}}

MCForeign == {"ntp"}

\* A run that asks, one that neither asks nor skips, the same with a thread for each
\* device, and a dry run.
MCAsking == [dryRun |-> FALSE, autoApprove |-> FALSE, forceApply |-> FALSE, workers |-> 1]
MCForced == [MCAsking EXCEPT !.autoApprove = TRUE, !.forceApply = TRUE]
MCParallel == [MCForced EXCEPT !.workers = 2]
MCDry == [MCAsking EXCEPT !.dryRun = TRUE]
MCAllModes == {MCAsking, MCForced, MCParallel, MCDry}
MCAskingOnly == {MCAsking}

=============================================================================
