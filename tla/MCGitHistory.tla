---------------------------- MODULE MCGitHistory ----------------------------
(* An instance of GitHistory for TLC.                                       *)
EXTENDS GitHistory, TLC

CONSTANTS r1, r2, p1, p2

\* Both devices in order; one of them reconfigured, the other unreachable.
MCOffers == {(r1 :> "A") @@ (r2 :> "A"), (r1 :> "B") @@ (r2 :> "absent")}

MCSymmetry == Permutations(Procs)

=============================================================================
