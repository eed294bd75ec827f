-------------------------- MODULE CollectionContract --------------------------
(***************************************************************************)
(* What "collect many" promises its caller, whatever the transport and the  *)
(* concurrency behind it (collection.py:8-13): every device of the input    *)
(* gets one verdict, a verdict is never revised, "timeout" is a verdict     *)
(* only when the caller gave a budget, and the call returns after every     *)
(* device has its verdict, the list being in input order.                   *)
(***************************************************************************)
CONSTANTS
    Positions,      \* the positions of the input list
    HasBudget       \* the caller passed a timeout

VARIABLES
    verdict,        \* the verdict of each position, "none" while undecided
    back            \* the call has returned

contractVars == <<verdict, back>>

Verdicts == {"ok", "error"} \cup (IF HasBudget THEN {"timeout"} ELSE {})

Init ==
    /\ verdict = [p \in Positions |-> "none"]
    /\ back = FALSE

Decide(p) ==
    /\ ~back
    /\ verdict[p] = "none"
    /\ \E v \in Verdicts : verdict' = [verdict EXCEPT ![p] = v]
    /\ UNCHANGED back

Return ==
    /\ ~back
    /\ \A p \in Positions : verdict[p] # "none"
    /\ back' = TRUE
    /\ UNCHANGED verdict

Next == (\E p \in Positions : Decide(p)) \/ Return

Spec == Init /\ [][Next]_contractVars /\ WF_contractVars(Next)

=============================================================================
