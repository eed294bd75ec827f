------------------------- MODULE RemediationContract -------------------------
(***************************************************************************)
(* What remediate_devices promises its caller (remediate.py:621-640): one   *)
(* result per device, each what became of it; a run that stops at its first *)
(* failure leaves every later device alone; a dry run changes none.  Nothing *)
(* is changed, and nothing more becomes of any device, once the call has    *)
(* come back, be it with the list or with an exception.                     *)
(***************************************************************************)
EXTENDS Naturals

CONSTANTS
    N,              \* the devices are 1..N, in input order
    Statuses,       \* what may become of a device, "raised" for an exception
    Nothing         \* the account of a device this run has not changed

VARIABLES
    live,           \* the run is not a dry run
    inTurn,         \* it takes one device after the other
    outcome,        \* what became of each device, "none" so far
    account,        \* what this run did to it
    reported,       \* the list returned, "none" before
    back            \* "no", "list" or "exception"

contractVars == <<live, inTurn, outcome, account, reported, back>>

Init ==
    /\ live \in BOOLEAN
    /\ inTurn \in BOOLEAN
    /\ outcome = [d \in 1..N |-> "none"]
    /\ account = [d \in 1..N |-> Nothing]
    /\ reported = [d \in 1..N |-> "none"]
    /\ back = "no"

\* The run goes on after such an outcome.
GoesOn(o) == o \in {"success", "dry_run", "skipped"} \/ (~live /\ o \notin {"none", "raised"})

\* It is the turn of d, which is not over.
Turn(d) ==
    /\ back = "no"
    /\ outcome[d] = "none"
    /\ inTurn => \A e \in 1..(d - 1) : GoesOn(outcome[e])

Change(d) ==
    /\ Turn(d) /\ live
    /\ account' = [account EXCEPT ![d] = account'[d]]
    /\ UNCHANGED <<live, inTurn, outcome, reported, back>>

\* A device that was changed is neither "skipped" nor part of a dry run.
Conclude(d) ==
    /\ Turn(d)
    /\ \E s \in Statuses \ {"none"} :
          /\ s \in {"dry_run", "skipped"} => account[d] = Nothing
          /\ outcome' = [outcome EXCEPT ![d] = s]
    /\ UNCHANGED <<live, inTurn, account, reported, back>>

\* A device nothing became of was left alone because an earlier one failed.
LeftAlone(d) ==
    /\ inTurn /\ live
    /\ outcome[d] = "none" /\ account[d] = Nothing
    /\ \E e \in 1..(d - 1) : outcome[e] \in {"failed", "rolled_back"}

Return ==
    /\ back = "no"
    /\ \A d \in 1..N : outcome[d] \notin {"none", "raised"} \/ LeftAlone(d)
    /\ reported' = [d \in 1..N |-> IF outcome[d] = "none" THEN "skipped" ELSE outcome[d]]
    /\ back' = "list"
    /\ UNCHANGED <<live, inTurn, outcome, account>>

Raise ==
    /\ back = "no"
    /\ \E d \in 1..N : outcome[d] = "raised"
    /\ back' = "exception"
    /\ UNCHANGED <<live, inTurn, outcome, account, reported>>

Next == (\E d \in 1..N : Change(d) \/ Conclude(d)) \/ Return \/ Raise

Spec == Init /\ [][Next]_contractVars

=============================================================================
