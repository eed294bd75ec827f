----------------------------- MODULE Remediation -----------------------------
(***************************************************************************)
(* remediate_devices (remediate.py) over apply_config, and what the command *)
(* `audnet remediate` (cli.py) does with the results: one device after the  *)
(* other, stopping at the first live failure, or every device in a thread   *)
(* pool; then the exit code and the audit log.                              *)
(***************************************************************************)
EXTENDS RemediateDevice

CONSTANTS
    N               \* how many devices; Devices is 1..N, in input order

ASSUME PipelineAssumption ==
    /\ N \in Nat \ {0}
    /\ Devices = 1..N

VARIABLES
    main,           \* the caller: "running", "returned", "raised" or "exited"
    results,        \* status in the list returned, "none" while there is none
    futureRaised,   \* as_completed met a future with an exception
    logged,         \* the audit log of the run is on disk
    exitCode

callerVars == <<main, results, futureRaised, logged, exitCode>>
vars == <<devVars, callerVars>>

\* max_workers is 1, unless the caller asks for more.
Sequential == args.workers = 1

InProgress == {d \in Devices : step[d] \notin {"idle", "over"}}
\* Mutant: a device that was rolled back does not stop the pipeline.
SuccessfulUnlessFailed(st) == st # "failed"

Successful(st) == st \in {"success", "dry_run", "skipped"}

Init ==
    /\ DevInit
    /\ main = "running"
    /\ results = [d \in Devices |-> "none"]
    /\ futureRaised = FALSE
    /\ logged = FALSE
    /\ exitCode = 0

\* Sequential: the next device of the list once every earlier one has a result.
StartNext(d) ==
    /\ Sequential
    /\ main = "running"
    /\ \A e \in 1..(d - 1) : results[e] # "none"
    /\ results[d] = "none"
    /\ BeginDevice(d)
    /\ UNCHANGED callerVars

\* Mutant: a failed device is tried again.
TakeResultRetries(d) ==
    /\ Sequential
    /\ main = "running"
    /\ step[d] = "over" /\ results[d] = "none"
    /\ status[d] # "raised"
    /\ IF Successful(status[d]) \/ args.dryRun
       THEN /\ results' = [results EXCEPT ![d] = status[d]]
            /\ UNCHANGED <<step, status>>
       ELSE /\ step' = [step EXCEPT ![d] = "idle"]
            /\ status' = [status EXCEPT ![d] = "none"]
            /\ UNCHANGED results
    /\ UNCHANGED <<args, sessions, running, flash, before, added, approved, sent,
                   rollbackError, ours, fate, main, futureRaised, logged, exitCode>>

\* Sequential: take the result; a live failure gives the rest "skipped" and ends
\* the loop.
TakeResult(d) ==
    /\ Sequential
    /\ main = "running"
    /\ step[d] = "over" /\ results[d] = "none"
    /\ status[d] # "raised"
    /\ results' = IF Successful(status[d]) \/ args.dryRun
                  THEN [results EXCEPT ![d] = status[d]]
                  ELSE [e \in Devices |-> IF e < d THEN results[e]
                                          ELSE IF e = d THEN status[d] ELSE "skipped"]
    /\ UNCHANGED <<devVars, main, futureRaised, logged, exitCode>>

\* Sequential: an exception of apply_config goes straight through.
LetThrough(d) ==
    /\ Sequential
    /\ main = "running"
    /\ step[d] = "over" /\ status[d] = "raised"
    /\ main' = "raised"
    /\ UNCHANGED <<devVars, results, futureRaised, logged, exitCode>>

\* Parallel: a free thread of the pool takes the next device.
StartParallel(d) ==
    /\ ~Sequential
    /\ Cardinality(InProgress) < args.workers
    /\ \A e \in 1..(d - 1) : step[e] # "idle"
    /\ BeginDevice(d)
    /\ UNCHANGED callerVars

\* Parallel: as_completed yields a future; result() may raise, which ends the loop.
TakeCompleted(d) ==
    /\ ~Sequential
    /\ main = "running" /\ ~futureRaised
    /\ step[d] = "over" /\ results[d] = "none"
    /\ IF status[d] = "raised"
       THEN futureRaised' = TRUE /\ UNCHANGED results
       ELSE results' = [results EXCEPT ![d] = status[d]] /\ UNCHANGED futureRaised
    /\ UNCHANGED <<devVars, main, logged, exitCode>>

\* Mutant: the exception leaves the pool without joining it.
LeavePoolUnjoined ==
    /\ ~Sequential
    /\ main = "running" /\ futureRaised
    /\ main' = "raised"
    /\ UNCHANGED <<devVars, results, futureRaised, logged, exitCode>>

\* Parallel: the pool is left only when every device is done; then the exception
\* of the loop goes on.
LeavePool ==
    /\ ~Sequential
    /\ main = "running" /\ futureRaised
    /\ \A d \in Devices : step[d] = "over"
    /\ main' = "raised"
    /\ UNCHANGED <<devVars, results, futureRaised, logged, exitCode>>

ReturnResults ==
    /\ main = "running"
    /\ \A d \in Devices : results[d] # "none"
    /\ main' = "returned"
    /\ UNCHANGED <<devVars, results, futureRaised, logged, exitCode>>

\* The command: exit code 1 comes before the log is written.
Exit ==
    /\ main = "returned"
    /\ main' = "exited"
    /\ IF \E d \in Devices : results[d] = "failed"
       THEN exitCode' = 1 /\ UNCHANGED logged
       ELSE logged' = TRUE /\ UNCHANGED exitCode
    /\ UNCHANGED <<devVars, results, futureRaised>>

\* The command has no handler around remediate_devices: a traceback, exit code 1.
ExitRaised ==
    /\ main = "raised"
    /\ main' = "exited"
    /\ exitCode' = 1
    /\ UNCHANGED <<devVars, results, futureRaised, logged>>

Caller ==
    \/ \E d \in Devices : StartNext(d) \/ TakeResult(d) \/ LetThrough(d)
                          \/ StartParallel(d) \/ TakeCompleted(d)
    \/ LeavePool \/ ReturnResults \/ Exit \/ ExitRaised

Apply(d) == ApplyStep(d) /\ UNCHANGED callerVars
Foreigner(d) == main # "exited" /\ Drift(d) /\ UNCHANGED callerVars
Terminated == main = "exited" /\ UNCHANGED vars

Next == Caller \/ (\E d \in Devices : Apply(d) \/ Foreigner(d)) \/ Terminated

\* Only safety is claimed: the person who is asked may never answer.
Spec == Init /\ [][Next]_vars

-----------------------------------------------------------------------------
TypeOK ==
    /\ DevTypeOK
    /\ main \in {"running", "returned", "raised", "exited"}
    /\ results \in [Devices -> Statuses \ {"raised"}]
    /\ {futureRaised, logged} \subseteq BOOLEAN
    /\ exitCode \in {0, 1}

\* Sequential mode: once a device failed or was rolled back in a live run, no
\* device after it in the list is contacted, now or later.
StopsAtFirstFailure ==
    \A d, e \in Devices :
        Sequential /\ d < e /\ status[d] \in {"failed", "rolled_back", "raised"} /\ ~args.dryRun
            => step[e] = "idle"

\* The results returned are true: each is what became of its device, or
\* "skipped" for one that was never touched.
ResultsAreTrue ==
    main = "returned" =>
        \A d \in Devices :
            \/ results[d] = status[d]
            \/ results[d] = "skipped" /\ step[d] = "idle" /\ ~Touched(d)

\* The caller leaves no remediation behind in a thread of its own.
NothingInProgressAtExit == main \in {"returned", "exited"} => InProgress = {}

\* How the call has come back: an exception leaves a device without a result.
Back ==
    CASE main = "running" -> "no"
      [] main = "raised" \/ (main = "exited" /\ \E d \in Devices : results[d] = "none") -> "exception"
      [] OTHER -> "list"

Contract == INSTANCE RemediationContract WITH
    Nothing <- Untouched,
    live <- ~args.dryRun,
    inTurn <- Sequential,
    outcome <- status,
    account <- ours,
    reported <- IF Back = "list" THEN results ELSE [d \in Devices |-> "none"],
    back <- Back

\* Every run of the pipeline is one the contract allows: what became of a device and
\* what is reported of it is never revised, nothing is changed behind the caller's
\* back after the call, nor out of turn ("stops the pipeline on the first live
\* failure").
ContractSpec == Contract!Spec

=============================================================================
