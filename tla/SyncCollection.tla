---------------------------- MODULE SyncCollection ----------------------------
(***************************************************************************)
(* collect_all (collection.py): a thread pool collects every device while   *)
(* the calling thread enforces a per-device budget, gathers the results and *)
(* joins the pool before it returns.                                        *)
(*                                                                          *)
(* The calling thread's loop is split where a worker can move between two   *)
(* reads that matter: the stamping of running futures, the judgement of     *)
(* which are overdue, each cancellation, the wait, and each result read.    *)
(***************************************************************************)
EXTENDS DeviceCollection, Integers

CONSTANTS
    N,              \* how many devices the input list has; Jobs is 1..N
    NameOf,         \* device name at each position; names need not differ
    MaxWorkers,     \* size of the thread pool
    Timeout,        \* per-device budget in ticks; 0 stands for None
    MinWait,        \* the 0.01 s floor of a wait, in ticks
    MaxClock        \* bound: the model's clock stops here

ASSUME SyncAssumption ==
    /\ N \in Nat \ {0}
    /\ Jobs = 1..N
    /\ DOMAIN NameOf = Jobs
    /\ MaxWorkers \in Nat \ {0}
    /\ Timeout \in Nat
    /\ MinWait \in Nat \ {0}
    /\ MaxClock \in Nat

VARIABLES
    pc,             \* the calling thread: where it is in collect_all
    fut,            \* state of each future
    queue,          \* the executor's work queue, positions in order
    clock,          \* monotonic()
    now,            \* the loop's `now`
    submittedAt,    \* submitted_at: one reading of the clock for every future
    startedAt,      \* started_at, NoTime while the future has no entry
    pending,        \* futures the loop has not dealt with
    overdue,        \* the rest of the overdue set being expired
    done,           \* the rest of the set returned by wait()
    waitFrom,       \* when the current wait() began
    completed,      \* verdict per device name, "none" while missing
    returned,       \* the list collect_all returns
    realStart       \* history: when the worker really started

mainVars == <<pc, now, submittedAt, startedAt, pending, overdue, done,
              waitFrom, completed, returned>>
poolVars == <<fut, queue, realStart>>
vars == <<devVars, mainVars, poolVars, clock>>

Names == {NameOf[i] : i \in Jobs}
NoTime == -1
Running == {i \in Jobs : fut[i] = "running"}
Settled(i) == fut[i] \in {"finished", "cancelled"}

Init ==
    /\ DevInit
    /\ pc = "submit"
    /\ fut = [i \in Jobs |-> "none"]
    /\ queue = <<>>
    /\ clock = 0
    /\ now = 0
    /\ submittedAt = 0
    /\ startedAt = [i \in Jobs |-> NoTime]
    /\ pending = {}
    /\ overdue = {}
    /\ done = {}
    /\ waitFrom = 0
    /\ completed = [n \in Names |-> "none"]
    /\ returned = [i \in Jobs |-> "none"]
    /\ realStart = [i \in Jobs |-> NoTime]

-----------------------------------------------------------------------------
(* The pool's threads.                                                      *)

\* An idle thread takes the head of the queue and starts the collection.
StartWork ==
    /\ queue # <<>>
    /\ Cardinality(Running) < MaxWorkers
    /\ fut[Head(queue)] = "pending"
    /\ fut' = [fut EXCEPT ![Head(queue)] = "running"]
    /\ realStart' = [realStart EXCEPT ![Head(queue)] = clock]
    /\ Begin(Head(queue))
    /\ queue' = Tail(queue)
    /\ UNCHANGED <<mainVars, clock>>

\* A cancelled future at the head of the queue is dropped without being run.
DropCancelled ==
    /\ queue # <<>>
    /\ Cardinality(Running) < MaxWorkers
    /\ fut[Head(queue)] = "cancelled"
    /\ queue' = Tail(queue)
    /\ UNCHANGED <<devVars, mainVars, fut, realStart, clock>>

\* A thread works on its device; collect_device has not returned yet.
Work(i) ==
    /\ fut[i] = "running"
    /\ Working(i)
    /\ UNCHANGED <<mainVars, poolVars, clock>>

\* collect_device returns or raises: the future has its result or exception.
Finish(i) ==
    /\ fut[i] = "running"
    /\ Ending(i)
    /\ fut' = [fut EXCEPT ![i] = "finished"]
    /\ UNCHANGED <<mainVars, queue, realStart, clock>>

-----------------------------------------------------------------------------
(* The calling thread.                                                      *)

\* pool.submit for the next device of the list; threads may start on it at once.
Submit(i) ==
    /\ pc = "submit"
    /\ fut[i] = "none" /\ \A j \in 1..(i - 1) : fut[j] # "none"
    /\ fut' = [fut EXCEPT ![i] = "pending"]
    /\ queue' = Append(queue, i)
    /\ pc' = IF i = N THEN "stamp_submit" ELSE "submit"
    /\ UNCHANGED <<devVars, now, submittedAt, startedAt, pending, overdue,
                   done, waitFrom, completed, returned, realStart, clock>>

\* submitted_at is filled only after the last submit.
StampSubmitted ==
    /\ pc = "stamp_submit"
    /\ submittedAt' = clock
    /\ pending' = Jobs
    /\ pc' = "loop"
    /\ UNCHANGED <<devVars, poolVars, clock, now, startedAt, overdue, done,
                   waitFrom, completed, returned>>

\* started_at once every running future of pending has been given an entry.
Stamped == [i \in Jobs |->
    IF i \in pending /\ startedAt[i] = NoTime /\ fut[i] = "running"
    THEN clock ELSE startedAt[i]]

\* Mutant: every budget runs from submit time.
EffectiveSubmit(i, s) == submittedAt

\* _effective_start on the stamps s.
EffectiveStart(i, s) == IF s[i] # NoTime THEN s[i] ELSE submittedAt

\* while pending: with a budget the pass begins by stamping what runs now.
SweepNow ==
    /\ pc = "loop" /\ done = {} /\ pending # {}
    /\ Timeout > 0
    /\ now' = clock
    /\ startedAt' = Stamped
    /\ pc' = "judge"
    /\ UNCHANGED <<devVars, poolVars, clock, submittedAt, pending, overdue,
                   done, waitFrom, completed, returned>>

\* The overdue set; a future that began to run since then is stamped on the way.
Judge ==
    /\ pc = "judge"
    /\ startedAt' = Stamped
    /\ overdue' = {i \in pending : now - EffectiveStart(i, startedAt') >= Timeout}
    /\ pc' = "expire"
    /\ UNCHANGED <<devVars, poolVars, clock, now, submittedAt, pending, done,
                   waitFrom, completed, returned>>

\* Futures that leave pending: nothing reads their stamps again, and the loop's
\* `now` is read afresh on the next pass.
Forget(f, S) == [i \in Jobs |-> IF i \in S THEN NoTime ELSE f[i]]

\* One overdue future: cancel() succeeds only if no thread has taken it, and
\* its device is given a timeout verdict either way.
Expire(i) ==
    /\ pc = "expire"
    /\ i \in overdue
    /\ fut' = [fut EXCEPT ![i] = IF @ = "pending" THEN "cancelled" ELSE @]
    /\ completed' = [completed EXCEPT ![NameOf[i]] = "timeout"]
    /\ pending' = pending \ {i}
    /\ overdue' = overdue \ {i}
    /\ startedAt' = Forget(startedAt, {i})
    /\ realStart' = Forget(realStart, {i})
    /\ UNCHANGED <<devVars, queue, clock, pc, now, submittedAt, done, waitFrom,
                   returned>>

\* Nothing left after the expiries: the loop breaks.
BreakLoop ==
    /\ pc = "expire" /\ overdue = {} /\ pending = {}
    /\ pc' = "join"
    /\ UNCHANGED <<devVars, poolVars, clock, now, submittedAt, startedAt,
                   pending, overdue, done, waitFrom, completed, returned>>

\* The loop computes how long to wait, stamping on the way what began to run.
PlanWait ==
    /\ pc = "expire" /\ overdue = {} /\ pending # {}
    /\ startedAt' = Stamped
    /\ waitFrom' = clock
    /\ pc' = "wait"
    /\ UNCHANGED <<devVars, poolVars, clock, now, submittedAt, pending, overdue,
                   done, completed, returned>>

\* Without a budget the wait has no time limit.
WaitUnbounded ==
    /\ pc = "loop" /\ done = {} /\ pending # {}
    /\ Timeout = 0
    /\ pc' = "wait"
    /\ UNCHANGED <<devVars, poolVars, clock, now, submittedAt, startedAt,
                   pending, overdue, done, waitFrom, completed, returned>>

\* The time limit of the current wait has passed: the earliest deadline of the
\* pending futures, as far ahead as it was of the loop's `now`, but at least the floor.
WaitOver ==
    /\ Timeout > 0
    /\ clock >= waitFrom + MinWait
    /\ \E i \in pending :
          clock >= waitFrom + (EffectiveStart(i, startedAt) + Timeout - now)

\* Mutant: what wait() calls not done is not taken for the new pending.
WakeUpKeepsDone ==
    /\ pc = "wait"
    /\ done' = {i \in pending : Settled(i)}
    /\ done' # {} \/ WaitOver
    /\ now' = 0 /\ waitFrom' = 0
    /\ pc' = "loop"
    /\ UNCHANGED <<devVars, fut, queue, clock, submittedAt, startedAt, realStart,
                   pending, overdue, completed, returned>>

\* wait() returns: a future of pending has settled, or the time is up.
WakeUp ==
    /\ pc = "wait"
    /\ done' = {i \in pending : Settled(i)}
    /\ done' # {} \/ WaitOver
    /\ pending' = pending \ done'
    /\ startedAt' = Forget(startedAt, done')
    /\ realStart' = Forget(realStart, done')
    /\ now' = 0 /\ waitFrom' = 0
    /\ pc' = "loop"
    /\ UNCHANGED <<devVars, fut, queue, clock, submittedAt, overdue, completed,
                   returned>>

\* Mutant: whatever a future comes back with is taken for a snapshot.
HarvestAnything(i) ==
    /\ pc = "loop"
    /\ i \in done
    /\ completed' = [completed EXCEPT ![NameOf[i]] =
           IF fut[i] = "cancelled" THEN "timeout" ELSE "ok"]
    /\ done' = done \ {i}
    /\ UNCHANGED <<devVars, poolVars, clock, pc, now, submittedAt, startedAt,
                   pending, overdue, waitFrom, returned>>

\* future.result(timeout=0) of a settled future: its result, an isolated error
\* for its exception, or a timeout if it was cancelled and has no verdict.
Harvest(i) ==
    /\ pc = "loop"
    /\ i \in done
    /\ completed' = [completed EXCEPT ![NameOf[i]] =
           IF fut[i] = "cancelled"
           THEN (IF @ = "none" THEN "timeout" ELSE @)
           ELSE (IF outcome[i] = "ok" THEN "ok" ELSE "error")]
    /\ done' = done \ {i}
    /\ UNCHANGED <<devVars, poolVars, clock, pc, now, submittedAt, startedAt,
                   pending, overdue, waitFrom, returned>>

\* Mutant: the loop is left after the first round of results.
LeaveLoopEarly ==
    /\ pc = "loop" /\ done = {}
    /\ pc' = "join"
    /\ UNCHANGED <<devVars, poolVars, clock, now, submittedAt, startedAt,
                   pending, overdue, done, waitFrom, completed, returned>>

\* The while condition fails.
LeaveLoop ==
    /\ pc = "loop" /\ done = {} /\ pending = {}
    /\ pc' = "join"
    /\ UNCHANGED <<devVars, poolVars, clock, now, submittedAt, startedAt,
                   pending, overdue, done, waitFrom, completed, returned>>

\* Mutant: shutdown(wait=False), the threads are not joined.
ReturnUnjoined ==
    /\ pc = "join"
    /\ completed' = [n \in Names |-> IF completed[n] = "none" THEN "timeout" ELSE completed[n]]
    /\ returned' = [i \in Jobs |-> completed'[NameOf[i]]]
    /\ pc' = "returned"
    /\ UNCHANGED <<devVars, poolVars, clock, now, submittedAt, startedAt,
                   pending, overdue, done, waitFrom>>

\* Leaving the `with` block joins every thread; then missing names are filled
\* in and the list is built in input order.
Return ==
    /\ pc = "join"
    /\ queue = <<>> /\ Running = {}
    /\ completed' = [n \in Names |-> IF completed[n] = "none" THEN "timeout" ELSE completed[n]]
    /\ returned' = [i \in Jobs |-> completed'[NameOf[i]]]
    /\ pc' = "returned"
    /\ UNCHANGED <<devVars, poolVars, clock, now, submittedAt, startedAt,
                   pending, overdue, done, waitFrom>>

\* The loop that collects verdicts, after the submissions and before the join.
Loop ==
    \/ SweepNow \/ Judge \/ BreakLoop \/ PlanWait
    \/ WaitUnbounded \/ WakeUp \/ LeaveLoop
    \/ \E i \in Jobs : Expire(i) \/ Harvest(i)

Main == (\E i \in Jobs : Submit(i)) \/ StampSubmitted \/ Loop \/ Return

Tick ==
    /\ pc # "returned"
    /\ clock < MaxClock
    /\ clock' = clock + 1
    /\ UNCHANGED <<devVars, mainVars, poolVars>>

Terminated == pc = "returned" /\ UNCHANGED vars

Pool == StartWork \/ DropCancelled \/ \E i \in Jobs : Work(i) \/ Finish(i)

Next == Main \/ Pool \/ Tick \/ Terminated

\* Every thread of the process is scheduled, and an adapter call always comes
\* back (the transports have time limits of their own).  Nothing is assumed of
\* the clock.
Fairness ==
    /\ WF_vars(Main)
    /\ WF_vars(StartWork \/ DropCancelled)
    /\ \A i \in Jobs : WF_vars(Work(i) \/ Finish(i))

Spec == Init /\ [][Next]_vars /\ Fairness

-----------------------------------------------------------------------------
PCs == {"submit", "stamp_submit", "loop", "judge", "expire", "wait", "join", "returned"}
FutureStates == {"none", "pending", "running", "finished", "cancelled"}
Verdicts == {"none", "ok", "error", "timeout"}

TypeOK ==
    /\ DevTypeOK
    /\ pc \in PCs
    /\ fut \in [Jobs -> FutureStates]
    /\ queue \in Seq(Jobs)
    /\ clock \in Nat
    /\ now \in Nat
    /\ submittedAt \in Nat
    /\ startedAt \in [Jobs -> Nat \cup {NoTime}]
    /\ pending \subseteq Jobs
    /\ overdue \subseteq Jobs
    /\ done \subseteq Jobs
    /\ waitFrom \in Nat
    /\ completed \in [Names -> Verdicts]
    /\ returned \in [Jobs -> Verdicts]
    /\ realStart \in [Jobs -> Nat \cup {NoTime}]

\* max_workers bounds the SSH connections open at any time ("Maximum parallel SSH
\* connections"), also while threads whose device already has a timeout verdict are
\* still at work, and whatever fails in an attempt before the next one connects.
ConnectionsWithinWorkers ==
    /\ \A i \in Jobs : open[i] <= 1
    /\ Cardinality({i \in Jobs : open[i] = 1}) <= MaxWorkers

\* When collect_all returns nothing runs in its name any more: every thread is
\* joined, every connection closed, and no queued device is left to be started.
QuiescentOnReturn ==
    pc = "returned" =>
        \A i \in Jobs : open[i] = 0 /\ Settled(i)

\* The verdict returned for a position comes from a future of a device of that
\* name, or is a timeout under a budget; it is never a device's stale result.
ReturnedIsOwn ==
    pc = "returned" =>
        \A i \in Jobs :
            \/ returned[i] = "timeout" /\ Timeout > 0
            \/ \E j \in Jobs :
                  /\ NameOf[j] = NameOf[i]
                  /\ fut[j] = "finished"
                  /\ returned[i] = IF outcome[j] = "ok" THEN "ok" ELSE "error"

\* The futures a judgement finds overdue.
JudgedOverdue(i) == pc = "judge" /\ pc' = "expire" /\ i \in overdue'

\* A device is judged overdue only when its budget has passed since its worker really
\* started, which may be long before the loop noticed; a queued one, since its
\* submission.  The exception, a future that ran and finished between two looks of the
\* loop, is what BudgetFromStart is about.
BudgetStep ==
    \A i \in Jobs :
        JudgedOverdue(i) =>
            \/ fut[i] = "pending" /\ clock - submittedAt >= Timeout
            \/ realStart[i] # NoTime /\ clock - realStart[i] >= Timeout
            \/ fut[i] = "finished" /\ startedAt[i] = NoTime
BudgetKept == [][BudgetStep]_vars

\* What the docstring says of the budget: "measured from when the worker *starts*,
\* falling back to submit time for not-yet-started work".
BudgetFromStart ==
    [][\A i \in Jobs :
          JudgedOverdue(i) /\ realStart[i] # NoTime => clock - realStart[i] >= Timeout]_vars

\* Each name has one future to take its verdict from: once it is in `completed`
\* it is not revised, neither by a thread that finishes after its device was
\* given up nor by the fill-in after the join.  Only for distinct names.
VerdictStep == \A n \in Names : completed[n] # "none" => completed'[n] = completed[n]
VerdictFinal == [][VerdictStep]_vars

\* collect_all returns: no future, cancelled or abandoned, keeps it waiting for ever.
Termination == <>(pc = "returned")

\* collect_all implements the contract of "collect many" (for distinct names).
Contract == INSTANCE CollectionContract WITH
    Positions <- Jobs,
    HasBudget <- Timeout > 0,
    verdict <- [i \in Jobs |-> completed[NameOf[i]]],
    back <- (pc = "returned")
ContractSpec == Contract!Spec

\* The safety part of the same: initial states and steps map to the contract's.
ContractSafety == Contract!Init /\ [][Contract!Next]_(Contract!contractVars)

\* The inventory gives every device a name of its own.
DistinctNames == \A i, j \in Jobs : NameOf[i] = NameOf[j] => i = j

=============================================================================
