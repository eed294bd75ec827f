--------------------------- MODULE AsyncCollection ---------------------------
(***************************************************************************)
(* collect_all_async (collection.py): one asyncio task per device, a        *)
(* semaphore that limits how many collect at a time, wait_for around each   *)
(* collection when there is a budget, and gather.                           *)
(*                                                                          *)
(* The loop runs one task at a time, so an action is what happens between   *)
(* two awaits.  The collection of one device takes the steps of             *)
(* DeviceCollection; its phases "build" and "report" stand for the await of *)
(* wait_closed as well, after which they follow without a further await.    *)
(***************************************************************************)
EXTENDS DeviceCollection

CONSTANTS
    N,              \* how many devices; Jobs is 1..N
    MaxWorkers,     \* the semaphore's initial value
    Timeout         \* per-device budget in ticks; 0 stands for None

ASSUME AsyncAssumption ==
    /\ N \in Nat \ {0}
    /\ Jobs = 1..N
    /\ MaxWorkers \in Nat \ {0}
    /\ Timeout \in Nat

VARIABLES
    main,           \* collect_all_async: "gathering" or "returned"
    task,           \* state of _bounded_collect of each device
    left,           \* ticks until wait_for's timer of a holding task fires
    verdict,        \* what a finished task returned or raised
    results         \* the list returned

callVars == <<main, task, left, verdict, results>>
vars == <<devVars, callVars>>

Holding == {i \in Jobs : task[i] = "holding"}

\* The steps of a collection that wait for the transport, and those that do not.
Transport(i) == Connect(i) \/ ConnectFails(i) \/ RunCommand(i) \/ RunFails(i)
Local(i) == Close(i) \/ Retry(i)

Init ==
    /\ DevInit
    /\ main = "gathering"
    /\ task = [i \in Jobs |-> "waiting"]
    /\ left = [i \in Jobs |-> 0]
    /\ verdict = [i \in Jobs |-> "none"]
    /\ results = [i \in Jobs |-> "none"]

-----------------------------------------------------------------------------
\* async with semaphore: waiters are served in order; the budget starts now.
Acquire(i) ==
    /\ task[i] = "waiting" /\ \A j \in 1..(i - 1) : task[j] # "waiting"
    /\ Cardinality(Holding) < MaxWorkers
    /\ task' = [task EXCEPT ![i] = "holding"]
    /\ left' = [left EXCEPT ![i] = Timeout]
    /\ Begin(i)
    /\ UNCHANGED <<main, verdict, results>>

\* The collection goes on: an await of its own or of the transport is over.
Work(i) ==
    /\ task[i] = "holding"
    /\ Transport(i) \/ Local(i)
    /\ UNCHANGED callVars

\* Mutant: the collection is left to itself when its budget is over.
CancelAbandons(i) ==
    /\ Timeout > 0
    /\ task[i] = "holding" /\ left[i] = 0
    /\ task' = [task EXCEPT ![i] = "finished"]
    /\ verdict' = [verdict EXCEPT ![i] = "timeout"]
    /\ UNCHANGED <<devVars, main, left, results>>

\* Mutant: a connection attempt is shielded from cancellation.
CancelConnected(i) ==
    /\ Timeout > 0
    /\ task[i] = "holding" /\ left[i] = 0
    /\ phase[i] = "run" /\ exc[i] # "cancelled"
    /\ exc' = [exc EXCEPT ![i] = "cancelled"]
    /\ phase' = [phase EXCEPT ![i] = "close"]
    /\ UNCHANGED <<attempt, raw, open, outcome, callVars>>

\* The timer of wait_for: CancelledError at the await the collection is in.
\* With a connection in use the finally clause closes it first; during the
\* close, the back-off or the connect there is nothing left to close.
Cancel(i) ==
    /\ Timeout > 0
    /\ task[i] = "holding" /\ left[i] = 0
    /\ phase[i] \in {"connect", "run", "backoff", "build", "report"}
    /\ exc[i] # "cancelled"
    /\ exc' = [exc EXCEPT ![i] = "cancelled"]
    /\ phase' = [phase EXCEPT ![i] = IF @ = "run" THEN "close" ELSE "report"]
    /\ UNCHANGED <<attempt, raw, open, outcome, callVars>>

\* The collection is over: wait_for turns the cancellation into TimeoutError,
\* which becomes a timeout snapshot; the semaphore is released.
Finish(i) ==
    /\ task[i] = "holding"
    /\ Ending(i)
    /\ task' = [task EXCEPT ![i] = "finished"]
    /\ left' = [left EXCEPT ![i] = 0]
    /\ verdict' = [verdict EXCEPT ![i] =
           IF exc[i] = "cancelled" /\ outcome'[i] = "raised" THEN "timeout" ELSE outcome'[i]]
    /\ UNCHANGED <<main, results>>

\* Mutant: gather without return_exceptions, the first exception ends it.
ReturnFirstException ==
    /\ main = "gathering"
    /\ (\A i \in Jobs : task[i] = "finished") \/ (\E i \in Jobs : verdict[i] = "raised")
    /\ results' = [i \in Jobs |-> IF verdict[i] = "raised" THEN "error" ELSE verdict[i]]
    /\ main' = "returned"
    /\ UNCHANGED <<devVars, task, left, verdict>>

\* gather is over: the list in input order, an exception as an error snapshot.
Return ==
    /\ main = "gathering"
    /\ \A i \in Jobs : task[i] = "finished"
    /\ results' = [i \in Jobs |-> IF verdict[i] = "raised" THEN "error" ELSE verdict[i]]
    /\ main' = "returned"
    /\ UNCHANGED <<devVars, task, left, verdict>>

Tick ==
    /\ \E i \in Jobs : left[i] > 0
    /\ left' = [i \in Jobs |-> IF left[i] > 0 THEN left[i] - 1 ELSE 0]
    /\ UNCHANGED <<devVars, main, task, verdict, results>>

Terminated == main = "returned" /\ UNCHANGED vars

Next ==
    \/ \E i \in Jobs : Acquire(i) \/ Work(i) \/ Cancel(i) \/ Finish(i)
    \/ Return \/ Tick \/ Terminated

\* The loop runs every task that is ready and every timer that is due, and a
\* connection that is closed reports so.  The transport is trusted to answer only
\* when there is no budget.
Fairness ==
    /\ WF_vars(Return) /\ WF_vars(Tick)
    /\ \A i \in Jobs :
          /\ WF_vars(Acquire(i)) /\ WF_vars(Cancel(i)) /\ WF_vars(Finish(i))
          /\ WF_vars(task[i] = "holding" /\ Local(i) /\ UNCHANGED callVars)
          /\ Timeout = 0 => WF_vars(Work(i))

Spec == Init /\ [][Next]_vars /\ Fairness

-----------------------------------------------------------------------------
AsyncTypeOK ==
    /\ phase \in [Jobs -> Phases]
    /\ attempt \in [Jobs -> 0..MaxAttempts]
    /\ raw \in [Jobs -> Seq(1..MaxAttempts)]
    /\ open \in [Jobs -> 0..1]
    /\ exc \in [Jobs -> Faults \cup {"none", "cancelled"}]
    /\ outcome \in [Jobs -> Outcomes]
    /\ main \in {"gathering", "returned"}
    /\ task \in [Jobs -> {"waiting", "holding", "finished"}]
    /\ left \in [Jobs -> 0..Timeout]
    /\ verdict \in [Jobs -> {"none", "ok", "error", "raised", "timeout"}]
    /\ results \in [Jobs -> {"none", "ok", "error", "timeout"}]

\* The semaphore limits connections, not only tasks: whoever has one open still
\* holds a slot, also while it unwinds from a cancellation.
SlotCoversConnection ==
    /\ \A i \in Jobs : open[i] > 0 => task[i] = "holding"
    /\ Cardinality({i \in Jobs : open[i] > 0}) <= MaxWorkers

\* Once the budget of a device is over it is not contacted again: the retries do
\* not take the cancellation for a transient failure.
NoContactStep ==
    \A i \in Jobs : exc[i] = "cancelled" => open'[i] <= open[i] /\ attempt'[i] <= attempt[i]
NoContactAfterBudget == [][NoContactStep]_vars

\* collect_all_async returns; with a budget, even if the devices never answer.
Termination == <>(main = "returned")

\* collect_all_async implements the contract of "collect many", for any names.
Contract == INSTANCE CollectionContract WITH
    Positions <- Jobs,
    HasBudget <- Timeout > 0,
    verdict <- [i \in Jobs |-> IF verdict[i] = "raised" THEN "error" ELSE verdict[i]],
    back <- (main = "returned")
ContractSpec == Contract!Spec

\* The safety part of the same: initial states and steps map to the contract's.
ContractSafety == Contract!Init /\ [][Contract!Next]_(Contract!contractVars)

=============================================================================
