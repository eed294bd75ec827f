----------------------- MODULE AsyncCollection_proofs -----------------------
(***************************************************************************)
(* Theorems about collect_all_async, for any number of devices, slots of the *)
(* semaphore, retries and budgets, and a transport that may hang or fail at  *)
(* every await.                                                             *)
(***************************************************************************)
EXTENDS AsyncCollection, FiniteSetTheorems, TLAPS

(***************************************************************************)
(* The inductive invariant.  A task holds its slot as long as the collection *)
(* under it is in progress, whatever phase a cancellation finds it in; a     *)
(* cancelled collection has only its close and its end before it.           *)
(***************************************************************************)
TaskMatchesJob ==
    \A i \in Jobs :
        /\ task[i] = "waiting" <=> phase[i] = "idle"
        /\ task[i] = "finished" <=> phase[i] = "over"

Attempts ==
    \A i \in Jobs :
        /\ phase[i] \notin {"idle", "over"} => attempt[i] \in 1..MaxAttempts
        /\ phase[i] = "backoff" => attempt[i] < MaxAttempts

Unwinding ==
    \A i \in Jobs :
        /\ exc[i] = "cancelled" => phase[i] \in {"close", "report"} /\ Timeout > 0
        /\ phase[i] = "report" => exc[i] # "none"
        /\ phase[i] = "over" => exc[i] = "none"

VerdictInv ==
    /\ \A i \in Jobs :
          /\ verdict[i] = "none" <=> task[i] # "finished"
          /\ verdict[i] = "timeout" => Timeout > 0
    /\ main = "returned" => \A i \in Jobs : task[i] = "finished"

SlotsHeld == Cardinality(Holding) <= MaxWorkers

AsyncInv ==
    /\ AsyncTypeOK /\ SessionsClosed /\ Attempts
    /\ TaskMatchesJob /\ Unwinding /\ VerdictInv

LEMMA JobsFinite == IsFiniteSet(Jobs) /\ Cardinality(Jobs) \in Nat
BY AsyncAssumption, FS_Interval, FS_CardinalityType DEF AsyncAssumption

LEMMA AsyncInit == Init => AsyncInv
<1> SUFFICES ASSUME Init PROVE AsyncInv
  OBVIOUS
<1> USE DEF Init, DevInit
<1>1. AsyncTypeOK
  BY AsyncAssumption, DeviceAssumption
     DEF AsyncAssumption, DeviceAssumption, AsyncTypeOK, Phases, Outcomes
<1>2. SessionsClosed /\ Attempts /\ TaskMatchesJob /\ Unwinding /\ VerdictInv
  BY DEF SessionsClosed, Attempts, TaskMatchesJob, Unwinding, VerdictInv
<1>3. QED
  BY <1>1, <1>2 DEF AsyncInv

-----------------------------------------------------------------------------
(* One step.                                                                *)

\* A step of the transport or of the code between two awaits.
LEMMA WorkKeeps ==
    ASSUME AsyncInv, NEW i \in Jobs, Work(i)
    PROVE  AsyncInv'
<1> USE DEF AsyncInv, Phases, Outcomes
<1>1. /\ task[i] = "holding" /\ UNCHANGED <<main, task, left, verdict, results>>
      /\ phase[i] \notin {"idle", "over"} /\ attempt[i] \in 1..MaxAttempts
  BY DEF Work, callVars, Attempts, TaskMatchesJob
<1>2. MaxAttempts \in Nat \ {0}
  BY DeviceAssumption DEF DeviceAssumption
<1>3. CASE Connect(i)
  <2>6. open[i] = 0
    BY <1>1, <1>3 DEF Connect, AsyncTypeOK, SessionsClosed, Attempts
  <2>7. AsyncTypeOK'
    BY <1>1, <1>2, <1>3, <2>6 DEF Connect, AsyncTypeOK
  <2>8. SessionsClosed' /\ Attempts' /\ TaskMatchesJob'
    BY <1>1, <1>2, <1>3 DEF Connect, AsyncTypeOK, SessionsClosed, Attempts, TaskMatchesJob
  <2>9. Unwinding' /\ VerdictInv'
    BY <1>1, <1>2, <1>3 DEF Connect, AsyncTypeOK, Unwinding, VerdictInv, TaskMatchesJob
  <2>10. QED
    BY <2>7, <2>8, <2>9
<1>4. CASE ConnectFails(i)
  <2>1. PICK e \in Faults : exc' = [exc EXCEPT ![i] = e]
                           /\ phase' = [phase EXCEPT ![i] = AfterAttempt(i, e)]
    BY <1>4 DEF ConnectFails
  <2>2. /\ e # "none" /\ e # "cancelled"
        /\ AfterAttempt(i, e) \in {"backoff", "report"}
        /\ AfterAttempt(i, e) = "backoff" => attempt[i] < MaxAttempts
    BY DeviceAssumption DEF DeviceAssumption, AfterAttempt, Retryable, Listed
  <2>7. AsyncTypeOK'
    BY <1>1, <1>2, <1>4, <2>1, <2>2 DEF ConnectFails, AsyncTypeOK
  <2>8. SessionsClosed' /\ Attempts' /\ TaskMatchesJob'
    BY <1>1, <1>2, <1>4, <2>1, <2>2 DEF ConnectFails, AsyncTypeOK, SessionsClosed, Attempts, TaskMatchesJob
  <2>9. Unwinding' /\ VerdictInv'
    BY <1>1, <1>2, <1>4, <2>1, <2>2 DEF ConnectFails, AsyncTypeOK, Unwinding, VerdictInv, TaskMatchesJob
  <2>10. QED
    BY <2>7, <2>8, <2>9
<1>5. CASE RunCommand(i)
  <2>7. AsyncTypeOK'
    BY <1>1, <1>2, <1>5 DEF RunCommand, AsyncTypeOK
  <2>8. SessionsClosed' /\ Attempts' /\ TaskMatchesJob'
    BY <1>1, <1>2, <1>5 DEF RunCommand, AsyncTypeOK, SessionsClosed, Attempts, TaskMatchesJob
  <2>9. Unwinding' /\ VerdictInv'
    BY <1>1, <1>2, <1>5 DEF RunCommand, AsyncTypeOK, Unwinding, VerdictInv, TaskMatchesJob
  <2>10. QED
    BY <2>7, <2>8, <2>9
<1>6. CASE RunFails(i)
  <2>1. "none" \notin Faults /\ "cancelled" \notin Faults
    BY DeviceAssumption DEF DeviceAssumption
  <2>7. AsyncTypeOK'
    BY <1>1, <1>2, <1>6, <2>1 DEF RunFails, AsyncTypeOK
  <2>8. SessionsClosed' /\ Attempts' /\ TaskMatchesJob'
    BY <1>1, <1>2, <1>6, <2>1 DEF RunFails, AsyncTypeOK, SessionsClosed, Attempts, TaskMatchesJob
  <2>9. Unwinding' /\ VerdictInv'
    BY <1>1, <1>2, <1>6, <2>1 DEF RunFails, AsyncTypeOK, Unwinding, VerdictInv, TaskMatchesJob
  <2>10. QED
    BY <2>7, <2>8, <2>9
<1>7. CASE Close(i)
  <2>1. /\ AfterAttempt(i, exc[i]) \in {"build", "backoff", "report"}
        /\ AfterAttempt(i, exc[i]) = "backoff" => attempt[i] < MaxAttempts
        /\ exc[i] = "cancelled" => AfterAttempt(i, exc[i]) = "report"
        /\ AfterAttempt(i, exc[i]) = "report" => exc[i] # "none"
    BY DEF AfterAttempt, Retryable, Listed
  <2>6. open[i] = 1
    BY <1>1, <1>7 DEF Close, AsyncTypeOK, SessionsClosed, Attempts
  <2>7. AsyncTypeOK'
    BY <1>1, <1>2, <1>7, <2>1, <2>6 DEF Close, AsyncTypeOK
  <2>8. SessionsClosed' /\ Attempts' /\ TaskMatchesJob'
    BY <1>1, <1>2, <1>7, <2>1 DEF Close, AsyncTypeOK, SessionsClosed, Attempts, TaskMatchesJob
  <2>9. Unwinding' /\ VerdictInv'
    BY <1>1, <1>2, <1>7, <2>1 DEF Close, AsyncTypeOK, Unwinding, VerdictInv, TaskMatchesJob
  <2>10. QED
    BY <2>7, <2>8, <2>9
<1>8. CASE Retry(i)
  <2>6. attempt[i] + 1 \in 1..MaxAttempts
    BY <1>1, <1>2, <1>8 DEF Retry, AsyncTypeOK, Attempts
  <2>7. AsyncTypeOK'
    BY <1>1, <1>2, <1>8, <2>6 DEF Retry, AsyncTypeOK
  <2>8. SessionsClosed' /\ Attempts' /\ TaskMatchesJob'
    BY <1>1, <1>2, <1>8 DEF Retry, AsyncTypeOK, SessionsClosed, Attempts, TaskMatchesJob
  <2>9. Unwinding' /\ VerdictInv'
    BY <1>1, <1>2, <1>8 DEF Retry, AsyncTypeOK, Unwinding, VerdictInv, TaskMatchesJob
  <2>10. QED
    BY <2>7, <2>8, <2>9
<1>9. QED
  BY <1>3, <1>4, <1>5, <1>6, <1>7, <1>8 DEF Work, Transport, Local

LEMMA AcquireKeeps ==
    ASSUME AsyncInv, NEW i \in Jobs, Acquire(i)
    PROVE  AsyncInv'
<1> USE DEF AsyncInv, Acquire, Begin, AsyncTypeOK
<1>1. MaxAttempts \in Nat \ {0} /\ Timeout \in Nat
  BY DeviceAssumption, AsyncAssumption DEF DeviceAssumption, AsyncAssumption
<1>2. AsyncTypeOK'
  BY <1>1 DEF Phases, Outcomes
<1>3. SessionsClosed' /\ Attempts'
  BY <1>1 DEF SessionsClosed, Attempts
<1>4. TaskMatchesJob' /\ Unwinding' /\ VerdictInv'
  BY DEF TaskMatchesJob, Unwinding, VerdictInv
<1>5. QED
  BY <1>2, <1>3, <1>4

LEMMA CancelKeeps ==
    ASSUME AsyncInv, NEW i \in Jobs, Cancel(i)
    PROVE  AsyncInv'
BY DEF AsyncInv, AsyncTypeOK, SessionsClosed, Attempts, TaskMatchesJob, Unwinding, VerdictInv,
       Phases, Cancel, callVars

\* What a collection that is over gives wait_for, and wait_for its task.
LEMMA FinishGives ==
    ASSUME AsyncInv, NEW i \in Jobs, Finish(i)
    PROVE  /\ task[i] = "holding" /\ task' = [task EXCEPT ![i] = "finished"]
           /\ \E o \in {"ok", "error", "raised"} :
                 /\ outcome' = [outcome EXCEPT ![i] = o]
                 /\ verdict' = [verdict EXCEPT ![i] = IF exc[i] = "cancelled" /\ o = "raised"
                                                      THEN "timeout" ELSE o]
           /\ left' = [left EXCEPT ![i] = 0]
           /\ CallEnds(i) /\ UNCHANGED <<main, results>>
<1>1. PICK o \in {"ok", "error", "raised"} : outcome' = [outcome EXCEPT ![i] = o]
  <2>1. CASE Build(i)
    BY <2>1 DEF Build, Surfaced
  <2>2. CASE Report(i)
    BY <2>2 DEF Report, Surfaced
  <2>3. QED
    BY <2>1, <2>2 DEF Finish, Ending
<1>2. outcome'[i] = o
  BY <1>1 DEF AsyncInv, AsyncTypeOK
<1>3. CallEnds(i)
  BY DEF Finish, Ending, Build, Report
<1>4. QED
  BY <1>1, <1>2, <1>3 DEF Finish

LEMMA FinishKeeps ==
    ASSUME AsyncInv, NEW i \in Jobs, Finish(i)
    PROVE  AsyncInv'
<1>1. PICK o \in {"ok", "error", "raised"} :
          /\ outcome' = [outcome EXCEPT ![i] = o]
          /\ verdict' = [verdict EXCEPT ![i] = IF exc[i] = "cancelled" /\ o = "raised"
                                               THEN "timeout" ELSE o]
  BY FinishGives
<1>2. /\ task[i] = "holding" /\ task' = [task EXCEPT ![i] = "finished"]
      /\ left' = [left EXCEPT ![i] = 0] /\ CallEnds(i) /\ UNCHANGED <<main, results>>
  BY FinishGives
<1>3. phase[i] \in {"build", "report"}
  BY DEF Finish, Ending, Build, Report
<1> USE DEF AsyncInv, CallEnds
<1>4. AsyncTypeOK'
  <2>1. MaxAttempts \in Nat /\ Timeout \in Nat
    BY DeviceAssumption, AsyncAssumption DEF DeviceAssumption, AsyncAssumption
  <2>2. phase' \in [Jobs -> Phases] /\ outcome' \in [Jobs -> Outcomes]
    BY <1>1, <1>2 DEF AsyncTypeOK, Phases, Outcomes
  <2>3. attempt' \in [Jobs -> 0..MaxAttempts] /\ left' \in [Jobs -> 0..Timeout]
    BY <1>2, <2>1 DEF AsyncTypeOK
  <2>4. raw' \in [Jobs -> Seq(1..MaxAttempts)]
    BY <1>2 DEF AsyncTypeOK
  <2>5. open' \in [Jobs -> 0..1] /\ exc' \in [Jobs -> Faults \cup {"none", "cancelled"}]
    BY <1>2 DEF AsyncTypeOK
  <2>6. task' \in [Jobs -> {"waiting", "holding", "finished"}]
        /\ verdict' \in [Jobs -> {"none", "ok", "error", "raised", "timeout"}]
    BY <1>1, <1>2 DEF AsyncTypeOK
  <2>7. QED
    BY <1>2, <2>2, <2>3, <2>4, <2>5, <2>6 DEF AsyncTypeOK
<1>5. SessionsClosed' /\ Attempts' /\ TaskMatchesJob'
  BY <1>1, <1>2, <1>3 DEF AsyncTypeOK, SessionsClosed, Attempts, TaskMatchesJob
<1>6. Unwinding' /\ VerdictInv'
  BY <1>1, <1>2, <1>3 DEF AsyncTypeOK, Unwinding, VerdictInv
<1>7. QED
  BY <1>4, <1>5, <1>6

LEMMA AsyncNext == AsyncInv /\ [Next]_vars => AsyncInv'
<1> SUFFICES ASSUME AsyncInv, [Next]_vars PROVE AsyncInv'
  OBVIOUS
<1> USE DEF AsyncInv, AsyncTypeOK, SessionsClosed, Attempts, TaskMatchesJob, Unwinding, VerdictInv
<1>1. CASE Return
  BY <1>1 DEF Return, devVars
<1>2. CASE Tick
  <2>1. left' \in [Jobs -> 0..Timeout]
    BY <1>2, AsyncAssumption DEF AsyncAssumption, Tick
  <2>2. QED
    BY <1>2, <2>1 DEF Tick, devVars
<1>3. CASE UNCHANGED vars
  BY <1>3 DEF vars, devVars, callVars
<1>4. QED
  BY <1>1, <1>2, <1>3, AcquireKeeps, WorkKeeps, CancelKeeps, FinishKeeps DEF Next, Terminated

\* Type correctness of collect_all_async: attempts within the limit, at most one
\* connection per device, no exception left in the list.
THEOREM AsyncTypeCorrect == Spec => []AsyncTypeOK
<1>1. AsyncInv => AsyncTypeOK
  BY DEF AsyncInv
<1>2. QED
  BY <1>1, AsyncInit, AsyncNext, PTL DEF Spec

-----------------------------------------------------------------------------
(* The semaphore.                                                           *)

LEMMA SlotsInit == Init => SlotsHeld
<1> SUFFICES ASSUME Init PROVE SlotsHeld
  OBVIOUS
<1>1. Holding = {}
  BY DEF Init, Holding
<1>2. QED
  BY <1>1, FS_EmptySet, AsyncAssumption DEF AsyncAssumption, SlotsHeld

LEMMA SlotsNext == AsyncInv /\ SlotsHeld /\ [Next]_vars => SlotsHeld'
<1> SUFFICES ASSUME AsyncInv, SlotsHeld, [Next]_vars PROVE SlotsHeld'
  OBVIOUS
<1>1. IsFiniteSet(Holding) /\ Cardinality(Holding) \in Nat /\ MaxWorkers \in Nat
  BY JobsFinite, FS_Subset, FS_CardinalityType, AsyncAssumption DEF AsyncAssumption, Holding
<1>2. ASSUME Holding' \subseteq Holding PROVE SlotsHeld'
  <2>1. IsFiniteSet(Holding') /\ Cardinality(Holding') <= Cardinality(Holding)
    BY <1>1, <1>2, FS_Subset
  <2>2. Cardinality(Holding') \in Nat
    BY <2>1, FS_CardinalityType
  <2>3. QED
    BY <1>1, <2>1, <2>2 DEF SlotsHeld
<1>3. ASSUME NEW i \in Jobs, Acquire(i) PROVE SlotsHeld'
  <2>1. Holding' = Holding \cup {i} /\ i \notin Holding /\ Cardinality(Holding) < MaxWorkers
    BY <1>3 DEF AsyncInv, AsyncTypeOK, Acquire, Holding
  <2>2. Cardinality(Holding') = Cardinality(Holding) + 1
    BY <1>1, <2>1, FS_AddElement
  <2>3. QED
    BY <1>1, <2>1, <2>2 DEF SlotsHeld
<1>4. ASSUME NEW i \in Jobs, Finish(i) PROVE Holding' \subseteq Holding
  BY <1>4, FinishGives DEF AsyncInv, AsyncTypeOK, Holding
<1>5. CASE UNCHANGED task
  BY <1>2, <1>5 DEF Holding
<1>6. QED
  BY <1>2, <1>3, <1>4, <1>5 DEF Next, Work, Cancel, Return, Tick, Terminated, vars, callVars

\* The semaphore bounds the connections, also those of collections that unwind
\* from a cancellation: who has one open still holds a slot.
THEOREM AsyncConnectionBound == Spec => []SlotCoversConnection
<1>1. ASSUME AsyncInv, SlotsHeld PROVE SlotCoversConnection
  <2> DEFINE Connected == {i \in Jobs : open[i] > 0}
  <2>1. \A i \in Jobs : open[i] > 0 => task[i] = "holding"
    <3>1. ASSUME NEW i \in Jobs, open[i] > 0 PROVE phase[i] \in {"run", "close"}
      BY <1>1, <3>1 DEF AsyncInv, SessionsClosed
    <3>2. \A i \in Jobs : task[i] \in {"waiting", "holding", "finished"}
      BY <1>1 DEF AsyncInv, AsyncTypeOK
    <3>3. QED
      BY <1>1, <3>1, <3>2 DEF AsyncInv, TaskMatchesJob
  <2>2. Connected \subseteq Holding /\ IsFiniteSet(Holding)
    BY <2>1, JobsFinite, FS_Subset DEF Holding
  <2>3. IsFiniteSet(Connected) /\ Cardinality(Connected) <= Cardinality(Holding)
    BY <2>2, FS_Subset
  <2>4. Cardinality(Connected) \in Nat /\ Cardinality(Holding) \in Nat /\ MaxWorkers \in Nat
    BY <2>2, <2>3, FS_CardinalityType, AsyncAssumption DEF AsyncAssumption
  <2>5. Cardinality(Connected) <= MaxWorkers
    BY <1>1, <2>3, <2>4 DEF SlotsHeld
  <2>6. QED
    BY <2>1, <2>5 DEF SlotCoversConnection
<1>2. QED
  BY <1>1, AsyncInit, AsyncNext, SlotsInit, SlotsNext, PTL DEF Spec

-----------------------------------------------------------------------------
(* The budget.                                                              *)

\* A device whose budget is over is not contacted again: no retry takes the
\* cancellation for a transient failure.
THEOREM AsyncNoContact == Spec => NoContactAfterBudget
<1>1. ASSUME AsyncInv, [Next]_vars PROVE NoContactStep
  <2>0. SUFFICES ASSUME NEW j \in Jobs, exc[j] = "cancelled"
                 PROVE  open'[j] <= open[j] /\ attempt'[j] <= attempt[j]
    BY DEF NoContactStep
  <2>1. /\ attempt \in [Jobs -> 0..MaxAttempts] /\ open \in [Jobs -> 0..1]
        /\ phase[j] \in {"close", "report"} /\ MaxAttempts \in Nat
    BY <1>1, <2>0, DeviceAssumption DEF DeviceAssumption, AsyncInv, AsyncTypeOK, Unwinding
  <2>2. CASE UNCHANGED <<open, attempt>>
    BY <2>1, <2>2
  <2>3. ASSUME NEW i \in Jobs, Work(i) \/ Acquire(i) \/ Finish(i)
        PROVE  open'[j] <= open[j] /\ attempt'[j] <= attempt[j]
    <3>1. CASE i # j
      <4>1. \/ UNCHANGED open
            \/ open' = [open EXCEPT ![i] = @ + 1]
            \/ open' = [open EXCEPT ![i] = @ - 1]
        BY <2>3 DEF Work, Transport, Local, Connect, ConnectFails, RunCommand, RunFails, Close, Retry,
                    Acquire, Begin, Finish, Ending, Build, Report, CallEnds
      <4>2. \/ UNCHANGED attempt
            \/ attempt' = [attempt EXCEPT ![i] = 1]
            \/ attempt' = [attempt EXCEPT ![i] = 0]
            \/ attempt' = [attempt EXCEPT ![i] = @ + 1]
        BY <2>3 DEF Work, Transport, Local, Connect, ConnectFails, RunCommand, RunFails, Close, Retry,
                    Acquire, Begin, Finish, Ending, Build, Report, CallEnds
      <4>3. open'[j] = open[j] /\ attempt'[j] = attempt[j]
        BY <2>1, <3>1, <4>1, <4>2
      <4>4. QED
        BY <2>0, <2>1, <4>3
    <3>2. CASE i = j
      <4>1. Close(i) \/ Report(i)
        BY <2>1, <2>3, <3>2
           DEF Work, Transport, Local, Connect, ConnectFails, RunCommand, RunFails, Retry,
               Acquire, Begin, Finish, Ending, Build
      <4>2. QED
        BY <2>0, <2>1, <3>2, <4>1 DEF Close, Report, CallEnds
    <3>3. QED
      BY <3>1, <3>2
  <2>4. QED
    BY <1>1, <2>2, <2>3 DEF Next, Cancel, Return, Tick, Terminated, vars, devVars
<1>2. QED
  BY <1>1, AsyncInit, AsyncNext, PTL DEF Spec, NoContactAfterBudget

-----------------------------------------------------------------------------
(* The contract of "collect many".                                          *)

\* The verdict of a task as the contract sees it.
Seen(v) == IF v = "raised" THEN "error" ELSE v
SeenAll == [i \in Jobs |-> Seen(verdict[i])]

LEMMA ContractInit == Init => Contract!Init
BY DEF Init, Contract!Init

LEMMA ContractNext ==
    ASSUME AsyncInv, [Next]_vars
    PROVE  [Contract!Next]_(Contract!contractVars)
<1>1. CASE UNCHANGED <<main, verdict>>
  BY <1>1 DEF Contract!contractVars
<1>2. ASSUME NEW i \in Jobs, Finish(i) PROVE Contract!Next
  <2>1. PICK o \in {"ok", "error", "raised"} :
            verdict' = [verdict EXCEPT ![i] = IF exc[i] = "cancelled" /\ o = "raised"
                                              THEN "timeout" ELSE o]
    BY <1>2, FinishGives
  <2> DEFINE v == Seen(IF exc[i] = "cancelled" /\ o = "raised" THEN "timeout" ELSE o)
  <2>2. v \in Contract!Verdicts
    BY DEF Contract!Verdicts, Seen, AsyncInv, Unwinding
  <2>3. SeenAll' = [SeenAll EXCEPT ![i] = v]
    BY <2>1 DEF SeenAll, AsyncInv, AsyncTypeOK
  <2>4. task[i] = "holding" /\ main' = main
    BY <1>2, FinishGives
  <2>5. verdict[i] = "none" /\ main # "returned"
    BY <2>4 DEF AsyncInv, VerdictInv
  <2>6. SeenAll[i] = "none"
    BY <2>5 DEF SeenAll, Seen
  <2>7. Contract!Decide(i)
    BY <2>2, <2>3, <2>4, <2>5, <2>6 DEF Contract!Decide, SeenAll, Seen
  <2>8. QED
    BY <2>7 DEF Contract!Next
<1>3. CASE Return
  BY <1>3 DEF Return, Contract!Next, Contract!Return, AsyncInv, VerdictInv
<1>4. QED
  BY <1>1, <1>2, <1>3 DEF Next, Acquire, Work, Cancel, Tick, Terminated, vars, callVars

\* Fairness apart, every behaviour of collect_all_async is one of the contract:
\* one verdict per position, never revised, a timeout only under a budget, and a
\* return only when all have one.
THEOREM AsyncImplementsContract == Spec => ContractSafety
BY ContractInit, ContractNext, AsyncInit, AsyncNext, PTL DEF Spec, ContractSafety

=============================================================================
