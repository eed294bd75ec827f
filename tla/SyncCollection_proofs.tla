------------------------ MODULE SyncCollection_proofs ------------------------
(***************************************************************************)
(* Theorems about collect_all, for every inventory, pool size and budget.   *)
(***************************************************************************)
EXTENDS SyncCollection, DeviceCollection_proofs, FiniteSetTheorems

(***************************************************************************)
(* The inductive invariant, in parts.                                       *)
(***************************************************************************)
SyncTypeOK ==
    /\ pc \in PCs
    /\ fut \in [Jobs -> FutureStates]
    /\ queue \in Seq(Jobs)
    /\ clock \in Nat
    /\ now \in Nat
    /\ submittedAt \in Nat
    /\ startedAt \in [Jobs -> Nat \cup {NoTime}]
    /\ pending \subseteq Jobs
    /\ overdue \subseteq Jobs
    /\ done \subseteq Jobs
    /\ waitFrom \in Nat
    /\ completed \in [Names -> Verdicts]
    /\ returned \in [Jobs -> Verdicts]
    /\ realStart \in [Jobs -> Nat \cup {NoTime}]

\* A future's state and its job's phase tell the same story.
FutureMatchesJob ==
    \A i \in Jobs :
        /\ fut[i] \in {"none", "pending", "cancelled"} => phase[i] = "idle"
        /\ fut[i] = "running" => phase[i] \notin {"idle", "over"}
        /\ fut[i] = "finished" => phase[i] = "over" /\ outcome[i] # "unset"

\* No more threads than the pool has, and no pending future is out of the queue.
PoolInv ==
    /\ Cardinality(Running) <= MaxWorkers
    /\ \A i \in Jobs : fut[i] = "pending" => \E k \in 1..Len(queue) : queue[k] = i

\* Where the calling thread is in its loop.
LoopInv ==
    /\ pc \in {"submit", "stamp_submit"} => pending = {} /\ done = {} /\ overdue = {}
    /\ pc # "submit" => \A i \in Jobs : fut[i] # "none"
    /\ pc \in {"submit", "stamp_submit"} => \A i \in Jobs : fut[i] # "cancelled"
    /\ pc # "loop" => done = {}
    /\ pc # "expire" => overdue = {}
    /\ pc \in {"judge", "expire"} => Timeout > 0
    /\ pc \in {"join", "returned"} => pending = {}
    /\ overdue \subseteq pending
    /\ pending \cap done = {}
    /\ \A i \in pending : fut[i] # "cancelled"
    /\ \A i \in done : fut[i] = "finished"

\* The stamps: a started_at entry is not older than the real start.
StampInv ==
    /\ submittedAt <= clock /\ now <= clock
    /\ \A i \in Jobs :
          /\ startedAt[i] # NoTime =>
                realStart[i] # NoTime /\ realStart[i] <= startedAt[i]
          /\ fut[i] = "running" /\ (i \in pending \/ pc \in {"submit", "stamp_submit"}) =>
                realStart[i] # NoTime
          /\ realStart[i] # NoTime => realStart[i] <= clock
          /\ fut[i] \in {"none", "pending"} => startedAt[i] = NoTime
    /\ \A i \in overdue : now - EffectiveStart(i, startedAt) >= Timeout

\* A device the loop is through with has a verdict.
DecidedInv ==
    pc \notin {"submit", "stamp_submit"} =>
        \A i \in Jobs \ (pending \cup done) : completed[NameOf[i]] # "none"

IInv ==
    /\ DevInv /\ SyncTypeOK /\ FutureMatchesJob /\ PoolInv /\ LoopInv
    /\ StampInv /\ DecidedInv

-----------------------------------------------------------------------------
LEMMA JobsFinite == IsFiniteSet(Jobs)
BY SyncAssumption, FS_Interval

LEMMA InitInv == Init => IInv
<1> SUFFICES ASSUME Init PROVE IInv
  OBVIOUS
<1> USE SyncAssumption DEF Init
<1>1. DevInv
  BY DevInitInv
<1>2. SyncTypeOK
  BY DEF SyncTypeOK, PCs, FutureStates, Verdicts, NoTime
<1>3. FutureMatchesJob
  BY DEF FutureMatchesJob, DevInit
<1>4. PoolInv
  <2>1. Running = {}
    BY DEF Running
  <2> QED
    BY <2>1, FS_EmptySet DEF PoolInv
<1>5. LoopInv /\ StampInv /\ DecidedInv
  BY DEF LoopInv, StampInv, DecidedInv, NoTime
<1> QED
  BY <1>1, <1>2, <1>3, <1>4, <1>5 DEF IInv

\* A step that leaves the devices alone preserves what is known of them.
LEMMA DevUnchanged == DevInv /\ UNCHANGED devVars => DevInv'
BY DEF devVars, DevInv, DevTypeOK, SessionsClosed, SlotsOfAttempt, AttemptRange

-----------------------------------------------------------------------------
(* The pool's threads.                                                      *)

LEMMA StartWorkInv == IInv /\ StartWork => IInv'
<1> SUFFICES ASSUME IInv, StartWork PROVE IInv'
  OBVIOUS
<1> DEFINE h == Head(queue)
<1> USE DEF IInv, StartWork, mainVars
<1>1. h \in Jobs /\ queue # <<>> /\ queue \in Seq(Jobs)
  BY DEF SyncTypeOK
<1>2. /\ Tail(queue) \in Seq(Jobs) /\ Len(Tail(queue)) = Len(queue) - 1
      /\ \A k \in 1..Len(Tail(queue)) : Tail(queue)[k] = queue[k + 1]
      /\ h = queue[1] /\ Len(queue) \in Nat
  BY <1>1
<1>3. DevInv'
  BY <1>1, JobStepInv
<1>4. SyncTypeOK'
  BY <1>1, <1>2 DEF SyncTypeOK, FutureStates
<1>5. FutureMatchesJob'
  BY <1>1 DEF FutureMatchesJob, Begin, DevInv, DevTypeOK, SyncTypeOK
<1>6. PoolInv'
  <2>1. Running' = Running \cup {h}
    BY <1>1 DEF Running, SyncTypeOK
  <2>2. IsFiniteSet(Running) /\ Cardinality(Running) \in Nat
    BY JobsFinite, FS_Subset, FS_CardinalityType DEF Running
  <2>3. Cardinality(Running') <= MaxWorkers
    <3>1. Cardinality(Running \cup {h}) =
            IF h \in Running THEN Cardinality(Running) ELSE Cardinality(Running) + 1
      BY <2>2, FS_AddElement
    <3>2. Cardinality(Running) < MaxWorkers /\ MaxWorkers \in Nat
      BY SyncAssumption
    <3> QED
      BY ONLY <2>1, <2>2, <3>1, <3>2
  <2>4. ASSUME NEW i \in Jobs, fut'[i] = "pending"
        PROVE  \E k \in 1..Len(queue') : queue'[k] = i
    <3>1. fut[i] = "pending" /\ i # h
      BY <1>1, <2>4 DEF SyncTypeOK
    <3>2. PICK k \in 1..Len(queue) : queue[k] = i
      BY <3>1 DEF PoolInv
    <3>3. k - 1 \in 1..Len(Tail(queue)) /\ Tail(queue)[k - 1] = i
      BY <1>2, <3>1, <3>2
    <3> QED
      BY <3>3
  <2> QED
    BY <2>3, <2>4 DEF PoolInv
<1>7. LoopInv'
  BY <1>1 DEF LoopInv, SyncTypeOK
<1>8. StampInv'
  <2>1. /\ submittedAt' = submittedAt /\ now' = now /\ clock' = clock
        /\ startedAt' = startedAt /\ overdue' = overdue /\ pending' = pending /\ pc' = pc
    OBVIOUS
  <2>2. realStart' = [realStart EXCEPT ![h] = clock] /\ startedAt[h] = NoTime
    BY <1>1 DEF StampInv
  <2> QED
    BY <1>1, <2>1, <2>2 DEF StampInv, SyncTypeOK, NoTime, EffectiveStart
<1>9. DecidedInv'
  BY DEF DecidedInv
<1> QED
  BY <1>3, <1>4, <1>5, <1>6, <1>7, <1>8, <1>9

LEMMA DropCancelledInv == IInv /\ DropCancelled => IInv'
<1> SUFFICES ASSUME IInv, DropCancelled PROVE IInv'
  OBVIOUS
<1> USE DEF IInv, DropCancelled, mainVars
<1>1. /\ Tail(queue) \in Seq(Jobs) /\ Len(Tail(queue)) = Len(queue) - 1
      /\ \A k \in 1..Len(Tail(queue)) : Tail(queue)[k] = queue[k + 1]
      /\ Head(queue) = queue[1] /\ Len(queue) \in Nat
  BY DEF SyncTypeOK
<1>2. DevInv' /\ SyncTypeOK' /\ FutureMatchesJob'
  BY <1>1, DevUnchanged DEF SyncTypeOK, FutureMatchesJob, devVars
<1>3. PoolInv'
  <2>1. Cardinality(Running') <= MaxWorkers
    BY DEF PoolInv, Running
  <2>2. ASSUME NEW i \in Jobs, fut'[i] = "pending"
        PROVE  \E k \in 1..Len(queue') : queue'[k] = i
    <3>1. fut[i] = "pending" /\ i # Head(queue)
      BY <2>2
    <3>2. PICK k \in 1..Len(queue) : queue[k] = i
      BY <3>1 DEF PoolInv
    <3>3. k - 1 \in 1..Len(Tail(queue)) /\ Tail(queue)[k - 1] = i
      BY <1>1, <3>1, <3>2
    <3> QED
      BY <3>3
  <2> QED
    BY <2>1, <2>2 DEF PoolInv
<1>4. LoopInv' /\ StampInv' /\ DecidedInv'
  BY DEF LoopInv, StampInv, DecidedInv, EffectiveStart
<1> QED
  BY <1>2, <1>3, <1>4

LEMMA WorkInv == ASSUME NEW i \in Jobs, IInv, Work(i) PROVE IInv'
<1> USE DEF IInv, Work, mainVars, poolVars
<1>1. DevInv'
  BY JobStepInv DEF JobStep
<1>2. FutureMatchesJob'
  BY DEF FutureMatchesJob, DevInv, DevTypeOK, Phases, SyncTypeOK, Working, Connect,
         ConnectFails, RunCommand, RunFails, Close, Retry, AfterAttempt
<1>3. SyncTypeOK' /\ PoolInv'
  BY DEF SyncTypeOK, PoolInv, Running
<1>4. LoopInv' /\ StampInv' /\ DecidedInv'
  BY DEF LoopInv, StampInv, DecidedInv, EffectiveStart
<1> QED
  BY <1>1, <1>2, <1>3, <1>4

LEMMA FinishInv == ASSUME NEW i \in Jobs, IInv, Finish(i) PROVE IInv'
<1> USE DEF IInv, Finish, mainVars
<1>1. DevInv'
  BY JobStepInv DEF JobStep
<1>2. SyncTypeOK'
  BY DEF SyncTypeOK, FutureStates
<1>3. FutureMatchesJob'
  BY DEF FutureMatchesJob, DevInv, DevTypeOK, SyncTypeOK, Ending, Build, Report,
         CallEnds, Surfaced
<1>4. PoolInv'
  <2>1. Running' = Running \ {i}
    BY DEF Running, SyncTypeOK
  <2>2. Cardinality(Running') <= Cardinality(Running)
    BY <2>1, JobsFinite, FS_Subset DEF Running
  <2>3. Cardinality(Running) \in Nat /\ Cardinality(Running') \in Nat
    BY <2>1, JobsFinite, FS_Subset, FS_CardinalityType DEF Running
  <2> QED
    BY <2>2, <2>3, SyncAssumption DEF PoolInv, SyncTypeOK
<1>5. LoopInv'
  BY DEF LoopInv, SyncTypeOK
<1>6. StampInv'
  BY DEF StampInv, EffectiveStart, SyncTypeOK
<1>7. DecidedInv'
  BY DEF DecidedInv
<1> QED
  BY <1>1, <1>2, <1>3, <1>4, <1>5, <1>6, <1>7

-----------------------------------------------------------------------------
(* The calling thread.                                                      *)

LEMMA SubmitInv == ASSUME NEW i \in Jobs, IInv, Submit(i) PROVE IInv'
<1> USE DEF IInv, Submit
<1>1. /\ Append(queue, i) \in Seq(Jobs) /\ Len(Append(queue, i)) = Len(queue) + 1
      /\ \A k \in 1..Len(queue) : Append(queue, i)[k] = queue[k]
      /\ Append(queue, i)[Len(queue) + 1] = i /\ Len(queue) \in Nat
  BY DEF SyncTypeOK
<1>2. DevInv' /\ SyncTypeOK'
  BY <1>1, DevUnchanged DEF SyncTypeOK, FutureStates, PCs
<1>3. FutureMatchesJob'
  BY DEF FutureMatchesJob, devVars, SyncTypeOK
<1>4. PoolInv'
  <2>1. Running' = Running
    BY DEF Running, SyncTypeOK
  <2>2. ASSUME NEW j \in Jobs, fut'[j] = "pending"
        PROVE  \E k \in 1..Len(queue') : queue'[k] = j
    <3>1. CASE j = i
      BY <1>1, <3>1
    <3>2. CASE j # i
      <4>1. PICK k \in 1..Len(queue) : queue[k] = j
        BY <2>2, <3>2 DEF PoolInv, SyncTypeOK
      <4> QED
        BY <1>1, <4>1
    <3> QED
      BY <3>1, <3>2
  <2> QED
    BY <2>1, <2>2 DEF PoolInv
<1>5. LoopInv'
  BY SyncAssumption DEF LoopInv, SyncTypeOK
<1>6. StampInv' /\ DecidedInv'
  BY DEF StampInv, DecidedInv, EffectiveStart, SyncTypeOK
<1> QED
  BY <1>2, <1>3, <1>4, <1>5, <1>6

\* A step of the calling thread that only moves it on in the loop keeps the
\* devices and the pool as they are.
LEMMA PoolUnchanged ==
    IInv /\ UNCHANGED <<devVars, fut, queue>> => DevInv' /\ FutureMatchesJob' /\ PoolInv'
BY DevUnchanged DEF IInv, FutureMatchesJob, PoolInv, Running, devVars

LEMMA StampSubmittedInv == IInv /\ StampSubmitted => IInv'
<1> SUFFICES ASSUME IInv, StampSubmitted PROVE IInv'
  OBVIOUS
<1> USE DEF IInv, StampSubmitted, poolVars
<1>1. DevInv' /\ FutureMatchesJob' /\ PoolInv'
  BY PoolUnchanged
<1>2. SyncTypeOK'
  BY DEF SyncTypeOK, PCs
<1>3. LoopInv' /\ StampInv' /\ DecidedInv'
  BY DEF LoopInv, StampInv, DecidedInv, SyncTypeOK, EffectiveStart
<1> QED
  BY <1>1, <1>2, <1>3

\* What stamping the running futures gives: entries not older than the real
\* start and not newer than the clock.
LEMMA StampedInv ==
    ASSUME IInv, pc \notin {"submit", "stamp_submit"}
    PROVE  /\ Stamped \in [Jobs -> Nat \cup {NoTime}]
           /\ \A i \in Jobs : Stamped[i] # NoTime =>
                 realStart[i] # NoTime /\ realStart[i] <= Stamped[i]
           /\ \A i \in Jobs : fut[i] \in {"none", "pending"} => Stamped[i] = NoTime
BY DEF IInv, Stamped, SyncTypeOK, StampInv, NoTime

LEMMA SweepNowInv == IInv /\ SweepNow => IInv'
<1> SUFFICES ASSUME IInv, SweepNow PROVE IInv'
  OBVIOUS
<1> USE DEF IInv, SweepNow, poolVars
<1>1. DevInv' /\ FutureMatchesJob' /\ PoolInv'
  BY PoolUnchanged
<1>2. SyncTypeOK'
  BY StampedInv DEF SyncTypeOK, PCs
<1>3. LoopInv' /\ DecidedInv'
  BY DEF LoopInv, DecidedInv
<1>4. StampInv'
  BY StampedInv DEF StampInv, LoopInv, SyncTypeOK
<1> QED
  BY <1>1, <1>2, <1>3, <1>4

LEMMA JudgeInv == IInv /\ Judge => IInv'
<1> SUFFICES ASSUME IInv, Judge PROVE IInv'
  OBVIOUS
<1> USE DEF IInv, Judge, poolVars
<1>1. DevInv' /\ FutureMatchesJob' /\ PoolInv'
  BY PoolUnchanged
<1>2. SyncTypeOK'
  BY StampedInv DEF SyncTypeOK, PCs
<1>3. LoopInv' /\ DecidedInv'
  BY DEF LoopInv, DecidedInv
<1>4. StampInv'
  BY StampedInv DEF StampInv, SyncTypeOK, EffectiveStart
<1> QED
  BY <1>1, <1>2, <1>3, <1>4

LEMMA ExpireInv == ASSUME NEW i \in Jobs, IInv, Expire(i) PROVE IInv'
<1> USE DEF IInv, Expire
<1>1. DevInv'
  BY DevUnchanged
<1>2. /\ startedAt' \in [Jobs -> Nat \cup {NoTime}]
      /\ realStart' \in [Jobs -> Nat \cup {NoTime}]
      /\ startedAt'[i] = NoTime /\ realStart'[i] = NoTime
      /\ \A j \in Jobs \ {i} : startedAt'[j] = startedAt[j] /\ realStart'[j] = realStart[j]
  BY DEF Forget, SyncTypeOK
<1>3. NameOf[i] \in Names
  BY DEF Names
<1>4. SyncTypeOK'
  BY <1>2, <1>3 DEF SyncTypeOK, FutureStates, Verdicts
<1>5. FutureMatchesJob'
  BY DEF FutureMatchesJob, SyncTypeOK, devVars
<1>6. PoolInv'
  <2>1. Running' = Running
    BY DEF Running, SyncTypeOK
  <2> QED
    BY <2>1 DEF PoolInv, SyncTypeOK
<1>7. LoopInv'
  BY DEF LoopInv, SyncTypeOK
<1>8. StampInv'
  BY <1>2 DEF StampInv, SyncTypeOK, EffectiveStart, LoopInv
<1>9. DecidedInv'
  BY <1>3 DEF DecidedInv, SyncTypeOK, Names
<1> QED
  BY <1>1, <1>4, <1>5, <1>6, <1>7, <1>8, <1>9

LEMMA PlanWaitInv == IInv /\ PlanWait => IInv'
<1> SUFFICES ASSUME IInv, PlanWait PROVE IInv'
  OBVIOUS
<1> USE DEF IInv, PlanWait, poolVars
<1>1. DevInv' /\ FutureMatchesJob' /\ PoolInv'
  BY PoolUnchanged
<1>2. SyncTypeOK'
  BY StampedInv DEF SyncTypeOK, PCs
<1>3. LoopInv' /\ DecidedInv'
  BY DEF LoopInv, DecidedInv
<1>4. StampInv'
  BY StampedInv DEF StampInv, SyncTypeOK
<1> QED
  BY <1>1, <1>2, <1>3, <1>4

LEMMA WakeUpInv == IInv /\ WakeUp => IInv'
<1> SUFFICES ASSUME IInv, WakeUp PROVE IInv'
  OBVIOUS
<1> USE DEF IInv, WakeUp
<1>1. DevInv' /\ FutureMatchesJob' /\ PoolInv'
  BY PoolUnchanged
<1>2. /\ startedAt' \in [Jobs -> Nat \cup {NoTime}]
      /\ realStart' \in [Jobs -> Nat \cup {NoTime}]
      /\ \A j \in done' : startedAt'[j] = NoTime /\ realStart'[j] = NoTime
      /\ \A j \in Jobs \ done' : startedAt'[j] = startedAt[j] /\ realStart'[j] = realStart[j]
  BY DEF Forget, SyncTypeOK
<1>3. SyncTypeOK'
  BY <1>2 DEF SyncTypeOK, PCs
<1>4. LoopInv'
  BY DEF LoopInv, Settled
<1>5. StampInv'
  BY <1>2 DEF StampInv, LoopInv, SyncTypeOK
<1>6. DecidedInv'
  BY DEF DecidedInv, LoopInv
<1> QED
  BY <1>1, <1>3, <1>4, <1>5, <1>6

LEMMA HarvestInv == ASSUME NEW i \in Jobs, IInv, Harvest(i) PROVE IInv'
<1> USE DEF IInv, Harvest, poolVars
<1>1. DevInv' /\ FutureMatchesJob' /\ PoolInv'
  BY PoolUnchanged
<1>2. NameOf[i] \in Names
  BY DEF Names
<1>3. SyncTypeOK'
  BY <1>2 DEF SyncTypeOK, Verdicts
<1>4. LoopInv' /\ StampInv'
  BY DEF LoopInv, StampInv, EffectiveStart
<1>5. DecidedInv'
  BY <1>2 DEF DecidedInv, SyncTypeOK, Names
<1> QED
  BY <1>1, <1>3, <1>4, <1>5

LEMMA MoveOnInv == IInv /\ (BreakLoop \/ WaitUnbounded \/ LeaveLoop) => IInv'
<1> SUFFICES ASSUME IInv, BreakLoop \/ WaitUnbounded \/ LeaveLoop PROVE IInv'
  OBVIOUS
<1> USE DEF IInv, BreakLoop, WaitUnbounded, LeaveLoop, poolVars
<1>1. DevInv' /\ FutureMatchesJob' /\ PoolInv'
  BY PoolUnchanged
<1>2. SyncTypeOK' /\ LoopInv' /\ StampInv' /\ DecidedInv'
  BY DEF SyncTypeOK, PCs, LoopInv, StampInv, DecidedInv, EffectiveStart
<1> QED
  BY <1>1, <1>2

LEMMA ReturnInv == IInv /\ Return => IInv'
<1> SUFFICES ASSUME IInv, Return PROVE IInv'
  OBVIOUS
<1> USE DEF IInv, Return, poolVars
<1>1. DevInv' /\ FutureMatchesJob' /\ PoolInv'
  BY PoolUnchanged
<1>2. \A i \in Jobs : NameOf[i] \in Names
  BY DEF Names
<1>3. SyncTypeOK'
  BY <1>2 DEF SyncTypeOK, PCs, Verdicts
<1>4. LoopInv' /\ StampInv'
  BY DEF LoopInv, StampInv, EffectiveStart
<1>5. DecidedInv'
  BY <1>2 DEF DecidedInv
<1> QED
  BY <1>1, <1>3, <1>4, <1>5

LEMMA TickInv == IInv /\ Tick => IInv'
<1> SUFFICES ASSUME IInv, Tick PROVE IInv'
  OBVIOUS
<1> USE DEF IInv, Tick, mainVars, poolVars
<1>1. DevInv' /\ FutureMatchesJob' /\ PoolInv'
  BY PoolUnchanged
<1>2. SyncTypeOK' /\ LoopInv' /\ DecidedInv'
  BY DEF SyncTypeOK, LoopInv, DecidedInv
<1>3. StampInv'
  BY DEF StampInv, SyncTypeOK, EffectiveStart, NoTime
<1> QED
  BY <1>1, <1>2, <1>3

LEMMA StutterInv == IInv /\ UNCHANGED vars => IInv'
<1> SUFFICES ASSUME IInv, UNCHANGED vars PROVE IInv'
  OBVIOUS
<1> USE DEF IInv, vars, mainVars, poolVars
<1>1. DevInv' /\ FutureMatchesJob' /\ PoolInv'
  BY PoolUnchanged
<1>2. SyncTypeOK' /\ LoopInv' /\ StampInv' /\ DecidedInv'
  BY DEF SyncTypeOK, LoopInv, StampInv, DecidedInv, EffectiveStart
<1> QED
  BY <1>1, <1>2

LEMMA StepInv == IInv /\ [Next]_vars => IInv'
<1> SUFFICES ASSUME IInv, [Next]_vars PROVE IInv'
  OBVIOUS
<1>1. CASE Main
  BY <1>1, SubmitInv, StampSubmittedInv, SweepNowInv, JudgeInv, ExpireInv, PlanWaitInv,
     WakeUpInv, HarvestInv, MoveOnInv, ReturnInv DEF Main, Loop
<1>2. CASE Pool
  BY <1>2, StartWorkInv, DropCancelledInv, WorkInv, FinishInv DEF Pool
<1>3. CASE Tick \/ Terminated \/ UNCHANGED vars
  BY <1>3, TickInv, StutterInv DEF Terminated
<1> QED
  BY <1>1, <1>2, <1>3 DEF Next

\* The futures, the pool, the stamps and the verdicts of collect_all agree.
THEOREM SyncInvariant == Spec => []IInv
BY InitInv, StepInv, PTL DEF Spec

-----------------------------------------------------------------------------
(* What the invariant gives at once.                                        *)

LEMMA ConnectedAreRunning ==
    ASSUME IInv, NEW i \in Jobs, open[i] # 0
    PROVE  fut[i] = "running"
BY DEF IInv, DevInv, SessionsClosed, FutureMatchesJob, SyncTypeOK, FutureStates

\* Type correctness of collect_all's state.
THEOREM SyncTypeCorrect == Spec => []TypeOK
<1>1. IInv => TypeOK
  BY DEF IInv, DevInv, SyncTypeOK, TypeOK
<1> QED
  BY <1>1, SyncInvariant, PTL

\* For any inventory and budget, at most max_workers connections are open, also
\* while abandoned threads are at work on devices already given up.
THEOREM SyncConnectionBound == Spec => []ConnectionsWithinWorkers
<1>1. ASSUME IInv PROVE ConnectionsWithinWorkers
  <2> DEFINE Connected == {i \in Jobs : open[i] = 1}
  <2>1. \A i \in Jobs : open[i] \in 0..1
    BY <1>1 DEF IInv, DevInv, DevTypeOK
  <2>2. Connected \subseteq Running
    BY <1>1, ConnectedAreRunning DEF Running
  <2>3. IsFiniteSet(Running)
    BY JobsFinite, FS_Subset DEF Running
  <2>4. Cardinality(Connected) <= Cardinality(Running)
    BY <2>2, <2>3, FS_Subset
  <2>5. Cardinality(Connected) \in Nat /\ Cardinality(Running) \in Nat
    BY <2>2, <2>3, FS_Subset, FS_CardinalityType
  <2>6. Cardinality(Running) <= MaxWorkers /\ MaxWorkers \in Nat
    BY <1>1, SyncAssumption DEF IInv, PoolInv
  <2>7. Cardinality(Connected) <= MaxWorkers
    BY <2>4, <2>5, <2>6
  <2> QED
    BY <2>1, <2>7 DEF ConnectionsWithinWorkers
<1> QED
  BY <1>1, SyncInvariant, PTL

\* collect_all leaves nothing behind: no thread, no connection, no queued device.
THEOREM SyncQuiescent == Spec => []QuiescentOnReturn
<1> DEFINE Joined ==
      pc = "returned" => queue = <<>> /\ Running = {} /\ \A i \in Jobs : Settled(i)
<1>1. Init => Joined
  BY DEF Init
<1>2. ASSUME IInv, Joined, [Next]_vars PROVE Joined'
  <2>1. CASE Return
    BY <1>2, <2>1 DEF IInv, PoolInv, LoopInv, SyncTypeOK, FutureStates, Return, Running,
       Settled, poolVars
  <2>2. CASE pc' = "returned" /\ pc = "returned"
    BY <1>2, <2>2 DEF IInv, SyncTypeOK, Running, Settled, Next, Main, Loop, Pool, Submit,
       StampSubmitted, SweepNow, Judge, Expire, BreakLoop, PlanWait, WaitUnbounded, WakeUp,
       Harvest, LeaveLoop, Return, StartWork, DropCancelled, Work, Finish, Tick, Terminated,
       vars, mainVars, poolVars
  <2>3. CASE pc' # "returned"
    BY <2>3
  <2>4. pc' = "returned" /\ pc # "returned" => Return
    BY <1>2 DEF IInv, Next, Main, Loop, Pool, Submit, StampSubmitted, SweepNow, Judge, Expire,
       BreakLoop, PlanWait, WaitUnbounded, WakeUp, Harvest, LeaveLoop, StartWork,
       DropCancelled, Work, Finish, Tick, Terminated, vars, mainVars
  <2> QED
    BY <2>1, <2>2, <2>3, <2>4
<1>3. IInv /\ Joined => QuiescentOnReturn
  BY ConnectedAreRunning DEF QuiescentOnReturn, Running, Settled
<1> QED
  BY <1>1, <1>2, <1>3, SyncInvariant, PTL DEF Spec

\* No device is judged overdue before its budget has passed since its real start, or
\* since its submission while it is queued; one that ran unseen is the only exception.
THEOREM SyncBudgetKept == Spec => BudgetKept
<1>1. ASSUME IInv, [Next]_vars, NEW i \in Jobs, JudgedOverdue(i)
      PROVE  \/ fut[i] = "pending" /\ clock - submittedAt >= Timeout
             \/ realStart[i] # NoTime /\ clock - realStart[i] >= Timeout
             \/ fut[i] = "finished" /\ startedAt[i] = NoTime
  <2>1. Judge
    BY <1>1 DEF JudgedOverdue, Next, Main, Loop, Pool, Submit, StampSubmitted, SweepNow,
       Expire, BreakLoop, PlanWait, WaitUnbounded, WakeUp, Harvest, LeaveLoop, Return,
       StartWork, DropCancelled, Work, Finish, Tick, Terminated, vars, mainVars
  <2>2. i \in pending /\ now - EffectiveStart(i, startedAt') >= Timeout
    BY <1>1, <2>1 DEF JudgedOverdue, Judge
  <2>3. fut[i] \in {"pending", "running", "finished"}
    BY <1>1, <2>1, <2>2 DEF IInv, LoopInv, SyncTypeOK, FutureStates, Judge
  <2>4. CASE fut[i] = "running"
    <3>1. realStart[i] # NoTime /\ realStart[i] <= startedAt'[i] /\ startedAt'[i] # NoTime
      BY <1>1, <2>1, <2>2, <2>4 DEF IInv, StampInv, SyncTypeOK, Judge, Stamped, NoTime
    <3>2. startedAt'[i] \in Nat /\ realStart[i] \in Nat
      BY <1>1, <2>1, <3>1, StampedInv DEF IInv, SyncTypeOK, Judge
    <3> QED
      BY <1>1, <2>2, <3>1, <3>2, SyncAssumption DEF IInv, StampInv, SyncTypeOK, EffectiveStart
  <2>5. CASE fut[i] # "running"
    <3>1. startedAt'[i] = startedAt[i]
      BY <2>1, <2>5 DEF Judge, Stamped
    <3>2. CASE startedAt[i] # NoTime
      BY <1>1, <2>2, <3>1, <3>2, SyncAssumption
         DEF IInv, StampInv, SyncTypeOK, EffectiveStart, NoTime
    <3>3. CASE startedAt[i] = NoTime
      BY <1>1, <2>2, <2>3, <2>5, <3>1, <3>3, SyncAssumption
         DEF IInv, StampInv, SyncTypeOK, EffectiveStart
    <3> QED
      BY <3>2, <3>3
  <2> QED
    BY <2>4, <2>5
<1>2. IInv /\ [Next]_vars => [BudgetStep]_vars
  BY <1>1 DEF BudgetStep
<1> QED
  BY <1>2, SyncInvariant, PTL DEF Spec, BudgetKept

-----------------------------------------------------------------------------
(* Where the verdicts come from.                                            *)

\* The verdict a settled future gives.
VerdictOf(j) == IF outcome[j] = "ok" THEN "ok" ELSE "error"

ProvenanceInv ==
    /\ \A n \in Names :
          /\ completed[n] = "timeout" => Timeout > 0
          /\ completed[n] \in {"ok", "error"} =>
                \E j \in Jobs : NameOf[j] = n /\ fut[j] = "finished" /\ completed[n] = VerdictOf(j)
    /\ pc = "returned" =>
          \A i \in Jobs : returned[i] = completed[NameOf[i]] /\ returned[i] # "none"

LEMMA NamesOfJobs == \A i \in Jobs : NameOf[i] \in Names
BY DEF Names

\* A finished future and its outcome do not change.
LEMMA FinishedIsFinal ==
    ASSUME IInv, [Next]_vars, NEW j \in Jobs, fut[j] = "finished"
    PROVE  fut'[j] = "finished" /\ outcome'[j] = outcome[j]
<1> USE DEF IInv, SyncTypeOK, DevInv, DevTypeOK, FutureMatchesJob
<1>1. CASE StartWork
  BY <1>1 DEF StartWork, Begin
<1>2. CASE \E i \in Jobs : Work(i)
  BY <1>2 DEF Work, Working, Connect, ConnectFails, RunCommand, RunFails, Close, Retry, poolVars
<1>3. CASE \E i \in Jobs : Finish(i)
  BY <1>3 DEF Finish, Ending, Build, Report
<1>4. CASE \E i \in Jobs : Submit(i) \/ Expire(i)
  BY <1>4 DEF Submit, Expire, devVars
<1>5. CASE UNCHANGED <<devVars, fut>>
  BY <1>5 DEF devVars
<1> QED
  BY <1>1, <1>2, <1>3, <1>4, <1>5
     DEF Next, Main, Loop, Pool, StampSubmitted, SweepNow, Judge, BreakLoop, PlanWait,
         WaitUnbounded, WakeUp, Harvest, LeaveLoop, Return, DropCancelled, Tick,
         Terminated, vars, poolVars

LEMMA ProvenanceStep == IInv /\ ProvenanceInv /\ [Next]_vars => ProvenanceInv'
<1> SUFFICES ASSUME IInv, ProvenanceInv, [Next]_vars PROVE ProvenanceInv'
  OBVIOUS
<1> USE NamesOfJobs
<1>1. CASE UNCHANGED <<completed, returned>> /\ (pc' = "returned" => pc = "returned")
  BY <1>1, FinishedIsFinal DEF ProvenanceInv, VerdictOf
<1>2. ASSUME NEW i \in Jobs, Expire(i) PROVE ProvenanceInv'
  <2>1. Timeout > 0 /\ pc # "returned" /\ pc' = pc
    BY <1>2 DEF Expire, IInv, LoopInv
  <2> QED
    BY <1>2, <2>1, FinishedIsFinal DEF ProvenanceInv, VerdictOf, Expire, IInv, SyncTypeOK
<1>3. ASSUME NEW i \in Jobs, Harvest(i) PROVE ProvenanceInv'
  <2>1. fut[i] = "finished" /\ pc' = "loop"
    BY <1>3 DEF Harvest, IInv, LoopInv
  <2>2. completed' = [completed EXCEPT ![NameOf[i]] = VerdictOf(i)]
    BY <1>3, <2>1 DEF Harvest, VerdictOf
  <2>3. fut'[i] = "finished" /\ VerdictOf(i)' = VerdictOf(i) /\ VerdictOf(i) \in {"ok", "error"}
    BY <2>1, FinishedIsFinal DEF VerdictOf
  <2>4. completed'[NameOf[i]] = VerdictOf(i)
    BY <2>2 DEF IInv, SyncTypeOK
  <2>5. ASSUME NEW n \in Names, n # NameOf[i], completed'[n] \in {"ok", "error"}
        PROVE  \E j \in Jobs : NameOf[j] = n /\ fut'[j] = "finished"
                                 /\ completed'[n] = VerdictOf(j)'
    <3>1. completed'[n] = completed[n]
      BY <2>2, <2>5
    <3>2. PICK j \in Jobs : NameOf[j] = n /\ fut[j] = "finished" /\ completed[n] = VerdictOf(j)
      BY <2>5, <3>1 DEF ProvenanceInv
    <3> QED
      BY <3>1, <3>2, FinishedIsFinal DEF VerdictOf
  <2>6. \A n \in Names : completed'[n] = "timeout" => Timeout > 0
    BY <2>2, <2>3, <2>4 DEF ProvenanceInv
  <2> QED
    BY <2>1, <2>3, <2>4, <2>5, <2>6 DEF ProvenanceInv
<1>4. CASE Return
  <2>1. \A n \in Names : completed[n] # "none"
    BY <1>4 DEF Return, IInv, LoopInv, DecidedInv, Names
  <2>2. completed' = completed
    BY <1>4, <2>1 DEF Return, IInv, SyncTypeOK
  <2>3. \A i \in Jobs : returned'[i] = completed[NameOf[i]] /\ returned'[i] # "none"
    BY <1>4, <2>1, <2>2 DEF Return
  <2> QED
    BY <1>4, <2>2, <2>3, FinishedIsFinal DEF ProvenanceInv, VerdictOf
<1> QED
  BY <1>1, <1>2, <1>3, <1>4
     DEF Next, Main, Loop, Pool, Submit, StampSubmitted, SweepNow, Judge, BreakLoop,
         PlanWait, WaitUnbounded, WakeUp, LeaveLoop, StartWork, DropCancelled, Work,
         Finish, Tick, Terminated, vars, mainVars

LEMMA ProvenanceInvariant == Spec => []ProvenanceInv
<1>1. Init => ProvenanceInv
  BY DEF Init, ProvenanceInv
<1> QED
  BY <1>1, ProvenanceStep, SyncInvariant, PTL DEF Spec

\* Every verdict returned is that of a future of a device of the same name, or
\* a timeout under a budget; names may repeat.
THEOREM SyncReturnedIsOwn == Spec => []ReturnedIsOwn
<1>1. IInv /\ ProvenanceInv => ReturnedIsOwn
  BY NamesOfJobs DEF ProvenanceInv, ReturnedIsOwn, VerdictOf, IInv, SyncTypeOK, Verdicts
<1> QED
  BY <1>1, SyncInvariant, ProvenanceInvariant, PTL

-----------------------------------------------------------------------------
(* With distinct names every device has its own verdict.                    *)

UndecidedInv ==
    /\ \A i \in pending \cup done : completed[NameOf[i]] = "none"
    /\ pc \in {"submit", "stamp_submit"} => \A n \in Names : completed[n] = "none"

LEMMA UndecidedStep ==
    ASSUME DistinctNames, IInv, UndecidedInv, [Next]_vars
    PROVE  UndecidedInv' /\ VerdictStep
<1> USE NamesOfJobs DEF UndecidedInv, VerdictStep
<1>1. CASE UNCHANGED <<completed, pending, done>> /\ (pc' = "stamp_submit" => pc = "submit")
           /\ (pc' = "submit" => pc = "submit")
  BY <1>1
<1>2. CASE StampSubmitted
  BY <1>2 DEF StampSubmitted, IInv, LoopInv
<1>3. CASE WakeUp
  BY <1>3 DEF WakeUp
<1>4. ASSUME NEW i \in Jobs, Expire(i) PROVE UndecidedInv' /\ VerdictStep
  BY <1>4 DEF Expire, IInv, LoopInv, SyncTypeOK, DistinctNames
<1>5. ASSUME NEW i \in Jobs, Harvest(i) PROVE UndecidedInv' /\ VerdictStep
  BY <1>5 DEF Harvest, IInv, LoopInv, SyncTypeOK, DistinctNames
<1>6. CASE Return
  BY <1>6 DEF Return, IInv, LoopInv, SyncTypeOK
<1> QED
  BY <1>1, <1>2, <1>3, <1>4, <1>5, <1>6
     DEF Next, Main, Loop, Pool, Submit, SweepNow, Judge, BreakLoop, PlanWait,
         WaitUnbounded, LeaveLoop, StartWork, DropCancelled, Work, Finish, Tick,
         Terminated, vars, mainVars

LEMMA UndecidedInvariant == ASSUME DistinctNames PROVE Spec => []UndecidedInv
<1>1. Init => UndecidedInv
  BY DEF Init, UndecidedInv
<1>2. IInv /\ UndecidedInv /\ [Next]_vars => UndecidedInv'
  BY UndecidedStep
<1> QED
  BY <1>1, <1>2, SyncInvariant, PTL DEF Spec

\* A device's verdict is never revised, by a late thread or by the fill-in.
THEOREM SyncVerdictFinal == ASSUME DistinctNames PROVE Spec => VerdictFinal
<1>1. IInv /\ UndecidedInv /\ [Next]_vars => [VerdictStep]_vars
  BY UndecidedStep
<1> QED
  BY <1>1, SyncInvariant, UndecidedInvariant, PTL DEF Spec, VerdictFinal

-----------------------------------------------------------------------------
(* Refinement.                                                              *)

LEMMA ContractStep ==
    ASSUME DistinctNames, IInv, UndecidedInv, [Next]_vars
    PROVE  [Contract!Next]_(Contract!contractVars)
<1> USE NamesOfJobs
<1> DEFINE verdict == [i \in Jobs |-> completed[NameOf[i]]]
<1>1. CASE UNCHANGED completed /\ (pc' = "returned" <=> pc = "returned")
  BY <1>1 DEF Contract!contractVars
<1>2. ASSUME NEW i \in Jobs, NEW v \in Contract!Verdicts,
             i \in pending \cup done,
             completed' = [completed EXCEPT ![NameOf[i]] = v],
             pc # "returned", pc' # "returned"
      PROVE  Contract!Decide(i)
  <2>1. verdict[i] = "none"
    BY <1>2 DEF UndecidedInv
  <2>2. verdict' = [verdict EXCEPT ![i] = v]
    BY <1>2 DEF IInv, SyncTypeOK, DistinctNames
  <2> QED
    BY <1>2, <2>1, <2>2 DEF Contract!Decide
<1>3. ASSUME NEW i \in Jobs, Expire(i) PROVE Contract!Decide(i)
  <2>1. "timeout" \in Contract!Verdicts
    BY <1>3 DEF Expire, IInv, LoopInv, Contract!Verdicts
  <2> QED
    BY <1>2, <1>3, <2>1 DEF Expire, IInv, LoopInv
<1>4. ASSUME NEW i \in Jobs, Harvest(i) PROVE Contract!Decide(i)
  <2>1. fut[i] = "finished" /\ i \in done /\ pc = "loop" /\ pc' = "loop"
    BY <1>4 DEF Harvest, IInv, LoopInv
  <2>2. completed' = [completed EXCEPT ![NameOf[i]] = VerdictOf(i)]
    BY <1>4, <2>1 DEF Harvest, VerdictOf
  <2>3. VerdictOf(i) \in Contract!Verdicts
    BY DEF VerdictOf, Contract!Verdicts
  <2> QED
    BY <1>2, <2>1, <2>2, <2>3
<1>5. CASE Return
  <2>1. \A i \in Jobs : completed[NameOf[i]] # "none"
    BY <1>5 DEF Return, IInv, LoopInv, DecidedInv
  <2>2. completed' = completed
    BY <1>5, <2>1 DEF Return, IInv, SyncTypeOK, Names
  <2> QED
    BY <1>5, <2>1, <2>2 DEF Return, Contract!Next, Contract!Return
<1> QED
  BY <1>1, <1>3, <1>4, <1>5
     DEF Contract!Next, Next, Main, Loop, Pool, Submit, StampSubmitted, SweepNow, Judge,
         BreakLoop, PlanWait, WaitUnbounded, WakeUp, LeaveLoop, StartWork, DropCancelled,
         Work, Finish, Tick, Terminated, vars, mainVars

\* For any inventory of distinct names collect_all implements, step by step, the
\* contract of "collect many": one final verdict each, all of them before the return.
THEOREM SyncImplementsContract == ASSUME DistinctNames PROVE Spec => ContractSafety
<1>1. Init => Contract!Init
  BY NamesOfJobs DEF Init, Contract!Init
<1>2. IInv /\ UndecidedInv /\ [Next]_vars => [Contract!Next]_(Contract!contractVars)
  BY ContractStep
<1> QED
  BY <1>1, <1>2, SyncInvariant, UndecidedInvariant, PTL DEF Spec, ContractSafety

=============================================================================
