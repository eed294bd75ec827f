----------------------- MODULE DeviceCollection_proofs -----------------------
(***************************************************************************)
(* Theorems about one device's collection, for every set of jobs, number of *)
(* attempts, number of slots and set of faults.                             *)
(***************************************************************************)
EXTENDS DeviceCollection, TLAPS

(***************************************************************************)
(* The inductive invariant.  SessionsClosed and OneSessionPerSnapshot are   *)
(* not inductive alone: a snapshot's slots come from one attempt because    *)
(* every slot read so far in *any* phase comes from the current attempt,    *)
(* and because a job without an exception reaches `close` only when full.   *)
(***************************************************************************)
SlotsOfAttempt ==
    \A j \in Jobs :
        /\ \A s \in 1..Len(raw[j]) : raw[j][s] = attempt[j]
        /\ phase[j] \in {"connect", "idle"} => raw[j] = <<>>
        /\ phase[j] \in {"connect", "run", "idle"} => exc[j] = "none"
        /\ phase[j] = "run" => Len(raw[j]) < NumSlots
        /\ phase[j] = "close" /\ exc[j] = "none" => Len(raw[j]) = NumSlots
        /\ phase[j] = "build" => Len(raw[j]) = NumSlots

AttemptRange ==
    \A j \in Jobs :
        /\ phase[j] = "idle" => attempt[j] = 0
        /\ phase[j] = "backoff" =>
              attempt[j] < MaxAttempts /\ exc[j] = "transient"
        /\ phase[j] \in {"connect", "run", "close", "build", "report"} =>
              attempt[j] \in 1..MaxAttempts
        /\ phase[j] = "report" => exc[j] \in Faults

DevInv == DevTypeOK /\ SessionsClosed /\ SlotsOfAttempt /\ AttemptRange

-----------------------------------------------------------------------------
(* The initial state satisfies the invariant.                               *)
LEMMA DevInitInv == DevInit => DevInv
BY DeviceAssumption
   DEF DevInit, DevInv, DevTypeOK, SessionsClosed, SlotsOfAttempt, AttemptRange,
       Phases, Outcomes

(* Every step of a job preserves it: the lemma the pool's proof reuses.     *)
LEMMA JobStepInv ==
    ASSUME NEW j \in Jobs, DevInv, Begin(j) \/ JobStep(j)
    PROVE  DevInv'
<1> USE DeviceAssumption DEF DevInv, DevTypeOK, SessionsClosed, SlotsOfAttempt,
        AttemptRange, Phases, Outcomes
<1>1. CASE Begin(j)
  BY <1>1 DEF Begin
<1>2. CASE Connect(j)
  BY <1>2 DEF Connect
<1>3. CASE ConnectFails(j)
  <2>1. PICK e \in Faults : exc' = [exc EXCEPT ![j] = e]
                           /\ phase' = [phase EXCEPT ![j] = AfterAttempt(j, e)]
    BY <1>3 DEF ConnectFails
  <2>2. /\ e # "none"
        /\ AfterAttempt(j, e) \in {"backoff", "report"}
        /\ AfterAttempt(j, e) = "backoff" => e = "transient" /\ attempt[j] < MaxAttempts
    BY DEF AfterAttempt, Retryable, Listed
  <2>3. DevTypeOK'
    BY <1>3, <2>1, <2>2 DEF ConnectFails
  <2>4. SessionsClosed'
    BY <1>3, <2>1, <2>2 DEF ConnectFails
  <2>5. SlotsOfAttempt'
    BY <1>3, <2>1, <2>2 DEF ConnectFails
  <2>6. AttemptRange'
    BY <1>3, <2>1, <2>2 DEF ConnectFails
  <2> QED
    BY <2>3, <2>4, <2>5, <2>6
<1>4. CASE RunCommand(j)
  BY <1>4 DEF RunCommand
<1>5. CASE RunFails(j)
  BY <1>5 DEF RunFails
<1>6. CASE Close(j)
  BY <1>6 DEF Close, AfterAttempt, Retryable, Listed
<1>7. CASE Retry(j)
  BY <1>7 DEF Retry
<1>8. CASE Build(j)
  <2>1. outcome' \in [Jobs -> Outcomes]
    BY <1>8 DEF Build, Surfaced
  <2> QED
    BY <1>8, <2>1 DEF Build, CallEnds
<1>9. CASE Report(j)
  BY <1>9 DEF Report, CallEnds, Surfaced, Caught
<1> QED
  BY <1>1, <1>2, <1>3, <1>4, <1>5, <1>6, <1>7, <1>8, <1>9
     DEF JobStep, Working, Ending

LEMMA DevStepInv == DevInv /\ [DevNext]_devVars => DevInv'
<1> SUFFICES ASSUME DevInv, [DevNext]_devVars PROVE DevInv'
  OBVIOUS
<1>1. CASE \E j \in Jobs : Begin(j) \/ JobStep(j)
  BY <1>1, JobStepInv
<1>2. CASE UNCHANGED devVars
  BY <1>2 DEF devVars, DevInv, DevTypeOK, SessionsClosed, SlotsOfAttempt,
              AttemptRange, Phases, Outcomes
<1> QED
  BY <1>1, <1>2 DEF DevNext, AllOver

\* The outputs, the connection and the attempt of a job belong together.
THEOREM DevInvariant == DevSpec => []DevInv
BY DevInitInv, DevStepInv, PTL DEF DevSpec

\* Type correctness of the state of one device's collection.
THEOREM DevTypeCorrect == DevSpec => []DevTypeOK
BY DevInvariant, PTL DEF DevInv

\* For any number of attempts and commands, no path through the retries leaves
\* a connection open or opens a second one (the finally clause of _do_collect_raw).
THEOREM DevSessionsClosed == DevSpec => []SessionsClosed
BY DevInvariant, PTL DEF DevInv

\* A snapshot is built from a complete set of slots of one and the same attempt.
LEMMA InvOneSession == DevInv => OneSessionPerSnapshot
BY DEF DevInv, DevTypeOK, SlotsOfAttempt, OneSessionPerSnapshot
THEOREM DevOneSession == DevSpec => []OneSessionPerSnapshot
BY DevInvariant, InvOneSession, PTL

\* A step of a job makes a new attempt only after a transient failure.
LEMMA JobStepRetries ==
    ASSUME NEW i \in Jobs, DevInv, Begin(i) \/ JobStep(i),
           NEW j \in Jobs, attempt'[j] > attempt[j], attempt[j] # 0
    PROVE  exc[j] = "transient" /\ attempt'[j] <= MaxAttempts
<1> USE DeviceAssumption DEF DevInv, DevTypeOK, AttemptRange
<1>1. i = j /\ ~UNCHANGED attempt
  BY DEF Begin, JobStep, Working, Ending, Connect, ConnectFails, RunCommand,
         RunFails, Close, Retry, Build, Report, CallEnds
<1>2. CASE Begin(i)
  BY <1>1, <1>2 DEF Begin
<1>3. CASE Retry(i)
  BY <1>1, <1>3 DEF Retry
<1>4. CASE Build(i) \/ Report(i)
  BY <1>1, <1>4 DEF Build, Report, CallEnds
<1> QED
  BY <1>1, <1>2, <1>3, <1>4
     DEF JobStep, Working, Ending, Connect, ConnectFails, RunCommand, RunFails, Close

\* The retry contract: attempts follow transient failures only, up to the limit.
THEOREM DevRetryOnlyTransient == DevSpec => RetryOnlyTransient
<1>1. DevInv /\ [DevNext]_devVars => [RetryStep]_devVars
  BY JobStepRetries DEF DevNext, AllOver, RetryStep
<1> QED
  BY <1>1, DevInvariant, PTL DEF DevSpec, RetryOnlyTransient

=============================================================================
