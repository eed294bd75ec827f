--------------------------- MODULE DeviceCollection ---------------------------
(***************************************************************************)
(* One device's collection: the retried attempt `_do_collect_raw` and the   *)
(* error boundary `collect_device` around it (collection.py).               *)
(*                                                                          *)
(* A job is one call of collect_device.  An attempt opens a connection,     *)
(* reads every command slot over it and closes it; tenacity starts another  *)
(* attempt after a transient failure.  The transport is external: it may    *)
(* return or raise at every call.                                           *)
(***************************************************************************)
EXTENDS Naturals, Sequences, FiniteSets

CONSTANTS
    Jobs,           \* the calls of collect_device
    MaxAttempts,    \* stop_after_attempt(3)
    NumSlots,       \* interfaces, version, running-config: 3
    Faults          \* the classes of exception the transport and the parser raise

ASSUME DeviceAssumption ==
    /\ MaxAttempts \in Nat \ {0}
    /\ NumSlots \in Nat \ {0}
    /\ Faults \subseteq {"transient", "auth", "fatal", "unlisted"}

VARIABLES
    phase,      \* where the job is in its collection
    attempt,    \* tenacity's attempt number, 0 before the first
    raw,        \* one entry per slot read: the attempt that read it
    open,       \* connections opened and not closed
    exc,        \* class of the exception in flight, "none" without one
    outcome     \* what collect_device gave its caller

devVars == <<phase, attempt, raw, open, exc, outcome>>

(***************************************************************************)
(* The classes of exception the code distinguishes: "transient" ones are    *)
(* retried; "auth" ones are SSHExceptions too, so only the explicit         *)
(* exclusion keeps them from being transient; "fatal" ones are caught by    *)
(* collect_device but not retried; "unlisted" ones are neither.             *)
(***************************************************************************)
\* isinstance(exc, _RETRYABLE_EXCEPTIONS): the tuple lists SSHException, of which an
\* authentication failure is a subclass.
Listed(e) == e \in {"transient", "auth"}

\* Mutant: an authentication failure is retried like any SSHException.
RetryableAuth(e) == Listed(e)

\* Mutant: whatever is not an authentication failure is retried.
RetryableUnlessAuth(e) == e # "auth"

\* @retry's predicate: auth is excluded before the tuple is consulted.
Retryable(e) == e # "auth" /\ Listed(e)

\* The except clause of collect_device: everything but "unlisted" is caught.
Caught(e) == e \in {"transient", "auth", "fatal"}

\* What reaches the caller when collect_device ends with exception e.
Surfaced(e) == IF Caught(e) THEN "error" ELSE "raised"

Phases == {"idle", "connect", "run", "close", "backoff", "build", "report", "over"}
Outcomes == {"unset", "ok", "error", "raised"}

DevInit ==
    /\ phase = [j \in Jobs |-> "idle"]
    /\ attempt = [j \in Jobs |-> 0]
    /\ raw = [j \in Jobs |-> <<>>]
    /\ open = [j \in Jobs |-> 0]
    /\ exc = [j \in Jobs |-> "none"]
    /\ outcome = [j \in Jobs |-> "unset"]

-----------------------------------------------------------------------------
\* Where the job goes once an attempt has ended with e: tenacity's decision.
AfterAttempt(j, e) ==
    CASE e = "none"                                -> "build"
      [] Retryable(e) /\ attempt[j] < MaxAttempts   -> "backoff"
      [] OTHER                                     -> "report"

\* collect_device is called: the first attempt is about to connect.
Begin(j) ==
    /\ phase[j] = "idle"
    /\ phase' = [phase EXCEPT ![j] = "connect"]
    /\ attempt' = [attempt EXCEPT ![j] = 1]
    /\ UNCHANGED <<raw, open, exc, outcome>>

\* adapter.connect returns a connection.
Connect(j) ==
    /\ phase[j] = "connect"
    /\ phase' = [phase EXCEPT ![j] = "run"]
    /\ open' = [open EXCEPT ![j] = @ + 1]
    /\ UNCHANGED <<attempt, raw, exc, outcome>>

\* adapter.connect raises (or get_commands before it): there is no connection to close.
ConnectFails(j) ==
    /\ phase[j] = "connect"
    /\ \E e \in Faults :
          /\ exc' = [exc EXCEPT ![j] = e]
          /\ phase' = [phase EXCEPT ![j] = AfterAttempt(j, e)]
    /\ UNCHANGED <<attempt, raw, open, outcome>>

\* adapter.run returns one slot; after the last one the finally clause follows.
RunCommand(j) ==
    /\ phase[j] = "run"
    /\ raw' = [raw EXCEPT ![j] = Append(@, attempt[j])]
    /\ phase' = [phase EXCEPT ![j] = IF Len(raw'[j]) = NumSlots THEN "close" ELSE "run"]
    /\ UNCHANGED <<attempt, open, exc, outcome>>

\* Mutant: an exception of run goes past the finally clause.
RunFailsNoFinally(j) ==
    /\ phase[j] = "run"
    /\ \E e \in Faults :
          /\ exc' = [exc EXCEPT ![j] = e]
          /\ phase' = [phase EXCEPT ![j] = AfterAttempt(j, e)]
    /\ UNCHANGED <<attempt, raw, open, outcome>>

\* adapter.run raises: the finally clause closes the connection.
RunFails(j) ==
    /\ phase[j] = "run"
    /\ \E e \in Faults : exc' = [exc EXCEPT ![j] = e]
    /\ phase' = [phase EXCEPT ![j] = "close"]
    /\ UNCHANGED <<attempt, raw, open, outcome>>

\* The finally clause; an error of close is logged and dropped.
Close(j) ==
    /\ phase[j] = "close"
    /\ open' = [open EXCEPT ![j] = @ - 1]
    /\ phase' = [phase EXCEPT ![j] = AfterAttempt(j, exc[j])]
    /\ UNCHANGED <<attempt, raw, exc, outcome>>

\* Mutant: the result dictionary lives outside the retried function.
RetryKeepsRaw(j) ==
    /\ phase[j] = "backoff"
    /\ phase' = [phase EXCEPT ![j] = "connect"]
    /\ attempt' = [attempt EXCEPT ![j] = @ + 1]
    /\ exc' = [exc EXCEPT ![j] = "none"]
    /\ UNCHANGED <<raw, open, outcome>>

\* The back-off sleep is over: a new attempt with its own result dictionary.
Retry(j) ==
    /\ phase[j] = "backoff"
    /\ phase' = [phase EXCEPT ![j] = "connect"]
    /\ attempt' = [attempt EXCEPT ![j] = @ + 1]
    /\ raw' = [raw EXCEPT ![j] = <<>>]
    /\ exc' = [exc EXCEPT ![j] = "none"]
    /\ UNCHANGED <<open, outcome>>

\* collect_device is left: its locals are gone.
CallEnds(j) ==
    /\ phase' = [phase EXCEPT ![j] = "over"]
    /\ attempt' = [attempt EXCEPT ![j] = 0]
    /\ raw' = [raw EXCEPT ![j] = <<>>]
    /\ exc' = [exc EXCEPT ![j] = "none"]
    /\ UNCHANGED open

\* build_snapshot parses the raw output: a snapshot, or an exception of the parser.
Build(j) ==
    /\ phase[j] = "build"
    /\ \/ outcome' = [outcome EXCEPT ![j] = "ok"]
       \/ \E e \in Faults \cap {"fatal", "unlisted"} :
              outcome' = [outcome EXCEPT ![j] = Surfaced(e)]
    /\ CallEnds(j)

\* The last attempt's exception reaches collect_device (reraise=True).
Report(j) ==
    /\ phase[j] = "report"
    /\ outcome' = [outcome EXCEPT ![j] = Surfaced(exc[j])]
    /\ CallEnds(j)

\* The steps that leave the call of collect_device in progress, and those that end it.
Working(j) ==
    \/ Connect(j) \/ ConnectFails(j) \/ RunCommand(j) \/ RunFails(j)
    \/ Close(j) \/ Retry(j)
Ending(j) == Build(j) \/ Report(j)

JobStep(j) == Working(j) \/ Ending(j)
AllOver == (\A j \in Jobs : phase[j] = "over") /\ UNCHANGED devVars

DevNext == (\E j \in Jobs : Begin(j) \/ JobStep(j)) \/ AllOver

DevFairness == \A j \in Jobs : WF_devVars(JobStep(j))
DevSpec == DevInit /\ [][DevNext]_devVars /\ DevFairness

-----------------------------------------------------------------------------
DevTypeOK ==
    /\ phase \in [Jobs -> Phases]
    /\ attempt \in [Jobs -> 0..MaxAttempts]
    /\ raw \in [Jobs -> Seq(1..MaxAttempts)]
    /\ open \in [Jobs -> 0..1]
    /\ exc \in [Jobs -> Faults \cup {"none"}]
    /\ outcome \in [Jobs -> Outcomes]

\* A connection is open exactly while an attempt uses or closes it: no path
\* through the retries leaves one behind or opens a second one.
SessionsClosed ==
    \A j \in Jobs : open[j] = IF phase[j] \in {"run", "close"} THEN 1 ELSE 0

\* A snapshot is only built from a complete set of slots, all of them read by
\* the last attempt: output of a session that broke never leaks into it.
OneSessionPerSnapshot ==
    \A j \in Jobs :
        phase[j] = "build" =>
            /\ Len(raw[j]) = NumSlots
            /\ \A s \in 1..NumSlots : raw[j][s] = attempt[j]

\* The retry contract: a new attempt follows only a transient failure, never
\* an authentication failure, and never exceeds the limit of attempts.
RetryStep ==
    \A j \in Jobs :
        attempt'[j] > attempt[j] /\ attempt[j] # 0 =>
            exc[j] = "transient" /\ attempt'[j] <= MaxAttempts
RetryOnlyTransient == [][RetryStep]_devVars

=============================================================================
