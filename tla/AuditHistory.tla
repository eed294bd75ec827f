---------------------------- MODULE AuditHistory ----------------------------
(***************************************************************************)
(* The audit command (cli.py) and its history database (history.py): an     *)
(* audit collects every device, runs the checks, compares the result with   *)
(* the last one stored (drift), stores its own, and leaves with a code.     *)
(*                                                                          *)
(* Audits overlap: cron starts one every hour beside those people start.    *)
(* The database is SQLite: one writer at a time, and what a transaction     *)
(* inserted is seen by nobody before it commits.  Every audit is of the     *)
(* whole inventory; what a rule decides, and the git snapshot at the end,   *)
(* are left out.                                                            *)
(***************************************************************************)
EXTENDS Integers, Sequences, FiniteSets

CONSTANTS
    Audits,         \* processes that run the command, again and again
    N,              \* how many devices the inventory has, 1..N in its order
    Checks,         \* the checks of the baseline
    Invocations,    \* the options the command may be called with
    Fleets,         \* the checks each device would pass, as they may be at a time
    Flaky,          \* the devices whose collection may fail
    Vacuous,        \* the checks that an empty configuration passes
    MaxRows         \* bound: no audit starts that could store more rows

Devices == 1..N

\* selected: the checks that pass the --check filter; it may name none that exists.
ASSUME AuditAssumption ==
    /\ "none" \notin Audits
    /\ N \in Nat \ {0}
    /\ "collection" \notin Checks
    /\ Invocations \subseteq [selected : SUBSET Checks, noFail : BOOLEAN,
                              noDrift : BOOLEAN, noHistory : BOOLEAN]
    /\ Invocations # {}
    /\ Fleets \subseteq [Devices -> SUBSET Checks]
    /\ Flaky \subseteq Devices
    /\ Vacuous \subseteq Checks
    /\ MaxRows \in Nat

VARIABLES
    health,         \* the checks each device would pass now, one of Fleets
    pc,             \* where each audit is
    options,        \* what it was called with
    reports,        \* its reports, of the devices it has collected
    blind,          \* history: the devices whose failure it took for a snapshot
    alarms,         \* the new failures it announced
    rows,           \* the committed rows of the table, in the order of their id
    inserted,       \* how many rows its open transaction has inserted
    writer,         \* the audit whose transaction holds the write lock, or "none"
    code,           \* the exit code of its last run, -1 before there is one
    compared,       \* history: the rows there were when it compared, -1 if it did not
    stored          \* history: the rows there were when it stored its own, -1 before

vars == <<health, pc, options, reports, blind, alarms, rows, inserted, writer, code,
          compared, stored>>

Names == Checks \cup {"collection"}
Report == [passed : SUBSET Names, failed : SUBSET Names]
ReportLists == UNION {[D -> Report] : D \in SUBSET Devices}
Row == [device : Devices, passed : SUBSET Names, failed : SUBSET Names]

\* A failed collection is reported as a check of its own.
CollectionFailed == [passed |-> {}, failed |-> {"collection"}]

NoReports == [d \in {} |-> CollectionFailed]
AnyInvocation == CHOOSE i \in Invocations : TRUE

Init ==
    /\ health \in Fleets
    /\ pc = [a \in Audits |-> "idle"]
    /\ options = [a \in Audits |-> AnyInvocation]
    /\ reports = [a \in Audits |-> NoReports]
    /\ blind = [a \in Audits |-> {}]
    /\ alarms = [a \in Audits |-> {}]
    /\ rows = <<>>
    /\ inserted = [a \in Audits |-> 0]
    /\ writer = "none"
    /\ code = [a \in Audits |-> -1]
    /\ compared = [a \in Audits |-> -1]
    /\ stored = [a \in Audits |-> -1]

Goto(a, p) == pc' = [pc EXCEPT ![a] = p]

\* The process is gone, and its memory with it.
Gone(a) ==
    /\ Goto(a, "idle")
    /\ options' = [options EXCEPT ![a] = AnyInvocation]
    /\ reports' = [reports EXCEPT ![a] = NoReports]
    /\ blind' = [blind EXCEPT ![a] = {}]
    /\ alarms' = [alarms EXCEPT ![a] = {}]
    /\ inserted' = [inserted EXCEPT ![a] = 0]
    /\ compared' = [compared EXCEPT ![a] = -1]
    /\ stored' = [stored EXCEPT ![a] = -1]

-----------------------------------------------------------------------------
(* The audit.                                                               *)

Start(a) ==
    /\ pc[a] = "idle"
    /\ Len(rows) + N * Cardinality({b \in Audits : pc[b] # "idle"} \cup {a}) <= MaxRows
    /\ options' \in {[options EXCEPT ![a] = i] : i \in Invocations}
    /\ Goto(a, "collect")
    /\ UNCHANGED <<health, reports, blind, alarms, rows, inserted, writer, code, compared,
                   stored>>

\* run_checks, then the filter, on a snapshot that passes the checks S.
Audited(a, S) ==
    [passed |-> options[a].selected \cap S, failed |-> options[a].selected \ S]

\* Mutant: all() of nothing is true.
OverallVacuous(r) == r.failed = {}

\* overall_pass: no check at all is not a pass.
Overall(r) == r.failed = {} /\ r.passed # {}

PutReport(a, d, r) ==
    reports' = [reports EXCEPT ![a] = [e \in DOMAIN @ \cup {d} |-> IF e = d THEN r ELSE @[e]]]

\* One device is collected and reported.  A failure whose text is empty counts as
\* none: the checks run on the empty snapshot it left.
Collect(a, d) ==
    /\ pc[a] = "collect"
    /\ d \notin DOMAIN reports[a]
    /\ \/ PutReport(a, d, Audited(a, health[d])) /\ UNCHANGED blind
       \/ d \in Flaky /\ PutReport(a, d, CollectionFailed) /\ UNCHANGED blind
       \/ /\ d \in Flaky
          /\ PutReport(a, d, Audited(a, Vacuous))
          /\ blind' = [blind EXCEPT ![a] = @ \cup {d}]
    /\ UNCHANGED <<health, pc, options, alarms, rows, inserted, writer, code,
                   compared, stored>>

\* Every snapshot is reported and the reports are written.
Render(a) ==
    /\ pc[a] = "collect"
    /\ DOMAIN reports[a] = Devices
    /\ \/ options[a].noHistory /\ Goto(a, "exit")
       \/ ~ options[a].noHistory /\ options[a].noDrift /\ Goto(a, "save")
       \/ ~ options[a].noHistory /\ ~ options[a].noDrift /\ Goto(a, "compare")
    /\ UNCHANGED <<health, options, reports, blind, alarms, rows, inserted, writer, code,
                   compared, stored>>

-----------------------------------------------------------------------------
(* Drift.                                                                   *)

\* Mutant: rows without checks are baselines too.
CompleteAny(k) == TRUE

\* A row with no checks at all cannot be a baseline.
Complete(k) == rows[k].passed \cup rows[k].failed # {}

\* get_last_runs: the last complete row of a device, if it has one.
Baseline(d) ==
    {k \in DOMAIN rows : rows[k].device = d /\ Complete(k)
        /\ \A j \in (k + 1)..Len(rows) : ~ (rows[j].device = d /\ Complete(j))}

\* Mutant: a check that is not in the baseline counts as one that passed.
NewFailuresUnseen(a) ==
    {x \in Devices \X Names : x[2] \in reports[a][x[1]].failed
        /\ \E k \in Baseline(x[1]) : x[2] \notin rows[k].failed}

\* diff_runs: what passed in the baseline and fails now, as <<device, check>>.
NewFailures(a) ==
    {x \in Devices \X Names : x[2] \in reports[a][x[1]].failed
        /\ \E k \in Baseline(x[1]) : x[2] \in rows[k].passed}

Compare(a) ==
    /\ pc[a] = "compare"
    /\ alarms' = [alarms EXCEPT ![a] = NewFailures(a)]
    /\ compared' = [compared EXCEPT ![a] = Len(rows)]
    /\ Goto(a, "save")
    /\ UNCHANGED <<health, options, reports, blind, rows, inserted, writer, code, stored>>

\* The database cannot be read: a warning, and no alarm.
CompareFails(a) ==
    /\ pc[a] = "compare"
    /\ Goto(a, "save")
    /\ UNCHANGED <<health, options, reports, blind, alarms, rows, inserted, writer, code,
                   compared, stored>>

-----------------------------------------------------------------------------
(* save_run: one transaction.                                               *)

RowOf(a, d) == [device |-> d, passed |-> reports[a][d].passed, failed |-> reports[a][d].failed]

\* The first INSERT takes the write lock, waiting until it is free.
Insert(a) ==
    /\ pc[a] = "save" /\ writer \in {a, "none"}
    /\ inserted[a] < N
    /\ inserted' = [inserted EXCEPT ![a] = @ + 1]
    /\ writer' = a
    /\ UNCHANGED <<health, pc, options, reports, blind, alarms, rows, code, compared, stored>>

\* Mutant: the transaction is tried again after it went through.
CommitRetried(a) ==
    /\ pc[a] = "save" /\ inserted[a] = N
    /\ rows' = rows \o [d \in Devices |-> RowOf(a, d)]
    /\ stored' = [stored EXCEPT ![a] = Len(rows)]
    /\ inserted' = [inserted EXCEPT ![a] = 0]
    /\ writer' = "none"
    /\ UNCHANGED <<health, pc, options, reports, blind, alarms, code, compared>>

Commit(a) ==
    /\ pc[a] = "save" /\ inserted[a] = N
    /\ rows' = rows \o [d \in Devices |-> RowOf(a, d)]
    /\ stored' = [stored EXCEPT ![a] = Len(rows)]
    /\ inserted' = [inserted EXCEPT ![a] = 0]
    /\ writer' = "none"
    /\ Goto(a, "exit")
    /\ UNCHANGED <<health, options, reports, blind, alarms, code, compared>>

\* An INSERT or the wait for the lock fails: rollback, a warning, and on.
SaveFails(a) ==
    /\ pc[a] = "save"
    /\ inserted' = [inserted EXCEPT ![a] = 0]
    /\ writer' = IF writer = a THEN "none" ELSE writer
    /\ Goto(a, "exit")
    /\ UNCHANGED <<health, options, reports, blind, alarms, rows, code, compared, stored>>

-----------------------------------------------------------------------------
(* The end of the command, and the world around it.                         *)

ExitCode(a) ==
    IF options[a].noFail THEN 0
    ELSE IF alarms[a] # {} THEN 2
    ELSE IF \A d \in Devices : Overall(reports[a][d]) THEN 0 ELSE 1

Exit(a) ==
    /\ pc[a] = "exit"
    /\ code' = [code EXCEPT ![a] = ExitCode(a)]
    /\ Gone(a)
    /\ UNCHANGED <<health, rows, writer>>

\* The process is killed, or dies of an exception that nothing catches; SQLite
\* takes back what it had inserted and releases its lock.
Die(a) ==
    /\ pc[a] # "idle"
    /\ Gone(a)
    /\ writer' = IF writer = a THEN "none" ELSE writer
    /\ code' = [code EXCEPT ![a] = -1]
    /\ UNCHANGED <<health, rows>>

\* Somebody changes the devices.
Reconfigure ==
    /\ health' \in Fleets
    /\ UNCHANGED <<pc, options, reports, blind, alarms, rows, inserted, writer, code,
                   compared, stored>>

AuditStep(a) ==
    \/ Start(a) \/ (\E d \in Devices : Collect(a, d)) \/ Render(a)
    \/ Compare(a) \/ CompareFails(a)
    \/ Insert(a) \/ Commit(a) \/ SaveFails(a)
    \/ Exit(a) \/ Die(a)

Next == (\E a \in Audits : AuditStep(a)) \/ Reconfigure

Spec == Init /\ [][Next]_vars

-----------------------------------------------------------------------------
PCs == {"idle", "collect", "compare", "save", "exit"}

AuditTypeOK ==
    /\ health \in Fleets
    /\ pc \in [Audits -> PCs]
    /\ options \in [Audits -> Invocations]
    /\ reports \in [Audits -> ReportLists]
    /\ blind \in [Audits -> SUBSET Devices]
    /\ alarms \in [Audits -> SUBSET (Devices \X Names)]
    /\ rows \in Seq(Row)
    /\ inserted \in [Audits -> 0..N]
    /\ writer \in Audits \cup {"none"}
    /\ code \in [Audits -> {-1, 0, 1, 2}]
    /\ compared \in [Audits -> Nat \cup {-1}]
    /\ stored \in [Audits -> Nat \cup {-1}]

\* The table holds whole audits, one after the other: audits that save at the
\* same time, fail half way or are killed neither mix their rows nor leave a part
\* of them, which a later audit would take for a baseline.
SavedWhole ==
    /\ rows # <<>> => rows[1].device = 1 /\ rows[Len(rows)].device = N
    /\ \A k \in 2..Len(rows) :
          rows[k].device = IF rows[k - 1].device = N THEN 1 ELSE rows[k - 1].device + 1

\* No two transactions are open, and the holder of the lock is an audit at work:
\* one that failed or died does not lock the others out.
OneWriter ==
    \A a \in Audits : (writer = a => pc[a] = "save") /\ (inserted[a] > 0 => writer = a)

\* What is announced as a regression is one: the check fails on the device as it
\* was judged, and an earlier audit stored it as passed, whatever overlaps.
AlarmsAreReal ==
    \A a \in Audits : \A x \in alarms[a] :
        /\ x[2] \in reports[a][x[1]].failed
        /\ \E k \in 1..compared[a] : rows[k].device = x[1] /\ x[2] \in rows[k].passed

\* Where the table shows a check pass in one row of a device and fail in its next
\* one, the audit that stored the second announced it, unless the first was not yet
\* there when it compared.  Rows without checks in between do not hide it.
NothingSlips ==
    \A a \in Audits : \A d \in Devices :
        (pc[a] = "exit" /\ stored[a] # -1 /\ compared[a] # -1) =>
            \A k \in 1..compared[a] : \A c \in rows[k].passed :
                (/\ rows[k].device = d
                 /\ \A j \in (k + 1)..stored[a] :
                       rows[j].device = d => rows[j].passed \cup rows[j].failed = {}
                 /\ c \in rows[stored[a] + d].failed)
                => <<d, c>> \in alarms[a]

\* Without --no-fail, code 0 says that no regression was announced, and that every
\* device has a check reported and no selected one failed.  It does not say that every
\* device was collected: where a failure was taken for a snapshot, all the selected
\* checks are ones that an empty configuration passes.
ZeroMeansCompliant ==
    [][\A a \in Audits :
          (pc[a] = "exit" /\ pc'[a] = "idle" /\ code'[a] = 0 /\ ~ options[a].noFail) =>
              /\ alarms[a] = {}
              /\ \A d \in Devices : \E c \in Checks : c \in reports[a][d].passed
              /\ \A d \in Devices : options[a].selected = reports[a][d].passed
              /\ blind[a] # {} => options[a].selected \subseteq Vacuous]_vars

\* The docstring of save_run: a failed collection cannot wipe regression
\* detection.  A check that passed when the device was last collected, and fails
\* now, is announced, however many collections failed in between.
CollectionErrorsDoNotShadow ==
    \A a \in Audits : \A d \in Devices :
        (pc[a] = "exit" /\ stored[a] # -1 /\ compared[a] # -1) =>
            \A k \in 1..compared[a] : \A c \in rows[k].passed :
                (/\ rows[k].device = d
                 /\ \A j \in (k + 1)..stored[a] :
                       rows[j].device = d => rows[j].passed = {} /\ rows[j].failed = {"collection"}
                 /\ c \in rows[stored[a] + d].failed)
                => <<d, c>> \in alarms[a]

-----------------------------------------------------------------------------
(* The table seen as a log of whole audits.                                 *)

\* How many audits a table t holds, and where the i-th keeps the row of device d.
Whole(t) == CHOOSE m \in 0..Len(t) : Len(t) = m * N
Slot(i, d) == (i - 1) * N + d

LogOf(t) == [i \in 1..Whole(t) |-> [d \in Devices |->
               [passed |-> t[Slot(i, d)].passed, failed |-> t[Slot(i, d)].failed]]]

\* Where an audit is, to those who see neither its options nor its transaction.
Stage(a) ==
    CASE pc[a] = "idle"                    -> "away"
      [] pc[a] \in {"collect", "compare"}  -> "looking"
      [] pc[a] = "save" /\ stored[a] = -1  -> "judged"
      [] OTHER                             -> "closed"

History == INSTANCE HistoryContract WITH
    log <- LogOf(rows),
    stage <- [a \in Audits |-> Stage(a)],
    found <- reports,
    told <- alarms

\* Whatever overlaps, fails or is killed, the table is a log of whole audits: each is
\* stored once or not at all, after it was compared with the log of that moment, and
\* what it announces is what fails now and passed when the device was last checked.
HistorySpec == History!Spec

=============================================================================
