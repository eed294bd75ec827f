# A specification of Audnet

Audnet audits network devices: it collects their state over SSH, evaluates
compliance rules, keeps the results and the configurations, watches for changes,
and can apply a configuration snippet to many devices with a rollback. These
TLA+ modules model the parts of it in which processes, failures and time meet:
the collection of many devices at once, the change of a device's configuration,
the audits that share one history and one git repository, the listener and its
alerts, and the compliance rules. Paths below are relative to the repository (`src/audnet/...` is
`src/src/audnet/...` in `PROJECT.json`).

Contents: [inventory](#inventory), [modules](#modules), [runs](#runs),
[bounds](#bounds), [fairness](#fairness), [proofs](#proofs),
[findings](#findings), [what is not modelled](#not-modelled), [plan](#plan).

## Inventory

| Component | State | Operations | Correct means |
|---|---|---|---|
| Device collection, `collection.py:71-162` (async twin 324-388), `snapshots.py` | attempt number, outputs read, one connection | `_do_collect_raw` (retried by tenacity), `collect_device` | only transient errors are retried; a snapshot comes from one session; every connection is closed |
| Sync fan-out, `collection.py:165-276` | thread pool, futures, start stamps, `pending`, `completed` | submit, the budget loop, join | the pool size bounds connections, a verdict is final, the budget runs from the start of the work, nothing runs after the return |
| Async fan-out, `collection.py:391-443` | tasks, semaphore, timers | `_bounded_collect`, gather | the semaphore bounds connections through cancellation, no contact after the budget, one failure does not abort the batch |
| Transports, `netmiko_adapter.py`, `asyncssh_adapter.py`, `scrapli_adapter.py` | a session | connect, run, close | close never raises, timeouts surface as exceptions |
| Remediation, `remediate.py`, `cli.py:834-1047` | running configuration and checkpoint file (on the device), three sessions, approval, results, audit log | diff, gate, checkpoint, apply, verify, rollback; sequential and parallel pipelines | nothing changes without approval, a failure is rolled back, what a rollback says is true, the pipeline stops at the first failure, changes are logged |
| Audit command, `cli.py:111-443` | options, reports, alarms, exit code | collect, check, drift, save, git snapshot | code 0 means every device compliant; alarms are true |
| History, `history.py` | one SQLite table, a row per device and audit | save, last runs, diff | whole audits only; a regression between two complete rows of a device is announced |
| Git history, `git_history.py`, `cli.py:416-437`, `446-690` | working tree, index, commits, HEAD | init, snapshot, push, diff, show, log, rollback | what an audit collected is at HEAD when it ends; rollback restores what it names; no torn file is committed |
| Alerts, `realtime.py:107-339` | dedup cache, time of the last alert per device, HTTP client | send, webhook with retries, e-mail, close | alerts are spaced as configured, and an event is dropped only for a recent alert |
| Listener, `realtime.py:347-732`, `cli.py:694-829` | syslog and SNMP sockets, poll baselines, tasks | start, stop, handle change, poll | a poll that failed is no change, a change that stays is reported by polling, whatever the order of the handlers |
| Compliance, `compliance.py`, `config.py` | none (pure) | 11 rules, dispatch | each rule decides what its text says |
| NetBox inventory, `inventory_sources/netbox.py` | page cursor | paged fetch, normalisation | every valid device once, a bounded number of pages, no foreign origin |
| Parsers and registry, `parser.py`, `vendor_registry.py` | registry filled at import | template parsing | text processing |

How they interact. The commands (`cli.py`) call the fan-outs, which run one
device collection per thread or task over a transport; the listener calls the
device collection from its event handlers and hands the outcome to the alerts.
The audit command feeds snapshots to the rules and the reports to the history
and the git repository, which overlapping audits (cron in
`docker/entrypoint.sh`) share. Remediation uses the netmiko transport by itself.

What is hard here: threads that outlive the verdict on their device; a loop
that decides on stamps it took earlier; cancellation at every await, retries
included; a device that fails half way through a change, that answers an error
as plain text, or that somebody else is changing; one device's failure in the
midst of a batch; commands that share a working tree and an index without a lock,
and die between two accesses of it; handlers of events that reach the caches of the
alerts in another order than their events; loops over configurations that carry a
section from line to line. `PROJECT.json` lists these under `hazards`, each at its
line with the properties that cover it, or the reason why none does.

## Modules

**DeviceCollection** models one call of `collect_device` or of its async twin. A *job* takes the
phases `idle -> connect -> run -> close -> (backoff -> connect ...) -> build or report -> over`.
`Connect`, `RunCommand`, `Close` are the calls of the transport; `ConnectFails` and `RunFails`
are the same calls raising any class of exception in `Faults`: `transient` (retried), `auth` (an
SSHException too, excluded before the retry list), `fatal` (caught, not retried), `unlisted`
(not caught); `Listed` and `Retryable` are the tuple of exceptions and the order of the tests
that reads it. `AfterAttempt` is tenacity's decision, `Caught` the `except` clause of
`collect_device`. What a command printed is abstracted to the number of the attempt that read
it: what the properties need is whether a snapshot mixes sessions. Once a call is left its
locals are reset, so that calls that ended the same way are the same state.

**CollectionContract** is the abstract specification of "collect many": each
position gets one verdict, which is never revised, `timeout` is a verdict
only under a budget, and the call returns after every position has its verdict. Both
fan-outs implement it.

**SyncCollection** (EXTENDS DeviceCollection) models `collect_all`. The pool: `StartWork`
(an idle thread takes the head of the queue), `DropCancelled`, `Work`, `Finish`.
The calling thread: `Submit`, `StampSubmitted`, then the loop, split at the points
where a thread can move between two reads: `SweepNow` (reads `now` and stamps
running futures), `Judge` (the overdue set), `Expire` (`cancel()` and the timeout
verdict), `PlanWait`, `WakeUp` (`wait` returns), `Harvest` (a result is
read), then `Return` (the `with` block joins the pool, the gaps are filled). The stamping
pass and the judging pass each read all futures in one step. The stamps
of a future that has left `pending` are forgotten, since nothing reads them again.
The clock is a counter of ticks that only `Tick` moves, at any time; no action
takes time by itself. **MCSyncCollection** gives its instances.

**AsyncCollection** (EXTENDS DeviceCollection) models `collect_all_async`: `Acquire` (the
semaphore, first come first served), `Work`, `Cancel` (the timer of `wait_for` raises
CancelledError at the await the collection is in: with a connection in use the finally
clause closes it, elsewhere the collection is left at once), `Finish`, `Return`
(`gather`). The phases `build` and `report` stand for the await of `wait_closed` as
well: the connection is closed by then, and what follows has no await. The transport may
hang at every await.

**RemediateDevice** models `apply_config` with its helpers and the device itself. A
configuration is a set of lines. A line of the snippet either shows itself in the running
configuration or does not (`Hidden`), as `no shutdown` does not, and may take other lines away
(`Removes`). `Faults` names everything the device may do beside working, the silent failures (an
error text in the answer to a line, a copy or a replace) included; an exception may come after
the device has done what was asked. `Drift` is another administrator, whose lines (`Foreign`)
are not those of the snippet. `args` are the arguments of the run. `SendFails` is a session that
drops at any line or after the last one, before `applied` is set (`Applied`). A rollback by
configure replace gives up the session it used, opens a third one to delete the checkpoint and
closes it (`Reopen`, `Clean`). Two history variables: `ours` is the net effect of this run on
the configuration, computed line by line by `Net`; the rollback leaves it alone, and `Undone`
compares it with what is on the device. `fate` says how a change was taken back, by configure
replace or by pushing lines, or that the device refused a copy or a replace in the text of an
answer, which the code does not read.

**Remediation** (EXTENDS RemediateDevice) models `remediate_devices`, sequential (`StartNext`,
`TakeResult`, `LetThrough`) and parallel (`StartParallel`, `TakeCompleted`, `LeavePool`) as
`max_workers` in `args` asks, and the end of the command: `Exit` and `ExitRaised` set the exit
code and write the audit log. The command itself always uses the sequential mode; in parallel
mode the same ending stands for whoever calls the function. **MCRemediation** gives its
instances.

**RemediationContract** is the abstract specification of the pipeline, without steps of a
device, sessions or threads: what has become of each device (`outcome`) and what this run
has done to it (`account`) until the call has come `back`, with the list or with an
exception. In sequential mode it is a device's `Turn` only after good outcomes of all
before it, and a device may be reported as skipped only if it was `LeftAlone`. Both modes
implement it: `outcome` is `status`, `account` is `ours`, and `Back` says how the call has
come back.

**AuditHistory** models the audit command over the database of results. A process (`Audits`)
runs the command again and again: `Start` with some options, `Collect` for each device in any
order (a report of the selected checks, the one-check report of a failed collection, or, when
the error has no text and `cli.py:330` takes the failure for a snapshot, the checks of an empty
configuration, which passes those in `Vacuous`), `Render`, `Compare` (`diff_runs` over
`get_last_runs`, here `Baseline` and `NewFailures`), then `save_run` as a transaction (`Insert`
per report, `Commit`, `SaveFails`), and `Exit` with its code. `CompareFails` and `SaveFails` are
the exceptions that the command turns into warnings; `Die` is a kill, or an exception nothing
catches, such as a report file that cannot be written. `rows` is the table in the order of the
ids. SQLite is external: one write lock, taken by the first INSERT, and rows that are seen when
they are committed. What a rule decides is an input: `health` is the set of checks a device
would pass now, and `Reconfigure` changes it. `compared`, `stored` and `blind` are history
variables: how long the table was when the audit compared and when it stored, and which devices
it has not seen without noticing. A process that ends loses its memory, so processes that may
start are alike. **MCAuditHistory** gives its instances.

**HistoryContract** is the abstract specification of the history: a `log` of whole audits
without rows, transactions, locks or options. An audit finds a report of every device, is
judged against the log of that moment (`Regressions`), and is appended to it once or not
at all. AuditHistory implements it with `LogOf(rows)`, the table cut into blocks of one row
per device: the inserts of a transaction are invisible and its commit is the `Store`. A warning
that the history could not be compared or written is a `Judge` that announces nothing, or a
`GiveUp`.

**GitHistory** models `save_config_snapshot`, `rollback_config`, `init_git_repo` and the
readers as commands of processes that share one repository. A step is one access of it:
`Truncate` and `Written` (a file is written), `AddReads`, `AddLocks`, `AddWrites`
(`index.add`: the index is read, and written back under `index.lock`), `DiffHead`,
`StatusDirty`, `StatusClean` (is there anything to commit?), `WriteTree`, `ReadParent`,
`MoveHead` (`index.commit`), `ResolveConfig` and `ResolveCommit` (a rollback resolves its
reference twice). `Raises` are the errors GitPython raises there and `Dies` is a kill, or an
error of the file system, at any step. git itself is external, modelled from how the code
uses it. A configuration is one of a few values, `torn` while it is being written.
`quiet` is a history variable: no other command ran while this one did.
**MCGitHistory** gives its instance.

**Alerts** models `AlertManager`: `DropDuplicate`, `DropLimited` and `Raise` are what
`send_alert` decides before its first await, in the order in which the code asks and
records; `BeginDelivery` to `EndDelivery` are the webhook with its retries and the e-mail;
`CloseClient` closes the client the senders share. The caches keep how long ago an entry
was made; an age beyond twice the window is as good as that. `since` is a history
variable: the ticks since an alert of an event.

**RealtimeListener** (EXTENDS Alerts) models the listener under `audnet listen`: `Start`,
`Bind`, `Exit` (the process ends, its memory is lost), `StopBegins` and `StopEnds` (`stop()`,
which awaits the listening tasks but not the handlers); `Message` for syslog and SNMP; the poll
(`PollWakes`, `PollAnswers`, `PollCut`, `PollFails`, device after device); and a handler per
event (`Begin`, `Collected`, `CollectRaises`, `Delivering`, `AlertDone`), each up to its next
await. A poll that raises or whose command ends with another status than 0 is `PollFails`. One
whose session is closed before the end has no exit status, and an error text may come with
status 0: `_poll_device` hashes what there is (`PollCut`, with the texts of `Cuts`). `Change` is
whoever reconfigures a device. `changed` and `reported` are history variables for the polling.
**MCRealtime** gives its instance.

**Compliance** models the rules. A configuration is a sequence of abstract lines, pairs of
what the patterns find in a line and its argument. The four rules whose loops carry state
(VTY blocks, unused interfaces, CDP, the banner) read it together, one line a step, each with
the variables of its loop; an operator like `MissingNow` closes the last block as the
code after the loop does, so that the verdicts hold for every prefix. The steps end a
section where the loops do; the properties end it where the device does: `IfaceBlock` is a
block that any line of the top level ends (`TopLevel`), while the loops over interfaces
go on to the next interface. The other rules are
operators on the lines read, `Passed` is the dispatch and `Results` is `run_checks`.
**MCCompliance** gives its instance.

Definitions whose comment begins with "Mutant" are plausible bugs of the
definition that follows them, one for every property: each property is violated
when its mutant takes the definition's place. No specification uses them.

## Runs

| Run | Shows |
|---|---|
| `sync_budget` | two devices, one thread, a budget of two ticks: one connection at a time through failures, retries and abandoned threads; nobody is judged overdue before the budget has passed since the worker really started, the device that ran unseen excepted; nothing is at work after the return; the call returns; and it implements CollectionContract (which contains the finality of verdicts, but no connections) |
| `sync_unseen_start` | *violated*: a device whose collection starts and ends between two looks of the loop is overdue before its budget has passed since its start |
| `sync_unbounded` | three devices, two threads, no budget, the first and last of the same name, every class of fault, two attempts, two commands: the retry contract, one session per snapshot, every session closed, each position gets a verdict of a device of its name |
| `async` | three devices, two slots, a budget of one tick, a transport that may hang: slots cover connections through cancellation, no contact after the budget, return, implementation of CollectionContract |
| `remediation` | two devices, a line that adds and one that replaces another, all twelve faults, another administrator; a dry run, a run that asks, a forced one, and a forced one with two threads: approval and dry run are respected, the checkpoint predates the change, the three sessions are released and never two are open, rolled back by configure replace means undone, any other change that did not succeed leaves the device as it was found or its checkpoint in place, the pipeline stops at the first failure, nothing is in progress when the caller goes on, RemediationContract is implemented (which contains that the results are true) |
| `remediate_cut_short` | *violated*: a session that drops between two lines is not rolled back |
| `audit_history` | two processes, two devices, two checks, three stored audits, three sets of options, failed collections with and without a text, a failing or locked database, kills: an alarm is about a check that had passed, no regression between neighbouring rows is missed, code 0 means that every selected check is reported as passed, of devices that were collected or by checks that an empty snapshot passes, HistoryContract is implemented (which contains that the table holds whole audits) |
| `audit_shadowed` | *violated*: a failed collection becomes the baseline and hides the next regression |
| `realtime` | one device, two handlers, traps and polls, answers cut short, three sets of options, stop, exit and restart: alerts are spaced, every event dropped had its alert within both windows, a poll event tells of a change or of a cut answer, never of a failed poll, and a configuration that stays is reported |
| `git_history` | two processes, two devices, three audits or rollbacks and any number of readers, one death, from an absent repository: a command that ran alone ends with its configuration at HEAD, whatever the ones before left behind; while commands do not overlap no torn file is committed, and HEAD leads to every commit made |
| `compliance` | every configuration of five lines out of sixteen: the VTY rule judges each block by its own lines, the banner rule passes only on a line of a banner; the rules of unused interfaces and of CDP are right about what they report, or pass, in every configuration in one direction, and in the other wherever the lines that excuse an interface stand in the section of one; then, too, the rules of unused interfaces and of VLANs together leave no port open |
| `compliance_disabled_timeout` | *violated*: a VTY block with `no exec-timeout` passes |

The violated runs check what the repository's docs say; see [findings](#findings).

## Bounds

- `MaxClock` stops the clock of SyncCollection. With a budget of 2 and a clock of
  3 a device can be in time, overdue while queued, overdue while running, and
  the loop's `now` can be older than the clock by more than the budget. The clock may
  stop at any time, so no property rests on its moving.
- `MinWait = 1` tick stands for the floor of 10 ms: a wait with a limit ends at the next
  tick at the earliest. The model may wake earlier or later than the
  deadline it computed, as a thread may.
- Two attempts instead of three and one or two commands instead of three: a
  retry that succeeds, one that fails again and the limit are all reached. The
  theorems hold for every number.
- One thread for two devices under a budget is the smallest pool with a device
  that waits behind an abandoned one; two threads for three devices without a budget,
  two slots for three tasks have both a queue and concurrency.
- `sync_unseen_start` has neither retries nor faults: they are not needed to run unseen.
- A snippet of two lines is the shortest that can be cut short; one line of another
  administrator suffices, since such lines are treated alike. Two devices suffice for
  both modes: one before a failure and one after it, one that raises and one half way through.
- A device starts with the line that the second line of the snippet replaces, or with the
  snippet. Both lines show in the configuration (`Hidden` is empty): lines like `no shutdown`,
  which do not, are covered by the proofs, which assume nothing of `Hidden`.
- Three stored audits are the fewest with a baseline, a row that must not hide it, and the
  regression; two processes overlap in every way a pair can. Device 1 changes and fails,
  device 2 is always in order: it is there so that an audit has more than one row.
  Of the two checks one is passed by an empty configuration and one is not. Audits that die or store
  nothing are not bounded. The options that skip the drift and the history are combined with
  others to keep the run small: a comparison that fails (`CompareFails`) stores checks that were not
  compared as well. `--no-fail` is in no run; it is an exception in one property
  (`ZeroMeansCompliant`) and the theorems hold with it.
- Both windows of the alerts are two ticks and the poll wakes every tick, so an event can come
  inside one window, inside the other, and beyond both; that the caches count to twice the
  window is kept. Two handlers are the fewest that can pass each other; with both of them busy a
  message, or the poll, waits, which real handlers do not: the theorems hold for any number. Two
  retries have a first and a last attempt. One cut text is enough, since all that matters of it
  is that it differs from the configurations. Polling is checked with alerts that are delivered
  nowhere, delivery with traps.
- In the git repository one death and three commands are enough for a command that dies,
  one that finds what it left, and a third that commits; two processes overlap in every way
  a pair can. Two devices are needed for a file in hand and another that must stay. One of
  them has a second configuration, the other may be missing from an audit.
- Five lines hold two sections with a line or two each and a section that must end the first.
  The lines are those the four loops tell apart, with a good and a bad argument each; `section` is any
  line that begins a section of another kind, so an excuse in a foreign section is among the
  configurations.

## Fairness

- SyncCollection: the calling thread and every thread of the pool are scheduled
  (weak fairness of each), and a transport call comes back, since every transport
  passes time limits to its library. Nothing is assumed of the clock, so the
  call must return also when no budget ever expires.
- AsyncCollection: the event loop runs every task that is ready and every timer that is
  due. The transport is trusted to answer only when there is no budget: with
  a budget the return of the call must come from cancellation alone.
- RealtimeListener: the loop runs tasks that are ready, every wait ends by its answer or its
  timeout, and time passes (weak fairness of `Tick`, `Bind`, `StopEnds`, `Poll` and each
  handler). Strong fairness of `PollAnswers` says that a device that is polled again
  and again answers in full again and again; without it nothing could be reported.
- Remediation, GitHistory, AuditHistory and Compliance state no liveness; at the approval prompt a
  remediation may wait for ever.

## Proofs

Eight modules named `..._proofs` hold theorems that TLAPS checks for every value of the
constants. They assume what the modules assume of their constants (`DeviceAssumption`,
`SyncAssumption`, `AsyncAssumption`, `RemediateAssumption`, `PipelineAssumption`,
`AuditAssumption`, `AlertAssumption`, `ListenerAssumption`, `GitAssumption`,
`ComplianceAssumption`: positive numbers, `Jobs = 1..N`, lines of other administrators apart
from those of the snippet, no check called "collection", marks of files apart from
configurations, no interface or text called "none").

- **DeviceCollection.** The invariant `DevInv` adds to the type and to
  `SessionsClosed` that the outputs read so far are those of the current attempt and
  that they are complete exactly when the connection was closed without an exception.
  From it: `DevTypeCorrect`, `DevSessionsClosed`, `DevOneSession` and
  `DevRetryOnlyTransient`.
- **SyncCollection.** `IInv` relates the five bookkeepings of `collect_all`. The state of a
  future matches the phase of its job (`FutureMatchesJob`); a pending future is in the queue and
  at most `MaxWorkers` run (`PoolInv`); what is neither in `pending` nor in `done` has a verdict
  (`DecidedInv`); `overdue` and `done` belong to the places of the loop that use them
  (`LoopInv`); stamps lie between the real start and the clock (`StampInv`). No property is
  inductive without the others: the limit on connections needs the match between futures and
  jobs, quiescence needs the queue, the budget needs the stamps. From it: type correctness, the
  connection limit (`SyncConnectionBound`), quiescence, the budget measured from the real start
  (`SyncBudgetKept`; its exception is what `sync_unseen_start` shows), own verdicts; with
  distinct names, the finality of verdicts and `SyncImplementsContract`, the step simulation of
  CollectionContract.
- **RemediateDevice.** `DInv` ties sessions, approval and changes to the step (`Progress`) and
  says, in `Tracking`, that the account `ours` is exactly the difference between the checkpoint
  and the running configuration, lines of others apart. Each line sent keeps it (`NetTracks`).
  From it: a device is only changed when allowed, for every combination of arguments; the
  checkpoint predates the change; sessions are released, the third one too. What a rollback
  promises comes from `HInv`, which says, unless the device has refused a copy or a replace in
  the text of an answer (`fate`), that the checkpoint is there from the first line on until the
  change is undone, and that after configure replace the device is as it was found. From it, for
  all faults: a change that did not succeed can be taken back (`RemediateRecovery`), and rolled
  back by configure replace means undone (`RemediateRolledBack`). The second strategy, after a
  replace that raised, pushes lines and can take none away; it keeps the checkpoint. If sessions
  do not drop while lines are sent (`"send" \notin Faults`), every failure is undone or says
  that the rollback failed: `RemediateFailure`; `remediate_cut_short` shows that fault breaking
  it.
- **Remediation** (in the same module, `Remediation_proofs`). A step of the pipeline is a step
  of `apply_config` or leaves the devices alone (`DevicesStep`), so the theorems above hold
  under its specification too: `PipelineDevices` and `PipelineRecovery`. `PInv` adds what the
  caller knows: a device with a result is over with that result, or it was passed by and comes
  after one that ended the run (`Settled`, `PassedBy`); in sequential mode a device is begun
  when all before it are over and none of them ends the run (`InTurn`), and the result that ends
  it is the last (`LastResult`); once the call has come back nothing is in progress
  (`CameBack`). None of the properties is inductive by itself: the stop at the first failure
  needs to know that a result which is not there yet belongs to a device that did not begin.
  From it: `PipelineTypeOK`, `PipelineStops`, `PipelineResults`, `PipelineLeavesNothing`, and
  `PipelineImplementsContract`, the step simulation of RemediationContract in both modes.
- **AuditHistory.** `Inv` adds to the type, `OneWriter` and `SavedWhole` that a report is either
  that of a failed collection or has exactly the selected checks (`ReportInv`); that a stored
  audit's rows stand where it put them and are its reports (`StageInv`); that an audit reports
  nothing of a device it was blind to but what an empty configuration passes or fails (in
  `ReportInv`); and that the alarms are exactly the regressions against the first `compared`
  rows (`AlarmInv`), which rows added later by others do not change (`RegressedKept`). The
  properties speak of the table at the exit, when others may have written to it: that is why the
  invariant must say what the comparison saw. From it: type correctness, `HistorySavedWhole`,
  `HistoryOneWriter`, `DriftAlarmsAreReal`, `DriftNothingSlips` and `ExitZeroMeansCompliant`,
  for any number of audits at a time. The guard of `Start`, which bounds the table for TLC, is
  not used. `AuditsKeepHistory` is the step simulation of HistoryContract. It needs that the
  table is made of whole blocks (`LogInv`), so that appending the rows of a transaction appends
  one entry to the log (`LogAppends`), and that the last row of a device with checks is in the
  last entry with checks of it (`RegressionsAre`).

- **AsyncCollection.** `AsyncInv` matches tasks with the phases of their collections
  (`TaskMatchesJob`) and says that a cancelled collection has only its close and its end
  before it (`Unwinding`); `SlotsHeld` counts the slots. A task holds its slot until the
  collection under it has ended, which is why the semaphore bounds connections through a
  cancellation. From it: `AsyncConnectionBound`, `AsyncNoContact`, and
  `AsyncImplementsContract`, the step simulation of the contract.
- **RealtimeListener.** `RInv` relates the caches to the alerts in both directions: a recent
  alert has an entry in both at least as fresh (`CachesKnow`), and an entry within its window
  was made by an alert or, in the dedup cache, while the rate limit still held (`CachesTrue`).
  The first gives `Spaced`, the second `DropsExcused`. `DriftIsExplained` rests on `PollsTrue`:
  what the last poll with an answer saw is what the device has, unless it changed since or the
  answer was cut short.
- **GitHistory.** `Shape` has the type, the steps each kind of command takes, and that beside a
  quiet command every process is idle. `QuietProgress` says how far a quiet command has
  come: the file in hand is in the work tree, then in the index it carries, then in
  the index on disk (`Carried`); a save has added all that is not left to do (`Saved`); a
  rollback has what the commit it reports has (`Restored`). It is claimed for quiet commands
  only and starts anew with each of them, so nothing is assumed of what others left behind. From it:
  `SaveIsAtHead` and `RollbackIsTrue`. `CommitsAreWhole` needs that neither the index, nor what
  a command carries, is torn (`Whole`), while the work tree may be. `CommitsAreKept` needs that
  the parent a command has read is HEAD still when it commits (`Chain`), which holds because
  nobody else is there to move it.

- **Compliance.** `BlocksGrow` is the lemma all the rules rest on: a line belongs to the blocks
  that are open, unless it ends them, and begins with an empty block of its own. The invariants
  say what the variables of a loop mean: the current interface or VTY block is the last one,
  still open, and they know of it what its lines so far say (`Current`, `OpenBlock`); the
  violations are those of the blocks that have ended (`Ended`, `EndedBlocks`); of the open
  banner its own delimiter, if it has one, will be the end (`BannerInv`). These speak of blocks
  as the loops end them; `OwnLines` relates them to the sections of the device: an interface's
  own section is part of its block, and they agree on every line that stands in the section of
  some interface. From it: `VtyIsJudged`, `UnusedIsJudged`, `CdpIsJudged`, `NoPortIsOpen` and
  `BannerIsJudged`, for configurations of any length; `MaxLines` is not used.

Model-checked only: what needs fairness (`Termination`, `DriftReported`, the liveness part of
CollectionContract), which is out of the prover's reach. Every invariant and every action
property of the passing runs is a theorem, and so is each refinement, fairness apart. Proved
only, by no run of their own: the type invariants; `SavedWhole` and `ResultsAreTrue`, whose
substance the refinements check; and `FailureIsRolledBack` without a drop while lines are sent,
where `remediate_cut_short` checks its counterexample.

## Findings

Where the code does not do what the repository says of it, and a run shows it;
`PROJECT.json` quotes the lines.

1. A remediation whose session drops half way through the snippet is not rolled
   back (`remediate_cut_short`).
2. A failed collection is stored as a complete run, becomes the baseline of the drift, and
   hides a regression (`audit_shadowed`).
3. `no exec-timeout` counts as a timeout of 0 minutes, so a VTY block that never times out
   passes (`compliance_disabled_timeout`).
4. The budget of a device that ran and finished between two passes of the loop runs from its
   submission, not from its start, and its good result is thrown away (`sync_unseen_start`).

More disagreements follow from single definitions of the models and have no run of their own:

- Snippets with negating lines are neither idempotent nor verifiable (`Missing`,
  `remediate.py:233`).
- The audit log is not written when a device failed (`Exit` of Remediation, `cli.py:1022`).
- An exception with an empty message makes an error snapshot that every reader takes for a
  healthy one (`Collect`, `snapshots.py:40`, `cli.py:330`); the rules that an empty configuration
  passes then pass.
- `_poll_device` hashes whatever a session had printed when it was closed (`PollCut`,
  `realtime.py:710-719`), so an outage in the midst of a poll reads as a change, and again when
  the device is back. The comments at `realtime.py:609-610` and `683-688` say that the last good
  hash is kept to avoid false change events.
- The loops over interfaces end a block at the next interface only (`IfaceLine`,
  `compliance.py:413-423`, `600-603`), so `shutdown`, an access VLAN or `no cdp enable` in a
  later section counts for the interface before it: an interface that is up passes, against the
  docstring at `compliance.py:378`.
- `save_config_snapshot` returns None "if there were no changes to commit"
  (`git_history.py:244-246`), but a file that a command which died left untracked makes every later
  audit commit (`Untracked`).

## Not modelled

- The text of commands, outputs, reports, alerts and logs; the parsers, the templates and
  the vendor registry, which appear as an operation that returns or raises; the parameters of
  the transports.
- A pool or semaphore of size 0 (`--workers` is passed on unchecked); two entries for the same
  device in one remediation, whose checkpoints would share a file name.
- Interrupts: Ctrl-C in the midst of a call, and crashes of the process. Neither
  fan-out persists anything; a crash during a remediation leaves the device as the last
  line sent left it, which `remediate_cut_short` shows already.
- Compatibility shims, models, exceptions, scripts and benchmarks.
- Audits of one device (`--device`) or of another inventory over the same history, which would
  store shorter blocks of rows; two devices of one name in it. A row whose JSON cannot be
  read.
- Of the git history: two commands that both find no repository and make it, bare
  repositories, the push (its failure is a warning), the pattern that redacts secrets, two
  devices whose names make the same file name.
- Of the listener: the text of messages and which of them tell of a change, a wall clock that is
  set back, more events at a time than `Handlers`.
- Of the rules: the patterns of other vendors and those a baseline overrides, the details of
  results, and names of interfaces that are written differently in the configuration and in
  the table of interfaces.
- The NetBox inventory: requests one after the other and a mapping of JSON to devices, a
  function of the answers; and the loading of inventories and baselines, a function of the file.

## Plan

What is left, most important first.

1. Two entries of one device in a remediation, whose checkpoints share a file name
   (`remediate.py:494`).
2. Two first runs that make the repository at the same moment (`git_history.py:168-182`).
3. An abstract specification of the git history, a line of commits of whole configurations, for
   commands that do not overlap; `NothingIsLost` and `CommittedWhole` are parts of it.

Every module has its parameters as CONSTANTS with a named assumption, one action per
operation, and no RECURSIVE operator, so that the proofs carry over when modules are composed.
