--------------------------- MODULE RemediateDevice ---------------------------
(***************************************************************************)
(* apply_config (remediate.py): read the running configuration, compute the *)
(* additive difference, ask for approval, checkpoint, send the snippet line *)
(* by line, verify, and roll back when something fails after the last line. *)
(*                                                                          *)
(* The device is external.  It accepts or rejects each line (a rejection is *)
(* text in the output, which the code does not read), may answer a copy or  *)
(* a replace with an error text, and may lose the session at any call.      *)
(* Another administrator may change its configuration at any time.          *)
(***************************************************************************)
EXTENDS Naturals, Sequences, FiniteSets, Functions

CONSTANTS
    Devices,        \* target devices
    Snippet,        \* the lines to apply, in order
    Removes,        \* the lines of a configuration each line of the snippet takes away
    Hidden,         \* lines of the snippet that do not show in a configuration ("no ...")
    Baselines,      \* running configurations a device may start with
    Foreign,        \* lines another administrator adds or deletes
    Faults,         \* what the device may do beside working, see below
    Modes           \* the arguments a run may be called with

\* "connect": _connect raises CollectionError       "crash": an exception nothing catches
\* "read": ReadException from the first show        "reject": a line is refused, in text only
\* "checkpoint": the copy raises                    "nocopy": the copy fails, in text only
\* "send": the session drops while sending          "verify": the second show raises
\* "replace": configure replace raises              "noreplace": it fails, in text only
\* "push": the line-by-line rollback raises         "uncleaned": a delete of the checkpoint fails
FaultKinds == {"connect", "crash", "read", "reject", "checkpoint", "nocopy", "send",
               "verify", "replace", "noreplace", "push", "uncleaned"}

SnippetLines == Range(Snippet)

ASSUME RemediateAssumption ==
    /\ Snippet \in Seq(SnippetLines)
    /\ DOMAIN Removes = SnippetLines
    /\ Faults \subseteq FaultKinds
    /\ Modes \subseteq [dryRun : BOOLEAN, autoApprove : BOOLEAN, forceApply : BOOLEAN,
                        workers : Nat \ {0}]
    /\ Foreign \cap (SnippetLines \cup UNION Range(Removes)) = {}

VARIABLES
    args,           \* dry_run, auto_approve, force and max_workers of this run
    step,           \* where apply_config is for the device
    sessions,       \* which of its three connections are open
    running,        \* the device's running configuration
    flash,          \* its checkpoint file: <<>> or <<configuration>>
    before,         \* current_config, as read over the first connection
    added,          \* diff.added_lines
    approved,       \* the gate let the change pass
    sent,           \* lines of the snippet sent so far
    status,         \* RemediationResult.status, "raised" for an exception
    rollbackError,  \* rollback_error is set
    ours,           \* history: lines this run added to, and took from, running
    fate            \* history: how the change was taken back, see Fates

devVars == <<args, step, sessions, running, flash, before, added, approved, sent,
             status, rollbackError, ours, fate>>

Steps == {"idle", "connect", "show", "decide", "approve", "reconnect", "checkpoint",
          "send", "verify", "replace", "reopen", "clean", "push", "over"}
Statuses == {"none", "success", "rolled_back", "failed", "dry_run", "skipped", "raised"}

\* "replaced": by configure replace;  "pushed": by the lines of the old configuration;
\* "unread": the device refused a copy or a replace in the text of its answer only.
Fates == {"none", "replaced", "pushed", "unread"}

\* The account of a device this run has not changed.
Untouched == [add |-> {}, del |-> {}]

DevInit ==
    /\ args \in Modes
    /\ step = [d \in Devices |-> "idle"]
    /\ sessions = [d \in Devices |-> {}]
    /\ running \in [Devices -> Baselines]
    /\ flash = [d \in Devices |-> <<>>]
    /\ before = [d \in Devices |-> {}]
    /\ added = [d \in Devices |-> {}]
    /\ approved = [d \in Devices |-> FALSE]
    /\ sent = [d \in Devices |-> 0]
    /\ status = [d \in Devices |-> "none"]
    /\ rollbackError = [d \in Devices |-> FALSE]
    /\ ours = [d \in Devices |-> Untouched]
    /\ fate = [d \in Devices |-> "none"]

-----------------------------------------------------------------------------
(* Helpers.                                                                 *)

\* What an accepted line makes of a configuration.
Accept(l, cfg) == (cfg \ Removes[l]) \cup ({l} \ Hidden)

\* compute_diff: membership of each desired line in the current text; nothing
\* is ever reported as to be removed.
Missing(cfg) == SnippetLines \ cfg

\* The net effect o of this run on a configuration, once old has become new.
Net(o, old, new) ==
    [add |-> (o.add \cup ((new \ old) \ o.del)) \ (old \ new),
     del |-> (o.del \cup ((old \ new) \ o.add)) \ (new \ old)]

Goto(d, s) == step' = [step EXCEPT ![d] = s]

Disconnect(d, c) == sessions' = [sessions EXCEPT ![d] = @ \ {c}]

\* apply_config is left with a result, or by an exception.
Result(d, st) ==
    /\ step' = [step EXCEPT ![d] = "over"]
    /\ status' = [status EXCEPT ![d] = st]

\* The same out of the second try block, whose finally clause disconnects.
Finish(d, st) == Result(d, st) /\ Disconnect(d, 2)

\* Deleting the checkpoint file is best effort.
Cleanup(d) ==
    \/ flash' = [flash EXCEPT ![d] = <<>>]
    \/ "uncleaned" \in Faults /\ UNCHANGED flash

\* The lines of cfg a device takes when they are pushed to it one by one, and what
\* they make of its configuration: a line that has replaced one of them goes.
Taken(cfg) == IF "reject" \in Faults THEN SUBSET cfg ELSE {cfg}
Pushed(cfg, S) == (cfg \ {l \in SnippetLines : Removes[l] \cap S # {}}) \cup S

-----------------------------------------------------------------------------
(* Reading and deciding.                                                    *)

BeginDevice(d) ==
    /\ step[d] = "idle"
    /\ Goto(d, "connect")
    /\ UNCHANGED <<args, sessions, running, flash, before, added, approved, sent,
                   status, rollbackError, ours, fate>>

\* The first connection; only CollectionError becomes a result.
FirstConnect(d) ==
    /\ step[d] = "connect"
    /\ \/ /\ Goto(d, "show")
          /\ sessions' = [sessions EXCEPT ![d] = @ \cup {1}]
          /\ UNCHANGED status
       \/ "connect" \in Faults /\ Result(d, "failed") /\ UNCHANGED sessions
       \/ "crash" \in Faults /\ Result(d, "raised") /\ UNCHANGED sessions
    /\ UNCHANGED <<running, flash, before, added, approved, sent, rollbackError, ours, fate>>

\* Mutant: the first connection is only closed when the read succeeds.
ShowRunningLeaks(d) ==
    /\ step[d] = "show"
    /\ \/ /\ Goto(d, "decide")
          /\ before' = [before EXCEPT ![d] = running[d]]
          /\ added' = [added EXCEPT ![d] = Missing(running[d])]
          /\ Disconnect(d, 1)
          /\ UNCHANGED status
       \/ "read" \in Faults /\ Result(d, "failed") /\ UNCHANGED <<before, added, sessions>>
       \/ "crash" \in Faults /\ Result(d, "raised") /\ UNCHANGED <<before, added, sessions>>
    /\ UNCHANGED <<running, flash, approved, sent, rollbackError, ours, fate>>

\* show running-config, and the finally clause that disconnects.
ShowRunning(d) ==
    /\ step[d] = "show"
    /\ \/ /\ Goto(d, "decide")
          /\ before' = [before EXCEPT ![d] = running[d]]
          /\ added' = [added EXCEPT ![d] = Missing(running[d])]
          /\ UNCHANGED status
       \/ "read" \in Faults /\ Result(d, "failed") /\ UNCHANGED <<before, added>>
       \/ "crash" \in Faults /\ Result(d, "raised") /\ UNCHANGED <<before, added>>
    /\ Disconnect(d, 1)
    /\ UNCHANGED <<running, flash, approved, sent, rollbackError, ours, fate>>

\* Mutant: dry_run is looked at only when there is nothing to apply.
DecideDryRunLate(d) ==
    /\ step[d] = "decide"
    /\ IF added[d] = {} /\ ~args.forceApply
       THEN Result(d, IF args.dryRun THEN "dry_run" ELSE "skipped")
       ELSE Goto(d, "approve") /\ UNCHANGED status
    /\ UNCHANGED <<sessions, running, flash, before, added, approved, sent,
                   rollbackError, ours, fate>>

\* Dry run, idempotent no-op, or on to the approval gate.
Decide(d) ==
    /\ step[d] = "decide"
    /\ CASE args.dryRun                            -> Result(d, "dry_run")
         [] ~args.dryRun /\ added[d] = {} /\ ~args.forceApply -> Result(d, "skipped")
         [] OTHER                              -> Goto(d, "approve") /\ UNCHANGED status
    /\ UNCHANGED <<sessions, running, flash, before, added, approved, sent,
                   rollbackError, ours, fate>>

\* The gate: automatic, or a person who says yes or no (or ends the input).
Approve(d) ==
    /\ step[d] = "approve"
    /\ \/ /\ approved' = [approved EXCEPT ![d] = TRUE]
          /\ Goto(d, "reconnect")
          /\ UNCHANGED status
       \/ ~args.autoApprove /\ Result(d, "failed") /\ UNCHANGED approved
    /\ UNCHANGED <<sessions, running, flash, before, added, sent, rollbackError, ours, fate>>

-----------------------------------------------------------------------------
(* Changing.                                                                *)

SecondConnect(d) ==
    /\ step[d] = "reconnect"
    /\ \/ /\ Goto(d, "checkpoint")
          /\ sessions' = [sessions EXCEPT ![d] = @ \cup {2}]
          /\ UNCHANGED status
       \/ "connect" \in Faults /\ Result(d, "failed") /\ UNCHANGED sessions
       \/ "crash" \in Faults /\ Result(d, "raised") /\ UNCHANGED sessions
    /\ UNCHANGED <<running, flash, before, added, approved, sent, rollbackError, ours, fate>>

\* _create_checkpoint: an exception refuses the change, whether or not the file
\* was written by then; an error in the text of the answer is not looked at.
Checkpoint(d) ==
    /\ step[d] = "checkpoint"
    /\ \/ /\ flash' = [flash EXCEPT ![d] = <<running[d]>>]
          /\ Goto(d, "send") /\ UNCHANGED <<status, sessions, fate>>
       \/ /\ "nocopy" \in Faults
          /\ fate' = [fate EXCEPT ![d] = "unread"]
          /\ Goto(d, "send") /\ UNCHANGED <<flash, status, sessions>>
       \/ /\ "checkpoint" \in Faults /\ Finish(d, "failed")
          /\ UNCHANGED flash \/ flash' = [flash EXCEPT ![d] = <<running[d]>>]
          /\ UNCHANGED fate
    /\ UNCHANGED <<running, before, added, approved, sent, rollbackError, ours>>

\* Mutant: the configuration is copied while the snippet is being sent.
SendLineCopies(d) ==
    LET l == Snippet[sent[d] + 1]
    IN  /\ step[d] = "send" /\ sent[d] < Len(Snippet)
        /\ sent' = [sent EXCEPT ![d] = @ + 1]
        /\ running' = [running EXCEPT ![d] = Accept(l, @)]
        /\ ours' = [ours EXCEPT ![d] = Net(@, running[d], Accept(l, running[d]))]
        /\ flash' = [flash EXCEPT ![d] = <<Accept(l, running[d])>>]
        /\ UNCHANGED <<step, sessions, before, added, approved, status, rollbackError, fate>>

\* send_config_set, the next line.
SendLine(d) ==
    LET l == Snippet[sent[d] + 1]
    IN  /\ step[d] = "send" /\ sent[d] < Len(Snippet)
        /\ sent' = [sent EXCEPT ![d] = @ + 1]
        /\ \/ /\ running' = [running EXCEPT ![d] = Accept(l, @)]
              /\ ours' = [ours EXCEPT ![d] = Net(@, running[d], Accept(l, running[d]))]
           \/ "reject" \in Faults /\ UNCHANGED <<running, ours>>
        /\ UNCHANGED <<step, sessions, flash, before, added, approved, status,
                       rollbackError, fate>>

\* It reads the output, leaves the configuration mode and returns: `applied`.
Applied(d) ==
    /\ step[d] = "send" /\ sent[d] = Len(Snippet)
    /\ Goto(d, "verify")
    /\ UNCHANGED <<sessions, running, flash, before, added, approved, sent, status,
                   rollbackError, ours, fate>>

\* Mutant: the checkpoint is deleted on every way out.
SendFailsCleans(d) ==
    /\ step[d] = "send" /\ "send" \in Faults
    /\ Finish(d, "failed")
    /\ Cleanup(d)
    /\ UNCHANGED <<running, before, added, approved, sent, rollbackError, ours, fate>>

\* The session drops, at any line or after the last one: `applied` is still false,
\* so the handler returns without a rollback.
SendFails(d) ==
    /\ step[d] = "send" /\ "send" \in Faults
    /\ Finish(d, "failed")
    /\ UNCHANGED <<running, flash, before, added, approved, sent, rollbackError, ours, fate>>

\* Verification of diff.added_lines in the configuration read again.
Verify(d) ==
    /\ step[d] = "verify"
    /\ \/ added[d] \subseteq running[d] /\ Finish(d, "success") /\ Cleanup(d)
       \/ /\ ~(added[d] \subseteq running[d]) \/ "verify" \in Faults
          /\ Goto(d, "replace")
          /\ UNCHANGED <<status, sessions, flash>>
    /\ UNCHANGED <<running, before, added, approved, sent, rollbackError, ours, fate>>

\* Mutant: the checkpoint is deleted before it is used.
ReplaceAfterCleanup(d) ==
    /\ step[d] = "replace"
    /\ flash' = [flash EXCEPT ![d] = <<>>]
    /\ fate' = [fate EXCEPT ![d] = "replaced"]
    /\ Goto(d, "reopen")
    /\ Disconnect(d, 2)
    /\ UNCHANGED <<running, before, added, approved, sent, status, rollbackError, ours>>

\* _rollback_config, strategy 1: configure replace from the checkpoint.  An
\* answer, whatever its text, is taken for success; with no checkpoint on the
\* device the answer can only be an error.  The session is given up either way.
Replace(d) ==
    /\ step[d] = "replace"
    /\ \/ /\ flash[d] # <<>>
          /\ running' = [running EXCEPT ![d] = Head(flash[d])]
          /\ fate' = [fate EXCEPT ![d] = "replaced"]
       \/ /\ flash[d] = <<>> \/ "noreplace" \in Faults
          /\ fate' = [fate EXCEPT ![d] = "unread"]
          /\ UNCHANGED running
    /\ Goto(d, "reopen")
    /\ Disconnect(d, 2)
    /\ UNCHANGED <<flash, before, added, approved, sent, status, rollbackError, ours>>

\* A third connection, for the checkpoint alone; whatever it raises is dropped.
Reopen(d) ==
    /\ step[d] = "reopen"
    /\ \/ /\ Goto(d, "clean")
          /\ sessions' = [sessions EXCEPT ![d] = @ \cup {3}]
          /\ UNCHANGED status
       \/ /\ Faults \cap {"connect", "crash"} # {}
          /\ Result(d, "rolled_back")
          /\ UNCHANGED sessions
    /\ UNCHANGED <<running, flash, before, added, approved, sent, rollbackError, ours, fate>>

\* Mutant: the third connection is left to itself.
CleanLeaks(d) ==
    /\ step[d] = "clean"
    /\ Cleanup(d)
    /\ Result(d, "rolled_back")
    /\ UNCHANGED <<sessions, running, before, added, approved, sent, rollbackError, ours, fate>>

Clean(d) ==
    /\ step[d] = "clean"
    /\ Cleanup(d)
    /\ Result(d, "rolled_back")
    /\ Disconnect(d, 3)
    /\ UNCHANGED <<running, before, added, approved, sent, rollbackError, ours, fate>>

\* Strategy 1 raises, after the device has replaced its configuration or before.
ReplaceFails(d) ==
    /\ step[d] = "replace" /\ "replace" \in Faults
    /\ \/ flash[d] # <<>> /\ running' = [running EXCEPT ![d] = Head(flash[d])]
       \/ UNCHANGED running
    /\ Goto(d, "push")
    /\ UNCHANGED <<sessions, flash, before, added, approved, sent, status,
                   rollbackError, ours, fate>>

\* Strategy 2: push the lines of the configuration read before the approval.
PushPrevious(d) ==
    /\ step[d] = "push" /\ before[d] # {}
    /\ \E S \in Taken(before[d]) : running' = [running EXCEPT ![d] = Pushed(@, S)]
    /\ fate' = [fate EXCEPT ![d] = IF @ = "unread" THEN @ ELSE "pushed"]
    /\ Finish(d, "rolled_back")
    /\ UNCHANGED <<flash, before, added, approved, sent, rollbackError, ours>>

\* Strategy 2 fails too: nothing to push, or the session is gone.
PushFails(d) ==
    /\ step[d] = "push"
    /\ \/ before[d] = {} /\ UNCHANGED running
       \/ /\ "push" \in Faults
          /\ \E S \in SUBSET before[d] : running' = [running EXCEPT ![d] = Pushed(@, S)]
    /\ Finish(d, "failed")
    /\ rollbackError' = [rollbackError EXCEPT ![d] = TRUE]
    /\ UNCHANGED <<flash, before, added, approved, sent, ours, fate>>

\* External: another administrator adds or deletes a line.
Drift(d) ==
    /\ step[d] # "over"
    /\ \E l \in Foreign :
          \/ running' = [running EXCEPT ![d] = @ \cup {l}]
          \/ running' = [running EXCEPT ![d] = @ \ {l}]
    /\ UNCHANGED <<args, step, sessions, flash, before, added, approved, sent,
                   status, rollbackError, ours, fate>>

\* The arguments of apply_config stay what they are while it runs.
ApplyStep(d) ==
    /\ \/ FirstConnect(d) \/ ShowRunning(d) \/ Decide(d) \/ Approve(d)
       \/ SecondConnect(d) \/ Checkpoint(d) \/ SendLine(d) \/ Applied(d) \/ SendFails(d)
       \/ Verify(d) \/ Replace(d) \/ Reopen(d) \/ Clean(d)
       \/ ReplaceFails(d) \/ PushPrevious(d) \/ PushFails(d)
    /\ UNCHANGED args

AllOver == (\A d \in Devices : step[d] = "over") /\ UNCHANGED devVars

DevNext == (\E d \in Devices : BeginDevice(d) \/ ApplyStep(d) \/ Drift(d)) \/ AllOver

DevSpec == DevInit /\ [][DevNext]_devVars

-----------------------------------------------------------------------------
Configs == SUBSET (SnippetLines \cup Foreign \cup UNION Baselines)

DevTypeOK ==
    /\ args \in Modes
    /\ step \in [Devices -> Steps]
    /\ sessions \in [Devices -> SUBSET {1, 2, 3}]
    /\ running \in [Devices -> Configs]
    /\ flash \in [Devices -> {<<>>} \cup {<<c>> : c \in Configs}]
    /\ before \in [Devices -> Configs]
    /\ added \in [Devices -> SUBSET SnippetLines]
    /\ approved \in [Devices -> BOOLEAN]
    /\ sent \in [Devices -> 0..Len(Snippet)]
    /\ status \in [Devices -> Statuses]
    /\ rollbackError \in [Devices -> BOOLEAN]
    /\ ours \in [Devices -> [add : Configs, del : Configs]]
    /\ fate \in [Devices -> Fates]

Touched(d) == ours[d].add # {} \/ ours[d].del # {}

\* Nothing this run did to the device is left on it.
Undone(d) == running[d] \cap ours[d].add = {} /\ ours[d].del \subseteq running[d]

\* The device is only changed when dry_run is off and the gate was passed; an
\* outcome that says nothing was done (dry run, skipped) is true.
ChangedOnlyWhenAllowed ==
    \A d \in Devices :
        Touched(d) \/ flash[d] # <<>> =>
            approved[d] /\ ~args.dryRun /\ status[d] \notin {"dry_run", "skipped"}

\* The checkpoint on the device predates every change of this run: rolling
\* back to it can never restore the broken state (the comment before applying).
CheckpointPredatesChange ==
    \A d \in Devices :
        flash[d] # <<>> =>
            /\ Head(flash[d]) \cap ours[d].add = {}
            /\ ours[d].del \subseteq Head(flash[d])

\* When apply_config is left, by a result or by an exception, no session is open;
\* nor the one the rollback opens for itself; and never are two of them open together.
SessionsReleased ==
    \A d \in Devices :
        /\ step[d] = "over" => sessions[d] = {}
        /\ Cardinality(sessions[d]) <= 1

\* "rolled_back" means the device is as this run found it, if it was by configure
\* replace.  A push of the old lines cannot take lines away, and an answer that
\* nobody reads may refuse anything: for these RecoveryPath says what is left.
RolledBackIsUndone ==
    \A d \in Devices : status[d] = "rolled_back" /\ fate[d] = "replaced" => Undone(d)

\* A failure rolls the device back, or says that the rollback failed.
FailureIsRolledBack ==
    \A d \in Devices : status[d] = "failed" => Undone(d) \/ rollbackError[d]

\* However a change ends that did not succeed, half sent, rolled back by the wrong
\* strategy or not at all, the device is as this run found it or its checkpoint is
\* still there to go back to ("fail closed rather than apply without a recovery
\* path"); unless it refused a copy or a replace in the text of its answer only.
RecoveryPath ==
    \A d \in Devices :
        status[d] \in {"failed", "rolled_back", "raised"} /\ fate[d] # "unread" =>
            Undone(d) \/ flash[d] # <<>>

=============================================================================
