----------------------------- MODULE GitHistory -----------------------------
(***************************************************************************)
(* The git history of configurations (git_history.py): audits commit what    *)
(* they collected, git-rollback commits an older configuration again, the    *)
(* other commands read.  Each is a process of its own and nothing excludes    *)
(* another: they share the work tree, the index and HEAD, and may be killed   *)
(* anywhere.                                                                *)
(*                                                                          *)
(* A step is one access of the repository.  What GitPython does in it comes   *)
(* from how the code uses it: index.add reads the index and later writes it   *)
(* back under a lock file, index.commit makes a tree of the index on disk,    *)
(* reads HEAD for the parent and moves HEAD without looking again.  Messages, *)
(* times, the push (whose failure is a warning) and the bytes of a            *)
(* configuration are left out, and so is the redaction of secrets.            *)
(***************************************************************************)
EXTENDS Integers, Sequences, FiniteSets

CONSTANTS
    Procs,          \* bound: as many commands run at a time
    Files,          \* the file of each device
    Keep,           \* .gitkeep
    Configs,        \* configurations, redacted
    Offers,         \* what an audit may have collected: per file, or "absent"
    MaxCommands,    \* bound: so many audits and rollbacks
    MaxFailures     \* bound: so many commands die

\* Of a file: it is not there, or is being written.
Marks == {"absent", "torn"}
Paths == Files \cup {Keep}
Texts == Configs \cup Marks

ASSUME GitAssumption ==
    /\ Keep \notin Files
    /\ "empty" \in Configs /\ Configs \cap Marks = {}
    /\ Offers \subseteq [Files -> Configs \cup {"absent"}]
    /\ MaxCommands \in Nat
    /\ MaxFailures \in Nat

VARIABLES
    repo,           \* "absent" or "there"
    work,           \* the work tree
    index,          \* the index on disk
    locked,         \* whether index.lock exists
    commits,        \* every commit ever made: its tree and its parent
    head,           \* the commit HEAD names, 0 while the branch is unborn
    proc,           \* the command each process runs, NoCommand if none
    begun,          \* bound: how many audits and rollbacks began
    failures,       \* bound: how often a command died
    overlapped      \* history: two commands have run at the same time

repoVars == <<repo, work, index, locked, commits, head>>
countVars == <<begun, failures>>
vars == <<repoVars, proc, countVars, overlapped>>

NoFiles == [f \in Paths |-> "absent"]
Nothing == [f \in Files |-> "absent"]

\* The files of which w has a configuration.
Wanted(w) == {f \in Files : w[f] # "absent"}

\* at: its next step; kind: "save", "rollback" or "read"; want: what it is to
\* store; todo: the files still to be added, file: the one in hand; mine: the
\* index as it read it; ref: the commit a rollback names, 0 for HEAD~1; target:
\* the commit it reports; parent: HEAD as it read it; seeding: the commit it is
\* making is the initial one; quiet (history): no other command ran meanwhile.
NoCommand == [at |-> "idle", kind |-> "read", want |-> Nothing, todo |-> {}, file |-> Keep,
              mine |-> NoFiles, ref |-> 0, target |-> 0, parent |-> 0,
              seeding |-> FALSE, quiet |-> FALSE]

\* The tree of a commit; the unborn branch has none.
TreeOf(c) == IF c = 0 THEN NoFiles ELSE commits[c].tree

Init ==
    /\ repo = "absent" /\ work = NoFiles /\ index = NoFiles /\ locked = FALSE
    /\ commits = <<>> /\ head = 0
    /\ proc = [p \in Procs |-> NoCommand]
    /\ begun = 0 /\ failures = 0
    /\ overlapped = FALSE

At(p, step) == proc[p].at = step

\* The command of p is now r.
Becomes(p, r) == proc' = [proc EXCEPT ![p] = r] /\ UNCHANGED <<countVars, overlapped>>

Goto(p, step) == Becomes(p, [proc[p] EXCEPT !.at = step])

Others(p) == {q \in Procs \ {p} : ~At(q, "idle")}

-----------------------------------------------------------------------------
(* A command begins, and opens or makes the repository.                     *)

Begins(p, command) ==
    /\ At(p, "idle")
    /\ proc' = [q \in Procs |->
                   IF q = p THEN [command EXCEPT !.at = "open", !.quiet = (Others(p) = {})]
                            ELSE [proc[q] EXCEPT !.quiet = FALSE]]
    /\ overlapped' = (overlapped \/ Others(p) # {})
    /\ UNCHANGED <<repoVars, failures>>

\* One of the commands that the bound is for.
Counted(p, command) ==
    /\ begun < MaxCommands
    /\ begun' = begun + 1
    /\ Begins(p, command)

\* The audit command: the configurations that were collected without an error.
BeginSave(p) ==
    \E offer \in Offers :
        Counted(p, [NoCommand EXCEPT !.kind = "save", !.want = offer, !.todo = Wanted(offer)])

\* git-rollback --no-dry-run of one device, to HEAD~1 or to a commit by its name.
BeginRollback(p) ==
    \E f \in Files : \E c \in {0} \cup DOMAIN commits :
        Counted(p, [NoCommand EXCEPT !.kind = "rollback", !.file = f, !.ref = c])

\* history-show, -log and -diff, and a rollback that is only a rehearsal.
BeginRead(p) == Begins(p, NoCommand) /\ UNCHANGED begun

\* r with the repository open; a command that reads is as good as over.
Opened(r) == CASE r.kind = "save"     -> [r EXCEPT !.at = "next"]
               [] r.kind = "rollback" -> [r EXCEPT !.at = "resolve"]
               [] r.kind = "read"     -> NoCommand

\* An existing repository is opened as it is, with or without a commit.
OpenExisting(p) ==
    /\ At(p, "open") /\ repo = "there"
    /\ Becomes(p, Opened(proc[p]))
    /\ UNCHANGED repoVars

\* Repo.init; the initial commit comes next.  (That two find no repository at
\* the same moment, and both make it, is left out.)
InitRepo(p) ==
    /\ At(p, "open") /\ repo = "absent"
    /\ repo' = "there"
    /\ Becomes(p, [proc[p] EXCEPT !.at = "touch", !.seeding = TRUE])
    /\ UNCHANGED <<work, index, locked, commits, head>>

TouchKeep(p) ==
    /\ At(p, "touch")
    /\ work' = [work EXCEPT ![Keep] = "empty"]
    /\ Goto(p, "add")
    /\ UNCHANGED <<repo, index, locked, commits, head>>

-----------------------------------------------------------------------------
(* A file is written and added; the lock is held for the write alone.       *)

\* Opening the file for writing truncates it.
Truncate(f) ==
    /\ work' = [work EXCEPT ![f] = "torn"]
    /\ UNCHANGED <<repo, index, locked, commits, head>>

\* The next device of the audit.
WriteNext(p) ==
    \E f \in proc[p].todo :
        /\ At(p, "next")
        /\ Truncate(f)
        /\ Becomes(p, [proc[p] EXCEPT !.at = "write", !.file = f])

WriteBack(p) ==
    /\ At(p, "restore")
    /\ Truncate(proc[p].file)
    /\ Goto(p, "write")

Written(p) ==
    /\ At(p, "write")
    /\ work' = [work EXCEPT ![proc[p].file] = proc[p].want[proc[p].file]]
    /\ Goto(p, "add")
    /\ UNCHANGED <<repo, index, locked, commits, head>>

\* Mutant: everything in the work tree is added, as git add -A would.
AddReadsAll(p) ==
    /\ At(p, "add")
    /\ Becomes(p, [proc[p] EXCEPT !.at = "lock", !.mine = work])
    /\ UNCHANGED repoVars

\* index.add: the file as it is by now, in the index as it is by now.
AddReads(p) ==
    /\ At(p, "add")
    /\ LET f == IF proc[p].seeding THEN Keep ELSE proc[p].file
       IN  Becomes(p, [proc[p] EXCEPT !.at = "lock", !.mine = [index EXCEPT ![f] = work[f]]])
    /\ UNCHANGED repoVars

AddLocks(p) ==
    /\ At(p, "lock") /\ ~locked
    /\ locked' = TRUE
    /\ Goto(p, "index")
    /\ UNCHANGED <<repo, work, index, commits, head>>

\* After a file of an audit comes the next one, after any other the commit.
AddWrites(p) ==
    /\ At(p, "index")
    /\ index' = proc[p].mine /\ locked' = FALSE
    /\ Becomes(p, IF proc[p].kind = "save" /\ ~proc[p].seeding
                  THEN [proc[p] EXCEPT !.at = "next", !.todo = @ \ {proc[p].file}]
                  ELSE [proc[p] EXCEPT !.at = "tree"])
    /\ UNCHANGED <<repo, work, commits, head>>

-----------------------------------------------------------------------------
(* Is there anything to commit?                                             *)

AllAdded(p) == At(p, "next") /\ proc[p].todo = {}

\* Mutant: modified files are not looked for, only new ones.
DiffHeadNever(p) ==
    /\ AllAdded(p) /\ head # 0
    /\ Goto(p, "status")
    /\ UNCHANGED repoVars

\* index.diff("HEAD"), which raises while the branch is unborn.
DiffHead(p) ==
    /\ AllAdded(p) /\ head # 0
    /\ Goto(p, IF index = TreeOf(head) THEN "status" ELSE "tree")
    /\ UNCHANGED repoVars

\* repo.untracked_files, whoever left them.
Untracked == {f \in Paths : work[f] # "absent" /\ index[f] = "absent"}

StatusDirty(p) ==
    /\ At(p, "status") /\ Untracked # {}
    /\ Goto(p, "tree")
    /\ UNCHANGED repoVars

\* No changes: None is returned.
StatusClean(p) ==
    /\ At(p, "status") /\ Untracked = {}
    /\ Becomes(p, NoCommand)
    /\ UNCHANGED repoVars

-----------------------------------------------------------------------------
(* rollback_config before it writes.                                        *)

\* What a reference means by now; HEAD~1 is whatever was committed before.
Meaning(c) == IF c # 0 THEN c ELSE IF head = 0 THEN 0 ELSE commits[head].parent

\* Mutant: the reference does not reach get_config_at, whose default is HEAD.
ResolveConfigHead(p) ==
    LET f == proc[p].file
    IN  /\ At(p, "resolve") /\ TreeOf(head)[f] # "absent"
        /\ Becomes(p, [proc[p] EXCEPT !.at = "report", !.want[f] = TreeOf(head)[f]])
        /\ UNCHANGED repoVars

\* get_config_at; the configuration of a device that has none is an error.
ResolveConfig(p) ==
    LET c == Meaning(proc[p].ref)
        f == proc[p].file
    IN  /\ At(p, "resolve") /\ TreeOf(c)[f] # "absent"
        /\ Becomes(p, [proc[p] EXCEPT !.at = "report", !.want[f] = TreeOf(c)[f]])
        /\ UNCHANGED repoVars

\* The reference is resolved again, for the commit that is reported.
ResolveCommit(p) ==
    /\ At(p, "report") /\ Meaning(proc[p].ref) # 0
    /\ Becomes(p, [proc[p] EXCEPT !.at = "restore", !.target = Meaning(proc[p].ref)])
    /\ UNCHANGED repoVars

-----------------------------------------------------------------------------
(* index.commit.                                                            *)

WriteTree(p) ==
    /\ At(p, "tree")
    /\ Becomes(p, [proc[p] EXCEPT !.at = "parent", !.mine = index])
    /\ UNCHANGED repoVars

\* Mutant: a rollback commits on top of the commit it restores, as it would after
\* a checkout of it.
ReadParentTarget(p) ==
    /\ At(p, "parent")
    /\ Becomes(p, [proc[p] EXCEPT !.at = "commit",
                                  !.parent = IF proc[p].kind = "rollback" THEN proc[p].target ELSE head])
    /\ UNCHANGED repoVars

ReadParent(p) ==
    /\ At(p, "parent")
    /\ Becomes(p, [proc[p] EXCEPT !.at = "commit", !.parent = head])
    /\ UNCHANGED repoVars

\* Whatever HEAD is by now, it becomes the new commit; the seed is followed by
\* the work of the command.
MoveHead(p) ==
    /\ At(p, "commit")
    /\ commits' = Append(commits, [tree |-> proc[p].mine, parent |-> proc[p].parent])
    /\ head' = Len(commits) + 1
    /\ Becomes(p, IF proc[p].seeding THEN Opened([proc[p] EXCEPT !.seeding = FALSE])
                                     ELSE NoCommand)
    /\ UNCHANGED <<repo, work, index, locked>>

-----------------------------------------------------------------------------
(* The ends nobody wants; the audit command only warns of them.             *)

\* index.lock exists, the branch is unborn, or the reference has no such file.
Refused(p) ==
    \/ At(p, "lock") /\ locked
    \/ AllAdded(p) /\ head = 0
    \/ At(p, "resolve") /\ TreeOf(Meaning(proc[p].ref))[proc[p].file] = "absent"
    \/ At(p, "report") /\ Meaning(proc[p].ref) = 0

Raises(p) ==
    /\ Refused(p)
    /\ Becomes(p, NoCommand)
    /\ UNCHANGED repoVars

\* Killed, or an exception of the file system: the lock may stay behind.
Dies(p) ==
    /\ ~At(p, "idle") /\ failures < MaxFailures
    /\ failures' = failures + 1
    /\ locked' \in (IF At(p, "index") THEN BOOLEAN ELSE {locked})
    /\ proc' = [proc EXCEPT ![p] = NoCommand]
    /\ UNCHANGED <<repo, work, index, commits, head, begun, overlapped>>

Begin(p) == BeginSave(p) \/ BeginRollback(p) \/ BeginRead(p)

Command(p) ==
    \/ OpenExisting(p) \/ InitRepo(p) \/ TouchKeep(p)
    \/ WriteNext(p) \/ WriteBack(p) \/ Written(p)
    \/ AddReads(p) \/ AddLocks(p) \/ AddWrites(p)
    \/ DiffHead(p) \/ StatusDirty(p) \/ StatusClean(p)
    \/ ResolveConfig(p) \/ ResolveCommit(p)
    \/ WriteTree(p) \/ ReadParent(p) \/ MoveHead(p)
    \/ Raises(p)

Next == \E p \in Procs : Begin(p) \/ Command(p) \/ Dies(p)

Spec == Init /\ [][Next]_vars

-----------------------------------------------------------------------------
(* Properties.                                                              *)

Steps == {"idle", "open", "touch", "next", "resolve", "report", "restore", "write", "add", "lock",
          "index", "status", "tree", "parent", "commit"}

\* References name commits, and no commit is its own ancestor.
GitTypeOK ==
    LET Trees == [Paths -> Texts]
        Known == 0..Len(commits)
    IN  /\ repo \in {"absent", "there"}
        /\ work \in Trees /\ index \in Trees
        /\ locked \in BOOLEAN
        /\ commits \in Seq([tree : Trees, parent : Nat])
        /\ \A c \in DOMAIN commits : commits[c].parent < c
        /\ head \in Known
        /\ proc \in [Procs -> [at : Steps, kind : {"save", "rollback", "read"},
                               want : [Files -> Texts], todo : SUBSET Files, file : Paths,
                               mine : Trees, ref : Known, target : Known, parent : Known,
                               seeding : BOOLEAN, quiet : BOOLEAN]]
        /\ \A p \in Procs :
              \/ proc[p].kind = "rollback"
              \/ proc[p].at \in {"resolve", "report", "restore", "write"}
              => proc[p].file \in Files
        /\ begun \in 0..MaxCommands /\ failures \in 0..MaxFailures
        /\ overlapped \in BOOLEAN

\* The steps in which a command ends as it should: the audit finds no changes, or
\* HEAD has moved.
ReturnsUnchanged(p) == At(p, "status") /\ proc'[p].at = "idle" /\ Untracked = {}
ReturnsCommit(p) == At(p, "commit") /\ ~proc[p].seeding /\ head' # head

\* A save that no other command disturbed ends with what it was given at HEAD,
\* whether it made a commit or returned None, and whatever commands before it
\* left behind: files half written, files added and not committed, commits made
\* from a stale index ("stores full device running configs").
QuietSaveIsAtHead ==
    [][\A p \in Procs :
          proc[p].quiet /\ proc[p].kind = "save" /\ (ReturnsUnchanged(p) \/ ReturnsCommit(p))
              => \A f \in Wanted(proc[p].want) : commits'[head'].tree[f] = proc[p].want[f]]_vars

\* A rollback that no other command disturbed ends with the device's file at HEAD
\* as it was in the commit it reports ("Restore a device's config from a previous
\* Git commit").
RollbackRestores ==
    [][\A p \in Procs :
          proc[p].quiet /\ proc[p].kind = "rollback" /\ ReturnsCommit(p)
              => commits'[head'].tree[proc[p].file] = commits[proc[p].target].tree[proc[p].file]]_vars

\* As long as commands run one after the other, no commit holds a file half
\* written, wherever commands were killed.
CommittedWhole ==
    ~overlapped => \A c \in DOMAIN commits : \A f \in Paths : commits[c].tree[f] # "torn"

\* As long as commands run one after the other no commit is lost: HEAD is the last
\* one made and each stands on the one made before it, wherever commands were
\* killed and whatever a rollback went back to (it makes a new commit, never a reset of
\* the branch).  The commits of commands that overlap may well have one parent.
NothingIsLost ==
    ~overlapped => /\ head = Len(commits)
                   /\ \A c \in DOMAIN commits : commits[c].parent = c - 1

=============================================================================
