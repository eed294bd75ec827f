-------------------------- MODULE GitHistory_proofs --------------------------
(***************************************************************************)
(* Theorems about the git history, for any number of processes and files,    *)
(* every order of their steps and commands that die anywhere.               *)
(***************************************************************************)
EXTENDS GitHistory, TLAPS

Trees == [Paths -> Texts]

\* The commands there may be when there are n commits.
Commands(n) == {r \in
    [at : Steps, kind : {"save", "rollback", "read"}, want : [Files -> Texts], todo : SUBSET Files,
     file : Paths, mine : Trees, ref : 0..n, target : 0..n, parent : 0..n,
     seeding : BOOLEAN, quiet : BOOLEAN] :
    r.kind = "rollback" \/ r.at \in {"resolve", "report", "restore", "write"} => r.file \in Files}

\* The repository alone.
RepoOK ==
    /\ work \in Trees /\ index \in Trees
    /\ commits \in Seq([tree : Trees, parent : Nat])
    /\ \A c \in DOMAIN commits : commits[c].parent < c
    /\ head \in 0..Len(commits)

LEMMA TypeParts ==
    GitTypeOK <=>
        /\ RepoOK
        /\ repo \in {"absent", "there"}
        /\ locked \in BOOLEAN
        /\ proc \in [Procs -> Commands(Len(commits))]
        /\ begun \in 0..MaxCommands /\ failures \in 0..MaxFailures
        /\ overlapped \in BOOLEAN
BY DEF GitTypeOK, RepoOK, Commands, Trees, At

LEMMA TypePartsNext ==
    GitTypeOK' <=>
        /\ RepoOK'
        /\ repo' \in {"absent", "there"}
        /\ locked' \in BOOLEAN
        /\ proc' \in [Procs -> Commands(Len(commits'))]
        /\ begun' \in 0..MaxCommands /\ failures' \in 0..MaxFailures
        /\ overlapped' \in BOOLEAN
BY DEF GitTypeOK, RepoOK, Commands, Trees, At

LEMMA CommandsGrow ==
    ASSUME NEW m \in Nat, NEW n \in Nat, m <= n
    PROVE  Commands(m) \subseteq Commands(n)
<1>1. 0..m \subseteq 0..n
  OBVIOUS
<1>2. QED
  BY <1>1 DEF Commands

LEMMA Basics ==
    /\ NoFiles \in Trees
    /\ NoCommand.at = "idle" /\ NoCommand.kind = "read" /\ NoCommand.quiet = FALSE /\ NoCommand.seeding = FALSE
    /\ NoCommand.mine = NoFiles /\ NoCommand.want = Nothing
    /\ \A n \in Nat : NoCommand \in Commands(n)
    /\ \A o \in Offers : o \in [Files -> Texts]
    /\ "torn" \in Texts /\ "empty" \in Texts /\ "absent" \in Texts
    /\ Keep \in Paths /\ Files \subseteq Paths /\ Keep \notin Files
<1>1. NoFiles \in Trees /\ Nothing \in [Files -> Texts]
  BY DEF NoFiles, Nothing, Trees, Texts, Marks
<1>2. \A o \in Offers : o \in [Files -> Texts]
  BY GitAssumption DEF GitAssumption, Texts, Marks
<1>3. "torn" \in Texts /\ "empty" \in Texts /\ "absent" \in Texts
  BY GitAssumption DEF GitAssumption, Texts, Marks
<1>4. Keep \in Paths /\ Files \subseteq Paths /\ Keep \notin Files
  BY GitAssumption DEF GitAssumption, Paths
<1>5. \A n \in Nat : NoCommand \in Commands(n)
  BY <1>1, <1>4 DEF NoCommand, Commands, Steps
<1>6. QED
  BY <1>1, <1>2, <1>3, <1>4, <1>5 DEF NoCommand

\* A tree is a tree, and what a reference means is a commit or none.
LEMMA Lookups ==
    ASSUME RepoOK
    PROVE  /\ \A c \in 0..Len(commits) : TreeOf(c) \in Trees
           /\ \A c \in 0..Len(commits) : Meaning(c) \in 0..Len(commits)
<1>1. ASSUME NEW c \in 1..Len(commits)
      PROVE  commits[c].tree \in Trees /\ commits[c].parent \in Nat /\ commits[c].parent < c
  <2>. DEFINE S == [tree : Trees, parent : Nat]
  <2>1. commits \in Seq(S) /\ DOMAIN commits = 1..Len(commits)
    BY DEF RepoOK
  <2>2. commits[c] \in S /\ c \in DOMAIN commits
    <3> HIDE DEF S
    <3>1. QED
      BY <1>1, <2>1
  <2>3. QED
    BY <2>2 DEF RepoOK
<1>2. \A c \in 0..Len(commits) : TreeOf(c) \in Trees
  BY <1>1, Basics DEF TreeOf
<1>3. \A c \in 0..Len(commits) : Meaning(c) \in 0..Len(commits)
  BY <1>1 DEF Meaning, RepoOK
<1>4. QED
  BY <1>2, <1>3

-----------------------------------------------------------------------------
(* Type correctness.                                                        *)

LEMMA TypeInit == Init => GitTypeOK
<1> SUFFICES ASSUME Init PROVE GitTypeOK
  OBVIOUS
<1>1. RepoOK
  BY Basics DEF Init, RepoOK
<1>2. Len(commits) = 0
  BY DEF Init
<1>3. proc \in [Procs -> Commands(Len(commits))]
  BY <1>2, Basics DEF Init
<1>4. MaxCommands \in Nat /\ MaxFailures \in Nat
  BY GitAssumption DEF GitAssumption
<1>5. begun \in 0..MaxCommands /\ failures \in 0..MaxFailures
  BY <1>4 DEF Init
<1>6. repo \in {"absent", "there"} /\ locked \in BOOLEAN /\ overlapped \in BOOLEAN
  BY Zenon DEF Init
<1>7. QED
  BY <1>1, <1>3, <1>5, <1>6, TypeParts

\* One command goes on as r, with n commits.
LEMMA ProcTyped ==
    ASSUME GitTypeOK, NEW p \in Procs, NEW r \in Commands(Len(commits)), Becomes(p, r)
    PROVE  proc' \in [Procs -> Commands(Len(commits))]
BY TypeParts DEF Becomes

LEMMA TypeNext == GitTypeOK /\ [Next]_vars => GitTypeOK'
<1> SUFFICES ASSUME GitTypeOK, [Next]_vars PROVE GitTypeOK'
  OBVIOUS
<1> DEFINE C == Commands(Len(commits))
<1>1. /\ RepoOK /\ repo \in {"absent", "there"} /\ locked \in BOOLEAN
      /\ proc \in [Procs -> C]
      /\ begun \in 0..MaxCommands /\ failures \in 0..MaxFailures /\ overlapped \in BOOLEAN
  BY TypeParts
<1>2. ASSUME NEW p \in Procs, NEW r \in C, Becomes(p, r), UNCHANGED <<commits, head>>,
             work' \in Trees, index' \in Trees, repo' \in {"absent", "there"}, locked' \in BOOLEAN
      PROVE  GitTypeOK'
  <2>1. proc' \in [Procs -> C]
    BY <1>2, ProcTyped
  <2>2. RepoOK'
    BY <1>1, <1>2 DEF RepoOK
  <2>3. C' = C
    BY <1>2
  <2>4. UNCHANGED <<begun, failures, overlapped>>
    BY <1>2 DEF Becomes, countVars
  <2>5. QED
    BY <1>1, <1>2, <2>1, <2>2, <2>3, <2>4, TypePartsNext
<1>3. ASSUME NEW p \in Procs, NEW c \in C, Begins(p, c), begun' \in 0..MaxCommands
      PROVE  GitTypeOK'
  <2>1. UNCHANGED <<repoVars, failures>> /\ overlapped' \in BOOLEAN
    BY <1>1, <1>3 DEF Begins
  <2>2. proc' \in [Procs -> C]
    <3>1. \A q \in Procs : [proc[q] EXCEPT !.quiet = FALSE] \in C
      BY <1>1 DEF Commands
    <3>2. [c EXCEPT !.at = "open", !.quiet = (Others(p) = {})] \in C
      BY <1>3 DEF Commands, Steps
    <3>3. QED
      BY <1>3, <3>1, <3>2 DEF Begins
  <2>3. UNCHANGED <<repo, work, index, locked, commits, head, failures>>
    BY <2>1 DEF repoVars
  <2>4. RepoOK' /\ C' = C
    BY <1>1, <2>3 DEF RepoOK
  <2>5. QED
    BY <1>1, <1>3, <2>1, <2>2, <2>3, <2>4, TypePartsNext
<1>4. Len(commits) \in Nat /\ NoCommand \in C /\ RepoOK
  BY <1>1, Basics DEF RepoOK
<1>5. ASSUME NEW p \in Procs, Begin(p) PROVE GitTypeOK'
  <2>1. CASE BeginSave(p)
    <3>1. PICK o \in Offers : Counted(p, [NoCommand EXCEPT !.kind = "save", !.want = o, !.todo = Wanted(o)])
      BY <2>1 DEF BeginSave
    <3>2. [NoCommand EXCEPT !.kind = "save", !.want = o, !.todo = Wanted(o)] \in C
      BY <1>4, Basics DEF Commands, Wanted
    <3>3. QED
      BY <1>1, <1>3, <3>1, <3>2, GitAssumption DEF GitAssumption, Counted
  <2>2. CASE BeginRollback(p)
    <3>1. PICK f \in Files, c \in {0} \cup DOMAIN commits :
              Counted(p, [NoCommand EXCEPT !.kind = "rollback", !.file = f, !.ref = c])
      BY <2>2 DEF BeginRollback
    <3>2. [NoCommand EXCEPT !.kind = "rollback", !.file = f, !.ref = c] \in C
      <4>1. c \in 0..Len(commits)
        BY <1>4 DEF RepoOK
      <4>2. QED
        BY <1>4, <4>1, Basics DEF Commands
    <3>3. QED
      BY <1>1, <1>3, <3>1, <3>2, GitAssumption DEF GitAssumption, Counted
  <2>3. CASE BeginRead(p)
    BY <1>1, <1>3, <1>4, <2>3 DEF BeginRead
  <2>4. QED
    BY <1>5, <2>1, <2>2, <2>3 DEF Begin
<1>6. ASSUME NEW p \in Procs, MoveHead(p) PROVE GitTypeOK'
  <2>1. commits' = Append(commits, [tree |-> proc[p].mine, parent |-> proc[p].parent])
        /\ head' = Len(commits) + 1 /\ UNCHANGED <<repo, work, index, locked, begun, failures, overlapped>>
    BY <1>6 DEF MoveHead, Becomes, countVars
  <2>2. proc[p] \in C
    BY <1>1
  <2>3. proc[p].mine \in Trees /\ proc[p].parent \in 0..Len(commits)
    BY <2>2 DEF Commands
  <2>4. RepoOK' /\ Len(commits') = Len(commits) + 1
    BY <1>4, <2>1, <2>3 DEF RepoOK
  <2>5. proc' \in [Procs -> C]
    <3>1. [proc[p] EXCEPT !.seeding = FALSE] \in C
      BY <2>2 DEF Commands
    <3>2. \A r \in C : Opened(r) \in C
      BY <1>4 DEF Opened, Commands, Steps
    <3>3. QED
      BY <1>4, <1>6, <3>1, <3>2, ProcTyped DEF MoveHead
  <2>6. proc' \in [Procs -> Commands(Len(commits'))]
    BY <1>4, <2>4, <2>5, CommandsGrow
  <2>7. QED
    BY <1>1, <2>1, <2>4, <2>6, TypePartsNext
<1>7. ASSUME NEW p \in Procs, Dies(p) PROVE GitTypeOK'
  <2>1. /\ proc' \in [Procs -> C] /\ locked' \in BOOLEAN /\ failures' \in 0..MaxFailures
        /\ UNCHANGED <<repo, work, index, commits, head, begun, overlapped>>
    BY <1>1, <1>4, <1>7, GitAssumption DEF GitAssumption, Dies
  <2>2. RepoOK' /\ C' = C
    BY <1>1, <2>1 DEF RepoOK
  <2>3. QED
    BY <1>1, <2>1, <2>2, TypePartsNext
<1>8. ASSUME NEW p \in Procs, Command(p) PROVE GitTypeOK'
  <2> DEFINE r == proc[p]
  <2>1. r \in C /\ work \in Trees /\ index \in Trees /\ head \in 0..Len(commits)
    BY <1>1 DEF RepoOK
  <2>2. /\ r.at \in Steps /\ r.kind \in {"save", "rollback", "read"} /\ r.want \in [Files -> Texts]
        /\ r.todo \in SUBSET Files /\ r.file \in Paths /\ r.mine \in Trees
        /\ r.ref \in 0..Len(commits) /\ r.seeding \in BOOLEAN
    BY <2>1 DEF Commands
  <2>3. \A s \in Steps : s \notin {"resolve", "report", "restore", "write"} => [r EXCEPT !.at = s] \in C
    BY <2>1 DEF Commands
  <2>4. ASSUME NEW x \in C, Becomes(p, x), UNCHANGED repoVars PROVE GitTypeOK'
    BY <1>1, <1>2, <2>1, <2>4 DEF repoVars
  <2>5. ASSUME NEW f \in Paths, NEW t \in Texts PROVE [work EXCEPT ![f] = t] \in Trees
    BY <2>1 DEF Trees
  <2>6. CASE OpenExisting(p)
    <3>1. Opened(r) \in C
      BY <1>4, <2>1, <2>2 DEF Opened, Commands, Steps
    <3>2. QED
      BY <2>4, <2>6, <3>1 DEF OpenExisting
  <2>7. CASE InitRepo(p)
    <3>1. [r EXCEPT !.at = "touch", !.seeding = TRUE] \in C
      BY <2>1 DEF Commands, Steps
    <3>2. QED
      BY <1>1, <1>2, <2>1, <2>7, <3>1 DEF InitRepo
  <2>8. CASE TouchKeep(p)
    BY <1>1, <1>2, <2>1, <2>3, <2>5, <2>8, Basics DEF TouchKeep, Goto, Steps
  <2>9. CASE WriteNext(p)
    <3>1. PICK f \in r.todo : Truncate(f) /\ Becomes(p, [r EXCEPT !.at = "write", !.file = f])
      BY <2>9 DEF WriteNext
    <3>2. f \in Paths /\ [r EXCEPT !.at = "write", !.file = f] \in C
      BY <2>1, <2>2, Basics DEF Commands, Steps
    <3>3. QED
      BY <1>1, <1>2, <2>1, <2>5, <3>1, <3>2, Basics DEF Truncate
  <2>10. CASE WriteBack(p)
    <3>1. [r EXCEPT !.at = "write"] \in C
      BY <2>1, <2>10 DEF Commands, Steps, WriteBack, At
    <3>2. QED
      BY <1>1, <1>2, <2>1, <2>2, <2>5, <2>10, <3>1, Basics DEF WriteBack, Truncate, Goto
  <2>11. CASE Written(p)
    <3>1. r.file \in Files
      BY <2>1, <2>11 DEF Commands, Written, At
    <3>2. work' \in Trees
      BY <2>2, <2>5, <2>11, <3>1 DEF Written
    <3>3. QED
      BY <1>1, <1>2, <2>1, <2>3, <2>11, <3>2 DEF Written, Goto, Steps
  <2>12. CASE AddReads(p)
    <3>1. PICK f \in Paths : Becomes(p, [r EXCEPT !.at = "lock", !.mine = [index EXCEPT ![f] = work[f]]])
      BY <2>2, <2>12, Basics DEF AddReads
    <3>2. [index EXCEPT ![f] = work[f]] \in Trees
      BY <2>1 DEF Trees
    <3>3. [r EXCEPT !.at = "lock", !.mine = [index EXCEPT ![f] = work[f]]] \in C
      BY <2>1, <3>2 DEF Commands, Steps
    <3>4. QED
      BY <2>4, <2>12, <3>1, <3>3 DEF AddReads
  <2>13. CASE AddLocks(p)
    BY <1>1, <1>2, <2>1, <2>3, <2>13 DEF AddLocks, Goto, Steps
  <2>14. CASE AddWrites(p)
    <3>1. [r EXCEPT !.at = "next", !.todo = @ \ {r.file}] \in C /\ [r EXCEPT !.at = "tree"] \in C
      BY <2>1 DEF Commands, Steps
    <3>2. QED
      BY <1>1, <1>2, <2>1, <2>2, <2>14, <3>1 DEF AddWrites
  <2>15. CASE DiffHead(p) \/ StatusDirty(p)
    BY <2>3, <2>4, <2>15 DEF DiffHead, StatusDirty, Goto, Steps
  <2>16. CASE StatusClean(p) \/ Raises(p)
    BY <1>4, <2>4, <2>16 DEF StatusClean, Raises
  <2>17. CASE ResolveConfig(p)
    <3> DEFINE c == Meaning(r.ref)
               x == [r EXCEPT !.at = "report", !.want[r.file] = TreeOf(c)[r.file]]
    <3>1. c \in 0..Len(commits) /\ TreeOf(c) \in Trees
      BY <1>1, <2>2, Lookups
    <3>2. r.file \in Files
      BY <2>1, <2>17 DEF Commands, ResolveConfig, At
    <3>3. TreeOf(c)[r.file] \in Texts
      BY <2>2, <3>1 DEF Trees
    <3>4. x \in C
      BY <2>1, <2>2, <3>2, <3>3 DEF Commands, Steps
    <3>5. QED
      BY <2>4, <2>17, <3>4 DEF ResolveConfig
  <2>18. CASE ResolveCommit(p)
    <3>1. Meaning(r.ref) \in 0..Len(commits)
      BY <1>1, <2>2, Lookups
    <3>2. r.file \in Files
      BY <2>1, <2>18 DEF Commands, ResolveCommit, At
    <3>3. [r EXCEPT !.at = "restore", !.target = Meaning(r.ref)] \in C
      BY <2>1, <3>1, <3>2 DEF Commands, Steps
    <3>4. QED
      BY <2>4, <2>18, <3>3 DEF ResolveCommit
  <2>19. CASE WriteTree(p)
    <3>1. [r EXCEPT !.at = "parent", !.mine = index] \in C
      BY <2>1 DEF Commands, Steps
    <3>2. QED
      BY <2>4, <2>19, <3>1 DEF WriteTree
  <2>20. CASE ReadParent(p)
    <3>1. [r EXCEPT !.at = "commit", !.parent = head] \in C
      BY <2>1 DEF Commands, Steps
    <3>2. QED
      BY <2>4, <2>20, <3>1 DEF ReadParent
  <2>21. QED
    BY <1>6, <1>8, <2>6, <2>7, <2>8, <2>9, <2>10, <2>11, <2>12, <2>13, <2>14, <2>15, <2>16, <2>17,
       <2>18, <2>19, <2>20 DEF Command
<1>9. CASE UNCHANGED vars
  <2>1. UNCHANGED <<repo, work, index, locked, commits, head, proc, begun, failures, overlapped>>
    BY <1>9 DEF vars, repoVars, countVars
  <2>2. RepoOK' /\ C' = C
    BY <1>1, <2>1 DEF RepoOK
  <2>3. QED
    BY <1>1, <2>1, <2>2, TypePartsNext
<1>10. QED
  BY <1>5, <1>7, <1>8, <1>9 DEF Next

\* The repository and the commands keep their types: references name commits that
\* were made, and the parent of a commit is older than the commit.
THEOREM TypeCorrect == Spec => []GitTypeOK
BY TypeInit, TypeNext, PTL DEF Spec

-----------------------------------------------------------------------------
(* Who runs alone, and what a command's step says of its record.            *)

\* Of a command: which kind takes the step, and whether it is seeding.
KindOK(r) ==
    /\ r.at \in {"resolve", "report", "restore"} => r.kind = "rollback"
    /\ r.at \in {"next", "status"} => r.kind = "save"
    /\ r.at = "touch" => r.seeding
    /\ r.at \in {"idle", "open", "next", "status", "resolve", "report", "restore", "write"}
           => ~r.seeding

\* Beside a quiet command every process is idle, and as long as no two commands
\* overlapped every command is quiet.
Solo ==
    /\ \A p, q \in Procs : proc[p].quiet /\ q # p => proc[q].at = "idle"
    /\ \A p \in Procs : proc[p].at # "idle" => proc[p].quiet \/ overlapped

Shape == GitTypeOK /\ (\A p \in Procs : KindOK(proc[p])) /\ Solo

LEMMA ShapeInit == Init => Shape
<1> SUFFICES ASSUME Init PROVE Shape
  OBVIOUS
<1>1. \A p \in Procs : proc[p] = NoCommand
  BY DEF Init
<1>2. (\A p \in Procs : KindOK(proc[p])) /\ Solo
  BY <1>1, Basics DEF KindOK, Solo
<1>3. QED
  BY <1>2, TypeInit DEF Shape

\* A command that goes on keeps its solitude, or is over.
Goes(p) ==
    /\ \A q \in Procs : q # p => proc'[q] = proc[q]
    /\ KindOK(proc'[p])
    /\ proc'[p].at = "idle" \/ proc'[p].quiet = proc[p].quiet
    /\ proc'[p].quiet => proc[p].quiet
    /\ proc[p].at # "idle"
    /\ overlapped' = overlapped

LEMMA GoesAs ==
    ASSUME Shape, NEW p \in Procs, NEW x, Becomes(p, x), proc[p].at # "idle",
           x = NoCommand \/ (x.quiet = proc[p].quiet /\ KindOK(x))
    PROVE  Goes(p)
<1>1. proc' = [proc EXCEPT ![p] = x] /\ overlapped' = overlapped /\ p \in DOMAIN proc
  BY TypeParts DEF Becomes, Shape
<1>2. proc'[p] = x /\ \A q \in Procs : q # p => proc'[q] = proc[q]
  BY <1>1, TypeParts DEF Shape
<1>3. KindOK(x) /\ (x.at = "idle" \/ x.quiet = proc[p].quiet) /\ (x.quiet => proc[p].quiet)
  BY Basics DEF KindOK
<1>4. QED
  BY <1>1, <1>2, <1>3 DEF Goes

LEMMA CommandGoes ==
    ASSUME Shape, NEW p \in Procs, Command(p)
    PROVE  Goes(p)
<1> DEFINE r == proc[p]
<1>1. r \in Commands(Len(commits)) /\ KindOK(r)
  BY TypeParts DEF Shape
<1>2. r.kind \in {"save", "rollback", "read"} /\ r.seeding \in BOOLEAN /\ r.quiet \in BOOLEAN
  BY <1>1 DEF Commands
<1>3. \A s \in Steps : [r EXCEPT !.at = s].at = s /\ [r EXCEPT !.at = s].quiet = r.quiet
                       /\ [r EXCEPT !.at = s].kind = r.kind /\ [r EXCEPT !.at = s].seeding = r.seeding
  BY <1>1 DEF Commands
<1>4. ASSUME NEW x \in Commands(Len(commits)), x.quiet = r.quiet, x.kind = r.kind, ~x.seeding
      PROVE  Opened(x) = NoCommand \/ (Opened(x).quiet = r.quiet /\ KindOK(Opened(x)))
  BY <1>2, <1>4 DEF Opened, KindOK, Commands
<1>5. CASE OpenExisting(p)
  <2>1. ~r.seeding /\ r.at # "idle"
    BY <1>1, <1>5 DEF OpenExisting, KindOK, At
  <2>2. QED
    BY <1>1, <1>4, <1>5, <2>1, GoesAs DEF OpenExisting
<1>6. CASE MoveHead(p)
  <2>1. [r EXCEPT !.seeding = FALSE] \in Commands(Len(commits))
        /\ [r EXCEPT !.seeding = FALSE].quiet = r.quiet /\ [r EXCEPT !.seeding = FALSE].kind = r.kind
        /\ ~[r EXCEPT !.seeding = FALSE].seeding
    BY <1>1 DEF Commands
  <2>2. QED
    BY <1>4, <1>6, <2>1, GoesAs DEF MoveHead, At
<1>7. CASE InitRepo(p)
  <2> DEFINE x == [r EXCEPT !.at = "touch", !.seeding = TRUE]
  <2>1. x.quiet = r.quiet /\ KindOK(x)
    BY <1>1 DEF KindOK, Commands
  <2>2. QED
    BY <1>7, <2>1, GoesAs DEF InitRepo, At
<1>8. CASE WriteNext(p)
  <2>1. PICK f \in r.todo : /\ At(p, "next")
                            /\ Truncate(f)
                            /\ Becomes(p, [r EXCEPT !.at = "write", !.file = f])
    BY <1>8, Zenon DEF WriteNext
  <2> DEFINE x == [r EXCEPT !.at = "write", !.file = f]
  <2>2. x.quiet = r.quiet /\ KindOK(x)
    BY <1>1, <1>8 DEF KindOK, Commands, WriteNext, At
  <2>3. QED
    BY <1>8, <2>1, <2>2, GoesAs DEF WriteNext, At
<1>9. CASE AddReads(p)
  <2> DEFINE f == IF r.seeding THEN Keep ELSE r.file
             x == [r EXCEPT !.at = "lock", !.mine = [index EXCEPT ![f] = work[f]]]
  <2>1. At(p, "add") /\ Becomes(p, x)
    BY <1>9 DEF AddReads
  <2>2. x.quiet = r.quiet /\ KindOK(x)
    BY <1>1 DEF KindOK, Commands
  <2>3. QED
    BY <1>9, <2>1, <2>2, GoesAs DEF AddReads, At
<1>10. CASE AddWrites(p)
  <2> DEFINE x == [r EXCEPT !.at = "next", !.todo = @ \ {r.file}]
             y == [r EXCEPT !.at = "tree"]
  <2>1. r.kind = "save" /\ ~r.seeding => x.quiet = r.quiet /\ KindOK(x)
    BY <1>1 DEF KindOK, Commands
  <2>2. y.quiet = r.quiet /\ KindOK(y)
    BY <1>1 DEF KindOK, Commands
  <2>3. QED
    BY <1>10, <2>1, <2>2, GoesAs DEF AddWrites, At
<1>11. CASE StatusClean(p) \/ Raises(p)
  BY <1>11, GoesAs DEF StatusClean, Raises, Refused, AllAdded, At
<1>12. CASE ResolveConfig(p)
  <2> DEFINE x == [r EXCEPT !.at = "report", !.want[r.file] = TreeOf(Meaning(r.ref))[r.file]]
  <2>1. Becomes(p, x)
    BY <1>12 DEF ResolveConfig
  <2>2. x.quiet = r.quiet /\ KindOK(x)
    BY <1>1, <1>12 DEF KindOK, Commands, ResolveConfig, At
  <2>3. QED
    BY <1>12, <2>1, <2>2, GoesAs DEF ResolveConfig, At
<1>13. CASE ResolveCommit(p)
  <2> DEFINE x == [r EXCEPT !.at = "restore", !.target = Meaning(r.ref)]
  <2>1. x.quiet = r.quiet /\ KindOK(x)
    BY <1>1, <1>13 DEF KindOK, Commands, ResolveCommit, At
  <2>2. QED
    BY <1>13, <2>1, GoesAs DEF ResolveCommit, At
<1>14. CASE WriteTree(p)
  <2> DEFINE x == [r EXCEPT !.at = "parent", !.mine = index]
  <2>1. x.quiet = r.quiet /\ KindOK(x)
    BY <1>1 DEF KindOK, Commands
  <2>2. QED
    BY <1>14, <2>1, GoesAs DEF WriteTree, At
<1>15. CASE ReadParent(p)
  <2> DEFINE x == [r EXCEPT !.at = "commit", !.parent = head]
  <2>1. x.quiet = r.quiet /\ KindOK(x)
    BY <1>1 DEF KindOK, Commands
  <2>2. QED
    BY <1>15, <2>1, GoesAs DEF ReadParent, At
<1>16. ASSUME NEW s \in Steps, Goto(p, s), r.at # "idle", KindOK([r EXCEPT !.at = s]) PROVE Goes(p)
  BY <1>3, <1>16, GoesAs DEF Goto
<1>17. CASE TouchKeep(p) \/ WriteBack(p) \/ Written(p) \/ AddLocks(p)
  <2>1. KindOK([r EXCEPT !.at = "add"]) /\ KindOK([r EXCEPT !.at = "index"])
    BY <1>1 DEF KindOK, Commands
  <2>2. WriteBack(p) => KindOK([r EXCEPT !.at = "write"])
    BY <1>1 DEF KindOK, Commands, WriteBack, At
  <2>3. QED
    BY <1>16, <1>17, <2>1, <2>2 DEF TouchKeep, WriteBack, Written, AddLocks, At, Steps
<1>18. CASE DiffHead(p) \/ StatusDirty(p)
  <2>1. KindOK([r EXCEPT !.at = "tree"])
    BY <1>1 DEF KindOK, Commands
  <2>2. DiffHead(p) => KindOK([r EXCEPT !.at = "status"])
    BY <1>1 DEF KindOK, Commands, DiffHead, AllAdded, At
  <2>3. QED
    BY <1>16, <1>18, <2>1, <2>2 DEF DiffHead, StatusDirty, AllAdded, At, Steps
<1>19. QED
  BY <1>5, <1>6, <1>7, <1>8, <1>9, <1>10, <1>11, <1>12, <1>13, <1>14, <1>15, <1>17, <1>18 DEF Command

\* A command that begins has done nothing of its own, and ends the quiet
\* of the others.
LEMMA BeginsAs ==
    ASSUME Shape, NEW p \in Procs, Begin(p)
    PROVE  /\ UNCHANGED repoVars
           /\ \A q \in Procs : q # p => proc'[q] = [proc[q] EXCEPT !.quiet = FALSE]
           /\ proc'[p].at = "open" /\ ~proc'[p].seeding /\ proc'[p].mine = NoFiles
           /\ \/ proc'[p].kind # "save" /\ proc'[p].want = Nothing
              \/ proc'[p].want \in Offers /\ proc'[p].todo = Wanted(proc'[p].want)
           /\ proc'[p].quiet = (Others(p) = {})
           /\ overlapped' = (overlapped \/ Others(p) # {})
           /\ proc[p].at = "idle"
<1>1. PICK c : /\ Begins(p, c)
               /\ \/ c = NoCommand
                  \/ \E o \in Offers : c = [NoCommand EXCEPT !.kind = "save", !.want = o, !.todo = Wanted(o)]
                  \/ \E f \in Files, t \in Nat : c = [NoCommand EXCEPT !.kind = "rollback", !.file = f, !.ref = t]
  <2>1. CASE BeginSave(p)
    BY <2>1, Zenon DEF BeginSave, Counted
  <2>2. CASE BeginRollback(p)
    <3>1. PICK f \in Files, t \in {0} \cup DOMAIN commits :
              Counted(p, [NoCommand EXCEPT !.kind = "rollback", !.file = f, !.ref = t])
      BY <2>2, Zenon DEF BeginRollback
    <3>2. t \in Nat
      BY TypeParts DEF Shape, RepoOK
    <3>3. QED
      BY <3>1, <3>2, Zenon DEF Counted
  <2>3. CASE BeginRead(p)
    BY <2>3, Zenon DEF BeginRead
  <2>4. QED
    BY <2>1, <2>2, <2>3, Zenon DEF Begin
<1> DEFINE x == [c EXCEPT !.at = "open", !.quiet = (Others(p) = {})]
<1>2. /\ c \in [at : Steps, kind : {"save", "rollback", "read"}, want : [Files -> Texts], todo : SUBSET Files,
                file : Paths, mine : Trees, ref : Nat, target : Nat, parent : Nat,
                seeding : BOOLEAN, quiet : BOOLEAN]
      /\ ~c.seeding /\ c.mine = NoFiles
      /\ \/ c.kind # "save" /\ c.want = Nothing
         \/ c.want \in Offers /\ c.todo = Wanted(c.want)
  <2> DEFINE Q == [at : Steps, kind : {"save", "rollback", "read"}, want : [Files -> Texts], todo : SUBSET Files,
                   file : Paths, mine : Trees, ref : Nat, target : Nat, parent : Nat,
                   seeding : BOOLEAN, quiet : BOOLEAN]
  <2>1. NoCommand \in Q
    BY Basics DEF Commands
  <2>2. CASE c = NoCommand
    BY <2>1, <2>2, Basics
  <2>3. ASSUME NEW o \in Offers, c = [NoCommand EXCEPT !.kind = "save", !.want = o, !.todo = Wanted(o)]
        PROVE  c \in Q /\ ~c.seeding /\ c.mine = NoFiles /\ c.want = o /\ c.todo = Wanted(o)
    <3>1. o \in [Files -> Texts] /\ Wanted(o) \in SUBSET Files
      BY Basics DEF Wanted
    <3>2. QED
      BY <2>1, <2>3, <3>1, Basics
  <2>4. ASSUME NEW f \in Files, NEW t \in Nat, c = [NoCommand EXCEPT !.kind = "rollback", !.file = f, !.ref = t]
        PROVE  c \in Q /\ ~c.seeding /\ c.mine = NoFiles /\ c.kind # "save" /\ c.want = Nothing
    BY <2>1, <2>4, Basics
  <2>5. QED
    BY <1>1, <2>1, <2>2, <2>3, <2>4, Basics, Zenon
<1>3. /\ x.at = "open" /\ ~x.seeding /\ x.mine = NoFiles /\ x.quiet = (Others(p) = {})
      /\ \/ x.kind # "save" /\ x.want = Nothing
         \/ x.want \in Offers /\ x.todo = Wanted(x.want)
  BY <1>2
<1>4. /\ proc' = [q \in Procs |-> IF q = p THEN x ELSE [proc[q] EXCEPT !.quiet = FALSE]]
      /\ UNCHANGED repoVars /\ overlapped' = (overlapped \/ Others(p) # {}) /\ proc[p].at = "idle"
  BY <1>1, Zenon DEF Begins, At
<1>5. proc'[p] = x /\ \A q \in Procs : q # p => proc'[q] = [proc[q] EXCEPT !.quiet = FALSE]
  BY <1>4, Zenon
<1> HIDE DEF x
<1>6. QED
  BY <1>3, <1>4, <1>5, Zenon

LEMMA DiesAs ==
    ASSUME Shape, NEW p \in Procs, Dies(p)
    PROVE  /\ UNCHANGED <<work, index, commits, head, overlapped>>
           /\ \A q \in Procs : q # p => proc'[q] = proc[q]
           /\ proc'[p] = NoCommand
BY TypeParts DEF Shape, Dies

LEMMA ShapeNext == Shape /\ [Next]_vars => Shape'
<1> SUFFICES ASSUME Shape, [Next]_vars PROVE Shape'
  OBVIOUS
<1>1. GitTypeOK'
  BY TypeNext DEF Shape
<1>2. proc \in [Procs -> Commands(Len(commits))] /\ \A p \in Procs : KindOK(proc[p])
  BY TypeParts DEF Shape
<1>3. ASSUME NEW p \in Procs, Command(p)
      PROVE  (\A q \in Procs : KindOK(proc[q]))' /\ Solo'
  BY <1>2, <1>3, CommandGoes DEF Goes, Shape, Solo
<1>4. ASSUME NEW p \in Procs, Dies(p)
      PROVE  (\A q \in Procs : KindOK(proc[q]))' /\ Solo'
  <2>1. KindOK(NoCommand)
    BY Basics DEF KindOK
  <2>2. QED
    BY <1>2, <1>4, <2>1, DiesAs, Basics DEF Shape, Solo
<1>5. ASSUME NEW p \in Procs, Begin(p)
      PROVE  (\A q \in Procs : KindOK(proc[q]))' /\ Solo'
  <2>1. \A q \in Procs : /\ KindOK([proc[q] EXCEPT !.quiet = FALSE])
                         /\ ~[proc[q] EXCEPT !.quiet = FALSE].quiet
                         /\ [proc[q] EXCEPT !.quiet = FALSE].at = proc[q].at
    BY <1>2 DEF KindOK, Commands
  <2>2. KindOK(proc'[p])
    BY <1>5, BeginsAs DEF KindOK
  <2>3. Others(p) = {} <=> \A q \in Procs : q # p => proc[q].at = "idle"
    BY DEF Others, At
  <2>4. Solo'
    <3>1. \A q \in Procs : q # p => ~proc'[q].quiet /\ proc'[q].at = proc[q].at
      BY <1>5, <2>1, BeginsAs
    <3>2. proc'[p].quiet = (Others(p) = {}) /\ overlapped' = (overlapped \/ Others(p) # {})
      BY <1>5, BeginsAs
    <3>3. \A q \in Procs : q # p => (Others(p) = {} => proc[q].at = "idle")
      BY <2>3
    <3>4. ASSUME NEW q \in Procs, proc'[q].at # "idle" PROVE proc'[q].quiet \/ overlapped'
      BY <3>1, <3>2, <3>3, <3>4, Zenon
    <3>5. ASSUME NEW a \in Procs, NEW b \in Procs, proc'[a].quiet, b # a PROVE proc'[b].at = "idle"
      BY <3>1, <3>2, <3>3, <3>5, Zenon
    <3>6. QED
      BY <3>4, <3>5 DEF Solo
  <2>5. QED
    BY <1>5, <2>1, <2>2, <2>4, BeginsAs
<1>6. CASE UNCHANGED vars
  <2>1. proc' = proc /\ overlapped' = overlapped
    BY <1>6 DEF vars
  <2>2. QED
    BY <1>1, <2>1 DEF Shape, Solo
<1>7. QED
  BY <1>1, <1>3, <1>4, <1>5, <1>6 DEF Next, Shape

-----------------------------------------------------------------------------
(* What a quiet command has done so far.                                    *)

InHand(r) == IF r.seeding THEN Keep ELSE r.file

\* The file in hand is as wanted where the step has it, and the index the command
\* read is the index on disk.
Carried(r) ==
    /\ r.at = "add" /\ ~r.seeding => work[r.file] = r.want[r.file]
    /\ r.at \in {"lock", "index"} =>
           /\ \A f \in Paths : f # InHand(r) => r.mine[f] = index[f]
           /\ ~r.seeding => r.mine[r.file] = r.want[r.file]
    /\ r.at \in {"parent", "commit"} => r.mine = index

\* A save has added what is not left to do.
Saved(r) ==
    r.kind = "save" =>
        /\ \A f \in Wanted(r.want) \ r.todo : index[f] = r.want[f]
        /\ r.at \in {"status", "tree", "parent", "commit"} /\ ~r.seeding => r.todo = {}
        /\ r.at = "status" => head # 0 /\ index = TreeOf(head)

\* A rollback has found what it restores, and added it.
Restored(r) ==
    r.kind = "rollback" =>
        /\ r.at = "report" => r.want[r.file] = TreeOf(Meaning(r.ref))[r.file]
        /\ \/ r.at \in {"restore", "write"}
           \/ r.at \in {"add", "lock", "index", "tree", "parent", "commit"} /\ ~r.seeding
           => r.target \in DOMAIN commits /\ r.want[r.file] = commits[r.target].tree[r.file]
        /\ r.at \in {"tree", "parent", "commit"} /\ ~r.seeding => index[r.file] = r.want[r.file]

Progress(r) == Carried(r) /\ Saved(r) /\ Restored(r)

QuietProgress == \A p \in Procs : proc[p].quiet => Progress(proc[p])

LEMMA ProgressAs ==
    ASSUME Shape, NEW p \in Procs, Goes(p), proc'[p].quiet => Progress(proc[p])'
    PROVE  QuietProgress'
<1> SUFFICES ASSUME NEW q \in Procs, proc'[q].quiet PROVE Progress(proc[q])'
  BY DEF QuietProgress
<1>1. CASE q = p
  BY <1>1 DEF Goes
<1>2. CASE q # p
  <2>1. proc[q].quiet /\ proc[p].at # "idle"
    BY <1>2 DEF Goes
  <2>2. QED
    BY <1>2, <2>1 DEF Shape, Solo
<1>3. QED
  BY <1>1, <1>2

\* r is the command before its step, x after it.
LEMMA CommandProgress ==
    ASSUME Shape, NEW p \in Procs, NEW r, r = proc[p], NEW x, x = proc'[p],
           Command(p), Progress(r), x.quiet
    PROVE  Progress(x)'
<1>1. /\ r \in Commands(Len(commits)) /\ KindOK(r)
      /\ work \in Trees /\ index \in Trees /\ RepoOK
  BY TypeParts DEF Shape, RepoOK
<1>2. ASSUME NEW y, Becomes(p, y)
      PROVE  x = y
  BY <1>2, TypeParts DEF Shape, Becomes
<1>3. x # NoCommand
  BY Basics
<1>5. CASE OpenExisting(p)
  BY <1>1, <1>2, <1>3, <1>5
     DEF OpenExisting, Opened, At, KindOK, Commands, Progress, Carried, Saved, Restored, repoVars
<1>6. CASE InitRepo(p)
  <2>1. r.at = "open" /\ x = [r EXCEPT !.at = "touch", !.seeding = TRUE] /\ UNCHANGED <<work, index, commits, head>>
    BY <1>2, <1>6, Zenon DEF InitRepo, At
  <2>2. QED
    BY <1>1, <2>1
       DEF KindOK, Commands, Progress, Carried, Saved, Restored
<1>7. CASE TouchKeep(p)
  BY <1>1, <1>2, <1>7
     DEF TouchKeep, Goto, At, KindOK, Commands, Progress, Carried, Saved, Restored
<1>8. CASE WriteNext(p)
  <2>1. PICK f \in r.todo : x = [r EXCEPT !.at = "write", !.file = f] /\ Truncate(f) /\ r.at = "next"
    BY <1>2, <1>8, Zenon DEF WriteNext, At
  <2>2. QED
    BY <1>1, <2>1 DEF Truncate, KindOK, Commands, Progress, Carried, Saved, Restored
<1>9. CASE WriteBack(p)
  BY <1>1, <1>2, <1>9
     DEF WriteBack, Truncate, Goto, At, KindOK, Commands, Progress, Carried, Saved, Restored
<1>10. CASE Written(p)
  BY <1>1, <1>2, <1>10
     DEF Written, Goto, At, KindOK, Commands, Trees, Progress, Carried, Saved, Restored
<1>11. CASE AddReads(p)
  <2>1. r.at = "add" /\ x = [r EXCEPT !.at = "lock", !.mine = [index EXCEPT ![InHand(r)] = work[InHand(r)]]] /\ UNCHANGED <<work, index, commits, head>>
    BY <1>2, <1>11, Zenon DEF AddReads, At, InHand, repoVars
  <2>2. QED
    BY <1>1, <2>1
       DEF KindOK, Commands, Progress, Carried, Saved, Restored, InHand, Trees
<1>12. CASE AddLocks(p)
  BY <1>1, <1>2, <1>12
     DEF AddLocks, InHand, Goto, At, KindOK, Commands, Trees, Progress, Carried, Saved, Restored
<1>13. CASE AddWrites(p)
  <2>1. r.at = "index" /\ index' = r.mine /\ UNCHANGED <<work, commits, head>>
    BY <1>13 DEF AddWrites, At
  <2>2. CASE r.kind = "save" /\ ~r.seeding
    <3>1. x = [r EXCEPT !.at = "next", !.todo = r.todo \ {r.file}]
      BY <1>2, <1>13, <2>2, Zenon DEF AddWrites
    <3>2. QED
      BY <1>1, <2>1, <2>2, <3>1, Basics
         DEF InHand, Trees, Wanted, KindOK, Commands, Progress, Carried, Saved, Restored
  <2>3. CASE ~(r.kind = "save" /\ ~r.seeding)
    <3>1. x = [r EXCEPT !.at = "tree"]
      BY <1>2, <1>13, <2>3, Zenon DEF AddWrites
    <3>2. QED
      BY <1>1, <2>1, <2>3, <3>1, Basics
         DEF InHand, Trees, Wanted, KindOK, Commands, Progress, Carried, Saved, Restored
  <2>4. QED
    BY <2>2, <2>3
<1>14. CASE DiffHead(p)
  BY <1>1, <1>2, <1>14
     DEF DiffHead, AllAdded, Goto, At, KindOK, Commands, Progress, Carried, Saved, Restored, repoVars, TreeOf
<1>15. CASE StatusDirty(p)
  BY <1>1, <1>2, <1>15
     DEF StatusDirty, Goto, At, KindOK, Commands, Progress, Carried, Saved, Restored, repoVars
<1>16. CASE StatusClean(p) \/ Raises(p)
  BY <1>2, <1>3, <1>16 DEF StatusClean, Raises
<1>17. CASE ResolveConfig(p)
  <2> DEFINE y == [r EXCEPT !.at = "report", !.want[r.file] = TreeOf(Meaning(r.ref))[r.file]]
  <2>1. r.at = "resolve" /\ Becomes(p, y) /\ UNCHANGED <<work, index, commits, head>>
    BY <1>17 DEF ResolveConfig, At, repoVars
  <2>2. r.kind = "rollback" /\ r.file \in Files /\ r.want \in [Files -> Texts]
    BY <1>1, <2>1 DEF KindOK, Commands
  <2>3. y.at = "report" /\ y.kind = "rollback" /\ y.file = r.file /\ y.ref = r.ref
        /\ y.want[r.file] = TreeOf(Meaning(r.ref))[r.file]
    BY <1>1, <2>2 DEF Commands
  <2>4. x = y
    BY <1>2, <2>1, Zenon
  <2> HIDE DEF y
  <2>5. QED
    BY <2>1, <2>3, <2>4 DEF Progress, Carried, Saved, Restored, TreeOf, Meaning
<1>18. CASE ResolveCommit(p)
  <2>1. /\ r.at = "report" /\ Meaning(r.ref) # 0
        /\ x = [r EXCEPT !.at = "restore", !.target = Meaning(r.ref)] /\ UNCHANGED <<work, index, commits, head>>
    BY <1>2, <1>18, Zenon DEF ResolveCommit, At, repoVars
  <2>2. QED
    BY <1>1, <2>1, Lookups
       DEF KindOK, Commands, Progress, Carried, Saved, Restored, RepoOK, TreeOf
<1>19. CASE WriteTree(p)
  <2>1. r.at = "tree" /\ x = [r EXCEPT !.at = "parent", !.mine = index] /\ UNCHANGED <<work, index, commits, head>>
    BY <1>2, <1>19, Zenon DEF WriteTree, At, repoVars
  <2>2. QED
    BY <1>1, <2>1
       DEF KindOK, Commands, Progress, Carried, Saved, Restored
<1>20. CASE ReadParent(p)
  <2>1. r.at = "parent" /\ x = [r EXCEPT !.at = "commit", !.parent = head] /\ UNCHANGED <<work, index, commits, head>>
    BY <1>2, <1>20, Zenon DEF ReadParent, At, repoVars
  <2>2. QED
    BY <1>1, <2>1
       DEF KindOK, Commands, Progress, Carried, Saved, Restored
<1>21. CASE MoveHead(p)
  <2> DEFINE y == [r EXCEPT !.seeding = FALSE]
  <2>1. r.at = "commit" /\ UNCHANGED <<work, index>> /\ r.seeding /\ Becomes(p, Opened(y))
    BY <1>2, <1>3, <1>21, Zenon DEF MoveHead, At
  <2>2. x = Opened(y)
    BY <1>2, <2>1, Zenon
  <2>3. y \in Commands(Len(commits)) /\ y.kind = r.kind /\ y.want = r.want /\ y.todo = r.todo
    BY <1>1 DEF Commands
  <2> HIDE DEF y
  <2>4. CASE r.kind = "save"
    <3>1. x = [y EXCEPT !.at = "next"]
      BY <2>2, <2>3, <2>4 DEF Opened
    <3>2. QED
      BY <2>1, <2>3, <2>4, <3>1 DEF Commands, Progress, Carried, Saved, Restored
  <2>5. CASE r.kind = "rollback"
    <3>1. x = [y EXCEPT !.at = "resolve"]
      BY <2>2, <2>3, <2>5 DEF Opened
    <3>2. QED
      BY <2>3, <2>5, <3>1 DEF Commands, Progress, Carried, Saved, Restored
  <2>6. CASE r.kind = "read"
    BY <1>3, <2>2, <2>3, <2>6 DEF Opened
  <2>7. QED
    BY <1>1, <2>4, <2>5, <2>6 DEF Commands
<1>22. QED
  BY <1>5, <1>6, <1>7, <1>8, <1>9, <1>10, <1>11, <1>12, <1>13, <1>14, <1>15, <1>16, <1>17, <1>18,
     <1>19, <1>20, <1>21 DEF Command

LEMMA ProgressInit == Init => QuietProgress
BY Basics DEF Init, QuietProgress

LEMMA ProgressNext == Shape /\ [Next]_vars /\ QuietProgress => QuietProgress'
<1> SUFFICES ASSUME Shape, [Next]_vars, QuietProgress PROVE QuietProgress'
  OBVIOUS
<1>1. ASSUME NEW p \in Procs, Command(p) PROVE QuietProgress'
  <2>1. Goes(p)
    BY <1>1, CommandGoes
  <2>2. ASSUME proc'[p].quiet PROVE Progress(proc[p])'
    <3>1. PICK r, x : r = proc[p] /\ x = proc'[p]
      OBVIOUS
    <3>2. Progress(r) /\ x.quiet
      BY <2>1, <2>2, <3>1 DEF QuietProgress, Goes
    <3>3. Progress(x)'
      BY <1>1, <3>1, <3>2, CommandProgress
    <3>4. QED
      BY <3>1, <3>3
  <2>3. QED
    BY <2>1, <2>2, ProgressAs
<1>2. ASSUME NEW p \in Procs, Dies(p) PROVE QuietProgress'
  <2> SUFFICES ASSUME NEW q \in Procs, proc'[q].quiet PROVE Progress(proc[q])'
    BY DEF QuietProgress
  <2>1. q # p /\ proc'[q] = proc[q] /\ UNCHANGED <<work, index, commits, head>>
    BY <1>2, DiesAs, Basics
  <2>2. Progress(proc[q])
    BY <2>1 DEF QuietProgress
  <2>3. QED
    BY <2>1, <2>2 DEF Progress, Carried, Saved, Restored, TreeOf, Meaning
<1>3. ASSUME NEW p \in Procs, Begin(p) PROVE QuietProgress'
  <2> SUFFICES ASSUME NEW q \in Procs, proc'[q].quiet PROVE Progress(proc[q])'
    BY DEF QuietProgress
  <2>1. \A q1 \in Procs : ~[proc[q1] EXCEPT !.quiet = FALSE].quiet
    BY TypeParts DEF Shape, Commands
  <2>2. q = p
    BY <1>3, <2>1, BeginsAs
  <2>3. QED
    BY <1>3, <2>2, BeginsAs DEF Progress, Carried, Saved, Restored
<1>4. CASE UNCHANGED vars
  <2>1. UNCHANGED <<work, index, commits, head, proc>>
    BY <1>4 DEF vars, repoVars
  <2>2. QED
    BY <2>1 DEF QuietProgress, Progress, Carried, Saved, Restored, TreeOf, Meaning
<1>5. QED
  BY <1>1, <1>2, <1>3, <1>4 DEF Next

\* HEAD is moved by MoveHead alone.
LEMMA CommandKeepsHead ==
    ASSUME NEW p \in Procs, Command(p), ~MoveHead(p)
    PROVE  UNCHANGED <<commits, head>>
BY ZenonT(60)
   DEF Command, OpenExisting, InitRepo, TouchKeep, WriteNext, WriteBack, Written, Truncate, AddReads,
       AddLocks, AddWrites, DiffHead, StatusDirty, StatusClean, ResolveConfig, ResolveCommit,
       WriteTree, ReadParent, Raises, repoVars

LEMMA HeadMoves ==
    ASSUME [Next]_vars
    PROVE  UNCHANGED <<commits, head>> \/ \E p \in Procs : MoveHead(p)
<1>1. CASE UNCHANGED vars
  BY <1>1 DEF vars, repoVars
<1>2. ASSUME NEW p \in Procs, Dies(p) \/ Begin(p) PROVE UNCHANGED <<commits, head>>
  BY <1>2, Zenon DEF Dies, Begin, BeginSave, BeginRollback, BeginRead, Counted, Begins, repoVars
<1>3. ASSUME NEW p \in Procs, Command(p), ~MoveHead(p) PROVE UNCHANGED <<commits, head>>
  BY <1>3, CommandKeepsHead
<1>4. QED
  BY <1>1, <1>2, <1>3 DEF Next

\* A command that ends alone: the new HEAD is the index it leaves.
LEMMA ReturnsAtHead ==
    ASSUME Shape, QuietProgress, [Next]_vars, NEW p \in Procs, proc[p].quiet
    PROVE  /\ ReturnsCommit(p) => commits'[head'].tree = index /\ Progress(proc[p]) /\ proc[p].at = "commit"
           /\ ReturnsUnchanged(p) => commits'[head'] = commits[head] /\ Progress(proc[p]) /\ proc[p].at = "status"
<1>1. Progress(proc[p]) /\ RepoOK
  BY TypeParts DEF QuietProgress, Shape
<1>2. ASSUME NEW q \in Procs, MoveHead(q)
      PROVE  q = p /\ proc[p].at = "commit" /\ commits'[head'].tree = proc[p].mine
  <2>1. q = p /\ proc[p].at = "commit"
    BY <1>2 DEF MoveHead, At, Shape, Solo
  <2>2. commits' = Append(commits, [tree |-> proc[p].mine, parent |-> proc[p].parent])
        /\ head' = Len(commits) + 1
    BY <1>2, <2>1 DEF MoveHead
  <2>3. commits'[head'] = [tree |-> proc[p].mine, parent |-> proc[p].parent]
    BY <1>1, <2>2 DEF RepoOK
  <2>4. QED
    BY <2>1, <2>3
<1>3. ASSUME ReturnsCommit(p)
      PROVE  commits'[head'].tree = index /\ proc[p].at = "commit"
  BY <1>1, <1>2, <1>3, HeadMoves DEF ReturnsCommit, At, Progress, Carried
<1>4. ASSUME ReturnsUnchanged(p)
      PROVE  commits'[head'] = commits[head] /\ proc[p].at = "status"
  BY <1>2, <1>4, HeadMoves DEF ReturnsUnchanged, At
<1>5. QED
  BY <1>1, <1>3, <1>4

LEMMA SaveStep ==
    ASSUME Shape, QuietProgress, [Next]_vars, NEW p \in Procs, proc[p].quiet, proc[p].kind = "save",
           ReturnsUnchanged(p) \/ ReturnsCommit(p), NEW f \in Wanted(proc[p].want)
    PROVE  commits'[head'].tree[f] = proc[p].want[f]
<1>1. Saved(proc[p])
  BY DEF QuietProgress, Progress
<1>2. CASE ReturnsCommit(p)
  <2>1. ~proc[p].seeding
    BY <1>2 DEF ReturnsCommit
  <2>2. QED
    BY <1>1, <1>2, <2>1, ReturnsAtHead DEF Saved
<1>3. CASE ReturnsUnchanged(p)
  <2>1. KindOK(proc[p]) /\ proc[p].at = "status" /\ commits'[head'] = commits[head]
    BY <1>3, ReturnsAtHead DEF Shape
  <2>2. ~proc[p].seeding
    BY <2>1 DEF KindOK
  <2>3. head # 0 /\ index = commits[head].tree /\ index[f] = proc[p].want[f]
    BY <1>1, <2>1, <2>2 DEF Saved, TreeOf
  <2>4. QED
    BY <2>1, <2>3
<1>4. QED
  BY <1>2, <1>3

LEMMA RollbackStep ==
    ASSUME Shape, QuietProgress, [Next]_vars, NEW p \in Procs, proc[p].quiet, proc[p].kind = "rollback",
           ReturnsCommit(p)
    PROVE  commits'[head'].tree[proc[p].file] = commits[proc[p].target].tree[proc[p].file]
<1>1. Restored(proc[p]) /\ ~proc[p].seeding
  BY DEF QuietProgress, Progress, ReturnsCommit
<1>2. QED
  BY <1>1, ReturnsAtHead DEF Restored

\* A save that ran alone ends with what it was given at HEAD, whatever was left
\* behind by commands before it.
THEOREM SaveIsAtHead == Spec => QuietSaveIsAtHead
<1>1. Shape /\ QuietProgress /\ [Next]_vars
        => [\A p \in Procs :
               proc[p].quiet /\ proc[p].kind = "save" /\ (ReturnsUnchanged(p) \/ ReturnsCommit(p))
                 => \A f \in Wanted(proc[p].want) : commits'[head'].tree[f] = proc[p].want[f]]_vars
  BY SaveStep
<1>2. QED
  BY <1>1, ShapeInit, ShapeNext, ProgressInit, ProgressNext, PTL DEF Spec, QuietSaveIsAtHead

\* A rollback that ran alone restores the file of the commit it reports.
THEOREM RollbackIsTrue == Spec => RollbackRestores
<1>1. Shape /\ QuietProgress /\ [Next]_vars
        => [\A p \in Procs :
               proc[p].quiet /\ proc[p].kind = "rollback" /\ ReturnsCommit(p)
                 => commits'[head'].tree[proc[p].file] = commits[proc[p].target].tree[proc[p].file]]_vars
  BY RollbackStep
<1>2. QED
  BY <1>1, ShapeInit, ShapeNext, ProgressInit, ProgressNext, PTL DEF Spec, RollbackRestores

-----------------------------------------------------------------------------
(* Nothing half written is committed.                                       *)

\* The index and the commits are whole.
WholeRepo ==
    /\ \A f \in Paths : index[f] # "torn"
    /\ \A c \in DOMAIN commits : \A f \in Paths : commits[c].tree[f] # "torn"

\* So is what a command carries.
WholeCommand(r) ==
    /\ \A f \in Paths : r.mine[f] # "torn"
    /\ \A f \in Files : r.want[f] # "torn"
    /\ r.at = "add" => work[InHand(r)] # "torn"

Whole == ~overlapped => WholeRepo /\ \A p \in Procs : WholeCommand(proc[p])

LEMMA Untorn ==
    /\ \A f \in Paths : NoFiles[f] # "torn"
    /\ \A f \in Files : Nothing[f] # "torn"
    /\ \A o \in Offers : \A f \in Files : o[f] # "torn"
    /\ WholeCommand(NoCommand)
<1>1. (\A f \in Paths : NoFiles[f] # "torn") /\ (\A f \in Files : Nothing[f] # "torn")
  BY DEF NoFiles, Nothing
<1>2. \A o \in Offers : \A f \in Files : o[f] # "torn"
  BY GitAssumption DEF GitAssumption, Marks
<1>3. QED
  BY <1>1, <1>2, Basics DEF WholeCommand

LEMMA WholeInit == Init => Whole
BY Untorn DEF Init, Whole, WholeRepo

\* The commits of a tree are still whole when a whole one is added.
LEMMA AppendWhole ==
    ASSUME RepoOK, WholeRepo, NEW t \in Trees, \A f \in Paths : t[f] # "torn", NEW n,
           commits' = Append(commits, [tree |-> t, parent |-> n])
    PROVE  \A c \in DOMAIN commits' : \A f \in Paths : commits'[c].tree[f] # "torn"
<1> SUFFICES ASSUME NEW c \in DOMAIN commits' PROVE \A f \in Paths : commits'[c].tree[f] # "torn"
  OBVIOUS
<1>1. Len(commits) \in Nat /\ DOMAIN commits = 1..Len(commits)
  BY DEF RepoOK
<1>2. DOMAIN commits' = 1..(Len(commits) + 1)
  BY <1>1 DEF RepoOK
<1>3. CASE c = Len(commits) + 1
  <2>1. commits'[c] = [tree |-> t, parent |-> n]
    BY <1>1, <1>3 DEF RepoOK
  <2>2. QED
    BY <2>1
<1>4. CASE c \in 1..Len(commits)
  <2>1. commits'[c] = commits[c]
    BY <1>1, <1>4 DEF RepoOK
  <2>2. QED
    BY <1>1, <1>4, <2>1 DEF WholeRepo
<1>5. QED
  BY <1>1, <1>2, <1>3, <1>4

\* r is the command before its step, x after it.
LEMMA CommandWhole ==
    ASSUME Shape, NEW p \in Procs, NEW r, r = proc[p], NEW x, x = proc'[p],
           Command(p), WholeRepo, WholeCommand(r)
    PROVE  WholeRepo' /\ WholeCommand(x)'
<1>1. /\ r \in Commands(Len(commits)) /\ KindOK(r)
      /\ work \in Trees /\ index \in Trees /\ RepoOK
  BY TypeParts DEF Shape, RepoOK
<1>2. ASSUME NEW y, Becomes(p, y)
      PROVE  x = y
  BY <1>2, TypeParts DEF Shape, Becomes
<1>3. ASSUME UNCHANGED <<index, commits>> PROVE WholeRepo'
  BY <1>3 DEF WholeRepo
<1>4. ASSUME UNCHANGED <<index, commits>>, x.mine = r.mine, x.want = r.want, x.at # "add"
      PROVE  WholeRepo' /\ WholeCommand(x)'
  BY <1>3, <1>4 DEF WholeCommand
<1>5. WholeCommand(NoCommand)'
  BY Untorn, Basics DEF WholeCommand
<1>6. \A s \in Steps : /\ [r EXCEPT !.at = s].at = s /\ [r EXCEPT !.at = s].mine = r.mine
                       /\ [r EXCEPT !.at = s].want = r.want /\ [r EXCEPT !.at = s].seeding = r.seeding
                       /\ [r EXCEPT !.at = s].file = r.file
  BY <1>1 DEF Commands
<1>7. ASSUME NEW y \in Commands(Len(commits)), y.mine = r.mine, y.want = r.want, x = Opened(y)
      PROVE  WholeCommand(x)'
  <2>1. x = NoCommand \/ (x.mine = r.mine /\ x.want = r.want /\ x.at # "add")
    BY <1>7 DEF Opened, Commands
  <2>2. QED
    BY <1>5, <2>1 DEF WholeCommand
<1>8. CASE OpenExisting(p)
  BY <1>1, <1>2, <1>3, <1>7, <1>8 DEF OpenExisting, repoVars
<1>9. CASE MoveHead(p)
  <2> DEFINE y == [r EXCEPT !.seeding = FALSE]
  <2>1. y \in Commands(Len(commits)) /\ y.mine = r.mine /\ y.want = r.want
    BY <1>1 DEF Commands
  <2>2. Becomes(p, IF r.seeding THEN Opened(y) ELSE NoCommand)
    BY <1>9, Zenon DEF MoveHead
  <2>3. x = IF r.seeding THEN Opened(y) ELSE NoCommand
    BY <1>2, <2>2, Zenon
  <2>4. WholeCommand(x)'
    BY <1>5, <1>7, <2>1, <2>3, Zenon
  <2>5. r.mine \in Trees /\ commits' = Append(commits, [tree |-> r.mine, parent |-> r.parent]) /\ index' = index
    BY <1>1, <1>9 DEF Commands, MoveHead
  <2>6. WholeRepo'
    BY <1>1, <2>5, AppendWhole DEF WholeRepo, WholeCommand
  <2>7. QED
    BY <2>4, <2>6
<1>10. CASE InitRepo(p)
  <2> DEFINE y == [r EXCEPT !.at = "touch", !.seeding = TRUE]
  <2>1. y.mine = r.mine /\ y.want = r.want /\ y.at # "add"
    BY <1>1 DEF Commands
  <2>2. x = y
    BY <1>2, <1>10, Zenon DEF InitRepo
  <2>3. QED
    BY <1>4, <1>10, <2>1, <2>2 DEF InitRepo
<1>11. CASE TouchKeep(p)
  <2>1. r.seeding /\ x = [r EXCEPT !.at = "add"] /\ work' = [work EXCEPT ![Keep] = "empty"]
        /\ UNCHANGED <<index, commits>>
    BY <1>1, <1>2, <1>11 DEF TouchKeep, Goto, At, KindOK
  <2>2. QED
    BY <1>1, <1>3, <1>6, <2>1, Basics DEF WholeCommand, InHand, Trees, Steps
<1>12. CASE WriteNext(p)
  <2>1. PICK f \in r.todo : x = [r EXCEPT !.at = "write", !.file = f] /\ Truncate(f)
    BY <1>2, <1>12, Zenon DEF WriteNext
  <2> DEFINE y == [r EXCEPT !.at = "write", !.file = f]
  <2>2. y.mine = r.mine /\ y.want = r.want /\ y.at # "add"
    BY <1>1 DEF Commands
  <2>3. QED
    BY <1>4, <2>1, <2>2 DEF Truncate
<1>13. CASE WriteBack(p) \/ AddLocks(p)
  <2>1. UNCHANGED <<index, commits>>
    BY <1>13 DEF WriteBack, Truncate, AddLocks
  <2>2. x = [r EXCEPT !.at = "write"] \/ x = [r EXCEPT !.at = "index"]
    <3>1. \A s : Goto(p, s) => x = [r EXCEPT !.at = s]
      BY <1>2, Zenon DEF Goto
    <3>2. QED
      BY <1>13, <3>1 DEF WriteBack, AddLocks
  <2>3. x.mine = r.mine /\ x.want = r.want /\ x.at # "add"
    BY <1>1, <2>2 DEF Commands
  <2>4. QED
    BY <1>4, <2>1, <2>3
<1>14. CASE Written(p)
  <2>1. r.at = "write" /\ ~r.seeding /\ r.file \in Files /\ x = [r EXCEPT !.at = "add"]
        /\ work' = [work EXCEPT ![r.file] = r.want[r.file]] /\ UNCHANGED <<index, commits>>
    BY <1>1, <1>2, <1>14 DEF Written, Goto, At, KindOK, Commands
  <2>2. QED
    BY <1>1, <1>3, <1>6, <2>1, Basics DEF WholeCommand, InHand, Trees, Steps
<1>15. CASE AddReads(p)
  <2> DEFINE m == [index EXCEPT ![InHand(r)] = work[InHand(r)]]
             y == [r EXCEPT !.at = "lock", !.mine = m]
  <2>1. r.at = "add" /\ x = y /\ UNCHANGED <<index, commits>>
    BY <1>2, <1>15, Zenon DEF AddReads, At, InHand, repoVars
  <2>2. \A f \in Paths : m[f] # "torn"
    BY <1>1, <2>1 DEF Trees, WholeRepo, WholeCommand
  <2>3. y.mine = m /\ y.want = r.want /\ y.at = "lock"
    BY <1>1 DEF Commands
  <2> HIDE DEF y, m
  <2>4. QED
    BY <1>3, <2>1, <2>2, <2>3 DEF WholeCommand
<1>16. CASE AddWrites(p)
  <2>1. index' = r.mine /\ UNCHANGED commits
    BY <1>16 DEF AddWrites
  <2>2. x.mine = r.mine /\ x.want = r.want /\ x.at # "add"
    <3>1. CASE r.kind = "save" /\ ~r.seeding
      <4>1. x = [r EXCEPT !.at = "next", !.todo = r.todo \ {r.file}]
        BY <1>2, <1>16, <3>1, Zenon DEF AddWrites
      <4>2. QED
        BY <1>1, <4>1 DEF Commands
    <3>2. CASE ~(r.kind = "save" /\ ~r.seeding)
      <4>1. x = [r EXCEPT !.at = "tree"]
        BY <1>2, <1>16, <3>2, Zenon DEF AddWrites
      <4>2. QED
        BY <1>1, <4>1 DEF Commands
    <3>3. QED
      BY <3>1, <3>2
  <2>3. QED
    BY <2>1, <2>2 DEF WholeRepo, WholeCommand
<1>17. CASE DiffHead(p) \/ StatusDirty(p)
  BY <1>2, <1>4, <1>6, <1>17 DEF DiffHead, StatusDirty, Goto, Steps, repoVars
<1>18. CASE StatusClean(p) \/ Raises(p)
  BY <1>2, <1>3, <1>5, <1>18 DEF StatusClean, Raises, repoVars
<1>19. CASE ResolveConfig(p)
  <2> DEFINE t == TreeOf(Meaning(r.ref))[r.file]
             y == [r EXCEPT !.at = "report", !.want[r.file] = t]
  <2>1. r.at = "resolve" /\ Becomes(p, y) /\ UNCHANGED <<index, commits>>
    BY <1>19 DEF ResolveConfig, At, repoVars
  <2>2. r.file \in Files /\ r.want \in [Files -> Texts] /\ Meaning(r.ref) \in 0..Len(commits)
    BY <1>1, <2>1, Lookups DEF Commands
  <2>3. t # "torn"
    <3>1. CASE Meaning(r.ref) = 0
      BY <2>2, <3>1, Untorn, Basics DEF TreeOf
    <3>2. CASE Meaning(r.ref) # 0
      BY <1>1, <2>2, <3>2, Basics DEF TreeOf, WholeRepo, RepoOK
    <3>3. QED
      BY <3>1, <3>2
  <2>4. y.at = "report" /\ y.mine = r.mine /\ \A f \in Files : y.want[f] = IF f = r.file THEN t ELSE r.want[f]
    BY <1>1, <2>2 DEF Commands
  <2>5. x = y
    BY <1>2, <2>1, Zenon
  <2> HIDE DEF t, y
  <2>6. QED
    BY <1>3, <2>1, <2>3, <2>4, <2>5 DEF WholeCommand
<1>20. CASE ResolveCommit(p)
  <2> DEFINE y == [r EXCEPT !.at = "restore", !.target = Meaning(r.ref)]
  <2>1. y.mine = r.mine /\ y.want = r.want /\ y.at # "add"
    BY <1>1 DEF Commands
  <2>2. x = y /\ UNCHANGED <<index, commits>>
    BY <1>2, <1>20, Zenon DEF ResolveCommit, repoVars
  <2>3. QED
    BY <1>4, <2>1, <2>2
<1>21. CASE WriteTree(p)
  <2> DEFINE y == [r EXCEPT !.at = "parent", !.mine = index]
  <2>1. y.mine = index /\ y.want = r.want /\ y.at # "add"
    BY <1>1 DEF Commands
  <2>2. x = y /\ UNCHANGED <<index, commits>>
    BY <1>2, <1>21, Zenon DEF WriteTree, repoVars
  <2>3. QED
    BY <1>3, <2>1, <2>2 DEF WholeRepo, WholeCommand
<1>22. CASE ReadParent(p)
  <2> DEFINE y == [r EXCEPT !.at = "commit", !.parent = head]
  <2>1. y.mine = r.mine /\ y.want = r.want /\ y.at # "add"
    BY <1>1 DEF Commands
  <2>2. x = y /\ UNCHANGED <<index, commits>>
    BY <1>2, <1>22, Zenon DEF ReadParent, repoVars
  <2>3. QED
    BY <1>4, <2>1, <2>2
<1>23. QED
  BY <1>8, <1>9, <1>10, <1>11, <1>12, <1>13, <1>14, <1>15, <1>16, <1>17, <1>18, <1>19, <1>20, <1>21,
     <1>22 DEF Command

LEMMA WholeNext == Shape /\ [Next]_vars /\ Whole => Whole'
<1> SUFFICES ASSUME Shape, [Next]_vars, Whole, ~overlapped' PROVE (WholeRepo /\ \A p \in Procs : WholeCommand(proc[p]))'
  BY DEF Whole
<1>1. ASSUME NEW p \in Procs, Command(p)
      PROVE  (WholeRepo /\ \A q \in Procs : WholeCommand(proc[q]))'
  <2>1. Goes(p) /\ ~overlapped
    BY <1>1, CommandGoes DEF Goes
  <2>2. WholeRepo /\ \A q \in Procs : WholeCommand(proc[q])
    BY <2>1 DEF Whole
  <2>3. WholeRepo' /\ WholeCommand(proc[p])'
    <3>1. PICK r, x : r = proc[p] /\ x = proc'[p]
      OBVIOUS
    <3>2. WholeRepo' /\ WholeCommand(x)'
      BY <1>1, <2>2, <3>1, CommandWhole
    <3>3. QED
      BY <3>1, <3>2
  <2>4. ASSUME NEW q \in Procs, q # p PROVE WholeCommand(proc[q])'
    <3>1. proc'[q] = proc[q] /\ proc[q].at = "idle"
      BY <2>1, <2>4 DEF Goes, Shape, Solo
    <3>2. QED
      BY <2>2, <3>1 DEF WholeCommand
  <2>5. QED
    BY <2>3, <2>4
<1>2. ASSUME NEW p \in Procs, Dies(p)
      PROVE  (WholeRepo /\ \A q \in Procs : WholeCommand(proc[q]))'
  <2>1. UNCHANGED <<work, index, commits>> /\ ~overlapped
    BY <1>2, DiesAs
  <2>2. WholeRepo /\ \A q \in Procs : WholeCommand(proc[q])
    BY <2>1 DEF Whole
  <2>3. WholeRepo'
    BY <2>1, <2>2 DEF WholeRepo
  <2>4. ASSUME NEW q \in Procs PROVE WholeCommand(proc[q])'
    <3>1. WholeCommand(NoCommand)'
      BY Untorn, Basics DEF WholeCommand
    <3>2. q # p => WholeCommand(proc[q])'
      BY <1>2, <2>1, <2>2, DiesAs DEF WholeCommand
    <3>3. QED
      BY <1>2, <3>1, <3>2, DiesAs
  <2>5. QED
    BY <2>3, <2>4
<1>3. ASSUME NEW p \in Procs, Begin(p)
      PROVE  (WholeRepo /\ \A q \in Procs : WholeCommand(proc[q]))'
  <2>1. UNCHANGED <<work, index, commits>> /\ ~overlapped
    BY <1>3, BeginsAs DEF repoVars
  <2>2. WholeRepo /\ \A q \in Procs : WholeCommand(proc[q])
    BY <2>1 DEF Whole
  <2>3. WholeRepo'
    BY <2>1, <2>2 DEF WholeRepo
  <2>4. WholeCommand(proc[p])'
    BY <1>3, BeginsAs, Untorn DEF WholeCommand
  <2>5. ASSUME NEW q \in Procs, q # p PROVE WholeCommand(proc[q])'
    <3>1. PICK y, z : y = proc[q] /\ z = proc'[q]
      OBVIOUS
    <3>2. z = [y EXCEPT !.quiet = FALSE]
      BY <1>3, <2>5, <3>1, BeginsAs
    <3>3. y \in Commands(Len(commits))
      BY <3>1, TypeParts DEF Shape
    <3>4. z.at = y.at /\ z.mine = y.mine /\ z.want = y.want /\ z.seeding = y.seeding /\ z.file = y.file
      BY <3>2, <3>3 DEF Commands
    <3>5. WholeCommand(z)'
      BY <2>1, <2>2, <3>1, <3>4 DEF WholeCommand, InHand
    <3>6. QED
      BY <3>1, <3>5
  <2>6. QED
    BY <2>3, <2>4, <2>5
<1>4. CASE UNCHANGED vars
  <2>1. UNCHANGED <<work, index, commits, proc, overlapped>>
    BY <1>4 DEF vars, repoVars
  <2>2. QED
    BY <2>1 DEF Whole, WholeRepo, WholeCommand
<1>5. QED
  BY <1>1, <1>2, <1>3, <1>4 DEF Next

\* While commands run one after the other no commit holds a file half written,
\* wherever commands were killed.
THEOREM CommitsAreWhole == Spec => []CommittedWhole
<1>1. Whole => CommittedWhole
  BY DEF Whole, WholeRepo, CommittedWhole
<1>2. QED
  BY <1>1, ShapeInit, ShapeNext, WholeInit, WholeNext, PTL DEF Spec

-----------------------------------------------------------------------------
(* No commit is lost.                                                       *)

\* What a command is to make the parent of its commit is HEAD still.
Chain ==
    ~overlapped => /\ head = Len(commits)
                   /\ \A c \in DOMAIN commits : commits[c].parent = c - 1
                   /\ \A p \in Procs : proc[p].at = "commit" => proc[p].parent = head

LEMMA ChainInit == Init => Chain
<1> SUFFICES ASSUME Init PROVE Chain
  OBVIOUS
<1>1. head = Len(commits) /\ DOMAIN commits = {}
  BY DEF Init
<1>2. \A p \in Procs : proc[p].at = "idle"
  BY Basics DEF Init
<1>3. QED
  BY <1>1, <1>2 DEF Chain

\* A commit on top of the last one makes the line longer.
LEMMA LineGrows ==
    ASSUME RepoOK, head = Len(commits), \A c \in DOMAIN commits : commits[c].parent = c - 1,
           NEW t, commits' = Append(commits, [tree |-> t, parent |-> head]),
           head' = Len(commits) + 1
    PROVE  head' = Len(commits') /\ \A c \in DOMAIN commits' : commits'[c].parent = c - 1
<1>1. Len(commits) \in Nat /\ DOMAIN commits = 1..Len(commits)
  BY DEF RepoOK
<1>2. Len(commits') = Len(commits) + 1 /\ DOMAIN commits' = 1..(Len(commits) + 1)
  BY <1>1 DEF RepoOK
<1>3. \A c \in 1..Len(commits) : commits'[c] = commits[c]
  BY <1>1 DEF RepoOK
<1>4. commits'[Len(commits) + 1] = [tree |-> t, parent |-> head]
  BY <1>1 DEF RepoOK
<1>5. commits'[Len(commits) + 1].parent = Len(commits)
  BY <1>4
<1>6. QED
  BY <1>1, <1>2, <1>3, <1>5

\* A command is about to commit only after it has read HEAD.
LEMMA ReachesCommit ==
    ASSUME Shape, NEW p \in Procs, Command(p), ~MoveHead(p), proc'[p].at = "commit"
    PROVE  ReadParent(p)
<1> DEFINE r == proc[p]
<1>1. r \in Commands(Len(commits))
  BY TypeParts DEF Shape
<1>2. ASSUME NEW x, Becomes(p, x) PROVE x.at = "commit"
  BY <1>2, TypeParts DEF Shape, Becomes
<1>3. ASSUME NEW s \in Steps, Goto(p, s) PROVE s = "commit"
  BY <1>1, <1>2, <1>3 DEF Goto, Commands
<1>4. NoCommand.at # "commit"
  BY Basics
<1>5. ~OpenExisting(p)
  <2>1. Opened(r).at # "commit"
    BY <1>1, <1>4 DEF Opened, Commands
  <2>2. QED
    BY <1>2, <2>1 DEF OpenExisting
<1>6. ~InitRepo(p)
  <2>1. [r EXCEPT !.at = "touch", !.seeding = TRUE].at # "commit"
    BY <1>1 DEF Commands
  <2>2. QED
    BY <1>2, <2>1, Zenon DEF InitRepo
<1>7. ~TouchKeep(p) /\ ~WriteBack(p) /\ ~Written(p) /\ ~AddLocks(p) /\ ~StatusDirty(p) /\ ~DiffHead(p)
  BY <1>3 DEF TouchKeep, WriteBack, Written, AddLocks, StatusDirty, DiffHead, Steps
<1>8. ~WriteNext(p)
  <2>1. \A f : [r EXCEPT !.at = "write", !.file = f].at # "commit"
    BY <1>1 DEF Commands
  <2>2. QED
    BY <1>2, <2>1, Zenon DEF WriteNext
<1>9. ~AddReads(p) /\ ~WriteTree(p)
  <2>1. \A m : /\ [r EXCEPT !.at = "lock", !.mine = m].at # "commit"
               /\ [r EXCEPT !.at = "parent", !.mine = m].at # "commit"
    BY <1>1 DEF Commands
  <2>2. QED
    BY <1>2, <2>1, Zenon DEF AddReads, WriteTree
<1>10. ~AddWrites(p)
  <2>1. /\ [r EXCEPT !.at = "next", !.todo = @ \ {r.file}].at # "commit"
        /\ [r EXCEPT !.at = "tree"].at # "commit"
    BY <1>1 DEF Commands
  <2>2. QED
    BY <1>2, <2>1, Zenon DEF AddWrites
<1>11. ~StatusClean(p) /\ ~Raises(p)
  BY <1>2, <1>4, Zenon DEF StatusClean, Raises
<1>12. ~ResolveConfig(p) /\ ~ResolveCommit(p)
  <2>1. \A t : /\ [r EXCEPT !.at = "report", !.want[r.file] = t].at # "commit"
               /\ [r EXCEPT !.at = "restore", !.target = t].at # "commit"
    BY <1>1 DEF Commands
  <2>2. QED
    BY <1>2, <2>1, Zenon DEF ResolveConfig, ResolveCommit
<1>13. QED
  BY <1>5, <1>6, <1>7, <1>8, <1>9, <1>10, <1>11, <1>12, Zenon DEF Command

LEMMA ChainNext == Shape /\ [Next]_vars /\ Chain => Chain'
<1> DEFINE Line == head = Len(commits) /\ \A c \in DOMAIN commits : commits[c].parent = c - 1
           Held == \A p \in Procs : proc[p].at = "commit" => proc[p].parent = head
<1> SUFFICES ASSUME Shape, [Next]_vars, Chain, ~overlapped' PROVE Line' /\ Held'
  BY DEF Chain
<1>1. ASSUME UNCHANGED <<commits, head>>, Line PROVE Line'
  BY <1>1
<1>2. ASSUME NEW p \in Procs, Command(p) PROVE Line' /\ Held'
  <2>1. Goes(p) /\ ~overlapped
    BY <1>2, CommandGoes DEF Goes
  <2>2. Line /\ Held
    BY <2>1 DEF Chain
  <2>3. \A q \in Procs : q # p => proc'[q].at = "idle"
    BY <2>1 DEF Goes, Shape, Solo
  <2>4. CASE MoveHead(p)
    <3>1. /\ proc[p].at = "commit"
          /\ commits' = Append(commits, [tree |-> proc[p].mine, parent |-> proc[p].parent])
          /\ head' = Len(commits) + 1
      BY <2>4 DEF MoveHead, At
    <3>2. proc[p].parent = head
      BY <2>2, <3>1
    <3>3. RepoOK
      BY TypeParts DEF Shape
    <3>4. Line'
      BY <2>2, <3>1, <3>2, <3>3, LineGrows
    <3>5. proc'[p].at # "commit"
      <4> DEFINE y == [proc[p] EXCEPT !.seeding = FALSE]
      <4>1. proc[p] \in Commands(Len(commits))
        BY TypeParts DEF Shape
      <4>2. y \in Commands(Len(commits))
        BY <4>1 DEF Commands
      <4>3. Opened(y).at # "commit" /\ NoCommand.at # "commit"
        BY <4>2, Basics DEF Opened, Commands
      <4>4. Becomes(p, IF proc[p].seeding THEN Opened(y) ELSE NoCommand)
        BY <2>4, Zenon DEF MoveHead
      <4> HIDE DEF y
      <4>5. QED
        BY <4>3, <4>4, TypeParts DEF Shape, Becomes
    <3>6. QED
      BY <2>3, <3>4, <3>5
  <2>5. CASE ~MoveHead(p)
    <3>1. UNCHANGED <<commits, head>>
      BY <1>2, <2>5, CommandKeepsHead
    <3>2. proc'[p].at = "commit" => proc'[p].parent = head
      <4>1. SUFFICES ASSUME proc'[p].at = "commit" PROVE proc'[p].parent = head
        OBVIOUS
      <4> DEFINE y == [proc[p] EXCEPT !.at = "commit", !.parent = head]
      <4>2. Becomes(p, y)
        BY <1>2, <2>5, <4>1, ReachesCommit DEF ReadParent
      <4>3. y.parent = head
        BY TypeParts DEF Shape, Commands
      <4> HIDE DEF y
      <4>4. QED
        BY <4>2, <4>3, TypeParts DEF Shape, Becomes
    <3>3. QED
      BY <1>1, <2>2, <2>3, <3>1, <3>2
  <2>6. QED
    BY <2>4, <2>5
<1>3. ASSUME NEW p \in Procs, Dies(p) PROVE Line' /\ Held'
  <2>1. UNCHANGED <<commits, head>> /\ ~overlapped
    BY <1>3, DiesAs DEF Dies
  <2>2. \A q \in Procs : proc'[q] = proc[q] \/ proc'[q].at = "idle"
    BY <1>3, DiesAs, Basics
  <2>3. QED
    BY <1>1, <2>1, <2>2 DEF Chain
<1>4. ASSUME NEW p \in Procs, Begin(p) PROVE Line' /\ Held'
  <2>1. UNCHANGED <<commits, head>> /\ ~overlapped
    BY <1>4, BeginsAs DEF repoVars
  <2>2. proc'[p].at # "commit"
    BY <1>4, BeginsAs
  <2>3. ASSUME NEW q \in Procs, q # p
        PROVE  proc'[q].at = proc[q].at /\ proc'[q].parent = proc[q].parent
    <3>1. proc'[q] = [proc[q] EXCEPT !.quiet = FALSE]
      BY <1>4, <2>3, BeginsAs
    <3>2. QED
      BY <3>1, TypeParts DEF Shape, Commands
  <2>4. QED
    BY <1>1, <2>1, <2>2, <2>3 DEF Chain
<1>5. CASE UNCHANGED vars
  BY <1>5 DEF vars, repoVars, Chain
<1>6. QED
  BY <1>2, <1>3, <1>4, <1>5 DEF Next

\* While commands run one after the other no commit is lost: HEAD is the last one
\* made, and each stands on the one before it.
THEOREM CommitsAreKept == Spec => []NothingIsLost
<1>1. Chain => NothingIsLost
  BY DEF Chain, NothingIsLost
<1>2. QED
  BY <1>1, ShapeInit, ShapeNext, ChainInit, ChainNext, PTL DEF Spec

=============================================================================
