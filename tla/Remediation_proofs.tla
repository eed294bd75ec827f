-------------------------- MODULE Remediation_proofs --------------------------
(***************************************************************************)
(* Theorems about apply_config and remediate_devices, for every number of   *)
(* devices and workers, every snippet, every configuration a device may have *)
(* and every combination of the faults.                                     *)
(***************************************************************************)
EXTENDS Remediation, FiniteSetTheorems, TLAPS

(***************************************************************************)
(* The inductive invariant, in parts.                                       *)
(***************************************************************************)
\* Steps before the first change, steps over the second connection, and those of the
\* third one.
Preparing == {"idle", "connect", "show", "decide", "approve", "reconnect", "checkpoint"}
Changing == {"checkpoint", "send", "verify", "replace", "push"}
TakenBack == {"reopen", "clean"}

Progress(d) ==
    /\ sessions[d] = CASE step[d] = "show"      -> {1}
                       [] step[d] \in Changing  -> {2}
                       [] step[d] = "clean"     -> {3}
                       [] OTHER                 -> {}
    /\ step[d] \in Preparing => ~Touched(d) /\ flash[d] = <<>>
    /\ step[d] \in {"approve", "reconnect"} \cup Changing \cup TakenBack => ~args.dryRun
    /\ step[d] \in {"reconnect"} \cup Changing \cup TakenBack => approved[d]
    /\ Touched(d) \/ flash[d] # <<>> => approved[d] /\ ~args.dryRun
    /\ step[d] = "over" <=> status[d] # "none"
    /\ status[d] \in {"dry_run", "skipped"} => ~Touched(d) /\ flash[d] = <<>>

\* The account o of what was changed, when cp was the checkpoint and the device
\* now runs cfg.
Account(o, cp, cfg) ==
    /\ cp \cap o.add = {}
    /\ o.del \subseteq cp
    /\ \A x : x \notin Foreign =>
           /\ x \in cp /\ x \notin cfg => x \in o.del
           /\ x \in cfg /\ x \notin cp => x \in o.add

\* What this run did is exactly the difference between the checkpoint and the
\* configuration, other people's lines apart: it never touches those.
Tracking(d) ==
    /\ (ours[d].add \cup ours[d].del) \cap Foreign = {}
    /\ flash[d] # <<>> =>
          /\ Head(flash[d]) \cap ours[d].add = {}
          /\ ours[d].del \subseteq Head(flash[d])
          /\ step[d] \in {"send", "verify"} => Account(ours[d], Head(flash[d]), running[d])

DInv == DevTypeOK /\ \A d \in Devices : Progress(d) /\ Tracking(d)

-----------------------------------------------------------------------------
\* Configurations are closed under what a device and its administrators do.
LEMMA ConfigsClosed ==
    /\ \A b \in Baselines : b \in Configs
    /\ \A c \in Configs : SnippetLines \ c \in SUBSET SnippetLines
    /\ \A c \in Configs, l \in SnippetLines : Accept(l, c) \in Configs
    /\ \A c, b \in Configs : \A S \in SUBSET b : Pushed(c, S) \in Configs
    /\ \A c \in Configs, l \in Foreign : c \cup {l} \in Configs /\ c \ {l} \in Configs
BY DEF Configs, Accept, Pushed

LEMMA NetTyped ==
    ASSUME NEW o \in [add : Configs, del : Configs], NEW c \in Configs, NEW e \in Configs
    PROVE  Net(o, c, e) \in [add : Configs, del : Configs]
BY DEF Net, Configs

LEMMA DInitInv == DevInit => DInv
<1> SUFFICES ASSUME DevInit PROVE DInv
  OBVIOUS
<1>1. {} \in Configs /\ Baselines \subseteq Configs /\ 0 \in 0..Len(Snippet)
  BY RemediateAssumption, ConfigsClosed DEF Configs
<1>2. DevTypeOK
  <2>1. running \in [Devices -> Configs]
    BY <1>1 DEF DevInit
  <2>2. ours \in [Devices -> [add : Configs, del : Configs]]
    BY <1>1 DEF DevInit, Untouched
  <2> QED
    BY <1>1, <2>1, <2>2 DEF DevInit, DevTypeOK, Steps, Statuses, Fates
<1>3. \A d \in Devices : Progress(d) /\ Tracking(d)
  BY DEF DevInit, Progress, Tracking, Touched, Untouched, Preparing, Changing, TakenBack
<1> QED
  BY <1>2, <1>3 DEF DInv

\* Opening and closing a connection of a device.
LEMMA SessionsTyped ==
    ASSUME sessions \in [Devices -> SUBSET {1, 2, 3}], NEW d \in Devices, NEW c \in {1, 2, 3}
    PROVE  /\ [sessions EXCEPT ![d] = @ \cup {c}] \in [Devices -> SUBSET {1, 2, 3}]
           /\ [sessions EXCEPT ![d] = @ \ {c}] \in [Devices -> SUBSET {1, 2, 3}]
<1>1. sessions[d] \cup {c} \in SUBSET {1, 2, 3} /\ sessions[d] \ {c} \in SUBSET {1, 2, 3}
  OBVIOUS
<1> QED
  BY <1>1

\* Sending one line leaves other people's lines alone, ...
LEMMA NetOwn ==
    ASSUME NEW l \in SnippetLines, NEW cfg, NEW o, (o.add \cup o.del) \cap Foreign = {}
    PROVE  LET p == Net(o, cfg, Accept(l, cfg)) IN (p.add \cup p.del) \cap Foreign = {}
<1> DEFINE new == Accept(l, cfg)
           p == Net(o, cfg, new)
<1>1. /\ p.add = (o.add \cup ((new \ cfg) \ o.del)) \ (cfg \ new)
      /\ p.del = (o.del \cup ((cfg \ new) \ o.add)) \ (new \ cfg)
  BY DEF Net
<1>2. \A x : x \in Foreign => (x \in new <=> x \in cfg)
  <2>1. l \notin Foreign /\ Removes[l] \cap Foreign = {}
    BY RemediateAssumption DEF Range
  <2> QED
    BY <2>1 DEF Accept
<1> HIDE DEF new, p
<1>3. (p.add \cup p.del) \cap Foreign = {}
  BY <1>1, <1>2
<1> QED
  BY <1>3 DEF new, p

\* ... and keeps the account.
LEMMA NetTracks ==
    ASSUME NEW l \in SnippetLines, NEW cfg, NEW cp, NEW o, Account(o, cp, cfg)
    PROVE  Account(Net(o, cfg, Accept(l, cfg)), cp, Accept(l, cfg))
<1> DEFINE new == Accept(l, cfg)
           p == Net(o, cfg, new)
<1>1. /\ p.add = (o.add \cup ((new \ cfg) \ o.del)) \ (cfg \ new)
      /\ p.del = (o.del \cup ((cfg \ new) \ o.add)) \ (new \ cfg)
  BY DEF Net
<1>2. \A x : x \in Foreign => (x \in new <=> x \in cfg)
  <2>1. l \notin Foreign /\ Removes[l] \cap Foreign = {}
    BY RemediateAssumption DEF Range
  <2> QED
    BY <2>1 DEF Accept
<1> HIDE DEF new, p
<1>3. Account(p, cp, new)
  BY <1>1, <1>2 DEF Account
<1> QED
  BY <1>3 DEF new, p

\* Only the device a step is about changes.
Others(d) ==
    /\ args' = args
    /\ \A e \in Devices \ {d} :
          /\ step'[e] = step[e] /\ sessions'[e] = sessions[e] /\ running'[e] = running[e]
          /\ flash'[e] = flash[e] /\ added'[e] = added[e] /\ approved'[e] = approved[e]
          /\ status'[e] = status[e] /\ ours'[e] = ours[e]
          /\ rollbackError'[e] = rollbackError[e] /\ fate'[e] = fate[e]

LEMMA OthersKeep ==
    ASSUME NEW d \in Devices, DInv, Others(d)
    PROVE  \A e \in Devices \ {d} : Progress(e)' /\ Tracking(e)'
BY DEF DInv, Others, Progress, Tracking, Touched

\* Progress through the reading of the configuration, from step to step.
LEMMA ProgressReads ==
    ASSUME NEW d \in Devices, Progress(d), UNCHANGED <<args, flash, ours, approved>>,
           step[d] \in {"idle", "connect", "show"},
           \/ /\ step[d] # "show" /\ step'[d] = "connect" /\ status'[d] = status[d]
              /\ sessions'[d] = sessions[d]
           \/ /\ step[d] # "show" /\ step'[d] = "show" /\ status'[d] = status[d]
              /\ sessions'[d] = sessions[d] \cup {1}
           \/ /\ step[d] # "show" /\ step'[d] = "over"
              /\ status'[d] \in {"failed", "raised"} /\ sessions'[d] = sessions[d]
           \/ /\ step[d] = "show" /\ step'[d] = "decide" /\ status'[d] = status[d]
              /\ sessions'[d] = sessions[d] \ {1}
           \/ /\ step[d] = "show" /\ step'[d] = "over"
              /\ status'[d] \in {"failed", "raised"} /\ sessions'[d] = sessions[d] \ {1}
    PROVE  Progress(d)'
BY DEF Progress, Touched, Preparing, Changing, TakenBack

\* The same for the decision, the approval and the second connection.
LEMMA ProgressDecides ==
    ASSUME NEW d \in Devices, Progress(d), UNCHANGED <<args, flash, ours>>,
           \/ /\ step[d] = "decide" /\ UNCHANGED <<approved, sessions>>
              /\ \/ step'[d] = "approve" /\ status'[d] = status[d] /\ ~args.dryRun
                 \/ step'[d] = "over" /\ status'[d] \in {"dry_run", "skipped"}
           \/ /\ step[d] = "approve" /\ sessions' = sessions
              /\ \/ step'[d] = "reconnect" /\ status'[d] = status[d] /\ approved'[d]
                 \/ step'[d] = "over" /\ status'[d] = "failed" /\ approved' = approved
           \/ /\ step[d] = "reconnect" /\ approved' = approved
              /\ \/ /\ step'[d] = "checkpoint" /\ status'[d] = status[d]
                    /\ sessions'[d] = sessions[d] \cup {2}
                 \/ /\ step'[d] = "over" /\ status'[d] \in {"failed", "raised"}
                    /\ sessions'[d] = sessions[d]
    PROVE  Progress(d)'
BY DEF Progress, Touched, Preparing, Changing, TakenBack

\* The steps up to the second connection.
LEMMA ReadingInv ==
    ASSUME NEW d \in Devices, DInv,
           BeginDevice(d) \/ FirstConnect(d) \/ ShowRunning(d) \/ Decide(d)
           \/ Approve(d) \/ SecondConnect(d),
           UNCHANGED args
    PROVE  DInv'
<1> USE DEF BeginDevice, FirstConnect, ShowRunning, Decide, Approve, SecondConnect,
        Goto, Result, Disconnect
<1>1. DevTypeOK'
  <2>1. Missing(running[d]) \in SUBSET SnippetLines /\ running[d] \in Configs
    BY ConfigsClosed DEF DInv, DevTypeOK, Missing
  <2>2. added' \in [Devices -> SUBSET SnippetLines] /\ before' \in [Devices -> Configs]
    <3>1. /\ added' = added \/ added' = [added EXCEPT ![d] = Missing(running[d])]
          /\ before' = before \/ before' = [before EXCEPT ![d] = running[d]]
      OBVIOUS
    <3>2. added' \in [Devices -> SUBSET SnippetLines]
      <4>1. added \in [Devices -> SUBSET SnippetLines]
        BY DEF DInv, DevTypeOK
      <4>2. [added EXCEPT ![d] = Missing(running[d])] \in [Devices -> SUBSET SnippetLines]
        BY <2>1, <4>1
      <4> QED
        BY <3>1, <4>1, <4>2
    <3>3. before' \in [Devices -> Configs]
      BY <2>1, <3>1 DEF DInv, DevTypeOK
    <3> QED
      BY <3>2, <3>3
  <2>3. step' \in [Devices -> Steps] /\ status' \in [Devices -> Statuses]
    BY DEF DInv, DevTypeOK, Steps, Statuses
  <2>4. sessions' \in [Devices -> SUBSET {1, 2, 3}]
    <3>1. sessions \in [Devices -> SUBSET {1, 2, 3}]
      BY DEF DInv, DevTypeOK
    <3>2. \/ sessions' = sessions
          \/ \E c \in {1, 2, 3} : \/ sessions' = [sessions EXCEPT ![d] = @ \cup {c}]
                              \/ sessions' = [sessions EXCEPT ![d] = @ \ {c}]
      OBVIOUS
    <3> QED
      BY <3>1, <3>2, SessionsTyped
  <2>6. approved' \in [Devices -> BOOLEAN]
    BY DEF DInv, DevTypeOK
  <2>5. UNCHANGED <<running, flash, sent, rollbackError, ours, fate>>
    OBVIOUS
  <2> QED
    BY <2>2, <2>3, <2>4, <2>5, <2>6 DEF DInv, DevTypeOK
<1>2. Others(d)
  BY DEF DInv, DevTypeOK, Others
<1>3. Progress(d)'
  <2>1. UNCHANGED <<args, flash, ours>> /\ step[d] \in Preparing
    BY DEF Preparing
  <2>2. CASE BeginDevice(d) \/ FirstConnect(d)
    <3>1. /\ approved' = approved /\ step[d] \in {"idle", "connect"}
          /\ \/ /\ step'[d] = "connect" /\ status'[d] = status[d]
                /\ sessions'[d] = sessions[d]
             \/ /\ step'[d] = "show" /\ status'[d] = status[d]
                /\ sessions'[d] = sessions[d] \cup {1}
             \/ /\ step'[d] = "over" /\ status'[d] \in {"failed", "raised"}
                /\ sessions'[d] = sessions[d]
      BY <2>2 DEF DInv, DevTypeOK
    <3> QED
      BY <2>1, <3>1, ProgressReads DEF DInv
  <2>3. CASE ShowRunning(d)
    <3>1. /\ approved' = approved /\ step[d] = "show"
          /\ sessions'[d] = sessions[d] \ {1}
          /\ \/ step'[d] = "decide" /\ status'[d] = status[d]
             \/ step'[d] = "over" /\ status'[d] \in {"failed", "raised"}
      BY <2>3 DEF DInv, DevTypeOK
    <3> QED
      BY <2>1, <3>1, ProgressReads DEF DInv
  <2>4. CASE Decide(d)
    <3>1. /\ UNCHANGED <<approved, sessions>> /\ step[d] = "decide"
          /\ \/ step'[d] = "approve" /\ status'[d] = status[d] /\ ~args.dryRun
             \/ step'[d] = "over" /\ status'[d] \in {"dry_run", "skipped"}
      BY <2>4 DEF DInv, DevTypeOK
    <3> QED
      BY <2>1, <3>1, ProgressDecides DEF DInv
  <2>5. CASE Approve(d)
    <3>1. /\ step[d] = "approve" /\ sessions' = sessions
          /\ \/ step'[d] = "reconnect" /\ status'[d] = status[d] /\ approved'[d]
             \/ step'[d] = "over" /\ status'[d] = "failed" /\ approved' = approved
      BY <2>5 DEF DInv, DevTypeOK
    <3> QED
      BY <2>1, <3>1, ProgressDecides DEF DInv
  <2>6. CASE SecondConnect(d)
    <3>1. /\ approved' = approved /\ step[d] = "reconnect"
          /\ \/ /\ step'[d] = "checkpoint" /\ status'[d] = status[d]
                /\ sessions'[d] = sessions[d] \cup {2}
             \/ /\ step'[d] = "over" /\ status'[d] \in {"failed", "raised"}
                /\ sessions'[d] = sessions[d]
      BY <2>6 DEF DInv, DevTypeOK
    <3> QED
      BY <2>1, <3>1, ProgressDecides DEF DInv
  <2> QED
    BY <2>2, <2>3, <2>4, <2>5, <2>6
<1>4. Tracking(d)'
  <2>1. flash' = flash /\ step[d] \in Preparing
    BY DEF Preparing
  <2> QED
    BY <2>1 DEF DInv, Progress, Tracking
<1> QED
  BY <1>1, <1>2, <1>3, <1>4, OthersKeep DEF DInv

LEMMA CheckpointInv ==
    ASSUME NEW d \in Devices, DInv, Checkpoint(d), UNCHANGED args
    PROVE  DInv'
<1> USE DEF Checkpoint, Goto, Finish, Result, Disconnect
<1>1. DevTypeOK'
  <2>1. flash' \in [Devices -> {<<>>} \cup {<<c>> : c \in Configs}]
    <3>1. <<running[d]>> \in {<<c>> : c \in Configs}
      BY DEF DInv, DevTypeOK
    <3> QED
      BY <3>1 DEF DInv, DevTypeOK
  <2>2. step' \in [Devices -> Steps] /\ status' \in [Devices -> Statuses]
    BY DEF DInv, DevTypeOK, Steps, Statuses
  <2>3. sessions' \in [Devices -> SUBSET {1, 2, 3}]
    <3>1. sessions \in [Devices -> SUBSET {1, 2, 3}]
      BY DEF DInv, DevTypeOK
    <3>2. sessions' = sessions \/ sessions' = [sessions EXCEPT ![d] = @ \ {2}]
      OBVIOUS
    <3> QED
      BY <3>1, <3>2, SessionsTyped
  <2>4. UNCHANGED <<running, before, added, approved, sent, rollbackError, ours>>
    OBVIOUS
  <2>5. fate' \in [Devices -> Fates]
    BY DEF DInv, DevTypeOK, Fates
  <2> QED
    BY <2>1, <2>2, <2>3, <2>4, <2>5 DEF DInv, DevTypeOK
<1>2. Others(d)
  BY DEF DInv, DevTypeOK, Others
<1>3. Progress(d)'
  <2>1. /\ step[d] = "checkpoint" /\ sessions[d] = {2} /\ ~Touched(d) /\ ~args.dryRun
        /\ approved[d] /\ status[d] = "none"
    BY DEF DInv, DevTypeOK, Progress, Preparing, Changing, TakenBack
  <2>2. approved' = approved /\ ours' = ours
    OBVIOUS
  <2>3. \/ step'[d] = "send" /\ status'[d] = "none" /\ sessions'[d] = {2}
        \/ step'[d] = "over" /\ status'[d] = "failed" /\ sessions'[d] = {}
    BY <2>1 DEF DInv, DevTypeOK
  <2> QED
    BY <2>1, <2>2, <2>3 DEF Progress, Touched, Preparing, Changing, TakenBack
<1>4. Tracking(d)'
  <2>1. ours[d].add = {} /\ ours[d].del = {} /\ flash[d] = <<>> /\ ours' = ours /\ running' = running
    BY DEF DInv, Progress, Touched, Preparing
  <2>2. CASE flash' = flash
    BY <2>1, <2>2 DEF Tracking
  <2>3. CASE flash' = [flash EXCEPT ![d] = <<running[d]>>]
    <3>1. flash'[d] = <<running[d]>> /\ Head(flash'[d]) = running[d]
      BY <2>3 DEF DInv, DevTypeOK
    <3> QED
      BY <2>1, <3>1 DEF Tracking, Account
  <2> QED
    BY <2>2, <2>3
<1> QED
  BY <1>1, <1>2, <1>3, <1>4, OthersKeep DEF DInv

LEMMA SendLineInv ==
    ASSUME NEW d \in Devices, DInv, SendLine(d), UNCHANGED args
    PROVE  DInv'
<1> DEFINE l == Snippet[sent[d] + 1]
<1> USE DEF SendLine, Goto
<1>1. l \in SnippetLines /\ sent[d] + 1 \in 0..Len(Snippet)
  BY RemediateAssumption DEF DInv, DevTypeOK
<1>2. Accept(l, running[d]) \in Configs /\ running[d] \in Configs
  BY <1>1, ConfigsClosed DEF DInv, DevTypeOK
<1>3. DevTypeOK'
  <2>1. Net(ours[d], running[d], Accept(l, running[d])) \in [add : Configs, del : Configs]
    BY <1>2, NetTyped DEF DInv, DevTypeOK
  <2>2. ours' \in [Devices -> [add : Configs, del : Configs]]
    BY <2>1 DEF DInv, DevTypeOK
  <2>3. running' \in [Devices -> Configs]
    BY <1>2 DEF DInv, DevTypeOK
  <2>4. step' \in [Devices -> Steps] /\ sent' \in [Devices -> 0..Len(Snippet)]
    BY <1>1 DEF DInv, DevTypeOK, Steps
  <2>5. UNCHANGED <<sessions, flash, before, added, approved, status, rollbackError, fate>>
    OBVIOUS
  <2> QED
    BY <2>2, <2>3, <2>4, <2>5 DEF DInv, DevTypeOK
<1>4. Others(d)
  BY DEF DInv, DevTypeOK, Others
<1>5. Progress(d)'
  BY DEF DInv, DevTypeOK, Progress, Touched, Preparing, Changing, TakenBack
<1>6. Tracking(d)'
  <2>1. CASE running' = running /\ ours' = ours
    BY <2>1 DEF DInv, Tracking
  <2>2. CASE /\ running' = [running EXCEPT ![d] = Accept(l, @)]
             /\ ours' = [ours EXCEPT ![d] = Net(@, running[d], Accept(l, running[d]))]
    <3>1. running'[d] = Accept(l, running[d]) /\ ours'[d] = Net(ours[d], running[d], running'[d])
      BY <2>2 DEF DInv, DevTypeOK
    <3>2. flash' = flash /\ step[d] = "send"
      OBVIOUS
    <3>4. (ours'[d].add \cup ours'[d].del) \cap Foreign = {}
      BY <1>1, <3>1, NetOwn DEF DInv, Tracking
    <3>3. CASE flash[d] # <<>>
      <4>1. Account(ours[d], Head(flash[d]), running[d])
        BY <3>2, <3>3 DEF DInv, Tracking
      <4>2. Account(ours'[d], Head(flash[d]), running'[d])
        BY <1>1, <3>1, <4>1, NetTracks
      <4> QED
        BY <3>2, <3>4, <4>2 DEF Tracking, Account
    <3> QED
      BY <3>2, <3>3, <3>4 DEF Tracking
  <2> QED
    BY <2>1, <2>2
<1> QED
  BY <1>3, <1>4, <1>5, <1>6, OthersKeep DEF DInv

\* The steps from the last line sent on: nothing is added to the account.
LEMMA EndingInv ==
    ASSUME NEW d \in Devices, DInv,
           Applied(d) \/ SendFails(d) \/ Verify(d) \/ Replace(d) \/ Reopen(d) \/ Clean(d)
           \/ ReplaceFails(d) \/ PushPrevious(d) \/ PushFails(d),
           UNCHANGED args
    PROVE  DInv'
<1> USE DEF Applied, SendFails, Verify, Replace, Reopen, Clean, ReplaceFails, PushPrevious, PushFails,
        Goto, Finish, Result, Disconnect, Cleanup
<1>1. DevTypeOK'
  <2>1. flash[d] # <<>> => Head(flash[d]) \in Configs
    BY DEF DInv, DevTypeOK
  <2>2. running' \in [Devices -> Configs]
    <3>1. ASSUME NEW S \in SUBSET before[d] PROVE Pushed(running[d], S) \in Configs
      BY <3>1, ConfigsClosed DEF DInv, DevTypeOK
    <3>2. before[d] \in Taken(before[d]) /\ \A S \in Taken(before[d]) : S \subseteq before[d]
      BY DEF Taken
    <3>3. CASE running' = running
      BY <3>3 DEF DInv, DevTypeOK
    <3>4. CASE flash[d] # <<>> /\ running' = [running EXCEPT ![d] = Head(flash[d])]
      BY <2>1, <3>4 DEF DInv, DevTypeOK
    <3>5. CASE \E S \in SUBSET before[d] : running' = [running EXCEPT ![d] = Pushed(@, S)]
      <4>1. PICK S \in SUBSET before[d] : running' = [running EXCEPT ![d] = Pushed(@, S)]
        BY <3>5
      <4> QED
        BY <3>1, <4>1 DEF DInv, DevTypeOK
    <3> QED
      BY <3>2, <3>3, <3>4, <3>5
  <2>3. flash' \in [Devices -> {<<>>} \cup {<<c>> : c \in Configs}]
    BY DEF DInv, DevTypeOK
  <2>4. step' \in [Devices -> Steps] /\ status' \in [Devices -> Statuses]
    BY DEF DInv, DevTypeOK, Steps, Statuses
  <2>5. sessions' \in [Devices -> SUBSET {1, 2, 3}]
    <3>1. sessions \in [Devices -> SUBSET {1, 2, 3}]
      BY DEF DInv, DevTypeOK
    <3>2. \/ sessions' = sessions
          \/ \E c \in {1, 2, 3} : \/ sessions' = [sessions EXCEPT ![d] = @ \cup {c}]
                                 \/ sessions' = [sessions EXCEPT ![d] = @ \ {c}]
      OBVIOUS
    <3> QED
      BY <3>1, <3>2, SessionsTyped
  <2>8. fate' \in [Devices -> Fates]
    BY DEF DInv, DevTypeOK, Fates
  <2>7. rollbackError' \in [Devices -> BOOLEAN]
    BY DEF DInv, DevTypeOK
  <2>6. UNCHANGED <<before, added, approved, sent, ours>>
    OBVIOUS
  <2> QED
    BY <2>2, <2>3, <2>4, <2>5, <2>6, <2>7, <2>8 DEF DInv, DevTypeOK
<1>2. Others(d)
  BY DEF DInv, DevTypeOK, Others
<1>6. /\ step[d] \in {"send", "verify", "replace", "reopen", "clean", "push"}
      /\ step'[d] \in {"verify", "replace", "reopen", "clean", "push", "over"}
      /\ approved' = approved /\ added' = added /\ ours' = ours
      /\ flash'[d] \in {flash[d], <<>>}
      /\ step'[d] = "verify" => step[d] = "send" /\ running' = running
      /\ step'[d] # "over" => status'[d] = status[d]
      /\ step'[d] = "over" => status'[d] \in {"failed", "success", "rolled_back"}
  BY DEF DInv, DevTypeOK
<1>7. sessions[d] = CASE step[d] = "clean"  -> {3}
                      [] step[d] = "reopen" -> {}
                      [] OTHER              -> {2}
  BY <1>6 DEF DInv, Progress, Changing
<1>8. sessions'[d] = CASE step'[d] = "clean"            -> {3}
                       [] step'[d] \in {"reopen", "over"} -> {}
                       [] OTHER                        -> {2}
  <2>1. CASE Applied(d) \/ SendFails(d) \/ Verify(d) \/ ReplaceFails(d) \/ PushPrevious(d) \/ PushFails(d)
    BY <1>7, <2>1 DEF DInv, DevTypeOK
  <2>2. CASE Replace(d) \/ Reopen(d) \/ Clean(d)
    BY <1>7, <2>2 DEF DInv, DevTypeOK
  <2> QED
    BY <2>1, <2>2
<1>4. Progress(d)'
  BY <1>6, <1>8 DEF DInv, Progress, Touched, Preparing, Changing, TakenBack
<1>5. Tracking(d)'
  BY <1>6 DEF DInv, Tracking
<1> QED
  BY <1>1, <1>2, <1>4, <1>5, OthersKeep DEF DInv

LEMMA DriftInv == ASSUME NEW d \in Devices, DInv, Drift(d) PROVE DInv'
<1> USE DEF Drift
<1>1. DevTypeOK'
  <2>1. \A l \in Foreign : running[d] \cup {l} \in Configs /\ running[d] \ {l} \in Configs
    BY ConfigsClosed DEF DInv, DevTypeOK
  <2>2. running' \in [Devices -> Configs]
    BY <2>1 DEF DInv, DevTypeOK
  <2> QED
    BY <2>2 DEF DInv, DevTypeOK
<1>2. Others(d)
  BY DEF DInv, DevTypeOK, Others
<1>3. PICK l \in Foreign : running'[d] \in {running[d] \cup {l}, running[d] \ {l}}
  BY DEF DInv, DevTypeOK
<1>4. Progress(d)'
  BY DEF DInv, DevTypeOK, Progress, Touched
<1>5. Tracking(d)'
  BY <1>3 DEF DInv, Tracking, Account
<1> QED
  BY <1>1, <1>2, <1>4, <1>5, OthersKeep DEF DInv

LEMMA DStepInv == DInv /\ [DevNext]_devVars => DInv'
<1> SUFFICES ASSUME DInv, [DevNext]_devVars PROVE DInv'
  OBVIOUS
<1>1. CASE \E d \in Devices : BeginDevice(d) \/ ApplyStep(d) \/ Drift(d)
  BY <1>1, ReadingInv, CheckpointInv, SendLineInv, EndingInv, DriftInv
     DEF ApplyStep, BeginDevice
<1>2. CASE UNCHANGED devVars
  BY <1>2 DEF devVars, DInv, DevTypeOK, Progress, Tracking, Touched
<1> QED
  BY <1>1, <1>2 DEF DevNext, AllOver

\* Sessions, approval, changes and the account of the run belong to the step that
\* apply_config has reached, whatever the devices do.
THEOREM RemediateInvariant == DevSpec => []DInv
BY DInitInv, DStepInv, PTL DEF DevSpec

-----------------------------------------------------------------------------
\* What the invariant says, property by property.
LEMMA DeviceProperties ==
    ASSUME DInv
    PROVE  /\ ChangedOnlyWhenAllowed /\ CheckpointPredatesChange
           /\ SessionsReleased
<1>1. ChangedOnlyWhenAllowed
  BY DEF DInv, Progress, ChangedOnlyWhenAllowed
<1>2. CheckpointPredatesChange
  BY DEF DInv, Tracking, CheckpointPredatesChange
<1>3. ASSUME NEW d \in Devices
      PROVE  (step[d] = "over" => sessions[d] = {}) /\ Cardinality(sessions[d]) <= 1
  <2>1. /\ Cardinality({}) = 0 /\ Cardinality({1}) = 1 /\ Cardinality({2}) = 1
        /\ Cardinality({3}) = 1
    BY FS_EmptySet, FS_Singleton
  <2>2. sessions[d] \in {{}, {1}, {2}, {3}} /\ (step[d] = "over" => sessions[d] = {})
    BY DEF DInv, Progress, Changing
  <2> QED
    BY <2>1, <2>2
<1> QED
  BY <1>1, <1>2, <1>3 DEF SessionsReleased

\* A device is changed only with the approval and never in a dry run.
THEOREM RemediateAllowed == DevSpec => []ChangedOnlyWhenAllowed
BY DeviceProperties, RemediateInvariant, PTL

\* The checkpoint predates every change of the run.
THEOREM RemediateCheckpoint == DevSpec => []CheckpointPredatesChange
BY DeviceProperties, RemediateInvariant, PTL

\* No session is left open, and there are never two.
THEOREM RemediateSessions == DevSpec => []SessionsReleased
BY DeviceProperties, RemediateInvariant, PTL

-----------------------------------------------------------------------------
(***************************************************************************)
(* What the rollback promises.  The checkpoint is there from the first line *)
(* on, unless the device refused the copy in the text of its answer only;   *)
(* configure replace undoes the change; whatever comes after it touches only *)
(* the checkpoint, and other people's lines.                                *)
(***************************************************************************)
\* The checkpoint is kept until the change has succeeded or is taken back.
Kept(d) ==
    step[d] \in {"send", "verify", "replace", "push"} /\ fate[d] # "unread" => flash[d] # <<>>

\* How the change was taken back, when it was.
Fated(d) ==
    /\ fate[d] = "replaced" => Undone(d) /\ step[d] \in TakenBack \cup {"over"}
    /\ step[d] \in TakenBack => fate[d] \in {"replaced", "unread"}

\* What has become of a change that did not succeed.
Ended(d) ==
    /\ status[d] \in {"failed", "rolled_back", "raised"} /\ fate[d] # "unread" =>
          Undone(d) \/ flash[d] # <<>>
    /\ status[d] = "failed" => Undone(d) \/ rollbackError[d] \/ "send" \in Faults

HInv == \A d \in Devices : Kept(d) /\ Fated(d) /\ Ended(d)

\* A step is about one device.
LEMMA OthersStay ==
    ASSUME DInv, NEW d \in Devices, BeginDevice(d) \/ ApplyStep(d) \/ Drift(d)
    PROVE  Others(d)
BY DEF DInv, DevTypeOK, Others, ApplyStep, BeginDevice, FirstConnect, ShowRunning,
   Decide, Approve, SecondConnect, Checkpoint, SendLine, Applied, SendFails, Verify, Replace,
   Reopen, Clean, ReplaceFails, PushPrevious, PushFails, Drift, Goto, Result, Finish,
   Disconnect, Cleanup

\* Up to the checkpoint the device is as it was found.
LEMMA PreparingEnds ==
    ASSUME NEW d \in Devices, DInv, HInv,
           BeginDevice(d) \/ FirstConnect(d) \/ ShowRunning(d) \/ Decide(d)
           \/ Approve(d) \/ SecondConnect(d) \/ Checkpoint(d)
    PROVE  (Kept(d) /\ Fated(d) /\ Ended(d))'
<1>1. /\ step[d] \in Preparing /\ ours' = ours
      /\ step'[d] \in Preparing \cup {"send", "over"}
  BY DEF DInv, DevTypeOK, Preparing, BeginDevice, FirstConnect, ShowRunning,
     Decide, Approve, SecondConnect, Checkpoint, Goto, Finish, Result
<1>2. Undone(d)'
  BY <1>1 DEF DInv, Progress, Undone, Touched
<1>3. fate[d] # "replaced" /\ fate'[d] # "replaced"
  BY <1>1 DEF HInv, Fated, TakenBack, Preparing, DInv, DevTypeOK, BeginDevice, FirstConnect,
     ShowRunning, Decide, Approve, SecondConnect, Checkpoint
<1>4. step'[d] = "send" => fate'[d] = "unread" \/ flash'[d] # <<>>
  <2>1. CASE Checkpoint(d)
    <3>1. step'[d] = "send" =>
            \/ flash' = [flash EXCEPT ![d] = <<running[d]>>]
            \/ fate' = [fate EXCEPT ![d] = "unread"]
      BY <2>1 DEF DInv, DevTypeOK, Checkpoint, Goto, Finish, Result
    <3>2. <<running[d]>> # <<>>
      OBVIOUS
    <3> QED
      BY <3>1, <3>2 DEF DInv, DevTypeOK
  <2>2. CASE ~Checkpoint(d)
    BY <2>2 DEF DInv, DevTypeOK, BeginDevice, FirstConnect, ShowRunning,
       Decide, Approve, SecondConnect, Goto, Result
  <2> QED
    BY <2>1, <2>2
<1> QED
  BY <1>1, <1>2, <1>3, <1>4 DEF Kept, Fated, Ended, Preparing, TakenBack

\* While the change is sent and verified its checkpoint stays.
LEMMA SendingEnds ==
    ASSUME NEW d \in Devices, DInv, HInv,
           SendLine(d) \/ Applied(d) \/ SendFails(d) \/ Verify(d) \/ ReplaceFails(d)
    PROVE  (Kept(d) /\ Fated(d) /\ Ended(d))'
<1>1. /\ step[d] \in {"send", "verify", "replace"} /\ fate' = fate
      /\ step'[d] \in {"send", "verify", "replace", "push", "over"}
      /\ step'[d] = "over" => status'[d] = "success" \/ (status'[d] = "failed" /\ "send" \in Faults)
      /\ step'[d] = "over" /\ status'[d] = "failed" => flash' = flash
      /\ step'[d] # "over" => flash' = flash /\ status' = status
  BY DEF DInv, DevTypeOK, SendLine, Applied, SendFails, Verify, ReplaceFails, Goto,
     Finish, Result
<1>2. status[d] = "none"
  BY <1>1 DEF DInv, Progress
<1>3. fate[d] # "replaced"
  BY <1>1 DEF HInv, Fated, TakenBack
<1>4. fate[d] # "unread" => flash[d] # <<>>
  BY <1>1 DEF HInv, Kept
<1> QED
  BY <1>1, <1>2, <1>3, <1>4 DEF Kept, Fated, Ended, TakenBack

\* configure replace restores the checkpoint, which has nothing of the change in it.
LEMMA ReplaceEnds ==
    ASSUME NEW d \in Devices, DInv, HInv, Replace(d)
    PROVE  (Kept(d) /\ Fated(d) /\ Ended(d))'
<1>1. /\ step[d] = "replace" /\ step'[d] = "reopen" /\ status' = status /\ ours' = ours
      /\ \/ fate'[d] = "unread"
         \/ fate'[d] = "replaced" /\ flash[d] # <<>> /\ running'[d] = Head(flash[d])
  BY DEF DInv, DevTypeOK, Replace, Goto
<1>2. status[d] = "none"
  BY <1>1 DEF DInv, Progress
<1>3. fate'[d] = "replaced" => Undone(d)'
  BY <1>1 DEF DInv, Tracking, Undone
<1> QED
  BY <1>1, <1>2, <1>3 DEF Kept, Fated, Ended, TakenBack

\* What comes after the rollback is about the checkpoint alone.
LEMMA CleaningEnds ==
    ASSUME NEW d \in Devices, DInv, HInv,
           Reopen(d) \/ Clean(d) \/ PushPrevious(d) \/ PushFails(d)
    PROVE  (Kept(d) /\ Fated(d) /\ Ended(d))'
<1>1. CASE Reopen(d) \/ Clean(d)
  <2>1. /\ step[d] \in TakenBack /\ step'[d] \in {"clean", "over"}
        /\ UNCHANGED <<running, ours, fate>>
        /\ status'[d] \in {status[d], "rolled_back"}
    BY <1>1 DEF DInv, DevTypeOK, Reopen, Clean, Goto, Result, TakenBack
  <2>2. status[d] = "none"
    BY <2>1 DEF DInv, Progress, TakenBack
  <2>3. fate[d] \in {"replaced", "unread"} /\ (fate[d] = "replaced" => Undone(d))
    BY <2>1 DEF HInv, Fated
  <2> QED
    BY <2>1, <2>2, <2>3 DEF Kept, Fated, Ended, TakenBack, Undone
<1>2. CASE PushPrevious(d) \/ PushFails(d)
  <2>1. /\ step[d] = "push" /\ step'[d] = "over" /\ flash' = flash
        /\ fate'[d] \in {fate[d], "pushed"} /\ (fate[d] = "unread" => fate'[d] = "unread")
        /\ status'[d] = "failed" => rollbackError'[d]
    BY <1>2 DEF DInv, DevTypeOK, PushPrevious, PushFails, Finish, Result
  <2>2. fate[d] # "replaced" /\ (fate[d] # "unread" => flash[d] # <<>>)
    BY <2>1 DEF HInv, Kept, Fated, TakenBack
  <2> QED
    BY <2>1, <2>2 DEF Kept, Fated, Ended, TakenBack
<1> QED
  BY <1>1, <1>2

LEMMA DriftEnds ==
    ASSUME NEW d \in Devices, DInv, HInv, Drift(d)
    PROVE  (Kept(d) /\ Fated(d) /\ Ended(d))'
<1>1. UNCHANGED <<step, status, flash, ours, fate>> /\ step[d] # "over"
  BY DEF Drift
<1>2. \E l \in Foreign : running'[d] \in {running[d] \cup {l}, running[d] \ {l}}
  BY DEF Drift, DInv, DevTypeOK
<1>3. status[d] = "none"
  BY <1>1 DEF DInv, Progress
<1>4. Undone(d) => Undone(d)'
  BY <1>1, <1>2 DEF DInv, Tracking, Undone
<1> QED
  BY <1>1, <1>3, <1>4 DEF HInv, Kept, Fated, Ended

LEMMA HStep == ASSUME DInv, HInv, [DevNext]_devVars PROVE HInv'
<1>1. CASE UNCHANGED devVars
  BY <1>1 DEF devVars, HInv, Kept, Fated, Ended, Undone
<1>2. ASSUME NEW d \in Devices, BeginDevice(d) \/ ApplyStep(d) \/ Drift(d)
      PROVE  HInv'
  <2>1. Others(d)
    BY <1>2, OthersStay
  <2>2. \A e \in Devices \ {d} : (Kept(e) /\ Fated(e) /\ Ended(e))'
    BY <2>1 DEF HInv, Others, Undone, Kept, Fated, Ended
  <2>3. (Kept(d) /\ Fated(d) /\ Ended(d))'
    BY <1>2, PreparingEnds, SendingEnds, ReplaceEnds, CleaningEnds, DriftEnds DEF ApplyStep
  <2> QED
    BY <2>2, <2>3 DEF HInv
<1> QED
  BY <1>1, <1>2 DEF DevNext, AllOver

LEMMA RecoveryInvariant == DevInit /\ [][DevNext]_devVars => []HInv
<1>1. DevInit => DInv /\ HInv
  BY DInitInv DEF DevInit, HInv, Kept, Fated, Ended, TakenBack
<1>2. DInv /\ HInv /\ [DevNext]_devVars => (DInv /\ HInv)'
  BY DStepInv, HStep
<1> QED
  BY <1>1, <1>2, PTL

LEMMA RecoveryProperties ==
    ASSUME HInv
    PROVE  /\ RecoveryPath /\ RolledBackIsUndone
           /\ "send" \notin Faults => FailureIsRolledBack
BY DEF HInv, Fated, Ended, RecoveryPath, RolledBackIsUndone, FailureIsRolledBack

\* Whatever the device does, a change that did not succeed can be taken back; unless
\* it refused a copy or a replace in the text of an answer that is not read.
THEOREM RemediateRecovery == DevSpec => []RecoveryPath
BY RecoveryProperties, RecoveryInvariant, PTL DEF DevSpec

\* "rolled_back" by configure replace is true, whatever happens to the third
\* connection, to the checkpoint and to other people's lines after it.
THEOREM RemediateRolledBack == DevSpec => []RolledBackIsUndone
BY RecoveryProperties, RecoveryInvariant, PTL DEF DevSpec

\* A drop while the lines are sent is the only way to a failure that neither leaves the
\* device as it was found nor says that the rollback failed.
THEOREM RemediateFailure ==
    ASSUME "send" \notin Faults PROVE DevSpec => []FailureIsRolledBack
BY RecoveryProperties, RecoveryInvariant, PTL DEF DevSpec

-----------------------------------------------------------------------------
(***************************************************************************)
(* The pipeline.  A step of it is a step of apply_config on one device or a  *)
(* step of the caller, so what was proved of the devices carries over; what  *)
(* the caller adds is kept by a second invariant, on top of the first.      *)
(***************************************************************************)
\* The outcome of d ends a sequential run.
Stops(d) == status[d] = "raised" \/ (status[d] \in {"failed", "rolled_back"} /\ ~args.dryRun)

\* The result of d is what became of it, or d comes after the device that ended the run.
Settled(d) == step[d] = "over" /\ status[d] # "raised" /\ results[d] = status[d]
PassedBy(d) ==
    /\ Sequential /\ ~args.dryRun
    /\ results[d] = "skipped" /\ step[d] = "idle"
    /\ \E e \in 1..(d - 1) : status[e] \in {"failed", "rolled_back"}

\* A device is begun when every one before it is over and did not end the run, ...
InTurn ==
    Sequential =>
        \A e \in Devices : \A d \in 1..(e - 1) :
            step[e] # "idle" => step[d] = "over" /\ ~Stops(d)

\* ... and a result that ends the run is the last one that is not "skipped".
LastResult ==
    Sequential =>
        \A e \in Devices : \A d \in 1..(e - 1) :
            results[d] # "none" /\ Stops(d) => results[e] = "skipped"

\* What has come back to the caller, and that it comes back to nothing in progress.
CameBack ==
    /\ futureRaised => \E d \in Devices : status[d] = "raised"
    /\ main # "running" =>
          \A d \in Devices : step[d] = "over" \/ (step[d] = "idle" /\ Sequential)
    /\ main = "returned" => \A d \in Devices : results[d] # "none"
    /\ main = "raised" => \E d \in Devices : status[d] = "raised"
    /\ main = "exited" => \/ \A d \in Devices : results[d] # "none"
                          \/ \E d \in Devices : status[d] = "raised"

Calling ==
    /\ \A d \in Devices : results[d] # "none" => Settled(d) \/ PassedBy(d)
    /\ InTurn /\ LastResult /\ CameBack

PInv == DInv /\ TypeOK /\ Calling

\* A step of the pipeline is a step of apply_config, or leaves the devices alone.
LEMMA DevicesStep == [Next]_vars => [DevNext]_devVars
BY DEF Next, vars, Caller, StartNext, TakeResult, LetThrough, StartParallel, TakeCompleted,
   LeavePool, ReturnResults, Exit, ExitRaised, Apply, Foreigner, Terminated, DevNext

\* Every run of the pipeline is a run of its devices: the theorems above hold of it.
LEMMA PipelineRunsDevices == Spec => DevInit /\ [][DevNext]_devVars
BY DevicesStep, PTL DEF Spec, Init

\* What a step of apply_config does, as far as its caller can tell.
LEMMA ApplyFacts ==
    ASSUME DInv, NEW d \in Devices, ApplyStep(d)
    PROVE  /\ step[d] \notin {"idle", "over"} /\ status[d] = "none"
           /\ step'[d] # "idle" /\ (step'[d] = "over" <=> status'[d] # "none")
           /\ status' = [status EXCEPT ![d] = status'[d]]
           /\ ours' = [ours EXCEPT ![d] = ours'[d]]
           /\ ours' = ours \/ (status' = status /\ ~args.dryRun)
           /\ status'[d] \in {"dry_run", "skipped"} => ours[d] = Untouched
<1> USE DEF ApplyStep, FirstConnect, ShowRunning, Decide, Approve, SecondConnect, Checkpoint,
        SendLine, Applied, SendFails, Verify, Replace, Reopen, Clean, ReplaceFails,
        PushPrevious, PushFails, Goto, Finish, Result
<1>1. step[d] \notin {"idle", "over"}
  OBVIOUS
<1>2. status[d] = "none"
  BY <1>1 DEF DInv, DevTypeOK, Progress
<1>3. step'[d] # "idle"
  BY DEF DInv, DevTypeOK
<1>4. step'[d] = "over" <=> status'[d] # "none"
  <2>1. DInv'
    BY DStepInv DEF DevNext
  <2> QED
    BY <2>1 DEF DInv, DevTypeOK, Progress
<1>5. status' = [status EXCEPT ![d] = status'[d]] /\ ours' = [ours EXCEPT ![d] = ours'[d]]
  BY DEF DInv, DevTypeOK
<1>6. ours' = ours \/ (status' = status /\ step[d] = "send")
  OBVIOUS
<1>7. step[d] = "send" => ~args.dryRun
  BY DEF DInv, Progress, Changing
<1>8. status'[d] \in {"dry_run", "skipped"} => step[d] = "decide"
  BY DEF DInv, DevTypeOK, Progress
<1>9. step[d] = "decide" => ours[d] = Untouched
  <2>1. step[d] = "decide" => ours[d].add = {} /\ ours[d].del = {}
    BY DEF DInv, Progress, Preparing, Touched
  <2>2. ours[d] \in [add : Configs, del : Configs]
    BY DEF DInv, DevTypeOK
  <2> QED
    BY <2>1, <2>2 DEF Untouched
<1> QED
  BY <1>1, <1>2, <1>3, <1>4, <1>5, <1>6, <1>7, <1>8, <1>9

LEMMA PInitInv == Init => PInv
<1> SUFFICES ASSUME Init PROVE PInv
  OBVIOUS
<1>1. DInv
  BY DInitInv DEF Init
<1>2. TypeOK
  BY <1>1 DEF DInv, TypeOK, Init, Statuses
<1>3. Calling
  BY DEF Init, DevInit, Calling, InTurn, LastResult, CameBack
<1> QED
  BY <1>1, <1>2, <1>3 DEF PInv

LEMMA PTypeStep == ASSUME PInv, [Next]_vars PROVE TypeOK'
<1>1. DevTypeOK'
  BY DevicesStep, DStepInv DEF PInv, DInv
<1>2. UNCHANGED callerVars \/ Caller
  BY DEF Next, vars, Apply, Foreigner, Terminated
<1>3. results' \in [Devices -> Statuses \ {"raised"}]
  <2>1. CASE UNCHANGED results
    BY <2>1 DEF PInv, TypeOK
  <2>2. ASSUME NEW d \in Devices, TakeResult(d) \/ TakeCompleted(d)
        PROVE  results' \in [Devices -> Statuses \ {"raised"}]
    <3>1. UNCHANGED results \/ status[d] \in Statuses \ {"raised"}
      BY <2>2 DEF TakeResult, TakeCompleted, PInv, TypeOK, DevTypeOK
    <3> QED
      BY <2>2, <3>1 DEF TakeResult, TakeCompleted, PInv, TypeOK, Statuses
  <2>3. UNCHANGED results \/ \E d \in Devices : TakeResult(d) \/ TakeCompleted(d)
    BY <1>2 DEF callerVars, Caller, StartNext, LetThrough, StartParallel, LeavePool,
       ReturnResults, Exit, ExitRaised
  <2> QED
    BY <2>1, <2>2, <2>3
<1>4. /\ main' \in {"running", "returned", "raised", "exited"}
      /\ {futureRaised', logged'} \subseteq BOOLEAN
      /\ exitCode' \in {0, 1}
  BY <1>2 DEF PInv, TypeOK, callerVars, Caller, StartNext, TakeResult, LetThrough, StartParallel,
     TakeCompleted, LeavePool, ReturnResults, Exit, ExitRaised
<1> QED
  BY <1>1, <1>3, <1>4 DEF TypeOK

LEMMA InOrder ==
    /\ \A e \in Devices : \A d \in 1..(e - 1) : d \in Devices /\ d # e /\ e \notin 1..(d - 1)
    /\ \A e \in Devices : \A d \in 1..(e - 1) : 1..(d - 1) \subseteq 1..(e - 1)
BY PipelineAssumption

\* A device is begun in its turn.
LEMMA BeginCalling ==
    ASSUME NEW d \in Devices, PInv, BeginDevice(d), UNCHANGED callerVars,
           \/ ~Sequential
           \/ main = "running" /\ results[d] = "none" /\ \A e \in 1..(d - 1) : results[e] # "none"
    PROVE  Calling'
<1> USE DEF PInv, Sequential
<1>1. /\ step[d] = "idle" /\ status[d] = "none"
      /\ step' = [step EXCEPT ![d] = "connect"]
      /\ UNCHANGED <<args, status, results, main, futureRaised>>
  BY DEF BeginDevice, Goto, callerVars, DInv, DevTypeOK, Progress
<1>2. step'[d] = "connect" /\ \A e \in Devices \ {d} : step'[e] = step[e]
  BY <1>1 DEF DInv, DevTypeOK
<1>4. main = "running"
  BY <1>1 DEF Calling, CameBack
<1>5. results[d] = "none"
  <2>1. ~Settled(d) /\ (~Sequential => ~PassedBy(d))
    BY <1>1 DEF Settled, PassedBy
  <2> QED
    BY <2>1 DEF Calling
<1>6. \A e \in Devices : results'[e] # "none" => Settled(e)' \/ PassedBy(e)'
  BY <1>1, <1>2, <1>5 DEF Calling, Settled, PassedBy
<1>7. InTurn'
  <2>1. SUFFICES ASSUME Sequential, NEW e \in Devices, NEW c \in 1..(e - 1), step'[e] # "idle"
                 PROVE  step'[c] = "over" /\ ~Stops(c)'
    BY <1>1 DEF InTurn
  <2>2. c \in Devices /\ c # e
    BY InOrder
  <2>3. Stops(c)' = Stops(c)
    BY <1>1 DEF Stops
  <2>4. CASE e = d
    <3>1. results[c] # "none" /\ ~Stops(c)
      BY <1>5, <2>1, <2>4 DEF Calling, LastResult
    <3>2. ~PassedBy(c)
      <4>1. ASSUME PassedBy(c) PROVE FALSE
        <5>1. PICK b \in 1..(c - 1) : status[b] \in {"failed", "rolled_back"}
          BY <4>1 DEF PassedBy
        <5>2. Stops(b) /\ b \in 1..(e - 1)
          BY <4>1, <5>1, InOrder DEF PassedBy, Stops
        <5>3. results[b] # "none"
          BY <2>1, <2>4, <5>2
        <5> QED
          BY <1>5, <2>1, <2>4, <5>2, <5>3 DEF Calling, LastResult
      <4> QED
        BY <4>1
    <3> QED
      BY <1>2, <2>2, <2>3, <2>4, <3>1, <3>2 DEF Calling, Settled
  <2>5. CASE e # d
    <3>1. step[c] = "over" /\ ~Stops(c)
      BY <1>2, <2>1, <2>5 DEF Calling, InTurn
    <3> QED
      BY <1>1, <1>2, <2>2, <2>3, <3>1
  <2> QED
    BY <2>4, <2>5
<1>8. LastResult' /\ CameBack'
  BY <1>1, <1>4 DEF Calling, LastResult, CameBack, Stops
<1> QED
  BY <1>6, <1>7, <1>8 DEF Calling

\* apply_config goes on with a device: it is not over and has no result yet.
LEMMA ApplyCalling ==
    ASSUME NEW d \in Devices, PInv, ApplyStep(d), UNCHANGED callerVars
    PROVE  Calling'
<1> USE DEF PInv, Sequential
<1>1. /\ step[d] \notin {"idle", "over"} /\ status[d] = "none" /\ step'[d] # "idle"
      /\ step'[d] = "over" <=> status'[d] # "none"
  BY ApplyFacts
<1>2. UNCHANGED <<args, results, main, futureRaised>>
  BY DEF ApplyStep, callerVars
<1>3. \A e \in Devices \ {d} : step'[e] = step[e] /\ status'[e] = status[e]
  BY OthersStay DEF Others
<1>4. main = "running"
  BY <1>1 DEF Calling, CameBack
<1>5. results[d] = "none"
  BY <1>1 DEF Calling, Settled, PassedBy
<1>6. ASSUME NEW e \in Devices, results'[e] # "none"
      PROVE  Settled(e)' \/ PassedBy(e)'
  <2>1. e # d /\ (Settled(e) \/ PassedBy(e))
    BY <1>2, <1>5, <1>6 DEF Calling
  <2>2. Settled(e) => Settled(e)'
    BY <1>2, <1>3, <2>1 DEF Settled
  <2>3. PassedBy(e) => PassedBy(e)'
    BY <1>1, <1>2, <1>3, <2>1, InOrder DEF PassedBy
  <2> QED
    BY <2>1, <2>2, <2>3
<1>7. ASSUME Sequential, NEW e \in Devices, NEW c \in 1..(e - 1)
      PROVE  /\ step'[e] # "idle" => step'[c] = "over" /\ ~Stops(c)'
             /\ results'[c] # "none" /\ Stops(c)' => results'[e] = "skipped"
  <2>1. c \in Devices /\ c # e
    BY InOrder
  <2>2. step'[e] # "idle" => step[c] = "over" /\ ~Stops(c)
    BY <1>1, <1>3, <1>7 DEF Calling, InTurn
  <2>3. c # d => Stops(c)' = Stops(c)
    BY <1>2, <1>3, <2>1 DEF Stops
  <2> QED
    BY <1>1, <1>2, <1>3, <1>5, <1>7, <2>1, <2>2, <2>3 DEF Calling, LastResult
<1>8. CameBack'
  BY <1>1, <1>2, <1>3, <1>4 DEF Calling, CameBack
<1> QED
  BY <1>2, <1>6, <1>7, <1>8 DEF Calling, InTurn, LastResult

\* The caller takes the result of a device that is over.
LEMMA TakeCalling ==
    ASSUME NEW d \in Devices, PInv, TakeResult(d) \/ TakeCompleted(d)
    PROVE  Calling'
<1> USE DEF PInv, Sequential
<1>1. /\ step[d] = "over" /\ results[d] = "none" /\ main = "running"
      /\ UNCHANGED <<args, step, status, main>>
  BY DEF TakeResult, TakeCompleted, devVars
<1>3. CASE status[d] # "raised" /\ results' = [results EXCEPT ![d] = status[d]]
           /\ (Sequential => ~Stops(d)) /\ futureRaised' = futureRaised
  <2>1. results'[d] = status[d] /\ \A e \in Devices \ {d} : results'[e] = results[e]
    BY <1>3 DEF TypeOK
  <2>2. ASSUME NEW e \in Devices, results'[e] # "none"
        PROVE  Settled(e)' \/ PassedBy(e)'
    BY <1>1, <1>3, <2>1, <2>2 DEF Calling, Settled, PassedBy
  <2>3. InTurn'
    BY <1>1 DEF Calling, InTurn, Stops
  <2>4. ASSUME Sequential, NEW e \in Devices, NEW c \in 1..(e - 1), results'[c] # "none", Stops(c)'
        PROVE  results'[e] = "skipped"
    <3>1. c \in Devices /\ Stops(c)
      BY <1>1, <2>4, InOrder DEF Stops
    <3>2. c # d
      BY <1>3, <2>4, <3>1
    <3>3. results[e] = "skipped"
      BY <2>1, <2>4, <3>1, <3>2 DEF Calling, LastResult
    <3> QED
      BY <1>1, <2>1, <3>3
  <2>5. CameBack'
    BY <1>1, <1>3 DEF Calling, CameBack
  <2> QED
    BY <1>1, <2>2, <2>3, <2>4, <2>5 DEF Calling, LastResult
<1>4. CASE /\ Sequential /\ status[d] \in {"failed", "rolled_back"} /\ ~args.dryRun
           /\ results' = [e \in Devices |-> IF e < d THEN results[e]
                                            ELSE IF e = d THEN status[d] ELSE "skipped"]
           /\ futureRaised' = futureRaised
  <2>1. /\ results'[d] = status[d]
        /\ \A e \in Devices : d \in 1..(e - 1) => results'[e] = "skipped"
        /\ \A e \in Devices : d # e /\ d \notin 1..(e - 1) => results'[e] = results[e]
    BY <1>4, PipelineAssumption
  <2>2. ASSUME NEW e \in Devices, results'[e] # "none"
        PROVE  Settled(e)' \/ PassedBy(e)'
    <3>1. CASE d \in 1..(e - 1)
      <4>1. step[e] = "idle"
        BY <1>4, <3>1 DEF Calling, InTurn, Stops
      <4> QED
        BY <1>1, <1>4, <2>1, <3>1, <4>1 DEF PassedBy
    <3>2. CASE e = d
      BY <1>1, <1>4, <2>1, <3>2 DEF Settled
    <3>3. CASE d # e /\ d \notin 1..(e - 1)
      BY <1>1, <2>1, <2>2, <3>3 DEF Calling, Settled, PassedBy
    <3> QED
      BY <3>1, <3>2, <3>3
  <2>3. InTurn'
    BY <1>1 DEF Calling, InTurn, Stops
  <2>4. ASSUME NEW e \in Devices, NEW c \in 1..(e - 1), results'[c] # "none", Stops(c)'
        PROVE  results'[e] = "skipped"
    <3>1. c \in Devices /\ Stops(c) /\ c # e /\ e \notin 1..(c - 1)
      BY <1>1, InOrder, <2>4 DEF Stops
    <3>2. CASE c = d
      BY <2>1, <3>2
    <3>3. CASE d \in 1..(c - 1)
      <4>1. d \in 1..(e - 1)
        BY <3>3, InOrder
      <4> QED
        BY <2>1, <4>1
    <3>4. CASE d # c /\ d \notin 1..(c - 1)
      <4>1. results[c] # "none"
        BY <2>1, <2>4, <3>1, <3>4
      <4>2. results[e] = "skipped"
        BY <1>4, <3>1, <4>1 DEF Calling, LastResult
      <4> QED
        BY <1>1, <2>1, <4>2
    <3> QED
      BY <3>2, <3>3, <3>4
  <2>5. CameBack'
    BY <1>1, <1>4 DEF Calling, CameBack
  <2> QED
    BY <2>2, <2>3, <2>4, <2>5 DEF Calling, LastResult
<1>5. CASE status[d] = "raised" /\ results' = results
  BY <1>1, <1>5 DEF Calling, Settled, PassedBy, InTurn, LastResult, CameBack, Stops
<1>6. status[d] # "raised" /\ Sequential /\ (Successful(status[d]) \/ args.dryRun) => ~Stops(d)
  BY DEF Successful, Stops
<1>7. status[d] # "raised" /\ ~Successful(status[d]) => status[d] \in {"failed", "rolled_back"}
  BY <1>1 DEF DInv, DevTypeOK, Progress, Statuses, Successful
<1> QED
  BY <1>3, <1>4, <1>5, <1>6, <1>7 DEF TakeResult, TakeCompleted

\* The call comes back, or the command ends.
LEMMA ReturnCalling ==
    ASSUME PInv,
           \/ \E d \in Devices : LetThrough(d)
           \/ LeavePool \/ ReturnResults \/ Exit \/ ExitRaised
    PROVE  Calling'
<1> USE DEF PInv, Sequential
<1>1. UNCHANGED <<args, step, status, results, futureRaised>>
  BY DEF LetThrough, LeavePool, ReturnResults, Exit, ExitRaised, devVars
<1>2. (\A d \in Devices : results[d] # "none" => Settled(d) \/ PassedBy(d))' /\ InTurn' /\ LastResult'
  BY <1>1 DEF Calling, Settled, PassedBy, InTurn, LastResult, Stops
<1>3. CASE \E d \in Devices : LetThrough(d)
  <2>1. PICK d \in Devices : LetThrough(d)
    BY <1>3
  <2>2. ASSUME NEW e \in Devices PROVE step[e] \in {"idle", "over"}
    <3>1. e = d \/ e \in 1..(d - 1) \/ d \in 1..(e - 1)
      BY PipelineAssumption
    <3>2. Stops(d) /\ step[d] = "over" /\ Sequential
      BY <2>1 DEF LetThrough, Stops
    <3> QED
      BY <3>1, <3>2 DEF Calling, InTurn
  <2> QED
    BY <1>1, <1>2, <2>1, <2>2 DEF LetThrough, Calling, CameBack
<1>4. CASE LeavePool
  BY <1>1, <1>2, <1>4 DEF LeavePool, Calling, CameBack
<1>5. CASE ReturnResults
  <2>1. \A d \in Devices : Settled(d) \/ PassedBy(d)
    BY <1>5 DEF ReturnResults, Calling
  <2>2. \A d \in Devices : step[d] = "over" \/ (step[d] = "idle" /\ Sequential)
    BY <2>1 DEF Settled, PassedBy
  <2> QED
    BY <1>1, <1>2, <1>5, <2>2 DEF ReturnResults, Calling, CameBack
<1>6. CASE Exit \/ ExitRaised
  BY <1>1, <1>2, <1>6 DEF Exit, ExitRaised, Calling, CameBack
<1> QED
  BY <1>3, <1>4, <1>5, <1>6

LEMMA PStepInv == PInv /\ [Next]_vars => PInv'
<1> SUFFICES ASSUME PInv, [Next]_vars PROVE PInv'
  OBVIOUS
<1>1. DInv' /\ TypeOK'
  BY DevicesStep, DStepInv, PTypeStep DEF PInv
<1>2. Calling'
  <2>1. CASE \E d \in Devices : StartNext(d) \/ StartParallel(d)
    BY <2>1, BeginCalling DEF StartNext, StartParallel
  <2>2. CASE \E d \in Devices : TakeResult(d) \/ TakeCompleted(d)
    BY <2>2, TakeCalling
  <2>3. CASE (\E d \in Devices : LetThrough(d)) \/ LeavePool \/ ReturnResults \/ Exit \/ ExitRaised
    BY <2>3, ReturnCalling
  <2>4. CASE \E d \in Devices : Apply(d)
    BY <2>4, ApplyCalling DEF Apply
  <2>5. CASE (\E d \in Devices : Foreigner(d)) \/ UNCHANGED vars
    <3>1. UNCHANGED <<args, step, status, results, main, futureRaised>>
      BY <2>5 DEF Foreigner, Drift, vars, devVars, callerVars
    <3> QED
      BY <3>1 DEF PInv, Calling, Sequential, Settled, PassedBy, InTurn, LastResult, CameBack, Stops
  <2> QED
    BY <2>1, <2>2, <2>3, <2>4, <2>5 DEF Next, Caller, Terminated
<1> QED
  BY <1>1, <1>2 DEF PInv

\* The caller of remediate_devices and the devices agree on what is over, what was
\* passed by and whose turn it is.
THEOREM PipelineInvariant == Spec => []PInv
BY PInitInv, PStepInv, PTL DEF Spec

-----------------------------------------------------------------------------
\* Type correctness of the pipeline.
THEOREM PipelineTypeOK == Spec => []TypeOK
<1>1. PInv => TypeOK
  BY DEF PInv
<1> QED
  BY <1>1, PipelineInvariant, PTL

\* Sequentially, no device after the first live failure is ever contacted.
THEOREM PipelineStops == Spec => []StopsAtFirstFailure
<1>1. ASSUME PInv, NEW d \in Devices, NEW e \in Devices,
             Sequential, d < e, status[d] \in {"failed", "rolled_back", "raised"}, ~args.dryRun
      PROVE  step[e] = "idle"
  <2>1. d \in 1..(e - 1)
    BY <1>1, PipelineAssumption
  <2>2. Stops(d)
    BY <1>1 DEF Stops
  <2> QED
    BY <1>1, <2>1, <2>2 DEF PInv, Calling, InTurn
<1>2. PInv => StopsAtFirstFailure
  BY <1>1 DEF StopsAtFirstFailure
<1> QED
  BY <1>2, PipelineInvariant, PTL

\* The list returned tells what became of every device.
THEOREM PipelineResults == Spec => []ResultsAreTrue
<1>1. ASSUME PInv, main = "returned", NEW d \in Devices
      PROVE  results[d] = status[d] \/ (results[d] = "skipped" /\ step[d] = "idle" /\ ~Touched(d))
  <2>1. Settled(d) \/ PassedBy(d)
    BY <1>1 DEF PInv, Calling, CameBack
  <2>2. step[d] = "idle" => ~Touched(d)
    BY <1>1 DEF PInv, DInv, Progress, Preparing
  <2> QED
    BY <2>1, <2>2 DEF Settled, PassedBy
<1>2. PInv => ResultsAreTrue
  BY <1>1 DEF ResultsAreTrue
<1> QED
  BY <1>2, PipelineInvariant, PTL

\* The command never ends, nor does the call return, with a device in progress.
THEOREM PipelineLeavesNothing == Spec => []NothingInProgressAtExit
<1>1. PInv => NothingInProgressAtExit
  BY DEF PInv, Calling, CameBack, NothingInProgressAtExit, InProgress
<1> QED
  BY <1>1, PipelineInvariant, PTL

\* What holds of the devices holds of them in the pipeline, whatever the caller does.
THEOREM PipelineDevices ==
    Spec => [](ChangedOnlyWhenAllowed /\ CheckpointPredatesChange /\ SessionsReleased)
<1>1. DevInit /\ [][DevNext]_devVars => []DInv
  BY DInitInv, DStepInv, PTL
<1> QED
  BY <1>1, DeviceProperties, PipelineRunsDevices, PTL

\* So does what a rollback promises.
THEOREM PipelineRecovery ==
    Spec => [](/\ RecoveryPath /\ RolledBackIsUndone
               /\ "send" \notin Faults => FailureIsRolledBack)
BY RecoveryInvariant, RecoveryProperties, PipelineRunsDevices, PTL

-----------------------------------------------------------------------------
(***************************************************************************)
(* The pipeline implements its contract.                                    *)
(***************************************************************************)
Reported == IF Back = "list" THEN results ELSE [d \in Devices |-> "none"]

\* How the call has come back, when the invariant holds.
LEMMA BackIs ==
    ASSUME PInv
    PROVE  /\ main = "running" => Back = "no"
           /\ main = "returned" => Back = "list"
           /\ main = "raised" => Back = "exception"
           /\ main = "exited" => Back = IF \E d \in Devices : results[d] = "none"
                                        THEN "exception" ELSE "list"
BY DEF Back

LEMMA ContractInit == Init => Contract!Init
<1> SUFFICES ASSUME Init PROVE Contract!Init
  OBVIOUS
<1>1. Devices = 1..N
  BY PipelineAssumption
<1>2. Back = "no"
  BY DEF Init, Back
<1>3. (~args.dryRun) \in BOOLEAN
  OBVIOUS
<1> QED
  BY <1>1, <1>2, <1>3 DEF Init, DevInit, Sequential, Contract!Init

\* While the call runs, a step that neither changes a device nor concludes one is
\* not seen in the contract.
LEMMA ContractStutter ==
    ASSUME UNCHANGED <<args, status, ours, Back>>,
           Back = "list" => UNCHANGED results
    PROVE  UNCHANGED Contract!contractVars
<1>1. Reported' = Reported
  BY DEF Reported
<1> QED
  BY <1>1 DEF Contract!contractVars, Reported, Sequential

\* A device that apply_config is at has its turn.
LEMMA ContractTurn ==
    ASSUME PInv, NEW d \in Devices, step[d] \notin {"idle", "over"}, status[d] = "none"
    PROVE  Contract!Turn(d)
<1> USE DEF PInv, Sequential
<1>1. Back = "no"
  BY BackIs DEF Calling, CameBack, TypeOK
<1>2. ASSUME Sequential, NEW e \in 1..(d - 1)
      PROVE  Contract!GoesOn(status[e])
  <2>1. e \in Devices /\ step[e] = "over" /\ ~Stops(e)
    BY <1>2, InOrder DEF Calling, InTurn
  <2>2. status[e] \in Statuses \ {"none"}
    BY <2>1 DEF DInv, DevTypeOK, Progress
  <2> QED
    BY <2>1, <2>2 DEF Contract!GoesOn, Stops, Statuses
<1> QED
  BY <1>1, <1>2 DEF Contract!Turn

LEMMA ContractApply ==
    ASSUME PInv, NEW d \in Devices, Apply(d)
    PROVE  [Contract!Next]_Contract!contractVars
<1> USE DEF PInv, Sequential
<1>1. d \in 1..N
  BY PipelineAssumption
<1>2. /\ step[d] \notin {"idle", "over"} /\ status[d] = "none"
      /\ status' = [status EXCEPT ![d] = status'[d]]
      /\ ours' = [ours EXCEPT ![d] = ours'[d]]
      /\ ours' = ours \/ (status' = status /\ ~args.dryRun)
      /\ status'[d] \in {"dry_run", "skipped"} => ours[d] = Untouched
  BY ApplyFacts DEF Apply
<1>3. Contract!Turn(d)
  BY <1>2, ContractTurn
<1>4. UNCHANGED <<args, results, main>>
  BY DEF Apply, ApplyStep, callerVars
<1>5. Back' = Back /\ Reported' = Reported
  BY <1>4 DEF Back, Reported
<1>6. CASE ours' # ours
  <2>1. Contract!Change(d)
    BY <1>2, <1>3, <1>4, <1>5, <1>6 DEF Contract!Change, Reported
  <2> QED
    BY <1>1, <2>1 DEF Contract!Next
<1>7. CASE ours' = ours /\ status'[d] # "none"
  <2>1. status'[d] \in Statuses
    BY DevicesStep, DStepInv DEF Next, DInv, DevTypeOK
  <2>2. Contract!Conclude(d)
    BY <1>2, <1>3, <1>4, <1>5, <1>7, <2>1 DEF Contract!Conclude, Reported
  <2> QED
    BY <1>1, <2>2 DEF Contract!Next
<1>8. CASE ours' = ours /\ status'[d] = "none"
  <2>1. status' = status
    BY <1>2, <1>8 DEF DInv, DevTypeOK
  <2> QED
    BY <1>4, <1>5, <1>8, <2>1, ContractStutter
<1> QED
  BY <1>6, <1>7, <1>8

LEMMA ContractRaise ==
    ASSUME PInv, (\E d \in Devices : LetThrough(d)) \/ LeavePool
    PROVE  Contract!Raise
<1> USE DEF PInv, Sequential
<1>1. /\ main = "running" /\ main' = "raised"
      /\ UNCHANGED <<args, status, ours, results>>
      /\ \E d \in Devices : status[d] = "raised"
  BY DEF LetThrough, LeavePool, devVars, Calling, CameBack
<1>2. Back = "no" /\ Back' = "exception"
  BY <1>1 DEF Back
<1>3. Reported' = Reported
  BY <1>1, <1>2 DEF Reported
<1> QED
  BY <1>1, <1>2, <1>3, PipelineAssumption DEF Contract!Raise, Reported

LEMMA ContractReturn ==
    ASSUME PInv, ReturnResults
    PROVE  Contract!Return
<1> USE DEF PInv, Sequential
<1>1. /\ main = "running" /\ main' = "returned"
      /\ UNCHANGED <<args, status, ours, results>>
  BY DEF ReturnResults, devVars
<1>2. Back = "no" /\ Back' = "list"
  BY <1>1 DEF Back
<1>3. ASSUME NEW d \in Devices
      PROVE  /\ status[d] \notin {"none", "raised"} \/ Contract!LeftAlone(d)
             /\ results[d] = IF status[d] = "none" THEN "skipped" ELSE status[d]
  <2>1. Settled(d) \/ PassedBy(d)
    BY DEF ReturnResults, Calling
  <2>2. CASE Settled(d)
    BY <2>2 DEF Settled, DInv, DevTypeOK, Progress
  <2>3. CASE PassedBy(d)
    <3>1. step[d] = "idle" /\ status[d] = "none"
      BY <2>3 DEF PassedBy, DInv, DevTypeOK, Progress
    <3>2. ours[d].add = {} /\ ours[d].del = {}
      BY <3>1 DEF DInv, Progress, Preparing, Touched
    <3>3. ours[d] \in [add : Configs, del : Configs]
      BY DEF DInv, DevTypeOK
    <3>4. ours[d] = Untouched
      BY <3>2, <3>3 DEF Untouched
    <3> QED
      BY <2>3, <3>1, <3>4 DEF PassedBy, Contract!LeftAlone
  <2> QED
    BY <2>1, <2>2, <2>3
<1>4. results = [d \in 1..N |-> IF status[d] = "none" THEN "skipped" ELSE status[d]]
  BY <1>3, PipelineAssumption DEF TypeOK
<1> QED
  BY <1>1, <1>2, <1>3, <1>4, PipelineAssumption DEF Contract!Return

LEMMA ContractStep == PInv /\ [Next]_vars => [Contract!Next]_Contract!contractVars
<1> SUFFICES ASSUME PInv, [Next]_vars PROVE [Contract!Next]_Contract!contractVars
  OBVIOUS
<1>1. CASE \E d \in Devices : StartNext(d) \/ StartParallel(d) \/ Foreigner(d)
  <2>1. UNCHANGED <<args, status, ours, results, main>>
    BY <1>1 DEF StartNext, StartParallel, Foreigner, BeginDevice, Drift, callerVars
  <2>2. Back' = Back
    BY <2>1 DEF Back
  <2> QED
    BY <2>1, <2>2, ContractStutter
<1>2. CASE \E d \in Devices : TakeResult(d) \/ TakeCompleted(d)
  <2>1. UNCHANGED <<args, status, ours>> /\ main = "running" /\ main' = "running"
    BY <1>2 DEF TakeResult, TakeCompleted, devVars
  <2>2. Back = "no" /\ Back' = "no"
    BY <2>1 DEF Back
  <2> QED
    BY <2>1, <2>2, ContractStutter
<1>3. CASE \E d \in Devices : Apply(d)
  BY <1>3, ContractApply
<1>4. CASE (\E d \in Devices : LetThrough(d)) \/ LeavePool
  BY <1>4, ContractRaise DEF Contract!Next
<1>5. CASE ReturnResults
  BY <1>5, ContractReturn DEF Contract!Next
<1>6. CASE Exit \/ ExitRaised
  <2>1. /\ UNCHANGED <<args, status, ours, results>> /\ main' = "exited"
        /\ \/ main = "returned" /\ \A d \in Devices : results[d] # "none"
           \/ main = "raised" /\ \E d \in Devices : results[d] = "none"
    BY <1>6 DEF Exit, ExitRaised, devVars, PInv, Calling, CameBack, Settled, PassedBy, DInv, Progress
  <2>2. Back' = Back
    BY <2>1 DEF Back
  <2> QED
    BY <2>1, <2>2, ContractStutter
<1>7. CASE UNCHANGED vars
  <2>1. UNCHANGED <<args, status, ours, results, main>>
    BY <1>7 DEF vars, devVars, callerVars
  <2>2. Back' = Back
    BY <2>1 DEF Back
  <2> QED
    BY <2>1, <2>2, ContractStutter
<1> QED
  BY <1>1, <1>2, <1>3, <1>4, <1>5, <1>6, <1>7 DEF Next, Caller, Terminated

\* Whatever the devices do and in whichever order, the pipeline keeps its contract.
THEOREM PipelineImplementsContract == Spec => ContractSpec
<1>1. PInv /\ [Next]_vars => [Contract!Next]_Contract!contractVars
  BY ContractStep
<1> QED
  BY <1>1, ContractInit, PipelineInvariant, PTL DEF Spec, ContractSpec, Contract!Spec

=============================================================================
