-------------------------- MODULE HistoryContract --------------------------
(***************************************************************************)
(* What the history promises to those who audit (history.py): it is a log   *)
(* of whole audits.  An audit looks at every device, is compared with what   *)
(* the log holds by then, and is put at the end of the log, once or not at   *)
(* all; nothing else ever touches the log.                                  *)
(* There are no rows, transactions and locks here, and audits overlap.      *)
(***************************************************************************)
EXTENDS Naturals, Sequences

CONSTANTS
    Audits,         \* processes that audit, again and again
    Devices,        \* the inventory
    Names           \* the names of checks

VARIABLES
    log,            \* the audits stored: for each device what passed and failed
    stage,          \* "away", "looking", "judged" or "closed"
    found,          \* the reports of an audit, of the devices looked at
    told            \* the regressions it announced

contractVars == <<log, stage, found, told>>

Init ==
    /\ log = <<>>
    /\ stage = [a \in Audits |-> "away"]
    /\ \A a \in Audits : DOMAIN found[a] = {}
    /\ told = [a \in Audits |-> {}]

Enter(a) ==
    /\ stage[a] = "away"
    /\ stage' = [stage EXCEPT ![a] = "looking"]
    /\ UNCHANGED <<log, found, told>>

\* What was found of a device is not revised.
Find(a) ==
    /\ stage[a] = "looking"
    /\ \E d \in Devices \ DOMAIN found[a] : DOMAIN found'[a] = DOMAIN found[a] \cup {d}
    /\ \A d \in DOMAIN found[a] : found'[a][d] = found[a][d]
    /\ found' = [found EXCEPT ![a] = found'[a]]
    /\ UNCHANGED <<log, stage, told>>

\* What fails now and passed in the last audit that had any check of the device.
Regressions(a) ==
    {x \in Devices \X Names :
        /\ x[2] \in found[a][x[1]].failed
        /\ \E i \in 1..Len(log) :
              /\ x[2] \in log[i][x[1]].passed
              /\ \A j \in (i + 1)..Len(log) :
                    log[j][x[1]].passed \cup log[j][x[1]].failed = {}}

\* All of them are announced, or none: without a comparison, or a readable log.
Judge(a) ==
    /\ stage[a] = "looking" /\ DOMAIN found[a] = Devices
    /\ told' = [told EXCEPT ![a] = Regressions(a)] \/ UNCHANGED told
    /\ stage' = [stage EXCEPT ![a] = "judged"]
    /\ UNCHANGED <<log, found>>

Store(a) ==
    /\ stage[a] = "judged"
    /\ log' = Append(log, found[a])
    /\ stage' = [stage EXCEPT ![a] = "closed"]
    /\ UNCHANGED <<found, told>>

\* The audit is not stored: it was not to be, or the log cannot be written.
GiveUp(a) ==
    /\ stage[a] \in {"looking", "judged"} /\ DOMAIN found[a] = Devices
    /\ stage' = [stage EXCEPT ![a] = "closed"]
    /\ UNCHANGED <<log, found, told>>

Leave(a) ==
    /\ stage[a] # "away"
    /\ stage' = [stage EXCEPT ![a] = "away"]
    /\ DOMAIN found'[a] = {}
    /\ found' = [found EXCEPT ![a] = found'[a]]
    /\ told' = [told EXCEPT ![a] = {}]
    /\ UNCHANGED log

Next ==
    \E a \in Audits :
        Enter(a) \/ Find(a) \/ Judge(a) \/ Store(a) \/ GiveUp(a) \/ Leave(a)

Spec == Init /\ [][Next]_contractVars

=============================================================================
