------------------------ MODULE AuditHistory_proofs ------------------------
(***************************************************************************)
(* Theorems about the audit command and its history, for every inventory,   *)
(* baseline, set of options and number of overlapping audits.               *)
(***************************************************************************)
EXTENDS AuditHistory, SequenceTheorems, TLAPS

(***************************************************************************)
(* The inductive invariant, in parts.                                       *)
(***************************************************************************)

\* A report is that of a failed collection, or has every selected check; that of a
\* failure taken for a snapshot passes no more than an empty configuration does.
ReportInv ==
    \A a \in Audits :
        /\ pc[a] \in {"compare", "save", "exit"} => DOMAIN reports[a] = Devices
        /\ pc[a] = "idle" => DOMAIN reports[a] = {}
        /\ \A d \in DOMAIN reports[a] :
              \/ reports[a][d] = CollectionFailed
              \/ reports[a][d].passed \cup reports[a][d].failed = options[a].selected
        /\ \A d \in blind[a] : d \in DOMAIN reports[a] /\ reports[a][d].passed \subseteq Vacuous

\* How far an audit has come, as its history variables tell it.
StageOf(a) ==
    /\ pc[a] \in {"idle", "collect", "compare"} => compared[a] = -1
    /\ pc[a] # "exit" => stored[a] = -1
    /\ compared[a] = -1 => alarms[a] = {}
    /\ compared[a] <= Len(rows)
    /\ stored[a] # -1 =>
          /\ compared[a] <= stored[a]
          /\ stored[a] + N <= Len(rows)
          /\ \A d \in Devices : rows[stored[a] + d] = RowOf(a, d)

StageInv == \A a \in Audits : StageOf(a)

\* Row k was the baseline of a device when the table had n rows.
LastComplete(d, k, n) ==
    /\ rows[k].device = d /\ Complete(k)
    /\ \A j \in (k + 1)..n : ~ (rows[j].device = d /\ Complete(j))

\* A regression against the table as it was when it had n rows.
Regressed(a, x, n) ==
    /\ x[2] \in reports[a][x[1]].failed
    /\ \E k \in 1..n : LastComplete(x[1], k, n) /\ x[2] \in rows[k].passed

\* The alarms are what the comparison found, and rows added since change nothing.
AlarmOf(a) ==
    compared[a] # -1 =>
        \A x \in Devices \X Names : x \in alarms[a] <=> Regressed(a, x, compared[a])

AlarmInv == \A a \in Audits : AlarmOf(a)

Inv == AuditTypeOK /\ OneWriter /\ SavedWhole /\ ReportInv /\ StageInv /\ AlarmInv

-----------------------------------------------------------------------------
(***************************************************************************)
(* What the operators say.                                                  *)
(***************************************************************************)

\* A report added for a device leaves the reports of the others alone.
LEMMA ReportsGrow ==
    ASSUME AuditTypeOK, NEW a \in Audits, NEW d \in Devices, Collect(a, d)
    PROVE  /\ reports' \in [Audits -> ReportLists]
           /\ \A b \in Audits \ {a} : reports'[b] = reports[b]
           /\ DOMAIN reports'[a] = DOMAIN reports[a] \cup {d}
           /\ \A e \in DOMAIN reports[a] : e # d => reports'[a][e] = reports[a][e]
           /\ \/ reports'[a][d] \in {Audited(a, health[d]), CollectionFailed} /\ blind' = blind
              \/ /\ reports'[a][d] = Audited(a, Vacuous)
                 /\ blind' = [blind EXCEPT ![a] = @ \cup {d}]
<1>1. PICK r :
        /\ reports' = [reports EXCEPT ![a] =
              [e \in DOMAIN reports[a] \cup {d} |-> IF e = d THEN r ELSE reports[a][e]]]
        /\ \/ r \in {Audited(a, health[d]), CollectionFailed} /\ blind' = blind
           \/ r = Audited(a, Vacuous) /\ blind' = [blind EXCEPT ![a] = @ \cup {d}]
  BY DEF Collect, PutReport
<1> DEFINE new == [e \in DOMAIN reports[a] \cup {d} |-> IF e = d THEN r ELSE reports[a][e]]
<1>2. r \in Report
  <2>1. \A S : Audited(a, S) \in Report
    BY AuditAssumption DEF Audited, Report, Names, AuditTypeOK
  <2>2. CollectionFailed \in Report
    BY DEF CollectionFailed, Report, Names
  <2> QED BY <1>1, <2>1, <2>2
<1>3. PICK D \in SUBSET Devices : reports[a] \in [D -> Report]
  BY DEF AuditTypeOK, ReportLists
<1>4. new \in [D \cup {d} -> Report]
  BY <1>2, <1>3
<1>5. new \in ReportLists
  BY <1>4 DEF ReportLists
<1>6. reports' = [reports EXCEPT ![a] = new]
  BY <1>1
<1>7. /\ reports' \in [Audits -> ReportLists]
      /\ \A b \in Audits \ {a} : reports'[b] = reports[b]
      /\ reports'[a] = new
  BY <1>5, <1>6 DEF AuditTypeOK
<1> QED BY <1>1, <1>7

\* A process without reports.
LEMMA NoReportsType == NoReports \in ReportLists /\ DOMAIN NoReports = {}
<1>1. NoReports \in [{} -> Report]
  BY DEF NoReports
<1> QED BY <1>1 DEF ReportLists, NoReports

\* A commit keeps the rows there are and puts one for each device behind them.
LEMMA RowsGrow ==
    ASSUME AuditTypeOK, ReportInv, NEW a \in Audits, Commit(a)
    PROVE  /\ rows' \in Seq(Row)
           /\ Len(rows') = Len(rows) + N
           /\ \A i \in 1..Len(rows) : rows'[i] = rows[i]
           /\ \A d \in Devices : rows'[Len(rows) + d] = RowOf(a, d)
<1> DEFINE new == [d \in Devices |-> RowOf(a, d)]
<1>1. N \in Nat /\ N > 0 /\ Len(rows) \in Nat /\ rows \in Seq(Row)
  BY AuditAssumption DEF AuditTypeOK
<1>2. reports[a] \in [Devices -> Report]
  BY DEF Commit, ReportInv, AuditTypeOK, ReportLists
<1>3. \A d \in Devices : RowOf(a, d) \in Row
  BY <1>2 DEF RowOf, Row, Report
<1>4. new \in Seq(Row) /\ Len(new) = N
  BY <1>1, <1>3 DEF Devices
<1>5. rows' = rows \o new
  BY DEF Commit
<1>6. /\ rows' \in Seq(Row)
      /\ Len(rows') = Len(rows) + N
      /\ \A i \in 1..(Len(rows) + N) :
            rows'[i] = IF i <= Len(rows) THEN rows[i] ELSE new[i - Len(rows)]
  BY <1>1, <1>4, <1>5, ConcatProperties
<1>7. ASSUME NEW i \in 1..Len(rows) PROVE rows'[i] = rows[i]
  <2>1. i \in 1..(Len(rows) + N) /\ i <= Len(rows)
    BY <1>1
  <2> QED BY <2>1, <1>6
<1>8. ASSUME NEW d \in Devices PROVE rows'[Len(rows) + d] = RowOf(a, d)
  <2>1. Len(rows) + d \in 1..(Len(rows) + N) /\ ~ (Len(rows) + d <= Len(rows))
        /\ (Len(rows) + d) - Len(rows) = d
    BY <1>1 DEF Devices
  <2> QED BY <2>1, <1>6
<1> QED BY <1>6, <1>7, <1>8

-----------------------------------------------------------------------------
(***************************************************************************)
(* The parts of the invariant, one after the other.                         *)
(***************************************************************************)

LEMMA InitInv == Init => Inv
<1> SUFFICES ASSUME Init PROVE Inv
  OBVIOUS
<1>1. AuditTypeOK
  <2>1. AnyInvocation \in Invocations
    BY AuditAssumption DEF AnyInvocation
  <2>2. N \in Nat
    BY AuditAssumption
  <2> QED BY <2>1, <2>2, NoReportsType DEF Init, AuditTypeOK, PCs
<1>2. OneWriter
  BY AuditAssumption DEF Init, OneWriter
<1>3. SavedWhole
  BY DEF Init, SavedWhole
<1>4. ReportInv
  BY NoReportsType DEF Init, ReportInv
<1>5. StageInv
  BY DEF Init, StageInv, StageOf
<1>6. AlarmInv
  BY DEF Init, AlarmInv, AlarmOf
<1> QED BY <1>1, <1>2, <1>3, <1>4, <1>5, <1>6 DEF Inv

LEMMA TypeStep == Inv /\ [Next]_vars => AuditTypeOK'
<1> SUFFICES ASSUME Inv, [Next]_vars PROVE AuditTypeOK'
  OBVIOUS
<1> USE DEF Inv
<1>0. AuditTypeOK /\ N \in Nat /\ AnyInvocation \in Invocations
  BY AuditAssumption DEF AnyInvocation
<1>1. ASSUME NEW a \in Audits, Start(a) PROVE AuditTypeOK'
  BY <1>0, <1>1 DEF AuditTypeOK, Start, Goto, PCs
<1>2. ASSUME NEW a \in Audits, NEW d \in Devices, Collect(a, d) PROVE AuditTypeOK'
  <2>1. reports' \in [Audits -> ReportLists]
    BY <1>0, <1>2, ReportsGrow
  <2>2. blind' \in [Audits -> SUBSET Devices]
    BY <1>0, <1>2 DEF AuditTypeOK, Collect
  <2> QED BY <1>0, <1>2, <2>1, <2>2 DEF AuditTypeOK, Collect
<1>3. ASSUME NEW a \in Audits, Render(a) PROVE AuditTypeOK'
  <2>1. PICK p \in {"exit", "save", "compare"} : pc' = [pc EXCEPT ![a] = p]
    BY <1>3 DEF Render, Goto
  <2> QED BY <1>0, <1>3, <2>1 DEF AuditTypeOK, Render, PCs
<1>4. ASSUME NEW a \in Audits, Compare(a) PROVE AuditTypeOK'
  <2>1. NewFailures(a) \in SUBSET (Devices \X Names) /\ Len(rows) \in Nat
    BY <1>0 DEF NewFailures, AuditTypeOK
  <2> QED BY <1>0, <1>4, <2>1 DEF AuditTypeOK, Compare, Goto, PCs
<1>5. ASSUME NEW a \in Audits, CompareFails(a) PROVE AuditTypeOK'
  BY <1>0, <1>5 DEF AuditTypeOK, CompareFails, Goto, PCs
<1>6. ASSUME NEW a \in Audits, Insert(a) PROVE AuditTypeOK'
  BY <1>0, <1>6 DEF AuditTypeOK, Insert
<1>7. ASSUME NEW a \in Audits, Commit(a) PROVE AuditTypeOK'
  <2>1. rows' \in Seq(Row) /\ Len(rows) \in Nat
    BY <1>0, <1>7, RowsGrow DEF AuditTypeOK
  <2> QED BY <1>0, <1>7, <2>1 DEF AuditTypeOK, Commit, Goto, PCs
<1>8. ASSUME NEW a \in Audits, SaveFails(a) PROVE AuditTypeOK'
  BY <1>0, <1>8 DEF AuditTypeOK, SaveFails, Goto, PCs
<1>9. ASSUME NEW a \in Audits, Exit(a) PROVE AuditTypeOK'
  <2>1. ExitCode(a) \in {0, 1, 2}
    BY DEF ExitCode
  <2> QED BY <1>0, <1>9, <2>1, NoReportsType DEF AuditTypeOK, Exit, Gone, Goto, PCs
<1>10. ASSUME NEW a \in Audits, Die(a) PROVE AuditTypeOK'
  BY <1>0, <1>10, NoReportsType DEF AuditTypeOK, Die, Gone, Goto, PCs
<1>11. CASE Reconfigure
  BY <1>0, <1>11 DEF AuditTypeOK, Reconfigure
<1>12. CASE UNCHANGED vars
  BY <1>0, <1>12 DEF AuditTypeOK, vars
<1> QED BY <1>1, <1>2, <1>3, <1>4, <1>5, <1>6, <1>7, <1>8, <1>9, <1>10, <1>11, <1>12
        DEF Next, AuditStep

LEMMA WriterStep == Inv /\ [Next]_vars => OneWriter'
<1> SUFFICES ASSUME Inv, [Next]_vars PROVE OneWriter'
  OBVIOUS
<1>0. AuditTypeOK /\ OneWriter /\ N \in Nat /\ N > 0 /\ "none" \notin Audits
  BY AuditAssumption DEF Inv
<1>1. ASSUME NEW a \in Audits, AuditStep(a) PROVE OneWriter'
  <2>1. CASE Start(a)
    BY <1>0, <2>1 DEF AuditTypeOK, OneWriter, Start, Goto
  <2>2. CASE \E d \in Devices : Collect(a, d)
    BY <1>0, <2>2 DEF OneWriter, Collect
  <2>3. CASE Render(a)
    BY <1>0, <2>3 DEF AuditTypeOK, OneWriter, Render, Goto
  <2>4. CASE Compare(a)
    BY <1>0, <2>4 DEF AuditTypeOK, OneWriter, Compare, Goto
  <2>5. CASE CompareFails(a)
    BY <1>0, <2>5 DEF AuditTypeOK, OneWriter, CompareFails, Goto
  <2>6. CASE Insert(a)
    BY <1>0, <2>6 DEF AuditTypeOK, OneWriter, Insert
  <2>7. CASE Commit(a)
    BY <1>0, <2>7 DEF AuditTypeOK, OneWriter, Commit, Goto
  <2>8. CASE SaveFails(a)
    BY <1>0, <2>8 DEF AuditTypeOK, OneWriter, SaveFails, Goto
  <2>9. CASE Exit(a)
    BY <1>0, <2>9 DEF AuditTypeOK, OneWriter, Exit, Gone, Goto
  <2>10. CASE Die(a)
    BY <1>0, <2>10 DEF AuditTypeOK, OneWriter, Die, Gone, Goto
  <2> QED BY <1>1, <2>1, <2>2, <2>3, <2>4, <2>5, <2>6, <2>7, <2>8, <2>9, <2>10 DEF AuditStep
<1>2. CASE Reconfigure
  BY <1>0, <1>2 DEF OneWriter, Reconfigure
<1>3. CASE UNCHANGED vars
  BY <1>0, <1>3 DEF OneWriter, vars
<1> QED BY <1>1, <1>2, <1>3 DEF Next

\* Only a commit changes the table.
LEMMA RowsStep ==
    ASSUME [Next]_vars
    PROVE  rows' = rows \/ \E a \in Audits : Commit(a)
BY DEF Next, AuditStep, vars, Start, Collect, Render, Compare, CompareFails, Insert,
       SaveFails, Exit, Die, Reconfigure

LEMMA WholeStep == Inv /\ [Next]_vars => SavedWhole'
<1> SUFFICES ASSUME Inv, [Next]_vars PROVE SavedWhole'
  OBVIOUS
<1>0. AuditTypeOK /\ SavedWhole /\ ReportInv /\ N \in Nat /\ N > 0
  BY AuditAssumption DEF Inv
<1>1. CASE rows' = rows
  BY <1>0, <1>1 DEF SavedWhole
<1>2. ASSUME NEW a \in Audits, Commit(a) PROVE SavedWhole'
  <2> DEFINE L == Len(rows)
  <2>1. /\ Len(rows') = L + N /\ L \in Nat /\ rows' # <<>>
        /\ \A i \in 1..L : rows'[i] = rows[i]
        /\ \A d \in 1..N : rows'[L + d].device = d
    <3>1. /\ rows' \in Seq(Row) /\ Len(rows') = L + N /\ L \in Nat
          /\ \A i \in 1..L : rows'[i] = rows[i]
          /\ \A d \in Devices : rows'[L + d] = RowOf(a, d)
      BY <1>0, <1>2, RowsGrow DEF AuditTypeOK
    <3>2. rows' # <<>>
      BY <1>0, <3>1
    <3>3. \A d \in Devices : RowOf(a, d).device = d
      BY DEF RowOf
    <3> QED BY <3>1, <3>2, <3>3 DEF Devices
  <2> HIDE DEF L
  <2>2. rows'[1].device = 1
    <3>1. CASE L = 0
      <4>1. 1 \in 1..N /\ L + 1 = 1
        BY <1>0, <3>1
      <4> QED BY <2>1, <4>1
    <3>2. CASE L > 0
      <4>1. 1 \in 1..L /\ rows # <<>>
        BY <2>1, <3>2 DEF L
      <4> QED BY <1>0, <2>1, <4>1 DEF SavedWhole
    <3> QED BY <2>1, <3>1, <3>2
  <2>3. rows'[Len(rows')].device = N
    BY <1>0, <2>1
  <2>4. ASSUME NEW k \in 2..(L + N)
        PROVE  rows'[k].device = IF rows'[k - 1].device = N THEN 1
                                 ELSE rows'[k - 1].device + 1
    <3>1. CASE k <= L
      <4>1. k \in 1..L /\ k - 1 \in 1..L /\ k \in 2..L
        BY <1>0, <2>1, <3>1
      <4>2. rows'[k] = rows[k] /\ rows'[k - 1] = rows[k - 1]
        BY <2>1, <4>1
      <4> QED BY <1>0, <4>1, <4>2 DEF SavedWhole, L
    <3>2. CASE k = L + 1
      <4>1. L \in 1..L /\ k - 1 = L /\ 1 \in 1..N /\ rows # <<>>
        BY <1>0, <2>1, <3>2 DEF L
      <4>2. rows'[k].device = 1
        BY <2>1, <3>2, <4>1
      <4>3. rows'[k - 1].device = N
        <5>1. rows'[L] = rows[L]
          BY <2>1, <4>1
        <5>2. rows[L].device = N
          BY <1>0, <4>1 DEF SavedWhole, L
        <5> QED BY <4>1, <5>1, <5>2
      <4> QED BY <4>2, <4>3
    <3>3. CASE k > L + 1
      <4>1. PICK d \in 2..N : k = L + d
        <5>1. k - L \in 2..N /\ k = L + (k - L)
          BY <1>0, <2>1, <3>3
        <5> QED BY <5>1
      <4>2. d \in 1..N /\ d - 1 \in 1..N /\ k - 1 = L + (d - 1) /\ d - 1 # N
        BY <1>0, <2>1, <4>1
      <4>3. rows'[k].device = d /\ rows'[k - 1].device = d - 1
        BY <2>1, <4>1, <4>2
      <4> QED BY <4>1, <4>2, <4>3
    <3> QED BY <1>0, <2>1, <3>1, <3>2, <3>3
  <2> QED BY <2>1, <2>2, <2>3, <2>4 DEF SavedWhole
<1> QED BY <1>1, <1>2, RowsStep

LEMMA ReportStep == Inv /\ [Next]_vars => ReportInv'
<1> SUFFICES ASSUME Inv, [Next]_vars PROVE ReportInv'
  OBVIOUS
<1>0. AuditTypeOK /\ ReportInv
  BY DEF Inv
<1>1. ASSUME NEW a \in Audits, AuditStep(a) PROVE ReportInv'
  <2>1. CASE Start(a)
    <3>1. PICK i \in Invocations : options' = [options EXCEPT ![a] = i]
      BY <2>1 DEF Start
    <3>2. DOMAIN reports[a] = {}
      BY <1>0, <2>1 DEF Start, ReportInv
    <3> QED BY <1>0, <2>1, <3>1, <3>2 DEF AuditTypeOK, ReportInv, Start, Goto
  <2>2. ASSUME NEW d \in Devices, Collect(a, d) PROVE ReportInv'
    <3>1. /\ \A b \in Audits \ {a} : reports'[b] = reports[b]
          /\ DOMAIN reports'[a] = DOMAIN reports[a] \cup {d}
          /\ \A e \in DOMAIN reports[a] : e # d => reports'[a][e] = reports[a][e]
          /\ \/ reports'[a][d] \in {Audited(a, health[d]), CollectionFailed} /\ blind' = blind
             \/ /\ reports'[a][d] = Audited(a, Vacuous)
                /\ blind' = [blind EXCEPT ![a] = @ \cup {d}]
      BY <1>0, <2>2, ReportsGrow
    <3>2. /\ \A S : Audited(a, S).passed \cup Audited(a, S).failed = options[a].selected
          /\ Audited(a, Vacuous).passed \subseteq Vacuous
      BY DEF Audited
    <3>3. UNCHANGED <<pc, options>> /\ pc[a] = "collect"
      BY <2>2 DEF Collect
    <3>4. d \notin DOMAIN reports[a] /\ d \notin blind[a] /\ blind \in [Audits -> SUBSET Devices]
      BY <1>0, <2>2 DEF Collect, ReportInv, AuditTypeOK
    <3>5. ASSUME NEW b \in Audits, b # a
          PROVE  pc'[b] = pc[b] /\ options'[b] = options[b] /\ reports'[b] = reports[b] /\ blind'[b] = blind[b]
      BY <3>1, <3>3, <3>4, <3>5
    <3>6. /\ pc'[a] = "collect" /\ options'[a] = options[a]
          /\ \A e \in DOMAIN reports'[a] :
                \/ reports'[a][e] = CollectionFailed
                \/ reports'[a][e].passed \cup reports'[a][e].failed = options[a].selected
      BY <1>0, <3>1, <3>2, <3>3 DEF ReportInv
    <3>7. \A e \in blind'[a] : e \in DOMAIN reports'[a] /\ reports'[a][e].passed \subseteq Vacuous
      <4>1. \A e \in blind[a] : e # d /\ e \in DOMAIN reports[a] /\ reports[a][e].passed \subseteq Vacuous
        BY <1>0, <3>4 DEF ReportInv
      <4>2. \A e \in blind[a] : e \in DOMAIN reports'[a] /\ reports'[a][e].passed \subseteq Vacuous
        BY <3>1, <4>1
      <4>3. CASE blind' = blind
        BY <4>2, <4>3
      <4>4. CASE /\ reports'[a][d] = Audited(a, Vacuous)
                 /\ blind' = [blind EXCEPT ![a] = @ \cup {d}]
        BY <3>1, <3>2, <3>4, <4>2, <4>4
      <4> QED BY <3>1, <4>3, <4>4
    <3> QED BY <1>0, <3>5, <3>6, <3>7 DEF ReportInv
  <2>3. CASE Render(a)
    BY <1>0, <2>3 DEF AuditTypeOK, ReportInv, Render, Goto
  <2>4. CASE Compare(a)
    BY <1>0, <2>4 DEF AuditTypeOK, ReportInv, Compare, Goto
  <2>5. CASE CompareFails(a)
    BY <1>0, <2>5 DEF AuditTypeOK, ReportInv, CompareFails, Goto
  <2>6. CASE Insert(a)
    BY <1>0, <2>6 DEF ReportInv, Insert
  <2>7. CASE Commit(a)
    BY <1>0, <2>7 DEF AuditTypeOK, ReportInv, Commit, Goto
  <2>8. CASE SaveFails(a)
    BY <1>0, <2>8 DEF AuditTypeOK, ReportInv, SaveFails, Goto
  <2>9. CASE Exit(a)
    BY <1>0, <2>9, NoReportsType DEF AuditTypeOK, ReportInv, Exit, Gone, Goto
  <2>10. CASE Die(a)
    BY <1>0, <2>10, NoReportsType DEF AuditTypeOK, ReportInv, Die, Gone, Goto
  <2> QED BY <1>1, <2>1, <2>2, <2>3, <2>4, <2>5, <2>6, <2>7, <2>8, <2>9, <2>10 DEF AuditStep
<1>2. CASE Reconfigure
  BY <1>0, <1>2 DEF ReportInv, Reconfigure
<1>3. CASE UNCHANGED vars
  BY <1>0, <1>3 DEF ReportInv, vars
<1> QED BY <1>1, <1>2, <1>3 DEF Next

\* A step of an audit leaves what the others have alone.
LEMMA OthersKept ==
    ASSUME AuditTypeOK, NEW a \in Audits, AuditStep(a)
    PROVE  /\ \A b \in Audits \ {a} :
                 /\ pc'[b] = pc[b] /\ compared'[b] = compared[b] /\ stored'[b] = stored[b]
                 /\ alarms'[b] = alarms[b] /\ reports'[b] = reports[b]
           /\ reports' = [reports EXCEPT ![a] = reports'[a]]
<1>1. CASE \E d \in Devices : Collect(a, d)
  <2>1. PICK r : reports' = [reports EXCEPT ![a] = r]
    BY <1>1 DEF Collect, PutReport
  <2>2. UNCHANGED <<pc, compared, stored, alarms>>
    BY <1>1 DEF Collect
  <2> QED BY <2>1, <2>2 DEF AuditTypeOK
<1>2. CASE ~ \E d \in Devices : Collect(a, d)
  BY <1>2 DEF AuditTypeOK, AuditStep, Start, Render, Compare, CompareFails, Insert,
              Commit, SaveFails, Exit, Die, Gone, Goto
<1> QED BY <1>1, <1>2

\* What an audit does not touch, and rows added by others, leave its stage alone.
LEMMA StageKept ==
    ASSUME AuditTypeOK, NEW b \in Audits, StageOf(b),
           pc'[b] = pc[b], compared'[b] = compared[b], stored'[b] = stored[b],
           alarms'[b] = alarms[b], reports'[b] = reports[b],
           \/ rows' = rows
           \/ \E n \in Nat : /\ Len(rows') = Len(rows) + n
                            /\ \A i \in 1..Len(rows) : rows'[i] = rows[i]
    PROVE  StageOf(b)'
<1>1. /\ Len(rows) \in Nat /\ Len(rows') \in Nat /\ Len(rows) <= Len(rows')
      /\ \A i \in 1..Len(rows) : rows'[i] = rows[i]
  <2>1. Len(rows) \in Nat
    BY DEF AuditTypeOK
  <2>2. CASE rows' = rows
    BY <2>1, <2>2
  <2>3. CASE \E n \in Nat : /\ Len(rows') = Len(rows) + n
                         /\ \A i \in 1..Len(rows) : rows'[i] = rows[i]
    BY <2>1, <2>3
  <2> QED BY <2>2, <2>3
<1>2. compared[b] \in Nat \cup {-1} /\ stored[b] \in Nat \cup {-1} /\ N \in Nat
  BY AuditAssumption DEF AuditTypeOK
<1>3. compared'[b] <= Len(rows')
  BY <1>1, <1>2 DEF StageOf
<1>4. ASSUME stored[b] # -1
      PROVE  /\ stored[b] + N <= Len(rows')
             /\ \A d \in Devices : rows'[stored[b] + d] = RowOf(b, d)
  <2>1. stored[b] + N <= Len(rows) /\ stored[b] \in Nat
    BY <1>2, <1>4 DEF StageOf
  <2>2. ASSUME NEW d \in Devices PROVE stored[b] + d \in 1..Len(rows)
    BY <1>1, <1>2, <2>1 DEF Devices
  <2>3. \A d \in Devices : rows'[stored[b] + d] = rows[stored[b] + d]
    BY <1>1, <2>2
  <2> QED BY <1>1, <1>2, <1>4, <2>1, <2>3 DEF StageOf
<1>5. \A d : RowOf(b, d)' = RowOf(b, d)
  BY DEF RowOf
<1> QED BY <1>3, <1>4, <1>5 DEF StageOf

LEMMA StageStep == Inv /\ [Next]_vars => StageInv'
<1> SUFFICES ASSUME Inv, [Next]_vars PROVE StageInv'
  OBVIOUS
<1>0. AuditTypeOK /\ StageInv /\ ReportInv /\ N \in Nat /\ N > 0
  BY AuditAssumption DEF Inv
<1>1. ASSUME NEW a \in Audits, AuditStep(a) PROVE StageInv'
  <2>0. StageOf(a) /\ Len(rows) \in Nat /\ compared[a] \in Nat \cup {-1}
    BY <1>0 DEF StageInv, AuditTypeOK
  <2>1. \/ rows' = rows
        \/ \E n \in Nat : /\ Len(rows') = Len(rows) + n
                         /\ \A i \in 1..Len(rows) : rows'[i] = rows[i]
    <3>1. CASE Commit(a)
      BY <1>0, <3>1, RowsGrow
    <3> QED BY <1>1, <3>1 DEF AuditStep, Start, Collect, Render, Compare, CompareFails,
                               Insert, SaveFails, Exit, Die
  <2>2. ASSUME NEW b \in Audits \ {a} PROVE StageOf(b)'
    <3>1. /\ pc'[b] = pc[b] /\ compared'[b] = compared[b] /\ stored'[b] = stored[b]
          /\ alarms'[b] = alarms[b] /\ reports'[b] = reports[b]
      BY <1>0, <1>1, OthersKept
    <3>2. StageOf(b)
      BY <1>0 DEF StageInv
    <3> QED BY <1>0, <2>1, <3>1, <3>2, StageKept
  <2>3. StageOf(a)'
    <3>1. CASE Start(a) \/ Render(a) \/ CompareFails(a) \/ (\E d \in Devices : Collect(a, d))
      BY <1>0, <2>0, <3>1 DEF AuditTypeOK, StageOf, Start, Collect, Render, CompareFails, Goto
    <3>2. CASE Compare(a)
      BY <1>0, <2>0, <3>2 DEF AuditTypeOK, StageOf, Compare, Goto
    <3>3. CASE Insert(a)
      BY <1>0, <2>0, <2>1, <3>3, StageKept DEF Insert
    <3>4. CASE Commit(a)
      <4>1. /\ stored'[a] = Len(rows) /\ pc'[a] = "exit" /\ compared'[a] = compared[a]
            /\ alarms'[a] = alarms[a] /\ reports' = reports
        BY <1>0, <3>4 DEF AuditTypeOK, Commit, Goto
      <4>2. /\ Len(rows') = Len(rows) + N
            /\ \A d \in Devices : rows'[Len(rows) + d] = RowOf(a, d)
        BY <1>0, <3>4, RowsGrow
      <4>3. \A d : RowOf(a, d)' = RowOf(a, d)
        BY <4>1 DEF RowOf
      <4> QED BY <1>0, <2>0, <4>1, <4>2, <4>3 DEF StageOf
    <3>5. CASE SaveFails(a)
      BY <1>0, <2>0, <3>5 DEF AuditTypeOK, StageOf, SaveFails, Goto
    <3>6. CASE Exit(a) \/ Die(a)
      BY <1>0, <2>0, <3>6 DEF AuditTypeOK, StageOf, Exit, Die, Gone, Goto
    <3> QED BY <1>1, <3>1, <3>2, <3>3, <3>4, <3>5, <3>6 DEF AuditStep
  <2> QED BY <2>2, <2>3 DEF StageInv
<1>2. CASE Reconfigure \/ UNCHANGED vars
  BY <1>0, <1>2, StageKept DEF StageInv, Reconfigure, vars
<1> QED BY <1>1, <1>2 DEF Next

\* Rows added later do not change what was a regression when there were n rows.
LEMMA RegressedKept ==
    ASSUME NEW a, NEW x, NEW n \in Nat,
           reports'[a] = reports[a], \A i \in 1..n : rows'[i] = rows[i]
    PROVE  Regressed(a, x, n)' <=> Regressed(a, x, n)
<1>1. \A k \in 1..n : Complete(k)' <=> Complete(k)
  BY DEF Complete
<1>2. ASSUME NEW k \in 1..n PROVE LastComplete(x[1], k, n)' <=> LastComplete(x[1], k, n)
  <2>1. \A j \in (k + 1)..n : j \in 1..n
    OBVIOUS
  <2> QED BY <1>1, <2>1 DEF LastComplete
<1> QED BY <1>2 DEF Regressed

\* The same of the alarms of an audit that does not move.
LEMMA AlarmKept ==
    ASSUME AuditTypeOK, NEW b \in Audits, AlarmOf(b), compared[b] <= Len(rows),
           compared'[b] = compared[b], alarms'[b] = alarms[b], reports'[b] = reports[b],
           \A i \in 1..Len(rows) : rows'[i] = rows[i]
    PROVE  AlarmOf(b)'
<1>1. CASE compared[b] = -1
  BY <1>1 DEF AlarmOf
<1>2. CASE compared[b] # -1
  <2>1. compared[b] \in Nat /\ Len(rows) \in Nat
    BY <1>2 DEF AuditTypeOK
  <2>2. \A i \in 1..compared[b] : rows'[i] = rows[i]
    BY <2>1
  <2>3. \A x : Regressed(b, x, compared[b])' <=> Regressed(b, x, compared[b])
    BY <2>1, <2>2, RegressedKept
  <2> QED BY <1>2, <2>3 DEF AlarmOf
<1> QED BY <1>1, <1>2

LEMMA AlarmStep == Inv /\ [Next]_vars => AlarmInv'
<1> SUFFICES ASSUME Inv, [Next]_vars PROVE AlarmInv'
  OBVIOUS
<1>0. AuditTypeOK /\ AlarmInv /\ ReportInv /\ StageInv /\ Len(rows) \in Nat
  BY DEF Inv, AuditTypeOK
<1>1. \A i \in 1..Len(rows) : rows'[i] = rows[i]
  BY <1>0, RowsStep, RowsGrow
<1>2. ASSUME NEW a \in Audits, AuditStep(a) PROVE AlarmInv'
  <2>1. ASSUME NEW b \in Audits,
               compared'[b] = compared[b], alarms'[b] = alarms[b], reports'[b] = reports[b]
        PROVE  AlarmOf(b)'
    BY <1>0, <1>1, <2>1, AlarmKept DEF AlarmInv, StageInv, StageOf
  <2>2. ASSUME NEW b \in Audits \ {a} PROVE AlarmOf(b)'
    <3>1. compared'[b] = compared[b] /\ alarms'[b] = alarms[b] /\ reports'[b] = reports[b]
      BY <1>0, <1>2, OthersKept
    <3> QED BY <2>1, <3>1
  <2>3. AlarmOf(a)'
    <3>1. CASE Start(a) \/ Render(a) \/ CompareFails(a) \/ Insert(a) \/ Commit(a) \/ SaveFails(a)
      BY <1>0, <2>1, <3>1 DEF Start, Render, CompareFails, Insert, Commit, SaveFails
    <3>2. CASE \E d \in Devices : Collect(a, d)
      <4>1. compared'[a] = -1
        BY <1>0, <3>2 DEF StageInv, StageOf, Collect
      <4> QED BY <4>1 DEF AlarmOf
    <3>3. CASE Compare(a)
      <4>1. compared'[a] = Len(rows) /\ alarms'[a] = NewFailures(a)
        BY <1>0, <3>3 DEF AuditTypeOK, Compare
      <4>2. reports' = reports /\ rows' = rows
        BY <3>3 DEF Compare
      <4>3. DOMAIN rows = 1..Len(rows)
        BY <1>0 DEF AuditTypeOK
      <4>4. ASSUME NEW x \in Devices \X Names
            PROVE  x \in NewFailures(a) <=> Regressed(a, x, Len(rows))
        <5>1. Baseline(x[1]) = {k \in 1..Len(rows) : LastComplete(x[1], k, Len(rows))}
          BY <4>3 DEF Baseline, LastComplete
        <5> QED BY <5>1 DEF NewFailures, Regressed
      <4>5. \A x : Regressed(a, x, Len(rows))' <=> Regressed(a, x, Len(rows))
        BY <4>2 DEF Regressed, LastComplete, Complete
      <4> QED BY <4>1, <4>2, <4>4, <4>5 DEF AlarmOf
    <3>4. CASE Exit(a) \/ Die(a)
      <4>1. compared'[a] = -1
        BY <1>0, <3>4 DEF AuditTypeOK, Exit, Die, Gone
      <4> QED BY <4>1 DEF AlarmOf
    <3> QED BY <1>2, <3>1, <3>2, <3>3, <3>4 DEF AuditStep
  <2> QED BY <2>2, <2>3 DEF AlarmInv
<1>3. CASE Reconfigure \/ UNCHANGED vars
  BY <1>0, <1>1, <1>3, AlarmKept DEF AlarmInv, StageInv, StageOf, Reconfigure, vars
<1> QED BY <1>2, <1>3 DEF Next

-----------------------------------------------------------------------------
(***************************************************************************)
(* The theorems.                                                            *)
(***************************************************************************)

\* The invariant holds of every audit command, alone or among others.
THEOREM AuditInvariant == Spec => []Inv
<1>1. Init => Inv
  BY InitInv
<1>2. Inv /\ [Next]_vars => Inv'
  BY TypeStep, WriterStep, WholeStep, ReportStep, StageStep, AlarmStep DEF Inv
<1> QED BY <1>1, <1>2, PTL DEF Spec

\* Type correctness: in particular a transaction inserts one row for each device.
THEOREM AuditTypeCorrect == Spec => []AuditTypeOK
<1>1. Inv => AuditTypeOK
  BY DEF Inv
<1> QED BY <1>1, AuditInvariant, PTL

\* However many audits save at a time, fail half way or are killed, the table of
\* the history holds whole audits one after the other.
THEOREM HistorySavedWhole == Spec => []SavedWhole
<1>1. Inv => SavedWhole
  BY DEF Inv
<1> QED BY <1>1, AuditInvariant, PTL

\* The write lock is held by an audit that is saving, and by one at a time.
THEOREM HistoryOneWriter == Spec => []OneWriter
<1>1. Inv => OneWriter
  BY DEF Inv
<1> QED BY <1>1, AuditInvariant, PTL

\* An announced regression is a check that an earlier audit of the device stored
\* as passed and that fails now, whatever overlaps.
THEOREM DriftAlarmsAreReal == Spec => []AlarmsAreReal
<1>1. Inv => AlarmsAreReal
  <2> SUFFICES ASSUME Inv, NEW a \in Audits, NEW x \in alarms[a]
               PROVE  /\ x[2] \in reports[a][x[1]].failed
                      /\ \E k \in 1..compared[a] : rows[k].device = x[1]
                                                /\ x[2] \in rows[k].passed
    BY DEF AlarmsAreReal
  <2>1. x \in Devices \X Names
    BY DEF Inv, AuditTypeOK
  <2>2. compared[a] # -1
    BY DEF Inv, StageInv, StageOf
  <2>3. Regressed(a, x, compared[a])
    BY <2>1, <2>2 DEF Inv, AlarmInv, AlarmOf
  <2> QED BY <2>3 DEF Regressed, LastComplete
<1> QED BY <1>1, AuditInvariant, PTL

\* Where a device's check passes in one row and fails in the next, the audit that
\* stored the second announced it if it saw the first.
THEOREM DriftNothingSlips == Spec => []NothingSlips
<1>1. Inv => NothingSlips
  <2> SUFFICES ASSUME Inv, NEW a \in Audits, NEW d \in Devices,
                      stored[a] # -1, compared[a] # -1,
                      NEW k \in 1..compared[a], NEW c \in rows[k].passed,
                      rows[k].device = d,
                      \A j \in (k + 1)..stored[a] :
                          rows[j].device = d => rows[j].passed \cup rows[j].failed = {},
                      c \in rows[stored[a] + d].failed
               PROVE  <<d, c>> \in alarms[a]
    BY DEF NothingSlips
  <2>1. /\ compared[a] \in Nat /\ stored[a] \in Nat /\ compared[a] <= stored[a]
        /\ compared[a] <= Len(rows) /\ Len(rows) \in Nat /\ rows \in Seq(Row)
        /\ rows[stored[a] + d] = RowOf(a, d)
    BY DEF Inv, AuditTypeOK, StageInv, StageOf
  <2>2. k \in 1..Len(rows) /\ \A j \in (k + 1)..compared[a] : j \in (k + 1)..stored[a]
    BY <2>1
  <2>3. c \in Names
    <3>1. rows[k] \in Row
      BY <2>1, <2>2, ElementOfSeq
    <3> QED BY <3>1 DEF Row
  <2>4. c \in reports[a][d].failed
    BY <2>1 DEF RowOf
  <2>5. LastComplete(d, k, compared[a])
    BY <2>2 DEF LastComplete, Complete
  <2>6. Regressed(a, <<d, c>>, compared[a])
    BY <2>4, <2>5 DEF Regressed
  <2> QED BY <2>3, <2>6 DEF Inv, AlarmInv, AlarmOf
<1> QED BY <1>1, AuditInvariant, PTL

\* Code 0 means that no selected check failed on any device, and that a device whose
\* collection failed without a word is excused by vacuous checks only.
THEOREM ExitZeroMeansCompliant == Spec => ZeroMeansCompliant
<1> DEFINE Exits(a) == pc[a] = "exit" /\ pc'[a] = "idle" /\ code'[a] = 0 /\ ~ options[a].noFail
           Compliant(a) ==
              /\ alarms[a] = {}
              /\ \A d \in Devices : \E c \in Checks : c \in reports[a][d].passed
              /\ \A d \in Devices : options[a].selected = reports[a][d].passed
              /\ blind[a] # {} => options[a].selected \subseteq Vacuous
<1>1. Inv /\ [Next]_vars => [\A a \in Audits : Exits(a) => Compliant(a)]_vars
  <2> SUFFICES ASSUME Inv, Next, NEW a \in Audits, Exits(a) PROVE Compliant(a)
    BY DEF Inv
  <2>0. AuditTypeOK /\ ReportInv
    BY DEF Inv
  <2>1. Exit(a)
    <3>1. ASSUME NEW b \in Audits, AuditStep(b), b # a PROVE FALSE
      BY <2>0, <3>1 DEF AuditTypeOK, AuditStep, Start, Collect, Render, Compare,
                        CompareFails, Insert, Commit, SaveFails, Exit, Die, Gone, Goto
    <3>2. AuditStep(a)
      BY <3>1 DEF Next, Reconfigure
    <3>3. ~ Die(a)
      BY <2>0 DEF AuditTypeOK, Die
    <3> QED BY <2>0, <3>2, <3>3 DEF AuditTypeOK, AuditStep, Start, Collect, Render, Compare,
                        CompareFails, Insert, Commit, SaveFails, Goto
  <2>2. ExitCode(a) = 0
    BY <2>0, <2>1 DEF AuditTypeOK, Exit
  <2>3. alarms[a] = {} /\ \A d \in Devices : Overall(reports[a][d])
    BY <2>2 DEF ExitCode
  <2>4. ASSUME NEW d \in Devices
        PROVE  /\ options[a].selected = reports[a][d].passed
               /\ \E c \in Checks : c \in reports[a][d].passed
    <3>1. reports[a][d].failed = {} /\ reports[a][d].passed # {}
      BY <2>3 DEF Overall
    <3>2. d \in DOMAIN reports[a]
      BY <2>0 DEF ReportInv
    <3>3. reports[a][d] # CollectionFailed
      BY <3>1 DEF CollectionFailed
    <3>4. reports[a][d].passed = options[a].selected
      <4>1. reports[a][d].passed \cup reports[a][d].failed = options[a].selected
        BY <2>0, <3>2, <3>3 DEF ReportInv
      <4> QED BY <3>1, <4>1
    <3>5. options[a].selected \subseteq Checks
      BY <2>0, AuditAssumption DEF AuditTypeOK
    <3> QED BY <3>1, <3>4, <3>5
  <2>5. blind[a] # {} => options[a].selected \subseteq Vacuous
    <3>1. \A d \in blind[a] : d \in Devices /\ reports[a][d].passed \subseteq Vacuous
      BY <2>0 DEF ReportInv, AuditTypeOK
    <3> QED BY <2>4, <3>1
  <2> QED BY <2>3, <2>4, <2>5
<1> QED BY <1>1, AuditInvariant, PTL DEF Spec, ZeroMeansCompliant

-----------------------------------------------------------------------------
(***************************************************************************)
(* The table is a log of whole audits.  With m audits in it, the row of a    *)
(* device in the i-th of them is at Slot(i, d), and every row is at one.    *)
(***************************************************************************)
Holds(t, m) ==
    /\ Len(t) = m * N
    /\ \A i \in 1..m : \A d \in Devices : t[Slot(i, d)].device = d
    /\ \A k \in 1..Len(t) : \E i \in 1..m : \E d \in Devices : k = Slot(i, d)

LogInv == \E m \in Nat : Holds(rows, m)

\* Slots are inside the table, the next audit's begin at its end, and they are in
\* the order of the audits.
LEMMA Slots ==
    /\ \A m \in Nat : m * N \in Nat /\ m <= m * N /\ (m + 1) * N = m * N + N
    /\ \A m \in Nat : \A i \in 1..m : \A d \in Devices : Slot(i, d) \in 1..(m * N)
    /\ \A m \in Nat : \A d \in Devices : Slot(m + 1, d) = m * N + d
    /\ \A i, j \in Nat : \A d, e \in Devices :
          i >= 1 /\ i < j => Slot(i, d) \in Nat /\ Slot(j, e) \in Nat /\ Slot(i, d) < Slot(j, e)
<1>1. N \in Nat /\ N >= 1 /\ \A d \in Devices : d \in Nat /\ 1 <= d /\ d <= N
  BY AuditAssumption DEF Devices
<1>2. ASSUME NEW m \in Nat PROVE m * N \in Nat /\ m <= m * N /\ (m + 1) * N = m * N + N
  <2>1. m * N = m * (N - 1) + m /\ m * (N - 1) \in Nat
    BY <1>1
  <2> QED
    BY <1>1, <2>1
<1>3. ASSUME NEW i \in Nat, NEW j \in Nat, i <= j
      PROVE  i * N \in Nat /\ j * N \in Nat /\ i * N <= j * N
  <2>1. PICK c \in Nat : j = i + c
    <3>1. j - i \in Nat /\ j = i + (j - i)
      BY <1>3
    <3> QED
      BY <3>1
  <2>2. j * N = i * N + c * N /\ c * N \in Nat /\ i * N \in Nat
    BY <1>1, <2>1
  <2> QED
    BY <2>2
<1>4. ASSUME NEW m \in Nat, NEW i \in 1..m, NEW d \in Devices PROVE Slot(i, d) \in 1..(m * N)
  <2>1. i \in Nat /\ i - 1 \in Nat /\ i - 1 <= m - 1 /\ m - 1 \in Nat /\ i = (i - 1) + 1 /\ m = (m - 1) + 1
    BY <1>4
  <2>2. (i - 1) * N \in Nat /\ (m - 1) * N \in Nat /\ (i - 1) * N <= (m - 1) * N
    BY <1>3, <2>1
  <2>3. m * N = (m - 1) * N + N
    BY <1>2, <2>1
  <2> QED
    BY <1>1, <2>2, <2>3 DEF Slot
<1>5. ASSUME NEW m \in Nat, NEW d \in Devices PROVE Slot(m + 1, d) = m * N + d
  <2>1. (m + 1) - 1 = m
    OBVIOUS
  <2> QED
    BY <2>1 DEF Slot
<1>6. ASSUME NEW i \in Nat, NEW j \in Nat, NEW d \in Devices, NEW e \in Devices, i >= 1, i < j
      PROVE  Slot(i, d) \in Nat /\ Slot(j, e) \in Nat /\ Slot(i, d) < Slot(j, e)
  <2>1. i - 1 \in Nat /\ j - 1 \in Nat /\ i <= j - 1 /\ i = (i - 1) + 1
    BY <1>6
  <2>2. i * N \in Nat /\ (j - 1) * N \in Nat /\ i * N <= (j - 1) * N
    BY <1>3, <2>1
  <2>3. (i - 1) * N \in Nat /\ i * N = (i - 1) * N + N
    BY <1>2, <2>1
  <2> QED
    BY <1>1, <2>2, <2>3 DEF Slot
<1> QED
  BY <1>2, <1>4, <1>5, <1>6

\* The log that LogOf makes of such a table.
LEMMA LogIs ==
    ASSUME NEW t \in Seq(Row), NEW m \in Nat, Holds(t, m)
    PROVE  /\ LogOf(t) \in Seq([Devices -> Report]) /\ Len(LogOf(t)) = m
           /\ LogOf(t) = [i \in 1..m |-> [d \in Devices |->
                       [passed |-> t[Slot(i, d)].passed, failed |-> t[Slot(i, d)].failed]]]
           /\ \A i \in 1..m : \A d \in Devices :
                 /\ LogOf(t)[i][d].passed = t[Slot(i, d)].passed
                 /\ LogOf(t)[i][d].failed = t[Slot(i, d)].failed
<1>1. Whole(t) = m
  <2>1. m \in 0..Len(t) /\ Len(t) = m * N
    BY Slots DEF Holds
  <2>2. ASSUME NEW n \in 0..Len(t), n * N = m * N PROVE n = m
    <3>1. N \in Nat /\ N >= 1 /\ n \in Nat
      BY AuditAssumption
    <3>2. CASE n < m
      <4>1. Slot(n + 1, 1) = n * N + 1 /\ Slot(n + 1, 1) \in 1..(m * N) /\ n * N \in Nat
        <5>1. 1 \in Devices /\ n + 1 \in 1..m
          BY <3>1, <3>2 DEF Devices
        <5> QED
          BY <3>1, <5>1, Slots
      <4> QED
        BY <2>2, <4>1
    <3>3. CASE m < n
      <4>1. Slot(m + 1, 1) = m * N + 1 /\ Slot(m + 1, 1) \in 1..(n * N) /\ m * N \in Nat
        <5>1. 1 \in Devices /\ m + 1 \in 1..n
          BY <3>1, <3>3 DEF Devices
        <5> QED
          BY <3>1, <5>1, Slots
      <4> QED
        BY <2>2, <4>1
    <3> QED
      BY <3>1, <3>2, <3>3
  <2> QED
    BY <2>1, <2>2 DEF Whole
<1>2. LogOf(t) = [i \in 1..m |-> [d \in Devices |->
               [passed |-> t[Slot(i, d)].passed, failed |-> t[Slot(i, d)].failed]]]
  BY <1>1 DEF LogOf
<1>3. ASSUME NEW i \in 1..m, NEW d \in Devices
      PROVE  [passed |-> t[Slot(i, d)].passed, failed |-> t[Slot(i, d)].failed] \in Report
  <2>1. Slot(i, d) \in 1..Len(t)
    BY Slots DEF Holds
  <2>2. t[Slot(i, d)] \in Row
    BY <2>1, ElementOfSeq
  <2> QED
    BY <2>2 DEF Row, Report
<1>4. LogOf(t) \in [1..m -> [Devices -> Report]]
  BY <1>2, <1>3
<1>5. LogOf(t) \in Seq([Devices -> Report]) /\ Len(LogOf(t)) = m
  BY <1>4
<1> QED
  BY <1>2, <1>5

\* The table begins empty, and a commit puts one more audit at the end of the log.
LEMMA LogInit == Init => Holds(rows, 0)
<1> SUFFICES ASSUME Init PROVE Holds(rows, 0)
  OBVIOUS
<1>1. 0 * N = 0 /\ Len(rows) = 0
  BY AuditAssumption DEF Init
<1> QED
  BY <1>1 DEF Holds

LEMMA LogGrows ==
    ASSUME AuditTypeOK, ReportInv, NEW m \in Nat, Holds(rows, m), NEW a \in Audits, Commit(a)
    PROVE  Holds(rows', m + 1)
<1> DEFINE L == Len(rows)
<1>1. /\ Len(rows') = L + N /\ L \in Nat /\ L = m * N
      /\ \A k \in 1..L : rows'[k] = rows[k]
      /\ \A d \in Devices : rows'[L + d] = RowOf(a, d)
  BY RowsGrow DEF Holds, AuditTypeOK
<1>2. N \in Nat /\ N >= 1 /\ (m + 1) * N = m * N + N
  BY Slots, AuditAssumption
<1>3. Len(rows') = (m + 1) * N
  BY <1>1, <1>2
<1>4. ASSUME NEW i \in 1..(m + 1), NEW d \in Devices PROVE rows'[Slot(i, d)].device = d
  <2>1. CASE i \in 1..m
    <3>1. Slot(i, d) \in 1..L
      BY <1>1, <2>1, Slots
    <3> QED
      BY <1>1, <2>1, <3>1 DEF Holds
  <2>2. CASE i = m + 1
    <3>1. Slot(i, d) = L + d
      BY <1>1, <2>2, Slots
    <3>2. RowOf(a, d).device = d
      BY DEF RowOf
    <3> QED
      BY <1>1, <3>1, <3>2
  <2> QED
    BY <2>1, <2>2
<1>5. ASSUME NEW k \in 1..(L + N) PROVE \E i \in 1..(m + 1) : \E d \in Devices : k = Slot(i, d)
  <2>1. CASE k \in 1..L
    BY <1>1, <2>1 DEF Holds
  <2>2. CASE k \notin 1..L
    <3>1. k - L \in Devices /\ k = L + (k - L) /\ m + 1 \in 1..(m + 1)
      BY <1>1, <1>2, <2>2 DEF Devices
    <3>2. k = Slot(m + 1, k - L)
      BY <1>1, <3>1, Slots
    <3> QED
      BY <3>1, <3>2
  <2> QED
    BY <2>1, <2>2
<1> QED
  BY <1>1, <1>3, <1>4, <1>5 DEF Holds

LEMMA LogAppends ==
    ASSUME AuditTypeOK, ReportInv, NEW m \in Nat, Holds(rows, m), NEW a \in Audits, Commit(a)
    PROVE  LogOf(rows') = Append(LogOf(rows), reports[a])
<1>1. /\ Len(rows) = m * N
      /\ \A k \in 1..Len(rows) : rows'[k] = rows[k]
      /\ \A d \in Devices : rows'[Len(rows) + d] = RowOf(a, d)
  BY RowsGrow DEF Holds
<1>2. LogOf(rows) \in Seq([Devices -> Report]) /\ Len(LogOf(rows)) = m
  BY LogIs DEF AuditTypeOK
<1>3. reports[a] \in [Devices -> Report]
  BY DEF Commit, ReportInv, AuditTypeOK, ReportLists
<1>4. /\ LogOf(rows') \in Seq([Devices -> Report]) /\ Len(LogOf(rows')) = m + 1
      /\ LogOf(rows') = [i \in 1..(m + 1) |-> [d \in Devices |->
                   [passed |-> rows'[Slot(i, d)].passed, failed |-> rows'[Slot(i, d)].failed]]]
  <2>1. rows' \in Seq(Row) /\ m + 1 \in Nat /\ Holds(rows', m + 1)
    BY RowsGrow, LogGrows
  <2> QED
    BY <2>1, LogIs
<1>5. ASSUME NEW i \in 1..m PROVE LogOf(rows')[i] = LogOf(rows)[i]
  <2>1. \A d \in Devices : rows'[Slot(i, d)] = rows[Slot(i, d)]
    BY <1>1, Slots
  <2>2. i \in 1..(m + 1)
    OBVIOUS
  <2>3. LogOf(rows')[i] = [d \in Devices |->
                     [passed |-> rows[Slot(i, d)].passed, failed |-> rows[Slot(i, d)].failed]]
    BY <1>4, <2>1, <2>2
  <2>4. LogOf(rows) = [k \in 1..m |-> [d \in Devices |->
                         [passed |-> rows[Slot(k, d)].passed, failed |-> rows[Slot(k, d)].failed]]]
    BY LogIs DEF AuditTypeOK
  <2> QED
    BY <2>3, <2>4
<1>6. LogOf(rows')[m + 1] = reports[a]
  <2>1. \A d \in Devices : /\ rows'[Slot(m + 1, d)].passed = reports[a][d].passed
                          /\ rows'[Slot(m + 1, d)].failed = reports[a][d].failed
    <3>1. \A d \in Devices : rows'[Slot(m + 1, d)] = RowOf(a, d)
      BY <1>1, Slots
    <3>2. \A d \in Devices : RowOf(a, d).passed = reports[a][d].passed
                            /\ RowOf(a, d).failed = reports[a][d].failed
      BY DEF RowOf
    <3> QED
      BY <3>1, <3>2
  <2>4. m + 1 \in 1..(m + 1)
    OBVIOUS
  <2>2. LogOf(rows')[m + 1] = [d \in Devices |-> [passed |-> reports[a][d].passed, failed |-> reports[a][d].failed]]
    BY <1>4, <2>1, <2>4
  <2>3. \A d \in Devices : [passed |-> reports[a][d].passed, failed |-> reports[a][d].failed] = reports[a][d]
    BY <1>3 DEF Report
  <2> QED
    BY <1>3, <2>2, <2>3
<1>7. /\ Append(LogOf(rows), reports[a]) \in Seq([Devices -> Report])
      /\ Len(Append(LogOf(rows), reports[a])) = m + 1
      /\ \A i \in 1..m : Append(LogOf(rows), reports[a])[i] = LogOf(rows)[i]
      /\ Append(LogOf(rows), reports[a])[m + 1] = reports[a]
  BY <1>2, <1>3, AppendProperties
<1>8. \A i \in 1..(m + 1) : LogOf(rows')[i] = Append(LogOf(rows), reports[a])[i]
  BY <1>5, <1>6, <1>7
<1> QED
  BY <1>4, <1>7, <1>8, SeqEqual

LEMMA LogInvariant == Spec => []LogInv
<1>1. Init => LogInv
  BY LogInit DEF LogInv
<1>2. ASSUME Inv, LogInv, [Next]_vars PROVE LogInv'
  <2>1. CASE rows' = rows
    BY <1>2, <2>1 DEF LogInv, Holds
  <2>2. ASSUME NEW a \in Audits, Commit(a) PROVE LogInv'
    <3>1. PICK m \in Nat : Holds(rows, m)
      BY <1>2 DEF LogInv
    <3>2. Holds(rows', m + 1) /\ m + 1 \in Nat
      BY <1>2, <2>2, <3>1, LogGrows DEF Inv
    <3> QED
      BY <3>2 DEF LogInv, Holds
  <2> QED
    BY <1>2, <2>1, <2>2, RowsStep
<1> QED
  BY <1>1, <1>2, AuditInvariant, PTL DEF Spec

-----------------------------------------------------------------------------
(***************************************************************************)
(* The audits implement their contract.                                     *)
(***************************************************************************)
\* What is announced is what the log says.
LEMMA RegressionsAre ==
    ASSUME Inv, LogInv, NEW a \in Audits
    PROVE  NewFailures(a) = History!Regressions(a)
<1>1. PICK m \in Nat : Holds(rows, m)
  BY DEF LogInv
<1>2. rows \in Seq(Row) /\ Len(rows) \in Nat /\ DOMAIN rows = 1..Len(rows)
  BY DEF Inv, AuditTypeOK
<1>3. /\ Len(LogOf(rows)) = m
      /\ \A i \in 1..m : \A d \in Devices :
            /\ LogOf(rows)[i][d].passed = rows[Slot(i, d)].passed
            /\ LogOf(rows)[i][d].failed = rows[Slot(i, d)].failed
  BY <1>1, <1>2, LogIs
<1>4. \A i \in 1..m : \A d \in Devices :
         Slot(i, d) \in 1..Len(rows) /\ rows[Slot(i, d)].device = d
  BY <1>1, Slots DEF Holds
<1>6. ASSUME NEW k \in 1..Len(rows) PROVE \E i \in 1..m : k = Slot(i, rows[k].device)
  <2>1. PICK i \in 1..m, d \in Devices : k = Slot(i, d)
    BY <1>1 DEF Holds
  <2>2. rows[k].device = d
    BY <1>4, <2>1
  <2> QED
    BY <2>1, <2>2
<1>5. ASSUME NEW d \in Devices, NEW c
      PROVE  (\E k \in Baseline(d) : c \in rows[k].passed) <=>
                \E i \in 1..m :
                   /\ c \in LogOf(rows)[i][d].passed
                   /\ \A j \in (i + 1)..m :
                         LogOf(rows)[j][d].passed \cup LogOf(rows)[j][d].failed = {}
  <2>1. ASSUME NEW k \in Baseline(d), c \in rows[k].passed
        PROVE  \E i \in 1..m :
                   /\ c \in LogOf(rows)[i][d].passed
                   /\ \A j \in (i + 1)..m :
                         LogOf(rows)[j][d].passed \cup LogOf(rows)[j][d].failed = {}
    <3>1. k \in 1..Len(rows) /\ rows[k].device = d
      BY <1>2 DEF Baseline
    <3>2. PICK i \in 1..m : k = Slot(i, d)
      BY <1>6, <3>1
    <3>3. ASSUME NEW j \in (i + 1)..m
          PROVE  LogOf(rows)[j][d].passed \cup LogOf(rows)[j][d].failed = {}
      <4>1. j \in 1..m /\ i < j /\ i \in Nat /\ j \in Nat /\ i >= 1
        OBVIOUS
      <4>4. k < Slot(j, d)
        BY <3>2, <4>1, Slots
      <4>5. Slot(j, d) \in 1..Len(rows)
        BY <1>4, <4>1
      <4>2. Slot(j, d) \in (k + 1)..Len(rows)
        BY <1>2, <3>1, <4>4, <4>5
      <4>3. ~ Complete(Slot(j, d))
        BY <1>4, <4>1, <4>2 DEF Baseline
      <4> QED
        BY <1>3, <4>1, <4>3 DEF Complete
    <3> QED
      BY <1>3, <2>1, <3>2, <3>3
  <2>2. ASSUME NEW i \in 1..m, c \in LogOf(rows)[i][d].passed,
               \A j \in (i + 1)..m :
                  LogOf(rows)[j][d].passed \cup LogOf(rows)[j][d].failed = {}
        PROVE  \E k \in Baseline(d) : c \in rows[k].passed
    <3> DEFINE k == Slot(i, d)
    <3>1. k \in 1..Len(rows) /\ rows[k].device = d /\ c \in rows[k].passed
      BY <1>3, <1>4, <2>2
    <3>2. Complete(k)
      BY <3>1 DEF Complete
    <3>3. ASSUME NEW j \in (k + 1)..Len(rows), rows[j].device = d, Complete(j)
          PROVE  FALSE
      <4>1. j \in 1..Len(rows) /\ k < j
        BY <1>2, <3>1
      <4>2. PICK n \in 1..m : j = Slot(n, d)
        BY <1>6, <3>3, <4>1
      <4>3. i \in Nat /\ n \in Nat /\ n >= 1
        OBVIOUS
      <4>6. ~ (n < i)
        <5>1. n < i => j < k
          BY <4>2, <4>3, Slots
        <5> QED
          BY <1>2, <3>1, <4>1, <5>1
      <4>7. n # i
        BY <3>1, <4>1, <4>2
      <4>4. ~ (n < i) /\ n # i
        BY <4>6, <4>7
      <4>5. n \in (i + 1)..m
        BY <4>2, <4>3, <4>4
      <4> QED
        BY <1>3, <2>2, <3>3, <4>2, <4>5 DEF Complete
    <3>4. k \in Baseline(d)
      BY <1>2, <3>1, <3>2, <3>3 DEF Baseline
    <3> QED
      BY <3>1, <3>4
  <2> QED
    BY <2>1, <2>2
<1>7. ASSUME NEW x \in Devices \X Names
      PROVE  (\E k \in Baseline(x[1]) : x[2] \in rows[k].passed) <=>
                \E i \in 1..Len(LogOf(rows)) :
                   /\ x[2] \in LogOf(rows)[i][x[1]].passed
                   /\ \A j \in (i + 1)..Len(LogOf(rows)) :
                         LogOf(rows)[j][x[1]].passed \cup LogOf(rows)[j][x[1]].failed = {}
  <2>1. x[1] \in Devices
    OBVIOUS
  <2>2. (\E k \in Baseline(x[1]) : x[2] \in rows[k].passed) <=>
           \E i \in 1..m :
              /\ x[2] \in LogOf(rows)[i][x[1]].passed
              /\ \A j \in (i + 1)..m :
                    LogOf(rows)[j][x[1]].passed \cup LogOf(rows)[j][x[1]].failed = {}
    BY ONLY <1>5, <2>1
  <2>3. Len(LogOf(rows)) = m
    BY <1>3
  <2> QED
    BY ONLY <2>2, <2>3
<1> QED
  BY <1>7 DEF NewFailures, History!Regressions

\* A step is about one audit.
LEMMA OneAudit ==
    ASSUME AuditTypeOK, NEW a \in Audits, AuditStep(a)
    PROVE  /\ [b \in Audits |-> Stage(b)]' = [[b \in Audits |-> Stage(b)] EXCEPT ![a] = Stage(a)']
           /\ reports' = [reports EXCEPT ![a] = reports'[a]]
           /\ alarms' = [alarms EXCEPT ![a] = alarms'[a]]
<1> USE DEF AuditTypeOK, AuditStep, Start, Collect, Render, Compare, CompareFails, Insert,
        Commit, SaveFails, Exit, Die, Gone, Goto
<1>1. \A b \in Audits \ {a} : pc'[b] = pc[b] /\ stored'[b] = stored[b]
  OBVIOUS
<1>2. \A b \in Audits \ {a} : Stage(b)' = Stage(b)
  BY <1>1 DEF Stage
<1>3. [b \in Audits |-> Stage(b)]' = [[b \in Audits |-> Stage(b)] EXCEPT ![a] = Stage(a)']
  BY ONLY <1>2
<1>4. reports' = [reports EXCEPT ![a] = reports'[a]]
  BY OthersKept
<1>5. alarms' = [alarms EXCEPT ![a] = alarms'[a]]
  OBVIOUS
<1> QED
  BY <1>3, <1>4, <1>5

LEMMA HistoryStore ==
    ASSUME Inv, LogInv, NEW a \in Audits, Commit(a), AuditStep(a)
    PROVE  History!Store(a)
<1>1. PICK m \in Nat : Holds(rows, m)
  BY DEF LogInv
<1>2. LogOf(rows') = Append(LogOf(rows), reports[a])
  BY <1>1, LogAppends DEF Inv
<1>3. Stage(a) = "judged"
  BY DEF Stage, Commit, Inv, StageInv, StageOf
<1>4. pc'[a] = "exit"
  BY DEF Commit, Goto, Inv, AuditTypeOK
<1>5. Stage(a)' = "closed"
  BY <1>4 DEF Stage
<1>6. UNCHANGED <<reports, alarms>>
  BY DEF Commit
<1> QED
  BY <1>2, <1>3, <1>5, <1>6, OneAudit DEF History!Store, Inv

\* What every step of an audit is to the contract.
LEMMA HistoryStep ==
    ASSUME Inv, LogInv, NEW a \in Audits, AuditStep(a)
    PROVE  [History!Next]_History!contractVars
<1> DEFINE stage == [b \in Audits |-> Stage(b)]
<1>1. /\ stage' = [stage EXCEPT ![a] = Stage(a)']
      /\ reports' = [reports EXCEPT ![a] = reports'[a]]
      /\ alarms' = [alarms EXCEPT ![a] = alarms'[a]]
      /\ stage[a] = Stage(a)
  BY OneAudit DEF Inv
<1>2. /\ AuditTypeOK /\ ReportInv
      /\ pc[a] # "exit" => stored[a] = -1
  BY DEF Inv, StageInv, StageOf
<1>3. CASE Start(a)
  <2>1. pc[a] = "idle" /\ pc'[a] = "collect" /\ UNCHANGED <<rows, reports, alarms>>
    BY <1>2, <1>3 DEF Start, Goto, AuditTypeOK
  <2>2. Stage(a) = "away" /\ Stage(a)' = "looking"
    BY <2>1 DEF Stage
  <2>3. History!Enter(a)
    BY <1>1, <2>1, <2>2 DEF History!Enter
  <2> QED
    BY <2>3 DEF History!Next
<1>4. CASE \E d \in Devices : Collect(a, d)
  <2>1. PICK d \in Devices : Collect(a, d)
    BY <1>4
  <2>2. /\ pc[a] = "collect" /\ d \in Devices \ DOMAIN reports[a]
        /\ UNCHANGED <<pc, stored, rows, alarms>>
    BY <2>1 DEF Collect
  <2>3. /\ DOMAIN reports'[a] = DOMAIN reports[a] \cup {d}
        /\ \A e \in DOMAIN reports[a] : reports'[a][e] = reports[a][e]
    BY <1>2, <2>1, <2>2, ReportsGrow
  <2>4. Stage(a) = "looking" /\ stage' = stage
    BY <2>2 DEF Stage
  <2>5. History!Find(a)
    BY <1>1, <2>2, <2>3, <2>4 DEF History!Find
  <2> QED
    BY <2>5 DEF History!Next
<1>5. CASE Render(a)
  <2>1. /\ pc[a] = "collect" /\ DOMAIN reports[a] = Devices /\ stored[a] = -1
        /\ pc'[a] \in {"exit", "save", "compare"}
        /\ UNCHANGED <<rows, reports, alarms, stored>>
    BY <1>2, <1>5 DEF Render, Goto, AuditTypeOK
  <2>2. Stage(a) = "looking"
    BY <2>1 DEF Stage
  <2>3. CASE pc'[a] = "exit"
    <3>1. Stage(a)' = "closed"
      BY <2>3 DEF Stage
    <3>2. History!GiveUp(a)
      BY <1>1, <2>1, <2>2, <3>1 DEF History!GiveUp
    <3> QED
      BY <3>2 DEF History!Next
  <2>4. CASE pc'[a] = "save"
    <3>1. Stage(a)' = "judged"
      BY <2>1, <2>4 DEF Stage
    <3>2. History!Judge(a)
      BY <1>1, <2>1, <2>2, <3>1 DEF History!Judge
    <3> QED
      BY <3>2 DEF History!Next
  <2>5. CASE pc'[a] = "compare"
    <3>1. Stage(a)' = Stage(a)
      BY <2>2, <2>5 DEF Stage
    <3>2. stage' = stage
      BY <1>1, <3>1
    <3> QED
      BY <2>1, <3>2 DEF History!contractVars
  <2> QED
    BY <2>1, <2>3, <2>4, <2>5
<1>6. CASE Compare(a) \/ CompareFails(a)
  <2>1. /\ pc[a] = "compare" /\ DOMAIN reports[a] = Devices /\ stored[a] = -1
        /\ pc'[a] = "save" /\ UNCHANGED <<rows, reports, stored>>
        /\ alarms' = [alarms EXCEPT ![a] = NewFailures(a)] \/ alarms' = alarms
    BY <1>2, <1>6 DEF Compare, CompareFails, Goto, AuditTypeOK, ReportInv
  <2>2. Stage(a) = "looking" /\ Stage(a)' = "judged"
    BY <2>1 DEF Stage
  <2>3. History!Judge(a)
    BY <1>1, <2>1, <2>2, RegressionsAre DEF History!Judge
  <2> QED
    BY <2>3 DEF History!Next
<1>7. CASE Insert(a)
  <2>1. stage' = stage /\ UNCHANGED <<rows, reports, alarms>>
    BY <1>7 DEF Insert, Stage
  <2> QED
    BY <2>1 DEF History!contractVars
<1>8. CASE Commit(a)
  BY <1>8, HistoryStore DEF History!Next
<1>9. CASE SaveFails(a)
  <2>1. /\ pc[a] = "save" /\ DOMAIN reports[a] = Devices /\ stored[a] = -1
        /\ pc'[a] = "exit" /\ UNCHANGED <<rows, reports, alarms>>
    BY <1>2, <1>9 DEF SaveFails, Goto, AuditTypeOK, ReportInv
  <2>2. Stage(a) = "judged" /\ Stage(a)' = "closed"
    BY <2>1 DEF Stage
  <2>3. History!GiveUp(a)
    BY <1>1, <2>1, <2>2 DEF History!GiveUp
  <2> QED
    BY <2>3 DEF History!Next
<1>10. CASE Exit(a) \/ Die(a)
  <2>1. /\ pc[a] # "idle" /\ pc'[a] = "idle" /\ rows' = rows
        /\ reports'[a] = NoReports /\ alarms'[a] = {}
    BY <1>2, <1>10 DEF Exit, Die, Gone, Goto, AuditTypeOK
  <2>2. Stage(a) # "away" /\ Stage(a)' = "away"
    BY <2>1 DEF Stage
  <2>3. History!Leave(a)
    BY <1>1, <2>1, <2>2, NoReportsType DEF History!Leave
  <2> QED
    BY <2>3 DEF History!Next
<1> QED
  BY <1>3, <1>4, <1>5, <1>6, <1>7, <1>8, <1>9, <1>10 DEF AuditStep

LEMMA HistoryInit == Init => History!Init
<1> SUFFICES ASSUME Init PROVE History!Init
  OBVIOUS
<1>1. LogOf(rows) \in Seq([Devices -> Report]) /\ Len(LogOf(rows)) = 0
  <2>1. rows \in Seq(Row)
    BY DEF Init
  <2> QED
    BY <2>1, LogInit, LogIs
<1>2. LogOf(rows) = <<>>
  BY <1>1, EmptySeq
<1>3. [a \in Audits |-> Stage(a)] = [a \in Audits |-> "away"]
  BY DEF Init, Stage
<1>4. \A a \in Audits : DOMAIN reports[a] = {}
  BY NoReportsType DEF Init
<1> QED
  BY <1>2, <1>3, <1>4 DEF Init, History!Init

\* However audits overlap, fail and die, the history is a log of whole audits, and the
\* alarms are what it says.
THEOREM AuditsKeepHistory == Spec => HistorySpec
<1>1. ASSUME Inv, LogInv, [Next]_vars PROVE [History!Next]_History!contractVars
  <2>1. CASE Reconfigure \/ UNCHANGED vars
    <3>1. UNCHANGED <<pc, stored, rows, reports, alarms>>
      BY <2>1 DEF Reconfigure, vars
    <3>2. [a \in Audits |-> Stage(a)]' = [a \in Audits |-> Stage(a)]
      BY <3>1 DEF Stage
    <3> QED
      BY <3>1, <3>2 DEF History!contractVars
  <2> QED
    BY <1>1, <2>1, HistoryStep DEF Next
<1> QED
  BY <1>1, HistoryInit, AuditInvariant, LogInvariant, PTL DEF Spec, HistorySpec, History!Spec

=============================================================================
