-------------------------- MODULE Compliance_proofs --------------------------
(***************************************************************************)
(* Theorems about the rules whose loops carry state, for configurations of   *)
(* any length, out of any lines, and every baseline.                        *)
(***************************************************************************)
EXTENDS Compliance, TLAPS

-----------------------------------------------------------------------------
(* What a line does to the blocks.                                          *)

\* No line after i has ended its block.
Open(i, ends) == \A j \in (i + 1)..Len(read) : Kind(read[j]) \notin ends

Read == read \in Seq(Lines)

LEMMA Grows ==
    ASSUME Read, NEW l \in Lines, ReadLine(l)
    PROVE  /\ Len(read) \in Nat /\ DOMAIN read = 1..Len(read)
           /\ Len(read') = Len(read) + 1 /\ DOMAIN read' = 1..(Len(read) + 1)
           /\ \A i \in 1..Len(read) : read'[i] = read[i]
           /\ read'[Len(read) + 1] = l
           /\ Read'
BY DEF Read, ReadLine

\* A line belongs to the blocks that are open, unless it ends them, and begins
\* with an empty one.
LEMMA BlocksGrow ==
    ASSUME Read, NEW l \in Lines, ReadLine(l), NEW ends, NEW n, n = Len(read)
    PROVE  /\ \A i \in 1..n :
                  /\ Open(i, ends)' <=> Open(i, ends) /\ Kind(l) \notin ends
                  /\ Block(i, ends)' = IF Open(i, ends)' THEN Block(i, ends) \cup {n + 1}
                                                         ELSE Block(i, ends)
                  /\ Block(i, ends) \subseteq (i + 1)..n
           /\ Open(n + 1, ends)' /\ Block(n + 1, ends)' = {}
<1>0. /\ n \in Nat /\ Len(read') = n + 1
      /\ \A i \in 1..n : read'[i] = read[i]
      /\ read'[n + 1] = l
  BY Grows
<1>1. ASSUME NEW i \in 1..n
      PROVE  Open(i, ends)' <=> Open(i, ends) /\ Kind(l) \notin ends
  <2>1. (i + 1)..Len(read') = ((i + 1)..n) \cup {n + 1}
    BY <1>0
  <2>2. \A j \in (i + 1)..n : Kind(read'[j]) = Kind(read[j])
    BY <1>0
  <2>3. Kind(read'[n + 1]) = Kind(l)
    BY <1>0
  <2>4. QED
    BY <2>1, <2>2, <2>3 DEF Open, Kind
<1>2. ASSUME NEW i \in 1..n
      PROVE  Block(i, ends)' = IF Open(i, ends)' THEN Block(i, ends) \cup {n + 1} ELSE Block(i, ends)
  <2>1. \A k \in (i + 1)..n :
            (\A j \in (i + 1)..k : Kind(read'[j]) \notin ends)
            <=> (\A j \in (i + 1)..k : Kind(read[j]) \notin ends)
    <3>1. \A k \in (i + 1)..n : \A j \in (i + 1)..k : j \in 1..n
      BY <1>0
    <3>2. QED
      BY <3>1, <1>0
  <2>2. (\A j \in (i + 1)..(n + 1) : Kind(read'[j]) \notin ends) <=> Open(i, ends)'
    BY <1>0 DEF Open, Kind
  <2>3. (i + 1)..Len(read') = ((i + 1)..n) \cup {n + 1}
    BY <1>0
  <2>4. QED
    BY <2>1, <2>2, <2>3, <1>0 DEF Block, Kind
<1>3. ASSUME NEW i \in 1..n PROVE Block(i, ends) \subseteq (i + 1)..n
  BY DEF Block
<1>4. Open(n + 1, ends)' /\ Block(n + 1, ends)' = {}
  BY <1>0 DEF Open, Block
<1>5. QED
  BY <1>0, <1>1, <1>2, <1>3, <1>4

LEMMA ReadInit == Init => Read
BY DEF Init, Read

LEMMA ReadNext == Read /\ [Next]_vars => Read'
<1> SUFFICES ASSUME Read, [Next]_vars PROVE Read'
  OBVIOUS
<1>1. CASE UNCHANGED vars
  BY <1>1 DEF vars, Read
<1>2. CASE Next
  BY <1>2, Grows DEF Next
<1>3. QED
  BY <1>1, <1>2

LEMMA ReadAlways == Spec => []Read
BY ReadInit, ReadNext, PTL DEF Spec

-----------------------------------------------------------------------------
(* Interfaces: the rule of unused interfaces, that of the VLANs, and CDP.    *)

Section == {"interface"}

IfaceAt(i) == i \in DOMAIN read /\ Begins(i, "interface")

\* The loops go on from an interface line to the next.
Excused(i) == \E k \in Block(i, Section) : Excuses(read[k])
Disabled(i) == \E k \in Block(i, Section) : Kind(read[k]) = "no cdp enable"

\* current_iface is that of the last interface line, if there is one.
Current ==
    /\ iface = "none" => \A i \in DOMAIN read : ~IfaceAt(i)
    /\ iface # "none" => \E i \in DOMAIN read :
           IfaceAt(i) /\ Open(i, Section) /\ iface = Arg(read[i]) /\ (quietly <=> Excused(i))

\* What is reported before the end are the sections that have ended.
Ended ==
    unused = {Arg(read[i]) : i \in
        {j \in DOMAIN read : /\ IfaceAt(j) /\ ~Open(j, Section)
                             /\ Arg(read[j]) \notin Addressed /\ ~Excused(j)}}

CdpInv ==
    /\ noCdp = {Arg(read[i]) : i \in {j \in DOMAIN read : IfaceAt(j) /\ Disabled(j)}}
    /\ noCdpRun <=> \E i \in DOMAIN read : Kind(read[i]) = "no cdp run"

IfaceInv == Read /\ Current /\ Ended /\ CdpInv

\* Only the last interface line has an open section.
LEMMA OneOpen ==
    ASSUME Read, NEW i \in DOMAIN read, NEW j \in DOMAIN read,
           IfaceAt(i), IfaceAt(j), Open(i, Section), Open(j, Section)
    PROVE  i = j
<1>1. DOMAIN read = 1..Len(read) /\ Len(read) \in Nat
  BY DEF Read
<1>2. ~(i < j) /\ ~(j < i)
  BY <1>1 DEF Open, Section, IfaceAt, Begins
<1>3. QED
  BY <1>1, <1>2

\* The set of violations counts the open section as its end would.
LEMMA NowJudges ==
    ASSUME Read, Current, Ended
    PROVE  UnusedNow = {Arg(read[i]) : i \in
               {j \in DOMAIN read : IfaceAt(j) /\ Arg(read[j]) \notin Addressed /\ ~Excused(j)}}
<1> DEFINE Judged == {j \in DOMAIN read : IfaceAt(j) /\ Arg(read[j]) \notin Addressed /\ ~Excused(j)}
<1>1. CASE iface = "none"
  BY <1>1 DEF Current, Ended, UnusedNow
<1>2. CASE iface # "none"
  <2>1. PICK s \in DOMAIN read :
            IfaceAt(s) /\ Open(s, Section) /\ iface = Arg(read[s]) /\ (quietly <=> Excused(s))
    BY <1>2 DEF Current
  <2>2. \A j \in DOMAIN read : IfaceAt(j) /\ Open(j, Section) => j = s
    BY <2>1, OneOpen
  <2>3. UnusedNow = unused \cup {x \in {iface} : x \notin Addressed /\ ~quietly}
    BY <1>2 DEF UnusedNow
  <2>4. \A x : x \in UnusedNow <=> \E i \in Judged : x = Arg(read[i])
    BY <2>1, <2>2, <2>3 DEF Ended
  <2>5. QED
    BY <2>4
<1>3. QED
  BY <1>1, <1>2

\* What the sections say of a line, in the step in which l is read.
LEMMA SectionsGrow ==
    ASSUME Read, NEW l \in Lines, ReadLine(l), NEW n, n = Len(read)
    PROVE  /\ \A i \in DOMAIN read :
                  /\ read'[i] = read[i]
                  /\ IfaceAt(i)' <=> IfaceAt(i)
                  /\ Open(i, Section)' <=> Open(i, Section) /\ Kind(l) # "interface"
                  /\ Excused(i)' <=> Excused(i) \/ (Open(i, Section)' /\ Excuses(l))
                  /\ Disabled(i)' <=> Disabled(i) \/ (Open(i, Section)' /\ Kind(l) = "no cdp enable")
           /\ DOMAIN read' = DOMAIN read \cup {n + 1}
           /\ n + 1 \notin DOMAIN read
           /\ read'[n + 1] = l
           /\ IfaceAt(n + 1)' <=> Kind(l) = "interface"
           /\ Open(n + 1, Section)'
           /\ ~Excused(n + 1)' /\ ~Disabled(n + 1)'
<1>0. /\ n \in Nat /\ DOMAIN read = 1..n /\ DOMAIN read' = 1..(n + 1)
      /\ \A i \in 1..n : read'[i] = read[i]
      /\ read'[n + 1] = l
  BY Grows
<1>1. /\ \A i \in 1..n :
            /\ Open(i, Section)' <=> Open(i, Section) /\ Kind(l) \notin Section
            /\ Block(i, Section)' = IF Open(i, Section)' THEN Block(i, Section) \cup {n + 1}
                                                         ELSE Block(i, Section)
            /\ Block(i, Section) \subseteq (i + 1)..n
      /\ Open(n + 1, Section)' /\ Block(n + 1, Section)' = {}
  BY BlocksGrow
<1>2. ASSUME NEW i \in 1..n
      PROVE  /\ IfaceAt(i)' <=> IfaceAt(i)
             /\ Open(i, Section)' <=> Open(i, Section) /\ Kind(l) # "interface"
             /\ Excused(i)' <=> Excused(i) \/ (Open(i, Section)' /\ Excuses(l))
             /\ Disabled(i)' <=> Disabled(i) \/ (Open(i, Section)' /\ Kind(l) = "no cdp enable")
  <2>1. IfaceAt(i)' <=> IfaceAt(i)
    BY <1>0 DEF IfaceAt, Begins
  <2>2. Open(i, Section)' <=> Open(i, Section) /\ Kind(l) # "interface"
    BY <1>1 DEF Section
  <2>3. \A k \in Block(i, Section) : read'[k] = read[k]
    BY <1>0, <1>1
  <2>4. Excused(i)' <=> Excused(i) \/ (Open(i, Section)' /\ Excuses(l))
    <3>1. Excused(i)' <=> \E k \in Block(i, Section)' : Excuses(read'[k])
      BY DEF Excused, Section, Excuses
    <3>2. Excused(i) <=> \E k \in Block(i, Section) : Excuses(read[k])
      BY DEF Excused, Section
    <3>3. QED
      BY <3>1, <3>2, <2>3, <1>0, <1>1
  <2>5. Disabled(i)' <=> Disabled(i) \/ (Open(i, Section)' /\ Kind(l) = "no cdp enable")
    <3>1. Disabled(i)' <=> \E k \in Block(i, Section)' : Kind(read'[k]) = "no cdp enable"
      BY DEF Disabled, Section, Kind
    <3>2. Disabled(i) <=> \E k \in Block(i, Section) : Kind(read[k]) = "no cdp enable"
      BY DEF Disabled, Section
    <3>3. QED
      BY <3>1, <3>2, <2>3, <1>0, <1>1
  <2>6. QED
    BY <2>1, <2>2, <2>4, <2>5
<1>3. IfaceAt(n + 1)' <=> Kind(l) = "interface"
  BY <1>0 DEF IfaceAt, Begins, Kind
<1>4. Block(n + 1, Section)' = {}
  BY <1>1
<1>5. ~Excused(n + 1)'
  BY <1>4 DEF Excused, Section
<1>6. ~Disabled(n + 1)'
  BY <1>4 DEF Disabled, Section
<1>7. n + 1 \notin DOMAIN read /\ DOMAIN read' = DOMAIN read \cup {n + 1}
  BY <1>0
<1>8. QED
  BY <1>0, <1>1, <1>2, <1>3, <1>5, <1>6, <1>7

LEMMA CurrentNext ==
    ASSUME Read, Current, NEW l \in Lines, ReadLine(l)
    PROVE  Current'
<1>0. PICK n : n = Len(read)
  OBVIOUS
<1> DEFINE Last(i) == IfaceAt(i) /\ Open(i, Section) /\ iface = Arg(read[i]) /\ (quietly <=> Excused(i))
<1>1. /\ n + 1 \in DOMAIN read' /\ DOMAIN read' = DOMAIN read \cup {n + 1}
      /\ \A i \in DOMAIN read :
            /\ read'[i] = read[i]
            /\ IfaceAt(i)' <=> IfaceAt(i)
            /\ Open(i, Section)' <=> Open(i, Section) /\ Kind(l) # "interface"
            /\ Excused(i)' <=> Excused(i) \/ (Open(i, Section)' /\ Excuses(l))
      /\ IfaceAt(n + 1)' <=> Kind(l) = "interface"
      /\ read'[n + 1] = l
      /\ Open(n + 1, Section)' /\ ~Excused(n + 1)'
  BY <1>0, SectionsGrow
<1>2. CASE IfaceBegins(l)
  <2>1. iface' # "none" /\ iface' = Arg(l) /\ ~quietly'
    BY <1>2, ComplianceAssumption DEF IfaceBegins, Kind, Arg, ComplianceAssumption
  <2>2. Last(n + 1)'
    <3>1. IfaceAt(n + 1)' /\ Open(n + 1, Section)' /\ ~Excused(n + 1)'
      BY <1>1, <1>2 DEF IfaceBegins
    <3>2. iface' = Arg(read'[n + 1])
      BY <1>1, <2>1
    <3>3. (quietly <=> Excused(n + 1))'
      BY <2>1, <3>1
    <3>4. (n + 1)' = n + 1
      OBVIOUS
    <3>5. QED
      BY <3>1, <3>2, <3>3 DEF Arg
  <2>3. QED
    BY <1>1, <2>1, <2>2 DEF Current
<1>3. CASE IfaceExcused(l) \/ (IfaceSkips(l) /\ iface # "none")
  <2>1. /\ Kind(l) # "interface" /\ iface' = iface /\ iface # "none"
        /\ quietly' <=> quietly \/ Excuses(l)
    <3>1. CASE IfaceExcused(l)
      <4>1. Kind(l) # "interface" /\ Excuses(l) /\ iface # "none"
        BY <3>1 DEF IfaceExcused, Excuses
      <4>2. iface' = iface /\ quietly'
        BY <3>1 DEF IfaceExcused
      <4>3. QED
        BY <4>1, <4>2
    <3>2. CASE IfaceSkips(l) /\ iface # "none"
      <4>1. Kind(l) # "interface" /\ ~Excuses(l)
        BY <3>2 DEF IfaceSkips
      <4>2. iface' = iface /\ quietly' = quietly
        BY <3>2 DEF IfaceSkips, ifaceVars
      <4>3. QED
        BY <3>2, <4>1, <4>2
    <3>3. QED
      BY <1>3, <3>1, <3>2
  <2>2. PICK s \in DOMAIN read : Last(s)
    BY <2>1 DEF Current
  <2>3. Last(s)'
    BY <1>1, <2>1, <2>2 DEF Arg
  <2>4. QED
    BY <1>1, <2>1, <2>2, <2>3 DEF Current
<1>4. CASE IfaceSkips(l) /\ iface = "none"
  <2>1. iface' = "none" /\ Kind(l) # "interface"
    BY <1>4 DEF IfaceSkips, ifaceVars
  <2>2. \A i \in DOMAIN read' : ~IfaceAt(i)'
    BY <1>1, <1>4, <2>1 DEF Current
  <2>3. QED
    BY <2>1, <2>2 DEF Current
<1>5. QED
  BY <1>2, <1>3, <1>4 DEF ReadLine, IfaceLine

LEMMA EndedNext ==
    ASSUME Read, Current, Ended, NEW l \in Lines, ReadLine(l)
    PROVE  Ended'
<1>0. PICK n : n = Len(read)
  OBVIOUS
<1>1. /\ DOMAIN read' = DOMAIN read \cup {n + 1}
      /\ \A i \in DOMAIN read :
            /\ read'[i] = read[i]
            /\ IfaceAt(i)' <=> IfaceAt(i)
            /\ Open(i, Section)' <=> Open(i, Section) /\ Kind(l) # "interface"
            /\ Excused(i)' <=> Excused(i) \/ (Open(i, Section)' /\ Excuses(l))
      /\ Open(n + 1, Section)'
  BY <1>0, SectionsGrow
<1> DEFINE Reported(i) == /\ IfaceAt(i) /\ ~Open(i, Section)
                          /\ Arg(read[i]) \notin Addressed /\ ~Excused(i)
<1> SUFFICES unused' = {Arg(read'[i]) : i \in {j \in DOMAIN read' : Reported(j)'}}
  BY DEF Ended, Arg
<1>2. \A i \in DOMAIN read' : Reported(i)' => i \in DOMAIN read
  BY <1>1
<1>3. CASE Kind(l) = "interface"
  <2>1. unused' = UnusedNow
    BY <1>3 DEF ReadLine, IfaceLine, IfaceBegins, IfaceExcused, IfaceSkips, Excuses
  <2>2. \A i \in DOMAIN read :
            Reported(i)' <=> IfaceAt(i) /\ Arg(read[i]) \notin Addressed /\ ~Excused(i)
    BY <1>1, <1>3 DEF Arg
  <2>3. UnusedNow = {Arg(read[i]) : i \in
            {j \in DOMAIN read : IfaceAt(j) /\ Arg(read[j]) \notin Addressed /\ ~Excused(j)}}
    BY NowJudges
  <2>4. QED
    BY <1>1, <1>2, <2>1, <2>2, <2>3
<1>4. CASE Kind(l) # "interface"
  <2>1. unused' = unused
    BY <1>4 DEF ReadLine, IfaceLine, IfaceBegins, IfaceExcused, IfaceSkips, ifaceVars
  <2>2. \A i \in DOMAIN read : Reported(i)' <=> Reported(i)
    BY <1>1, <1>4 DEF Arg
  <2>3. QED
    BY <1>1, <1>2, <2>1, <2>2 DEF Ended
<1>5. QED
  BY <1>3, <1>4

LEMMA CdpNext ==
    ASSUME Read, Current, CdpInv, NEW l \in Lines, ReadLine(l)
    PROVE  CdpInv'
<1>0. PICK n : n = Len(read)
  OBVIOUS
<1>1. /\ DOMAIN read' = DOMAIN read \cup {n + 1}
      /\ \A i \in DOMAIN read :
            /\ read'[i] = read[i]
            /\ IfaceAt(i)' <=> IfaceAt(i)
            /\ Open(i, Section)' <=> Open(i, Section) /\ Kind(l) # "interface"
            /\ Disabled(i)' <=> Disabled(i) \/ (Open(i, Section)' /\ Kind(l) = "no cdp enable")
      /\ read'[n + 1] = l
      /\ ~Disabled(n + 1)'
  BY <1>0, SectionsGrow
<1> DEFINE Without(i) == IfaceAt(i) /\ Disabled(i)
<1>2. noCdp' = {Arg(read'[i]) : i \in {j \in DOMAIN read' : Without(j)'}}
  <2>1. CASE Kind(l) = "no cdp enable" /\ iface # "none"
    <3>1. noCdp' = noCdp \cup {iface}
      BY <2>1 DEF ReadLine, CdpLine, CdpRun, CdpEnable, CdpSkips
    <3>2. PICK s \in DOMAIN read : IfaceAt(s) /\ Open(s, Section) /\ iface = Arg(read[s])
      BY <2>1 DEF Current
    <3>3. \A i \in DOMAIN read : IfaceAt(i) /\ Open(i, Section) => i = s
      BY <3>2, OneOpen
    <3>4. \A i \in DOMAIN read : Without(i)' <=> Without(i) \/ i = s
      BY <1>1, <2>1, <3>2, <3>3
    <3>5. \A i \in DOMAIN read' : Without(i)' <=> i \in DOMAIN read /\ (Without(i) \/ i = s)
      BY <1>1, <3>4
    <3>6. \A i \in DOMAIN read : Arg(read'[i]) = Arg(read[i])
      BY <1>1
    <3>7. \A x : x \in noCdp' <=> \E i \in DOMAIN read : (Without(i) \/ i = s) /\ x = Arg(read[i])
      BY <3>1, <3>2 DEF CdpInv
    <3>8. DOMAIN read \subseteq DOMAIN read'
      BY <1>1
    <3>9. QED
      BY <3>5, <3>6, <3>7, <3>8
  <2>2. CASE ~(Kind(l) = "no cdp enable" /\ iface # "none")
    <3>1. noCdp' = noCdp
      BY <2>2 DEF ReadLine, CdpLine, CdpRun, CdpEnable, CdpSkips, cdpVars
    <3>2. \A i \in DOMAIN read : Without(i)' <=> Without(i)
      BY <1>1, <2>2 DEF Current
    <3>3. QED
      BY <1>1, <3>1, <3>2 DEF CdpInv
  <2>3. QED
    BY <2>1, <2>2
<1>3. (noCdpRun <=> \E i \in DOMAIN read : Kind(read[i]) = "no cdp run")'
  <2>1. noCdpRun' <=> noCdpRun \/ Kind(l) = "no cdp run"
    <3>1. CASE Kind(l) = "no cdp run"
      <4>1. noCdpRun'
        BY <3>1 DEF ReadLine, CdpLine, CdpRun, CdpEnable, CdpSkips
      <4>2. QED
        BY <3>1, <4>1
    <3>2. CASE Kind(l) # "no cdp run"
      <4>1. noCdpRun' = noCdpRun
        BY <3>2 DEF ReadLine, CdpLine, CdpRun, CdpEnable, CdpSkips, cdpVars
      <4>2. QED
        BY <3>2, <4>1
    <3>3. QED
      BY <3>1, <3>2
  <2>2. (\E i \in DOMAIN read' : Kind(read'[i]) = "no cdp run")
        <=> (\E i \in DOMAIN read : Kind(read[i]) = "no cdp run") \/ Kind(l) = "no cdp run"
    BY <1>1
  <2>3. QED
    BY <2>1, <2>2 DEF CdpInv, Kind
<1>4. QED
  BY <1>2, <1>3 DEF CdpInv, Arg

LEMMA IfaceAlways == Spec => []IfaceInv
<1>1. Init => IfaceInv
  <2> SUFFICES ASSUME Init PROVE IfaceInv
    OBVIOUS
  <2>1. DOMAIN read = {} /\ iface = "none" /\ unused = {} /\ noCdp = {} /\ ~noCdpRun
    BY DEF Init
  <2>2. QED
    BY <2>1, ReadInit DEF IfaceInv, Current, Ended, CdpInv
<1>2. IfaceInv /\ [Next]_vars => IfaceInv'
  <2> SUFFICES ASSUME IfaceInv, [Next]_vars PROVE IfaceInv'
    OBVIOUS
  <2>1. CASE UNCHANGED vars
    BY <2>1 DEF IfaceInv, vars, ifaceVars, cdpVars, Read, Current, Ended, CdpInv, IfaceAt, Begins,
                Open, Excused, Disabled, Block
  <2>2. CASE Next
    <3>1. PICK l \in Lines : ReadLine(l)
      BY <2>2 DEF Next
    <3>2. QED
      BY <3>1, Grows, CurrentNext, EndedNext, CdpNext DEF IfaceInv
  <2>3. QED
    BY <2>1, <2>2
<1>3. QED
  BY <1>1, <1>2, PTL DEF Spec

\* The section of an interface is a part of what the loops take for it, and the whole
\* of it as far as lines are concerned that stand in the section of some interface.
LEMMA OwnLines ==
    ASSUME Read, NEW i \in DOMAIN read, IfaceAt(i)
    PROVE  /\ IfaceBlock(i) \subseteq Block(i, Section)
           /\ IfaceBlock(i) \subseteq DOMAIN read
           /\ Block(i, Section) \subseteq DOMAIN read
           /\ \A k \in Block(i, Section) : Placed(k) => k \in IfaceBlock(i)
<1>1. DOMAIN read = 1..Len(read) /\ Len(read) \in Nat
  BY DEF Read
<1>2. "interface" \in TopLevel
  BY DEF TopLevel, Enders
<1>3. Block(i, Section) \subseteq DOMAIN read
  BY <1>1 DEF Block
<1>4. IfaceBlock(i) \subseteq Block(i, Section)
  BY <1>2 DEF IfaceBlock, Block, Section
<1>5. ASSUME NEW k \in Block(i, Section), Placed(k) PROVE k \in IfaceBlock(i)
  <2>1. PICK m \in DOMAIN read : Begins(m, "interface") /\ k \in IfaceBlock(m)
    BY <1>5 DEF Placed
  <2>2. /\ k \in (i + 1)..Len(read) /\ \A j \in (i + 1)..k : Kind(read[j]) # "interface"
        /\ k \in (m + 1)..Len(read) /\ \A j \in (m + 1)..k : Kind(read[j]) # "interface"
    BY <1>2, <1>5, <2>1 DEF IfaceBlock, Block, Section
  <2>3. Kind(read[i]) = "interface" /\ Kind(read[m]) = "interface"
    BY <2>1 DEF IfaceAt, Begins
  <2>4. ~(i < m) /\ ~(m < i)
    BY <1>1, <2>2, <2>3
  <2>5. i = m
    BY <1>1, <2>4
  <2>6. QED
    BY <2>1, <2>5
<1>6. QED
  BY <1>3, <1>4, <1>5

\* The rule reports only interfaces without an address that their own lines do not
\* excuse, and all of them where what excuses stands in the sections of interfaces
\* (_check_unused_iface_shutdown).
THEOREM UnusedIsJudged == Spec => []UnusedJudged
<1>1. IfaceInv => UnusedJudged
  <2> DEFINE Free(j) == Begins(j, "interface") /\ Arg(read[j]) \notin Addressed
             Own(j) == \E k \in IfaceBlock(j) : Excuses(read[k])
  <2> SUFFICES ASSUME IfaceInv
               PROVE  LET Idle == {Arg(read[i]) : i \in {j \in DOMAIN read : Free(j) /\ ~Own(j)}}
                      IN  UnusedNow \subseteq Idle /\ (ExcusesPlaced => UnusedNow = Idle)
    BY Zenon DEF UnusedJudged
  <2>1. UnusedNow = {Arg(read[i]) : i \in {j \in DOMAIN read : Free(j) /\ ~Excused(j)}}
    BY NowJudges DEF IfaceInv, IfaceAt
  <2>2. ASSUME NEW j \in DOMAIN read, Free(j)
        PROVE  (Own(j) => Excused(j)) /\ (ExcusesPlaced /\ Excused(j) => Own(j))
    BY <2>2, OwnLines DEF IfaceInv, IfaceAt, Excused, ExcusesPlaced
  <2> HIDE DEF Free, Own
  <2>3. QED
    BY <2>1, <2>2
<1>2. QED
  BY <1>1, IfaceAlways, PTL

\* A configuration that passes this rule and that of the VLANs leaves no port open,
\* if what excuses an interface stands in the sections of interfaces
\* (_check_unused_iface_shutdown, _check_no_open_ports).
THEOREM NoPortIsOpen == Spec => []NoOpenPort
<1>1. IfaceInv => NoOpenPort
  <2> SUFFICES ASSUME IfaceInv, UnusedPassed, PortsPassed, ExcusesPlaced,
                      NEW i \in DOMAIN read, Begins(i, "interface"), Arg(read[i]) \notin Addressed
               PROVE  \/ \E k \in IfaceBlock(i) : Kind(read[k]) = "shutdown"
                      \/ /\ \E k \in IfaceBlock(i) : Kind(read[k]) = "access vlan"
                         /\ \A k \in IfaceBlock(i) : Kind(read[k]) = "access vlan"
                               => Arg(read[k]) \in AllowedVlans \cup {"none"}
    BY DEF NoOpenPort
  <2>1. PICK k \in Block(i, Section) : Excuses(read[k])
    BY NowJudges DEF IfaceInv, UnusedPassed, IfaceAt, Excused
  <2>2. k \in IfaceBlock(i) /\ IfaceBlock(i) \subseteq DOMAIN read
    BY <2>1, OwnLines DEF IfaceInv, IfaceAt, ExcusesPlaced
  <2>3. \A m \in DOMAIN read : Kind(read[m]) = "access vlan" => Arg(read[m]) \in AllowedVlans \cup {"none"}
    BY DEF PortsPassed, Found
  <2>4. QED
    BY <2>1, <2>2, <2>3 DEF Excuses
<1>2. QED
  BY <1>1, IfaceAlways, PTL

\* CDP counts as disabled if it is globally, or in the lines of every interface the
\* device has; and only then, if the lines that disable it stand in the sections of
\* interfaces (_check_cdp_disabled).
THEOREM CdpIsJudged == Spec => []CdpJudged
<1>1. IfaceInv => CdpJudged
  <2> SUFFICES ASSUME IfaceInv PROVE CdpJudged
    OBVIOUS
  <2> DEFINE Own(i) == \E k \in IfaceBlock(i) : Kind(read[k]) = "no cdp enable"
             AllPlaced == \A k \in DOMAIN read : Kind(read[k]) = "no cdp enable" => Placed(k)
  <2>1. noCdpRun <=> Found("no cdp run") # {}
    BY DEF IfaceInv, CdpInv, Found
  <2>2. \A m \in Interfaces :
            m \in noCdp <=> \E i \in DOMAIN read : read[i] = <<"interface", m>> /\ Disabled(i)
    <3>1. \A i \in DOMAIN read : read[i] = <<read[i][1], read[i][2]>>
      BY ComplianceAssumption DEF IfaceInv, Read, ComplianceAssumption
    <3>2. \A m : \A i \in DOMAIN read :
              read[i] = <<"interface", m>> <=> IfaceAt(i) /\ Arg(read[i]) = m
      BY <3>1 DEF IfaceAt, Begins, Kind, Arg
    <3>3. QED
      BY <3>2 DEF IfaceInv, CdpInv
  <2>3. ASSUME NEW i \in DOMAIN read, NEW m, read[i] = <<"interface", m>>
        PROVE  (Own(i) => Disabled(i)) /\ (AllPlaced /\ Disabled(i) => Own(i))
    <3>1. IfaceAt(i)
      BY <2>3 DEF IfaceAt, Begins, Kind
    <3>2. QED
      BY <3>1, OwnLines DEF IfaceInv, Disabled
  <2> DEFINE Off == \/ Found("no cdp run") # {}
                    \/ /\ Interfaces # {}
                       /\ \A n \in Interfaces : \E i \in DOMAIN read :
                             read[i] = <<"interface", n>> /\ Own(i)
  <2>4. Off => CdpPassed
    BY <2>1, <2>2, <2>3 DEF CdpPassed
  <2>5. AllPlaced => (CdpPassed => Off)
    BY <2>1, <2>2, <2>3 DEF CdpPassed
  <2>6. QED
    BY <2>4, <2>5, Zenon DEF CdpJudged
<1>2. QED
  BY <1>1, IfaceAlways, PTL

-----------------------------------------------------------------------------
(* VTY blocks.                                                              *)

VtyEnders == Enders \cup {"line vty"}

VtyAt(i) == i \in DOMAIN read /\ Begins(i, "line vty")
Timed(i) == \E k \in VtyBlock(i) : Kind(read[k]) \in Timeouts
Within(i) == WithinLimit(VtyBlock(i))

\* The block that is open is the last one, and its variables tell of it.
OpenBlock ==
    /\ vty \in [start : Nat, timed : BOOLEAN, minutes : Nat]
    /\ vty.start = 0 => \A i \in DOMAIN read : VtyAt(i) => ~Open(i, VtyEnders)
    /\ vty.start # 0 => /\ VtyAt(vty.start) /\ Open(vty.start, VtyEnders)
                        /\ vty.timed <=> Timed(vty.start)
                        /\ vty.minutes <= MaxMinutes <=> Within(vty.start)

\* What is reported before the end are the blocks that have ended.
EndedBlocks ==
    /\ missing = {i \in DOMAIN read : VtyAt(i) /\ ~Open(i, VtyEnders) /\ ~Timed(i)}
    /\ exceeding = {i \in DOMAIN read : VtyAt(i) /\ ~Open(i, VtyEnders) /\ ~Within(i)}

VtyInv == Read /\ OpenBlock /\ EndedBlocks

LEMMA OneOpenBlock ==
    ASSUME Read, NEW i \in DOMAIN read, NEW j \in DOMAIN read,
           VtyAt(i), VtyAt(j), Open(i, VtyEnders), Open(j, VtyEnders)
    PROVE  i = j
<1>1. DOMAIN read = 1..Len(read) /\ Len(read) \in Nat
  BY DEF Read
<1>2. \A m : VtyAt(m) => Kind(read[m]) \in VtyEnders
  BY DEF VtyAt, Begins, VtyEnders
<1>3. ~(i < j) /\ ~(j < i)
  BY <1>1, <1>2 DEF Open
<1>4. QED
  BY <1>1, <1>3

\* A block beyond the limit has a timeout.
LEMMA BeyondIsTimed == ASSUME NEW i, ~Within(i) PROVE Timed(i)
BY DEF Within, WithinLimit, Timed, Timeouts

LEMMA VtyNowJudges ==
    ASSUME Read, OpenBlock, EndedBlocks
    PROVE  /\ MissingNow = {i \in DOMAIN read : VtyAt(i) /\ ~Timed(i)}
           /\ ExceedingNow = {i \in DOMAIN read : VtyAt(i) /\ ~Within(i)}
<1>1. CASE vty.start = 0
  <2>1. MissingNow = missing /\ ExceedingNow = exceeding
    BY <1>1 DEF MissingNow, ExceedingNow
  <2>2. QED
    BY <1>1, <2>1 DEF OpenBlock, EndedBlocks
<1>2. CASE vty.start # 0
  <2> DEFINE s == vty.start
  <2>1. VtyAt(s) /\ Open(s, VtyEnders) /\ s \in DOMAIN read
    BY <1>2 DEF OpenBlock, VtyAt
  <2>2. \A j \in DOMAIN read : VtyAt(j) /\ Open(j, VtyEnders) => j = s
    BY <2>1, OneOpenBlock
  <2>3. MissingNow = missing \cup {b \in {s} : ~Timed(s)}
    BY <1>2 DEF MissingNow, OpenBlock
  <2>4. vty.timed /\ vty.minutes > MaxMinutes <=> ~Within(s)
    <3>1. /\ vty.timed <=> Timed(s)
          /\ vty.minutes <= MaxMinutes <=> Within(s)
          /\ vty.minutes \in Nat
      BY <1>2 DEF OpenBlock
    <3>2. MaxMinutes \in Nat
      BY ComplianceAssumption DEF ComplianceAssumption
    <3>3. ~Within(s) => Timed(s)
      BY BeyondIsTimed
    <3>4. QED
      BY <3>1, <3>2, <3>3
  <2>5. ExceedingNow = exceeding \cup {b \in {s} : ~Within(s)}
    BY <1>2, <2>4 DEF ExceedingNow
  <2>6. MissingNow = {i \in DOMAIN read : VtyAt(i) /\ ~Timed(i)}
    BY <2>1, <2>2, <2>3 DEF EndedBlocks
  <2>7. ExceedingNow = {i \in DOMAIN read : VtyAt(i) /\ ~Within(i)}
    BY <2>1, <2>2, <2>5 DEF EndedBlocks
  <2>8. QED
    BY <2>6, <2>7
<1>3. QED
  BY <1>1, <1>2

\* What the blocks say of a line, in the step in which l is read.
LEMMA VtyBlocksGrow ==
    ASSUME Read, NEW l \in Lines, ReadLine(l), NEW n, n = Len(read)
    PROVE  /\ \A i \in DOMAIN read :
                  /\ VtyAt(i)' <=> VtyAt(i)
                  /\ Open(i, VtyEnders)' <=> Open(i, VtyEnders) /\ Kind(l) \notin VtyEnders
                  /\ Timed(i)' <=> Timed(i) \/ (Open(i, VtyEnders)' /\ Kind(l) \in Timeouts)
                  /\ Within(i)' <=> IF Open(i, VtyEnders)' /\ Kind(l) = "exec-timeout"
                                    THEN Arg(l) <= MaxMinutes ELSE Within(i)
           /\ n \in Nat /\ DOMAIN read' = DOMAIN read \cup {n + 1}
           /\ n + 1 \notin DOMAIN read
           /\ VtyAt(n + 1)' <=> Kind(l) = "line vty"
           /\ Open(n + 1, VtyEnders)' /\ ~Timed(n + 1)' /\ Within(n + 1)'
<1>0. /\ n \in Nat /\ DOMAIN read = 1..n /\ DOMAIN read' = 1..(n + 1)
      /\ \A i \in 1..n : read'[i] = read[i]
      /\ read'[n + 1] = l
  BY Grows
<1>1. /\ \A i \in 1..n :
            /\ Open(i, VtyEnders)' <=> Open(i, VtyEnders) /\ Kind(l) \notin VtyEnders
            /\ Block(i, VtyEnders)' = IF Open(i, VtyEnders)' THEN Block(i, VtyEnders) \cup {n + 1}
                                                             ELSE Block(i, VtyEnders)
            /\ Block(i, VtyEnders) \subseteq (i + 1)..n
      /\ Open(n + 1, VtyEnders)' /\ Block(n + 1, VtyEnders)' = {}
  BY BlocksGrow
<1>2. ASSUME NEW i \in 1..n
      PROVE  /\ VtyAt(i)' <=> VtyAt(i)
             /\ Timed(i)' <=> Timed(i) \/ (Open(i, VtyEnders)' /\ Kind(l) \in Timeouts)
             /\ Within(i)' <=> IF Open(i, VtyEnders)' /\ Kind(l) = "exec-timeout"
                               THEN Arg(l) <= MaxMinutes ELSE Within(i)
  <2> DEFINE B == Block(i, VtyEnders)
             Late == {m \in B : Kind(read[m]) = "exec-timeout"}
  <2>1. VtyAt(i)' <=> VtyAt(i)
    <3>1. i \in DOMAIN read /\ i \in DOMAIN read' /\ read'[i] = read[i]
      BY <1>0
    <3>2. QED
      BY <3>1, Zenon DEF VtyAt, Begins, Kind
  <2>2. \A k \in B : read'[k] = read[k] /\ k \in (i + 1)..n
    BY <1>0, <1>1
  <2>3. Timed(i)' <=> Timed(i) \/ (Open(i, VtyEnders)' /\ Kind(l) \in Timeouts)
    <3>1. Timed(i)' <=> \E k \in B' : Kind(read'[k]) \in Timeouts
      BY DEF Timed, VtyBlock, VtyEnders, Kind
    <3>2. Timed(i) <=> \E k \in B : Kind(read[k]) \in Timeouts
      BY DEF Timed, VtyBlock, VtyEnders
    <3>3. QED
      BY <3>1, <3>2, <2>2, <1>0, <1>1
  <2>4. Within(i)' <=> \A k \in B' : Kind(read'[k]) = "exec-timeout"
                          /\ (\A m \in B' : Kind(read'[m]) = "exec-timeout" => m <= k)
                             => Arg(read'[k]) <= MaxMinutes
    BY DEF Within, WithinLimit, VtyBlock, VtyEnders, Kind, Arg
  <2>5. Within(i) <=> \A k \in B : Kind(read[k]) = "exec-timeout"
                          /\ (\A m \in B : Kind(read[m]) = "exec-timeout" => m <= k)
                             => Arg(read[k]) <= MaxMinutes
    BY DEF Within, WithinLimit, VtyBlock, VtyEnders
  <2>6. CASE ~Open(i, VtyEnders)'
    <3>1. B' = B
      BY <1>1, <2>6
    <3>2. QED
      BY <2>1, <2>2, <2>3, <2>4, <2>5, <2>6, <3>1
  <2>7. CASE Open(i, VtyEnders)' /\ Kind(l) # "exec-timeout"
    <3>1. B' = B \cup {n + 1}
      BY <1>1, <2>7
    <3>2. \A k \in B' : Kind(read'[k]) = "exec-timeout" <=> k \in B /\ Kind(read[k]) = "exec-timeout"
      BY <1>0, <2>2, <2>7, <3>1
    <3>3. Within(i)' <=> Within(i)
      BY <2>2, <2>4, <2>5, <3>1, <3>2
    <3>4. QED
      BY <2>1, <2>3, <2>7, <3>3
  <2>8. CASE Open(i, VtyEnders)' /\ Kind(l) = "exec-timeout"
    <3>1. B' = B \cup {n + 1}
      BY <1>1, <2>8
    <3>2. \A k \in B' : k <= n + 1 /\ (k # n + 1 => ~(n + 1 <= k))
      BY <1>0, <2>2, <3>1
    <3>3. Kind(read'[n + 1]) = "exec-timeout" /\ Arg(read'[n + 1]) = Arg(l)
      BY <1>0, <2>8
    <3>4. Within(i)' <=> Arg(l) <= MaxMinutes
      BY <2>4, <3>1, <3>2, <3>3
    <3>5. QED
      BY <2>1, <2>3, <2>8, <3>4
  <2>9. QED
    BY <2>6, <2>7, <2>8
<1>3. VtyAt(n + 1)' <=> Kind(l) = "line vty"
  <2>1. n + 1 \in DOMAIN read' /\ read'[n + 1] = l
    BY <1>0
  <2>2. QED
    BY <2>1, Zenon DEF VtyAt, Begins, Kind
<1>4. ~Timed(n + 1)'
  BY <1>1 DEF Timed, VtyBlock, VtyEnders
<1>5. Within(n + 1)'
  BY <1>1 DEF Within, WithinLimit, VtyBlock, VtyEnders
<1>6. n + 1 \notin DOMAIN read /\ DOMAIN read' = DOMAIN read \cup {n + 1}
  BY <1>0
<1>7. QED
  BY <1>0, <1>1, <1>2, <1>3, <1>4, <1>5, <1>6

LEMMA OpenBlockNext ==
    ASSUME Read, OpenBlock, NEW l \in Lines, ReadLine(l)
    PROVE  OpenBlock'
<1>0. PICK n : n = Len(read)
  OBVIOUS
<1>1. /\ \A i \in DOMAIN read :
            /\ VtyAt(i)' <=> VtyAt(i)
            /\ Open(i, VtyEnders)' <=> Open(i, VtyEnders) /\ Kind(l) \notin VtyEnders
            /\ Timed(i)' <=> Timed(i) \/ (Open(i, VtyEnders)' /\ Kind(l) \in Timeouts)
            /\ Within(i)' <=> IF Open(i, VtyEnders)' /\ Kind(l) = "exec-timeout"
                              THEN Arg(l) <= MaxMinutes ELSE Within(i)
      /\ n \in Nat /\ DOMAIN read' = DOMAIN read \cup {n + 1}
      /\ VtyAt(n + 1)' <=> Kind(l) = "line vty"
      /\ Open(n + 1, VtyEnders)' /\ ~Timed(n + 1)' /\ Within(n + 1)'
  BY <1>0, VtyBlocksGrow
<1>2. /\ vty \in [start : Nat, timed : BOOLEAN, minutes : Nat]
      /\ MaxMinutes \in Nat
      /\ Kind(l) = "exec-timeout" => Arg(l) \in Nat
      /\ vty.start # 0 => vty.start \in DOMAIN read
  BY ComplianceAssumption DEF OpenBlock, ComplianceAssumption, Kind, Arg, VtyAt
<1>bound. n \in Nat /\ 0 <= MaxMinutes
  <2>1. n \in Nat
    BY <1>0, Grows
  <2>2. MaxMinutes \in Nat
    BY ComplianceAssumption DEF ComplianceAssumption
  <2>3. QED
    BY <2>1, <2>2
<1> DEFINE Alike(r, i) == /\ VtyAt(i) /\ Open(i, VtyEnders)
                          /\ r.timed <=> Timed(i)
                          /\ r.minutes <= MaxMinutes <=> Within(i)
<1>3. CASE VtyBegins(l)
  <2>1. vty' = [start |-> n + 1, timed |-> FALSE, minutes |-> 0]
    BY <1>0, <1>3 DEF VtyBegins, Outside
  <2>2. VtyAt(n + 1)'
    BY <1>1, <1>3 DEF VtyBegins
  <2>3. vty'.start = n + 1 /\ vty'.start # 0 /\ ~vty'.timed /\ vty'.minutes <= MaxMinutes
    BY <2>1, <1>bound
  <2>4. vty' \in [start : Nat, timed : BOOLEAN, minutes : Nat]
    BY <2>1, <1>bound
  <2>5. QED
    BY <1>1, <2>2, <2>3, <2>4 DEF OpenBlock
<1>4. CASE VtyEnds(l)
  <2>1. vty'.start = 0 /\ vty' \in [start : Nat, timed : BOOLEAN, minutes : Nat]
    BY <1>4 DEF VtyEnds, Outside
  <2>2. Kind(l) \in VtyEnders /\ Kind(l) # "line vty"
    BY <1>4 DEF VtyEnds, VtyEnders, Enders
  <2>3. \A i \in DOMAIN read' : VtyAt(i)' => ~Open(i, VtyEnders)'
    BY <1>1, <2>2
  <2>4. QED
    BY <2>1, <2>3 DEF OpenBlock
<1>5. CASE VtyTimeout(l)
  <2> DEFINE s == vty.start
  <2>1. s # 0 /\ Kind(l) \in Timeouts
    BY <1>5 DEF VtyTimeout
  <2>2. Kind(l) \notin VtyEnders
    BY <2>1 DEF Timeouts, VtyEnders, Enders
  <2>3. PICK i \in DOMAIN read : i = s /\ Alike(vty, i)
    BY <1>2, <2>1 DEF OpenBlock
  <2>4. /\ vty'.start = s /\ vty'.timed
        /\ vty'.minutes = IF Kind(l) = "exec-timeout" THEN Arg(l) ELSE vty.minutes
        /\ vty' \in [start : Nat, timed : BOOLEAN, minutes : Nat]
    BY <1>2, <1>5 DEF VtyTimeout
  <2>5. /\ VtyAt(i)' /\ Open(i, VtyEnders)' /\ Timed(i)'
        /\ Within(i)' <=> IF Kind(l) = "exec-timeout" THEN Arg(l) <= MaxMinutes ELSE Within(i)
    BY <1>1, <2>1, <2>2, <2>3
  <2>6. vty'.minutes <= MaxMinutes <=> Within(i)'
    BY <2>3, <2>4, <2>5
  <2>7. vty'.start = i
    BY <2>3, <2>4
  <2>8. QED
    BY <2>1, <2>3, <2>4, <2>5, <2>6, <2>7 DEF OpenBlock
<1>6. CASE VtySkips(l) /\ vty.start # 0
  <2>1. vty' = vty /\ Kind(l) \notin VtyEnders /\ Kind(l) \notin Timeouts
    BY <1>6 DEF VtySkips, vtyVars, VtyEnders
  <2>2. Kind(l) # "exec-timeout"
    BY <2>1 DEF Timeouts
  <2>3. PICK i \in DOMAIN read : i = vty.start /\ Alike(vty, i)
    BY <1>2, <1>6 DEF OpenBlock
  <2>4. /\ VtyAt(i)' /\ Open(i, VtyEnders)'
        /\ Timed(i)' <=> Timed(i)
        /\ Within(i)' <=> Within(i)
    BY <1>1, <2>1, <2>2, <2>3
  <2>5. vty'.start = i
    BY <2>1, <2>3
  <2>6. QED
    BY <1>2, <1>6, <2>1, <2>3, <2>4, <2>5 DEF OpenBlock
<1>7. CASE VtySkips(l) /\ vty.start = 0
  <2>1. vty' = vty /\ Kind(l) # "line vty"
    BY <1>7 DEF VtySkips, vtyVars
  <2>2. \A i \in DOMAIN read' : VtyAt(i)' => ~Open(i, VtyEnders)'
    BY <1>1, <1>7, <2>1 DEF OpenBlock
  <2>3. QED
    BY <1>2, <1>7, <2>1, <2>2 DEF OpenBlock
<1>8. QED
  BY <1>3, <1>4, <1>5, <1>6, <1>7 DEF ReadLine, VtyLine

LEMMA EndedBlocksNext ==
    ASSUME Read, OpenBlock, EndedBlocks, NEW l \in Lines, ReadLine(l)
    PROVE  EndedBlocks'
<1>0. PICK n : n = Len(read)
  OBVIOUS
<1>1. /\ \A i \in DOMAIN read :
            /\ VtyAt(i)' <=> VtyAt(i)
            /\ Open(i, VtyEnders)' <=> Open(i, VtyEnders) /\ Kind(l) \notin VtyEnders
            /\ Timed(i)' <=> Timed(i) \/ (Open(i, VtyEnders)' /\ Kind(l) \in Timeouts)
            /\ Within(i)' <=> IF Open(i, VtyEnders)' /\ Kind(l) = "exec-timeout"
                              THEN Arg(l) <= MaxMinutes ELSE Within(i)
      /\ DOMAIN read' = DOMAIN read \cup {n + 1}
      /\ Open(n + 1, VtyEnders)'
  BY <1>0, VtyBlocksGrow
<1>2. CASE VtyBegins(l) \/ VtyEnds(l)
  <2>1. Kind(l) \in VtyEnders /\ FinishVty
    BY <1>2 DEF VtyBegins, VtyEnds, VtyEnders
  <2>2. \A i \in DOMAIN read :
            /\ VtyAt(i)' <=> VtyAt(i)
            /\ ~Open(i, VtyEnders)'
            /\ Timed(i)' <=> Timed(i)
            /\ Within(i)' <=> Within(i)
    BY <1>1, <2>1
  <2>3. /\ MissingNow = {i \in DOMAIN read : VtyAt(i) /\ ~Timed(i)}
        /\ ExceedingNow = {i \in DOMAIN read : VtyAt(i) /\ ~Within(i)}
    BY VtyNowJudges
  <2>4. QED
    BY <1>1, <2>1, <2>2, <2>3 DEF FinishVty, EndedBlocks
<1>3. CASE VtyTimeout(l) \/ VtySkips(l)
  <2>1. missing' = missing /\ exceeding' = exceeding
    BY <1>3 DEF VtyTimeout, VtySkips, vtyVars
  <2>2. Kind(l) \notin VtyEnders \/ (vty.start = 0 /\ Kind(l) # "line vty")
    BY <1>3 DEF VtyTimeout, VtySkips, VtyEnders, Timeouts, Enders
  <2>3. \A i \in DOMAIN read : VtyAt(i) =>
            /\ Open(i, VtyEnders)' <=> Open(i, VtyEnders)
            /\ ~Open(i, VtyEnders) => (Timed(i)' <=> Timed(i)) /\ (Within(i)' <=> Within(i))
    BY <1>1, <2>2 DEF OpenBlock
  <2>4. QED
    BY <1>1, <2>1, <2>3 DEF EndedBlocks
<1>4. QED
  BY <1>2, <1>3 DEF ReadLine, VtyLine

\* The rule passes a configuration exactly if each VTY block has a timeout among
\* its own lines and the last it has is within the limit (_check_vty_timeout).
THEOREM VtyIsJudged == Spec => []VtyJudged
<1>1. Init => VtyInv
  <2> SUFFICES ASSUME Init PROVE VtyInv
    OBVIOUS
  <2>1. DOMAIN read = {} /\ vty = Outside /\ missing = {} /\ exceeding = {}
    BY DEF Init
  <2>2. vty.start = 0 /\ vty \in [start : Nat, timed : BOOLEAN, minutes : Nat]
    BY <2>1 DEF Outside
  <2>3. QED
    BY <2>1, <2>2, ReadInit DEF VtyInv, OpenBlock, EndedBlocks
<1>2. VtyInv /\ [Next]_vars => VtyInv'
  <2> SUFFICES ASSUME VtyInv, [Next]_vars PROVE VtyInv'
    OBVIOUS
  <2>1. CASE UNCHANGED vars
    <3>1. read' = read /\ UNCHANGED vtyVars
      BY <2>1 DEF vars
    <3>2. Read'
      BY <3>1 DEF VtyInv, Read
    <3>3. \A i : /\ VtyAt(i)' <=> VtyAt(i)
                 /\ Open(i, VtyEnders)' <=> Open(i, VtyEnders)
                 /\ Timed(i)' <=> Timed(i)
                 /\ Within(i)' <=> Within(i)
      BY <3>1 DEF VtyAt, Begins, Open, Timed, Within, WithinLimit, VtyBlock, Block, Kind, Arg
    <3>4. OpenBlock'
      BY <3>1, <3>3 DEF VtyInv, OpenBlock, vtyVars
    <3>5. EndedBlocks'
      BY <3>1, <3>3 DEF VtyInv, EndedBlocks, vtyVars
    <3>6. QED
      BY <3>2, <3>4, <3>5 DEF VtyInv
  <2>2. CASE Next
    <3>1. PICK l \in Lines : ReadLine(l)
      BY <2>2 DEF Next
    <3>2. QED
      BY <3>1, Grows, OpenBlockNext, EndedBlocksNext DEF VtyInv
  <2>3. QED
    BY <2>1, <2>2
<1>3. VtyInv => VtyJudged
  BY VtyNowJudges DEF VtyInv, VtyJudged, VtyPassed, VtyAt, Timed, Within
<1>4. QED
  BY <1>1, <1>2, <1>3, PTL DEF Spec

-----------------------------------------------------------------------------
(* The banner.                                                              *)

BannerAt(i) == Begins(i, "banner login")
Opens(l) == Kind(l) = "banner login"
Delimiter(i) == <<"text", Arg(read[i])>>

\* The lines from i to k belong to the banner that i begins, or to a later one.
Shown(i, k) ==
    /\ BannerAt(i)
    /\ \A j \in (i + 1)..k : read[j] = Delimiter(i) => \E m \in (i + 1)..j : BannerAt(m)

\* The open banner goes on to the last line, and what ends it is its own delimiter,
\* unless its line has none.
BannerInv ==
    /\ Read
    /\ banner = [found |-> banner.found, open |-> banner.open,
                 delimiter |-> banner.delimiter, matched |-> banner.matched]
    /\ banner.open => \E i \in DOMAIN read :
           Shown(i, Len(read)) /\ (Arg(read[i]) = "none" \/ banner.delimiter = Arg(read[i]))
    /\ banner.matched => \E i \in DOMAIN read : \E k \in i..Len(read) :
           Shown(i, k) /\ read[k] \in Matching

\* A line adds nothing to what was shown before it; it is shown itself if it begins
\* a banner or does not hold the delimiter.
LEMMA ShownGrows ==
    ASSUME Read, NEW l \in Lines, ReadLine(l), NEW n, n = Len(read)
    PROVE  /\ \A i \in 1..n : \A k \in i..n : Shown(i, k)' <=> Shown(i, k)
           /\ \A i \in 1..n :
                  Shown(i, n) /\ l # Delimiter(i) => Shown(i, n + 1)'
           /\ Opens(l) => Shown(n + 1, n + 1)'
<1>0. /\ n \in Nat /\ DOMAIN read = 1..n /\ DOMAIN read' = 1..(n + 1)
      /\ \A i \in 1..n : read'[i] = read[i]
      /\ read'[n + 1] = l
  BY Grows
<1>1. /\ \A i \in 1..n : BannerAt(i)' <=> BannerAt(i)
      /\ BannerAt(n + 1)' <=> Opens(l)
  BY <1>0, Zenon DEF BannerAt, Begins, Opens, Kind
<1>same. \A i \in 1..n : Delimiter(i)' = Delimiter(i)
  BY <1>0 DEF Delimiter, Arg
<1>2. ASSUME NEW i \in 1..n, NEW k \in i..n PROVE Shown(i, k)' <=> Shown(i, k)
  <2>1. \A j \in (i + 1)..k : j \in 1..n /\ \A m \in (i + 1)..j : m \in 1..n
    BY <1>0
  <2>2. QED
    BY <1>0, <1>1, <1>same, <2>1 DEF Shown
<1>3. ASSUME NEW i \in 1..n, Shown(i, n), l # Delimiter(i)
      PROVE  Shown(i, n + 1)'
  <2>1. \A j \in (i + 1)..(n + 1) : j = n + 1 \/ (j \in (i + 1)..n /\ \A m \in (i + 1)..j : m \in 1..n)
    BY <1>0
  <2>2. QED
    BY <1>0, <1>1, <1>3, <1>same, <2>1 DEF Shown
<1>4. ASSUME Opens(l) PROVE Shown(n + 1, n + 1)'
  BY <1>0, <1>1, <1>4 DEF Shown
<1>5. QED
  BY <1>2, <1>3, <1>4

LEMMA BannerNext ==
    ASSUME BannerInv, NEW l \in Lines, ReadLine(l)
    PROVE  BannerInv'
<1>0. PICK n : n = Len(read)
  OBVIOUS
<1>1. /\ n \in Nat /\ DOMAIN read = 1..n /\ DOMAIN read' = 1..(n + 1) /\ Len(read') = n + 1
      /\ \A i \in 1..n : read'[i] = read[i]
      /\ read'[n + 1] = l
      /\ Read /\ Read'
  BY <1>0, Grows DEF BannerInv
<1>2. /\ \A i \in 1..n : \A k \in i..n : Shown(i, k)' <=> Shown(i, k)
      /\ \A i \in 1..n : Shown(i, n) /\ l # Delimiter(i) => Shown(i, n + 1)'
      /\ Opens(l) => Shown(n + 1, n + 1)'
  BY <1>0, <1>1, ShownGrows
<1>3. banner.matched => \E i \in 1..(n + 1) : \E k \in i..(n + 1) : Shown(i, k)' /\ read'[k] \in Matching
  BY <1>0, <1>1, <1>2 DEF BannerInv
<1> DEFINE Reaches == \E i \in 1..(n + 1) :
               Shown(i, n + 1)' /\ (Arg(read'[i]) = "none" \/ banner'.delimiter = Arg(read'[i]))
           Seen == \E i \in 1..(n + 1) : \E k \in i..(n + 1) : Shown(i, k)' /\ read'[k] \in Matching
<1>4. SUFFICES /\ banner' = [found |-> banner'.found, open |-> banner'.open,
                             delimiter |-> banner'.delimiter, matched |-> banner'.matched]
               /\ banner'.open => Reaches
               /\ banner'.matched => Seen
  BY <1>1 DEF BannerInv
<1>5. CASE BannerBegins(l)
  <2>1. banner' = [found |-> TRUE, open |-> TRUE,
                   delimiter |-> IF Arg(l) # "none" THEN Arg(l) ELSE banner.delimiter,
                   matched |-> banner.matched \/ l \in Matching]
    BY <1>5 DEF BannerBegins
  <2>2. Shown(n + 1, n + 1)' /\ read'[n + 1] = l /\ n + 1 \in 1..(n + 1) /\ n + 1 \in (n + 1)..(n + 1)
    <3>1. Opens(l)
      BY <1>5, Zenon DEF BannerBegins, Opens
    <3>2. QED
      BY <1>1, <1>2, <3>1
  <2>3. Reaches
    BY <2>1, <2>2
  <2>4. banner'.matched => Seen
    BY <1>3, <2>1, <2>2
  <2>5. QED
    BY <2>1, <2>3, <2>4
<1>6. CASE BannerEnds(l)
  <2>1. banner' = [found |-> banner.found, open |-> FALSE, delimiter |-> "none", matched |-> banner.matched]
    BY <1>6 DEF BannerEnds, BannerInv
  <2>2. QED
    BY <1>3, <2>1
<1>7. CASE BannerGoesOn(l)
  <2>1. banner' = [found |-> banner.found, open |-> banner.open, delimiter |-> banner.delimiter,
                   matched |-> banner.matched \/ l \in Matching]
    BY <1>7 DEF BannerGoesOn, BannerInv
  <2>2. PICK i \in 1..n : Shown(i, n) /\ (Arg(read[i]) = "none" \/ banner.delimiter = Arg(read[i]))
    BY <1>0, <1>1, <1>7 DEF BannerGoesOn, BannerInv
  <2>3. l # Delimiter(i)
    <3>1. l[1] = "text" => l[2] # "none"
      BY ComplianceAssumption DEF ComplianceAssumption
    <3>2. Arg(read[i]) # "none" => banner.delimiter # "none" /\ banner.delimiter = Arg(read[i])
      BY <2>2
    <3>3. ~(banner.delimiter # "none" /\ l = <<"text", banner.delimiter>>)
      BY <1>7, Zenon DEF BannerGoesOn, Delimits
    <3>4. QED
      BY <3>1, <3>2, <3>3 DEF Delimiter
  <2>4. Shown(i, n + 1)' /\ i \in 1..(n + 1) /\ n + 1 \in i..(n + 1)
        /\ Arg(read'[i]) = Arg(read[i]) /\ read'[n + 1] = l
    BY <1>1, <1>2, <2>2, <2>3
  <2>5. Reaches
    BY <2>1, <2>2, <2>4
  <2>6. banner'.matched => Seen
    BY <1>3, <2>1, <2>4
  <2>7. QED
    BY <2>1, <2>5, <2>6
<1>8. CASE BannerSkips(l)
  <2>1. banner' = banner /\ ~banner.open
    BY <1>8 DEF BannerSkips
  <2>2. QED
    BY <1>3, <2>1 DEF BannerInv
<1>9. QED
  BY <1>5, <1>6, <1>7, <1>8 DEF ReadLine, BannerLine

\* The banner rule passes only on a line of a banner: one that no delimiter stands
\* between and the line that begins it (_check_login_banner).
THEOREM BannerIsJudged == Spec => []BannerJudged
<1>1. Init => BannerInv
  <2> SUFFICES ASSUME Init PROVE BannerInv
    OBVIOUS
  <2>1. banner = [found |-> FALSE, open |-> FALSE, delimiter |-> "none", matched |-> FALSE]
    BY DEF Init
  <2>2. QED
    BY <2>1, ReadInit DEF BannerInv
<1>2. BannerInv /\ [Next]_vars => BannerInv'
  <2> SUFFICES ASSUME BannerInv, [Next]_vars PROVE BannerInv'
    OBVIOUS
  <2>1. CASE UNCHANGED vars
    <3>1. read' = read /\ banner' = banner
      BY <2>1 DEF vars
    <3>2. Read'
      BY <3>1 DEF BannerInv, Read
    <3>3. \A i, k : Shown(i, k)' <=> Shown(i, k)
      BY <3>1 DEF Shown, BannerAt, Begins, Delimiter, Kind, Arg
    <3>4. QED
      BY <3>1, <3>2, <3>3 DEF BannerInv, Arg
  <2>2. CASE Next
    BY <2>2, BannerNext DEF Next
  <2>3. QED
    BY <2>1, <2>2
<1>3. BannerInv => BannerJudged
  BY Zenon DEF BannerInv, BannerJudged, BannerPassed, Shown, BannerAt, Delimiter
<1>4. QED
  BY <1>1, <1>2, <1>3, PTL DEF Spec

=============================================================================
