----------------------------- MODULE Compliance -----------------------------
(***************************************************************************)
(* The compliance checks (compliance.py): which of its rules a configuration *)
(* passes.  The rules that depend on the section a line is in are loops that  *)
(* carry a few variables from line to line; here all of them read a           *)
(* configuration together, one line per step, and after every step the        *)
(* verdicts are those of the lines read so far.  The other rules look at the  *)
(* lines one by one.                                                        *)
(*                                                                          *)
(* A line is a pair of what the patterns for Cisco IOS find in it and its     *)
(* argument.  Patterns of other vendors, severities and the text of results   *)
(* are left out.  A negated line counts as "other", but for one that the      *)
(* code does not tell from the line it negates.                             *)
(***************************************************************************)
EXTENDS Integers, Sequences

CONSTANTS
    Lines,          \* the lines a configuration may have
    MaxLines,       \* bound: so many lines
    Interfaces,     \* the interfaces of the device, by show ip interface brief
    Addressed,      \* those with an address
    AllowedVlans,   \* allowed_vlans of the baseline
    Servers,        \* its approved_servers
    MaxMinutes,     \* its max_timeout_minutes
    Matching        \* the lines that contain its required_pattern, if only ""

ASSUME ComplianceAssumption ==
    /\ \A l \in Lines : l[1] \in STRING /\ l = <<l[1], l[2]>>
    /\ \A l \in Lines : l[1] = "exec-timeout" => l[2] \in Nat
    /\ \A l \in Lines : l[1] \in {"interface", "text"} => l[2] \in STRING \ {"none"}
    /\ MaxLines \in Nat
    /\ Interfaces \subseteq STRING \ {"none"} /\ Addressed \subseteq Interfaces
    /\ Matching \subseteq Lines
    /\ MaxMinutes \in Nat

VARIABLES
    read,           \* the lines so far
    vty,            \* the VTY block: where it began (0 outside), its timeout
    missing,        \* the blocks without a timeout, by where they began
    exceeding,      \* those whose timeout is too long
    iface,          \* the interface of the section, "none" before the first
    quietly,        \* whether it is shut down, or in an allowed VLAN
    unused,         \* violations: unused interfaces that are up
    noCdp,          \* the interfaces with CDP disabled
    noCdpRun,       \* CDP is disabled globally
    banner          \* found, whether it goes on, its delimiter, pattern seen

vtyVars == <<vty, missing, exceeding>>
ifaceVars == <<iface, quietly, unused>>
cdpVars == <<noCdp, noCdpRun>>
vars == <<read, vtyVars, ifaceVars, cdpVars, banner>>

Outside == [start |-> 0, timed |-> FALSE, minutes |-> 0]

Init ==
    /\ read = <<>>
    /\ vty = Outside /\ missing = {} /\ exceeding = {}
    /\ iface = "none" /\ quietly = FALSE /\ unused = {}
    /\ noCdp = {} /\ noCdpRun = FALSE
    /\ banner = [found |-> FALSE, open |-> FALSE, delimiter |-> "none", matched |-> FALSE]

Kind(l) == l[1]
Arg(l) == l[2]

-----------------------------------------------------------------------------
(* _check_vty_timeout.  exec-timeout is looked for within a VTY block; that  *)
(* of the console is not one of them.                                       *)

\* A section is a router, another ip or line command, or an exclamation mark.
Enders == {"interface", "ip ssh version", "section"}
Timeouts == {"exec-timeout", "no exec-timeout"}

\* Mutant: the last block is never looked at.
MissingForgotten == missing

\* The block that is open counts as the end of the lines would count it.
MissingNow == missing \cup {b \in {vty.start} : b # 0 /\ ~vty.timed}
ExceedingNow == exceeding \cup {b \in {vty.start} : b # 0 /\ vty.timed /\ vty.minutes > MaxMinutes}

FinishVty == missing' = MissingNow /\ exceeding' = ExceedingNow

VtyBegins(l) ==
    /\ Kind(l) = "line vty"
    /\ FinishVty
    /\ vty' = [Outside EXCEPT !.start = Len(read) + 1]

VtyEnds(l) ==
    /\ vty.start # 0 /\ Kind(l) \in Enders
    /\ FinishVty
    /\ vty' = Outside

\* Without a number the timeout is what it was.
VtyTimeout(l) ==
    /\ vty.start # 0 /\ Kind(l) \in Timeouts
    /\ vty' = [vty EXCEPT !.timed = TRUE,
                          !.minutes = IF Kind(l) = "exec-timeout" THEN Arg(l) ELSE @]
    /\ UNCHANGED <<missing, exceeding>>

VtySkips(l) ==
    /\ Kind(l) # "line vty"
    /\ vty.start = 0 \/ Kind(l) \notin Enders \cup Timeouts
    /\ UNCHANGED vtyVars

VtyLine(l) == VtyBegins(l) \/ VtyEnds(l) \/ VtyTimeout(l) \/ VtySkips(l)

VtyPassed == MissingNow = {} /\ ExceedingNow = {}

-----------------------------------------------------------------------------
(* _check_unused_iface_shutdown.                                            *)

\* shutdown, or an access VLAN that is allowed.
Excuses(l) == Kind(l) = "shutdown" \/ (Kind(l) = "access vlan" /\ Arg(l) \in AllowedVlans)

\* _finalize_iface
UnusedNow == unused \cup {i \in {iface} : i # "none" /\ i \notin Addressed /\ ~quietly}

\* Mutant: what was said of the last interface is kept.
IfaceBeginsQuiet(l) ==
    /\ Kind(l) = "interface"
    /\ unused' = UnusedNow
    /\ iface' = Arg(l)
    /\ UNCHANGED quietly

IfaceBegins(l) ==
    /\ Kind(l) = "interface"
    /\ unused' = UnusedNow
    /\ iface' = Arg(l) /\ quietly' = FALSE

IfaceExcused(l) ==
    /\ iface # "none" /\ Excuses(l)
    /\ quietly' = TRUE
    /\ UNCHANGED <<iface, unused>>

IfaceSkips(l) ==
    /\ Kind(l) # "interface"
    /\ iface = "none" \/ ~Excuses(l)
    /\ UNCHANGED ifaceVars

IfaceLine(l) == IfaceBegins(l) \/ IfaceExcused(l) \/ IfaceSkips(l)

UnusedPassed == UnusedNow = {}

-----------------------------------------------------------------------------
(* _check_cdp_disabled; its current_iface is that of the check above.       *)

CdpRun(l) == Kind(l) = "no cdp run" /\ noCdpRun' = TRUE /\ UNCHANGED noCdp

CdpEnable(l) ==
    /\ Kind(l) = "no cdp enable" /\ iface # "none"
    /\ noCdp' = noCdp \cup {iface}
    /\ UNCHANGED noCdpRun

CdpSkips(l) ==
    /\ Kind(l) # "no cdp run"
    /\ Kind(l) # "no cdp enable" \/ iface = "none"
    /\ UNCHANGED cdpVars

CdpLine(l) == CdpRun(l) \/ CdpEnable(l) \/ CdpSkips(l)

\* Mutant: one interface with CDP disabled is enough.
CdpPassedOnce == noCdpRun \/ Interfaces \cap noCdp # {}

\* Without interface data nothing proves that CDP is off.
CdpPassed == noCdpRun \/ (Interfaces # {} /\ Interfaces \subseteq noCdp)

-----------------------------------------------------------------------------
(* _check_login_banner.                                                     *)

\* A line holds the delimiter of the banner that is open.
Delimits(l) == banner.delimiter # "none" /\ l = <<"text", banner.delimiter>>

\* Mutant: what comes after the delimiter is read as well.
BannerEndsNever(l) ==
    /\ Kind(l) # "banner login" /\ banner.open /\ Delimits(l)
    /\ banner' = [banner EXCEPT !.delimiter = "none"]

BannerBegins(l) ==
    /\ Kind(l) = "banner login"
    /\ banner' = [found |-> TRUE, open |-> TRUE,
                  delimiter |-> IF Arg(l) # "none" THEN Arg(l) ELSE banner.delimiter,
                  matched |-> banner.matched \/ l \in Matching]

BannerEnds(l) ==
    /\ Kind(l) # "banner login" /\ banner.open /\ Delimits(l)
    /\ banner' = [banner EXCEPT !.open = FALSE, !.delimiter = "none"]

BannerGoesOn(l) ==
    /\ Kind(l) # "banner login" /\ banner.open /\ ~Delimits(l)
    /\ banner' = [banner EXCEPT !.matched = @ \/ l \in Matching]

BannerSkips(l) ==
    /\ Kind(l) # "banner login" /\ ~banner.open
    /\ UNCHANGED banner

BannerLine(l) == BannerBegins(l) \/ BannerEnds(l) \/ BannerGoesOn(l) \/ BannerSkips(l)

BannerPassed == banner.found /\ banner.matched

-----------------------------------------------------------------------------
(* The rules that look at single lines, and run_checks.                     *)

\* The arguments of the lines of a kind.
Found(kind) == {Arg(read[i]) : i \in {j \in DOMAIN read : Kind(read[j]) = kind}}

\* Mutant: one port in an allowed VLAN is enough.
PortsPassedOnce == Found("access vlan") = {} \/ Found("access vlan") \cap AllowedVlans # {}

\* "none": the line is incomplete.
SshPassed == Found("ip ssh version") = {"2"}
PortsPassed == Found("access vlan") \subseteq AllowedVlans \cup {"none"}
ServersPassed(kind) == Found(kind) # {} /\ Found(kind) \subseteq Servers
SnmpPassed == Found("snmp-server community") = {}
AaaPassed == Found("aaa new-model") # {} /\ Found("aaa authentication login default") # {}
PasswordPassed == Found("service password-encryption") # {}

\* _RULE_DISPATCH
Passed == [ssh_v2_only |-> SshPassed, no_open_ports |-> PortsPassed,
           ntp_approved |-> ServersPassed("ntp server"),
           syslog_approved |-> ServersPassed("logging host"),
           snmp_v3_only |-> SnmpPassed, unused_iface_shutdown |-> UnusedPassed,
           vty_timeout |-> VtyPassed, aaa_auth |-> AaaPassed,
           password_encryption |-> PasswordPassed, cdp_disabled |-> CdpPassed,
           login_banner |-> BannerPassed]

\* A check of the baseline whose rule nobody knows has failed.
Results(checks) == [c \in DOMAIN checks |-> checks[c] \in DOMAIN Passed /\ Passed[checks[c]]]

-----------------------------------------------------------------------------
ReadLine(l) ==
    /\ Len(read) < MaxLines
    /\ read' = Append(read, l)
    /\ VtyLine(l) /\ IfaceLine(l) /\ CdpLine(l) /\ BannerLine(l)

Next == \E l \in Lines : ReadLine(l)

Spec == Init /\ [][Next]_vars

-----------------------------------------------------------------------------
(* Properties.  The lines of a block are those between the line that begins  *)
(* it and the first that ends it.                                           *)

Begins(i, kind) == Kind(read[i]) = kind

Block(i, ends) ==
    {k \in (i + 1)..Len(read) : \A j \in (i + 1)..k : Kind(read[j]) \notin ends}

VtyBlock(i) == Block(i, Enders \cup {"line vty"})

\* The lines that stand for themselves or begin a section of their own: the section
\* of an interface is over, although the loops go on to the next interface.
TopLevel ==
    Enders \cup {"line vty", "banner login", "no cdp run", "ntp server", "logging host",
                "snmp-server community", "aaa new-model", "aaa authentication login default",
                "service password-encryption"}

IfaceBlock(i) == Block(i, TopLevel)

\* Line k is in the section of some interface.
Placed(k) == \E i \in DOMAIN read : Begins(i, "interface") /\ k \in IfaceBlock(i)

\* Nothing that excuses an interface stands outside the section of one.
ExcusesPlaced == \A k \in DOMAIN read : Excuses(read[k]) => Placed(k)

\* The last timeout of the block with a number, if any, is within the limit.
WithinLimit(B) ==
    \A k \in B : Kind(read[k]) = "exec-timeout"
                 /\ (\A m \in B : Kind(read[m]) = "exec-timeout" => m <= k)
                    => Arg(read[k]) <= MaxMinutes

\* The VTY rule passes a configuration exactly if each VTY block, the last one
\* included and no line of another section counted, has a timeout and the last it
\* has is within the limit ("all VTY line blocks", "do not absorb
\* console/aux/global exec-timeout").
VtyJudged ==
    VtyPassed <=>
        \A i \in DOMAIN read : Begins(i, "line vty") =>
            /\ \E k \in VtyBlock(i) : Kind(read[k]) \in Timeouts
            /\ WithinLimit(VtyBlock(i))

\* An interface it reports has no address, and its own lines neither shut it down nor
\* put it in an allowed VLAN; and it reports all of these ("All other interfaces must
\* have 'shutdown' configured") unless such a line stands in a section of another kind.
UnusedJudged ==
    LET Idle == {Arg(read[i]) : i \in
                   {j \in DOMAIN read : /\ Begins(j, "interface")
                                        /\ Arg(read[j]) \notin Addressed
                                        /\ \A k \in IfaceBlock(j) : ~Excuses(read[k])}}
    IN  UnusedNow \subseteq Idle /\ (ExcusesPlaced => UnusedNow = Idle)

\* A configuration that passes this rule and that of the VLANs leaves no port
\* open: an interface without an address is shut down, or its access VLANs are
\* all allowed, whichever of its lines comes first.  Neither rule says so alone, and
\* nothing says so of a configuration with such lines in sections of another kind.
NoOpenPort ==
    UnusedPassed /\ PortsPassed /\ ExcusesPlaced =>
        \A i \in DOMAIN read : Begins(i, "interface") /\ Arg(read[i]) \notin Addressed =>
            \/ \E k \in IfaceBlock(i) : Kind(read[k]) = "shutdown"
            \/ /\ \E k \in IfaceBlock(i) : Kind(read[k]) = "access vlan"
               /\ \A k \in IfaceBlock(i) :
                     Kind(read[k]) = "access vlan" => Arg(read[k]) \in AllowedVlans \cup {"none"}

\* CDP counts as disabled if it is globally, or on every interface the device has, in
\* the interface's own lines; and only then ("cannot prove CDP off": not without
\* interfaces), unless a line that disables it stands in a section of another kind.
CdpJudged ==
    LET Off == \/ Found("no cdp run") # {}
               \/ /\ Interfaces # {}
                  /\ \A n \in Interfaces : \E i \in DOMAIN read :
                        /\ read[i] = <<"interface", n>>
                        /\ \E k \in IfaceBlock(i) : Kind(read[k]) = "no cdp enable"
    IN  /\ Off => CdpPassed
        /\ (\A k \in DOMAIN read : Kind(read[k]) = "no cdp enable" => Placed(k))
              => (CdpPassed => Off)

\* The banner rule passes only on a line that belongs to a banner, and a banner
\* begins before it and its delimiter does not stand between them.
BannerJudged ==
    BannerPassed =>
        \E i \in DOMAIN read : \E k \in i..Len(read) :
            /\ Begins(i, "banner login")
            /\ read[k] \in Matching
            /\ \A j \in (i + 1)..k :
                  read[j] = <<"text", Arg(read[i])>> =>
                      \E m \in (i + 1)..j : Begins(m, "banner login")

\* A VTY block whose timeout is disabled does not pass ("all VTY line blocks have
\* exec-timeout within the allowed limit").  Violated: no exec-timeout is found
\* to be one, of 0 minutes.
DisabledTimeoutFails ==
    VtyPassed =>
        \A i \in DOMAIN read : Begins(i, "line vty") =>
            \A k \in VtyBlock(i) : Kind(read[k]) # "no exec-timeout"

=============================================================================
