--------------------------- MODULE RunningConfig ----------------------------
(***************************************************************************)
(* What the enabled mode shows of the interfaces that Switchports          *)
(* configures: the switchport lines of `show running-config`, and the      *)
(* vlan pages.  The client of the switch reads a configuration from one    *)
(* of these commands and types it into another switch, or compares it with *)
(* what it typed, so the lines must stand for the configuration they were  *)
(* made from, and the commands must tell the same.                         *)
(*                                                                         *)
(* A line is a command with the vlans, mode or aggregate it names.  How it *)
(* is spelled is left out.                                                 *)
(***************************************************************************)
EXTENDS Switchports, SequencesExt

CONSTANT TextBefore  \* TextBefore[n]: the numbers whose digits sort before those of n

ASSUME RunningConfigAssumption ==
    /\ IsFiniteSet(Numbers)
    /\ TextBefore \in [Numbers -> SUBSET Numbers]
    /\ \A m, n \in Numbers : m # n => (m \in TextBefore[n] <=> n \notin TextBefore[m])

\* A line that is not shown does nothing where it would be typed.
Line(shown, command, argument) ==
    [command |-> IF shown THEN command ELSE "nothing", argument |-> argument]

\* len(trunk_vlans).  Numbers stands for all vlans that a list may hold.
ListLength(trunk) == FoldFunction(+, 0, trunk)

Lists(r, n) == r.trunk # NoValue /\ r.trunk[n] > 0

\* "if port.trunk_vlans": there is a list, and it is not empty.
ListsSome(r) == r.trunk \notin {NoValue, NoneListed}
-----------------------------------------------------------------------------
(***************************************************************************)
(* The lines of an interface, in their order.                              *)
(***************************************************************************)

\* get_port_configuration: the membership in an aggregate is not shown.
ModeLine(r) == Line(r.mode \notin {NoValue, "access"}, "mode", r.mode)

AccessLine(r) == Line(r.access # NoValue, "access_vlan", r.access)

NativeLine(r) == Line(r.native # NoValue, "native_vlan", r.native)

AllowedLine(r) ==
    Line(ListsSome(r),
         IF vendor = "dell10g" /\ r.mode # "general" THEN "allowed_vlan" ELSE "allowed_vlan_add",
         r.trunk)

\* Mutant: the mode is shown last.
DellShownModeLast(r) == <<AccessLine(r), NativeLine(r), AllowedLine(r), ModeLine(r)>>

DellShown(r) == <<ModeLine(r), AccessLine(r), NativeLine(r), AllowedLine(r)>>

\* build_running_interface: a list of all vlans is not shown.
CiscoShown(r) ==
    <<Line(r.access \notin {NoValue, 1}, "access_vlan", r.access),
      NativeLine(r),
      Line(r.trunk # NoValue /\ ListLength(r.trunk) < Cardinality(Numbers),
           "allowed_vlan", r.trunk),
      Line(r.mode # NoValue, "mode", r.mode),
      Line(r.group # NoValue, "channel_group", r.group)>>

\* _show_run_interfaces
AristaShown(r) ==
    <<Line(r.trunk # NoValue, "allowed_vlan", r.trunk), Line(r.mode # NoValue, "mode", r.mode)>>

\* show_run_vlan: the untagged interfaces of a vlan, and the tagged ones.
UntaggedIn(r, n) ==
    \/ n = 1 /\ r.access = NoValue /\ r.native = NoValue
    \/ n \in {r.access, r.native}

UntaggedMembers(n) == {o \in Names(ports) : o.kind # "ve" /\ UntaggedIn(port[o], n)}

TaggedMembers(n) == {o \in Names(ports) : Lists(port[o], n)}

\* A vlan shows all of them in one line, `untagged ethe 1/1 to 1/2`.
MembersLine(command, n, members) == [command |-> command, vlan |-> n, members |-> members]

ShownInVlan(n) ==
    <<MembersLine(IF n = 1 THEN "no_untagged" ELSE "untagged", n, UntaggedMembers(n)),
      MembersLine("tagged", n, TaggedMembers(n))>>

ListedVlans == {n \in Numbers : HasVlan(n)}

\* The makes that show the lines of an interface together.
Shown(r) ==
    CASE vendor = "cisco"              -> CiscoShown(r)
      [] vendor \in {"dell", "dell10g"} -> DellShown(r)
      [] vendor = "arista"             -> AristaShown(r)
-----------------------------------------------------------------------------
(***************************************************************************)
(* The lines typed into the mode of an interface that has nothing          *)
(* configured, on a switch with the same vlans.                            *)
(***************************************************************************)
\* group_sequences: a list is shown as the runs of consecutive numbers in it, by
\* their ends.  Dell and Arista show a range for two numbers, Cisco for three.
RunsOf(S) ==
    {run \in S \X S : /\ run[1] <= run[2] /\ run[1]..run[2] \subseteq S
                      /\ run[1] - 1 \notin S /\ run[2] + 1 \notin S}

RangesOf(S) == {run \in RunsOf(S) : run[2] - run[1] >= IF vendor = "cisco" THEN 2 ELSE 1}

\* parse_vlan_list of Dell, which Arista uses, compares the ends of a range as
\* text, and raises.
Parses(S) ==
    vendor = "cisco" \/ \A range \in RangesOf(S) : range[2] \notin TextBefore[range[1]]

Accepts(n) == vendor = "cisco" \/ HasVlan(n)

ListedIn(counts) == {n \in Numbers : counts[n] > 0}

TypedOnBrocade(r, command, n) ==
    CASE command = "tagged"   -> WithTagged(r, n)
      [] command = "untagged" -> IF r.trunk = NoValue THEN [r EXCEPT !.access = n]
                                                      ELSE [r EXCEPT !.native = n]
      [] command = "no_untagged" ->
            IF n \notin {r.access, r.native} THEN r
            ELSE IF r.trunk = NoValue THEN [r EXCEPT !.access = NoValue]
                                      ELSE [r EXCEPT !.native = NoValue]

\* What the command leaves the interface with; a vlan that is refused changes nothing.
Entered(r, command, x) ==
    CASE command = "nothing" -> r
      [] command = "mode" -> IF vendor = "dell" THEN WithMode(r, x)
                                                ELSE [r EXCEPT !.mode = x]
      [] command = "access_vlan" ->
            IF Accepts(x) THEN [r EXCEPT !.access = x] ELSE r
      [] command = "native_vlan" ->
            IF Accepts(x) /\ (vendor = "dell" => r.mode = "general")
            THEN [r EXCEPT !.native = x] ELSE r
      [] command = "allowed_vlan" ->
            IF Parses(ListedIn(x)) THEN [r EXCEPT !.trunk = x] ELSE r
      [] command = "allowed_vlan_add" ->
            IF /\ Parses(ListedIn(x))
               /\ \A n \in ListedIn(x) : HasVlan(n)
               /\ vendor = "dell" => r.mode \in {"trunk", "general"}
            THEN WithMore(r, ListedIn(x)) ELSE r
      [] command = "channel_group" -> [r EXCEPT !.group = x]
      [] OTHER -> TypedOnBrocade(r, command, x)

Typed(r, line) == Entered(r, line.command, line.argument)

TypedAll(r, lines) == FoldLeft(Typed, r, lines)

\* do_untagged, do_no_untagged and do_tagged take the text for the name of one
\* port: they refuse a line of several.  A line of no port is not shown.
ForPort(o, line) == Line(line.members = {o}, line.command, line.vlan)

\* What the lines of vlan n leave of an interface that had r.
VlanTyped(o, r, n) == TypedAll(r, <<ForPort(o, ShownInVlan(n)[1]), ForPort(o, ShownInVlan(n)[2])>>)

ReplayedAlone(r) == TypedAll(ResetPort, Shown(r))

\* Brocade shows an interface in its vlans, by their number.
Replayed(o) ==
    IF vendor = "brocade"
    THEN MapThenFoldSet(LAMBDA n, acc : VlanTyped(o, acc, n), ResetPort,
                        LAMBDA n : n, LAMBDA S : Max(S), ListedVlans)
    ELSE ReplayedAlone(port[o])
-----------------------------------------------------------------------------
(***************************************************************************)
(* The vlan pages: show vlan, show vlan N, show vlan brief,                *)
(* show vlan ethernet and show interfaces.                                 *)
(***************************************************************************)

\* Brocade's get_interface_ports_for: an untagged port is not looked up as tagged.
UntaggedOnPage(r, n) == n \in {r.access, r.native}

TaggedOnPage(r, n) == n \notin {r.access, r.native} /\ Lists(r, n)

\* The vlan pages of the other makes: Dell's get_ports_for_vlan, Cisco's do_show vlan.
OnPage(r, n) ==
    IF vendor = "cisco" THEN r.access = n \/ (n = 1 /\ r.access = NoValue)
                        ELSE r.access = n \/ Lists(r, n)

\* Mutant: Brocade's show vlan ethernet looks at the access vlan only.
UntaggedOfPortAccess(r) ==
    IF r.access = NoValue /\ r.trunk = NoValue THEN {1} ELSE {r.access} \ {NoValue}

\* Brocade's show_vlan_int: the vlan that it calls untagged, if it names one.
UntaggedOfPort(r) ==
    LET untagged == IF r.access # NoValue THEN {r.access} ELSE {r.native} \ {NoValue, 1}
    IN IF untagged = {} /\ r.trunk = NoValue THEN {1} ELSE untagged

\* Brocade's vlan_membership, of show interfaces.
MemberOf(r) ==
    IF r.access # NoValue THEN {r.access}
    ELSE IF r.trunk # NoValue THEN {r.native} \ {NoValue}
    ELSE {1}

\* Brocade's show_vlan_brief
OnBrief(r, n) == r.access = n \/ (n = 1 /\ r.access = NoValue)
-----------------------------------------------------------------------------
(***************************************************************************)
(* What the lines cannot stand for.                                        *)
(***************************************************************************)

\* A Cisco list that is as long as that of all vlans though it lacks one: a
\* vlan was taken off and another one added twice.  It is not shown, and that
\* no list is shown means that all vlans are allowed.
Hidden(r) ==
    vendor = "cisco" /\ r.trunk # NoValue /\ ~(ListLength(r.trunk) < Cardinality(Numbers))

\* A range that the same switch takes for one that runs backwards, as 9-10.
Backwards(r) == r.trunk # NoValue /\ ~Parses(ListedIn(r.trunk))

\* Dell 10G's `allowed vlan none` is not shown.
NoneHidden(r) == vendor = "dell10g" /\ r.trunk = NoneListed

\* Dell refuses a vlan that was removed, and Brocade does not show it.
NamesRemoved(r) ==
    /\ vendor \in {"dell", "dell10g", "brocade"}
    /\ \E n \in Numbers \ ListedVlans : n \in {r.access, r.native} \/ Lists(r, n)

\* Brocade: a native vlan that `no vlan` left when it took the last tagged vlan,
\* and a trunk without a native vlan, which `untagged` in vlan 1 is the default of.
NativeLeft(r) == vendor = "brocade" /\ r.trunk = NoValue /\ r.native # NoValue

NativeMissing(r) == vendor = "brocade" /\ r.trunk # NoValue /\ r.native = NoValue

\* Brocade: a line that another interface is in as well.  `no untagged` of vlan 1
\* does nothing to a new port, so it does not count.
SharesLine(o) ==
    /\ vendor = "brocade"
    /\ \E n \in ListedVlans :
          \/ n # 1 /\ o \in UntaggedMembers(n) /\ UntaggedMembers(n) # {o}
          \/ o \in TaggedMembers(n) /\ TaggedMembers(n) # {o}

Lossy(r) ==
    \/ Hidden(r) \/ NoneHidden(r) \/ Backwards(r)
    \/ NamesRemoved(r) \/ NativeLeft(r) \/ NativeMissing(r)

\* No list is all vlans, but none on Dell and Brocade; no access vlan is vlan
\* 1; Dell's default mode is access.
Allowed(r) ==
    IF r.trunk # NoValue THEN ListedIn(r.trunk)
    ELSE IF vendor \in {"dell", "brocade"} THEN {} ELSE Numbers

Untagging(r) == IF r.access = NoValue THEN 1 ELSE r.access

ModeOf(r) == IF vendor \in {"dell", "dell10g"} /\ r.mode = NoValue THEN "access" ELSE r.mode

SameSwitchport(a, b) ==
    /\ Allowed(a) = Allowed(b)
    /\ Untagging(a) = Untagging(b)
    /\ ModeOf(a) = ModeOf(b)
    /\ a.native = b.native
    /\ vendor = "cisco" => a.group = b.group
-----------------------------------------------------------------------------
Switched == {o \in Names(ports) : o.kind # "ve" /\ ~Lossy(port[o])}

\* However an interface came to its configuration, the lines that the switch
\* shows for it, typed one after the other into a new interface of a switch
\* with the same vlans, configure the same: none is refused, and none undoes
\* what the lines before it did (Dell's mode resets the vlans, Brocade's first
\* tagged vlan moves the untagged one).  Lossy and SharesLine name the
\* exceptions.
RunningConfigReplays ==
    \A o \in Switched : ~SharesLine(o) => SameSwitchport(Replayed(o), port[o])

\* What the commands of Brocade make of the vlan that show interfaces calls untagged.
PagesTell(r, n) ==
    LET member     == n \in MemberOf(r)
        unassigned == r.access = NoValue /\ r.trunk = NoValue
    IN /\ UntaggedIn(r, n) <=> member
       /\ UntaggedOnPage(r, n) <=> member /\ ~unassigned
       /\ n \in UntaggedOfPort(r) <=> member /\ r.native # 1
       /\ OnBrief(r, n) <=> IF r.trunk = NoValue THEN member ELSE n = 1
       /\ TaggedOnPage(r, n) <=> Lists(r, n) /\ ~member

\* The commands tell the same of an interface.  On Brocade it is an untagged
\* member of one vlan at most, which show interfaces, show running-config vlan,
\* show vlan N, show vlan ethernet and show vlan brief each compute anew; they
\* agree on it, and on the tagged ones, but for vlan 1: show vlan 1 leaves out
\* an interface that has no vlan configured, show vlan ethernet leaves out a
\* native vlan 1, and show vlan brief has every trunk in vlan 1.  On Cisco and
\* Dell the page of a vlan has the interfaces that its running configuration
\* puts there.
PagesAgree ==
    \A o \in Switched :
        IF vendor = "brocade"
        THEN /\ Cardinality(MemberOf(port[o])) <= 1
             /\ \A n \in ListedVlans : PagesTell(port[o], n)
        ELSE vendor # "arista" =>
             \A n \in ListedVlans : OnPage(port[o], n) <=> OnPage(Replayed(o), n)

\* "VLAN range - separate non-consecutive IDs with ',' and no spaces.  Use '-'
\* for range.": the ranges that a switch shows are ranges that it takes.
ShownRangesParse == \A o \in Names(ports) : ListsSome(port[o]) => Parses(ListedIn(port[o].trunk))
=============================================================================
