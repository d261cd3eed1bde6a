---------------------------- MODULE Switchports -----------------------------
(***************************************************************************)
(* The vlans and interfaces of one CLI switch (Brocade, Cisco, Dell,       *)
(* Dell 10G or Arista), configured by several sessions at once through the *)
(* command processors config, config_vlan and config_interface.            *)
(*                                                                         *)
(* The switch configuration is one object that all sessions share.  A      *)
(* session in the mode of a vlan or of an interface holds that object      *)
(* itself, so it still works on it when another session has removed it:    *)
(* `live` tells whether the configuration still lists it.  What is written *)
(* to an object that no list holds is seen by nobody; what is written      *)
(* through its number is.                                                  *)
(***************************************************************************)
EXTENDS Naturals, OrderedNames

CONSTANTS
    Sessions,
    Uses,       \* what the clients may do with which switch, a set of Use
    Numbers,    \* vlan, port-channel and ve numbers that are used
    Physical,   \* the numbers of the physical ports
    InitialPorts,  \* the ports the switch is built with, in their order
    EndsWith,   \* EndsWith[n]: the numbers whose digits end with those of n
    MaxCopies,  \* bound on how often a list holds one vlan
    NoValue     \* None

\* The interfaces: vlan is the vlan_id of a VlanPort.  Brocade's ve k belongs
\* to any vlan; elsewhere the interface is named after its vlan.
Object == [kind : {"port"}, number : Physical, vlan : {NoValue}]
            \cup [kind : {"channel"}, number : Numbers, vlan : {NoValue}]
            \cup {[kind |-> "vlan", number |-> n, vlan |-> n] : n \in Numbers}
            \cup [kind : {"ve"}, number : Numbers, vlan : Numbers]

\* What is typed.
Name == [kind : {"port", "channel", "vlan", "ve"}, number : Numbers]

NameOf(o) == [kind |-> o.kind, number |-> o.number]

Vendors == {"brocade", "cisco", "dell", "dell10g", "arista"}

\* A bound: the names that are typed, and those of the interfaces that are configured.
Use == [vendor : Vendors, names : SUBSET Name, edited : SUBSET Name]

ASSUME SwitchportsAssumption ==
    /\ Uses \subseteq Use
    /\ Numbers \subseteq Nat \ {0}
    /\ 1 \in Numbers
    /\ Physical \subseteq Numbers
    /\ EndsWith \in [Numbers -> SUBSET Numbers]
    /\ \A n \in Numbers : n \in EndsWith[n]
    /\ MaxCopies \in Nat \ {0}
    /\ NoValue \notin Nat \cup [Numbers -> Nat] \cup Object
    /\ NoValue \notin {"access", "trunk", "general"}
    /\ IsNameList(InitialPorts, Object)
    /\ \A o \in Names(InitialPorts) : o.kind = "port"

VARIABLES
    use,     \* the make of the switch, and what its clients do
    vlans,   \* vlans[n]: how many Vlan objects with number n are listed
    ports,   \* the listed interfaces, in their order
    port,    \* port[o]: what interface o has configured
    at       \* at[s]: the mode session s is in and the object it holds

vars == <<use, vlans, ports, port, at>>

vendor == use.vendor

Family == {"cisco", "dell", "dell10g"}  \* those that share cisco/config.py

\* trunk maps each vlan to how often trunk_vlans lists it; group is
\* aggregation_membership; touched stands for the attributes that only show
\* commands read (description, shutdown, mtu, lldp, spanning tree, ...).
Port == [mode    : {NoValue, "access", "trunk", "general"},
         access  : Numbers \cup {NoValue},
         native  : Numbers \cup {NoValue},
         trunk   : [Numbers -> Nat] \cup {NoValue},
         group   : Numbers \cup {NoValue},
         touched : BOOLEAN]

ResetPort == [mode |-> NoValue, access |-> NoValue, native |-> NoValue,
              trunk |-> NoValue, group |-> NoValue, touched |-> FALSE]

Place == [mode : {"config", "vlan", "interface"}, vlan : Numbers \cup {NoValue},
          port : Object \cup {NoValue}, live : BOOLEAN]

Config == [mode |-> "config", vlan |-> NoValue, port |-> NoValue, live |-> TRUE]

InVlan(n) == [Config EXCEPT !.mode = "vlan", !.vlan = n]

InInterface(o) == [Config EXCEPT !.mode = "interface", !.port = o]

Init ==
    /\ use \in Uses
    /\ vlans = [n \in Numbers |-> IF n = 1 THEN 1 ELSE 0]
    /\ ports = InitialPorts
    /\ port = [o \in Object |-> ResetPort]
    /\ at = [s \in Sessions |-> Config]

TypeOK ==
    /\ use \in Uses
    /\ vlans \in [Numbers -> Nat]
    /\ IsNameList(ports, Object)
    /\ port \in [Object -> Port]
    /\ at \in [Sessions -> Place]
-----------------------------------------------------------------------------
(***************************************************************************)
(* switch_configuration.py.                                                *)
(***************************************************************************)

\* get_port_by_partial_name, of a full name: the letters agree, and the digits
\* of the interface end with those typed.
Matching(name) == {o \in Object : o.kind = name.kind /\ o.number \in EndsWith[name.number]}

\* The ports that a switch is built with find each their own name first.
ASSUME InitialPortsAssumption ==
    \A o \in Names(InitialPorts) : FirstOf(InitialPorts, Matching(NameOf(o))) = o

\* Mutant: an interface is created unless its own name is listed.
ExistsItself(name) == \E o \in Names(ports) : NameOf(o) = name

Exists(name) == HoldsOneOf(ports, Matching(name))

Found(name) == FirstOf(ports, Matching(name))

HasVlan(n) == vlans[n] > 0

\* The interfaces of vlan n, and the one that Brocade finds, if there is one.
VlanPortsOf(n) == {o \in Object : o.vlan = n}

BoundVe(n) ==
    IF HoldsOneOf(ports, VlanPortsOf(n)) THEN {FirstOf(ports, VlanPortsOf(n))} ELSE {}

\* The sessions in the mode of an object that was removed hold on to it.
LoseVlan(places, n) ==
    [s \in Sessions |-> IF places[s].mode = "vlan" /\ places[s].vlan = n
                        THEN [places[s] EXCEPT !.live = FALSE] ELSE places[s]]

LosePorts(places, gone) ==
    [s \in Sessions |-> IF places[s].mode = "interface" /\ places[s].port \in gone
                        THEN [places[s] EXCEPT !.live = FALSE] ELSE places[s]]

AddPort(o) ==
    /\ ports' = AddName(ports, o)
    /\ port' = [port EXCEPT ![o] = ResetPort]

RemovePort(o) ==
    /\ ports' = RemoveName(ports, o)
    /\ port' = [port EXCEPT ![o] = ResetPort]
    /\ at' = LosePorts(at, {o})

\* How often each vlan is listed after some were listed once more, or once less.
Listed(S) == [n \in Numbers |-> IF n \in S THEN 1 ELSE 0]

Appended(trunk, S) == [n \in Numbers |-> IF n \in S THEN trunk[n] + 1 ELSE trunk[n]]

Merged(trunk, S) == [n \in Numbers |-> IF n \in S \/ trunk[n] > 0 THEN 1 ELSE 0]

\* Mutant: a vlan that is not listed is taken off the list.
RemovedUnlisted(trunk, S) == [n \in Numbers |-> IF n \in S THEN trunk[n] - 1 ELSE trunk[n]]

Removed(trunk, S) == [n \in Numbers |-> IF n \in S /\ trunk[n] > 0 THEN trunk[n] - 1 ELSE trunk[n]]

NoneListed == Listed({})

\* An empty list is replaced by None.
OrNone(trunk) == IF trunk = NoneListed THEN NoValue ELSE trunk

Bounded(trunk) == trunk # NoValue => \A n \in Numbers : trunk[n] <= MaxCopies
-----------------------------------------------------------------------------
(***************************************************************************)
(* Commands of the config mode.  A mode leaves what it does not know to    *)
(* its parent, so they may be typed in every mode.                         *)
(***************************************************************************)

\* vlan N: the vlan is found or created, and entered.
Vlan(s, n) ==
    /\ vendor # "dell"
    /\ vlans' = [vlans EXCEPT ![n] = IF HasVlan(n) THEN @ ELSE 1]
    /\ at' = [at EXCEPT ![s] = InVlan(n)]
    /\ UNCHANGED <<use, ports, port>>

\* vlan database: Dell's mode for vlans holds none of them.
VlanDatabase(s) ==
    /\ vendor = "dell"
    /\ at' = [at EXCEPT ![s] = [Config EXCEPT !.mode = "vlan"]]
    /\ UNCHANGED <<use, vlans, ports, port>>

\* vlan N in that mode does not look whether there is one.
DatabaseVlan(s, n) ==
    /\ vendor = "dell" /\ at[s].mode = "vlan"
    /\ vlans[n] < MaxCopies
    /\ vlans' = [vlans EXCEPT ![n] = @ + 1]
    /\ UNCHANGED <<use, ports, port, at>>

\* Mutant: the tagged members keep the vlan.
WithoutVlanTagged(r, n) ==
    IF r.trunk = NoValue
    THEN [r EXCEPT !.access = IF @ = n THEN NoValue ELSE @]
    ELSE [r EXCEPT !.native = IF @ = n THEN NoValue ELSE @]

\* Brocade: what an interface is left with when vlan n goes.
WithoutVlan(r, n) ==
    IF r.trunk = NoValue
    THEN [r EXCEPT !.access = IF @ = n THEN NoValue ELSE @]
    ELSE [r EXCEPT !.native = IF @ = n THEN NoValue ELSE @,
                   !.trunk = IF @[n] > 0 THEN OrNone(Removed(@, {n})) ELSE @]

\* no vlan N: the other makes leave the interfaces as they are.
NoVlan(s, n) ==
    /\ HasVlan(n)
    /\ vlans' = [vlans EXCEPT ![n] = @ - 1]
    /\ \/ /\ vendor # "brocade"
          /\ at' = LoseVlan(at, n)
          /\ UNCHANGED <<ports, port>>
       \/ /\ vendor = "brocade"
          /\ ports' = KeepNames(ports, Object \ BoundVe(n))
          /\ port' = [o \in Object |-> IF o \in Names(ports')
                                        THEN WithoutVlan(port[o], n) ELSE ResetPort]
          /\ at' = LosePorts(LoseVlan(at, n), BoundVe(n))
    /\ UNCHANGED use

\* interface NAME, when a lookup finds one.
Interface(s, name) ==
    /\ Exists(name)
    /\ vendor \in {"dell", "dell10g"} /\ name.kind = "vlan" => HasVlan(name.number)
    /\ at' = [at EXCEPT ![s] = InInterface(Found(name))]
    /\ UNCHANGED <<use, vlans, ports, port>>

\* interface NAME creates vlan interfaces and port-channels.
NewInterface(s, name) ==
    /\ ~Exists(name)
    /\ \/ name.kind = "vlan" /\ vendor \in {"cisco", "arista"}
       \/ name.kind = "vlan" /\ vendor \in {"dell", "dell10g"} /\ HasVlan(name.number)
       \/ name.kind = "channel" /\ vendor \in Family
    /\ LET o == [kind |-> name.kind, number |-> name.number,
                 vlan |-> IF name.kind = "vlan" THEN name.number ELSE NoValue]
       IN /\ AddPort(o)
          /\ at' = [at EXCEPT ![s] = InInterface(o)]
    /\ UNCHANGED <<use, vlans>>

\* no interface NAME of the Cisco family, and Dell's backdoor: a physical port stays.
NoInterface(s, name) ==
    /\ vendor \in Family
    /\ Exists(name)
    /\ name.kind # "port"
    /\ RemovePort(Found(name))
    /\ UNCHANGED <<use, vlans>>

\* Arista removes any interface, and the session leaves the mode it is in.
AristaNoInterface(s, name) ==
    /\ vendor = "arista"
    /\ \/ /\ Exists(name)
          /\ ports' = RemoveName(ports, Found(name))
          /\ port' = [port EXCEPT ![Found(name)] = ResetPort]
          /\ at' = [LosePorts(at, {Found(name)}) EXCEPT ![s] = Config]
       \/ /\ ~Exists(name)
          /\ at' = [at EXCEPT ![s] = Config]
          /\ UNCHANGED <<ports, port>>
    /\ UNCHANGED <<use, vlans>>

\* Brocade resets a port but for its vlans, and replaces a virtual interface by
\* a new one at the end of the list.
BrocadeNoInterface(s, name) ==
    /\ vendor = "brocade"
    /\ Exists(name)
    /\ \/ /\ name.kind = "port"
          /\ port' = [port EXCEPT ![Found(name)] =
                        [ResetPort EXCEPT !.trunk = port[Found(name)].trunk,
                                          !.access = port[Found(name)].access,
                                          !.native = port[Found(name)].native]]
          /\ UNCHANGED <<ports, at>>
       \/ /\ name.kind = "ve"
          /\ ports' = AddName(RemoveName(ports, Found(name)), Found(name))
          /\ port' = [port EXCEPT ![Found(name)] = ResetPort]
          /\ at' = LosePorts(at, {Found(name)})
    /\ UNCHANGED <<use, vlans>>

\* default interface NAME
DefaultInterface(s, name) ==
    /\ vendor \in Family
    /\ Exists(name)
    /\ port' = [port EXCEPT ![Found(name)] = ResetPort]
    /\ UNCHANGED <<use, vlans, ports, at>>

\* exit; a command that raises, or the end of the connection, leaves as well.
Leave(s) ==
    /\ at[s] # Config
    /\ at' = [at EXCEPT ![s] = Config]
    /\ UNCHANGED <<use, vlans, ports, port>>
-----------------------------------------------------------------------------
(***************************************************************************)
(* Brocade: config_vlan.py.  The members of a vlan are configured from the *)
(* vlan, by its number, whether or not it is still listed.                 *)
(***************************************************************************)
BrocadeMember(s, name) ==
    /\ vendor = "brocade" /\ at[s].mode = "vlan"
    /\ Exists(name)
    /\ UNCHANGED <<use, vlans, ports, at>>

Untagged(s, name) ==
    /\ BrocadeMember(s, name)
    /\ port' = [port EXCEPT ![Found(name)] =
                  IF @.trunk = NoValue THEN [@ EXCEPT !.access = at[s].vlan]
                                       ELSE [@ EXCEPT !.native = at[s].vlan]]

NoUntagged(s, name) ==
    /\ BrocadeMember(s, name)
    /\ at[s].vlan \in {port[Found(name)].access, port[Found(name)].native}
    /\ port' = [port EXCEPT ![Found(name)] =
                  IF @.trunk = NoValue THEN [@ EXCEPT !.access = NoValue]
                                       ELSE [@ EXCEPT !.native = NoValue]]

\* Mutant: the access vlan is not given up.
AsTrunkKeepsAccess(r) ==
    IF r.trunk = NoValue
    THEN [r EXCEPT !.trunk = NoneListed,
                   !.native = IF r.access = NoValue THEN 1 ELSE r.access]
    ELSE r

\* The first tagged vlan turns the untagged one into the native one.
AsTrunk(r) ==
    IF r.trunk = NoValue
    THEN [r EXCEPT !.trunk = NoneListed, !.access = NoValue,
                   !.native = IF r.access = NoValue THEN 1 ELSE r.access]
    ELSE r

WithTagged(r, n) == [AsTrunk(r) EXCEPT !.trunk = Merged(@, {n})]

Tagged(s, name) ==
    /\ BrocadeMember(s, name)
    /\ port' = [port EXCEPT ![Found(name)] = WithTagged(@, at[s].vlan)]

\* The last tagged vlan turns the native one into the untagged one, unless it is 1.
AsAccess(r) ==
    IF r.trunk = NoneListed
    THEN [r EXCEPT !.trunk = NoValue, !.native = NoValue,
                   !.access = IF r.native \in {NoValue, 1} THEN @ ELSE r.native]
    ELSE r

LessTagged(r, n) == AsAccess([r EXCEPT !.trunk = Removed(@, {n})])

NoTagged(s, name) ==
    /\ BrocadeMember(s, name)
    /\ port[Found(name)].trunk # NoValue
    /\ port[Found(name)].trunk[at[s].vlan] > 0
    /\ port' = [port EXCEPT ![Found(name)] = LessTagged(@, at[s].vlan)]

RouterInterface(s, k) ==
    /\ vendor = "brocade" /\ at[s].mode = "vlan"
    /\ BoundVe(at[s].vlan) = {}
    /\ AddPort([kind |-> "ve", number |-> k, vlan |-> at[s].vlan])
    /\ UNCHANGED <<use, vlans, at>>

NoRouterInterface(s) ==
    /\ vendor = "brocade" /\ at[s].mode = "vlan"
    /\ \E ve \in BoundVe(at[s].vlan) : RemovePort(ve)
    /\ UNCHANGED <<use, vlans>>
-----------------------------------------------------------------------------
(***************************************************************************)
(* config_interface.py.  The mode of an interface works on the object that *)
(* the session holds.                                                      *)
(***************************************************************************)
OnInterface(s, makes) ==
    /\ vendor \in makes /\ at[s].mode = "interface"
    /\ NameOf(at[s].port) \in use.edited
    /\ UNCHANGED <<use, vlans, ports, at>>

Held(s) == port[at[s].port]

Set(s, r) ==
    /\ Bounded(r.trunk)
    /\ port' = IF at[s].live THEN [port EXCEPT ![at[s].port] = r] ELSE port

\* description, shutdown, mtu, lldp, spanning-tree, ... and their negations
Attribute(s, value) ==
    /\ OnInterface(s, Vendors)
    /\ Set(s, [Held(s) EXCEPT !.touched = value])

\* Mutant: a new mode keeps the vlans of the old one.
WithModeOnly(r, m) == [r EXCEPT !.mode = m]

\* set_switchport_mode: Dell forgets the vlans when the mode changes.
WithMode(r, m) == IF r.mode = m THEN r ELSE [ResetPort EXCEPT !.mode = m, !.group = r.group,
                                                               !.touched = r.touched]

SwitchportMode(s, m) ==
    \/ /\ OnInterface(s, {"cisco", "dell10g"})
       /\ Set(s, [Held(s) EXCEPT !.mode = m])
    \/ /\ OnInterface(s, {"arista"})
       /\ m = "trunk"
       /\ Set(s, [Held(s) EXCEPT !.mode = m])
    \/ /\ OnInterface(s, {"dell"})
       /\ Set(s, WithMode(Held(s), m))

NoSwitchportMode(s) ==
    \/ /\ OnInterface(s, {"cisco", "arista"})
       /\ Set(s, [Held(s) EXCEPT !.mode = NoValue])
    \/ /\ OnInterface(s, {"dell10g"})
       /\ Set(s, [Held(s) EXCEPT !.mode = "access"])
    \/ /\ OnInterface(s, {"dell"})
       /\ Set(s, [Held(s) EXCEPT !.mode = NoValue, !.trunk = NoValue, !.native = NoValue])

\* Dell refuses a vlan that the switch does not have.
AccessVlan(s, n) ==
    /\ OnInterface(s, Family)
    /\ vendor = "cisco" \/ HasVlan(n)
    /\ Set(s, [Held(s) EXCEPT !.access = n])

NoAccessVlan(s) ==
    /\ OnInterface(s, Family)
    /\ Set(s, [Held(s) EXCEPT !.access = NoValue])

\* switchport trunk native vlan, and Dell's switchport general pvid
NativeVlan(s, n) ==
    /\ OnInterface(s, Family)
    /\ vendor = "cisco" \/ HasVlan(n)
    /\ vendor = "dell" => Held(s).mode = "general"
    /\ Set(s, [Held(s) EXCEPT !.native = n])

NoNativeVlan(s) ==
    /\ OnInterface(s, Family)
    /\ Set(s, [Held(s) EXCEPT !.native = NoValue])

\* Without a list all vlans are allowed, except on Dell, and there is nothing to add.
AllowedAdd(s, S) ==
    \/ /\ OnInterface(s, {"cisco", "arista"})
       /\ Held(s).trunk # NoValue
       /\ Set(s, [Held(s) EXCEPT !.trunk = Appended(@, S)])
    \/ /\ OnInterface(s, {"dell10g"})
       /\ Held(s).trunk # NoValue
       /\ Set(s, [Held(s) EXCEPT !.trunk = Merged(@, S)])

AllowedRemove(s, S) ==
    LET listed == IF Held(s).trunk = NoValue THEN Listed(Numbers) ELSE Held(s).trunk
    IN \/ /\ OnInterface(s, {"cisco", "arista"})
          /\ Set(s, [Held(s) EXCEPT !.trunk = Removed(listed, S)])
       \/ /\ OnInterface(s, {"dell10g"})
          /\ Set(s, [Held(s) EXCEPT !.trunk = OrNone(Removed(listed, S))])

\* update_trunk_vlans, of Dell's trunk and general modes and Dell 10G's general
\* one, takes vlans that the switch has.
MayUpdateVlans(s, S) ==
    /\ OnInterface(s, {"dell", "dell10g"})
    /\ vendor = "dell" => Held(s).mode \in {"trunk", "general"}
    /\ \A n \in S : HasVlan(n)

WithMore(r, S) == [r EXCEPT !.trunk = Merged(IF @ = NoValue THEN NoneListed ELSE @, S)]

UpdateVlansAdd(s, S) ==
    /\ MayUpdateVlans(s, S)
    /\ Set(s, WithMore(Held(s), S))

UpdateVlansRemove(s, S) ==
    /\ MayUpdateVlans(s, S)
    /\ Held(s).trunk # NoValue
    /\ Set(s, [Held(s) EXCEPT !.trunk = OrNone(Removed(@, S))])

\* switchport trunk allowed vlan LIST, none (an empty list) and all
AllowedList(s, S) ==
    /\ OnInterface(s, {"cisco", "dell10g", "arista"})
    /\ Set(s, [Held(s) EXCEPT !.trunk = Listed(S)])

AllowedAll(s) ==
    /\ OnInterface(s, {"cisco", "dell10g", "arista"})
    /\ Set(s, [Held(s) EXCEPT !.trunk = NoValue])

\* channel-group N: a session that holds a removed interface cannot add another.
ChannelGroup(s, g) ==
    LET channel == [kind |-> "channel", number |-> g, vlan |-> NoValue]
        joined  == [port EXCEPT ![at[s].port].group = g]
    IN /\ vendor \in Family /\ at[s].mode = "interface" /\ at[s].live
       /\ {NameOf(channel), NameOf(at[s].port)} \subseteq use.names
       /\ \/ /\ Exists(channel)
             /\ port' = joined
             /\ UNCHANGED ports
          \/ /\ ~Exists(channel)
             /\ ports' = AddName(ports, channel)
             /\ port' = [joined EXCEPT ![channel] = ResetPort]
       /\ UNCHANGED <<use, vlans, at>>

NoChannelGroup(s) ==
    /\ vendor \in Family /\ at[s].mode = "interface"
    /\ NameOf(at[s].port) \in use.names
    /\ Set(s, [Held(s) EXCEPT !.group = NoValue])
    /\ UNCHANGED <<use, vlans, ports, at>>
-----------------------------------------------------------------------------
ConfigCommand(s) ==
    \/ VlanDatabase(s)
    \/ Leave(s)
    \/ \E n \in Numbers : Vlan(s, n) \/ DatabaseVlan(s, n) \/ NoVlan(s, n)
    \/ \E name \in use.names :
          \/ Interface(s, name)
          \/ NewInterface(s, name)
          \/ NoInterface(s, name)
          \/ AristaNoInterface(s, name)
          \/ BrocadeNoInterface(s, name)
          \/ DefaultInterface(s, name)

VlanCommand(s) ==
    \/ NoRouterInterface(s)
    \/ \E k \in Numbers : [kind |-> "ve", number |-> k] \in use.names /\ RouterInterface(s, k)
    \/ \E name \in use.edited :
          Untagged(s, name) \/ NoUntagged(s, name) \/ Tagged(s, name) \/ NoTagged(s, name)

InterfaceCommand(s) ==
    \/ NoSwitchportMode(s) \/ NoAccessVlan(s) \/ NoNativeVlan(s)
    \/ AllowedAll(s) \/ NoChannelGroup(s)
    \/ \E value \in BOOLEAN : Attribute(s, value)
    \/ \E m \in {"access", "trunk", "general"} : SwitchportMode(s, m)
    \/ \E n \in Numbers : AccessVlan(s, n) \/ NativeVlan(s, n) \/ ChannelGroup(s, n)
    \/ \E S \in SUBSET Numbers :
          \/ AllowedList(s, S)
          \/ AllowedAdd(s, S) \/ AllowedRemove(s, S)
          \/ UpdateVlansAdd(s, S) \/ UpdateVlansRemove(s, S)

Next == \E s \in Sessions : ConfigCommand(s) \/ VlanCommand(s) \/ InterfaceCommand(s)

Spec == Init /\ [][Next]_vars
-----------------------------------------------------------------------------
(***************************************************************************)
(* Properties.                                                             *)
(***************************************************************************)

\* A lookup of the full name of an interface finds that interface, whichever
\* interfaces were created and removed before: names are compared by their
\* letters and the end of their digits (Vlan1 also finds Vlan11), so it matters
\* in which order they came.  Brocade's virtual interfaces are the exception:
\* they are made without looking their name up, and made anew at the end.
Addressable ==
    \A o \in Names(ports) : o.kind # "ve" => Found(NameOf(o)) = o

\* Brocade: an interface with an untagged vlan has no tagged ones beside it
\* (it is then a trunk with a native vlan), and a trunk has tagged vlans.
UntaggedOrTagged ==
    vendor = "brocade" =>
        \A o \in Object :
            /\ port[o].access # NoValue => port[o].trunk = NoValue
            /\ port[o].trunk # NoneListed

\* Dell: only a general port has a pvid, only a trunk or general port has a
\* list of vlans, and the list names each vlan once.
ModeFits ==
    vendor = "dell" =>
        \A o \in Object :
            /\ port[o].native # NoValue => port[o].mode = "general"
            /\ port[o].trunk # NoValue => /\ port[o].mode \in {"trunk", "general"}
                                          /\ \A n \in Numbers : port[o].trunk[n] <= 1

\* Brocade refers to vlan n: an untagged, tagged or virtual interface of it.
\* (The native vlan 1 that a port gets with its first tagged vlan is not
\* looked up, and a native vlan without tagged ones does not count.)
RefersTo(r, n) ==
    \/ r.access = n
    \/ r.trunk # NoValue /\ (r.trunk[n] > 0 \/ (r.native = n /\ n # 1))

Dangling(n) ==
    /\ ~HasVlan(n)
    /\ \E o \in Names(ports) : o.vlan = n \/ RefersTo(port[o], n)

\* Brocade: removing a vlan takes its members and its virtual interface with
\* it, so the only way to an interface of a vlan that the switch does not have
\* is a session that is still in the mode of the removed vlan.
DanglingOnlyFromRemovedVlan ==
    [][\A n \in Numbers : vendor = "brocade" /\ ~Dangling(n) /\ Dangling(n)' =>
          \E s \in Sessions : at[s].mode = "vlan" /\ at[s].vlan = n /\ ~at[s].live]_vars
=============================================================================
