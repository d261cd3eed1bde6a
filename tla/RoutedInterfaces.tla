-------------------------- MODULE RoutedInterfaces --------------------------
(***************************************************************************)
(* The addresses, vrfs and VRRP groups of the virtual interfaces of one    *)
(* CLI switch (Brocade, Cisco or Arista; both Dells inherit Cisco's        *)
(* commands), configured by several sessions at once.                      *)
(*                                                                         *)
(* An address is typed with its network.  The switch looks an address up   *)
(* in the networks of all virtual interfaces it lists, in their order, and *)
(* the first that holds it is the owner.  As in Switchports, a session in  *)
(* the mode of an interface or of a VRRP group holds the object itself,    *)
(* which another session may have removed: what it then writes is lost.    *)
(***************************************************************************)
EXTENDS Naturals, Sequences, OrderedNames

CONSTANTS
    Sessions,
    Uses,        \* which switch it is and what its clients type, a set of Use
    Interfaces,  \* the virtual interfaces, by their vlan
    Physical,    \* the physical ports: they have a vrf but no address
    Addresses,
    Vrfs,
    DefaultLan,  \* the vrf DEFAULT-LAN
    Groups,      \* VRRP group numbers
    Tracked,     \* the ports that a group tracks
    Priorities,
    MaxIps,      \* bound on the addresses of an interface
    NoValue      \* None

\* An IPNetwork: an address and the addresses of its network.
Ip == {ip \in [address : Addresses, network : SUBSET Addresses] : ip.address \in ip.network}

\* A bound: the addresses, virtual-router addresses, vrfs and groups that are typed.
Use == [vendor : {"brocade", "cisco", "arista"}, ips : SUBSET Ip, varps : SUBSET Ip,
        vrfs : SUBSET Vrfs, groups : SUBSET Groups]

\* VRRP's track: a value for each tracked port, None being one.
Track == UNION {[D -> Priorities \cup {NoValue}] : D \in SUBSET (Tracked \cup {NoValue})}

ASSUME RoutedInterfacesAssumption ==
    /\ Uses \subseteq Use
    /\ Interfaces \cap Physical = {}
    /\ DefaultLan \in Vrfs
    /\ MaxIps \in Nat \ {0}
    /\ NoValue \notin Interfaces \cup Physical \cup Vrfs \cup Groups \cup Tracked \cup Priorities
    /\ NoValue \notin Track

VARIABLES
    use,    \* the make of the switch, and what its clients type
    vrfs,   \* the vrfs
    ports,  \* the listed interfaces, in their order
    net,    \* net[p]: what interface p has configured
    at      \* at[s]: the interface and the group that session s holds

vars == <<use, vrfs, ports, net, at>>

vendor == use.vendor

Port == Interfaces \cup Physical

Net == [ips       : Seq(Ip),      \* Brocade: primary; else the first is the primary one
        secondary : SUBSET Ip,    \* Brocade
        varp      : Seq(Ip),      \* Arista
        vrf       : Vrfs \cup {NoValue},
        groups    : [Groups -> Track \cup {NoValue}]]

Fresh == [ips |-> <<>>, secondary |-> {}, varp |-> <<>>, vrf |-> NoValue,
          groups |-> [g \in Groups |-> NoValue]]

\* live: the switch still lists the interface, or the interface the group.
Place == [port : Port \cup {NoValue}, live : BOOLEAN,
          group : Groups \cup {NoValue}, groupLive : BOOLEAN]

Config == [port |-> NoValue, live |-> TRUE, group |-> NoValue, groupLive |-> TRUE]

InInterface(p) == [Config EXCEPT !.port = p]

\* The physical ports are there from the start, in any order.
Init ==
    /\ use \in Uses
    /\ vrfs = {DefaultLan}
    /\ ports \in {l \in SUBSET (Physical \X Physical) : IsNameList(l, Port) /\ Names(l) = Physical}
    /\ net = [p \in Port |-> Fresh]
    /\ at = [s \in Sessions |-> Config]

TypeOK ==
    /\ use \in Uses
    /\ vrfs \subseteq Vrfs
    /\ IsNameList(ports, Port)
    /\ net \in [Port -> Net]
    /\ at \in [Sessions -> Place]
-----------------------------------------------------------------------------
(***************************************************************************)
(* switch_configuration.py.                                                *)
(***************************************************************************)
Positions(ips, a) == {k \in DOMAIN ips : ips[k].address = a}

\* The first one of a list of addresses that is a.
FirstPosition(ips, a) == CHOOSE k \in Positions(ips, a) : \A j \in Positions(ips, a) : k <= j

\* list.index: IPNetworks are equal when their networks are.
FirstEqual(ips, ip) ==
    CHOOSE k \in DOMAIN ips :
        /\ ips[k].network = ip.network
        /\ \A j \in DOMAIN ips : ips[j].network = ip.network => k <= j

\* add_ip: for an address that is listed already, with whatever mask, the first
\* one of the same network as that one is replaced.
WithIp(ips, ip) ==
    IF Positions(ips, ip.address) = {} THEN Append(ips, ip)
    ELSE LET existing == ips[FirstPosition(ips, ip.address)]
         IN [ips EXCEPT ![FirstEqual(ips, existing)] = ip]

\* remove_ip
WithoutIp(ips, ip) ==
    IF Positions(ips, ip.address) = {} THEN ips
    ELSE LET gone == FirstPosition(ips, ip.address)
         IN [k \in 1..(Len(ips) - 1) |-> IF k < gone THEN ips[k] ELSE ips[k + 1]]

\* Mutant: addresses are compared, not networks.
HoldingItself(ips, a) == Positions(ips, a)

\* The addresses of an interface whose network holds a.
Holding(ips, a) == {k \in DOMAIN ips : a \in ips[k].network}

\* Mutant: only the first address of an interface is looked at.
FirstHolds(a) == {i \in Interfaces : net[i].ips # <<>> /\ a \in net[i].ips[1].network}

\* get_port_and_ip_by_ip
Owners(a) == {i \in Interfaces : Holding(net[i].ips, a) # {}}

Unowned(a) == ~HoldsOneOf(ports, Owners(a))

OwnedBy(p, a) == ~Unowned(a) /\ FirstOf(ports, Owners(a)) = p

LosePort(places, p) ==
    [s \in Sessions |-> IF places[s].port = p THEN [places[s] EXCEPT !.live = FALSE]
                        ELSE places[s]]

LoseGroup(places, p, g) ==
    [s \in Sessions |-> IF places[s].port = p /\ places[s].group = g
                        THEN [places[s] EXCEPT !.groupLive = FALSE] ELSE places[s]]
-----------------------------------------------------------------------------
(***************************************************************************)
(* Commands of the config mode, which may be typed in every mode.          *)
(***************************************************************************)

\* ip vrf NAME: the vrf is found or created, and entered; its mode knows nothing.
Vrf(s, v) ==
    /\ vendor # "arista"
    /\ vrfs' = vrfs \cup {v}
    /\ at' = [at EXCEPT ![s] = Config]
    /\ UNCHANGED <<use, ports, net>>

\* Mutant: the vrf stays on the physical ports.
VirtualOnly(v) == {p \in Names(ports) \cap Interfaces : net[p].vrf = v}

\* The ports that lose their vrf with it.
InVrf(v) == {p \in Names(ports) : net[p].vrf = v}

\* no ip vrf NAME
NoVrf(s, v) ==
    /\ vendor # "arista"
    /\ v \in vrfs
    /\ vrfs' = vrfs \ {v}
    /\ net' = [p \in Port |-> IF p \in InVrf(v) THEN [net[p] EXCEPT !.vrf = NoValue] ELSE net[p]]
    /\ UNCHANGED <<use, ports, at>>

\* interface NAME
Interface(s, p) ==
    /\ p \in Names(ports)
    /\ at' = [at EXCEPT ![s] = InInterface(p)]
    /\ UNCHANGED <<use, vrfs, ports, net>>

\* interface NAME creates the interface, on Brocade router-interface in a vlan does.
NewInterface(s, i) ==
    /\ i \notin Names(ports)
    /\ ports' = AddName(ports, i)
    /\ net' = [net EXCEPT ![i] = Fresh]
    /\ at' = [at EXCEPT ![s] = IF vendor = "brocade" THEN Config ELSE InInterface(i)]
    /\ UNCHANGED <<use, vrfs>>

\* no interface NAME, and Brocade's no vlan and no router-interface.
RemoveInterface(s, i) ==
    /\ i \in Names(ports)
    /\ ports' = RemoveName(ports, i)
    /\ net' = [net EXCEPT ![i] = Fresh]
    /\ at' = [LosePort(at, i) EXCEPT ![s] = IF vendor = "arista" THEN Config ELSE @]
    /\ UNCHANGED <<use, vrfs>>

\* Mutant: the old interface stays.
AddedAgain(i) == AddName(ports, i)

\* A new interface, added at the end, takes the place of the old one.
Renewed(i) == AddName(RemoveName(ports, i), i)

\* Brocade's no interface ve
RenewInterface(s, i) ==
    /\ vendor = "brocade"
    /\ i \in Names(ports)
    /\ ports' = Renewed(i)
    /\ net' = [net EXCEPT ![i] = Fresh]
    /\ at' = LosePort(at, i)
    /\ UNCHANGED <<use, vrfs>>

\* Port.reset: Cisco's default interface, Brocade's no interface ethernet.  The
\* addresses and groups of a virtual interface are not reset.
ResetInterface(s, p) ==
    /\ vendor # "arista"
    /\ p \in Names(ports) \ (IF vendor = "brocade" THEN Interfaces ELSE {})
    /\ net' = [net EXCEPT ![p].vrf = NoValue]
    /\ UNCHANGED <<use, vrfs, ports, at>>

\* exit, a command that raises, the end of the connection.
Leave(s) ==
    /\ at[s] # Config
    /\ at' = [at EXCEPT ![s] = Config]
    /\ UNCHANGED <<use, vrfs, ports, net>>
-----------------------------------------------------------------------------
(***************************************************************************)
(* config_interface.py: the addresses of the interface that is held.       *)
(***************************************************************************)
Held(s) == net[at[s].port]

OnInterface(s, makes) ==
    /\ vendor \in makes
    /\ at[s].port \in Interfaces
    /\ UNCHANGED <<use, vrfs, ports>>

Set(s, r) == net' = IF at[s].live THEN [net EXCEPT ![at[s].port] = r] ELSE net

\* The interface is the owner of a: a removed one owns nothing.
Mine(s, a) == at[s].live /\ OwnedBy(at[s].port, a)

\* Mutant: nobody is asked whether the address is free.
AnyAddress(s, a) == TRUE

\* May the interface have address a?
MayHave(s, a) == Unowned(a) \/ Mine(s, a)

\* ip address IP secondary, of Cisco and Arista.
SecondaryAddress(s, ip) ==
    /\ OnInterface(s, {"cisco", "arista"})
    /\ MayHave(s, ip.address)
    /\ Len(WithIp(Held(s).ips, ip)) <= MaxIps
    /\ Set(s, [Held(s) EXCEPT !.ips = WithIp(@, ip)])
    /\ UNCHANGED at

\* What is left before the primary address is replaced: Cisco takes an address
\* of its own networks off the list.
Rest(s, ip) ==
    IF vendor = "cisco" /\ Mine(s, ip.address) THEN WithoutIp(Held(s).ips, ip) ELSE Held(s).ips

\* ip address IP: the first address is replaced.
PrimaryAddress(s, ip) ==
    /\ OnInterface(s, {"cisco", "arista"})
    /\ MayHave(s, ip.address)
    /\ \/ /\ Held(s).ips = <<>>
          /\ Set(s, [Held(s) EXCEPT !.ips = <<ip>>])
       \/ /\ Held(s).ips # <<>> /\ Rest(s, ip) # <<>>
          /\ Set(s, [Held(s) EXCEPT !.ips = [Rest(s, ip) EXCEPT ![1] = ip]])
    /\ UNCHANGED at

\* Cisco, the only address once more: it is removed, then there is none to replace.
PrimaryAddressRaises(s, ip) ==
    /\ OnInterface(s, {"cisco"})
    /\ Mine(s, ip.address)
    /\ Held(s).ips # <<>> /\ Rest(s, ip) = <<>>
    /\ Set(s, [Held(s) EXCEPT !.ips = <<>>])
    /\ at' = [at EXCEPT ![s] = Config]

\* The first address of the interface that holds a in its network.
Sibling(s, a) ==
    LET holding == Holding(Held(s).ips, a)
    IN Held(s).ips[CHOOSE k \in holding : \A j \in holding : k <= j]

\* Brocade: an address of no known network is a primary one; one of a network of
\* the interface itself is refused, or a secondary one.  (In the mode of a group
\* `ip address` is another command.)
BrocadeAddress(s, ip, typedSecondary) ==
    /\ OnInterface(s, {"brocade"})
    /\ at[s].group = NoValue
    /\ \/ /\ Unowned(ip.address)
          /\ Len(WithIp(Held(s).ips, ip)) <= MaxIps
          /\ Set(s, [Held(s) EXCEPT !.ips = WithIp(@, ip)])
       \/ /\ Mine(s, ip.address)
          /\ typedSecondary
          /\ Sibling(s, ip.address).address # ip.address
          /\ \A other \in Held(s).secondary : other.address # ip.address
          /\ Set(s, [Held(s) EXCEPT !.secondary = @ \cup {ip}])
    /\ UNCHANGED at

\* no ip address
NoAddresses(s) ==
    /\ OnInterface(s, {"cisco", "arista"})
    /\ Set(s, [Held(s) EXCEPT !.ips = <<>>])
    /\ UNCHANGED at

\* no ip address IP [secondary]: Arista asks whether the network is listed, and
\* removes the address, which may be the primary one of that network.
NoAddress(s, ip, typedSecondary) ==
    /\ OnInterface(s, {"cisco", "arista"})
    /\ \/ vendor = "cisco" /\ typedSecondary
       \/ vendor = "cisco" /\ ~typedSecondary /\ Len(Held(s).ips) = 1
       \/ /\ vendor = "arista" /\ typedSecondary
          /\ \E k \in DOMAIN Held(s).ips \ {1} : Held(s).ips[k].network = ip.network
       \/ /\ vendor = "arista" /\ ~typedSecondary
          /\ Len(Held(s).ips) = 1 /\ Held(s).ips[1].network = ip.network
    /\ Set(s, [Held(s) EXCEPT !.ips = WithoutIp(@, ip)])
    /\ UNCHANGED at

\* Mutant: a primary address goes without its secondary ones.
NothingDepends(s, ip) == FALSE

\* Has the interface secondary addresses that lie in the network of ip?
Depended(s, ip) == \E other \in Held(s).secondary : other.network \subseteq ip.network

\* A secondary address is looked up by its address, and list.remove takes the
\* first one of its network: as the set has no order, any of them.
BrocadeNoAddress(s, ip) ==
    /\ OnInterface(s, {"brocade"})
    /\ at[s].group = NoValue
    /\ LET same == {other \in Held(s).secondary : other.address = ip.address}
       IN \/ \E found \in same, gone \in Held(s).secondary :
                /\ gone.network = found.network
                /\ Set(s, [Held(s) EXCEPT !.secondary = @ \ {gone}])
          \/ /\ same = {} /\ ~Depended(s, ip)
             /\ Set(s, [Held(s) EXCEPT !.ips = WithoutIp(@, ip)])
    /\ UNCHANGED at

\* The same virtual-router address with another mask takes the place of the old one.
WithVarp(varp, ip) ==
    IF Positions(varp, ip.address) = {} THEN Append(varp, ip)
    ELSE [varp EXCEPT ![FirstPosition(varp, ip.address)] = ip]

\* Arista: ip virtual-router address, and its negations.
VirtualRouterAddress(s, ip) ==
    /\ OnInterface(s, {"arista"})
    /\ Len(WithVarp(Held(s).varp, ip)) <= MaxIps
    /\ Set(s, [Held(s) EXCEPT !.varp = WithVarp(@, ip)])
    /\ UNCHANGED at

NoVirtualRouterAddress(s, ip) ==
    /\ OnInterface(s, {"arista"})
    /\ Set(s, [Held(s) EXCEPT !.varp = WithoutIp(@, ip)])
    /\ UNCHANGED at

NoVirtualRouterAddresses(s) ==
    /\ OnInterface(s, {"arista"})
    /\ Set(s, [Held(s) EXCEPT !.varp = <<>>])
    /\ UNCHANGED at

\* The vrf of that name; an interface keeps its own when there is none.
FoundVrf(v, old) == IF v \in vrfs THEN v ELSE old

\* [ip] vrf forwarding NAME: the addresses go before the vrf is looked up.  (The
\* secondary addresses of a Brocade do not go.)
VrfForwarding(s, v) ==
    /\ vendor # "arista"
    /\ at[s].port # NoValue
    /\ Set(s, [Held(s) EXCEPT !.ips = <<>>, !.vrf = FoundVrf(v, @)])
    /\ UNCHANGED <<use, vrfs, ports, at>>

\* no [ip] vrf forwarding: Brocade wants the name and removes the addresses.
NoVrfForwarding(s, v) ==
    /\ vendor # "arista"
    /\ at[s].port # NoValue
    /\ \/ /\ vendor = "cisco"
          /\ Set(s, [Held(s) EXCEPT !.vrf = NoValue])
       \/ /\ vendor = "brocade"
          /\ Held(s).vrf = v
          /\ Set(s, [Held(s) EXCEPT !.ips = <<>>, !.vrf = NoValue])
    /\ UNCHANGED <<use, vrfs, ports, at>>
-----------------------------------------------------------------------------
(***************************************************************************)
(* VRRP groups: config_virtual_interface_vrrp.py, Cisco's standby.         *)
(***************************************************************************)
NoTrack == [k \in {} |-> NoValue]

\* dict.update of one key.
Updated(track, key, value) ==
    [k \in DOMAIN track \cup {key} |-> IF k = key THEN value ELSE track[k]]

WithGroup(groups, g) == [groups EXCEPT ![g] = IF @ = NoValue THEN NoTrack ELSE @]

\* ip vrrp-extended vrid G: the group is found or created, and entered.
EnterGroup(s, g) ==
    /\ OnInterface(s, {"brocade"})
    /\ Set(s, [Held(s) EXCEPT !.groups = WithGroup(@, g)])
    /\ at' = [at EXCEPT ![s].group = g, ![s].groupLive = TRUE]

\* no ip vrrp-extended vrid G, no standby G
NoGroup(s, g) ==
    /\ OnInterface(s, {"brocade", "cisco"})
    /\ Held(s).groups[g] # NoValue
    /\ Set(s, [Held(s) EXCEPT !.groups[g] = NoValue])
    /\ at' = IF at[s].live THEN LoseGroup(at, at[s].port, g) ELSE at

\* activate, exit: back to the interface.
LeaveGroup(s) ==
    /\ at[s].group # NoValue
    /\ at' = [at EXCEPT ![s].group = NoValue, ![s].groupLive = TRUE]
    /\ UNCHANGED <<use, vrfs, ports, net>>

InGroup(s) ==
    /\ at[s].group # NoValue
    /\ at[s].live /\ at[s].groupLive
    /\ UNCHANGED <<use, vrfs, ports, at>>

HeldTrack(s) == Held(s).groups[at[s].group]

SetTrack(s, track) == net' = [net EXCEPT ![at[s].port].groups[at[s].group] = track]

\* Mutant: the value is always stored under None.
NoneKeys(track) == {NoValue}

\* The code takes the first key, whichever it is.
FirstKeys(track) == IF DOMAIN track = {} THEN {NoValue} ELSE DOMAIN track

FirstValues(track) == IF DOMAIN track = {} THEN {NoValue} ELSE {track[k] : k \in DOMAIN track}

\* backup priority P track-priority V, and no backup
Backup(s, value) ==
    /\ InGroup(s)
    /\ \E key \in FirstKeys(HeldTrack(s)) : SetTrack(s, Updated(HeldTrack(s), key, value))

\* track-port P, and no track-port
TrackPort(s, key) ==
    /\ InGroup(s)
    /\ \E value \in FirstValues(HeldTrack(s)) : SetTrack(s, [k \in {key} |-> value])

\* Cisco: standby G, with track P decrement V or with something else.
Standby(s, g) ==
    /\ OnInterface(s, {"cisco"})
    /\ Set(s, [Held(s) EXCEPT !.groups = WithGroup(@, g)])
    /\ UNCHANGED at

StandbyTrack(s, g, key, value) ==
    /\ OnInterface(s, {"cisco"})
    /\ LET groups == WithGroup(Held(s).groups, g)
       IN Set(s, [Held(s) EXCEPT !.groups = [groups EXCEPT ![g] = Updated(@, key, value)]])
    /\ UNCHANGED at

NoStandbyTrack(s, g, key) ==
    /\ OnInterface(s, {"cisco"})
    /\ Held(s).groups[g] # NoValue
    /\ LET track == Held(s).groups[g]
       IN Set(s, [Held(s) EXCEPT !.groups[g] = [k \in DOMAIN track \ {key} |-> track[k]]])
    /\ UNCHANGED at
-----------------------------------------------------------------------------
ConfigCommand(s) ==
    \/ Leave(s)
    \/ \E v \in use.vrfs : Vrf(s, v) \/ NoVrf(s, v)
    \/ \E i \in Interfaces : NewInterface(s, i) \/ RemoveInterface(s, i) \/ RenewInterface(s, i)
    \/ \E p \in Port : Interface(s, p) \/ ResetInterface(s, p)

AddressCommand(s) ==
    \/ NoAddresses(s) \/ NoVirtualRouterAddresses(s)
    \/ \E ip \in use.ips :
          \/ SecondaryAddress(s, ip)
          \/ PrimaryAddress(s, ip) \/ PrimaryAddressRaises(s, ip)
          \/ BrocadeNoAddress(s, ip)
          \/ \E typedSecondary \in BOOLEAN :
                BrocadeAddress(s, ip, typedSecondary) \/ NoAddress(s, ip, typedSecondary)
    \/ \E ip \in use.varps : VirtualRouterAddress(s, ip) \/ NoVirtualRouterAddress(s, ip)

VrfCommand(s) ==
    \E v \in use.vrfs : VrfForwarding(s, v) \/ NoVrfForwarding(s, v)

GroupCommand(s) ==
    \/ LeaveGroup(s)
    \/ \E g \in use.groups : EnterGroup(s, g) \/ NoGroup(s, g) \/ Standby(s, g)
    \/ \E value \in Priorities \cup {NoValue} : Backup(s, value)
    \/ \E key \in Tracked \cup {NoValue} : TrackPort(s, key)
    \/ \E g \in use.groups, key \in Tracked :
          \/ NoStandbyTrack(s, g, key)
          \/ \E value \in Priorities : StandbyTrack(s, g, key, value)

Next == \E s \in Sessions :
            ConfigCommand(s) \/ AddressCommand(s) \/ VrfCommand(s) \/ GroupCommand(s)

Spec == Init /\ [][Next]_vars
-----------------------------------------------------------------------------
(***************************************************************************)
(* Properties.                                                             *)
(***************************************************************************)

\* The clients type networks that are the same or have nothing in common.
Plain ==
    \A x, y \in use.ips : x.network = y.network \/ x.network \cap y.network = {}

\* Of an interface's networks, those that the lookup of an owner sees.
SeenNetworksOf(i) == {net[i].ips[k].network : k \in DOMAIN net[i].ips}

NetworksOf(i) == SeenNetworksOf(i) \cup {other.network : other \in net[i].secondary}

Listed == Names(ports) \cap Interfaces

\* Nobody types the vrf commands of a Brocade, which remove the primary addresses
\* of an interface and leave the secondary ones, where no lookup sees them.
NoOrphans == vendor = "brocade" => use.vrfs = {}

\* A network is on one interface only, whichever interfaces are removed and
\* created, and whichever addresses are replaced, in the meantime.  (A wider
\* network may be typed over a narrower one of another interface: only the
\* address is looked up.)  What vrf commands leave on a Brocade interface is
\* the exception: another interface may have a network of which this one keeps
\* a secondary address.
OneOwner ==
    Plain => \A i, j \in Listed : i # j =>
        /\ SeenNetworksOf(i) \cap SeenNetworksOf(j) = {}
        /\ NoOrphans => NetworksOf(i) \cap NetworksOf(j) = {}

\* On Brocade, no later primary address lies in the network of an earlier one,
\* even when networks overlap; that is what lets the code stop at the first that
\* holds an address.  On Arista no virtual-router address is listed twice.  (The
\* addresses of a Cisco or Arista interface are not so: of two addresses in one
\* network, the second one typed once more as a secondary one replaces the first.)
AddressesApart ==
    \A i \in Listed :
        /\ vendor = "brocade" => \A k \in DOMAIN net[i].ips : \A j \in 1..(k - 1) :
                                    net[i].ips[k].address \notin net[i].ips[j].network
        /\ \A j, k \in DOMAIN net[i].varp :
                net[i].varp[j].address = net[i].varp[k].address => j = k

\* Brocade: "Delete secondary address before deleting primary address" keeps a
\* primary address in the network of every secondary one, as long as nobody
\* types vrf commands, which remove the primary ones alone.
SecondaryHasPrimary ==
    vendor = "brocade" /\ Plain /\ NoOrphans =>
        \A i \in Listed : \A other \in net[i].secondary :
            Holding(net[i].ips, other.address) # {}

\* The vrf of an interface is one that the switch has: `no ip vrf` takes it off
\* every port, and a session in the mode of an interface finds it no more.
VrfListed ==
    \A p \in Names(ports) : net[p].vrf \in vrfs \cup {NoValue}

\* Brocade: a group tracks one port.  Its commands keep the priority and the
\* port as key and value of one entry, which they take to be the first.
TracksOne ==
    vendor = "brocade" =>
        \A i \in Interfaces : \A g \in Groups :
            net[i].groups[g] # NoValue =>
                \A j, k \in DOMAIN net[i].groups[g] : j = k

\* The networks and who has them: no interface takes a network from another one.
Networks == {ip.network : ip \in UNION {u.ips : u \in Uses}}

Nobody == NoValue

owner ==
    [n \in Networks |->
        IF Plain /\ NoOrphans /\ \E i \in Listed : n \in NetworksOf(i)
        THEN CHOOSE i \in Listed : n \in NetworksOf(i) ELSE Nobody]

Ownership == INSTANCE NetworkOwnership

\* The commands of all makes implement the ownership of networks: an interface
\* has given a network up, its secondary addresses too, before another interface
\* can have it.  (Where networks overlap, and with vrf commands on Brocade, the
\* mapping names no owners.)
OwnsNetworks == Ownership!Spec
=============================================================================
