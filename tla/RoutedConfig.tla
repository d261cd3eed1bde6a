-------------------------- MODULE RoutedConfig ----------------------------
(***************************************************************************)
(* The addresses, vrfs and VRRP groups that `show running-config` shows of *)
(* the interfaces that RoutedInterfaces configures, and what they are      *)
(* worth to a client that reads the lines and types them into another      *)
(* switch: into the mode of an interface that has nothing configured, on a *)
(* switch with the same vrfs, whose other interfaces have no addresses.    *)
(*                                                                         *)
(* The lines are not written down: each part of them is what typing its    *)
(* lines, in the order in which they are shown, makes of an interface.     *)
(***************************************************************************)
EXTENDS RoutedInterfaces, SequencesExt

\* Addresses are numbers of 32 bits, sorted where they are shown.
ASSUME RoutedConfigAssumption ==
    /\ Addresses \subseteq Nat /\ IsFiniteSet(Addresses)
    /\ IsFiniteSet(Tracked)

\* The address that is shown last.
Highest(ips) == CHOOSE ip \in ips : \A other \in ips : other.address <= ip.address
-----------------------------------------------------------------------------
(***************************************************************************)
(* The address commands of RoutedInterfaces, for an owner that is this     *)
(* interface or nobody.                                                    *)
(***************************************************************************)
OnBrocade(r, ip, typedSecondary) ==
    LET holding == Holding(r.ips, ip.address)
        first   == r.ips[CHOOSE k \in holding : \A j \in holding : k <= j]
    IN IF holding = {} THEN [r EXCEPT !.ips = WithIp(@, ip)]
       ELSE IF /\ typedSecondary
               /\ first.address # ip.address
               /\ \A other \in r.secondary : other.address # ip.address
            THEN [r EXCEPT !.secondary = @ \cup {ip}]
            ELSE r

\* Of Cisco and Arista, for a primary address.
OverPrimary(ips, ip) ==
    LET mine == Holding(ips, ip.address) # {}
        rest == IF vendor = "cisco" /\ mine THEN WithoutIp(ips, ip) ELSE ips
    IN IF ips = <<>> THEN <<ip>> ELSE IF rest = <<>> THEN <<>> ELSE [rest EXCEPT ![1] = ip]
-----------------------------------------------------------------------------
(***************************************************************************)
(* The lines that are shown of r, typed into x.                            *)
(***************************************************************************)
VrfTyped(x, r) ==
    IF r.vrf = NoValue THEN x ELSE [x EXCEPT !.ips = <<>>, !.vrf = FoundVrf(r.vrf, @)]

PrimaryTyped(ips, r) == IF r.ips = <<>> THEN ips ELSE OverPrimary(ips, Head(r.ips))

SecondariesTyped(ips, r) == FoldLeft(WithIp, ips, SubSeq(r.ips, 2, Len(r.ips)))

\* Arista's virtual-router addresses are sorted.
VarpTyped(varp, r) ==
    MapThenFoldSet(LAMBDA ip, typed : WithVarp(typed, ip), varp,
                   LAMBDA ip : ip, Highest, ToSet(r.varp))

\* Brocade's get_port_attributes sorts the primary and the secondary addresses.
BrocadePrimariesTyped(x, r) ==
    MapThenFoldSet(LAMBDA ip, typed : OnBrocade(typed, ip, FALSE), x,
                   LAMBDA ip : ip, Highest, ToSet(r.ips))

BrocadeSecondariesTyped(x, r) ==
    MapThenFoldSet(LAMBDA ip, typed : OnBrocade(typed, ip, TRUE), x,
                   LAMBDA ip : ip, Highest, r.secondary)

\* Cisco's build_running_interface shows the first address last, Arista's
\* _show_run_interfaces in its place.
AddressesTyped(x, r) ==
    CASE vendor = "cisco"   -> [x EXCEPT !.ips = PrimaryTyped(SecondariesTyped(@, r), r)]
      [] vendor = "arista"  -> [x EXCEPT !.ips = SecondariesTyped(PrimaryTyped(@, r), r),
                                         !.varp = VarpTyped(@, r)]
      [] vendor = "brocade" -> BrocadeSecondariesTyped(BrocadePrimariesTyped(x, r), r)

\* Cisco: a group is created by its first line, so one without any is not.
TracksTyped(track) ==
    IF DOMAIN track = {} THEN NoValue
    ELSE MapThenFoldSet(LAMBDA key, typed : Updated(typed, key, track[key]), NoTrack,
                        LAMBDA key : key, LAMBDA keys : CHOOSE key \in keys : TRUE, DOMAIN track)

\* Brocade: the vrid creates the group; the priority and the port that are shown
\* are those of the first entry.  None is not shown.
EntryTyped(track) ==
    LET key   == CHOOSE k \in FirstKeys(track) : TRUE
        backup == IF track = NoTrack \/ track[key] = NoValue THEN NoTrack
                  ELSE Updated(NoTrack, CHOOSE k \in FirstKeys(NoTrack) : TRUE, track[key])
    IN IF key = NoValue THEN backup
       ELSE [k \in {key} |-> CHOOSE value \in FirstValues(backup) : TRUE]

\* The lines of a group touch no other group.  Arista has none.
GroupsTyped(x, r) ==
    [x EXCEPT !.groups = [g \in Groups |->
        IF r.groups[g] = NoValue THEN @[g]
        ELSE CASE vendor = "cisco"   -> TracksTyped(r.groups[g])
               [] vendor = "brocade" -> EntryTyped(r.groups[g])
               [] vendor = "arista"  -> @[g]]]

\* Mutant: the vrf is shown after the addresses.
ReplayedVrfLast(r) == GroupsTyped(VrfTyped(AddressesTyped(Fresh, r), r), r)

Replayed(r) == GroupsTyped(AddressesTyped(VrfTyped(Fresh, r), r), r)
-----------------------------------------------------------------------------
(***************************************************************************)
(* What the lines cannot stand for.                                        *)
(***************************************************************************)

\* Brocade: a secondary address that no primary one holds, as `vrf forwarding`
\* leaves it, or that has become a primary address in the meantime.
Orphaned(r) ==
    \E other \in r.secondary :
        \/ Holding(r.ips, other.address) = {}
        \/ Positions(r.ips, other.address) # {}

\* Brocade: a primary address in the network of a lower one, which was typed later.
Covered(r) ==
    vendor = "brocade" /\ \E j, k \in DOMAIN r.ips :
        r.ips[j].address < r.ips[k].address /\ r.ips[k].address \in r.ips[j].network

\* Cisco and Arista: an address that is listed twice, as `ip address` leaves it when
\* an address is typed once more that is not the first of its network, and when
\* Arista makes a secondary address the primary one.
Doubled(r) ==
    vendor # "brocade" /\ \E j, k \in DOMAIN r.ips :
        j # k /\ r.ips[j].address = r.ips[k].address

Lossy(r) == Orphaned(r) \/ Covered(r) \/ Doubled(r)

\* Cisco shows the primary address last, and typing it takes the place of the
\* first secondary one.
Survivors(r) ==
    IF vendor = "cisco" /\ Len(r.ips) > 1 THEN RemoveAt(r.ips, 2) ELSE r.ips

\* The entries of a group that say something.
Entries(track) ==
    IF track = NoValue THEN {}
    ELSE {entry \in {<<key, track[key]>> : key \in DOMAIN track} : entry # <<NoValue, NoValue>>}

SameInterface(replayed, r) ==
    /\ replayed.vrf = r.vrf
    /\ IF vendor = "brocade" THEN ToSet(replayed.ips) = ToSet(r.ips)
                             ELSE replayed.ips = Survivors(r)
    /\ replayed.secondary = r.secondary
    /\ ToSet(replayed.varp) = ToSet(r.varp)
    /\ \A g \in Groups : Entries(replayed.groups[g]) = Entries(r.groups[g])
-----------------------------------------------------------------------------
\* However an interface came to its configuration, the lines that the switch
\* shows for it, typed into a new interface, give it the same vrf, addresses
\* and groups: none is refused, and none undoes what the lines before it did
\* (`vrf forwarding` removes the addresses, a lower network may hold a higher
\* address).  Lossy names the exceptions; on Cisco exactly the first secondary
\* address is lost.
RoutedConfigReplays ==
    \A p \in Names(ports) : ~Lossy(net[p]) => SameInterface(Replayed(net[p]), net[p])
=============================================================================
