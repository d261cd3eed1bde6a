------------------------- MODULE JuniperMxDatastore -------------------------
(***************************************************************************)
(* What the MX datastore (juniper_mx/juniper_mx_netconf_datastore.py) adds *)
(* to that of NetconfDatastore: bridge domains, routed irb interfaces with *)
(* addresses and VRRP groups, vlan-id-list members, and the part of        *)
(* commit_candidate that copies routed interfaces.  The switch has one     *)
(* physical port; aggregates, locks and protocols are in NetconfDatastore. *)
(* Clients edit the candidate, commit it, or discard it.                   *)
(***************************************************************************)
EXTENDS Naturals, SequencesExt

CONSTANTS
    Domains,       \* names of bridge domains
    Numbers,       \* vlan ids
    Irbs,          \* names of routed interfaces, irb.<unit>
    Matches,       \* Matches[n]: the irb names that a lookup of n accepts
    Hosts,         \* host addresses
    Networks,      \* networks: a prefix with its length
    Groups,        \* VRRP group ids
    Vips,          \* VRRP virtual addresses
    Workloads,     \* sets of nodes: what clients send in one behaviour
    MaxTrunk,      \* bound on the length of vlan-id-list
    NoValue        \* Python's None

(***************************************************************************)
(* Data.  netaddr compares IPNetwork values by their network, not their    *)
(* host.  attr stands for the attributes of a group that are merged by     *)
(* resolve_new_value (priority, hold-time, authentication, track); accept  *)
(* for the accept-data key.  unit is the irb-unit key, which readers see.  *)
(***************************************************************************)
Address == [host : Hosts, net : Networks]

VRRP == [id : Groups, related : Networks, vips : SUBSET Vips,
         attr : {"set", NoValue}, accept : BOOLEAN]

VlanPort == [name : Irbs, unit : Irbs, vlan : Numbers \cup {NoValue},
             ips : Seq(Address), groups : Seq(VRRP), redirect : BOOLEAN]

Domain == [name : Domains, number : Numbers \cup {NoValue}, link : Irbs \cup {NoValue}]

Port == [mode : {"access", "trunk", NoValue}, access : Numbers \cup {NoValue},
         trunk : Seq(Numbers)]

Configuration == [domains : Seq(Domain), irbs : Seq(VlanPort), port : Port]

\* The nodes of an edit, one at a time: an edit with more of them is a series
\* of these up to the first that fails.  A field is "absent" or "delete" when
\* the node lacks the element or carries operation="delete" on it.
DomainNode == [kind : {"domain"}, name : Domains, op : {"merge", "delete"},
               number : Numbers \cup {"absent", "delete"},
               link : Irbs \cup {"absent", "delete"}]

GroupNode == [id : Groups, op : {"merge", "delete"}, vips : SUBSET Vips,
              attr : {"absent", "delete", "set"}, accept : {"absent", "delete", "set"}]

AddressNode == [op : {"merge", "delete"}, ip : Address, group : GroupNode \cup {NoValue}]

UnitNode == [kind : {"unit"}, name : Irbs, redirects : {"absent", "delete", "set"},
             address : AddressNode \cup {NoValue}]

BridgeNode == [kind : {"bridge"}, mode : {"absent", "delete", "access", "trunk"},
               id : Numbers \cup {"absent", "delete"},
               list : {"absent", "delete", "add", "remove"}, member : Numbers]

ASSUME RequestAssumption ==
    \A requests \in Workloads : \A r \in requests :
        \/ r \in DomainNode \cup UnitNode \cup BridgeNode
        \/ r = [kind |-> "routing", op |-> "delete"]

ASSUME LookupAssumption ==
    /\ Matches \in [Irbs -> SUBSET Irbs]
    /\ \A n \in Irbs : n \in Matches[n]

VARIABLES
    candidate, running,   \* the two configurations
    requests,             \* the nodes of this behaviour's clients
    shared                \* the domains whose vendor_specific dict, which
                          \* holds the link, is one object in both

vars == <<candidate, running, requests, shared>>

EmptyConfiguration ==
    [domains |-> <<>>, irbs |-> <<>>,
     port |-> [mode |-> NoValue, access |-> NoValue, trunk |-> <<>>]]

Init ==
    /\ candidate = EmptyConfiguration
    /\ running = EmptyConfiguration
    /\ requests \in Workloads
    /\ shared = {}

\* next(x for x in s if x.name in names): its index, 0 when there is none.
IndexOfNamed(s, names) == SelectInSeq(s, LAMBDA x : x.name \in names)

HasNamed(s, n) == \E x \in ToSet(s) : x.name = n

NetsOf(ips) == {ip.net : ip \in ToSet(ips)}
-----------------------------------------------------------------------------
(***************************************************************************)
(* Bridge domains: parse_vlans and parse_vlan_attributes.                  *)
(***************************************************************************)
Resolves(new, old) == new = "delete" => old # NoValue

NewValue(new, old) ==
    CASE new = "absent" -> old
      [] new = "delete" -> NoValue
      [] OTHER -> new

WithDomain(c, n) ==
    IF HasNamed(c.domains, n) THEN c.domains
    ELSE Append(c.domains, [name |-> n, number |-> NoValue, link |-> NoValue])

\* The attributes are written in order; the first that fails is the last.
DomainAttributes(v, node) ==
    LET number == NewValue(node.number, v.number)
        link == NewValue(node.link, v.link)
    IN CASE ~Resolves(node.number, v.number) -> v
         [] Resolves(node.number, v.number) /\ ~Resolves(node.link, v.link) ->
               [v EXCEPT !.number = number]
         [] OTHER -> [v EXCEPT !.number = number, !.link = link]

Relink(irbs, v, node) ==
    LET complete == Resolves(node.number, v.number) /\ Resolves(node.link, v.link)
        new == DomainAttributes(v, node)
    IN [k \in DOMAIN irbs |->
          IF complete /\ irbs[k].name = new.link
          THEN [irbs[k] EXCEPT !.vlan = new.number] ELSE irbs[k]]

MergeDomain(c, node) ==
    LET domains == WithDomain(c, node.name)
        k == IndexOfNamed(domains, {node.name})
    IN [c EXCEPT !.domains = [domains EXCEPT ![k] = DomainAttributes(domains[k], node)],
                 !.irbs = Relink(c.irbs, domains[k], node)]

\* What is written to a shared dict is written to both datastores.
LinkSeenThrough(n, new) ==
    LET k == IndexOfNamed(running.domains, {n})
    IN IF n \in shared
       THEN [running EXCEPT !.domains[k].link = new.domains[IndexOfNamed(new.domains, {n})].link]
       ELSE running

EditDomain(node) ==
    \/ /\ node.op = "merge"
       /\ candidate' = MergeDomain(candidate, node)
       /\ running' = LinkSeenThrough(node.name, candidate')
       /\ UNCHANGED <<shared, requests>>
    \/ /\ node.op = "delete" /\ HasNamed(candidate.domains, node.name)
       /\ candidate' = [candidate EXCEPT !.domains = RemoveAt(@, IndexOfNamed(@, {node.name}))]
       /\ shared' = shared \ {node.name}
       /\ UNCHANGED <<running, requests>>
-----------------------------------------------------------------------------
(***************************************************************************)
(* Routed interfaces: parse_vlan_interfaces.                               *)
(***************************************************************************)
\* find_vlan_with_routing_interface
LinkedNumber(c, n) ==
    LET k == SelectInSeq(c.domains, LAMBDA v : v.link = n)
    IN IF k = 0 THEN NoValue ELSE c.domains[k].number

WithIrb(c, n) ==
    IF HasNamed(c.irbs, n) THEN c.irbs
    ELSE Append(c.irbs, [name |-> n, unit |-> n, vlan |-> LinkedNumber(c, n),
                         ips |-> <<>>, groups |-> <<>>, redirect |-> TRUE])

PlaceOfHost(ips, host) == SelectInSeq(ips, LAMBDA x : x.host = host)

PlaceOfNet(ips, net) == SelectInSeq(ips, LAMBDA x : x.net = net)

\* VlanPort.add_ip: the address of the same host is looked for, and then
\* list.index finds the first of the same network as that.
AddIp(ips, ip) ==
    LET existing == PlaceOfHost(ips, ip.host)
    IN IF existing = 0 THEN Append(ips, ip)
       ELSE [ips EXCEPT ![PlaceOfNet(ips, ips[existing].net)] = ip]

\* VlanPort.remove_ip
RemoveIp(ips, ip) ==
    LET k == PlaceOfHost(ips, ip.host)
    IN IF k = 0 THEN ips ELSE RemoveAt(ips, k)

\* The attributes of a group, again up to the first that fails: priority,
\* then accept-data.  Virtual addresses are replaced, never merged.
GroupAttributes(g, node, ip) ==
    LET seen == [g EXCEPT !.related = ip.net, !.vips = node.vips]
        done == [seen EXCEPT !.attr = NewValue(node.attr, @)]
    IN IF ~Resolves(node.attr, g.attr) THEN seen
       ELSE [done EXCEPT !.accept = (node.accept = "set")]

\* Mutant: the group is looked for among those of the address.
WithGroupOfAddress(groups, node, ip) ==
    IF \E g \in ToSet(groups) : g.id = node.id /\ g.related = ip.net THEN groups
    ELSE Append(groups, [id |-> node.id, related |-> ip.net, vips |-> {},
                         attr |-> NoValue, accept |-> FALSE])

WithGroup(groups, node, ip) ==
    IF \E g \in ToSet(groups) : g.id = node.id THEN groups
    ELSE Append(groups, [id |-> node.id, related |-> ip.net, vips |-> {},
                         attr |-> NoValue, accept |-> FALSE])

\* Deleting a group that does not exist makes one.
ParseGroup(groups, node, ip) ==
    LET known == \E g \in ToSet(groups) : g.id = node.id
        all == WithGroup(groups, node, ip)
        k == SelectInSeq(all, LAMBDA g : g.id = node.id)
    IN IF known /\ node.op = "delete" THEN RemoveAt(groups, k)
       ELSE [all EXCEPT ![k] = GroupAttributes(@, node, ip)]

ParseAddress(irb, node) ==
    CASE node = NoValue -> irb
      [] node # NoValue /\ node.op = "delete" -> [irb EXCEPT !.ips = RemoveIp(@, node.ip)]
      [] node # NoValue /\ node.op = "merge" ->
            [irb EXCEPT !.ips = AddIp(@, node.ip),
                        !.groups = IF node.group = NoValue THEN @
                                   ELSE ParseGroup(@, node.group, node.ip)]

ParseUnit(c, node) ==
    LET irbs == WithIrb(c, node.name)
        k == IndexOfNamed(irbs, {node.name})
        redirect == CASE node.redirects = "absent" -> irbs[k].redirect
                      [] OTHER -> node.redirects = "delete"
    IN [c EXCEPT !.irbs =
           [irbs EXCEPT ![k] = ParseAddress([irbs[k] EXCEPT !.redirect = redirect], node.address)]]

EditUnit(node) ==
    /\ candidate' = ParseUnit(candidate, node)
    /\ UNCHANGED <<running, shared, requests>>

\* <interface operation="delete"> of irb: every routed interface goes; the
\* links of the domains stay.
DeleteRouting ==
    /\ candidate' = [candidate EXCEPT !.irbs = <<>>]
    /\ UNCHANGED <<running, shared, requests>>
-----------------------------------------------------------------------------
(***************************************************************************)
(* The physical port: apply_interface_data with the MX parse_vlan_members. *)
(***************************************************************************)
EnterMode(p, mode) ==
    IF mode = "access" THEN [p EXCEPT !.mode = mode, !.trunk = <<>>]
                       ELSE [p EXCEPT !.mode = mode, !.access = NoValue]

\* list.remove of a member that is not there, or of None, raises.
ParseList(p, node) ==
    CASE node.list = "delete" -> [p EXCEPT !.trunk = <<>>]
      [] node.list = "remove" /\ Contains(p.trunk, node.member) ->
            [p EXCEPT !.trunk = RemoveFirst(@, node.member)]
      [] node.list = "add" -> [p EXCEPT !.trunk = Append(@, node.member)]
      [] OTHER -> p

ParseBridge(p, node) ==
    LET entered == EnterMode(p, NewValue(node.mode, p.mode))
    IN IF ~Resolves(node.mode, p.mode) THEN p
       ELSE ParseList([entered EXCEPT !.access = NewValue(node.id, @)], node)

EditBridge(node) ==
    /\ candidate' = [candidate EXCEPT !.port = ParseBridge(@, node)]
    /\ Len(candidate'.port.trunk) <= MaxTrunk
    /\ UNCHANGED <<running, shared, requests>>
-----------------------------------------------------------------------------
(***************************************************************************)
(* Committing.                                                             *)
(***************************************************************************)
\* No two addresses of the interfaces, gathered in one list, are equal.
DistinctNets(irbs) ==
    \A i, j \in DOMAIN irbs : \A a \in DOMAIN irbs[i].ips, b \in DOMAIN irbs[j].ips :
        irbs[i].ips[a].net = irbs[j].ips[b].net => i = j /\ a = b

MembersOnTrunk(c) == c.port.mode = "trunk" => c.port.trunk # <<>>

\* _validate
Validate(c) == DistinctNets(c.irbs) /\ MembersOnTrunk(c)

\* Mutant: domains are matched by name and number.
CopiedDomainByNumber(c, v) ==
    LET k == SelectInSeq(c, LAMBDA x : x.name = v.name /\ x.number = v.number)
    IN IF k = 0 THEN Append(c, v) ELSE [c EXCEPT ![k] = v]

\* The running domain of that name, its number and link overwritten.
CopiedDomain(c, v) ==
    LET k == IndexOfNamed(c, {v.name})
    IN IF k = 0 THEN Append(c, v) ELSE [c EXCEPT ![k] = v]

DropDomain(cand, all, v) ==
    IF HasNamed(cand, v.name) THEN all ELSE RemoveAt(all, IndexOfNamed(all, {v.name}))

\* The second loop walks a copy of the list that it removes from.
DropDomains(cand, all) == FoldLeft(LAMBDA s, v : DropDomain(cand, s, v), all, all)

CommitDomains(run, cand) == DropDomains(cand, FoldLeft(CopiedDomain, run, cand))

\* The addresses are removed while the list of them is walked, so the
\* one after a removed address is passed over and stays.
DropAt(nets, ips, i) ==
    IF i <= Len(ips) /\ ips[i].net \notin nets THEN RemoveIp(ips, ips[i]) ELSE ips

DropIps(ips, nets) ==
    FoldLeft(LAMBDA s, v : DropAt(nets, s, v), ips, [i \in DOMAIN ips |-> i])

AddMissing(ips, ip) == IF ip.net \in NetsOf(ips) THEN ips ELSE AddIp(ips, ip)

CommitIps(mine, theirs) == FoldLeft(AddMissing, DropIps(mine, NetsOf(theirs)), theirs)

\* Mutant: an interface that running has keeps its VRRP groups.
CopiedIrbKeepingGroups(irbs, u) ==
    LET k == IndexOfNamed(irbs, Matches[u.name])
    IN IF k = 0 THEN Append(irbs, u)
       ELSE [irbs EXCEPT ![k] = [u EXCEPT !.name = irbs[k].name, !.groups = irbs[k].groups,
                                          !.ips = CommitIps(irbs[k].ips, u.ips)]]

\* A routed interface is paired by partial name with the first that matches.
CopiedIrb(irbs, u) ==
    LET k == IndexOfNamed(irbs, Matches[u.name])
    IN IF k = 0 THEN Append(irbs, u)
       ELSE [irbs EXCEPT ![k] = [u EXCEPT !.name = irbs[k].name,
                                          !.ips = CommitIps(irbs[k].ips, u.ips)]]

DropIrb(cand, all, p) ==
    IF IndexOfNamed(cand, Matches[p.name]) # 0 THEN all
    ELSE RemoveAt(all, IndexOfNamed(all, {p.name}))

DropIrbs(cand, all) == FoldLeft(LAMBDA s, v : DropIrb(cand, s, v), all, all)

CommitIrbs(run, cand) == DropIrbs(cand, FoldLeft(CopiedIrb, run, cand))

\* A domain that both had has one dict from now on; a new one is a copy.
Commit ==
    /\ Validate(candidate)
    /\ running' = [domains |-> CommitDomains(running.domains, candidate.domains),
                   irbs |-> CommitIrbs(running.irbs, candidate.irbs),
                   port |-> candidate.port]
    /\ shared' = {n \in Domains : HasNamed(running.domains, n) /\ HasNamed(candidate.domains, n)}
    /\ UNCHANGED <<candidate, requests>>

\* reset: discard-changes, close-session, and a session that goes away.
Discard ==
    /\ candidate' = running
    /\ shared' = {}
    /\ UNCHANGED <<running, requests>>

Edit(r) ==
    \/ r.kind = "domain" /\ EditDomain(r)
    \/ r.kind = "unit" /\ EditUnit(r)
    \/ r.kind = "bridge" /\ EditBridge(r)
    \/ r.kind = "routing" /\ DeleteRouting

Next == (\E r \in requests : Edit(r)) \/ Commit \/ Discard

Spec == Init /\ [][Next]_vars
-----------------------------------------------------------------------------
(***************************************************************************)
(* What a reader sees: _extract_interfaces, vlan_to_etree.  The order of   *)
(* interfaces and addresses is left out.  A group is shown with every      *)
(* address of its network, its attributes with its virtual addresses.      *)
(***************************************************************************)
GroupView(g) ==
    IF g.vips = {} THEN [id |-> g.id, vips |-> {}, attr |-> NoValue, accept |-> FALSE]
    ELSE [id |-> g.id, vips |-> g.vips, attr |-> g.attr, accept |-> g.accept]

AddressView(ip, irb) ==
    [ip |-> ip, groups |-> {GroupView(g) : g \in {h \in ToSet(irb.groups) : h.related = ip.net}}]

IrbView(irb) == [unit |-> irb.unit, redirect |-> irb.redirect,
                 addresses |-> {AddressView(ip, irb) : ip \in ToSet(irb.ips)}]

View(c) == [domains |-> ToSet(c.domains), irbs |-> {IrbView(irb) : irb \in ToSet(c.irbs)},
            port |-> c.port]
-----------------------------------------------------------------------------
(***************************************************************************)
(* Properties.                                                             *)
(***************************************************************************)
Configurations == {candidate, running}

TypeOK ==
    /\ \A c \in Configurations :
          /\ c.domains \in Seq(Domain)
          /\ c.irbs \in Seq(VlanPort)
          /\ c.port \in Port
          /\ \A i, j \in DOMAIN c.domains : c.domains[i].name = c.domains[j].name => i = j
          /\ \A i, j \in DOMAIN c.irbs : c.irbs[i].name = c.irbs[j].name => i = j
    /\ \A n \in shared : \A c \in Configurations : HasNamed(c.domains, n)

\* An interface has a VRRP group id once, however groups were deleted, moved
\* to another address, or left behind by the address they were given with:
\* get_vrrp_group finds the first, a second would never be reached.
GroupsOnce ==
    \A c \in Configurations : \A irb \in ToSet(c.irbs) :
        \A i, j \in DOMAIN irb.groups : irb.groups[i].id = irb.groups[j].id => i = j

\* No lookup of a routed interface finds one of another name.
NamesApart ==
    \A c, d \in Configurations : \A p \in ToSet(c.irbs), q \in ToSet(d.irbs) :
        q.name \in Matches[p.name] => q.name = p.name

\* No two neighbours of the list mine are dropped, hosts differ in a list,
\* and a network that stays keeps its host.
DropsApart(mine, theirs) ==
    /\ \A i \in 1..(Len(mine) - 1) : {mine[i].net, mine[i + 1].net} \cap NetsOf(theirs) # {}
    /\ \A ips \in {mine, theirs} : \A i, j \in DOMAIN ips : ips[i].host = ips[j].host => i = j
    /\ \A ip \in ToSet(mine), jp \in ToSet(theirs) : ip.net = jp.net => ip = jp

\* What a commit publishes is what a reader of the candidate saw, when the
\* names of routed interfaces are apart and the commit drops no two
\* neighbouring addresses: domains, addresses, groups and members alike.
CommitPublishes ==
    [][(/\ Commit
        /\ NamesApart
        /\ \A p \in ToSet(running.irbs), q \in ToSet(candidate.irbs) :
              p.name = q.name => DropsApart(p.ips, q.ips))
       => View(running') = View(candidate)]_vars

\* No two addresses in service are in one subnet: a commit that would bring
\* them there is refused with "Overlapping subnet is configured".
SubnetsDistinct == DistinctNets(running.irbs)
=============================================================================
