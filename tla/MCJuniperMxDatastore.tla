------------------------ MODULE MCJuniperMxDatastore ------------------------
(***************************************************************************)
(* Instances of JuniperMxDatastore for TLC.                                *)
(***************************************************************************)
EXTENDS JuniperMxDatastore

CONSTANTS id10, id20

\* get_port_by_partial_name: irb. in front, the digits at the end.
MCMatches == [n \in Irbs |-> IF n = "irb.10" THEN Irbs \cap {"irb.10", "irb.110"} ELSE {n}]

DomainEdit(n, op, number, link) ==
    [kind |-> "domain", name |-> n, op |-> op, number |-> number, link |-> link]

UnitEdit(n, address) ==
    [kind |-> "unit", name |-> n, redirects |-> "absent", address |-> address]

AddressEdit(n, op, host, net) ==
    UnitEdit(n, [op |-> op, ip |-> [host |-> host, net |-> net], group |-> NoValue])

GroupEdit(n, host, net, group) ==
    UnitEdit(n, [op |-> "merge", ip |-> [host |-> host, net |-> net], group |-> group])

BridgeEdit(mode, id, list, member) ==
    [kind |-> "bridge", mode |-> mode, id |-> id, list |-> list, member |-> member]

RoutingDelete == [kind |-> "routing", op |-> "delete"]

Group(op, vips, attr, accept) ==
    [id |-> 1, op |-> op, vips |-> vips, attr |-> attr, accept |-> accept]

DomainEdits ==
    {DomainEdit("d1", "merge", id10, "irb.10"), DomainEdit("d1", "merge", "absent", "delete"),
     DomainEdit("d1", "delete", "absent", "absent"), UnitEdit("irb.10", NoValue),
     DomainEdit("d2", "merge", id20, "irb.10"), DomainEdit("d2", "merge", "delete", "absent")}

\* Four addresses, host h1 with two prefix lengths, h2 in the subnet of h1.
AddressEdits ==
    {AddressEdit("irb.10", op, ip[1], ip[2]) :
        op \in {"merge", "delete"}, ip \in {<<"h1", "n1">>, <<"h3", "n3">>}}
    \cup {AddressEdit("irb.10", "merge", "h2", "n1"), AddressEdit("irb.10", "merge", "h1", "n2")}

\* A second interface, whose name ends like that of the first.
PairedEdits == {AddressEdit("irb.110", "merge", "h3", "n3"), RoutingDelete}

GroupEdits ==
    {GroupEdit("irb.10", "h1", "n1", Group("merge", {"vip"}, "set", "set")),
     GroupEdit("irb.10", "h1", "n1", Group("merge", {}, "delete", "absent")),
     GroupEdit("irb.10", "h3", "n3", Group("merge", {"vip"}, "absent", "absent")),
     GroupEdit("irb.10", "h3", "n3", Group("delete", {}, "absent", "delete"))}

BridgeEdits ==
    {BridgeEdit("trunk", "absent", "add", id10), BridgeEdit("absent", "absent", "remove", id10),
     BridgeEdit("access", id10, "absent", id10), BridgeEdit("delete", "delete", "add", id20)}

\* Domains and their links; addresses and VRRP groups; two interfaces; the
\* physical port.
MxWorkloads ==
    {DomainEdits \cup {RoutingDelete}, AddressEdits \cup GroupEdits, AddressEdits \cup PairedEdits,
     BridgeEdits \cup {DomainEdit("d1", "merge", id10, "absent"), UnitEdit("irb.10", NoValue)}}

\* Two addresses that come and go on one interface, one of them given to
\* another as well.
OverlapWorkloads ==
    {{AddressEdit("irb.10", op, ip[1], ip[2]) :
        op \in {"merge", "delete"}, ip \in {<<"h1", "n1">>, <<"h3", "n3">>}}
     \cup {AddressEdit("irb.20", "merge", "h3", "n3")}}
=============================================================================
