------------------------- MODULE MCNetconfDatastore -------------------------
(***************************************************************************)
(* Instances of NetconfDatastore for TLC: a switch built with one physical *)
(* port, aggregates that a request may create, and requests that cover     *)
(* every element the parsers handle.                                       *)
(***************************************************************************)
EXTENDS NetconfCommitLoop

CONSTANTS id1, id2, d1

\* get_port_by_partial_name: same letters, number ends alike.
MCMatches == [n \in PortNames |-> IF n = "ae1" THEN {"ae1", "ae11"} \cap PortNames ELSE {n}]

PhysicalOnly == {<<"ge1", "ge1">>}

\* A node of an edit, from the fields that are not absent.
NoNode == [name |-> "ge1", op |-> "merge", descr |-> "absent", unit |-> "absent",
           mode |-> "absent", vlan |-> "absent", ids |-> <<>>, native |-> "absent"]

VlanEdit(n, op, x) ==
    [vlan |-> [name |-> n, op |-> op, number |-> x],
     interface |-> NoValue, rstp |-> NoValue, bad |-> FALSE]

PortEdit(node) == [vlan |-> NoValue, interface |-> node, rstp |-> NoValue, bad |-> FALSE]

EdgeEdit(n, edge) ==
    [vlan |-> NoValue, interface |-> NoValue, rstp |-> [name |-> n, edge |-> edge], bad |-> FALSE]

Switching(n) == [NoNode EXCEPT !.name = n, !.unit = "switching"]

\* Requests for the QFX: native-vlan-id outside the family, rstp, resets.
QfxEdits ==
    {VlanEdit("v1", "merge", id1), VlanEdit("v1", "merge", "delete"),
     VlanEdit("v2", "merge", id2), VlanEdit("v2", "delete", "absent"),
     PortEdit([Switching("ge1") EXCEPT !.mode = "trunk", !.vlan = "add", !.ids = <<id1, id2>>]),
     PortEdit([Switching("ge1") EXCEPT !.vlan = "remove", !.ids = <<id2>>]),
     PortEdit([Switching("ge1") EXCEPT !.mode = "access", !.vlan = "add", !.ids = <<id1>>]),
     PortEdit([NoNode EXCEPT !.native = id2]),
     PortEdit([NoNode EXCEPT !.native = "delete", !.unit = "delete"]),
     PortEdit([NoNode EXCEPT !.op = "delete"]),
     EdgeEdit("ge1", "merge")}

\* Aggregates ae1 and ae11, a missing physical port, an invalid name, an edit
\* that fails after its vlan is written, and rstp on an aggregate.
AggregateEdits ==
    {PortEdit([Switching("ae1") EXCEPT !.native = id1]),
     PortEdit([NoNode EXCEPT !.name = "ae11", !.descr = d1]),
     PortEdit([NoNode EXCEPT !.name = "ae1", !.descr = "delete", !.op = "replace"]),
     PortEdit([NoNode EXCEPT !.name = "ae11", !.op = "delete"]),
     [VlanEdit("v1", "merge", id1) EXCEPT !.interface = [NoNode EXCEPT !.name = "ge9"]],
     [VlanEdit("v1", "delete", "absent") EXCEPT !.interface = [NoNode EXCEPT !.name = "bad"]],
     EdgeEdit("ae11", "merge"), EdgeEdit("ae1", "delete"), EdgeEdit("ae1", "absent")}

LockEdits == {VlanEdit("v1", "merge", id1), VlanEdit("v1", "delete", "absent")}

RstpEdits == LockEdits \cup {EdgeEdit("ge1", "merge"), PortEdit(NoNode), PortEdit(Switching("ge1")),
                             [EdgeEdit("ge1", "delete") EXCEPT !.bad = TRUE]}
=============================================================================
