------------------------- MODULE MCRoutedInterfaces -------------------------
(***************************************************************************)
(* RoutedInterfaces for TLC, with the running configuration.               *)
(***************************************************************************)
EXTENDS RoutedConfig, TLC

CONSTANT other

SessionSymmetry == Permutations(Sessions)

\* Two networks with nothing in common.
Left == {1, 2}
PlainIps == {[address |-> 1, network |-> Left], [address |-> 2, network |-> Left],
             [address |-> 3, network |-> {3}]}

\* One network of three addresses: two may be secondary ones.
WideIps == {[address |-> a, network |-> Addresses] : a \in Addresses}

\* One network inside another, and an address that is typed with both.
NestedIps == {[address |-> 1, network |-> {1}], [address |-> 2, network |-> Left],
              [address |-> 1, network |-> Left]}

\* The same with the narrow network above the address of the wide one.
MirroredIps == {[address |-> 2, network |-> {2}], [address |-> 1, network |-> Left],
                [address |-> 2, network |-> Left]}

Makes == {"brocade", "cisco", "arista"}

UseOf(makes, ips, varps, names, groups) ==
    [vendor : makes, ips : {ips}, varps : {varps}, vrfs : {names}, groups : {groups}]

\* Addresses of every kind of network, virtual-router addresses, addresses and
\* vrfs, and groups.
MCUses ==
    UseOf(Makes, PlainIps, {}, {}, {})
        \cup UseOf(Makes, NestedIps, {}, {}, {})
        \cup UseOf({"brocade"}, MirroredIps, {}, {}, {})
        \cup UseOf({"brocade"}, WideIps, {}, {}, {})
        \cup UseOf({"arista"}, {}, NestedIps, {}, {})
        \cup UseOf({"brocade", "cisco"}, {ip \in PlainIps : ip.network = Left}, {}, Vrfs, {})
        \cup UseOf({"brocade", "cisco"}, {}, {}, {}, Groups)
=============================================================================
