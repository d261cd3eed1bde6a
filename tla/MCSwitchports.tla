--------------------------- MODULE MCSwitchports ---------------------------
(***************************************************************************)
(* Switchports for TLC.  The numbers are 1 and 11: what is called Vlan1 is *)
(* also found as Vlan11.                                                   *)
(***************************************************************************)
EXTENDS RunningConfig, TLC

MCEndsWith == [n \in Numbers |-> IF n = 1 THEN {1, 11} \cap Numbers ELSE {n}]

\* Of the numbers that are used, 10 and 11 have two digits.
MCTextBefore ==
    [n \in Numbers |-> {m \in Numbers : IF n < 10 /\ m >= 10 THEN n > 1
                                        ELSE IF m < 10 /\ n >= 10 THEN m = 1
                                        ELSE m < n}]

MCInitialPorts ==
    LET Built(n) == [kind |-> "port", number |-> n, vlan |-> NoValue]
    IN {<<Built(pair[1]), Built(pair[2])>> :
          pair \in {p \in Physical \X Physical : p[1] <= p[2]}}

Interfaces(kinds) == {name \in Name : name.kind \in kinds /\ (name.kind = "port" => name.number = 1)}

\* Aggregates and vlan interfaces that come and go, and a port that is
\* configured: each on its own, except for Brocade, where the vlans tie them
\* together.  Two ports of a Brocade share the lines of the vlans they are in.
MCUses ==
    {[vendor |-> v, names |-> Interfaces(kinds), edited |-> {}] :
        v \in Vendors \ {"brocade"}, kinds \in {{"port", "channel"}, {"vlan"}}}
      \cup {[vendor |-> v, names |-> Interfaces({"port"}), edited |-> Interfaces({"port"})] :
        v \in Vendors \ {"brocade"}}
      \cup {[vendor |-> "brocade", names |-> Interfaces({"port", "ve"}),
             edited |-> Interfaces({"port"})]}
      \cup {[vendor |-> "brocade", names |-> {},
             edited |-> [kind : {"port"}, number : Physical]]}

\* One port of a Dell or Arista switch.
ListUses ==
    {[vendor |-> v, names |-> Interfaces({"port"}), edited |-> Interfaces({"port"})] :
        v \in {"dell", "dell10g", "arista"}}

Symmetry == Permutations(Sessions)
=============================================================================
