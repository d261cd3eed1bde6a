-------------------------- MODULE NetworkOwnership --------------------------
(***************************************************************************)
(* What the ip address commands of a switch promise: every network belongs *)
(* to one interface or to nobody.  An interface takes one network at a     *)
(* time, of those that belong to nobody, and gives up any of its own.      *)
(***************************************************************************)
CONSTANTS Networks, Interfaces, Nobody

VARIABLE owner  \* owner[n]: the interface that has network n

Init == owner = [n \in Networks |-> Nobody]

Change(i) ==
    \E given \in SUBSET {n \in Networks : owner[n] = i} :
        /\ \/ owner' = [n \in Networks |-> IF n \in given THEN Nobody ELSE owner[n]]
           \/ \E taken \in Networks :
                 /\ owner[taken] = Nobody
                 /\ owner' = [n \in Networks |-> IF n = taken THEN i
                                                 ELSE IF n \in given THEN Nobody ELSE owner[n]]

Next == \E i \in Interfaces : Change(i)

Spec == Init /\ [][Next]_owner
=============================================================================
