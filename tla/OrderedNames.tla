---------------------------- MODULE OrderedNames ----------------------------
(***************************************************************************)
(* The lists of named objects a SwitchConfiguration keeps (`vlans`,        *)
(* `ports`).  The code appends to them, removes from them and searches     *)
(* them for the FIRST object that fits, so what matters is which names are *)
(* in the list and which was added before which.  A list of objects with   *)
(* distinct names is modelled by its order: the set of all pairs <<m, n>>  *)
(* such that m is in the list at or before the place of n.  Unlike a       *)
(* sequence, it filters and merges without recursion.                      *)
(***************************************************************************)

\* The names of the objects in the list.
Names(l) == {pair[1] : pair \in l}

\* The list [n].append(...) of one object added at the end.
AddName(l, n) == l \cup ((Names(l) \cup {n}) \X {n})

\* The list less every object whose name is not in S.
KeepNames(l, S) == l \cap (S \X S)

\* The list less one object.
RemoveName(l, n) == KeepNames(l, Names(l) \ {n})

\* The objects of k, in their order, added at the end of l.
JoinNames(l, k) == l \cup k \cup (Names(l) \X Names(k))

\* Does the list hold an object with a name in S?
HoldsOneOf(l, S) == Names(l) \cap S # {}

\* The first, and the last, object of the list with a name in S.
FirstOf(l, S) ==
    CHOOSE n \in Names(l) \cap S : \A m \in Names(l) \cap S : <<n, m>> \in l

LastOf(l, S) ==
    CHOOSE n \in Names(l) \cap S : \A m \in Names(l) \cap S : <<m, n>> \in l

\* l is the order of a finite list of distinct names of U: every non-empty
\* set of its members has a first and a last one.
IsNameList(l, U) ==
    /\ Names(l) \subseteq U
    /\ l \subseteq Names(l) \X Names(l)
    /\ \A m, n \in U : <<m, n>> \in l /\ <<n, m>> \in l => m = n
    /\ \A S \in SUBSET Names(l) : S # {} =>
          /\ \E n \in S : \A m \in S : <<n, m>> \in l
          /\ \E n \in S : \A m \in S : <<m, n>> \in l
=============================================================================
