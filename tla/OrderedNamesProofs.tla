------------------------- MODULE OrderedNamesProofs -------------------------
(***************************************************************************)
(* Lemmas about name lists, for every set U of names.                      *)
(***************************************************************************)
EXTENDS OrderedNames, TLAPS

\* The empty list is a name list: a datastore starts without vlans.
LEMMA EmptyNameList ==
    ASSUME NEW U
    PROVE  /\ IsNameList({}, U)
           /\ Names({}) = {}
BY DEF IsNameList, Names, HoldsOneOf

\* What fits is searched in the list only: there is a first and a last one.
LEMMA NameListSearch ==
    ASSUME NEW U, NEW l, IsNameList(l, U), NEW S, HoldsOneOf(l, S)
    PROVE  /\ \E n \in Names(l) \cap S : \A m \in Names(l) \cap S : <<n, m>> \in l
           /\ \E n \in Names(l) \cap S : \A m \in Names(l) \cap S : <<m, n>> \in l
<1>1. Names(l) \cap S \in SUBSET Names(l) /\ Names(l) \cap S # {}
  BY DEF HoldsOneOf
<1> QED
  BY <1>1 DEF IsNameList

\* A member of a list is in relation with itself.
LEMMA NameListReflexive ==
    ASSUME NEW U, NEW l, IsNameList(l, U), NEW n \in Names(l)
    PROVE  n \in U /\ <<n, n>> \in l
<1>1. n \in U
  BY DEF IsNameList
<1>2. HoldsOneOf(l, {n}) /\ {n} \in SUBSET U
  BY <1>1 DEF HoldsOneOf
<1>3. PICK k \in Names(l) \cap {n} : \A m \in Names(l) \cap {n} : <<k, m>> \in l
  BY <1>2, NameListSearch
<1> QED
  BY <1>1, <1>3

\* Filtering a list keeps exactly the members that pass the filter: the
\* second loops of commit_candidate, and remove_vlan.
LEMMA KeepNamesProperties ==
    ASSUME NEW U, NEW l, IsNameList(l, U), NEW S
    PROVE  /\ Names(KeepNames(l, S)) = Names(l) \cap S
           /\ IsNameList(KeepNames(l, S), U)
<1> DEFINE k == KeepNames(l, S)
<1>1. Names(k) = Names(l) \cap S
  <2>1. ASSUME NEW n \in Names(k) PROVE n \in Names(l) \cap S
    BY DEF Names, KeepNames
  <2>2. ASSUME NEW n \in Names(l) \cap S PROVE n \in Names(k)
    <3>1. <<n, n>> \in k
      BY NameListReflexive DEF KeepNames
    <3> QED
      BY <3>1 DEF Names
  <2> QED
    BY <2>1, <2>2
<1>2. Names(k) \subseteq U
  BY <1>1 DEF IsNameList
<1>3. k \subseteq Names(k) \X Names(k)
  BY <1>1 DEF IsNameList, KeepNames
<1>4. \A m, n \in U : <<m, n>> \in k /\ <<n, m>> \in k => m = n
  BY DEF IsNameList, KeepNames
<1>5. ASSUME NEW T \in SUBSET Names(k), T # {}
      PROVE  /\ \E n \in T : \A m \in T : <<n, m>> \in k
             /\ \E n \in T : \A m \in T : <<m, n>> \in k
  <2>1. T \in SUBSET Names(l) /\ T \subseteq S
    BY <1>1
  <2>2. PICK a \in T : \A m \in T : <<a, m>> \in l
    BY <1>5, <2>1 DEF IsNameList
  <2>3. PICK z \in T : \A m \in T : <<m, z>> \in l
    BY <1>5, <2>1 DEF IsNameList
  <2>4. \A m \in T : <<a, m>> \in k /\ <<m, z>> \in k
    BY <2>1, <2>2, <2>3 DEF KeepNames
  <2> QED
    BY <2>4
<1> QED
  BY <1>1, <1>2, <1>3, <1>4, <1>5 DEF IsNameList

\* Appending a list of other names to a list: the vlans and ports that a
\* commit adds to running.
LEMMA JoinNamesProperties ==
    ASSUME NEW U, NEW l, IsNameList(l, U), NEW k, IsNameList(k, U),
           Names(l) \cap Names(k) = {}
    PROVE  /\ Names(JoinNames(l, k)) = Names(l) \cup Names(k)
           /\ IsNameList(JoinNames(l, k), U)
<1> DEFINE j == JoinNames(l, k)
<1>0. l \subseteq Names(l) \X Names(l) /\ k \subseteq Names(k) \X Names(k)
  BY DEF IsNameList
<1>1. Names(j) = Names(l) \cup Names(k)
  BY DEF Names, JoinNames
<1>2. Names(j) \subseteq U
  BY <1>1 DEF IsNameList
<1>3. j \subseteq Names(j) \X Names(j)
  BY <1>0, <1>1 DEF JoinNames
<1>4. \A m, n \in U : <<m, n>> \in j /\ <<n, m>> \in j => m = n
  BY <1>0 DEF IsNameList, JoinNames
<1>5. ASSUME NEW T \in SUBSET Names(j), T # {}
      PROVE  /\ \E n \in T : \A m \in T : <<n, m>> \in j
             /\ \E n \in T : \A m \in T : <<m, n>> \in j
  <2>1. CASE T \in SUBSET Names(l) \/ T \in SUBSET Names(k)
    <3>1. \/ /\ \E n \in T : \A m \in T : <<n, m>> \in l
             /\ \E n \in T : \A m \in T : <<m, n>> \in l
          \/ /\ \E n \in T : \A m \in T : <<n, m>> \in k
             /\ \E n \in T : \A m \in T : <<m, n>> \in k
      BY <1>5, <2>1 DEF IsNameList
    <3> QED
      BY <3>1 DEF JoinNames
  <2>2. CASE HoldsOneOf(l, T) /\ HoldsOneOf(k, T)
    <3>1. PICK a \in Names(l) \cap T : \A m \in Names(l) \cap T : <<a, m>> \in l
      BY <2>2, NameListSearch
    <3>2. PICK z \in Names(k) \cap T : \A m \in Names(k) \cap T : <<m, z>> \in k
      BY <2>2, NameListSearch
    <3>3. \A m \in T : <<a, m>> \in j /\ <<m, z>> \in j
      BY <1>1, <1>5, <3>1, <3>2 DEF JoinNames
    <3> QED
      BY <3>1, <3>2, <3>3
  <2> QED
    BY <1>1, <2>1, <2>2 DEF HoldsOneOf
<1> QED
  BY <1>1, <1>2, <1>3, <1>4, <1>5 DEF IsNameList

\* Appending one object of a new name: add_vlan and add_port.
LEMMA AddNameProperties ==
    ASSUME NEW U, NEW l, IsNameList(l, U), NEW n \in U, n \notin Names(l)
    PROVE  /\ Names(AddName(l, n)) = Names(l) \cup {n}
           /\ IsNameList(AddName(l, n), U)
<1> DEFINE k == {<<n, n>>}
<1>1. Names(k) = {n}
  BY DEF Names
<1>2. IsNameList(k, U)
  <2>1. k \subseteq Names(k) \X Names(k) /\ Names(k) \subseteq U
    BY <1>1
  <2>2. \A m, p \in U : <<m, p>> \in k /\ <<p, m>> \in k => m = p
    OBVIOUS
  <2>3. ASSUME NEW T \in SUBSET Names(k), T # {}
        PROVE  /\ \E p \in T : \A m \in T : <<p, m>> \in k
               /\ \E p \in T : \A m \in T : <<m, p>> \in k
    BY <1>1, <2>3
  <2> HIDE DEF k
  <2> QED
    BY <2>1, <2>2, <2>3 DEF IsNameList
<1>3. AddName(l, n) = JoinNames(l, k)
  BY <1>1 DEF AddName, JoinNames
<1> QED
  BY <1>1, <1>2, <1>3, JoinNamesProperties

\* The first object with a name in S is one, it precedes every other, and it
\* is the only one that does: what next(... for ... in list) returns.
LEMMA FirstOfProperties ==
    ASSUME NEW U, NEW l, IsNameList(l, U), NEW S, HoldsOneOf(l, S)
    PROVE  /\ FirstOf(l, S) \in Names(l) \cap S
           /\ \A m \in Names(l) \cap S : <<FirstOf(l, S), m>> \in l
           /\ \A n \in Names(l) \cap S :
                (\A m \in Names(l) \cap S : <<n, m>> \in l) => n = FirstOf(l, S)
<1>0. Names(l) \subseteq U
  BY DEF IsNameList
<1>1. HoldsOneOf(l, S \cap U) /\ (S \cap U) \in SUBSET U
  BY <1>0 DEF HoldsOneOf
<1>2. \E n \in Names(l) \cap S : \A m \in Names(l) \cap S : <<n, m>> \in l
  <2>1. PICK n \in Names(l) \cap (S \cap U) :
            \A m \in Names(l) \cap (S \cap U) : <<n, m>> \in l
    BY <1>1, NameListSearch
  <2> QED
    BY <1>0, <2>1
<1>3. /\ FirstOf(l, S) \in Names(l) \cap S
      /\ \A m \in Names(l) \cap S : <<FirstOf(l, S), m>> \in l
  BY <1>2 DEF FirstOf
<1>4. ASSUME NEW n \in Names(l) \cap S, \A m \in Names(l) \cap S : <<n, m>> \in l
      PROVE  n = FirstOf(l, S)
  BY <1>0, <1>3, <1>4 DEF IsNameList
<1> QED
  BY <1>3, <1>4

\* The last object with a name in S is one, every other precedes it, and it is
\* the only one that they precede.
LEMMA LastOfProperties ==
    ASSUME NEW U, NEW l, IsNameList(l, U), NEW S, HoldsOneOf(l, S)
    PROVE  /\ LastOf(l, S) \in Names(l) \cap S
           /\ \A m \in Names(l) \cap S : <<m, LastOf(l, S)>> \in l
           /\ \A n \in Names(l) \cap S :
                (\A m \in Names(l) \cap S : <<m, n>> \in l) => n = LastOf(l, S)
<1>0. Names(l) \subseteq U
  BY DEF IsNameList
<1>1. \E n \in Names(l) \cap S : \A m \in Names(l) \cap S : <<m, n>> \in l
  BY NameListSearch
<1>2. /\ LastOf(l, S) \in Names(l) \cap S
      /\ \A m \in Names(l) \cap S : <<m, LastOf(l, S)>> \in l
  BY <1>1 DEF LastOf
<1>3. ASSUME NEW n \in Names(l) \cap S, \A m \in Names(l) \cap S : <<m, n>> \in l
      PROVE  n = LastOf(l, S)
  BY <1>0, <1>2, <1>3 DEF IsNameList
<1>. QED
  BY <1>2, <1>3

\* Filtering a list leaves the last of what stays.
LEMMA LastOfKept ==
    ASSUME NEW U, NEW l, IsNameList(l, U), NEW S, NEW T, T \subseteq Names(l) \cap S, T # {}
    PROVE  LastOf(KeepNames(l, S), T) = LastOf(l, T)
<1>. DEFINE k == KeepNames(l, S)
<1>1. Names(k) = Names(l) \cap S /\ IsNameList(k, U)
  BY KeepNamesProperties
<1>2. Names(l) \cap T = T /\ Names(k) \cap T = T /\ HoldsOneOf(l, T) /\ HoldsOneOf(k, T)
  BY <1>1 DEF HoldsOneOf
<1>3. LastOf(l, T) \in T /\ \A m \in T : <<m, LastOf(l, T)>> \in l
  BY <1>2, LastOfProperties
<1>4. \A m \in T : <<m, LastOf(l, T)>> \in k
  BY <1>3 DEF KeepNames
<1>5. LastOf(k, T) = LastOf(l, T)
  <2>. HIDE DEF k
  <2>. QED
    BY <1>1, <1>2, <1>3, <1>4, LastOfProperties
<1>. QED
  BY <1>5

\* The order of a list is transitive.
LEMMA NameListTransitive ==
    ASSUME NEW U, NEW l, IsNameList(l, U), NEW a, NEW b, NEW c,
           <<a, b>> \in l, <<b, c>> \in l
    PROVE  <<a, c>> \in l
<1>1. {a, b, c} \in SUBSET Names(l) /\ {a, b, c} # {} /\ Names(l) \subseteq U
  BY DEF IsNameList
<1>2. PICK z \in {a, b, c} : \A m \in {a, b, c} : <<m, z>> \in l
  BY <1>1 DEF IsNameList
<1>3. \A m, n \in {a, b, c} : <<m, n>> \in l /\ <<n, m>> \in l => m = n
  BY <1>1 DEF IsNameList
<1>. QED
  BY <1>2, <1>3

\* Two functions of the sets of names that agree at {}, and at a set whenever they
\* agree at the set less its last name, agree: H, what a loop through the list
\* computes, is found by guessing F.
LEMMA LoopsAgree ==
    ASSUME NEW U, NEW l, IsNameList(l, U), NEW H, NEW F, H[{}] = F[{}],
           \A T \in SUBSET Names(l) :
              T # {} /\ H[T \ {LastOf(l, T)}] = F[T \ {LastOf(l, T)}] => H[T] = F[T]
    PROVE  \A T \in SUBSET Names(l) : H[T] = F[T]
<1>. SUFFICES ASSUME NEW T \in SUBSET Names(l) PROVE H[T] = F[T]
  OBVIOUS
<1>. DEFINE UpTo(n) == {m \in T : <<m, n>> \in l}
            Differ == {n \in T : H[UpTo(n)] # F[UpTo(n)]}
<1>1. Names(l) \subseteq U /\ \A n \in T : <<n, n>> \in l
  BY NameListReflexive DEF IsNameList
<1>2. \A S \in SUBSET T : S # {} => /\ LastOf(l, S) \in S
                                    /\ \A m \in S : <<m, LastOf(l, S)>> \in l
  <2>. TAKE S \in SUBSET T
  <2>1. S # {} => HoldsOneOf(l, S) /\ Names(l) \cap S = S
    BY DEF HoldsOneOf
  <2>. QED
    BY <2>1, LastOfProperties
<1>3. \A S \in SUBSET T : \A n \in S : (\A m \in S : <<m, n>> \in l) => n = LastOf(l, S)
  <2>. TAKE S \in SUBSET T
  <2>. TAKE n \in S
  <2>1. HoldsOneOf(l, S) /\ Names(l) \cap S = S
    BY DEF HoldsOneOf
  <2>. QED
    BY <2>1, LastOfProperties
<1>4. \A n \in T : n = LastOf(l, UpTo(n)) /\ n \in UpTo(n)
  BY <1>1, <1>3
<1>5. Differ = {}
  <2>. SUFFICES ASSUME Differ # {} PROVE FALSE
    OBVIOUS
  <2>1. PICK n \in Differ : \A m \in Differ : <<n, m>> \in l
    <3>1. Differ \in SUBSET Names(l)
      OBVIOUS
    <3>. HIDE DEF Differ
    <3>. QED
      BY <3>1 DEF IsNameList
  <2>. DEFINE S == UpTo(n) \ {n}
  <2>2. n \in T /\ H[UpTo(n)] # F[UpTo(n)] /\ UpTo(n) \in SUBSET Names(l) /\ UpTo(n) # {}
    BY <1>4
  <2>3. H[S] = F[S]
    <3>1. CASE S = {}
      BY <3>1
    <3>2. CASE S # {}
      <4>. DEFINE k == LastOf(l, S)
      <4>1. S \in SUBSET T
        OBVIOUS
      <4>2. k \in S /\ \A m \in S : <<m, k>> \in l
        BY <1>2, <3>2, <4>1
      <4>. HIDE DEF k
      <4>3. k \in T /\ k # n /\ <<k, n>> \in l
        BY <4>2
      <4>4. UpTo(k) = S
        <5>1. \A m \in T : <<m, k>> \in l => <<m, n>> \in l
          BY <4>3, NameListTransitive
        <5>2. <<n, k>> \notin l
          BY <1>1, <2>2, <4>3 DEF IsNameList
        <5>. QED
          BY <4>2, <5>1, <5>2
      <4>5. <<n, k>> \notin l
        BY <1>1, <2>2, <4>3 DEF IsNameList
      <4>6. k \notin Differ
        BY <2>1, <4>5
      <4>7. H[UpTo(k)] = F[UpTo(k)]
        BY <4>3, <4>6
      <4>. QED
        BY <4>4, <4>7
    <3>. QED
      BY <3>1, <3>2
  <2>4. S = UpTo(n) \ {LastOf(l, UpTo(n))}
    BY <1>4, <2>2
  <2>5. H[UpTo(n)] = F[UpTo(n)]
    <3>. HIDE DEF S, Differ, UpTo
    <3>. QED
      BY <2>2, <2>3, <2>4
  <2>. QED
    BY <2>2, <2>5
<1>6. CASE T = {}
  BY <1>6
<1>7. CASE T # {}
  <2>1. LastOf(l, T) \in T /\ UpTo(LastOf(l, T)) = T
    BY <1>2, <1>7
  <2>2. LastOf(l, T) \notin Differ
    BY <1>5
  <2>. QED
    BY <2>1, <2>2
<1>. QED
  BY <1>6, <1>7
=============================================================================
