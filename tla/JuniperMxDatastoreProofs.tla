---------------------- MODULE JuniperMxDatastoreProofs ----------------------
(***************************************************************************)
(* Proofs about JuniperMxDatastore, for all names, lookups and requests.   *)
(***************************************************************************)
EXTENDS JuniperMxDatastore, SequenceTheorems, WellFoundedInduction, TLAPS

-----------------------------------------------------------------------------
(***************************************************************************)
(* Folds.  FoldLeft goes through the sets of places of a list; what a      *)
(* fold is after each place is a run of its step (FoldRuns), and an        *)
(* invariant of the places holds of the last one (RunReaches).             *)
(***************************************************************************)
LEMMA LeastExists ==
    ASSUME NEW T \in SUBSET Nat, T # {}
    PROVE  \E k \in T : \A j \in T : k <= j
<1>1. PICK k \in T : \A j \in T : ~(<<j, k>> \in OpToRel(<, Nat))
  BY NatLessThanWellFounded, WFMin, Zenon
<1>2. \A j \in T : ~(j < k)
  BY <1>1 DEF OpToRel
<1> QED
  BY <1>2

\* m is the greatest number of t.
IsGreatest(m, t) == m \in t /\ \A k \in t : k <= m

LEMMA GreatestExists ==
    ASSUME NEW n \in Nat, NEW t \in SUBSET (1..n), t # {}
    PROVE  \E m \in t : IsGreatest(m, t)
<1>. DEFINE T == {k \in Nat : t \subseteq 1..k}
<1>1. n \in T
  OBVIOUS
<1>2. PICK k \in T : \A j \in T : k <= j
  BY <1>1, LeastExists
<1>3. k \in t
  <2>. SUFFICES ASSUME k \notin t PROVE FALSE
    OBVIOUS
  <2>1. k # 0
    <3>1. t \subseteq 1..k
      BY <1>2
    <3>2. k = 0 => 1..k = {}
      OBVIOUS
    <3>. HIDE DEF T
    <3>. QED
      BY <3>1, <3>2
  <2>2. k - 1 \in T
    BY <1>2, <2>1
  <2>. QED
    BY <1>2, <2>2
<1>. QED
  BY <1>2, <1>3 DEF IsGreatest

\* F is the fold with G over the sets of the first n places of seq.
Folds(F, G, base, seq, n) ==
    /\ F[{}] = base
    /\ \A t \in SUBSET (1..n), m \in 1..n :
          IsGreatest(m, t) => F[t] = G[<<F[t \ {m}], seq[m]>>]

LEMMA FoldExists ==
    ASSUME NEW S, NEW L, NEW G \in [S \X L -> S], NEW base \in S, NEW seq \in Seq(L)
    PROVE  \E F \in [SUBSET (1..Len(seq)) -> S] : Folds(F, G, base, seq, Len(seq))
<1>. DEFINE Exists(n) == \E F \in [SUBSET (1..n) -> S] : Folds(F, G, base, seq, n)
            T == {n \in 0..Len(seq) : ~Exists(n)}
<1>. HIDE DEF Exists
<1>. SUFFICES ASSUME T # {} PROVE FALSE
  <2>. SUFFICES ASSUME ~Exists(Len(seq)) PROVE FALSE
    BY DEF Exists
  <2>1. Len(seq) \in T
    OBVIOUS
  <2>. QED
    BY <2>1
<1>1. PICK n \in T : \A j \in T : n <= j
  <2>1. T \in SUBSET Nat
    OBVIOUS
  <2>. HIDE DEF T
  <2>. QED
    BY <2>1, LeastExists
<1>2. n \in 0..Len(seq) /\ ~Exists(n)
  OBVIOUS
<1>3. n # 0
  <2>. SUFFICES ASSUME n = 0 PROVE Exists(0)
    BY <1>2
  <2>. USE DEF Exists
  <2>. DEFINE F == [t \in SUBSET (1..0) |-> base]
  <2>1. F \in [SUBSET (1..0) -> S] /\ F[{}] = base
    OBVIOUS
  <2>2. Folds(F, G, base, seq, 0)
    BY <2>1 DEF Folds
  <2>. HIDE DEF F
  <2>. QED
    BY <2>1, <2>2
<1>4. n - 1 \in 0..Len(seq) /\ Exists(n - 1)
  <2>1. n - 1 \in 0..Len(seq) /\ ~(n <= n - 1)
    BY <1>2, <1>3
  <2>2. n - 1 \notin T
    BY <1>1, <2>1
  <2>. HIDE DEF T
  <2>. QED
    BY <2>1, <2>2 DEF T
<1>5. PICK f \in [SUBSET (1..n - 1) -> S] : Folds(f, G, base, seq, n - 1)
  BY <1>4 DEF Exists
<1>. HIDE DEF Exists, T
<1>. DEFINE F == [t \in SUBSET (1..n) |->
                    IF n \in t THEN G[<<f[t \ {n}], seq[n]>>] ELSE f[t]]
<1>6. n \in 1..Len(seq) /\ seq[n] \in L
  BY <1>2, <1>3
<1>7. \A t \in SUBSET (1..n) : /\ t \ {n} \in SUBSET (1..n - 1)
                               /\ n \notin t => t \in SUBSET (1..n - 1)
  BY <1>2, <1>3
<1>8. F \in [SUBSET (1..n) -> S]
  <2>1. ASSUME NEW t \in SUBSET (1..n)
        PROVE  (IF n \in t THEN G[<<f[t \ {n}], seq[n]>>] ELSE f[t]) \in S
    BY <1>5, <1>6, <1>7
  <2>. QED
    BY <2>1
<1>9. F[{}] = base
  BY <1>2, <1>5 DEF Folds
<1>10. ASSUME NEW t \in SUBSET (1..n), NEW m \in 1..n, IsGreatest(m, t)
       PROVE  F[t] = G[<<F[t \ {m}], seq[m]>>]
  <2>1. CASE m = n
    <3>1. n \in t /\ n \notin t \ {n} /\ t \ {n} \in SUBSET (1..n)
      BY <1>10, <2>1 DEF IsGreatest
    <3>2. F[t] = G[<<f[t \ {n}], seq[n]>>] /\ F[t \ {n}] = f[t \ {n}]
      BY <3>1
    <3>. HIDE DEF F
    <3>. QED
      BY <2>1, <3>2
  <2>2. CASE m # n
    <3>1. n \notin t /\ m \in 1..n - 1
      BY <1>2, <1>10, <2>2 DEF IsGreatest
    <3>2. t \in SUBSET (1..n - 1) /\ t \ {m} \in SUBSET (1..n) /\ n \notin t \ {m}
      BY <1>7, <3>1
    <3>3. F[t] = f[t] /\ F[t \ {m}] = f[t \ {m}]
      BY <3>1, <3>2
    <3>4. f[t] = G[<<f[t \ {m}], seq[m]>>]
      BY <1>5, <1>10, <3>1, <3>2 DEF Folds
    <3>. HIDE DEF F
    <3>. QED
      BY <3>3, <3>4
  <2>. QED
    BY <2>1, <2>2
<1>11. Exists(n)
  <2>. HIDE DEF F
  <2>1. Folds(F, G, base, seq, n)
    BY <1>9, <1>10 DEF Folds
  <2>. QED
    BY <1>8, <2>1 DEF Exists
<1>. QED
  BY <1>2, <1>11

\* The greatest number of a set of places.
LEMMA MaxIsGreatest ==
    ASSUME NEW n \in Nat, NEW t \in SUBSET (1..n), t # {}
    PROVE  /\ Max(t) \in 1..n /\ Max(t) \in t
           /\ IsGreatest(Max(t), t)
           /\ \A m \in 1..n : IsGreatest(m, t) => m = Max(t)
<1>1. PICK m \in t : IsGreatest(m, t)
  <2>1. \E m \in t : IsGreatest(m, t)
    BY GreatestExists
  <2>. QED
    BY <2>1
<1>2. Max(t) \in t /\ \A k \in t : Max(t) >= k
  BY <1>1 DEF Max, IsGreatest
<1>3. IsGreatest(Max(t), t)
  BY <1>2 DEF IsGreatest
<1>4. ASSUME NEW k \in 1..n, IsGreatest(k, t) PROVE k = Max(t)
  <2>1. k \in t /\ Max(t) \in 1..n /\ Max(t) <= k /\ k <= Max(t)
    BY <1>2, <1>4 DEF IsGreatest
  <2>. QED
    BY <2>1
<1>. QED
  BY <1>2, <1>3, <1>4

\* H is computed with G, where it stays in S.
FoldsBy(H, G, base, seq, S) ==
    /\ H[{}] = base
    /\ \A t \in SUBSET DOMAIN seq :
          t # {} /\ H[t \ {Max(t)}] \in S => H[t] = G[<<H[t \ {Max(t)}], seq[Max(t)]>>]

\* The places before the last of a set of places are places again.
LastPlaces(L, seq) ==
    \A t \in SUBSET DOMAIN seq : t # {} =>
        seq[Max(t)] \in L /\ t \ {Max(t)} \in SUBSET DOMAIN seq

LEMMA FoldIsFunction ==
    ASSUME NEW S, NEW L, NEW G \in [S \X L -> S], NEW base \in S, NEW seq \in Seq(L)
    PROVE  /\ LastPlaces(L, seq)
           /\ \E F \in [SUBSET DOMAIN seq -> S] : FoldsBy(F, G, base, seq, S)
<1>1. DOMAIN seq = 1..Len(seq) /\ Len(seq) \in Nat /\ \A k \in 1..Len(seq) : seq[k] \in L
  OBVIOUS
<1>2. \A t \in SUBSET DOMAIN seq : t # {} => Max(t) \in 1..Len(seq) /\ IsGreatest(Max(t), t)
  BY <1>1, MaxIsGreatest
<1>3. PICK F \in [SUBSET (1..Len(seq)) -> S] : Folds(F, G, base, seq, Len(seq))
  BY FoldExists
<1>4. FoldsBy(F, G, base, seq, S)
  BY <1>1, <1>2, <1>3 DEF FoldsBy, Folds
<1>5. LastPlaces(L, seq)
  BY <1>1, <1>2 DEF LastPlaces
<1>. QED
  BY <1>1, <1>4, <1>5

\* acc is what a fold is after each place: it takes a step at each, and ends at last.
RunOf(acc, G, base, seq, S, last) ==
    /\ acc \in [0..Len(seq) -> S]
    /\ acc[0] = base
    /\ \A k \in 1..Len(seq) : acc[k] = G[<<acc[k - 1], seq[k]>>]
    /\ acc[Len(seq)] = last

\* A fold is the last of its runs: H of the first k places, k by k.
LEMMA FoldRuns ==
    ASSUME NEW S, NEW L, NEW G \in [S \X L -> S], NEW base \in S, NEW seq \in Seq(L),
           NEW H, FoldsBy(H, G, base, seq, S)
    PROVE  \E acc : RunOf(acc, G, base, seq, S, H[DOMAIN seq])
<1>. DEFINE n == Len(seq)
            acc == [k \in 0..n |-> H[1..k]]
            T == {k \in 0..n : H[1..k] \notin S}
<1>1. DOMAIN seq = 1..n /\ n \in Nat /\ \A k \in 1..n : seq[k] \in L
  OBVIOUS
<1>. HIDE DEF n
<1>2. H[1..0] = base
  <2>1. 1..0 = {}
    OBVIOUS
  <2>. QED
    BY <2>1 DEF FoldsBy
<1>3. ASSUME NEW k \in 1..n, H[1..k - 1] \in S
      PROVE  H[1..k] = G[<<H[1..k - 1], seq[k]>>] /\ H[1..k] \in S
  <2>1. k \in Nat /\ k >= 1 /\ k <= n
    BY <1>1
  <2>2. 1..k \in SUBSET (1..n) /\ k \in 1..k
    BY <1>1, <2>1
  <2>3. (1..k) \ {k} = 1..k - 1
    BY <2>1
  <2>4. IsGreatest(k, 1..k)
    BY <2>1, <2>2 DEF IsGreatest
  <2>5. Max(1..k) = k
    BY <1>1, <2>2, <2>4, MaxIsGreatest
  <2>6. H[1..k] = G[<<H[1..k - 1], seq[k]>>]
    BY <1>1, <1>3, <2>2, <2>3, <2>5 DEF FoldsBy
  <2>. QED
    BY <1>1, <1>3, <2>6
<1>4. T = {}
  <2>. SUFFICES ASSUME T # {} PROVE FALSE
    OBVIOUS
  <2>1. PICK k \in T : \A j \in T : k <= j
    <3>1. T \in SUBSET Nat
      OBVIOUS
    <3>. HIDE DEF T
    <3>. QED
      BY <3>1, LeastExists
  <2>2. k \in 0..n /\ H[1..k] \notin S
    OBVIOUS
  <2>3. k # 0
    BY <1>2, <2>2
  <2>4. k \in 1..n /\ k - 1 \in 0..n /\ ~(k <= k - 1)
    BY <1>1, <2>2, <2>3
  <2>5. H[1..k - 1] \in S
    BY <2>1, <2>4
  <2>. QED
    BY <1>3, <2>2, <2>4, <2>5
<1>5. \A k \in 0..n : H[1..k] \in S
  BY <1>4
<1>6. acc \in [0..n -> S] /\ acc[0] = base /\ acc[n] = H[DOMAIN seq]
  BY <1>1, <1>2, <1>5
<1>7. ASSUME NEW k \in 1..n PROVE acc[k] = G[<<acc[k - 1], seq[k]>>]
  <2>1. k \in 0..n /\ k - 1 \in 0..n
    BY <1>1
  <2>2. acc[k] = H[1..k] /\ acc[k - 1] = H[1..k - 1]
    BY <2>1
  <2>. HIDE DEF acc
  <2>. QED
    BY <1>3, <1>5, <2>1, <2>2
<1>. HIDE DEF acc
<1>8. RunOf(acc, G, base, seq, S, H[DOMAIN seq])
  BY <1>6, <1>7 DEF n, RunOf
<1>. QED
  BY <1>8

\* An invariant A of the places of a run, which holds of the start and is kept
\* by the step at each place, holds of the end.
LEMMA RunReaches ==
    ASSUME NEW S, NEW L, NEW G, NEW base, NEW seq \in Seq(L), NEW acc, NEW last,
           RunOf(acc, G, base, seq, S, last),
           NEW A, base \in A[0],
           \A k \in 1..Len(seq), x \in S : x \in A[k - 1] => G[<<x, seq[k]>>] \in A[k]
    PROVE  last \in A[Len(seq)]
<1>. DEFINE n == Len(seq)
            T == {k \in 0..n : acc[k] \notin A[k]}
<1>1. /\ n \in Nat /\ acc \in [0..n -> S] /\ acc[0] = base /\ acc[n] = last
      /\ \A k \in 1..n : acc[k] = G[<<acc[k - 1], seq[k]>>]
  BY DEF RunOf
<1>2. \A k \in 1..n, x \in S : x \in A[k - 1] => G[<<x, seq[k]>>] \in A[k]
  OBVIOUS
<1>. HIDE DEF n
<1>. SUFFICES ASSUME last \notin A[n] PROVE FALSE
  BY DEF n
<1>3. PICK k \in T : \A j \in T : k <= j
  <2>1. T \in SUBSET Nat /\ T # {}
    BY <1>1
  <2>. HIDE DEF T
  <2>. QED
    BY <2>1, LeastExists
<1>4. k \in 0..n /\ acc[k] \notin A[k]
  OBVIOUS
<1>5. k \in 1..n /\ k - 1 \in 0..n /\ ~(k <= k - 1)
  <2>1. k # 0
    BY <1>1, <1>4
  <2>. QED
    BY <1>1, <1>4, <2>1
<1>6. acc[k - 1] \in A[k - 1]
  BY <1>3, <1>5
<1>7. acc[k - 1] \in S
  BY <1>1, <1>5
<1>. QED
  BY <1>1, <1>2, <1>4, <1>5, <1>6, <1>7

LEMMA RunStays ==
    ASSUME NEW S, NEW L, NEW G, NEW base, NEW seq \in Seq(L), NEW acc, NEW last,
           RunOf(acc, G, base, seq, S, last)
    PROVE  last \in S
BY DEF RunOf

LEMMA PlacesIn ==
    ASSUME NEW L, NEW seq \in Seq(L)
    PROVE  \A k \in 1..Len(seq) : seq[k] \in L
OBVIOUS

-----------------------------------------------------------------------------
(***************************************************************************)
(* The folds of a commit.  The prover cannot apply a lemma to an operator, *)
(* so there is one lemma for the step of each loop.                        *)
(***************************************************************************)
LEMMA CopiedDomains ==
    ASSUME NEW S, NEW L, NEW base \in S, NEW seq \in Seq(L),
           \A x \in S, y \in L : CopiedDomain(x, y) \in S
    PROVE  /\ FoldLeft(CopiedDomain, base, seq) \in S
           /\ \A A : /\ base \in A[0]
                     /\ \A k \in 1..Len(seq), x \in S :
                           x \in A[k - 1] => CopiedDomain(x, seq[k]) \in A[k]
                     => FoldLeft(CopiedDomain, base, seq) \in A[Len(seq)]
<1>. DEFINE G == [p \in S \X L |-> CopiedDomain(p[1], p[2])]
            Is(f) == f = [t \in SUBSET DOMAIN seq |->
                            IF t = {} THEN base
                            ELSE CopiedDomain(f[t \ {Max(t)}], seq[Max(t)])]
            H == CHOOSE f : Is(f)
<1>1. FoldLeft(CopiedDomain, base, seq) = H[DOMAIN seq]
  BY DEF FoldLeft, MapThenFoldSet
<1>2. G \in [S \X L -> S] /\ \A x \in S, y \in L : G[<<x, y>>] = CopiedDomain(x, y)
  OBVIOUS
<1>. HIDE DEF G
<1>3. LastPlaces(L, seq)
  BY <1>2, FoldIsFunction
<1>4. PICK F \in [SUBSET DOMAIN seq -> S] : FoldsBy(F, G, base, seq, S)
  BY <1>2, FoldIsFunction
<1>5. Is(F)
  <2>1. ASSUME NEW t \in SUBSET DOMAIN seq, t # {}
        PROVE  F[t] = CopiedDomain(F[t \ {Max(t)}], seq[Max(t)])
    <3>1. F[t \ {Max(t)}] \in S /\ seq[Max(t)] \in L
      BY <1>3, <2>1 DEF LastPlaces
    <3>2. F[t] = G[<<F[t \ {Max(t)}], seq[Max(t)]>>]
      BY <1>4, <2>1, <3>1 DEF FoldsBy
    <3>. QED
      BY <1>2, <3>1, <3>2
  <2>2. F[{}] = base /\ F = [t \in SUBSET DOMAIN seq |-> F[t]]
    BY <1>4 DEF FoldsBy
  <2>. QED
    BY <2>1, <2>2
<1>6. Is(H)
  <2>. HIDE DEF Is
  <2>. QED
    BY <1>5
<1>. HIDE DEF H
<1>7. FoldsBy(H, G, base, seq, S)
  BY <1>2, <1>3, <1>6 DEF FoldsBy, LastPlaces
<1>. HIDE DEF Is
<1>8. PICK acc : RunOf(acc, G, base, seq, S, H[DOMAIN seq])
  BY <1>2, <1>7, FoldRuns
<1>9. H[DOMAIN seq] \in S
  BY <1>8, RunStays
<1>10. \A k \in 1..Len(seq), x \in S : G[<<x, seq[k]>>] = CopiedDomain(x, seq[k])
  BY <1>2, PlacesIn
<1>11. ASSUME NEW A, base \in A[0],
              \A k \in 1..Len(seq), x \in S : x \in A[k - 1] => CopiedDomain(x, seq[k]) \in A[k]
       PROVE  H[DOMAIN seq] \in A[Len(seq)]
  <2>1. ASSUME NEW k \in 1..Len(seq), NEW x \in S, x \in A[k - 1]
        PROVE  G[<<x, seq[k]>>] \in A[k]
    <3>1. G[<<x, seq[k]>>] = CopiedDomain(x, seq[k])
      BY <1>10
    <3>2. CopiedDomain(x, seq[k]) \in A[k]
      BY <1>11, <2>1
    <3>. QED
      BY <3>1, <3>2
  <2>. QED
    BY <1>8, <1>11, <2>1, RunReaches
<1>. QED
  BY <1>1, <1>9, <1>11

LEMMA DomainsDropped ==
    ASSUME NEW S, NEW L, NEW cand, NEW all \in S, all \in Seq(L),
           \A x \in S, y \in L : DropDomain(cand, x, y) \in S
    PROVE  /\ DropDomains(cand, all) \in S
           /\ \A A : /\ all \in A[0]
                     /\ \A k \in 1..Len(all), x \in S :
                           x \in A[k - 1] => DropDomain(cand, x, all[k]) \in A[k]
                     => DropDomains(cand, all) \in A[Len(all)]
<1>. DEFINE G == [p \in S \X L |-> DropDomain(cand, p[1], p[2])]
            Is(f) == f = [t \in SUBSET DOMAIN all |->
                            IF t = {} THEN all
                            ELSE DropDomain(cand, f[t \ {Max(t)}], all[Max(t)])]
            H == CHOOSE f : Is(f)
<1>1. DropDomains(cand, all) = H[DOMAIN all]
  <2>1. DropDomains(cand, all) = FoldLeft(LAMBDA s, v : DropDomain(cand, s, v), all, all)
    BY DEF DropDomains
  <2>2. FoldLeft(LAMBDA s, v : DropDomain(cand, s, v), all, all) = H[DOMAIN all]
    BY DEF FoldLeft, MapThenFoldSet
  <2>. HIDE DEF H
  <2>. QED
    BY <2>1, <2>2
<1>2. G \in [S \X L -> S] /\ \A x \in S, y \in L : G[<<x, y>>] = DropDomain(cand, x, y)
  OBVIOUS
<1>. HIDE DEF G
<1>3. LastPlaces(L, all)
  BY <1>2, FoldIsFunction
<1>4. PICK F \in [SUBSET DOMAIN all -> S] : FoldsBy(F, G, all, all, S)
  BY <1>2, FoldIsFunction
<1>5. Is(F)
  <2>1. ASSUME NEW t \in SUBSET DOMAIN all, t # {}
        PROVE  F[t] = DropDomain(cand, F[t \ {Max(t)}], all[Max(t)])
    <3>1. F[t \ {Max(t)}] \in S /\ all[Max(t)] \in L
      BY <1>3, <2>1 DEF LastPlaces
    <3>2. F[t] = G[<<F[t \ {Max(t)}], all[Max(t)]>>]
      BY <1>4, <2>1, <3>1 DEF FoldsBy
    <3>. QED
      BY <1>2, <3>1, <3>2
  <2>2. F[{}] = all /\ F = [t \in SUBSET DOMAIN all |-> F[t]]
    BY <1>4 DEF FoldsBy
  <2>. QED
    BY <2>1, <2>2
<1>6. Is(H)
  <2>. HIDE DEF Is
  <2>. QED
    BY <1>5
<1>. HIDE DEF H
<1>7. FoldsBy(H, G, all, all, S)
  BY <1>2, <1>3, <1>6 DEF FoldsBy, LastPlaces
<1>. HIDE DEF Is
<1>8. PICK acc : RunOf(acc, G, all, all, S, H[DOMAIN all])
  BY <1>2, <1>7, FoldRuns
<1>9. H[DOMAIN all] \in S
  BY <1>8, RunStays
<1>10. \A k \in 1..Len(all), x \in S : G[<<x, all[k]>>] = DropDomain(cand, x, all[k])
  BY <1>2, PlacesIn
<1>11. ASSUME NEW A, all \in A[0],
              \A k \in 1..Len(all), x \in S : x \in A[k - 1] => DropDomain(cand, x, all[k]) \in A[k]
       PROVE  H[DOMAIN all] \in A[Len(all)]
  <2>1. ASSUME NEW k \in 1..Len(all), NEW x \in S, x \in A[k - 1]
        PROVE  G[<<x, all[k]>>] \in A[k]
    <3>1. G[<<x, all[k]>>] = DropDomain(cand, x, all[k])
      BY <1>10
    <3>2. DropDomain(cand, x, all[k]) \in A[k]
      BY <1>11, <2>1
    <3>. QED
      BY <3>1, <3>2
  <2>. QED
    BY <1>8, <1>11, <2>1, RunReaches
<1>. QED
  BY <1>1, <1>9, <1>11

LEMMA CopiedIrbs ==
    ASSUME NEW S, NEW L, NEW base \in S, NEW seq \in Seq(L),
           \A x \in S, y \in L : CopiedIrb(x, y) \in S
    PROVE  /\ FoldLeft(CopiedIrb, base, seq) \in S
           /\ \A A : /\ base \in A[0]
                     /\ \A k \in 1..Len(seq), x \in S :
                           x \in A[k - 1] => CopiedIrb(x, seq[k]) \in A[k]
                     => FoldLeft(CopiedIrb, base, seq) \in A[Len(seq)]
<1>. DEFINE G == [p \in S \X L |-> CopiedIrb(p[1], p[2])]
            Is(f) == f = [t \in SUBSET DOMAIN seq |->
                            IF t = {} THEN base
                            ELSE CopiedIrb(f[t \ {Max(t)}], seq[Max(t)])]
            H == CHOOSE f : Is(f)
<1>1. FoldLeft(CopiedIrb, base, seq) = H[DOMAIN seq]
  BY DEF FoldLeft, MapThenFoldSet
<1>2. G \in [S \X L -> S] /\ \A x \in S, y \in L : G[<<x, y>>] = CopiedIrb(x, y)
  OBVIOUS
<1>. HIDE DEF G
<1>3. LastPlaces(L, seq)
  BY <1>2, FoldIsFunction
<1>4. PICK F \in [SUBSET DOMAIN seq -> S] : FoldsBy(F, G, base, seq, S)
  BY <1>2, FoldIsFunction
<1>5. Is(F)
  <2>1. ASSUME NEW t \in SUBSET DOMAIN seq, t # {}
        PROVE  F[t] = CopiedIrb(F[t \ {Max(t)}], seq[Max(t)])
    <3>1. F[t \ {Max(t)}] \in S /\ seq[Max(t)] \in L
      BY <1>3, <2>1 DEF LastPlaces
    <3>2. F[t] = G[<<F[t \ {Max(t)}], seq[Max(t)]>>]
      BY <1>4, <2>1, <3>1 DEF FoldsBy
    <3>. QED
      BY <1>2, <3>1, <3>2
  <2>2. F[{}] = base /\ F = [t \in SUBSET DOMAIN seq |-> F[t]]
    BY <1>4 DEF FoldsBy
  <2>. QED
    BY <2>1, <2>2
<1>6. Is(H)
  <2>. HIDE DEF Is
  <2>. QED
    BY <1>5
<1>. HIDE DEF H
<1>7. FoldsBy(H, G, base, seq, S)
  BY <1>2, <1>3, <1>6 DEF FoldsBy, LastPlaces
<1>. HIDE DEF Is
<1>8. PICK acc : RunOf(acc, G, base, seq, S, H[DOMAIN seq])
  BY <1>2, <1>7, FoldRuns
<1>9. H[DOMAIN seq] \in S
  BY <1>8, RunStays
<1>10. \A k \in 1..Len(seq), x \in S : G[<<x, seq[k]>>] = CopiedIrb(x, seq[k])
  BY <1>2, PlacesIn
<1>11. ASSUME NEW A, base \in A[0],
              \A k \in 1..Len(seq), x \in S : x \in A[k - 1] => CopiedIrb(x, seq[k]) \in A[k]
       PROVE  H[DOMAIN seq] \in A[Len(seq)]
  <2>1. ASSUME NEW k \in 1..Len(seq), NEW x \in S, x \in A[k - 1]
        PROVE  G[<<x, seq[k]>>] \in A[k]
    <3>1. G[<<x, seq[k]>>] = CopiedIrb(x, seq[k])
      BY <1>10
    <3>2. CopiedIrb(x, seq[k]) \in A[k]
      BY <1>11, <2>1
    <3>. QED
      BY <3>1, <3>2
  <2>. QED
    BY <1>8, <1>11, <2>1, RunReaches
<1>. QED
  BY <1>1, <1>9, <1>11

LEMMA IrbsDropped ==
    ASSUME NEW S, NEW L, NEW cand, NEW all \in S, all \in Seq(L),
           \A x \in S, y \in L : DropIrb(cand, x, y) \in S
    PROVE  /\ DropIrbs(cand, all) \in S
           /\ \A A : /\ all \in A[0]
                     /\ \A k \in 1..Len(all), x \in S :
                           x \in A[k - 1] => DropIrb(cand, x, all[k]) \in A[k]
                     => DropIrbs(cand, all) \in A[Len(all)]
<1>. DEFINE G == [p \in S \X L |-> DropIrb(cand, p[1], p[2])]
            Is(f) == f = [t \in SUBSET DOMAIN all |->
                            IF t = {} THEN all
                            ELSE DropIrb(cand, f[t \ {Max(t)}], all[Max(t)])]
            H == CHOOSE f : Is(f)
<1>1. DropIrbs(cand, all) = H[DOMAIN all]
  <2>1. DropIrbs(cand, all) = FoldLeft(LAMBDA s, v : DropIrb(cand, s, v), all, all)
    BY DEF DropIrbs
  <2>2. FoldLeft(LAMBDA s, v : DropIrb(cand, s, v), all, all) = H[DOMAIN all]
    BY DEF FoldLeft, MapThenFoldSet
  <2>. HIDE DEF H
  <2>. QED
    BY <2>1, <2>2
<1>2. G \in [S \X L -> S] /\ \A x \in S, y \in L : G[<<x, y>>] = DropIrb(cand, x, y)
  OBVIOUS
<1>. HIDE DEF G
<1>3. LastPlaces(L, all)
  BY <1>2, FoldIsFunction
<1>4. PICK F \in [SUBSET DOMAIN all -> S] : FoldsBy(F, G, all, all, S)
  BY <1>2, FoldIsFunction
<1>5. Is(F)
  <2>1. ASSUME NEW t \in SUBSET DOMAIN all, t # {}
        PROVE  F[t] = DropIrb(cand, F[t \ {Max(t)}], all[Max(t)])
    <3>1. F[t \ {Max(t)}] \in S /\ all[Max(t)] \in L
      BY <1>3, <2>1 DEF LastPlaces
    <3>2. F[t] = G[<<F[t \ {Max(t)}], all[Max(t)]>>]
      BY <1>4, <2>1, <3>1 DEF FoldsBy
    <3>. QED
      BY <1>2, <3>1, <3>2
  <2>2. F[{}] = all /\ F = [t \in SUBSET DOMAIN all |-> F[t]]
    BY <1>4 DEF FoldsBy
  <2>. QED
    BY <2>1, <2>2
<1>6. Is(H)
  <2>. HIDE DEF Is
  <2>. QED
    BY <1>5
<1>. HIDE DEF H
<1>7. FoldsBy(H, G, all, all, S)
  BY <1>2, <1>3, <1>6 DEF FoldsBy, LastPlaces
<1>. HIDE DEF Is
<1>8. PICK acc : RunOf(acc, G, all, all, S, H[DOMAIN all])
  BY <1>2, <1>7, FoldRuns
<1>9. H[DOMAIN all] \in S
  BY <1>8, RunStays
<1>10. \A k \in 1..Len(all), x \in S : G[<<x, all[k]>>] = DropIrb(cand, x, all[k])
  BY <1>2, PlacesIn
<1>11. ASSUME NEW A, all \in A[0],
              \A k \in 1..Len(all), x \in S : x \in A[k - 1] => DropIrb(cand, x, all[k]) \in A[k]
       PROVE  H[DOMAIN all] \in A[Len(all)]
  <2>1. ASSUME NEW k \in 1..Len(all), NEW x \in S, x \in A[k - 1]
        PROVE  G[<<x, all[k]>>] \in A[k]
    <3>1. G[<<x, all[k]>>] = DropIrb(cand, x, all[k])
      BY <1>10
    <3>2. DropIrb(cand, x, all[k]) \in A[k]
      BY <1>11, <2>1
    <3>. QED
      BY <3>1, <3>2
  <2>. QED
    BY <1>8, <1>11, <2>1, RunReaches
<1>. QED
  BY <1>1, <1>9, <1>11

LEMMA IpsDropped ==
    ASSUME NEW S, NEW L, NEW nets, NEW ips \in S,
           NEW seq \in Seq(L), seq = [i \in DOMAIN ips |-> i],
           \A x \in S, y \in L : DropAt(nets, x, y) \in S
    PROVE  /\ DropIps(ips, nets) \in S
           /\ \A A : /\ ips \in A[0]
                     /\ \A k \in 1..Len(seq), x \in S :
                           x \in A[k - 1] => DropAt(nets, x, seq[k]) \in A[k]
                     => DropIps(ips, nets) \in A[Len(seq)]
<1>. DEFINE G == [p \in S \X L |-> DropAt(nets, p[1], p[2])]
            Is(f) == f = [t \in SUBSET DOMAIN seq |->
                            IF t = {} THEN ips
                            ELSE DropAt(nets, f[t \ {Max(t)}], seq[Max(t)])]
            H == CHOOSE f : Is(f)
<1>1. DropIps(ips, nets) = H[DOMAIN seq]
  <2>1. DropIps(ips, nets) = FoldLeft(LAMBDA s, v : DropAt(nets, s, v), ips, seq)
    BY DEF DropIps
  <2>2. FoldLeft(LAMBDA s, v : DropAt(nets, s, v), ips, seq) = H[DOMAIN seq]
    BY DEF FoldLeft, MapThenFoldSet
  <2>. HIDE DEF H
  <2>. QED
    BY <2>1, <2>2
<1>2. G \in [S \X L -> S] /\ \A x \in S, y \in L : G[<<x, y>>] = DropAt(nets, x, y)
  OBVIOUS
<1>. HIDE DEF G
<1>3. LastPlaces(L, seq)
  BY <1>2, FoldIsFunction
<1>4. PICK F \in [SUBSET DOMAIN seq -> S] : FoldsBy(F, G, ips, seq, S)
  BY <1>2, FoldIsFunction
<1>5. Is(F)
  <2>1. ASSUME NEW t \in SUBSET DOMAIN seq, t # {}
        PROVE  F[t] = DropAt(nets, F[t \ {Max(t)}], seq[Max(t)])
    <3>1. F[t \ {Max(t)}] \in S /\ seq[Max(t)] \in L
      BY <1>3, <2>1 DEF LastPlaces
    <3>2. F[t] = G[<<F[t \ {Max(t)}], seq[Max(t)]>>]
      BY <1>4, <2>1, <3>1 DEF FoldsBy
    <3>. QED
      BY <1>2, <3>1, <3>2
  <2>2. F[{}] = ips /\ F = [t \in SUBSET DOMAIN seq |-> F[t]]
    BY <1>4 DEF FoldsBy
  <2>. QED
    BY <2>1, <2>2
<1>6. Is(H)
  <2>. HIDE DEF Is
  <2>. QED
    BY <1>5
<1>. HIDE DEF H
<1>7. FoldsBy(H, G, ips, seq, S)
  BY <1>2, <1>3, <1>6 DEF FoldsBy, LastPlaces
<1>. HIDE DEF Is
<1>8. PICK acc : RunOf(acc, G, ips, seq, S, H[DOMAIN seq])
  BY <1>2, <1>7, FoldRuns
<1>9. H[DOMAIN seq] \in S
  BY <1>8, RunStays
<1>10. \A k \in 1..Len(seq), x \in S : G[<<x, seq[k]>>] = DropAt(nets, x, seq[k])
  BY <1>2, PlacesIn
<1>11. ASSUME NEW A, ips \in A[0],
              \A k \in 1..Len(seq), x \in S : x \in A[k - 1] => DropAt(nets, x, seq[k]) \in A[k]
       PROVE  H[DOMAIN seq] \in A[Len(seq)]
  <2>1. ASSUME NEW k \in 1..Len(seq), NEW x \in S, x \in A[k - 1]
        PROVE  G[<<x, seq[k]>>] \in A[k]
    <3>1. G[<<x, seq[k]>>] = DropAt(nets, x, seq[k])
      BY <1>10
    <3>2. DropAt(nets, x, seq[k]) \in A[k]
      BY <1>11, <2>1
    <3>. QED
      BY <3>1, <3>2
  <2>. QED
    BY <1>8, <1>11, <2>1, RunReaches
<1>. QED
  BY <1>1, <1>9, <1>11

LEMMA MissingAdded ==
    ASSUME NEW S, NEW L, NEW base \in S, NEW seq \in Seq(L),
           \A x \in S, y \in L : AddMissing(x, y) \in S
    PROVE  /\ FoldLeft(AddMissing, base, seq) \in S
           /\ \A A : /\ base \in A[0]
                     /\ \A k \in 1..Len(seq), x \in S :
                           x \in A[k - 1] => AddMissing(x, seq[k]) \in A[k]
                     => FoldLeft(AddMissing, base, seq) \in A[Len(seq)]
<1>. DEFINE G == [p \in S \X L |-> AddMissing(p[1], p[2])]
            Is(f) == f = [t \in SUBSET DOMAIN seq |->
                            IF t = {} THEN base
                            ELSE AddMissing(f[t \ {Max(t)}], seq[Max(t)])]
            H == CHOOSE f : Is(f)
<1>1. FoldLeft(AddMissing, base, seq) = H[DOMAIN seq]
  BY DEF FoldLeft, MapThenFoldSet
<1>2. G \in [S \X L -> S] /\ \A x \in S, y \in L : G[<<x, y>>] = AddMissing(x, y)
  OBVIOUS
<1>. HIDE DEF G
<1>3. LastPlaces(L, seq)
  BY <1>2, FoldIsFunction
<1>4. PICK F \in [SUBSET DOMAIN seq -> S] : FoldsBy(F, G, base, seq, S)
  BY <1>2, FoldIsFunction
<1>5. Is(F)
  <2>1. ASSUME NEW t \in SUBSET DOMAIN seq, t # {}
        PROVE  F[t] = AddMissing(F[t \ {Max(t)}], seq[Max(t)])
    <3>1. F[t \ {Max(t)}] \in S /\ seq[Max(t)] \in L
      BY <1>3, <2>1 DEF LastPlaces
    <3>2. F[t] = G[<<F[t \ {Max(t)}], seq[Max(t)]>>]
      BY <1>4, <2>1, <3>1 DEF FoldsBy
    <3>. QED
      BY <1>2, <3>1, <3>2
  <2>2. F[{}] = base /\ F = [t \in SUBSET DOMAIN seq |-> F[t]]
    BY <1>4 DEF FoldsBy
  <2>. QED
    BY <2>1, <2>2
<1>6. Is(H)
  <2>. HIDE DEF Is
  <2>. QED
    BY <1>5
<1>. HIDE DEF H
<1>7. FoldsBy(H, G, base, seq, S)
  BY <1>2, <1>3, <1>6 DEF FoldsBy, LastPlaces
<1>. HIDE DEF Is
<1>8. PICK acc : RunOf(acc, G, base, seq, S, H[DOMAIN seq])
  BY <1>2, <1>7, FoldRuns
<1>9. H[DOMAIN seq] \in S
  BY <1>8, RunStays
<1>10. \A k \in 1..Len(seq), x \in S : G[<<x, seq[k]>>] = AddMissing(x, seq[k])
  BY <1>2, PlacesIn
<1>11. ASSUME NEW A, base \in A[0],
              \A k \in 1..Len(seq), x \in S : x \in A[k - 1] => AddMissing(x, seq[k]) \in A[k]
       PROVE  H[DOMAIN seq] \in A[Len(seq)]
  <2>1. ASSUME NEW k \in 1..Len(seq), NEW x \in S, x \in A[k - 1]
        PROVE  G[<<x, seq[k]>>] \in A[k]
    <3>1. G[<<x, seq[k]>>] = AddMissing(x, seq[k])
      BY <1>10
    <3>2. AddMissing(x, seq[k]) \in A[k]
      BY <1>11, <2>1
    <3>. QED
      BY <3>1, <3>2
  <2>. QED
    BY <1>8, <1>11, <2>1, RunReaches
<1>. QED
  BY <1>1, <1>9, <1>11

-----------------------------------------------------------------------------
(***************************************************************************)
(* Lists, and those whose members are found by their names.                *)
(***************************************************************************)
LEMMA MinIs ==
    ASSUME NEW I \in SUBSET Nat, I # {}
    PROVE  Min(I) \in I
BY LeastExists DEF Min

LEMMA PutIs ==
    ASSUME NEW T, NEW s \in Seq(T), NEW k \in 1..Len(s), NEW v \in T
    PROVE  /\ [s EXCEPT ![k] = v] \in Seq(T)
           /\ Len([s EXCEPT ![k] = v]) = Len(s)
           /\ \A i \in 1..Len(s) : [s EXCEPT ![k] = v][i] = IF i = k THEN v ELSE s[i]
<1>. DEFINE put == [s EXCEPT ![k] = v]
<1>1. s \in [1..Len(s) -> T] /\ Len(s) \in Nat
  OBVIOUS
<1>2. put \in [1..Len(s) -> T]
  BY <1>1
<1>3. put \in Seq(T)
  BY <1>1, <1>2, SeqDef
<1>4. \A i \in 1..Len(s) : put[i] = IF i = k THEN v ELSE s[i]
  BY <1>1
<1>. HIDE DEF put
<1>5. Len(put) = Len(s)
  BY <1>1, <1>2, <1>3
<1>. QED
  BY <1>3, <1>4, <1>5 DEF put

LEMMA RemoveAtIs ==
    ASSUME NEW T, NEW s \in Seq(T), NEW k \in 1..Len(s)
    PROVE  /\ RemoveAt(s, k) \in Seq(T)
           /\ Len(RemoveAt(s, k)) = Len(s) - 1
           /\ \A i \in 1..(Len(s) - 1) : RemoveAt(s, k)[i] = IF i < k THEN s[i] ELSE s[i + 1]
<1>. DEFINE front == SubSeq(s, 1, k - 1)
            back == SubSeq(s, k + 1, Len(s))
<1>1. front \in Seq(T) /\ back \in Seq(T) /\ Len(front) = k - 1 /\ Len(back) = Len(s) - k
  OBVIOUS
<1>2. /\ \A i \in 1..(k - 1) : front[i] = s[i]
      /\ \A i \in 1..(Len(s) - k) : back[i] = s[k + i]
  OBVIOUS
<1>. HIDE DEF front, back
<1>3. RemoveAt(s, k) = front \o back
  BY DEF RemoveAt, front, back
<1>4. front \o back \in Seq(T) /\ Len(front \o back) = Len(s) - 1
  BY <1>1
<1>5. ASSUME NEW i \in 1..(Len(s) - 1)
      PROVE  (front \o back)[i] = IF i < k THEN s[i] ELSE s[i + 1]
  <2>1. CASE i < k
    BY <1>1, <1>2, <2>1
  <2>2. CASE ~(i < k)
    <3>1. i - (k - 1) \in 1..(Len(s) - k) /\ (front \o back)[i] = back[i - (k - 1)]
      BY <1>1, <2>2
    <3>2. back[i - (k - 1)] = s[k + (i - (k - 1))]
      BY <1>2, <3>1
    <3>. QED
      BY <2>2, <3>1, <3>2
  <2>. QED
    BY <2>1, <2>2
<1>. QED
  BY <1>3, <1>4, <1>5

LEMMA RemoveNone ==
    ASSUME NEW T, NEW s \in Seq(T)
    PROVE  RemoveAt(s, 0) = s
<1>1. SubSeq(s, 1, 0 - 1) = <<>> /\ SubSeq(s, 0 + 1, Len(s)) = s
  OBVIOUS
<1>. QED
  BY <1>1 DEF RemoveAt

LEMMA AppendIs ==
    ASSUME NEW T, NEW s \in Seq(T), NEW v \in T
    PROVE  /\ Append(s, v) \in Seq(T)
           /\ Len(Append(s, v)) = Len(s) + 1
           /\ \A i \in 1..Len(s) : Append(s, v)[i] = s[i]
           /\ Append(s, v)[Len(s) + 1] = v
OBVIOUS

\* A list without two members of one name.
NamedList(s, T) ==
    /\ s \in Seq(T)
    /\ \A i, j \in DOMAIN s : s[i].name = s[j].name => i = j

LEMMA HasIs ==
    ASSUME NEW T, NEW s \in Seq(T), NEW n
    PROVE  HasNamed(s, n) <=> \E i \in 1..Len(s) : s[i].name = n
BY DEF HasNamed, ToSet

LEMMA IndexIs ==
    ASSUME NEW T, NEW s \in Seq(T), NEW names
    PROVE  /\ IndexOfNamed(s, names) \in 0..Len(s)
           /\ IndexOfNamed(s, names) # 0 => s[IndexOfNamed(s, names)].name \in names
           /\ IndexOfNamed(s, names) = 0 => \A i \in 1..Len(s) : s[i].name \notin names
<1>. DEFINE I == {i \in 1..Len(s) : s[i].name \in names}
<1>1. IndexOfNamed(s, names) = IF I # {} THEN Min(I) ELSE 0
  BY DEF IndexOfNamed, SelectInSeq
<1>2. I # {} => Min(I) \in I
  <2>1. I \in SUBSET Nat
    OBVIOUS
  <2>. HIDE DEF I
  <2>. QED
    BY <2>1, MinIs
<1>. QED
  BY <1>1, <1>2

LEMMA NamedAppend ==
    ASSUME NEW T, NEW s, NamedList(s, T), NEW v \in T, ~HasNamed(s, v.name)
    PROVE  /\ NamedList(Append(s, v), T)
           /\ HasNamed(Append(s, v), v.name)
           /\ \A n : HasNamed(s, n) => HasNamed(Append(s, v), n)
<1>. DEFINE longer == Append(s, v)
<1>1. s \in Seq(T) /\ \A i, j \in 1..Len(s) : s[i].name = s[j].name => i = j
  BY DEF NamedList
<1>2. \A i \in 1..Len(s) : s[i].name # v.name
  BY <1>1, HasIs
<1>3. /\ longer \in Seq(T) /\ Len(longer) = Len(s) + 1 /\ longer[Len(s) + 1] = v
      /\ \A i \in 1..Len(s) : longer[i] = s[i]
  BY <1>1, AppendIs
<1>. HIDE DEF longer
<1>4. NamedList(longer, T)
  <2>1. ASSUME NEW i \in 1..Len(longer), NEW j \in 1..Len(longer), longer[i].name = longer[j].name
        PROVE  i = j
    BY <1>1, <1>2, <1>3, <2>1
  <2>2. DOMAIN longer = 1..Len(longer)
    BY <1>3
  <2>. QED
    BY <1>3, <2>1, <2>2 DEF NamedList
<1>5. HasNamed(longer, v.name)
  BY <1>1, <1>3, HasIs
<1>6. ASSUME NEW n, HasNamed(s, n) PROVE HasNamed(longer, n)
  <2>1. PICK i \in 1..Len(s) : s[i].name = n
    BY <1>1, <1>6, HasIs
  <2>2. i \in 1..Len(longer) /\ longer[i].name = n
    BY <1>1, <1>3, <2>1
  <2>. QED
    BY <1>3, <2>2, HasIs
<1>. QED
  BY <1>4, <1>5, <1>6 DEF longer

LEMMA NamedPut ==
    ASSUME NEW T, NEW s, NamedList(s, T), NEW k \in 1..Len(s), NEW v \in T, v.name = s[k].name
    PROVE  /\ NamedList([s EXCEPT ![k] = v], T)
           /\ \A n : HasNamed(s, n) => HasNamed([s EXCEPT ![k] = v], n)
<1>. DEFINE put == [s EXCEPT ![k] = v]
<1>1. s \in Seq(T) /\ \A i, j \in 1..Len(s) : s[i].name = s[j].name => i = j
  BY DEF NamedList
<1>2. /\ put \in Seq(T) /\ Len(put) = Len(s)
      /\ \A i \in 1..Len(s) : put[i] = IF i = k THEN v ELSE s[i]
  BY <1>1, PutIs
<1>. HIDE DEF put
<1>3. \A i \in 1..Len(s) : put[i].name = s[i].name
  BY <1>2
<1>4. NamedList(put, T)
  <2>1. DOMAIN put = 1..Len(s)
    BY <1>2
  <2>. QED
    BY <1>1, <1>2, <1>3, <2>1 DEF NamedList
<1>5. ASSUME NEW n, HasNamed(s, n) PROVE HasNamed(put, n)
  <2>1. PICK i \in 1..Len(s) : s[i].name = n
    BY <1>1, <1>5, HasIs
  <2>2. i \in 1..Len(put) /\ put[i].name = n
    BY <1>2, <1>3, <2>1
  <2>. QED
    BY <1>2, <2>2, HasIs
<1>. QED
  BY <1>4, <1>5 DEF put

LEMMA NamedRemove ==
    ASSUME NEW T, NEW s, NamedList(s, T), NEW n
    PROVE  /\ NamedList(RemoveAt(s, IndexOfNamed(s, {n})), T)
           /\ \A m : m # n /\ HasNamed(s, m) => HasNamed(RemoveAt(s, IndexOfNamed(s, {n})), m)
<1>. DEFINE k == IndexOfNamed(s, {n})
            rest == RemoveAt(s, k)
<1>1. s \in Seq(T) /\ \A i, j \in 1..Len(s) : s[i].name = s[j].name => i = j
  BY DEF NamedList
<1>2. k \in 0..Len(s) /\ (k # 0 => s[k].name = n)
  <2>. HIDE DEF k
  <2>. QED
    BY <1>1, IndexIs DEF k
<1>. HIDE DEF k
<1>3. CASE k = 0
  <2>1. rest = s
    BY <1>1, <1>3, RemoveNone
  <2>. QED
    BY <2>1 DEF k
<1>4. CASE k # 0
  <2>1. k \in 1..Len(s) /\ Len(s) \in Nat
    BY <1>1, <1>2, <1>4
  <2>2. /\ rest \in Seq(T) /\ Len(rest) = Len(s) - 1
        /\ \A i \in 1..(Len(s) - 1) : rest[i] = IF i < k THEN s[i] ELSE s[i + 1]
    BY <1>1, <2>1, RemoveAtIs
  <2>. HIDE DEF rest
  <2>3. NamedList(rest, T)
    <3>1. ASSUME NEW i \in 1..(Len(s) - 1), NEW j \in 1..(Len(s) - 1), rest[i].name = rest[j].name
          PROVE  i = j
      <4>. DEFINE i2 == IF i < k THEN i ELSE i + 1
                  j2 == IF j < k THEN j ELSE j + 1
      <4>1. i2 \in 1..Len(s) /\ j2 \in 1..Len(s) /\ rest[i] = s[i2] /\ rest[j] = s[j2]
        BY <2>1, <2>2
      <4>2. i2 = j2
        <5>. HIDE DEF i2, j2
        <5>. QED
          BY <1>1, <3>1, <4>1
      <4>. QED
        BY <2>1, <4>2
    <3>2. DOMAIN rest = 1..(Len(s) - 1)
      BY <2>2
    <3>. QED
      BY <2>2, <3>1, <3>2 DEF NamedList
  <2>4. ASSUME NEW m, m # n, HasNamed(s, m) PROVE HasNamed(rest, m)
    <3>1. PICK i \in 1..Len(s) : s[i].name = m
      BY <1>1, <2>4, HasIs
    <3>2. i # k
      BY <1>2, <1>4, <2>4, <3>1
    <3>. DEFINE j == IF i < k THEN i ELSE i - 1
    <3>3. j \in 1..(Len(s) - 1) /\ rest[j] = s[i]
      BY <2>1, <2>2, <3>2
    <3>. HIDE DEF j
    <3>. QED
      BY <2>2, <3>1, <3>3, HasIs
  <2>. QED
    BY <2>3, <2>4 DEF rest, k
<1>. QED
  BY <1>3, <1>4

-----------------------------------------------------------------------------
(***************************************************************************)
(* Domains.                                                                *)
(***************************************************************************)
LEMMA NewValueIs ==
    ASSUME NEW T, NEW new \in T \cup {"absent", "delete"}, NEW old \in T \cup {NoValue}
    PROVE  NewValue(new, old) \in T \cup {NoValue}
BY DEF NewValue

LEMMA AttributesAre ==
    ASSUME NEW v \in Domain, NEW node \in DomainNode
    PROVE  DomainAttributes(v, node) \in Domain /\ DomainAttributes(v, node).name = v.name
<1>1. /\ v \in [name : Domains, number : Numbers \cup {NoValue}, link : Irbs \cup {NoValue}]
      /\ node.number \in Numbers \cup {"absent", "delete"}
      /\ node.link \in Irbs \cup {"absent", "delete"}
  BY DEF Domain, DomainNode
<1>. DEFINE number == NewValue(node.number, v.number)
            link == NewValue(node.link, v.link)
<1>2. number \in Numbers \cup {NoValue} /\ link \in Irbs \cup {NoValue}
  BY <1>1, NewValueIs
<1>. HIDE DEF number, link
<1>3. \/ DomainAttributes(v, node) = v
      \/ DomainAttributes(v, node) = [v EXCEPT !.number = number]
      \/ DomainAttributes(v, node) = [v EXCEPT !.number = number, !.link = link]
  BY DEF DomainAttributes, number, link
<1>. QED
  BY <1>1, <1>2, <1>3 DEF Domain

LEMMA WithDomainIs ==
    ASSUME NEW c \in Configuration, NamedList(c.domains, Domain), NEW n \in Domains
    PROVE  /\ NamedList(WithDomain(c, n), Domain)
           /\ HasNamed(WithDomain(c, n), n)
           /\ \A m : HasNamed(c.domains, m) => HasNamed(WithDomain(c, n), m)
<1>. DEFINE v == [name |-> n, number |-> NoValue, link |-> NoValue]
<1>1. v \in Domain /\ v.name = n
  BY DEF Domain
<1>. HIDE DEF v
<1>2. WithDomain(c, n) = IF HasNamed(c.domains, n) THEN c.domains ELSE Append(c.domains, v)
  BY DEF WithDomain, v
<1>3. CASE HasNamed(c.domains, n)
  BY <1>2, <1>3
<1>4. CASE ~HasNamed(c.domains, n)
  <2>1. WithDomain(c, n) = Append(c.domains, v)
    BY <1>2, <1>4
  <2>2. /\ NamedList(Append(c.domains, v), Domain)
        /\ HasNamed(Append(c.domains, v), v.name)
        /\ \A m : HasNamed(c.domains, m) => HasNamed(Append(c.domains, v), m)
    BY <1>1, <1>4, NamedAppend
  <2>. QED
    BY <1>1, <2>1, <2>2
<1>. QED
  BY <1>3, <1>4

LEMMA IndexOfHad ==
    ASSUME NEW T, NEW s, NamedList(s, T), NEW n, HasNamed(s, n)
    PROVE  IndexOfNamed(s, {n}) \in 1..Len(s) /\ s[IndexOfNamed(s, {n})].name = n
<1>. DEFINE k == IndexOfNamed(s, {n})
<1>1. s \in Seq(T)
  BY DEF NamedList
<1>2. /\ k \in 0..Len(s)
      /\ k # 0 => s[k].name \in {n}
      /\ k = 0 => \A i \in 1..Len(s) : s[i].name \notin {n}
  BY <1>1, IndexIs
<1>3. \E i \in 1..Len(s) : s[i].name = n
  BY <1>1, HasIs
<1>. HIDE DEF k
<1>4. k # 0
  BY <1>2, <1>3
<1>. QED
  BY <1>2, <1>4 DEF k

\* The step of the copying loop: a domain is overwritten or appended.
LEMMA CopiedDomainIs ==
    ASSUME NEW s, NamedList(s, Domain), NEW v \in Domain
    PROVE  /\ NamedList(CopiedDomain(s, v), Domain)
           /\ \A n : HasNamed(s, n) => HasNamed(CopiedDomain(s, v), n)
<1>. DEFINE k == IndexOfNamed(s, {v.name})
<1>1. s \in Seq(Domain)
  BY DEF NamedList
<1>2. /\ k \in 0..Len(s)
      /\ k # 0 => s[k].name \in {v.name}
      /\ k = 0 => \A i \in 1..Len(s) : s[i].name \notin {v.name}
  BY <1>1, IndexIs
<1>3. CopiedDomain(s, v) = IF k = 0 THEN Append(s, v) ELSE [s EXCEPT ![k] = v]
  BY DEF CopiedDomain
<1>. HIDE DEF k
<1>4. CASE k = 0
  <2>1. ~HasNamed(s, v.name)
    BY <1>1, <1>2, <1>4, HasIs
  <2>2. CopiedDomain(s, v) = Append(s, v)
    BY <1>3, <1>4
  <2>3. /\ NamedList(Append(s, v), Domain)
        /\ \A n : HasNamed(s, n) => HasNamed(Append(s, v), n)
    BY <2>1, NamedAppend
  <2>. QED
    BY <2>2, <2>3
<1>5. CASE k # 0
  <2>1. k \in 1..Len(s) /\ v.name = s[k].name
    BY <1>1, <1>2, <1>5
  <2>2. CopiedDomain(s, v) = [s EXCEPT ![k] = v]
    BY <1>3, <1>5
  <2>3. /\ NamedList([s EXCEPT ![k] = v], Domain)
        /\ \A n : HasNamed(s, n) => HasNamed([s EXCEPT ![k] = v], n)
    BY <2>1, NamedPut
  <2>. QED
    BY <2>2, <2>3
<1>. QED
  BY <1>4, <1>5

\* A domain that both had stays through the loops of a commit.
LEMMA CommittedDomains ==
    ASSUME NEW run, NamedList(run, Domain), NEW cand, NamedList(cand, Domain)
    PROVE  /\ NamedList(CommitDomains(run, cand), Domain)
           /\ \A n : HasNamed(run, n) /\ HasNamed(cand, n)
                       => HasNamed(CommitDomains(run, cand), n)
<1>. DEFINE Both == {n \in Domains : HasNamed(run, n) /\ HasNamed(cand, n)}
            S == {s \in Seq(Domain) : NamedList(s, Domain) /\ \A n \in Both : HasNamed(s, n)}
            all == FoldLeft(CopiedDomain, run, cand)
            kept == DropDomains(cand, all)
<1>1. run \in Seq(Domain) /\ cand \in Seq(Domain)
  BY DEF NamedList
<1>2. \A n : HasNamed(run, n) => n \in Domains
  <2>1. \A i \in 1..Len(run) : run[i].name \in Domains
    <3>1. \A i \in 1..Len(run) : run[i] \in Domain
      BY <1>1
    <3>2. \A v \in Domain : v.name \in Domains
      BY DEF Domain
    <3>. QED
      BY <3>1, <3>2
  <2>. QED
    BY <1>1, <2>1, HasIs
<1>3. \A s : s \in S <=> NamedList(s, Domain) /\ \A n \in Both : HasNamed(s, n)
  BY DEF NamedList
<1>4. run \in S
  BY <1>3
<1>5. \A s \in S, v \in Domain : CopiedDomain(s, v) \in S
  <2>. TAKE s \in S, v \in Domain
  <2>1. NamedList(s, Domain) /\ \A n \in Both : HasNamed(s, n)
    BY <1>3
  <2>2. /\ NamedList(CopiedDomain(s, v), Domain)
        /\ \A n : HasNamed(s, n) => HasNamed(CopiedDomain(s, v), n)
    BY <2>1, CopiedDomainIs
  <2>. HIDE DEF S, Both
  <2>. QED
    BY <1>3, <2>1, <2>2
<1>6. all \in S
  <2>. HIDE DEF S
  <2>. QED
    BY <1>1, <1>4, <1>5, CopiedDomains
<1>7. \A s \in S, v \in Domain : DropDomain(cand, s, v) \in S
  <2>. TAKE s \in S, v \in Domain
  <2>1. NamedList(s, Domain) /\ \A n \in Both : HasNamed(s, n)
    BY <1>3
  <2>2. CASE HasNamed(cand, v.name)
    <3>1. DropDomain(cand, s, v) = s
      BY <2>2 DEF DropDomain
    <3>. HIDE DEF S
    <3>. QED
      BY <3>1
  <2>3. CASE ~HasNamed(cand, v.name)
    <3>. DEFINE rest == RemoveAt(s, IndexOfNamed(s, {v.name}))
    <3>1. DropDomain(cand, s, v) = rest
      BY <2>3 DEF DropDomain
    <3>2. /\ NamedList(rest, Domain)
          /\ \A m : m # v.name /\ HasNamed(s, m) => HasNamed(rest, m)
      BY <2>1, NamedRemove
    <3>3. \A n \in Both : n # v.name
      BY <2>3
    <3>. HIDE DEF S, Both, rest
    <3>. QED
      BY <1>3, <2>1, <3>1, <3>2, <3>3
  <2>. QED
    BY <2>2, <2>3
<1>8. kept \in S
  <2>1. all \in Seq(Domain)
    BY <1>6
  <2>. HIDE DEF S, all
  <2>. QED
    BY <1>6, <1>7, <2>1, DomainsDropped
<1>9. CommitDomains(run, cand) = kept
  BY DEF CommitDomains
<1>. HIDE DEF S, kept
<1>10. NamedList(kept, Domain) /\ \A n \in Both : HasNamed(kept, n)
  BY <1>3, <1>8
<1>. QED
  BY <1>2, <1>9, <1>10

-----------------------------------------------------------------------------
(***************************************************************************)
(* Addresses and VRRP groups of an interface.                              *)
(***************************************************************************)
LEMMA PlacesAre ==
    ASSUME NEW ips \in Seq(Address), NEW host, NEW net
    PROVE  /\ PlaceOfHost(ips, host) \in 0..Len(ips)
           /\ PlaceOfNet(ips, net) \in 0..Len(ips)
           /\ (\E i \in 1..Len(ips) : ips[i].net = net) => PlaceOfNet(ips, net) # 0
<1>. DEFINE I == {i \in 1..Len(ips) : ips[i].host = host}
            J == {i \in 1..Len(ips) : ips[i].net = net}
<1>1. PlaceOfHost(ips, host) = IF I # {} THEN Min(I) ELSE 0
  BY DEF PlaceOfHost, SelectInSeq
<1>2. PlaceOfNet(ips, net) = IF J # {} THEN Min(J) ELSE 0
  BY DEF PlaceOfNet, SelectInSeq
<1>3. (I # {} => Min(I) \in I) /\ (J # {} => Min(J) \in J)
  <2>1. I \in SUBSET Nat /\ J \in SUBSET Nat
    OBVIOUS
  <2>. HIDE DEF I, J
  <2>. QED
    BY <2>1, MinIs
<1>. QED
  BY <1>1, <1>2, <1>3

LEMMA AddIpIs ==
    ASSUME NEW ips \in Seq(Address), NEW ip \in Address
    PROVE  AddIp(ips, ip) \in Seq(Address)
<1>. DEFINE k == PlaceOfHost(ips, ip.host)
            j == PlaceOfNet(ips, ips[k].net)
<1>1. AddIp(ips, ip) = IF k = 0 THEN Append(ips, ip) ELSE [ips EXCEPT ![j] = ip]
  BY DEF AddIp
<1>2. k \in 0..Len(ips)
  BY PlacesAre
<1>. HIDE DEF k
<1>3. k # 0 => j \in 1..Len(ips)
  <2>1. j \in 0..Len(ips) /\ ((\E i \in 1..Len(ips) : ips[i].net = ips[k].net) => j # 0)
    BY PlacesAre
  <2>. HIDE DEF j
  <2>. QED
    BY <1>2, <2>1
<1>. HIDE DEF j
<1>. QED
  BY <1>1, <1>3, AppendIs, PutIs

LEMMA RemoveIpIs ==
    ASSUME NEW ips \in Seq(Address), NEW ip
    PROVE  RemoveIp(ips, ip) \in Seq(Address)
<1>. DEFINE k == PlaceOfHost(ips, ip.host)
<1>1. RemoveIp(ips, ip) = IF k = 0 THEN ips ELSE RemoveAt(ips, k)
  BY DEF RemoveIp
<1>2. k \in 0..Len(ips)
  BY PlacesAre
<1>. HIDE DEF k
<1>. QED
  BY <1>1, <1>2, RemoveAtIs

LEMMA CommitIpsAre ==
    ASSUME NEW mine \in Seq(Address), NEW theirs \in Seq(Address)
    PROVE  CommitIps(mine, theirs) \in Seq(Address)
<1>. DEFINE nets == NetsOf(theirs)
            places == [i \in DOMAIN mine |-> i]
            S == Seq(Address)
            left == DropIps(mine, nets)
<1>1. places \in Seq(Nat \ {0})
  <2>1. DOMAIN mine = 1..Len(mine) /\ Len(mine) \in Nat
    OBVIOUS
  <2>2. places \in [1..Len(mine) -> Nat \ {0}]
    BY <2>1
  <2>. QED
    BY <2>1, <2>2, SeqDef
<1>. HIDE DEF nets
<1>2. \A ips \in S, i \in Nat \ {0} : DropAt(nets, ips, i) \in S
  <2>. TAKE ips \in S, i \in Nat \ {0}
  <2>. QED
    BY RemoveIpIs DEF DropAt
<1>3. left \in S
  <2>. HIDE DEF S
  <2>1. mine \in S /\ places = [i \in DOMAIN mine |-> i]
    BY DEF S
  <2>. HIDE DEF places
  <2>. QED
    BY <1>1, <1>2, <2>1, IpsDropped
<1>. HIDE DEF left
<1>4. \A ips \in S, ip \in Address : AddMissing(ips, ip) \in S
  <2>. TAKE ips \in S, ip \in Address
  <2>. QED
    BY AddIpIs DEF AddMissing
<1>5. FoldLeft(AddMissing, left, theirs) \in S
  <2>. HIDE DEF S
  <2>. QED
    BY <1>3, <1>4, MissingAdded
<1>. QED
  BY <1>5 DEF CommitIps, left, nets

\* No two groups of one id: the groups of an interface as TypeOK and
\* GroupsOnce want them.
ApartGroups == {groups \in Seq(VRRP) :
                  \A i, j \in DOMAIN groups : groups[i].id = groups[j].id => i = j}

LEMMA ParseGroupIs ==
    ASSUME NEW groups \in ApartGroups, NEW node \in GroupNode, NEW ip \in Address
    PROVE  ParseGroup(groups, node, ip) \in ApartGroups
<1>. DEFINE new == [id |-> node.id, related |-> ip.net, vips |-> {},
                    attr |-> NoValue, accept |-> FALSE]
            all == WithGroup(groups, node, ip)
            K == {i \in 1..Len(all) : all[i].id = node.id}
            k == SelectInSeq(all, LAMBDA g : g.id = node.id)
<1>1. /\ groups \in Seq(VRRP)
      /\ \A i, j \in 1..Len(groups) : groups[i].id = groups[j].id => i = j
  BY DEF ApartGroups
<1>2. new \in VRRP /\ new.id = node.id
  BY DEF VRRP, GroupNode, Address
<1>3. /\ all \in Seq(VRRP)
      /\ \A i, j \in 1..Len(all) : all[i].id = all[j].id => i = j
      /\ \E i \in 1..Len(all) : all[i].id = node.id
  <2>1. CASE \E g \in ToSet(groups) : g.id = node.id
    <3>1. all = groups
      BY <2>1 DEF WithGroup
    <3>. HIDE DEF all
    <3>. QED
      BY <1>1, <2>1, <3>1 DEF ToSet
  <2>2. CASE ~\E g \in ToSet(groups) : g.id = node.id
    <3>1. all = Append(groups, new)
      BY <2>2 DEF WithGroup
    <3>2. \A i \in 1..Len(groups) : groups[i].id # node.id
      BY <2>2, <1>1 DEF ToSet
    <3>. HIDE DEF all, new
    <3>3. /\ all \in Seq(VRRP) /\ Len(all) = Len(groups) + 1
          /\ \A i \in 1..Len(groups) : all[i] = groups[i]
          /\ all[Len(groups) + 1] = new
      BY <1>1, <1>2, <3>1, AppendIs
    <3>4. Len(groups) \in Nat
      BY <1>1
    <3>. QED
      BY <1>1, <1>2, <3>2, <3>3, <3>4
  <2>. QED
    BY <2>1, <2>2
<1>. HIDE DEF all
<1>4. k \in 1..Len(all) /\ all[k].id = node.id /\ all[k] \in VRRP
  <2>1. K \in SUBSET Nat /\ K # {}
    BY <1>3
  <2>2. k = Min(K)
    BY <2>1 DEF SelectInSeq
  <2>3. Min(K) \in K
    <3>. HIDE DEF K
    <3>. QED
      BY <2>1, MinIs
  <2>. HIDE DEF k
  <2>. QED
    BY <1>3, <2>2, <2>3
<1>5. ParseGroup(groups, node, ip) =
        IF (\E g \in ToSet(groups) : g.id = node.id) /\ node.op = "delete"
        THEN RemoveAt(groups, k)
        ELSE [all EXCEPT ![k] = GroupAttributes(all[k], node, ip)]
  BY DEF ParseGroup, all
<1>. HIDE DEF k
<1>6. CASE (\E g \in ToSet(groups) : g.id = node.id) /\ node.op = "delete"
  <2>1. all = groups
    BY <1>6 DEF WithGroup, all
  <2>. DEFINE rest == RemoveAt(groups, k)
  <2>2. /\ rest \in Seq(VRRP) /\ Len(rest) = Len(groups) - 1
        /\ \A i \in 1..(Len(groups) - 1) : rest[i] = IF i < k THEN groups[i] ELSE groups[i + 1]
    BY <1>1, <1>4, <2>1, RemoveAtIs
  <2>3. ParseGroup(groups, node, ip) = rest
    BY <1>5, <1>6
  <2>. HIDE DEF rest
  <2>4. ASSUME NEW i \in 1..(Len(groups) - 1), NEW j \in 1..(Len(groups) - 1), rest[i].id = rest[j].id
        PROVE  i = j
    <3>. DEFINE i2 == IF i < k THEN i ELSE i + 1
                j2 == IF j < k THEN j ELSE j + 1
    <3>1. k \in Nat /\ Len(groups) \in Nat
      BY <1>1, <1>4
    <3>2. i2 \in 1..Len(groups) /\ j2 \in 1..Len(groups) /\ rest[i] = groups[i2] /\ rest[j] = groups[j2]
      BY <2>2, <3>1
    <3>3. i2 = j2
      <4>. HIDE DEF i2, j2
      <4>. QED
        BY <1>1, <2>4, <3>2
    <3>. QED
      BY <3>1, <3>3
  <2>5. DOMAIN rest = 1..(Len(groups) - 1)
    BY <2>2
  <2>. QED
    BY <2>2, <2>3, <2>4, <2>5 DEF ApartGroups
<1>7. CASE ~((\E g \in ToSet(groups) : g.id = node.id) /\ node.op = "delete")
  <2>. DEFINE g == GroupAttributes(all[k], node, ip)
              put == [all EXCEPT ![k] = g]
  <2>1. g \in VRRP /\ g.id = all[k].id
    <3>. DEFINE old == all[k]
                attr == NewValue(node.attr, old.attr)
    <3>1. /\ old \in [id : Groups, related : Networks, vips : SUBSET Vips,
                      attr : {"set", NoValue}, accept : BOOLEAN]
          /\ node.vips \in SUBSET Vips /\ ip.net \in Networks
          /\ node.attr \in {"set"} \cup {"absent", "delete"}
      BY <1>4 DEF VRRP, GroupNode, Address
    <3>2. attr \in {"set", NoValue}
      <4>1. old.attr \in {"set"} \cup {NoValue}
        BY <3>1
      <4>. HIDE DEF old
      <4>2. NewValue(node.attr, old.attr) \in {"set"} \cup {NoValue}
        BY <3>1, <4>1, NewValueIs
      <4>. QED
        BY <4>2
    <3>. HIDE DEF old, attr
    <3>3. \/ g = [old EXCEPT !.related = ip.net, !.vips = node.vips]
          \/ g = [old EXCEPT !.related = ip.net, !.vips = node.vips, !.attr = attr,
                             !.accept = (node.accept = "set")]
      BY <3>1 DEF GroupAttributes, old, attr
    <3>4. (node.accept = "set") \in BOOLEAN
      OBVIOUS
    <3>. HIDE DEF g
    <3>5. g \in VRRP /\ g.id = old.id
      BY <3>1, <3>2, <3>3, <3>4 DEF VRRP
    <3>. QED
      BY <3>5 DEF old
  <2>2. ParseGroup(groups, node, ip) = put
    BY <1>5, <1>7
  <2>. HIDE DEF g
  <2>3. /\ put \in Seq(VRRP) /\ Len(put) = Len(all)
        /\ \A i \in 1..Len(all) : put[i] = IF i = k THEN g ELSE all[i]
    BY <1>3, <1>4, <2>1, PutIs
  <2>. HIDE DEF put
  <2>4. \A i \in 1..Len(all) : put[i].id = all[i].id
    BY <2>1, <2>3
  <2>5. DOMAIN put = 1..Len(all)
    BY <2>3
  <2>. QED
    BY <1>3, <2>2, <2>3, <2>4, <2>5 DEF ApartGroups
<1>. QED
  BY <1>6, <1>7

-----------------------------------------------------------------------------
(***************************************************************************)
(* Routed interfaces.                                                      *)
(***************************************************************************)
SoundIrbs == {u \in VlanPort : u.groups \in ApartGroups}

LEMMA WrittenShapes ==
    ASSUME NEW u \in SoundIrbs
    PROVE  /\ u \in [name : Irbs, unit : Irbs, vlan : Numbers \cup {NoValue},
                     ips : Seq(Address), groups : Seq(VRRP), redirect : BOOLEAN]
           /\ u.groups \in ApartGroups
BY DEF SoundIrbs, VlanPort

\* Writing what an interface may hold leaves it sound, under its name.
LEMMA AddressesWritten ==
    ASSUME NEW u \in SoundIrbs, NEW ips \in Seq(Address)
    PROVE  /\ [u EXCEPT !.ips = ips] \in SoundIrbs
           /\ [u EXCEPT !.ips = ips].name = u.name
BY WrittenShapes DEF SoundIrbs, VlanPort, ApartGroups

LEMMA GroupsWritten ==
    ASSUME NEW u \in SoundIrbs, NEW ips \in Seq(Address), NEW groups \in ApartGroups
    PROVE  /\ [u EXCEPT !.ips = ips, !.groups = groups] \in SoundIrbs
           /\ [u EXCEPT !.ips = ips, !.groups = groups].name = u.name
BY WrittenShapes DEF SoundIrbs, VlanPort, ApartGroups

LEMMA RedirectWritten ==
    ASSUME NEW u \in SoundIrbs, NEW redirect \in BOOLEAN
    PROVE  /\ [u EXCEPT !.redirect = redirect] \in SoundIrbs
           /\ [u EXCEPT !.redirect = redirect].name = u.name
BY WrittenShapes DEF SoundIrbs, VlanPort, ApartGroups

LEMMA LinkWritten ==
    ASSUME NEW u \in SoundIrbs, NEW vlan \in Numbers \cup {NoValue}
    PROVE  /\ [u EXCEPT !.vlan = vlan] \in SoundIrbs
           /\ [u EXCEPT !.vlan = vlan].name = u.name
BY WrittenShapes DEF SoundIrbs, VlanPort, ApartGroups

LEMMA ParseAddressIs ==
    ASSUME NEW irb \in SoundIrbs, NEW node \in AddressNode \cup {NoValue}
    PROVE  ParseAddress(irb, node) \in SoundIrbs /\ ParseAddress(irb, node).name = irb.name
<1>1. irb.ips \in Seq(Address) /\ irb.groups \in ApartGroups
  BY DEF SoundIrbs, VlanPort
<1>2. node # NoValue => /\ node.op \in {"merge", "delete"}
                        /\ node.ip \in Address
                        /\ node.group \in GroupNode \cup {NoValue}
  BY DEF AddressNode
<1>3. CASE node = NoValue
  BY <1>3 DEF ParseAddress
<1>4. CASE node # NoValue /\ node.op = "delete"
  <2>1. ParseAddress(irb, node) = [irb EXCEPT !.ips = RemoveIp(irb.ips, node.ip)]
    BY <1>4 DEF ParseAddress
  <2>2. RemoveIp(irb.ips, node.ip) \in Seq(Address)
    BY <1>1, RemoveIpIs
  <2>. QED
    BY <2>1, <2>2, AddressesWritten
<1>5. CASE node # NoValue /\ node.op = "merge"
  <2>. DEFINE ips == AddIp(irb.ips, node.ip)
              groups == IF node.group = NoValue THEN irb.groups
                        ELSE ParseGroup(irb.groups, node.group, node.ip)
  <2>1. ParseAddress(irb, node) = [irb EXCEPT !.ips = ips, !.groups = groups]
    BY <1>5 DEF ParseAddress
  <2>2. ips \in Seq(Address)
    BY <1>1, <1>2, <1>5, AddIpIs
  <2>3. groups \in ApartGroups
    BY <1>1, <1>2, <1>5, ParseGroupIs
  <2>. HIDE DEF ips, groups
  <2>4. /\ [irb EXCEPT !.ips = ips, !.groups = groups] \in SoundIrbs
        /\ [irb EXCEPT !.ips = ips, !.groups = groups].name = irb.name
    BY <2>2, <2>3, GroupsWritten
  <2>. QED
    BY <2>1, <2>4
<1>. QED
  BY <1>2, <1>3, <1>4, <1>5

LEMMA LinkedNumberIs ==
    ASSUME NEW c \in Configuration, NEW n
    PROVE  LinkedNumber(c, n) \in Numbers \cup {NoValue}
<1>. DEFINE I == {i \in 1..Len(c.domains) : c.domains[i].link = n}
            k == SelectInSeq(c.domains, LAMBDA v : v.link = n)
<1>1. k = IF I # {} THEN Min(I) ELSE 0
  BY DEF SelectInSeq
<1>2. I # {} => Min(I) \in I
  <2>1. I \in SUBSET Nat
    OBVIOUS
  <2>. HIDE DEF I
  <2>. QED
    BY <2>1, MinIs
<1>3. LinkedNumber(c, n) = IF k = 0 THEN NoValue ELSE c.domains[k].number
  BY DEF LinkedNumber
<1>. HIDE DEF k
<1>4. k = 0 \/ k \in 1..Len(c.domains)
  BY <1>1, <1>2
<1>5. ASSUME NEW i \in 1..Len(c.domains) PROVE c.domains[i].number \in Numbers \cup {NoValue}
  <2>1. c.domains[i] \in Domain
    BY DEF Configuration
  <2>. QED
    BY <2>1 DEF Domain
<1>. QED
  BY <1>3, <1>4, <1>5

LEMMA WithIrbIs ==
    ASSUME NEW c \in Configuration, NamedList(c.irbs, SoundIrbs), NEW n \in Irbs
    PROVE  NamedList(WithIrb(c, n), SoundIrbs) /\ HasNamed(WithIrb(c, n), n)
<1>. DEFINE new == [name |-> n, unit |-> n, vlan |-> LinkedNumber(c, n),
                    ips |-> <<>>, groups |-> <<>>, redirect |-> TRUE]
<1>1. new \in SoundIrbs /\ new.name = n
  <2>1. LinkedNumber(c, n) \in Numbers \cup {NoValue}
    BY LinkedNumberIs
  <2>2. <<>> \in ApartGroups /\ <<>> \in Seq(Address) /\ <<>> \in Seq(VRRP)
    BY DEF ApartGroups
  <2>. QED
    BY <2>1, <2>2 DEF SoundIrbs, VlanPort
<1>. HIDE DEF new
<1>2. WithIrb(c, n) = IF HasNamed(c.irbs, n) THEN c.irbs ELSE Append(c.irbs, new)
  BY DEF WithIrb, new
<1>3. CASE HasNamed(c.irbs, n)
  BY <1>2, <1>3
<1>4. CASE ~HasNamed(c.irbs, n)
  <2>1. WithIrb(c, n) = Append(c.irbs, new)
    BY <1>2, <1>4
  <2>2. NamedList(Append(c.irbs, new), SoundIrbs) /\ HasNamed(Append(c.irbs, new), new.name)
    BY <1>1, <1>4, NamedAppend
  <2>. QED
    BY <1>1, <2>1, <2>2
<1>. QED
  BY <1>3, <1>4

\* The step of the copying loop.  A lookup by partial name finds at least what
\* has the name, so what is appended has a name of its own.
LEMMA CopiedIrbIs ==
    ASSUME NEW s, NamedList(s, SoundIrbs), NEW u \in SoundIrbs
    PROVE  NamedList(CopiedIrb(s, u), SoundIrbs)
<1>. DEFINE k == IndexOfNamed(s, Matches[u.name])
            new == [u EXCEPT !.name = s[k].name, !.ips = CommitIps(s[k].ips, u.ips)]
<1>1. s \in Seq(SoundIrbs)
  BY DEF NamedList
<1>2. /\ k \in 0..Len(s)
      /\ k = 0 => \A i \in 1..Len(s) : s[i].name \notin Matches[u.name]
  BY <1>1, IndexIs
<1>3. CopiedIrb(s, u) = IF k = 0 THEN Append(s, u) ELSE [s EXCEPT ![k] = new]
  BY DEF CopiedIrb
<1>. HIDE DEF k
<1>4. u.name \in Irbs /\ u.ips \in Seq(Address)
  BY DEF SoundIrbs, VlanPort
<1>5. CASE k = 0
  <2>1. u.name \in Matches[u.name]
    BY <1>4, LookupAssumption
  <2>2. ~HasNamed(s, u.name)
    BY <1>1, <1>2, <1>5, <2>1, HasIs
  <2>. QED
    BY <1>3, <1>5, <2>2, NamedAppend
<1>6. CASE k # 0
  <2>1. k \in 1..Len(s)
    BY <1>1, <1>2, <1>6
  <2>2. s[k] \in SoundIrbs
    BY <1>1, <2>1
  <2>3. s[k].name \in Irbs /\ s[k].ips \in Seq(Address)
    BY <2>2 DEF SoundIrbs, VlanPort
  <2>4. CommitIps(s[k].ips, u.ips) \in Seq(Address)
    BY <1>4, <2>3, CommitIpsAre
  <2>. DEFINE name == s[k].name
              ips == CommitIps(s[k].ips, u.ips)
  <2>5. new = [u EXCEPT !.name = name, !.ips = ips] /\ name \in Irbs /\ ips \in Seq(Address)
    BY <2>3, <2>4
  <2>. HIDE DEF name, ips
  <2>6. /\ [u EXCEPT !.name = name, !.ips = ips] \in SoundIrbs
        /\ [u EXCEPT !.name = name, !.ips = ips].name = name
    BY <2>5, WrittenShapes DEF SoundIrbs, VlanPort, ApartGroups
  <2>7. new \in SoundIrbs /\ new.name = s[k].name
    BY <2>5, <2>6 DEF name
  <2>. HIDE DEF new
  <2>8. NamedList([s EXCEPT ![k] = new], SoundIrbs)
    BY <2>1, <2>7, NamedPut
  <2>. QED
    BY <1>3, <1>6, <2>8
<1>. QED
  BY <1>5, <1>6

LEMMA CommittedIrbs ==
    ASSUME NEW run, NamedList(run, SoundIrbs), NEW cand, NamedList(cand, SoundIrbs)
    PROVE  NamedList(CommitIrbs(run, cand), SoundIrbs)
<1>. DEFINE S == {s \in Seq(SoundIrbs) : NamedList(s, SoundIrbs)}
            all == FoldLeft(CopiedIrb, run, cand)
<1>1. run \in S /\ cand \in Seq(SoundIrbs)
  BY DEF NamedList
<1>2. \A s \in S : s \in Seq(SoundIrbs) /\ NamedList(s, SoundIrbs)
  OBVIOUS
<1>3. \A s : NamedList(s, SoundIrbs) => s \in S
  BY DEF NamedList
<1>. HIDE DEF S
<1>4. \A s \in S, u \in SoundIrbs : CopiedIrb(s, u) \in S
  BY <1>2, <1>3, CopiedIrbIs
<1>5. all \in S
  BY <1>1, <1>4, CopiedIrbs
<1>. HIDE DEF all
<1>6. \A s \in S, u \in SoundIrbs : DropIrb(cand, s, u) \in S
  <2>. TAKE s \in S, u \in SoundIrbs
  <2>1. DropIrb(cand, s, u) = s \/ DropIrb(cand, s, u) = RemoveAt(s, IndexOfNamed(s, {u.name}))
    BY DEF DropIrb
  <2>2. NamedList(RemoveAt(s, IndexOfNamed(s, {u.name})), SoundIrbs)
    BY <1>2, NamedRemove
  <2>. QED
    BY <1>3, <2>1, <2>2
<1>7. DropIrbs(cand, all) \in S
  BY <1>2, <1>5, <1>6, IrbsDropped
<1>. QED
  BY <1>2, <1>7 DEF CommitIrbs, all

-----------------------------------------------------------------------------
(***************************************************************************)
(* The inductive invariant: both configurations are sound, and a domain    *)
(* whose dict is shared is in both.                                        *)
(***************************************************************************)
Sound(c) ==
    /\ c \in Configuration
    /\ NamedList(c.domains, Domain)
    /\ NamedList(c.irbs, SoundIrbs)

SharedInBoth(names, c, d) == \A n \in names : HasNamed(c.domains, n) /\ HasNamed(d.domains, n)

IInv ==
    /\ Sound(candidate)
    /\ Sound(running)
    /\ SharedInBoth(shared, candidate, running)
    /\ requests \in Workloads

LEMMA InitIInv == Init => IInv
<1>. SUFFICES ASSUME Init PROVE IInv
  OBVIOUS
<1>1. EmptyConfiguration \in Configuration
  BY DEF EmptyConfiguration, Configuration, Port
<1>2. EmptyConfiguration.domains = <<>> /\ EmptyConfiguration.irbs = <<>>
  BY DEF EmptyConfiguration
<1>3. NamedList(<<>>, Domain) /\ NamedList(<<>>, SoundIrbs)
  BY DEF NamedList
<1>. QED
  BY <1>1, <1>2, <1>3 DEF Init, IInv, Sound, SharedInBoth

LEMMA SoundIrbsAreVlanPorts ==
    ASSUME NEW s, NamedList(s, SoundIrbs)
    PROVE  s \in Seq(VlanPort)
<1>1. s \in [1..Len(s) -> SoundIrbs] /\ Len(s) \in Nat
  BY DEF NamedList
<1>2. SoundIrbs \subseteq VlanPort
  BY DEF SoundIrbs
<1>3. s \in [1..Len(s) -> VlanPort]
  BY <1>1, <1>2
<1>. QED
  BY <1>1, <1>3, SeqDef

LEMMA SoundWritten ==
    ASSUME NEW c, Sound(c)
    PROVE  /\ \A irbs : NamedList(irbs, SoundIrbs) =>
                 /\ Sound([c EXCEPT !.irbs = irbs])
                 /\ [c EXCEPT !.irbs = irbs].domains = c.domains
           /\ \A domains : NamedList(domains, Domain) =>
                 /\ Sound([c EXCEPT !.domains = domains])
                 /\ [c EXCEPT !.domains = domains].domains = domains
           /\ \A port \in Port :
                 /\ Sound([c EXCEPT !.port = port])
                 /\ [c EXCEPT !.port = port].domains = c.domains
<1>1. c \in [domains : Seq(Domain), irbs : Seq(VlanPort), port : Port]
  BY DEF Sound, Configuration
<1>2. NamedList(c.domains, Domain) /\ NamedList(c.irbs, SoundIrbs)
  BY DEF Sound
<1>3. ASSUME NEW irbs, NamedList(irbs, SoundIrbs)
      PROVE  Sound([c EXCEPT !.irbs = irbs]) /\ [c EXCEPT !.irbs = irbs].domains = c.domains
  <2>1. irbs \in Seq(VlanPort)
    BY <1>3, SoundIrbsAreVlanPorts
  <2>. QED
    BY <1>1, <1>2, <1>3, <2>1 DEF Sound, Configuration
<1>4. ASSUME NEW domains, NamedList(domains, Domain)
      PROVE  Sound([c EXCEPT !.domains = domains]) /\ [c EXCEPT !.domains = domains].domains = domains
  <2>1. domains \in Seq(Domain)
    BY <1>4 DEF NamedList
  <2>. QED
    BY <1>1, <1>2, <1>4, <2>1 DEF Sound, Configuration
<1>5. ASSUME NEW port \in Port
      PROVE  Sound([c EXCEPT !.port = port]) /\ [c EXCEPT !.port = port].domains = c.domains
  BY <1>1, <1>2 DEF Sound, Configuration
<1>. QED
  BY <1>3, <1>4, <1>5

-----------------------------------------------------------------------------
(***************************************************************************)
(* Edits.                                                                  *)
(***************************************************************************)
LEMMA MergeDomainIs ==
    ASSUME NEW c, Sound(c), NEW node \in DomainNode
    PROVE  /\ Sound(MergeDomain(c, node))
           /\ HasNamed(MergeDomain(c, node).domains, node.name)
           /\ \A n : HasNamed(c.domains, n) => HasNamed(MergeDomain(c, node).domains, n)
<1>. DEFINE domains == WithDomain(c, node.name)
            k == IndexOfNamed(domains, {node.name})
            v == DomainAttributes(domains[k], node)
            put == [domains EXCEPT ![k] = v]
            irbs == Relink(c.irbs, domains[k], node)
<1>1. /\ c \in Configuration /\ NamedList(c.domains, Domain) /\ NamedList(c.irbs, SoundIrbs)
      /\ node.name \in Domains
  BY DEF Sound, DomainNode
<1>2. /\ NamedList(domains, Domain) /\ HasNamed(domains, node.name)
      /\ \A m : HasNamed(c.domains, m) => HasNamed(domains, m)
  BY <1>1, WithDomainIs
<1>. HIDE DEF domains
<1>3. k \in 1..Len(domains)
  BY <1>2, IndexOfHad
<1>. HIDE DEF k
<1>4. domains[k] \in Domain
  BY <1>2, <1>3 DEF NamedList
<1>5. v \in Domain /\ v.name = domains[k].name
  BY <1>4, AttributesAre
<1>6. NamedList(put, Domain) /\ \A n : HasNamed(domains, n) => HasNamed(put, n)
  <2>. HIDE DEF v
  <2>. QED
    BY <1>2, <1>3, <1>5, NamedPut
<1>7. NamedList(irbs, SoundIrbs)
  <2>1. c.irbs \in Seq(SoundIrbs) /\ \A i, j \in 1..Len(c.irbs) : c.irbs[i].name = c.irbs[j].name => i = j
    BY <1>1 DEF NamedList
  <2>2. v.number \in Numbers \cup {NoValue}
    BY <1>5 DEF Domain
  <2>3. irbs = [i \in DOMAIN c.irbs |->
                  IF /\ Resolves(node.number, domains[k].number)
                     /\ Resolves(node.link, domains[k].link)
                     /\ c.irbs[i].name = v.link
                  THEN [c.irbs[i] EXCEPT !.vlan = v.number] ELSE c.irbs[i]]
    BY DEF Relink
  <2>. HIDE DEF irbs, v
  <2>4. DOMAIN c.irbs = 1..Len(c.irbs) /\ Len(c.irbs) \in Nat
    BY <2>1
  <2>5. ASSUME NEW i \in 1..Len(c.irbs)
        PROVE  irbs[i] \in SoundIrbs /\ irbs[i].name = c.irbs[i].name
    <3>1. c.irbs[i] \in SoundIrbs
      BY <2>1
    <3>2. /\ [c.irbs[i] EXCEPT !.vlan = v.number] \in SoundIrbs
          /\ [c.irbs[i] EXCEPT !.vlan = v.number].name = c.irbs[i].name
      BY <2>2, <3>1, LinkWritten
    <3>3. irbs[i] = c.irbs[i] \/ irbs[i] = [c.irbs[i] EXCEPT !.vlan = v.number]
      BY <2>3, <2>4
    <3>. QED
      BY <3>1, <3>2, <3>3
  <2>6. irbs \in [1..Len(c.irbs) -> SoundIrbs]
    <3>1. DOMAIN irbs = 1..Len(c.irbs) /\ irbs = [i \in DOMAIN irbs |-> irbs[i]]
      BY <2>3, <2>4
    <3>. QED
      BY <2>5, <3>1
  <2>7. irbs \in Seq(SoundIrbs) /\ DOMAIN irbs = 1..Len(c.irbs)
    BY <2>4, <2>6, SeqDef
  <2>. QED
    BY <2>1, <2>5, <2>7 DEF NamedList
<1>8. MergeDomain(c, node) = [[c EXCEPT !.domains = put] EXCEPT !.irbs = irbs]
  <2>1. c \in [domains : Seq(Domain), irbs : Seq(VlanPort), port : Port]
    BY <1>1 DEF Configuration
  <2>2. MergeDomain(c, node) = [c EXCEPT !.domains = put, !.irbs = irbs]
    BY DEF MergeDomain, domains, k
  <2>. HIDE DEF put, irbs
  <2>. QED
    BY <2>1, <2>2
<1>. HIDE DEF put, irbs
<1>9. Sound([c EXCEPT !.domains = put]) /\ [c EXCEPT !.domains = put].domains = put
  BY <1>6, SoundWritten
<1>10. /\ Sound([[c EXCEPT !.domains = put] EXCEPT !.irbs = irbs])
       /\ [[c EXCEPT !.domains = put] EXCEPT !.irbs = irbs].domains = put
  BY <1>7, <1>9, SoundWritten
<1>. QED
  BY <1>2, <1>6, <1>8, <1>10

\* What is written through a shared dict is a link of the running domain.
LEMMA LinkSeenThroughIs ==
    ASSUME Sound(running), NEW n, NEW new, Sound(new),
           HasNamed(new.domains, n), n \in shared => HasNamed(running.domains, n)
    PROVE  LET seen == LinkSeenThrough(n, new)
           IN /\ Sound(seen)
              /\ \A m : HasNamed(running.domains, m) => HasNamed(seen.domains, m)
<1>. DEFINE old == running.domains
            k == IndexOfNamed(old, {n})
            link == new.domains[IndexOfNamed(new.domains, {n})].link
            v == [old[k] EXCEPT !.link = link]
            put == [old EXCEPT ![k] = v]
            seen == LinkSeenThrough(n, new)
<1>1. NamedList(old, Domain) /\ running \in [domains : Seq(Domain), irbs : Seq(VlanPort), port : Port]
  BY DEF Sound, Configuration
<1>2. CASE n \notin shared
  <2>1. seen = running
    BY <1>2 DEF LinkSeenThrough
  <2>. HIDE DEF seen
  <2>. QED
    BY <2>1 DEF seen
<1>3. CASE n \in shared
  <2>1. k \in 1..Len(old) /\ old[k].name = n
    BY <1>1, <1>3, IndexOfHad
  <2>2. link \in Irbs \cup {NoValue}
    <3>. DEFINE j == IndexOfNamed(new.domains, {n})
    <3>1. NamedList(new.domains, Domain)
      BY DEF Sound
    <3>2. j \in 1..Len(new.domains)
      BY <3>1, IndexOfHad
    <3>. HIDE DEF j
    <3>3. new.domains[j] \in Domain
      BY <3>1, <3>2 DEF NamedList
    <3>. QED
      BY <3>3 DEF Domain, j
  <2>. HIDE DEF link
  <2>3. seen = [running EXCEPT !.domains = put]
    <3>1. seen = [running EXCEPT !.domains[k].link = link]
      BY <1>3 DEF LinkSeenThrough, link
    <3>. QED
      BY <1>1, <3>1
  <2>. HIDE DEF k
  <2>4. old[k] \in [name : Domains, number : Numbers \cup {NoValue}, link : Irbs \cup {NoValue}]
    <3>1. old \in Seq(Domain)
      BY <1>1
    <3>. HIDE DEF old
    <3>2. old[k] \in Domain
      BY <2>1, <3>1
    <3>. QED
      BY <3>2 DEF Domain
  <2>5. v \in Domain /\ v.name = old[k].name /\ v.link = link
    BY <2>2, <2>4 DEF Domain
  <2>. HIDE DEF v
  <2>6. NamedList(put, Domain) /\ \A m : HasNamed(old, m) => HasNamed(put, m)
    BY <1>1, <2>1, <2>5, NamedPut
  <2>. HIDE DEF put, seen
  <2>8. Sound(seen) /\ seen.domains = put
    BY <2>3, <2>6, SoundWritten
  <2>. QED
    BY <2>6, <2>8 DEF seen
<1>. QED
  BY <1>2, <1>3

LEMMA EditDomainKeeps ==
    ASSUME IInv, NEW node \in DomainNode, EditDomain(node)
    PROVE  IInv'
<1>1. Sound(candidate) /\ Sound(running) /\ SharedInBoth(shared, candidate, running)
  BY DEF IInv
<1>2. CASE /\ candidate' = MergeDomain(candidate, node)
           /\ running' = LinkSeenThrough(node.name, candidate')
           /\ UNCHANGED <<shared, requests>>
  <2>1. /\ Sound(candidate') /\ HasNamed(candidate'.domains, node.name)
        /\ \A n : HasNamed(candidate.domains, n) => HasNamed(candidate'.domains, n)
    BY <1>1, <1>2, MergeDomainIs
  <2>2. node.name \in shared => HasNamed(running.domains, node.name)
    BY <1>1 DEF SharedInBoth
  <2>. DEFINE seen == LinkSeenThrough(node.name, candidate')
  <2>3. /\ Sound(seen)
        /\ \A m : HasNamed(running.domains, m) => HasNamed(seen.domains, m)
    BY <1>1, <2>1, <2>2, LinkSeenThroughIs
  <2>. HIDE DEF seen
  <2>4. running' = seen
    BY <1>2 DEF seen
  <2>5. SharedInBoth(shared', candidate', running')
    BY <1>1, <1>2, <2>1, <2>3, <2>4 DEF SharedInBoth
  <2>. QED
    BY <1>2, <2>1, <2>3, <2>4, <2>5 DEF IInv
<1>3. CASE /\ candidate' = [candidate EXCEPT !.domains =
                              RemoveAt(candidate.domains, IndexOfNamed(candidate.domains, {node.name}))]
           /\ shared' = shared \ {node.name}
           /\ UNCHANGED <<running, requests>>
  <2>. DEFINE rest == RemoveAt(candidate.domains, IndexOfNamed(candidate.domains, {node.name}))
  <2>1. /\ NamedList(rest, Domain)
        /\ \A m : m # node.name /\ HasNamed(candidate.domains, m) => HasNamed(rest, m)
    BY <1>1, NamedRemove DEF Sound
  <2>. HIDE DEF rest
  <2>2. candidate' = [candidate EXCEPT !.domains = rest]
    BY <1>3 DEF rest
  <2>3. Sound(candidate') /\ candidate'.domains = rest
    BY <1>1, <2>1, <2>2, SoundWritten
  <2>4. SharedInBoth(shared', candidate', running')
    BY <1>1, <1>3, <2>1, <2>3 DEF SharedInBoth
  <2>. QED
    BY <1>1, <1>3, <2>3, <2>4 DEF IInv
<1>. QED
  BY <1>2, <1>3 DEF EditDomain

\* An edit that writes something else than domains leaves the shared ones.
LEMMA OtherEditKeeps ==
    ASSUME IInv, Sound(candidate'), candidate'.domains = candidate.domains,
           UNCHANGED <<running, shared, requests>>
    PROVE  IInv'
BY DEF IInv, SharedInBoth

LEMMA ParseUnitIs ==
    ASSUME NEW c, Sound(c), NEW node \in UnitNode
    PROVE  Sound(ParseUnit(c, node)) /\ ParseUnit(c, node).domains = c.domains
<1>. DEFINE irbs == WithIrb(c, node.name)
            k == IndexOfNamed(irbs, {node.name})
            redirect == CASE node.redirects = "absent" -> irbs[k].redirect
                          [] OTHER -> node.redirects = "delete"
            u == [irbs[k] EXCEPT !.redirect = redirect]
            v == ParseAddress(u, node.address)
            put == [irbs EXCEPT ![k] = v]
<1>1. /\ c \in Configuration /\ NamedList(c.irbs, SoundIrbs)
      /\ node.name \in Irbs /\ node.address \in AddressNode \cup {NoValue}
  BY DEF Sound, UnitNode
<1>2. NamedList(irbs, SoundIrbs) /\ HasNamed(irbs, node.name)
  BY <1>1, WithIrbIs
<1>3. ParseUnit(c, node) = [c EXCEPT !.irbs = put]
  BY DEF ParseUnit
<1>. HIDE DEF irbs
<1>4. k \in 1..Len(irbs)
  BY <1>2, IndexOfHad
<1>. HIDE DEF k
<1>5. irbs[k] \in SoundIrbs
  BY <1>2, <1>4 DEF NamedList
<1>6. redirect \in BOOLEAN
  <2>1. irbs[k].redirect \in BOOLEAN
    BY <1>5 DEF SoundIrbs, VlanPort
  <2>2. (node.redirects = "delete") \in BOOLEAN
    OBVIOUS
  <2>3. redirect = irbs[k].redirect \/ redirect = (node.redirects = "delete")
    OBVIOUS
  <2>. HIDE DEF redirect
  <2>. QED
    BY <2>1, <2>2, <2>3
<1>. HIDE DEF redirect
<1>7. u \in SoundIrbs /\ u.name = irbs[k].name
  BY <1>5, <1>6, RedirectWritten
<1>. HIDE DEF u
<1>8. v \in SoundIrbs /\ v.name = irbs[k].name
  BY <1>1, <1>7, ParseAddressIs
<1>. HIDE DEF v
<1>9. NamedList(put, SoundIrbs)
  BY <1>2, <1>4, <1>8, NamedPut
<1>. HIDE DEF put
<1>. QED
  BY <1>3, <1>9, SoundWritten

LEMMA ParseBridgeIs ==
    ASSUME NEW p \in Port, NEW node \in BridgeNode
    PROVE  ParseBridge(p, node) \in Port
<1>1. /\ p \in [mode : {"access", "trunk", NoValue}, access : Numbers \cup {NoValue},
                trunk : Seq(Numbers)]
      /\ node.mode \in {"access", "trunk"} \cup {"absent", "delete"}
      /\ node.id \in Numbers \cup {"absent", "delete"}
      /\ node.member \in Numbers
  BY DEF Port, BridgeNode
<1>. DEFINE mode == NewValue(node.mode, p.mode)
            entered == EnterMode(p, mode)
            access == NewValue(node.id, entered.access)
            q == [entered EXCEPT !.access = access]
<1>2. mode \in {"access", "trunk", NoValue}
  <2>1. p.mode \in {"access", "trunk"} \cup {NoValue}
    BY <1>1
  <2>2. NewValue(node.mode, p.mode) \in {"access", "trunk"} \cup {NoValue}
    BY <1>1, <2>1, NewValueIs
  <2>. QED
    BY <2>2
<1>. HIDE DEF mode
<1>3. entered \in Port
  <2>1. \/ entered = [p EXCEPT !.mode = mode, !.trunk = <<>>]
        \/ entered = [p EXCEPT !.mode = mode, !.access = NoValue]
    BY DEF EnterMode
  <2>2. <<>> \in Seq(Numbers)
    OBVIOUS
  <2>. HIDE DEF entered
  <2>. QED
    BY <1>1, <1>2, <2>1, <2>2 DEF Port
<1>. HIDE DEF entered
<1>4. access \in Numbers \cup {NoValue}
  <2>1. entered.access \in Numbers \cup {NoValue}
    BY <1>3 DEF Port
  <2>. QED
    BY <1>1, <2>1, NewValueIs
<1>. HIDE DEF access
<1>5. q \in Port
  BY <1>3, <1>4 DEF Port
<1>6. ParseBridge(p, node) = IF ~Resolves(node.mode, p.mode) THEN p ELSE ParseList(q, node)
  BY <1>3 DEF ParseBridge, entered, access, mode, Port
<1>. HIDE DEF q
<1>7. ParseList(q, node) \in Port
  <2>1. q \in [mode : {"access", "trunk", NoValue}, access : Numbers \cup {NoValue},
               trunk : Seq(Numbers)]
    BY <1>5 DEF Port
  <2>2. <<>> \in Seq(Numbers) /\ Append(q.trunk, node.member) \in Seq(Numbers)
    BY <1>1, <2>1
  <2>3. RemoveFirst(q.trunk, node.member) \in Seq(Numbers)
    <3>. DEFINE I == {i \in 1..Len(q.trunk) : q.trunk[i] = node.member}
    <3>1. I \in SUBSET Nat
      OBVIOUS
    <3>2. I # {} => Min(I) \in 1..Len(q.trunk)
      <4>. HIDE DEF I
      <4>1. I # {} => Min(I) \in I
        BY <3>1, MinIs
      <4>. QED
        BY <4>1 DEF I
    <3>3. RemoveFirst(q.trunk, node.member) =
            IF I # {} THEN RemoveAt(q.trunk, Min(I)) ELSE q.trunk
      BY DEF RemoveFirst, SelectInSeq
    <3>. HIDE DEF I
    <3>. QED
      BY <2>1, <3>2, <3>3, RemoveAtIs
  <2>4. \A t \in Seq(Numbers) : [q EXCEPT !.trunk = t] \in Port
    BY <2>1 DEF Port
  <2>5. \/ ParseList(q, node) = q
        \/ ParseList(q, node) = [q EXCEPT !.trunk = <<>>]
        \/ ParseList(q, node) = [q EXCEPT !.trunk = RemoveFirst(q.trunk, node.member)]
        \/ ParseList(q, node) = [q EXCEPT !.trunk = Append(q.trunk, node.member)]
    BY DEF ParseList
  <2>. QED
    BY <1>5, <2>2, <2>3, <2>4, <2>5
<1>. QED
  BY <1>6, <1>7

LEMMA EditKeeps ==
    ASSUME IInv, NEW r \in requests, Edit(r)
    PROVE  IInv'
<1>1. /\ r \in DomainNode \cup UnitNode \cup BridgeNode \/ r = [kind |-> "routing", op |-> "delete"]
      /\ Sound(candidate)
  BY RequestAssumption DEF IInv
<1>2. CASE r.kind = "domain" /\ EditDomain(r)
  <2>1. r \in DomainNode
    BY <1>1, <1>2 DEF UnitNode, BridgeNode
  <2>. QED
    BY <1>2, <2>1, EditDomainKeeps
<1>3. CASE r.kind = "unit" /\ EditUnit(r)
  <2>1. r \in UnitNode
    BY <1>1, <1>3 DEF DomainNode, BridgeNode
  <2>2. Sound(candidate') /\ candidate'.domains = candidate.domains
    BY <1>1, <1>3, <2>1, ParseUnitIs DEF EditUnit
  <2>. QED
    BY <1>3, <2>2, OtherEditKeeps DEF EditUnit
<1>4. CASE r.kind = "bridge" /\ EditBridge(r)
  <2>1. r \in BridgeNode
    BY <1>1, <1>4 DEF DomainNode, UnitNode
  <2>2. ParseBridge(candidate.port, r) \in Port
    <3>1. candidate.port \in Port
      BY <1>1 DEF Sound, Configuration
    <3>. QED
      BY <2>1, <3>1, ParseBridgeIs
  <2>3. candidate' = [candidate EXCEPT !.port = ParseBridge(candidate.port, r)]
    BY <1>4 DEF EditBridge
  <2>4. Sound(candidate') /\ candidate'.domains = candidate.domains
    BY <1>1, <2>2, <2>3, SoundWritten
  <2>. QED
    BY <1>4, <2>4, OtherEditKeeps DEF EditBridge
<1>5. CASE r.kind = "routing" /\ DeleteRouting
  <2>1. NamedList(<<>>, SoundIrbs)
    BY DEF NamedList
  <2>2. Sound(candidate') /\ candidate'.domains = candidate.domains
    BY <1>1, <1>5, <2>1, SoundWritten DEF DeleteRouting
  <2>. QED
    BY <1>5, <2>2, OtherEditKeeps DEF DeleteRouting
<1>. QED
  BY <1>2, <1>3, <1>4, <1>5 DEF Edit

-----------------------------------------------------------------------------
(***************************************************************************)
(* Commit, discard, and the theorems.                                      *)
(***************************************************************************)
LEMMA CommitKeeps ==
    ASSUME IInv, Commit
    PROVE  IInv'
<1>. DEFINE domains == CommitDomains(running.domains, candidate.domains)
            irbs == CommitIrbs(running.irbs, candidate.irbs)
<1>1. Sound(candidate) /\ Sound(running)
  BY DEF IInv
<1>2. /\ NamedList(domains, Domain)
      /\ \A n : HasNamed(running.domains, n) /\ HasNamed(candidate.domains, n) => HasNamed(domains, n)
  BY <1>1, CommittedDomains DEF Sound
<1>3. NamedList(irbs, SoundIrbs)
  BY <1>1, CommittedIrbs DEF Sound
<1>4. /\ running' = [domains |-> domains, irbs |-> irbs, port |-> candidate.port]
      /\ shared' = {n \in Domains : HasNamed(running.domains, n) /\ HasNamed(candidate.domains, n)}
      /\ candidate' = candidate /\ requests' = requests
  BY DEF Commit
<1>. HIDE DEF domains, irbs
<1>5. Sound(running')
  <2>1. domains \in Seq(Domain) /\ irbs \in Seq(VlanPort)
    BY <1>2, <1>3, SoundIrbsAreVlanPorts DEF NamedList
  <2>2. candidate.port \in Port
    BY <1>1 DEF Sound, Configuration
  <2>. QED
    BY <1>2, <1>3, <1>4, <2>1, <2>2 DEF Sound, Configuration
<1>6. SharedInBoth(shared', candidate', running')
  BY <1>2, <1>4 DEF SharedInBoth
<1>. QED
  BY <1>1, <1>4, <1>5, <1>6 DEF IInv

LEMMA NextIInv == IInv /\ [Next]_vars => IInv'
<1>. SUFFICES ASSUME IInv, [Next]_vars PROVE IInv'
  OBVIOUS
<1>1. CASE \E r \in requests : Edit(r)
  BY <1>1, EditKeeps
<1>2. CASE Commit
  BY <1>2, CommitKeeps
<1>3. CASE Discard
  BY <1>3 DEF Discard, IInv, SharedInBoth
<1>4. CASE UNCHANGED vars
  BY <1>4 DEF vars, IInv, SharedInBoth
<1>. QED
  BY <1>1, <1>2, <1>3, <1>4 DEF Next

LEMMA IInvAlways == Spec => []IInv
BY InitIInv, NextIInv, PTL DEF Spec

\* Whatever clients send, at whatever node an edit fails: both configurations
\* keep their shape, no domain and no routed interface is listed twice under a
\* name, and a domain whose dict a commit shared is in both.
THEOREM MxTypeCorrect == Spec => []TypeOK
<1>1. IInv => TypeOK
  <2>. SUFFICES ASSUME IInv PROVE TypeOK
    OBVIOUS
  <2>1. ASSUME NEW c, Sound(c)
        PROVE  /\ c.domains \in Seq(Domain) /\ c.irbs \in Seq(VlanPort) /\ c.port \in Port
               /\ \A i, j \in DOMAIN c.domains : c.domains[i].name = c.domains[j].name => i = j
               /\ \A i, j \in DOMAIN c.irbs : c.irbs[i].name = c.irbs[j].name => i = j
    BY <2>1 DEF Sound, Configuration, NamedList
  <2>. QED
    BY <2>1 DEF IInv, TypeOK, Configurations, SharedInBoth
<1>. QED
  BY <1>1, IInvAlways, PTL

\* However VRRP groups are added, deleted and moved between addresses, and
\* through every commit: an interface has a group id once, so the first group
\* that a lookup finds is the one.
THEOREM GroupsOnceAlways == Spec => []GroupsOnce
<1>1. IInv => GroupsOnce
  <2>. SUFFICES ASSUME IInv, NEW c \in Configurations, NEW irb \in ToSet(c.irbs)
                PROVE  \A i, j \in DOMAIN irb.groups : irb.groups[i].id = irb.groups[j].id => i = j
    BY DEF GroupsOnce
  <2>1. c.irbs \in Seq(SoundIrbs)
    BY DEF IInv, Configurations, Sound, NamedList
  <2>2. irb \in SoundIrbs
    BY <2>1 DEF ToSet
  <2>. QED
    BY <2>2 DEF SoundIrbs, ApartGroups
<1>. QED
  BY <1>1, IInvAlways, PTL

-----------------------------------------------------------------------------
(***************************************************************************)
(* What a commit publishes.  First the members of lists, and of the list   *)
(* that is left when the removal loop has looked at k of them.             *)
(***************************************************************************)
LEMMA MembersAre ==
    ASSUME NEW T, NEW s \in Seq(T)
    PROVE  \A x : x \in ToSet(s) <=> \E i \in 1..Len(s) : s[i] = x
BY DEF ToSet

LEMMA MembersIn ==
    ASSUME NEW T, NEW s \in Seq(T)
    PROVE  \A x \in ToSet(s) : x \in T
BY DEF ToSet

LEMMA SameNamed ==
    ASSUME NEW T, NEW s, NamedList(s, T), NEW x \in ToSet(s), NEW y \in ToSet(s), x.name = y.name
    PROVE  x = y
<1>1. s \in Seq(T) /\ \A i, j \in 1..Len(s) : s[i].name = s[j].name => i = j
  BY DEF NamedList
<1>2. PICK i \in 1..Len(s), j \in 1..Len(s) : s[i] = x /\ s[j] = y
  BY <1>1, MembersAre
<1>. QED
  BY <1>1, <1>2

LEMMA AppendHas ==
    ASSUME NEW T, NEW s \in Seq(T), NEW v \in T
    PROVE  \A x : x \in ToSet(Append(s, v)) <=> x \in ToSet(s) \/ x = v
<1>. DEFINE longer == Append(s, v)
<1>1. /\ longer \in Seq(T) /\ Len(longer) = Len(s) + 1 /\ longer[Len(s) + 1] = v
      /\ \A i \in 1..Len(s) : longer[i] = s[i]
  BY AppendIs
<1>. HIDE DEF longer
<1>2. Len(s) \in Nat
  OBVIOUS
<1>3. ASSUME NEW x, x \in ToSet(longer) PROVE x \in ToSet(s) \/ x = v
  <2>1. PICK i \in 1..Len(longer) : longer[i] = x
    BY <1>1, <1>3, MembersAre
  <2>2. i \in 1..Len(s) \/ i = Len(s) + 1
    BY <1>1, <1>2
  <2>. QED
    BY <1>1, <2>1, <2>2, MembersAre
<1>4. ASSUME NEW x, x \in ToSet(s) \/ x = v PROVE x \in ToSet(longer)
  <2>1. \E i \in 1..Len(longer) : longer[i] = x
    <3>1. CASE x = v
      BY <1>1, <1>2, <3>1
    <3>2. CASE x \in ToSet(s)
      <4>1. PICK i \in 1..Len(s) : s[i] = x
        BY <3>2, MembersAre
      <4>. QED
        BY <1>1, <1>2, <4>1
    <3>. QED
      BY <1>4, <3>1, <3>2
  <2>. QED
    BY <1>1, <2>1, MembersAre
<1>. QED
  BY <1>3, <1>4 DEF longer

LEMMA PutHas ==
    ASSUME NEW T, NEW s, NamedList(s, T), NEW k \in 1..Len(s), NEW v \in T, v.name = s[k].name
    PROVE  \A x : x \in ToSet([s EXCEPT ![k] = v]) <=> x = v \/ (x \in ToSet(s) /\ x.name # v.name)
<1>. DEFINE put == [s EXCEPT ![k] = v]
<1>1. s \in Seq(T) /\ \A i, j \in 1..Len(s) : s[i].name = s[j].name => i = j
  BY DEF NamedList
<1>2. /\ put \in Seq(T) /\ Len(put) = Len(s)
      /\ \A i \in 1..Len(s) : put[i] = IF i = k THEN v ELSE s[i]
  BY <1>1, PutIs
<1>. HIDE DEF put
<1>3. ASSUME NEW x, x \in ToSet(put) PROVE x = v \/ (x \in ToSet(s) /\ x.name # v.name)
  <2>1. PICK i \in 1..Len(s) : put[i] = x
    BY <1>2, <1>3, MembersAre
  <2>2. CASE i = k
    BY <1>2, <2>1, <2>2
  <2>3. CASE i # k
    <3>1. x = s[i] /\ s[i].name # v.name
      BY <1>1, <1>2, <2>1, <2>3
    <3>. QED
      BY <1>1, <3>1, MembersAre
  <2>. QED
    BY <2>2, <2>3
<1>4. ASSUME NEW x, x = v \/ (x \in ToSet(s) /\ x.name # v.name) PROVE x \in ToSet(put)
  <2>1. \E i \in 1..Len(s) : put[i] = x
    <3>1. CASE x = v
      BY <1>2, <3>1
    <3>2. CASE x \in ToSet(s) /\ x.name # v.name
      <4>1. PICK i \in 1..Len(s) : s[i] = x
        BY <1>1, <3>2, MembersAre
      <4>. QED
        BY <1>2, <3>2, <4>1
    <3>. QED
      BY <1>4, <3>1, <3>2
  <2>. QED
    BY <1>2, <2>1, MembersAre
<1>. QED
  BY <1>3, <1>4 DEF put

\* RemoveAt leaves the members at the other places.
LEMMA RemoveAtHas ==
    ASSUME NEW T, NEW s \in Seq(T), NEW k \in 1..Len(s)
    PROVE  \A x : x \in ToSet(RemoveAt(s, k)) <=> \E i \in 1..Len(s) : i # k /\ s[i] = x
<1>. DEFINE rest == RemoveAt(s, k)
<1>1. /\ rest \in Seq(T) /\ Len(rest) = Len(s) - 1
      /\ \A i \in 1..(Len(s) - 1) : rest[i] = IF i < k THEN s[i] ELSE s[i + 1]
  BY RemoveAtIs
<1>. HIDE DEF rest
<1>2. Len(s) \in Nat
  OBVIOUS
<1>3. ASSUME NEW x, x \in ToSet(rest) PROVE \E i \in 1..Len(s) : i # k /\ s[i] = x
  <2>1. PICK i \in 1..(Len(s) - 1) : rest[i] = x
    BY <1>1, <1>3, MembersAre
  <2>2. CASE i < k
    BY <1>1, <1>2, <2>1, <2>2
  <2>3. CASE ~(i < k)
    <3>1. i + 1 \in 1..Len(s) /\ i + 1 # k /\ s[i + 1] = x
      BY <1>1, <1>2, <2>1, <2>3
    <3>. QED
      BY <3>1
  <2>. QED
    BY <2>2, <2>3
<1>4. ASSUME NEW i \in 1..Len(s), i # k PROVE s[i] \in ToSet(rest)
  <2>. DEFINE j == IF i < k THEN i ELSE i - 1
  <2>1. j \in 1..(Len(s) - 1) /\ rest[j] = s[i]
    BY <1>1, <1>2, <1>4
  <2>. HIDE DEF j
  <2>. QED
    BY <1>1, <2>1, MembersAre
<1>. QED
  BY <1>3, <1>4 DEF rest

LEMMA RemoveHas ==
    ASSUME NEW T, NEW s, NamedList(s, T), NEW n
    PROVE  \A x : x \in ToSet(RemoveAt(s, IndexOfNamed(s, {n}))) <=> x \in ToSet(s) /\ x.name # n
<1>. DEFINE k == IndexOfNamed(s, {n})
            rest == RemoveAt(s, k)
<1>1. s \in Seq(T) /\ \A i, j \in 1..Len(s) : s[i].name = s[j].name => i = j
  BY DEF NamedList
<1>2. /\ k \in 0..Len(s)
      /\ k # 0 => s[k].name = n
      /\ k = 0 => \A i \in 1..Len(s) : s[i].name # n
  <2>. HIDE DEF k
  <2>. QED
    BY <1>1, IndexIs DEF k
<1>. HIDE DEF k
<1>3. CASE k = 0
  <2>1. rest = s
    BY <1>1, <1>3, RemoveNone
  <2>2. \A x \in ToSet(s) : x.name # n
    BY <1>1, <1>2, <1>3, MembersAre
  <2>. QED
    BY <2>1, <2>2 DEF k
<1>4. CASE k # 0
  <2>1. k \in 1..Len(s)
    BY <1>1, <1>2, <1>4
  <2>2. \A x : x \in ToSet(rest) <=> \E i \in 1..Len(s) : i # k /\ s[i] = x
    BY <1>1, <2>1, RemoveAtHas
  <2>. HIDE DEF rest
  <2>3. \A i \in 1..Len(s) : i # k <=> s[i].name # n
    BY <1>1, <1>2, <1>4, <2>1
  <2>4. \A x : x \in ToSet(rest) <=> x \in ToSet(s) /\ x.name # n
    BY <1>1, <2>2, <2>3, MembersAre
  <2>. QED
    BY <2>4 DEF rest, k
<1>. QED
  BY <1>3, <1>4

\* s is what is left of all when its first k members were looked at: those of
\* them whose name cand has, and all the others.
Remaining(s, all, cand, k) ==
    /\ \A x \in ToSet(s) : x \in ToSet(all)
    /\ \A x \in ToSet(all) : HasNamed(cand, x.name) => x \in ToSet(s)
    /\ \A i \in 1..k : HasNamed(cand, all[i].name) \/ all[i] \notin ToSet(s)

LEMMA RemainingAfter ==
    ASSUME NEW T, NEW all, NamedList(all, T), NEW s, NamedList(s, T), NEW cand,
           NEW k \in 1..Len(all), Remaining(s, all, cand, k - 1),
           NEW s2, s2 = IF HasNamed(cand, all[k].name) THEN s
                        ELSE RemoveAt(s, IndexOfNamed(s, {all[k].name}))
    PROVE  Remaining(s2, all, cand, k)
<1>1. \A i \in 1..k : i \in 1..(k - 1) \/ i = k
  OBVIOUS
<1>2. CASE HasNamed(cand, all[k].name)
  BY <1>1, <1>2 DEF Remaining
<1>3. CASE ~HasNamed(cand, all[k].name)
  <2>1. \A x : x \in ToSet(s2) <=> x \in ToSet(s) /\ x.name # all[k].name
    BY <1>3, RemoveHas
  <2>2. \A x : HasNamed(cand, x.name) => x.name # all[k].name
    BY <1>3
  <2>. QED
    BY <1>1, <2>1, <2>2 DEF Remaining
<1>. QED
  BY <1>2, <1>3

LEMMA RemainingInTheEnd ==
    ASSUME NEW T, NEW all, NamedList(all, T), NEW s, NEW cand, Remaining(s, all, cand, Len(all))
    PROVE  \A x : x \in ToSet(s) <=> x \in ToSet(all) /\ HasNamed(cand, x.name)
<1>1. all \in Seq(T)
  BY DEF NamedList
<1>2. \A x \in ToSet(all) : \E i \in 1..Len(all) : all[i] = x
  BY <1>1, MembersAre
<1>. QED
  BY <1>2 DEF Remaining

\* The copying loop puts the candidate's domain in, and touches no other.
LEMMA CopiedDomainHas ==
    ASSUME NEW s, NamedList(s, Domain), NEW v \in Domain
    PROVE  /\ v \in ToSet(CopiedDomain(s, v))
           /\ \A x \in ToSet(s) : x.name # v.name => x \in ToSet(CopiedDomain(s, v))
<1>. DEFINE k == IndexOfNamed(s, {v.name})
<1>1. s \in Seq(Domain)
  BY DEF NamedList
<1>2. k \in 0..Len(s) /\ (k # 0 => s[k].name \in {v.name})
  BY <1>1, IndexIs
<1>3. CopiedDomain(s, v) = IF k = 0 THEN Append(s, v) ELSE [s EXCEPT ![k] = v]
  BY DEF CopiedDomain
<1>. HIDE DEF k
<1>4. CASE k = 0
  BY <1>1, <1>3, <1>4, AppendHas
<1>5. CASE k # 0
  <2>1. k \in 1..Len(s) /\ v.name = s[k].name
    BY <1>1, <1>2, <1>5
  <2>2. \A x : x \in ToSet([s EXCEPT ![k] = v]) <=> x = v \/ (x \in ToSet(s) /\ x.name # v.name)
    BY <2>1, PutHas
  <2>. QED
    BY <1>3, <1>5, <2>2
<1>. QED
  BY <1>4, <1>5

\* After a commit the domains in service are the candidate's.
LEMMA DomainsPublished ==
    ASSUME NEW run, NamedList(run, Domain), NEW cand, NamedList(cand, Domain)
    PROVE  ToSet(CommitDomains(run, cand)) = ToSet(cand)
<1>. DEFINE S == {s \in Seq(Domain) : NamedList(s, Domain)}
            all == FoldLeft(CopiedDomain, run, cand)
            kept == DropDomains(cand, all)
            A == [k \in 0..Len(cand) |-> {s \in S : \A i \in 1..k : cand[i] \in ToSet(s)}]
<1>1. /\ run \in Seq(Domain) /\ cand \in Seq(Domain) /\ run \in S
      /\ \A s : s \in S <=> NamedList(s, Domain)
  BY DEF NamedList
<1>2. \A i, j \in 1..Len(cand) : cand[i].name = cand[j].name => i = j
  BY <1>1 DEF NamedList
<1>3. \A s \in S, v \in Domain : CopiedDomain(s, v) \in S
  BY <1>1, CopiedDomainIs
<1>4. \A k \in 0..Len(cand) : \A s : s \in A[k] <=> s \in S /\ \A i \in 1..k : cand[i] \in ToSet(s)
  OBVIOUS
<1>. HIDE DEF A, S
<1>5. run \in A[0]
  <2>1. 0 \in 0..Len(cand) /\ 1..0 = {}
    BY <1>1
  <2>. QED
    BY <1>1, <1>4, <2>1
<1>6. ASSUME NEW k \in 1..Len(cand), NEW s \in S, s \in A[k - 1]
      PROVE  CopiedDomain(s, cand[k]) \in A[k]
  <2>1. /\ k \in 0..Len(cand) /\ k - 1 \in 0..Len(cand) /\ cand[k] \in Domain
        /\ \A i \in 1..k : i \in 1..(k - 1) \/ i = k
        /\ \A i \in 1..(k - 1) : i \in 1..Len(cand) /\ i # k
    BY <1>1
  <2>2. NamedList(s, Domain) /\ \A i \in 1..(k - 1) : cand[i] \in ToSet(s)
    BY <1>1, <1>4, <1>6, <2>1
  <2>3. /\ cand[k] \in ToSet(CopiedDomain(s, cand[k]))
        /\ \A x \in ToSet(s) : x.name # cand[k].name => x \in ToSet(CopiedDomain(s, cand[k]))
    BY <2>1, <2>2, CopiedDomainHas
  <2>4. \A i \in 1..(k - 1) : cand[i].name # cand[k].name
    BY <1>2, <2>1
  <2>5. \A i \in 1..k : cand[i] \in ToSet(CopiedDomain(s, cand[k]))
    BY <2>1, <2>2, <2>3, <2>4
  <2>. QED
    BY <1>3, <1>4, <2>1, <2>5
<1>7. all \in S /\ all \in A[Len(cand)]
  BY <1>1, <1>3, <1>5, <1>6, CopiedDomains
<1>. HIDE DEF all
<1>8. NamedList(all, Domain) /\ all \in Seq(Domain)
  BY <1>1, <1>7 DEF NamedList
<1>9. \A x \in ToSet(cand) : x \in ToSet(all)
  <2>1. \A i \in 1..Len(cand) : cand[i] \in ToSet(all)
    BY <1>1, <1>4, <1>7
  <2>. QED
    BY <1>1, <2>1, MembersAre
<1>. DEFINE B == [k \in 0..Len(all) |-> {s \in S : Remaining(s, all, cand, k)}]
<1>10. \A k \in 0..Len(all) : \A s : s \in B[k] <=> s \in S /\ Remaining(s, all, cand, k)
  OBVIOUS
<1>. HIDE DEF B
<1>11. all \in B[0]
  <2>1. 0 \in 0..Len(all) /\ Remaining(all, all, cand, 0)
    BY <1>8 DEF Remaining
  <2>. QED
    BY <1>7, <1>10, <2>1
<1>12. \A s \in S, v \in Domain : DropDomain(cand, s, v) \in S
  <2>. TAKE s \in S, v \in Domain
  <2>1. NamedList(s, Domain) /\ NamedList(RemoveAt(s, IndexOfNamed(s, {v.name})), Domain)
    BY <1>1, NamedRemove
  <2>. QED
    BY <1>1, <2>1 DEF DropDomain
<1>13. ASSUME NEW k \in 1..Len(all), NEW s \in S, s \in B[k - 1]
       PROVE  DropDomain(cand, s, all[k]) \in B[k]
  <2>1. k \in 0..Len(all) /\ k - 1 \in 0..Len(all) /\ all[k] \in Domain
    BY <1>8
  <2>2. NamedList(s, Domain) /\ Remaining(s, all, cand, k - 1)
    BY <1>1, <1>10, <1>13, <2>1
  <2>3. Remaining(DropDomain(cand, s, all[k]), all, cand, k)
    BY <1>8, <2>2, RemainingAfter DEF DropDomain
  <2>. QED
    BY <1>10, <1>12, <2>1, <2>3
<1>14. kept \in B[Len(all)]
  BY <1>7, <1>8, <1>11, <1>12, <1>13, DomainsDropped
<1>15. CommitDomains(run, cand) = kept
  BY DEF CommitDomains, all
<1>. HIDE DEF kept
<1>16. \A x : x \in ToSet(kept) <=> x \in ToSet(all) /\ HasNamed(cand, x.name)
  <2>1. Remaining(kept, all, cand, Len(all))
    BY <1>8, <1>10, <1>14
  <2>. QED
    BY <1>8, <2>1, RemainingInTheEnd
<1>17. \A x \in ToSet(all) : HasNamed(cand, x.name) => x \in ToSet(cand)
  BY <1>8, <1>9, SameNamed DEF HasNamed
<1>18. \A x \in ToSet(cand) : HasNamed(cand, x.name)
  BY DEF HasNamed
<1>. QED
  BY <1>9, <1>15, <1>16, <1>17, <1>18

-----------------------------------------------------------------------------
(***************************************************************************)
(* The addresses that a commit leaves an interface.                        *)
(***************************************************************************)
HostsApart(ips) == \A i, j \in DOMAIN ips : ips[i].host = ips[j].host => i = j

NetsApart(ips) == \A i, j \in DOMAIN ips : ips[i].net = ips[j].net => i = j

LEMMA HostPlaceIs ==
    ASSUME NEW ips \in Seq(Address), NEW host
    PROVE  /\ PlaceOfHost(ips, host) \in 0..Len(ips)
           /\ PlaceOfHost(ips, host) # 0 => ips[PlaceOfHost(ips, host)].host = host
           /\ PlaceOfHost(ips, host) = 0 => \A i \in 1..Len(ips) : ips[i].host # host
<1>. DEFINE I == {i \in 1..Len(ips) : ips[i].host = host}
<1>1. PlaceOfHost(ips, host) = IF I # {} THEN Min(I) ELSE 0
  BY DEF PlaceOfHost, SelectInSeq
<1>2. I # {} => Min(I) \in I
  <2>1. I \in SUBSET Nat
    OBVIOUS
  <2>. HIDE DEF I
  <2>. QED
    BY <2>1, MinIs
<1>. QED
  BY <1>1, <1>2

\* Where hosts differ, remove_ip of an address removes that address.
LEMMA RemovedIpIs ==
    ASSUME NEW ips \in Seq(Address), HostsApart(ips), NEW k \in 1..Len(ips)
    PROVE  RemoveIp(ips, ips[k]) = RemoveAt(ips, k)
<1>. DEFINE p == PlaceOfHost(ips, ips[k].host)
<1>1. /\ p \in 0..Len(ips)
      /\ p # 0 => ips[p].host = ips[k].host
      /\ p = 0 => \A i \in 1..Len(ips) : ips[i].host # ips[k].host
  BY HostPlaceIs
<1>2. RemoveIp(ips, ips[k]) = IF p = 0 THEN ips ELSE RemoveAt(ips, p)
  BY DEF RemoveIp
<1>. HIDE DEF p
<1>3. p # 0 /\ p \in 1..Len(ips)
  BY <1>1
<1>4. p = k
  BY <1>1, <1>3 DEF HostsApart
<1>. QED
  BY <1>2, <1>3, <1>4

\* The list of addresses when the walk that drops them has passed i places of
\* it: what it passed is kept for good, and of two neighbours ahead one stays.
Walked(s, mine, nets, i) ==
    /\ s \in Seq(Address) /\ HostsApart(s) /\ Len(s) <= Len(mine)
    /\ \A x \in ToSet(s) : x \in ToSet(mine)
    /\ \A x \in ToSet(mine) : x.net \in nets => x \in ToSet(s)
    /\ \A j \in 1..Len(s) : j <= i => s[j].net \in nets
    /\ \A j \in 1..(Len(s) - 1) : j > i => s[j].net \in nets \/ s[j + 1].net \in nets

LEMMA WalkedOn ==
    ASSUME NEW mine \in Seq(Address), NEW nets, NEW k \in 1..Len(mine),
           NEW s, Walked(s, mine, nets, k - 1)
    PROVE  Walked(DropAt(nets, s, k), mine, nets, k)
<1>1. /\ s \in Seq(Address) /\ HostsApart(s) /\ Len(s) <= Len(mine)
      /\ \A x \in ToSet(s) : x \in ToSet(mine)
      /\ \A x \in ToSet(mine) : x.net \in nets => x \in ToSet(s)
      /\ \A j \in 1..Len(s) : j <= k - 1 => s[j].net \in nets
      /\ \A j \in 1..(Len(s) - 1) : j > k - 1 => s[j].net \in nets \/ s[j + 1].net \in nets
      /\ Len(s) \in Nat /\ Len(mine) \in Nat /\ k \in Nat /\ k >= 1
  BY DEF Walked
<1>2. CASE k <= Len(s) /\ s[k].net \notin nets
  <2>. DEFINE rest == RemoveAt(s, k)
  <2>1. k \in 1..Len(s)
    BY <1>1, <1>2
  <2>2. DropAt(nets, s, k) = rest
    BY <1>1, <1>2, <2>1, RemovedIpIs DEF DropAt
  <2>3. /\ rest \in Seq(Address) /\ Len(rest) = Len(s) - 1
        /\ \A i \in 1..(Len(s) - 1) : rest[i] = IF i < k THEN s[i] ELSE s[i + 1]
    BY <1>1, <2>1, RemoveAtIs
  <2>4. \A x : x \in ToSet(rest) <=> \E i \in 1..Len(s) : i # k /\ s[i] = x
    BY <1>1, <2>1, RemoveAtHas
  <2>. HIDE DEF rest
  <2>5. HostsApart(rest)
    <3>1. ASSUME NEW i \in 1..(Len(s) - 1), NEW j \in 1..(Len(s) - 1), rest[i].host = rest[j].host
          PROVE  i = j
      <4>. DEFINE i2 == IF i < k THEN i ELSE i + 1
                  j2 == IF j < k THEN j ELSE j + 1
      <4>1. i2 \in 1..Len(s) /\ j2 \in 1..Len(s) /\ rest[i] = s[i2] /\ rest[j] = s[j2]
        BY <1>1, <2>1, <2>3
      <4>2. i2 = j2
        <5>. HIDE DEF i2, j2
        <5>. QED
          BY <1>1, <3>1, <4>1 DEF HostsApart
      <4>. QED
        BY <2>1, <4>2
    <3>2. DOMAIN rest = 1..(Len(s) - 1)
      BY <2>3
    <3>. QED
      BY <3>1, <3>2 DEF HostsApart
  <2>6. \A x \in ToSet(rest) : x \in ToSet(mine)
    BY <1>1, <2>4, MembersAre
  <2>7. ASSUME NEW x \in ToSet(mine), x.net \in nets PROVE x \in ToSet(rest)
    <3>1. PICK i \in 1..Len(s) : s[i] = x
      BY <1>1, <2>7, MembersAre
    <3>2. i # k
      BY <1>2, <2>7, <3>1
    <3>. QED
      BY <2>4, <3>1, <3>2
  <2>8. ASSUME NEW j \in 1..Len(rest), j <= k PROVE rest[j].net \in nets
    <3>1. CASE j < k
      BY <1>1, <2>3, <2>8, <3>1
    <3>2. CASE j = k
      <4>1. rest[j] = s[k + 1] /\ k \in 1..(Len(s) - 1) /\ k > k - 1
        BY <1>1, <2>3, <3>2
      <4>. QED
        BY <1>1, <1>2, <4>1
    <3>. QED
      BY <1>1, <2>8, <3>1, <3>2
  <2>9. ASSUME NEW j \in 1..(Len(rest) - 1), j > k
        PROVE  rest[j].net \in nets \/ rest[j + 1].net \in nets
    <3>1. /\ j \in 1..(Len(s) - 1) /\ j + 1 \in 1..(Len(s) - 1)
          /\ ~(j < k) /\ ~(j + 1 < k) /\ j + 1 > k - 1
      BY <1>1, <2>3, <2>9
    <3>2. rest[j] = s[j + 1] /\ rest[j + 1] = s[(j + 1) + 1]
      BY <2>3, <3>1
    <3>. QED
      BY <1>1, <3>1, <3>2
  <2>10. Len(rest) <= Len(mine)
    BY <1>1, <2>3
  <2>. QED
    BY <2>2, <2>3, <2>5, <2>6, <2>7, <2>8, <2>9, <2>10 DEF Walked
<1>3. CASE ~(k <= Len(s) /\ s[k].net \notin nets)
  <2>1. DropAt(nets, s, k) = s
    BY <1>3 DEF DropAt
  <2>2. \A j \in 1..Len(s) : j <= k => s[j].net \in nets
    <3>. TAKE j \in 1..Len(s)
    <3>. QED
      BY <1>1, <1>3
  <2>3. \A j \in 1..(Len(s) - 1) : j > k => s[j].net \in nets \/ s[j + 1].net \in nets
    <3>1. \A j \in 1..(Len(s) - 1) : j > k => j > k - 1
      BY <1>1
    <3>. QED
      BY <1>1, <3>1
  <2>. QED
    BY <1>1, <2>1, <2>2, <2>3 DEF Walked
<1>. QED
  BY <1>2, <1>3

LEMMA KeptIpsAre ==
    ASSUME NEW mine \in Seq(Address), HostsApart(mine), NEW nets,
           \A j \in 1..(Len(mine) - 1) : mine[j].net \in nets \/ mine[j + 1].net \in nets
    PROVE  /\ DropIps(mine, nets) \in Seq(Address)
           /\ \A x : x \in ToSet(DropIps(mine, nets)) <=> x \in ToSet(mine) /\ x.net \in nets
<1>. DEFINE n == Len(mine)
            places == [i \in DOMAIN mine |-> i]
            S == Seq(Address)
            A == [k \in 0..n |-> {s \in S : Walked(s, mine, nets, k)}]
            left == DropIps(mine, nets)
<1>1. n \in Nat /\ DOMAIN mine = 1..n
  OBVIOUS
<1>2. places \in Seq(Nat \ {0}) /\ Len(places) = n /\ \A k \in 1..n : places[k] = k
  <2>1. places \in [1..n -> Nat \ {0}]
    BY <1>1
  <2>2. places \in Seq(Nat \ {0})
    BY <1>1, <2>1, SeqDef
  <2>. QED
    BY <1>1, <2>1, <2>2
<1>3. \A ips \in S, i \in Nat \ {0} : DropAt(nets, ips, i) \in S
  <2>. TAKE ips \in S, i \in Nat \ {0}
  <2>. QED
    BY RemoveIpIs DEF DropAt
<1>4. \A k \in 0..n : \A s : s \in A[k] <=> s \in S /\ Walked(s, mine, nets, k)
  OBVIOUS
<1>. HIDE DEF A
<1>5. mine \in A[0]
  <2>1. Walked(mine, mine, nets, 0)
    BY <1>1 DEF Walked
  <2>. QED
    BY <1>1, <1>4, <2>1
<1>6. ASSUME NEW k \in 1..n, NEW s \in S, s \in A[k - 1]
      PROVE  DropAt(nets, s, k) \in A[k]
  <2>1. k \in 0..n /\ k - 1 \in 0..n /\ k \in Nat \ {0}
    BY <1>1
  <2>2. Walked(s, mine, nets, k - 1)
    BY <1>4, <1>6, <2>1
  <2>3. Walked(DropAt(nets, s, k), mine, nets, k)
    BY <2>2, WalkedOn
  <2>. QED
    BY <1>3, <1>4, <2>1, <2>3
<1>7. left \in A[n]
  <2>1. mine \in S /\ places = [i \in DOMAIN mine |-> i]
    OBVIOUS
  <2>2. \A k \in 1..Len(places), s \in S : s \in A[k - 1] => DropAt(nets, s, places[k]) \in A[k]
    BY <1>2, <1>6
  <2>. HIDE DEF S, places, left
  <2>3. left \in A[Len(places)]
    BY <1>2, <1>3, <1>5, <2>1, <2>2, IpsDropped DEF left
  <2>. QED
    BY <1>2, <2>3
<1>. HIDE DEF left, places
<1>8. left \in Seq(Address) /\ Walked(left, mine, nets, n)
  BY <1>1, <1>4, <1>7
<1>9. \A x \in ToSet(left) : x.net \in nets
  <2>1. \A j \in 1..Len(left) : left[j].net \in nets
    BY <1>1, <1>8 DEF Walked
  <2>. QED
    BY <1>8, <2>1, MembersAre
<1>. QED
  BY <1>8, <1>9 DEF Walked, left

\* What AddMissing adds to a list of addresses of theirs, where all are apart.
LEMMA MissingAddedHas ==
    ASSUME NEW theirs \in Seq(Address), HostsApart(theirs), NetsApart(theirs),
           NEW s \in Seq(Address), \A x \in ToSet(s) : x \in ToSet(theirs),
           NEW ip \in ToSet(theirs)
    PROVE  \A x : x \in ToSet(AddMissing(s, ip)) <=> x \in ToSet(s) \/ x = ip
<1>1. ip \in Address
  BY MembersIn
<1>2. \A x \in ToSet(theirs) : x.net = ip.net \/ x.host = ip.host => x = ip
  BY MembersAre DEF HostsApart, NetsApart
<1>3. CASE ip.net \in NetsOf(s)
  <2>1. AddMissing(s, ip) = s
    BY <1>3 DEF AddMissing
  <2>2. PICK x \in ToSet(s) : x.net = ip.net
    BY <1>3 DEF NetsOf
  <2>. QED
    BY <1>2, <2>1, <2>2
<1>4. CASE ip.net \notin NetsOf(s)
  <2>. DEFINE k == PlaceOfHost(s, ip.host)
  <2>1. k \in 0..Len(s) /\ (k # 0 => s[k].host = ip.host)
    BY HostPlaceIs
  <2>2. AddIp(s, ip) = IF k = 0 THEN Append(s, ip) ELSE [s EXCEPT ![PlaceOfNet(s, s[k].net)] = ip]
    BY DEF AddIp
  <2>. HIDE DEF k
  <2>3. k = 0
    <3>. SUFFICES ASSUME k # 0 PROVE FALSE
      OBVIOUS
    <3>1. s[k] \in ToSet(s)
      BY <2>1, MembersAre
    <3>2. s[k] = ip
      BY <1>2, <2>1, <3>1
    <3>. QED
      BY <1>4, <3>1, <3>2 DEF NetsOf
  <2>4. AddMissing(s, ip) = Append(s, ip)
    BY <1>4, <2>2, <2>3 DEF AddMissing
  <2>. QED
    BY <1>1, <2>4, AppendHas
<1>. QED
  BY <1>3, <1>4

\* Addresses dropped apart, and networks apart in the candidate's interface:
\* its addresses are what the commit leaves.
LEMMA IpsPublished ==
    ASSUME NEW mine \in Seq(Address), NEW theirs \in Seq(Address),
           DropsApart(mine, theirs), NetsApart(theirs)
    PROVE  ToSet(CommitIps(mine, theirs)) = ToSet(theirs)
<1>. DEFINE nets == NetsOf(theirs)
            n == Len(theirs)
            left == DropIps(mine, nets)
            S == Seq(Address)
            Within(s) == \A x \in ToSet(s) : x \in ToSet(theirs)
            A == [k \in 0..n |-> {s \in S : Within(s) /\ \A i \in 1..k : theirs[i] \in ToSet(s)}]
            all == FoldLeft(AddMissing, left, theirs)
<1>1. HostsApart(mine) /\ HostsApart(theirs)
  BY DEF DropsApart, HostsApart
<1>2. \A j \in 1..(Len(mine) - 1) : mine[j].net \in nets \/ mine[j + 1].net \in nets
  BY DEF DropsApart
<1>3. /\ left \in S
      /\ \A x : x \in ToSet(left) <=> x \in ToSet(mine) /\ x.net \in nets
  <2>. HIDE DEF nets
  <2>. QED
    BY <1>1, <1>2, KeptIpsAre
<1>. HIDE DEF left
<1>4. Within(left)
  <2>. SUFFICES ASSUME NEW x \in ToSet(left) PROVE x \in ToSet(theirs)
    OBVIOUS
  <2>1. x \in ToSet(mine) /\ x.net \in nets
    BY <1>3
  <2>2. PICK y \in ToSet(theirs) : y.net = x.net
    BY <2>1 DEF NetsOf
  <2>. QED
    BY <2>1, <2>2 DEF DropsApart
<1>5. \A k \in 0..n : \A s :
        s \in A[k] <=> s \in S /\ Within(s) /\ \A i \in 1..k : theirs[i] \in ToSet(s)
  OBVIOUS
<1>6. /\ n \in Nat
      /\ \A k \in 1..n : theirs[k] \in Address /\ theirs[k] \in ToSet(theirs)
  BY MembersAre
<1>. HIDE DEF A, n
<1>7. \A s \in S, ip \in Address : AddMissing(s, ip) \in S
  <2>. TAKE s \in S, ip \in Address
  <2>. QED
    BY AddIpIs DEF AddMissing
<1>8. left \in A[0]
  <2>1. 0 \in 0..n /\ 1..0 = {}
    BY <1>6
  <2>. QED
    BY <1>3, <1>4, <1>5, <2>1
<1>9. ASSUME NEW k \in 1..n, NEW s \in S, s \in A[k - 1]
      PROVE  AddMissing(s, theirs[k]) \in A[k]
  <2>1. /\ k \in 0..n /\ k - 1 \in 0..n
        /\ \A i \in 1..k : i \in 1..(k - 1) \/ i = k
    BY <1>6
  <2>2. Within(s) /\ \A i \in 1..(k - 1) : theirs[i] \in ToSet(s)
    BY <1>5, <1>9, <2>1
  <2>3. \A x : x \in ToSet(AddMissing(s, theirs[k])) <=> x \in ToSet(s) \/ x = theirs[k]
    BY <1>1, <1>6, <2>2, MissingAddedHas
  <2>4. Within(AddMissing(s, theirs[k]))
    BY <1>6, <2>2, <2>3
  <2>5. \A i \in 1..k : theirs[i] \in ToSet(AddMissing(s, theirs[k]))
    BY <2>1, <2>2, <2>3
  <2>. HIDE DEF Within
  <2>. QED
    BY <1>5, <1>6, <1>7, <2>1, <2>4, <2>5
<1>10. all \in A[n]
  <2>. HIDE DEF S
  <2>. QED
    BY <1>3, <1>7, <1>8, <1>9, MissingAdded DEF n
<1>. HIDE DEF all
<1>11. Within(all) /\ \A i \in 1..n : theirs[i] \in ToSet(all)
  BY <1>5, <1>6, <1>10
<1>12. \A x \in ToSet(theirs) : x \in ToSet(all)
  BY <1>11, MembersAre DEF n
<1>. QED
  BY <1>11, <1>12 DEF CommitIps, all, left

-----------------------------------------------------------------------------
(***************************************************************************)
(* The routed interfaces that a commit puts in service.                    *)
(***************************************************************************)
LEMMA SameAddressesSameView ==
    ASSUME NEW u \in SoundIrbs, NEW name \in Irbs, NEW ips \in Seq(Address),
           ToSet(ips) = ToSet(u.ips)
    PROVE  IrbView([u EXCEPT !.name = name, !.ips = ips]) = IrbView(u)
<1>. DEFINE v == [u EXCEPT !.name = name, !.ips = ips]
<1>1. u \in [name : Irbs, unit : Irbs, vlan : Numbers \cup {NoValue},
             ips : Seq(Address), groups : Seq(VRRP), redirect : BOOLEAN]
  BY DEF SoundIrbs, VlanPort
<1>2. v.unit = u.unit /\ v.redirect = u.redirect /\ v.groups = u.groups /\ v.ips = ips
  BY <1>1
<1>. HIDE DEF v
<1>3. \A ip : AddressView(ip, v) = AddressView(ip, u)
  BY <1>2 DEF AddressView
<1>4. IrbView(v) = IrbView(u)
  BY <1>2, <1>3 DEF IrbView
<1>. QED
  BY <1>4 DEF v

\* The copying loop puts an interface in service that looks like the
\* candidate's, in the place of the one of its name, and touches no other.
LEMMA CopiedIrbHas ==
    ASSUME NEW s, NamedList(s, SoundIrbs), NEW u \in SoundIrbs, NetsApart(u.ips),
           \A x \in ToSet(s) : x.name \in Matches[u.name] => x.name = u.name,
           \A x \in ToSet(s) : x.name = u.name => DropsApart(x.ips, u.ips)
    PROVE  \E w : /\ w.name = u.name /\ IrbView(w) = IrbView(u)
                  /\ \A x : x \in ToSet(CopiedIrb(s, u))
                              <=> x = w \/ (x \in ToSet(s) /\ x.name # u.name)
<1>. DEFINE k == IndexOfNamed(s, Matches[u.name])
            name == s[k].name
            ips == CommitIps(s[k].ips, u.ips)
            w == [u EXCEPT !.name = name, !.ips = ips]
<1>1. s \in Seq(SoundIrbs)
  BY DEF NamedList
<1>2. /\ k \in 0..Len(s)
      /\ k # 0 => s[k].name \in Matches[u.name]
      /\ k = 0 => \A i \in 1..Len(s) : s[i].name \notin Matches[u.name]
  BY <1>1, IndexIs
<1>3. CopiedIrb(s, u) = IF k = 0 THEN Append(s, u) ELSE [s EXCEPT ![k] = w]
  BY DEF CopiedIrb
<1>. HIDE DEF k
<1>4. u.name \in Irbs /\ u.ips \in Seq(Address) /\ u.name \in Matches[u.name]
  <2>1. u.name \in Irbs /\ u.ips \in Seq(Address)
    BY DEF SoundIrbs, VlanPort
  <2>. QED
    BY <2>1, LookupAssumption
<1>5. CASE k = 0
  <2>1. \A x \in ToSet(s) : x.name # u.name
    BY <1>1, <1>2, <1>4, <1>5, MembersAre
  <2>2. \A x : x \in ToSet(Append(s, u)) <=> x \in ToSet(s) \/ x = u
    BY <1>1, AppendHas
  <2>3. \A x : x \in ToSet(CopiedIrb(s, u)) <=> x = u \/ (x \in ToSet(s) /\ x.name # u.name)
    BY <1>3, <1>5, <2>1, <2>2
  <2>. QED
    BY <2>3
<1>6. CASE k # 0
  <2>1. k \in 1..Len(s)
    BY <1>1, <1>2, <1>6
  <2>2. s[k] \in ToSet(s) /\ s[k] \in SoundIrbs
    BY <1>1, <2>1, MembersAre
  <2>3. name = u.name /\ s[k].ips \in Seq(Address)
    BY <1>2, <1>6, <2>2 DEF SoundIrbs, VlanPort
  <2>4. DropsApart(s[k].ips, u.ips)
    BY <2>2, <2>3
  <2>5. ips \in Seq(Address) /\ ToSet(ips) = ToSet(u.ips)
    BY <1>4, <2>3, <2>4, CommitIpsAre, IpsPublished
  <2>. HIDE DEF name, ips
  <2>6. name \in Irbs
    BY <1>4, <2>3
  <2>7. w \in SoundIrbs /\ w.name = name
    <3>1. ips \in Seq(Address)
      BY <2>5
    <3>. QED
      BY <2>6, <3>1, WrittenShapes DEF SoundIrbs, VlanPort, ApartGroups
  <2>8. IrbView(w) = IrbView(u)
    BY <2>5, <2>6, SameAddressesSameView
  <2>. HIDE DEF w
  <2>9. w.name = s[k].name
    BY <2>7 DEF name
  <2>10. \A x : x \in ToSet([s EXCEPT ![k] = w]) <=> x = w \/ (x \in ToSet(s) /\ x.name # w.name)
    BY <2>1, <2>7, <2>9, PutHas
  <2>11. /\ w.name = u.name /\ IrbView(w) = IrbView(u)
         /\ \A x : x \in ToSet(CopiedIrb(s, u)) <=> x = w \/ (x \in ToSet(s) /\ x.name # u.name)
    BY <1>3, <1>6, <2>3, <2>7, <2>8, <2>10
  <2>. QED
    BY <2>11
<1>. QED
  BY <1>5, <1>6

\* The interfaces when k of the candidate's were copied: those look like the
\* candidate's, the others are still running's.
Copied(s, run, cand, k) ==
    /\ \A x \in ToSet(s) :
          \/ \E i \in 1..k : x.name = cand[i].name /\ IrbView(x) = IrbView(cand[i])
          \/ x \in ToSet(run) /\ \A i \in 1..k : x.name # cand[i].name
    /\ \A i \in 1..k : \E x \in ToSet(s) : x.name = cand[i].name

\* No lookup finds an interface of another name among those of both.
LookupsApart(run, cand) ==
    \A p, q \in ToSet(run) \cup ToSet(cand) : q.name \in Matches[p.name] => q.name = p.name

LEMMA CopiedOneMore ==
    ASSUME NEW run, NEW cand, NamedList(cand, SoundIrbs), LookupsApart(run, cand),
           \A p \in ToSet(run), q \in ToSet(cand) : p.name = q.name => DropsApart(p.ips, q.ips),
           \A q \in ToSet(cand) : NetsApart(q.ips),
           NEW k \in 1..Len(cand), NEW s, NamedList(s, SoundIrbs), Copied(s, run, cand, k - 1)
    PROVE  Copied(CopiedIrb(s, cand[k]), run, cand, k)
<1>. DEFINE u == cand[k]
            s2 == CopiedIrb(s, u)
<1>1. /\ cand \in Seq(SoundIrbs)
      /\ \A i, j \in 1..Len(cand) : cand[i].name = cand[j].name => i = j
  BY DEF NamedList
<1>2. /\ u \in SoundIrbs /\ u \in ToSet(cand)
      /\ \A i \in 1..Len(cand) : cand[i] \in ToSet(cand)
  BY <1>1, MembersAre
<1>3. /\ \A i \in 1..k : i \in 1..(k - 1) \/ i = k
      /\ \A i \in 1..(k - 1) : i \in 1..Len(cand) /\ i \in 1..k /\ i # k
      /\ k \in 1..k
  BY <1>1
<1>4. \A i \in 1..(k - 1) : cand[i].name # u.name
  BY <1>1, <1>3
<1>5. ASSUME NEW x \in ToSet(s)
      PROVE  \/ \E i \in 1..(k - 1) : x.name = cand[i].name /\ IrbView(x) = IrbView(cand[i])
             \/ x \in ToSet(run) /\ \A i \in 1..(k - 1) : x.name # cand[i].name
  BY DEF Copied
<1>. HIDE DEF u
<1>6. \A x \in ToSet(s) : x.name \in Matches[u.name] => x.name = u.name
  <2>. SUFFICES ASSUME NEW x \in ToSet(s) PROVE x.name \in Matches[u.name] => x.name = u.name
    OBVIOUS
  <2>1. \E q \in ToSet(run) \cup ToSet(cand) : q.name = x.name
    BY <1>2, <1>3, <1>5
  <2>. QED
    BY <1>2, <2>1 DEF LookupsApart
<1>7. \A x \in ToSet(s) : x.name = u.name => DropsApart(x.ips, u.ips)
  <2>. SUFFICES ASSUME NEW x \in ToSet(s), x.name = u.name PROVE x \in ToSet(run)
    BY <1>2
  <2>. QED
    BY <1>4, <1>5
<1>8. PICK w : /\ w.name = u.name /\ IrbView(w) = IrbView(u)
               /\ \A x : x \in ToSet(s2) <=> x = w \/ (x \in ToSet(s) /\ x.name # u.name)
  BY <1>2, <1>6, <1>7, CopiedIrbHas
<1>. HIDE DEF s2
<1>9. ASSUME NEW x \in ToSet(s2)
      PROVE  \/ \E i \in 1..k : x.name = cand[i].name /\ IrbView(x) = IrbView(cand[i])
             \/ x \in ToSet(run) /\ \A i \in 1..k : x.name # cand[i].name
  <2>1. CASE x = w
    BY <1>3, <1>8, <2>1 DEF u
  <2>2. CASE x \in ToSet(s) /\ x.name # u.name
    <3>1. CASE \E i \in 1..(k - 1) : x.name = cand[i].name /\ IrbView(x) = IrbView(cand[i])
      BY <1>3, <3>1
    <3>2. CASE x \in ToSet(run) /\ \A i \in 1..(k - 1) : x.name # cand[i].name
      BY <1>3, <2>2, <3>2 DEF u
    <3>. QED
      BY <1>5, <2>2, <3>1, <3>2
  <2>. QED
    BY <1>8, <2>1, <2>2
<1>10. ASSUME NEW i \in 1..k PROVE \E x \in ToSet(s2) : x.name = cand[i].name
  <2>1. CASE i = k
    BY <1>8, <2>1 DEF u
  <2>2. CASE i \in 1..(k - 1)
    <3>1. PICK x \in ToSet(s) : x.name = cand[i].name
      BY <2>2 DEF Copied
    <3>. QED
      BY <1>4, <1>8, <2>2, <3>1
  <2>. QED
    BY <1>3, <2>1, <2>2
<1>. QED
  BY <1>9, <1>10 DEF Copied, s2, u

\* What DropIrb does where lookups are apart: it goes by the name.
LEMMA DropIrbIs ==
    ASSUME NEW cand, NamedList(cand, SoundIrbs), NEW p \in SoundIrbs, NEW s,
           \A q \in ToSet(cand) : q.name \in Matches[p.name] => q.name = p.name
    PROVE  DropIrb(cand, s, p) = IF HasNamed(cand, p.name) THEN s
                                 ELSE RemoveAt(s, IndexOfNamed(s, {p.name}))
<1>. DEFINE k == IndexOfNamed(cand, Matches[p.name])
<1>1. cand \in Seq(SoundIrbs)
  BY DEF NamedList
<1>2. /\ k \in 0..Len(cand)
      /\ k # 0 => cand[k].name \in Matches[p.name]
      /\ k = 0 => \A i \in 1..Len(cand) : cand[i].name \notin Matches[p.name]
  BY <1>1, IndexIs
<1>3. DropIrb(cand, s, p) = IF k # 0 THEN s ELSE RemoveAt(s, IndexOfNamed(s, {p.name}))
  BY DEF DropIrb
<1>. HIDE DEF k
<1>4. p.name \in Matches[p.name]
  <2>1. p.name \in Irbs
    BY DEF SoundIrbs, VlanPort
  <2>. QED
    BY <2>1, LookupAssumption
<1>5. k # 0 <=> HasNamed(cand, p.name)
  <2>1. CASE k # 0
    <3>1. cand[k] \in ToSet(cand)
      BY <1>1, <1>2, <2>1, MembersAre
    <3>. QED
      BY <1>2, <2>1, <3>1 DEF HasNamed
  <2>2. CASE k = 0
    <3>1. \A x \in ToSet(cand) : x.name # p.name
      BY <1>1, <1>2, <1>4, <2>2, MembersAre
    <3>. QED
      BY <2>2, <3>1 DEF HasNamed
  <2>. QED
    BY <2>1, <2>2
<1>. QED
  BY <1>3, <1>5

\* Lookups apart, addresses dropped apart, networks apart in the candidate: the
\* interfaces in service look like the candidate's after the commit.
LEMMA IrbsPublished ==
    ASSUME NEW run, NamedList(run, SoundIrbs), NEW cand, NamedList(cand, SoundIrbs),
           LookupsApart(run, cand),
           \A p \in ToSet(run), q \in ToSet(cand) : p.name = q.name => DropsApart(p.ips, q.ips),
           \A q \in ToSet(cand) : NetsApart(q.ips)
    PROVE  {IrbView(x) : x \in ToSet(CommitIrbs(run, cand))} = {IrbView(x) : x \in ToSet(cand)}
<1>. DEFINE S == {s \in Seq(SoundIrbs) : NamedList(s, SoundIrbs)}
            all == FoldLeft(CopiedIrb, run, cand)
            kept == DropIrbs(cand, all)
            A == [k \in 0..Len(cand) |-> {s \in S : Copied(s, run, cand, k)}]
<1>1. /\ run \in Seq(SoundIrbs) /\ cand \in Seq(SoundIrbs) /\ run \in S
      /\ \A s : s \in S <=> NamedList(s, SoundIrbs)
  BY DEF NamedList
<1>2. \A s \in S, u \in SoundIrbs : CopiedIrb(s, u) \in S
  BY <1>1, CopiedIrbIs
<1>3. \A k \in 0..Len(cand) : \A s : s \in A[k] <=> s \in S /\ Copied(s, run, cand, k)
  OBVIOUS
<1>. HIDE DEF A, S
<1>4. run \in A[0]
  <2>1. 0 \in 0..Len(cand) /\ 1..0 = {}
    BY <1>1
  <2>2. Copied(run, run, cand, 0)
    BY <2>1 DEF Copied
  <2>. QED
    BY <1>1, <1>3, <2>1, <2>2
<1>5. ASSUME NEW k \in 1..Len(cand), NEW s \in S, s \in A[k - 1]
      PROVE  CopiedIrb(s, cand[k]) \in A[k]
  <2>1. k \in 0..Len(cand) /\ k - 1 \in 0..Len(cand) /\ cand[k] \in SoundIrbs
    BY <1>1
  <2>2. NamedList(s, SoundIrbs) /\ Copied(s, run, cand, k - 1)
    BY <1>1, <1>3, <1>5, <2>1
  <2>3. Copied(CopiedIrb(s, cand[k]), run, cand, k)
    BY <2>2, CopiedOneMore
  <2>. QED
    BY <1>2, <1>3, <2>1, <2>3
<1>6. all \in S /\ all \in A[Len(cand)]
  BY <1>1, <1>2, <1>4, <1>5, CopiedIrbs
<1>. HIDE DEF all
<1>7. /\ NamedList(all, SoundIrbs) /\ all \in Seq(SoundIrbs)
      /\ Len(cand) \in Nat /\ Copied(all, run, cand, Len(cand))
  <2>1. NamedList(all, SoundIrbs)
    BY <1>1, <1>6
  <2>2. Len(cand) \in Nat /\ Len(cand) \in 0..Len(cand)
    BY <1>1
  <2>3. Copied(all, run, cand, Len(cand))
    BY <1>3, <1>6, <2>2
  <2>. QED
    BY <2>1, <2>2, <2>3 DEF NamedList
<1>8. \A x \in ToSet(all) : \E q \in ToSet(run) \cup ToSet(cand) : q.name = x.name
  BY <1>1, <1>7, MembersAre DEF Copied
<1>. DEFINE B == [k \in 0..Len(all) |-> {s \in S : Remaining(s, all, cand, k)}]
<1>9. \A k \in 0..Len(all) : \A s : s \in B[k] <=> s \in S /\ Remaining(s, all, cand, k)
  OBVIOUS
<1>. HIDE DEF B
<1>10. all \in B[0]
  <2>1. 0 \in 0..Len(all) /\ Remaining(all, all, cand, 0)
    BY <1>7 DEF Remaining
  <2>. QED
    BY <1>6, <1>9, <2>1
<1>11. \A s \in S, u \in SoundIrbs : DropIrb(cand, s, u) \in S
  <2>. TAKE s \in S, u \in SoundIrbs
  <2>1. NamedList(s, SoundIrbs) /\ NamedList(RemoveAt(s, IndexOfNamed(s, {u.name})), SoundIrbs)
    BY <1>1, NamedRemove
  <2>. QED
    BY <1>1, <2>1 DEF DropIrb
<1>12. ASSUME NEW k \in 1..Len(all), NEW s \in S, s \in B[k - 1]
       PROVE  DropIrb(cand, s, all[k]) \in B[k]
  <2>1. /\ k \in 0..Len(all) /\ k - 1 \in 0..Len(all)
        /\ all[k] \in SoundIrbs /\ all[k] \in ToSet(all)
    BY <1>7, MembersAre
  <2>2. NamedList(s, SoundIrbs) /\ Remaining(s, all, cand, k - 1)
    BY <1>1, <1>9, <1>12, <2>1
  <2>3. \A q \in ToSet(cand) : q.name \in Matches[all[k].name] => q.name = all[k].name
    BY <1>8, <2>1 DEF LookupsApart
  <2>4. DropIrb(cand, s, all[k]) = IF HasNamed(cand, all[k].name) THEN s
                                   ELSE RemoveAt(s, IndexOfNamed(s, {all[k].name}))
    BY <2>1, <2>3, DropIrbIs
  <2>5. Remaining(DropIrb(cand, s, all[k]), all, cand, k)
    BY <1>7, <2>2, <2>4, RemainingAfter
  <2>. QED
    BY <1>9, <1>11, <2>1, <2>5
<1>13. kept \in B[Len(all)]
  BY <1>6, <1>7, <1>10, <1>11, <1>12, IrbsDropped
<1>14. CommitIrbs(run, cand) = kept
  BY DEF CommitIrbs, all
<1>. HIDE DEF kept
<1>15. \A x : x \in ToSet(kept) <=> x \in ToSet(all) /\ HasNamed(cand, x.name)
  <2>1. Remaining(kept, all, cand, Len(all))
    BY <1>7, <1>9, <1>13
  <2>. QED
    BY <1>7, <2>1, RemainingInTheEnd
<1>16. \A x \in ToSet(kept) : \E q \in ToSet(cand) : IrbView(x) = IrbView(q)
  <2>. TAKE x \in ToSet(kept)
  <2>1. x \in ToSet(all) /\ HasNamed(cand, x.name)
    BY <1>15
  <2>2. \E i \in 1..Len(cand) : cand[i].name = x.name
    BY <1>1, <2>1, HasIs
  <2>3. PICK i \in 1..Len(cand) : IrbView(x) = IrbView(cand[i])
    BY <1>7, <2>1, <2>2 DEF Copied
  <2>. QED
    BY <1>1, <2>3, MembersAre
<1>17. \A q \in ToSet(cand) : \E x \in ToSet(kept) : IrbView(x) = IrbView(q)
  <2>. TAKE q \in ToSet(cand)
  <2>1. PICK i \in 1..Len(cand) : cand[i] = q
    BY <1>1, MembersAre
  <2>2. PICK x \in ToSet(all) : x.name = q.name
    BY <1>7, <2>1 DEF Copied
  <2>3. HasNamed(cand, x.name)
    BY <2>2 DEF HasNamed
  <2>4. PICK j \in 1..Len(cand) : x.name = cand[j].name /\ IrbView(x) = IrbView(cand[j])
    BY <1>7, <2>1, <2>2 DEF Copied
  <2>5. j = i
    <3>1. cand[i].name = cand[j].name /\ DOMAIN cand = 1..Len(cand)
      BY <1>1, <2>1, <2>2, <2>4
    <3>. QED
      BY <3>1 DEF NamedList
  <2>. QED
    BY <1>15, <2>1, <2>2, <2>3, <2>4, <2>5
<1>. QED
  BY <1>14, <1>16, <1>17

-----------------------------------------------------------------------------
\* In every interface of a configuration that passed _validate, networks differ.
LEMMA ValidNetsApart ==
    ASSUME NEW c, NamedList(c.irbs, SoundIrbs), Validate(c)
    PROVE  \A q \in ToSet(c.irbs) : NetsApart(q.ips)
<1>1. c.irbs \in Seq(SoundIrbs)
  BY DEF NamedList
<1>. SUFFICES ASSUME NEW q \in ToSet(c.irbs) PROVE NetsApart(q.ips)
  OBVIOUS
<1>2. PICK i \in 1..Len(c.irbs) : c.irbs[i] = q
  BY <1>1, MembersAre
<1>3. DOMAIN c.irbs = 1..Len(c.irbs)
  BY <1>1
<1>. QED
  BY <1>2, <1>3 DEF Validate, DistinctNets, NetsApart

\* A commit publishes what the candidate shows: domains, routed interfaces with
\* their addresses and groups, and the port, when no lookup by partial name
\* finds an interface of another name and the commit drops no two neighbouring
\* addresses.
THEOREM MxCommitPublishes == Spec => CommitPublishes
<1>. DEFINE Fits == /\ Commit
                    /\ NamesApart
                    /\ \A p \in ToSet(running.irbs), q \in ToSet(candidate.irbs) :
                          p.name = q.name => DropsApart(p.ips, q.ips)
<1>1. ASSUME IInv, Fits
      PROVE  View(running') = View(candidate)
  <2>1. /\ NamedList(candidate.domains, Domain) /\ NamedList(running.domains, Domain)
        /\ NamedList(candidate.irbs, SoundIrbs) /\ NamedList(running.irbs, SoundIrbs)
    BY <1>1 DEF IInv, Sound
  <2>2. ToSet(CommitDomains(running.domains, candidate.domains)) = ToSet(candidate.domains)
    BY <2>1, DomainsPublished
  <2>3. LookupsApart(running.irbs, candidate.irbs)
    BY <1>1 DEF NamesApart, Configurations, LookupsApart
  <2>4. \A q \in ToSet(candidate.irbs) : NetsApart(q.ips)
    BY <1>1, <2>1, ValidNetsApart DEF Commit
  <2>5. {IrbView(x) : x \in ToSet(CommitIrbs(running.irbs, candidate.irbs))}
          = {IrbView(x) : x \in ToSet(candidate.irbs)}
    BY <1>1, <2>1, <2>3, <2>4, IrbsPublished
  <2>. QED
    BY <1>1, <2>2, <2>5 DEF Commit, View
<1>. HIDE DEF Fits
<1>2. Spec => [][Fits => View(running') = View(candidate)]_vars
  <2>1. IInv /\ [Next]_vars => [Fits => View(running') = View(candidate)]_vars
    BY <1>1
  <2>. QED
    BY <2>1, IInvAlways, PTL DEF Spec
<1>. QED
  BY <1>2 DEF CommitPublishes, Fits
=============================================================================
