----------------------- MODULE NetconfDatastoreProofs -----------------------
(***************************************************************************)
(* Theorems about NetconfDatastore, for any sessions, ports, vlans and     *)
(* requests, for the base and the QFX datastore.                           *)
(***************************************************************************)
EXTENDS NetconfCommitLoop, OrderedNamesProofs, SequenceTheorems, WellFoundedInduction, TLAPS

-----------------------------------------------------------------------------
(***************************************************************************)
(* Trunk member lists.                                                     *)
(***************************************************************************)

\* list.remove(x) of a present x leaves a list of the same values.
LEMMA RemoveFirstType ==
    ASSUME NEW S, NEW s \in Seq(S), NEW e \in ToSet(s)
    PROVE  RemoveFirst(s, e) \in Seq(S)
<1> DEFINE I == {i \in 1..Len(s) : s[i] = e}
           R == {ss \in Nat \X Nat : ss[1] < ss[2]}
           k == Min(I)
<1>1. I \subseteq Nat /\ I # {}
  BY DEF ToSet
<1>2. k \in 1..Len(s)
  <2>1. IsWellFoundedOn(R, Nat)
    BY NatLessThanWellFounded DEF OpToRel
  <2> HIDE DEF R
  <2>2. PICK m \in I : \A n \in I : <<n, m>> \notin R
    BY <1>1, <2>1, WFMin
  <2>3. ASSUME NEW n \in I PROVE m <= n
    <3>1. n \in Nat /\ m \in Nat
      BY <1>1
    <3>2. ~(n < m)
      <4> SUFFICES ASSUME n < m PROVE <<n, m>> \in R
        BY <2>2
      <4> QED
        BY <3>1 DEF R
    <3> QED
      BY <3>1, <3>2
  <2>4. Min(I) \in I
    BY <2>2, <2>3 DEF Min
  <2> QED
    BY <2>4
<1>3. RemoveFirst(s, e) = SubSeq(s, 1, k - 1) \o SubSeq(s, k + 1, Len(s))
  <2> HIDE DEF k
  <2>1. \E i \in 1..Len(s) : s[i] = e
    BY <1>1
  <2>2. RemoveFirst(s, e) = RemoveAt(s, IF I # {} THEN Min(I) ELSE 0)
    BY <2>1 DEF RemoveFirst, SelectInSeq
  <2>3. RemoveFirst(s, e) = RemoveAt(s, k)
    BY <1>1, <2>2 DEF k
  <2> QED
    BY <2>3 DEF RemoveAt
<1>4. SubSeq(s, 1, k - 1) \in Seq(S) /\ SubSeq(s, k + 1, Len(s)) \in Seq(S)
  <2>1. \A i \in 1..Len(s) : s[i] \in S
    BY ElementOfSeq
  <2>2. \A i \in 1..(k - 1) : s[i] \in S
    BY <1>2, <2>1
  <2>3. \A i \in (k + 1)..Len(s) : s[i] \in S
    BY <1>2, <2>1
  <2>4. k \in Int /\ k - 1 \in Int /\ k + 1 \in Int /\ Len(s) \in Int
    BY <1>2
  <2> HIDE DEF k
  <2> QED
    BY <2>2, <2>3, <2>4, SubSeqProperties
<1> HIDE DEF k
<1> QED
  BY <1>3, <1>4, ConcatProperties

\* Reading a port with an access vlan appends that vlan to its trunk list:
\* the numbers the port uses stay the same.
LEMMA PortAsReadProperties ==
    ASSUME NEW r \in Port, NEW v \in Vendor
    PROVE  /\ PortAsRead(r, v) \in Port
           /\ VlansOf(PortAsRead(r, v)) = VlansOf(r)
<1>1. CASE v.es /\ r.trunk # <<>> /\ r.access # NoValue
  <2>1. r.access \in VlanIds /\ r.trunk \in Seq(VlanIds)
    BY <1>1 DEF Port
  <2>2. PortAsRead(r, v) = [r EXCEPT !.trunk = Append(r.trunk, r.access)]
    BY <1>1 DEF PortAsRead, Members
  <2>3. /\ Append(r.trunk, r.access) \in Seq(VlanIds)
        /\ ToSet(Append(r.trunk, r.access)) = ToSet(r.trunk) \cup {r.access}
    BY <2>1, AppendProperties DEF ToSet
  <2> QED
    BY <2>1, <2>2, <2>3 DEF Port, VlansOf
<1>2. CASE ~(v.es /\ r.trunk # <<>> /\ r.access # NoValue)
  <2>1. PortAsRead(r, v) = r
    BY <1>2 DEF PortAsRead, Members, Port
  <2> QED
    BY <2>1
<1> QED
  BY <1>1, <1>2

-----------------------------------------------------------------------------
(***************************************************************************)
(* Edits.  A work record is well formed and never loses a port.            *)
(***************************************************************************)
PortListOK(l) == IsNameList(l, PortNames) /\ Addressable(l)

ConfigurationOK(c) ==
    /\ c \in Configuration
    /\ IsNameList(c.vlans, VlanNames)
    /\ PortListOK(c.ports)

Work == [c : Configuration, v : [PortNames -> Vendor], reset : SUBSET PortNames,
         error : {"none", "netconf", "crash"}]

\* w is a well-formed work record whose ports include those of base.
WorkOK(w, base) ==
    /\ w \in Work
    /\ ConfigurationOK(w.c)
    /\ base \subseteq Names(w.c.ports)

\* An edit that fails keeps what it wrote.
LEMMA FailOK ==
    ASSUME NEW base, NEW w, WorkOK(w, base), NEW e \in {"none", "netconf", "crash"}
    PROVE  WorkOK(Fail(w, e), base)
BY DEF WorkOK, Work, Fail

\* Writing the attributes of a port changes no list.
LEMMA SetPortOK ==
    ASSUME NEW base, NEW w, WorkOK(w, base), NEW p \in PortNames, NEW r \in Port
    PROVE  /\ WorkOK(SetPort(w, p, r), base)
           /\ SetPort(w, p, r).c.port[p] = r
           /\ SetPort(w, p, r).v = w.v
<1>1. /\ w.c \in Configuration
      /\ w.c.port \in [PortNames -> Port]
  BY DEF WorkOK, Work, Configuration
<1>2. [w.c EXCEPT !.port = [w.c.port EXCEPT ![p] = r]] \in Configuration
  BY <1>1 DEF Configuration
<1>3. SetPort(w, p, r) = [w EXCEPT !.c = [w.c EXCEPT !.port = [w.c.port EXCEPT ![p] = r]]]
  BY DEF SetPort
<1>4. /\ SetPort(w, p, r).c = [w.c EXCEPT !.port = [w.c.port EXCEPT ![p] = r]]
      /\ SetPort(w, p, r) \in Work
  BY <1>2, <1>3 DEF WorkOK, Work
<1> QED
  BY <1>1, <1>2, <1>3, <1>4 DEF WorkOK, ConfigurationOK, Work, Configuration

LEMMA SetNumberOK ==
    ASSUME NEW base, NEW w, WorkOK(w, base), NEW n \in VlanNames,
           NEW x \in VlanIds \cup {NoValue}
    PROVE  /\ WorkOK(SetNumber(w, n, x), base)
           /\ SetNumber(w, n, x).c.vlans = w.c.vlans
<1>1. /\ w.c \in Configuration
      /\ w.c.number \in [VlanNames -> VlanIds \cup {NoValue}]
  BY DEF WorkOK, Work, Configuration
<1>2. [w.c EXCEPT !.number = [w.c.number EXCEPT ![n] = x]] \in Configuration
  BY <1>1 DEF Configuration
<1>3. SetNumber(w, n, x) = [w EXCEPT !.c = [w.c EXCEPT !.number = [w.c.number EXCEPT ![n] = x]]]
  BY DEF SetNumber
<1>4. /\ SetNumber(w, n, x).c = [w.c EXCEPT !.number = [w.c.number EXCEPT ![n] = x]]
      /\ SetNumber(w, n, x) \in Work
  BY <1>2, <1>3 DEF WorkOK, Work
<1> QED
  BY <1>1, <1>2, <1>3, <1>4 DEF WorkOK, ConfigurationOK, Work, Configuration

\* Writing the vendor dict of a port changes nothing else.
LEMMA SetVendorOK ==
    ASSUME NEW base, NEW w, WorkOK(w, base), NEW p \in PortNames, NEW x \in Vendor
    PROVE  /\ WorkOK([w EXCEPT !.v[p] = x], base)
           /\ [w EXCEPT !.v[p] = x].c = w.c
BY DEF WorkOK, Work

\* The port a lookup finds is a port of the list.
LEMMA FoundPort ==
    ASSUME NEW base, NEW w, WorkOK(w, base), NEW n \in PortNames,
           HoldsOneOf(w.c.ports, Matches[n])
    PROVE  FirstOf(w.c.ports, Matches[n]) \in PortNames
<1>1. IsNameList(w.c.ports, PortNames)
  BY DEF WorkOK, ConfigurationOK, PortListOK
<1>2. FirstOf(w.c.ports, Matches[n]) \in Names(w.c.ports)
  BY <1>1, FirstOfProperties
<1> QED
  BY <1>1, <1>2 DEF IsNameList

LEMMA ParseVlanOK ==
    ASSUME NEW base, NEW w, WorkOK(w, base), NEW node \in VlanNode
    PROVE  WorkOK(ParseVlan(w, node), base)
<1> DEFINE n == node.name
<1>1. n \in VlanNames /\ node.number \in VlanIds \cup {"absent", "delete"}
  BY DEF VlanNode
<1>2. IsNameList(w.c.vlans, VlanNames) /\ w.c \in Configuration /\ w \in Work
  BY DEF WorkOK, ConfigurationOK
<1>3. WorkOK(Fail(w, "netconf"), base)
  BY FailOK
<1>4. WorkOK(RemoveVlan(w, n), base)
  <2> DEFINE u == SetNumber(w, n, NoValue)
  <2>1. WorkOK(u, base) /\ u.c.vlans = w.c.vlans
    BY <1>1, SetNumberOK
  <2> DEFINE l == RemoveName(u.c.vlans, n)
  <2>2. IsNameList(l, VlanNames)
    BY <1>2, <2>1, KeepNamesProperties DEF RemoveName
  <2>3. l \in SUBSET (VlanNames \X VlanNames)
    BY <2>2 DEF IsNameList
  <2>4. RemoveVlan(w, n) = [u EXCEPT !.c = [u.c EXCEPT !.vlans = l]]
    BY DEF RemoveVlan
  <2> HIDE DEF u, l
  <2> QED
    BY <2>1, <2>2, <2>3, <2>4 DEF WorkOK, ConfigurationOK, Work, Configuration
<1>5. ASSUME NEW u, WorkOK(u, base) PROVE WorkOK(ParseVlanNumber(u, node), base)
  <2>1. WorkOK(Fail(u, "netconf"), base)
    BY <1>5, FailOK
  <2>2. WorkOK(SetNumber(u, n, NoValue), base)
    BY <1>1, <1>5, SetNumberOK
  <2>3. node.number \in VlanIds => WorkOK(SetNumber(u, n, node.number), base)
    BY <1>1, <1>5, SetNumberOK
  <2> QED
    BY <1>1, <1>5, <2>1, <2>2, <2>3 DEF ParseVlanNumber
<1>6. ASSUME n \notin Names(w.c.vlans)
      PROVE  WorkOK([w EXCEPT !.c.vlans = AddName(@, n)], base)
  <2>1. IsNameList(AddName(w.c.vlans, n), VlanNames)
    BY <1>1, <1>2, <1>6, AddNameProperties
  <2>2. AddName(w.c.vlans, n) \in SUBSET (VlanNames \X VlanNames)
    BY <2>1 DEF IsNameList
  <2>3. [w EXCEPT !.c.vlans = AddName(@, n)] = [w EXCEPT !.c = [w.c EXCEPT !.vlans = AddName(w.c.vlans, n)]]
    OBVIOUS
  <2> QED
    BY <1>2, <2>1, <2>2, <2>3 DEF WorkOK, ConfigurationOK, Work, Configuration
<1> QED
  BY <1>3, <1>4, <1>5, <1>6 DEF ParseVlan

LEMMA PortOfWork ==
    ASSUME NEW base, NEW w, WorkOK(w, base), NEW p \in PortNames
    PROVE  w.c.port[p] \in Port /\ w.v[p] \in Vendor
BY DEF WorkOK, Work, Configuration

LEMMA NoTrunk == <<>> \in Seq(VlanIds)
BY EmptySeq

LEMMA ParseVlanMembersOK ==
    ASSUME NEW base, NEW w, WorkOK(w, base), NEW p \in PortNames,
           NEW node \in InterfaceNode
    PROVE  WorkOK(ParseVlanMembers(w, p, node), base)
<1> DEFINE r == w.c.port[p]
           ids == node.ids
<1>1. r \in Port /\ ids \in Seq(VlanIds) /\ node.vlan \in {"absent", "delete", "add", "remove"}
  BY PortOfWork DEF InterfaceNode
<1>2. /\ r.trunk \in Seq(VlanIds)
      /\ WorkOK(Fail(w, "crash"), base)
  BY <1>1, FailOK DEF Port
<1>3. /\ [r EXCEPT !.access = NoValue] \in Port
      /\ [r EXCEPT !.access = NoValue, !.trunk = <<>>] \in Port
  BY <1>1, NoTrunk DEF Port
<1>4. WorkOK(RemoveMember(w, p, ids), base)
  <2>1. ASSUME ids[1] \in ToSet(r.trunk)
        PROVE  [r EXCEPT !.trunk = RemoveFirst(@, ids[1])] \in Port
    <3>1. RemoveFirst(r.trunk, ids[1]) \in Seq(VlanIds)
      BY <1>2, <2>1, RemoveFirstType
    <3> QED
      BY <1>1, <3>1 DEF Port
  <2> QED
    BY <1>2, <1>3, <2>1, SetPortOK DEF RemoveMember
<1>5. WorkOK(AddMembers(w, p, ids), base)
  <2>1. [r EXCEPT !.trunk = @ \o ids] \in Port
    <3>1. r.trunk \o ids \in Seq(VlanIds)
      BY <1>1, <1>2, ConcatProperties
    <3> QED
      BY <1>1, <3>1 DEF Port
  <2>2. ids # <<>> => [r EXCEPT !.access = ids[1]] \in Port
    <3>1. ids # <<>> => ids[1] \in VlanIds
      BY <1>1, LenProperties, ElementOfSeq, EmptySeq
    <3> QED
      BY <1>1, <3>1 DEF Port
  <2> QED
    BY <1>2, <2>1, <2>2, SetPortOK DEF AddMembers
<1>6. WorkOK(SetPort(w, p, [r EXCEPT !.access = NoValue, !.trunk = <<>>]), base)
  BY <1>3, SetPortOK
<1> QED
  BY <1>1, <1>4, <1>5, <1>6 DEF ParseVlanMembers

LEMMA ApplyNativeOK ==
    ASSUME NEW base, NEW w, WorkOK(w, base), NEW p \in PortNames,
           NEW node \in InterfaceNode
    PROVE  WorkOK(ApplyNative(w, p, node), base)
<1> DEFINE r == w.c.port[p]
           x == IF node.native = "delete" THEN NoValue ELSE node.native
<1>1. r \in Port /\ node.native \in VlanIds \cup {"absent", "delete"}
  BY PortOfWork DEF InterfaceNode
<1>2. node.native # "absent" => [r EXCEPT !.native = x] \in Port
  BY <1>1 DEF Port
<1>3. node.native # "absent" => WorkOK(SetPort(w, p, [r EXCEPT !.native = x]), base)
  BY <1>2, SetPortOK
<1> QED
  BY <1>3 DEF ApplyNative

LEMMA ApplySwitchingOK ==
    ASSUME NEW base, NEW w, WorkOK(w, base), NEW p \in PortNames,
           NEW node \in InterfaceNode
    PROVE  WorkOK(ApplySwitching(w, p, node), base)
<1> DEFINE r == w.c.port[p]
           on == [w EXCEPT !.v[p].es = TRUE]
           mode == CASE node.mode = "absent" -> r.mode
                     [] node.mode = "delete" -> NoValue
                     [] OTHER -> node.mode
<1>1. r \in Port /\ w.v[p] \in Vendor /\ node.mode \in {"absent", "delete", "access", "trunk"}
  BY PortOfWork DEF InterfaceNode
<1>2. WorkOK(on, base)
  <2>1. [w.v[p] EXCEPT !.es = TRUE] \in Vendor
    BY <1>1 DEF Vendor
  <2>2. on = [w EXCEPT !.v[p] = [w.v[p] EXCEPT !.es = TRUE]]
    OBVIOUS
  <2> QED
    BY <2>1, <2>2, SetVendorOK
<1>3. mode \in {"access", "trunk", NoValue}
  BY <1>1 DEF Port
<1> HIDE DEF mode
<1>4. EnterMode(r, mode) \in Port
  BY <1>1, <1>3, NoTrunk DEF EnterMode, Port
<1>5. WorkOK(ParseVlanMembers(SetPort(on, p, EnterMode(r, mode)), p, node), base)
  BY <1>2, <1>4, SetPortOK, ParseVlanMembersOK
<1>6. WorkOK(Fail(on, "netconf"), base)
  BY <1>2, FailOK
<1> QED
  BY <1>5, <1>6 DEF ApplySwitching, mode

LEMMA ApplyInterfaceDataOK ==
    ASSUME NEW base, NEW w, WorkOK(w, base), NEW p \in PortNames,
           NEW node \in InterfaceNode
    PROVE  WorkOK(ApplyInterfaceData(w, p, node), base)
<1>1. node.descr \in Descriptions \cup {"absent", "delete"}
      /\ node.unit \in {"absent", "delete", "switching"}
  BY DEF InterfaceNode
<1>2. ASSUME NEW u, WorkOK(u, base) PROVE WorkOK(ApplyUnit(u, p, node), base)
  <2> DEFINE off == [u EXCEPT !.v[p].es = FALSE]
             r == u.c.port[p]
             bare == [r EXCEPT !.mode = NoValue, !.native = NoValue,
                               !.access = NoValue, !.trunk = <<>>]
  <2>1. r \in Port /\ u.v[p] \in Vendor
    BY <1>2, PortOfWork
  <2>2. WorkOK(off, base)
    <3>1. [u.v[p] EXCEPT !.es = FALSE] \in Vendor
      BY <2>1 DEF Vendor
    <3>2. off = [u EXCEPT !.v[p] = [u.v[p] EXCEPT !.es = FALSE]]
      OBVIOUS
    <3> QED
      BY <1>2, <3>1, <3>2, SetVendorOK
  <2>3. bare \in Port
    BY <2>1, NoTrunk DEF Port
  <2>4. WorkOK(SetPort(off, p, bare), base)
    BY <2>2, <2>3, SetPortOK
  <2>5. WorkOK(ApplyNative(u, p, node), base)
    BY <1>2, ApplyNativeOK
  <2>6. WorkOK(ApplyNative(ApplySwitching(u, p, node), p, node), base)
    BY <1>2, ApplySwitchingOK, ApplyNativeOK
  <2> QED
    BY <1>1, <1>2, <2>4, <2>5, <2>6 DEF ApplyUnit
<1>3. ASSUME NEW x \in Descriptions \cup {NoValue}
      PROVE  WorkOK(ApplyUnit(SetPort(w, p, [w.c.port[p] EXCEPT !.descr = x]), p, node), base)
  <2>1. [w.c.port[p] EXCEPT !.descr = x] \in Port
    BY PortOfWork DEF Port
  <2> QED
    BY <1>2, <2>1, SetPortOK
<1>4. WorkOK(Fail(w, "netconf"), base)
  BY FailOK
<1> QED
  BY <1>1, <1>2, <1>3, <1>4 DEF ApplyInterfaceData

LEMMA ResetInterfaceOK ==
    ASSUME NEW base, NEW w, WorkOK(w, base), NEW p \in PortNames
    PROVE  WorkOK(ResetInterface(w, p), base)
<1> DEFINE u == SetPort(w, p, ResetPort)
           x == [es |-> FALSE, edge |-> IF w.v[p].edge = "on" THEN "on" ELSE "off"]
<1>1. ResetPort \in Port /\ x \in Vendor
  BY NoTrunk DEF ResetPort, Port, Vendor
<1>2. WorkOK(u, base)
  BY <1>1, SetPortOK
<1>3. WorkOK([u EXCEPT !.v[p] = x], base)
  BY <1>1, <1>2, SetVendorOK
<1> DEFINE y == [u EXCEPT !.v[p] = x]
<1>4. ResetInterface(w, p) = [y EXCEPT !.reset = y.reset \cup {p}]
  BY <1>2 DEF ResetInterface, WorkOK, Work
<1> HIDE DEF y
<1>5. y \in Work /\ y.reset \cup {p} \in SUBSET PortNames
  BY <1>3 DEF WorkOK, Work, y
<1>6. ResetInterface(w, p) \in Work /\ ResetInterface(w, p).c = y.c
  BY <1>4, <1>5 DEF Work
<1> QED
  BY <1>3, <1>6 DEF WorkOK, y

\* An aggregate is only created when no port answers to its name, so the
\* ports stay addressable: the new one is last and nobody before it matches.
LEMMA CreateAggregateOK ==
    ASSUME NEW base, NEW w, WorkOK(w, base), NEW n \in PortNames,
           ~HoldsOneOf(w.c.ports, Matches[n])
    PROVE  WorkOK(CreateAggregate(w, n), base)
<1> DEFINE l == w.c.ports
           k == AddName(l, n)
<1>1. IsNameList(l, PortNames) /\ Addressable(l) /\ w.c \in Configuration /\ w \in Work
  BY DEF WorkOK, ConfigurationOK, PortListOK
<1>2. n \notin Names(l)
  BY DataAssumption DEF HoldsOneOf
<1>3. Names(k) = Names(l) \cup {n} /\ IsNameList(k, PortNames)
  BY <1>1, <1>2, AddNameProperties
<1>4. ASSUME NEW p \in Names(k) PROVE FirstOf(k, Matches[p]) = p
  <2>1. p \in Names(k) \cap Matches[p]
    BY <1>3, DataAssumption DEF IsNameList
  <2>2. HoldsOneOf(k, Matches[p])
    BY <2>1 DEF HoldsOneOf
  <2>3. ASSUME NEW m \in Names(k) \cap Matches[p] PROVE <<p, m>> \in k
    <3>1. CASE p = n
      <4>1. m = n
        BY <1>3, <2>3, <3>1 DEF HoldsOneOf
      <4> QED
        BY <3>1, <4>1 DEF AddName
    <3>2. CASE p # n /\ m = n
      <4>1. p \in Names(l)
        BY <1>3, <3>2
      <4> QED
        BY <3>2, <4>1 DEF AddName
    <3>3. CASE p # n /\ m # n
      <4>1. p \in Names(l) /\ m \in Names(l) \cap Matches[p]
        BY <1>3, <3>3
      <4>2. HoldsOneOf(l, Matches[p]) /\ FirstOf(l, Matches[p]) = p
        BY <1>1, <4>1 DEF HoldsOneOf, Addressable
      <4>3. <<p, m>> \in l
        BY <1>1, <4>1, <4>2, FirstOfProperties
      <4> QED
        BY <4>3 DEF AddName
    <3> QED
      BY <3>1, <3>2, <3>3
  <2> QED
    BY <1>3, <2>1, <2>2, <2>3, FirstOfProperties
<1>5. PortListOK(k) /\ k \in SUBSET (PortNames \X PortNames)
  BY <1>3, <1>4 DEF PortListOK, Addressable, IsNameList
<1>6. [w.v EXCEPT ![n] = [w.v[n] EXCEPT !.es = TRUE]] \in [PortNames -> Vendor]
  BY <1>1 DEF Work, Vendor
<1>7. [w.c EXCEPT !.ports = k] \in Configuration
  BY <1>1, <1>5 DEF Configuration
<1>8. CreateAggregate(w, n) = [w EXCEPT !.c = [w.c EXCEPT !.ports = k],
                                        !.v = [w.v EXCEPT ![n] = [w.v[n] EXCEPT !.es = TRUE]]]
  BY DEF CreateAggregate
<1>9. base \subseteq Names(k)
  BY <1>3 DEF WorkOK
<1> HIDE DEF k
<1>10. /\ CreateAggregate(w, n) \in Work
       /\ CreateAggregate(w, n).c = [w.c EXCEPT !.ports = k]
  BY <1>1, <1>6, <1>7, <1>8 DEF Work
<1>11. /\ [w.c EXCEPT !.ports = k].ports = k
       /\ [w.c EXCEPT !.ports = k].vlans = w.c.vlans
  BY <1>1 DEF Configuration
<1> QED
  BY <1>5, <1>7, <1>9, <1>10, <1>11 DEF WorkOK, ConfigurationOK

LEMMA ParseInterfaceOK ==
    ASSUME NEW base, NEW w, WorkOK(w, base), NEW node \in InterfaceNode
    PROVE  WorkOK(ParseInterface(w, node), base)
<1>1. node.name \in PortNames /\ node.op \in {"merge", "replace", "delete"}
  BY DEF InterfaceNode
<1>2. ASSUME NEW u, WorkOK(u, base), NEW p \in PortNames
      PROVE  WorkOK(ParseInterfaceOf(u, p, node), base)
  BY <1>1, <1>2, ApplyInterfaceDataOK, ResetInterfaceOK DEF ParseInterfaceOf
<1>3. WorkOK(Fail(w, "netconf"), base) /\ WorkOK(Fail(w, "crash"), base)
  BY FailOK
<1> QED
  BY <1>1, <1>2, <1>3, FoundPort, CreateAggregateOK DEF ParseInterface

LEMMA ParseRstpOK ==
    ASSUME NEW base, NEW w, WorkOK(w, base), NEW node \in RstpNode
    PROVE  WorkOK(ParseRstp(w, node), base)
<1> DEFINE p == FirstOf(w.c.ports, Matches[node.name])
           e == IF node.edge = "merge" THEN "on" ELSE "absent"
<1>1. WorkOK(Fail(w, "crash"), base)
  BY FailOK
<1>2. ASSUME HoldsOneOf(w.c.ports, Matches[node.name])
      PROVE  WorkOK([w EXCEPT !.v[p].edge = e], base)
  <2>1. p \in PortNames
    BY <1>2, FoundPort DEF RstpNode
  <2> HIDE DEF p
  <2>2. [w.v[p] EXCEPT !.edge = e] \in Vendor
    BY <2>1, PortOfWork DEF Vendor
  <2>3. [w EXCEPT !.v[p].edge = e] = [w EXCEPT !.v[p] = [w.v[p] EXCEPT !.edge = e]]
    OBVIOUS
  <2> QED
    BY <2>1, <2>2, <2>3, SetVendorOK
<1> QED
  BY <1>1, <1>2 DEF ParseRstp

\* Whatever an edit contains and wherever it fails, its target stays well
\* formed and loses no port.
LEMMA EditedOK ==
    ASSUME TypeOK, PortsAddressable, NEW d \in Datastores, NEW r \in Requests
    PROVE  WorkOK(Edited(d, r), Names(config[d].ports))
<1> DEFINE base == Names(config[d].ports)
<1>1. WorkOK(Begin(d), base)
  BY DEF TypeOK, PortsAddressable, WorkOK, Work, Begin, ConfigurationOK, PortListOK
<1>2. /\ r.vlan = NoValue \/ r.vlan \in VlanNode
      /\ r.interface = NoValue \/ r.interface \in InterfaceNode
      /\ r.rstp = NoValue \/ r.rstp \in RstpNode
  BY RequestAssumption
<1>3. WorkOK(AfterVlans(d, r), base)
  BY <1>1, <1>2, ParseVlanOK DEF AfterVlans
<1>4. WorkOK(AfterInterfaces(d, r), base)
  BY <1>2, <1>3, ParseInterfaceOK DEF AfterInterfaces
<1>5. WorkOK(AfterProtocols(d, r), base)
  BY <1>2, <1>4, ParseRstpOK DEF AfterProtocols
<1> QED
  BY <1>5, FailOK DEF Edited

-----------------------------------------------------------------------------
(***************************************************************************)
(* Reads.                                                                  *)
(***************************************************************************)

\* Reading a datastore changes no list, no vlan and no vlan number in use.
LEMMA AsReadOK ==
    ASSUME TypeOK, PortsAddressable, NEW d \in Datastores
    PROVE  /\ ConfigurationOK(AsRead(d))
           /\ AsRead(d).ports = config[d].ports
           /\ AsRead(d).vlans = config[d].vlans
           /\ AsRead(d).number = config[d].number
           /\ \A p \in PortNames : VlansOf(AsRead(d).port[p]) = VlansOf(config[d].port[p])
<1> DEFINE c == config[d]
           f == [p \in PortNames |-> IF p \in ReadPorts(d) THEN PortAsRead(c.port[p], vendor[d][p])
                                                           ELSE c.port[p]]
<1>1. c \in Configuration /\ vendor[d] \in [PortNames -> Vendor] /\ ConfigurationOK(c)
  BY DEF TypeOK, ConfigurationOK, PortListOK, PortsAddressable
<1>2. AsRead(d) = [c EXCEPT !.port = f]
  BY DEF AsRead
<1>3. ASSUME NEW p \in PortNames
      PROVE  f[p] \in Port /\ VlansOf(f[p]) = VlansOf(c.port[p])
  <2>1. c.port[p] \in Port /\ vendor[d][p] \in Vendor
    BY <1>1 DEF Configuration
  <2> QED
    BY <2>1, PortAsReadProperties
<1>4. f \in [PortNames -> Port]
  BY <1>3
<1> HIDE DEF f
<1> QED
  BY <1>1, <1>2, <1>3, <1>4 DEF Configuration, ConfigurationOK

-----------------------------------------------------------------------------
(***************************************************************************)
(* Commits.                                                                *)
(***************************************************************************)

\* What a commit copies comes from a port of the candidate.
LEMMA SourceOfMember ==
    ASSUME NEW run, IsNameList(run, PortNames), NEW cand, IsNameList(cand, PortNames),
           NEW p \in PortNames, SourceOf(run, cand, p) # NoValue
    PROVE  SourceOf(run, cand, p) \in Names(cand)
<1>1. CASE p \in Added(run, cand)
  BY <1>1 DEF SourceOf, Added
<1>2. CASE p \notin Added(run, cand) /\ CopiedTo(run, cand, p) # {}
  <2>1. HoldsOneOf(cand, CopiedTo(run, cand, p))
    BY <1>2 DEF HoldsOneOf, CopiedTo
  <2>2. LastOf(cand, CopiedTo(run, cand, p)) \in Names(cand)
    BY <2>1, LastOfProperties
  <2> QED
    BY <1>2, <2>2 DEF SourceOf
<1>3. CASE p \notin Added(run, cand) /\ CopiedTo(run, cand, p) = {}
  BY <1>3 DEF SourceOf
<1> QED
  BY <1>1, <1>2, <1>3

LEMMA CommitValuesType ==
    ASSUME TypeOK, NEW T, NEW none \in T,
           NEW mine \in [PortNames -> T], NEW theirs \in [PortNames -> T]
    PROVE  CommitValues(mine, theirs, none) \in [PortNames -> T]
<1> DEFINE run == config["running"].ports
           cand == config["candidate"].ports
<1>1. IsNameList(run, PortNames) /\ IsNameList(cand, PortNames)
  BY DEF TypeOK, Datastores
<1>2. \A p \in PortNames : SourceOf(run, cand, p) # NoValue => SourceOf(run, cand, p) \in PortNames
  <2>1. Names(run) \subseteq PortNames /\ Names(cand) \subseteq PortNames
    BY <1>1 DEF IsNameList
  <2> QED
    BY <1>1, <2>1, SourceOfMember
<1> QED
  BY <1>2 DEF CommitValues

\* A commit matches the ports one by one, yet keeps every port addressable:
\* a port is appended only when no running port answers to its name.
LEMMA CommittedPortsOK ==
    ASSUME NEW run, PortListOK(run), NEW cand, PortListOK(cand)
    PROVE  /\ PortListOK(CommittedPorts(run, cand))
           /\ Names(CommittedPorts(run, cand)) =
                 {p \in Names(run) \cup Added(run, cand) : HoldsOneOf(cand, Matches[p])}
<1> DEFINE A == Added(run, cand)
           K == {p \in PortNames : HoldsOneOf(cand, Matches[p])}
           kept == KeepNames(cand, A)
           all == MergedPorts(run, cand)
           l == CommittedPorts(run, cand)
<1>1. IsNameList(run, PortNames) /\ IsNameList(cand, PortNames)
  BY DEF PortListOK
<1>2. Names(run) \subseteq PortNames /\ Names(cand) \subseteq PortNames /\ A \subseteq Names(cand)
  BY <1>1 DEF IsNameList, Added
<1>3. Names(kept) = A /\ IsNameList(kept, PortNames)
  <2>1. Names(kept) = Names(cand) \cap A /\ IsNameList(kept, PortNames)
    BY <1>1, KeepNamesProperties
  <2> QED
    BY <1>2, <2>1
<1>4. \A p \in A, q \in Names(run) : q \notin Matches[p]
  BY DEF Added, HoldsOneOf
<1>5. Names(run) \cap A = {}
  BY <1>2, <1>4, DataAssumption
<1>6. Names(all) = Names(run) \cup A /\ IsNameList(all, PortNames)
  BY <1>1, <1>3, <1>5, JoinNamesProperties DEF MergedPorts
<1>7. Names(l) = Names(all) \cap K /\ IsNameList(l, PortNames)
  BY <1>6, KeepNamesProperties DEF CommittedPorts
<1>8. ASSUME NEW p \in Names(l) PROVE FirstOf(l, Matches[p]) = p
  <2>1. p \in PortNames /\ p \in Matches[p]
    BY <1>2, <1>6, <1>7, DataAssumption
  <2>2. ASSUME NEW m \in Names(l) \cap Matches[p] PROVE <<p, m>> \in l
    <3>1. p \in K /\ m \in K /\ l = all \cap (K \X K)
      BY <1>7 DEF CommittedPorts, KeepNames
    <3>2. SUFFICES <<p, m>> \in all
      BY <3>1
    <3>3. CASE p \in Names(run) /\ m \in Names(run)
      <4>1. HoldsOneOf(run, Matches[p]) /\ FirstOf(run, Matches[p]) = p
        BY <2>1, <3>3 DEF HoldsOneOf, PortListOK, Addressable
      <4>2. <<p, m>> \in run
        BY <1>1, <2>2, <3>3, <4>1, FirstOfProperties
      <4> QED
        BY <4>2 DEF MergedPorts, JoinNames
    <3>4. CASE p \in Names(run) /\ m \in A
      BY <1>3, <3>4 DEF MergedPorts, JoinNames
    <3>5. CASE p \in A /\ m \in Names(run)
      BY <1>4, <2>2, <3>5
    <3>6. CASE p \in A /\ m \in A
      <4>1. HoldsOneOf(cand, Matches[p]) /\ FirstOf(cand, Matches[p]) = p
        BY <1>2, <2>1, <3>6 DEF HoldsOneOf, PortListOK, Addressable
      <4>2. <<p, m>> \in cand
        BY <1>1, <1>2, <2>2, <3>6, <4>1, FirstOfProperties
      <4>3. <<p, m>> \in kept
        BY <3>6, <4>2 DEF KeepNames
      <4> QED
        BY <4>3 DEF MergedPorts, JoinNames
    <3> QED
      BY <1>6, <1>7, <2>2, <3>3, <3>4, <3>5, <3>6
  <2>3. HoldsOneOf(l, Matches[p])
    BY <2>1 DEF HoldsOneOf
  <2> QED
    BY <1>7, <2>1, <2>2, <2>3, FirstOfProperties
<1>9. PortListOK(l)
  BY <1>7, <1>8 DEF PortListOK, Addressable
<1> QED
  BY <1>2, <1>6, <1>7, <1>9

\* After a commit running has exactly the vlans of the candidate.
LEMMA CommittedVlansOK ==
    ASSUME NEW run, IsNameList(run, VlanNames), NEW cand, IsNameList(cand, VlanNames)
    PROVE  /\ IsNameList(CommittedVlans(run, cand), VlanNames)
           /\ Names(CommittedVlans(run, cand)) = Names(cand)
<1>1. /\ Names(KeepNames(run, Names(cand))) = Names(run) \cap Names(cand)
      /\ IsNameList(KeepNames(run, Names(cand)), VlanNames)
  BY KeepNamesProperties
<1>2. /\ Names(KeepNames(cand, Names(cand) \ Names(run))) = Names(cand) \ Names(run)
      /\ IsNameList(KeepNames(cand, Names(cand) \ Names(run)), VlanNames)
  BY KeepNamesProperties
<1> QED
  BY <1>1, <1>2, JoinNamesProperties DEF CommittedVlans

LEMMA CommittedConfigOK ==
    ASSUME TypeOK, PortsAddressable
    PROVE  ConfigurationOK(CommittedConfig)
<1> DEFINE run == config["running"]
           cand == config["candidate"]
<1>1. /\ run \in Configuration /\ cand \in Configuration
      /\ IsNameList(run.vlans, VlanNames) /\ IsNameList(cand.vlans, VlanNames)
      /\ PortListOK(run.ports) /\ PortListOK(cand.ports)
  BY DEF TypeOK, PortsAddressable, Datastores, PortListOK
<1>2. IsNameList(CommittedVlans(run.vlans, cand.vlans), VlanNames)
  BY <1>1, CommittedVlansOK
<1>3. PortListOK(CommittedPorts(run.ports, cand.ports))
  BY <1>1, CommittedPortsOK
<1>4. ResetPort \in Port
  BY NoTrunk DEF ResetPort, Port
<1>5. CommittedPort \in [PortNames -> Port]
  BY <1>1, <1>4, CommitValuesType DEF CommittedPort, Configuration
<1>6. CommittedConfig \in Configuration
  BY <1>1, <1>2, <1>3, <1>5 DEF CommittedConfig, Configuration, PortListOK, IsNameList
<1> QED
  BY <1>2, <1>3, <1>6 DEF CommittedConfig, ConfigurationOK

-----------------------------------------------------------------------------
(***************************************************************************)
(* Type correctness and addressable ports: one inductive invariant, for a  *)
(* lookup by partial name is only typed in a list with an order.           *)
(***************************************************************************)
StoreOK ==
    /\ config \in [Datastores -> Configuration]
    /\ \A d \in Datastores : ConfigurationOK(config[d])
    /\ vendor \in [Datastores -> [PortNames -> Vendor]]
    /\ alias \in [PortNames -> PortNames \cup {NoValue}]
    /\ locked \in [Datastores -> BOOLEAN]
    /\ holds \in [Sessions -> SUBSET Datastores]

LEMMA StoreOKIsTypeOK == StoreOK <=> TypeOK /\ PortsAddressable
BY DEF StoreOK, TypeOK, PortsAddressable, ConfigurationOK, PortListOK

LEMMA BothAsReadOK ==
    ASSUME StoreOK
    PROVE  /\ BothAsRead \in [Datastores -> Configuration]
           /\ \A d \in Datastores : ConfigurationOK(BothAsRead[d])
<1>1. \A d \in Datastores : ConfigurationOK(AsRead(d)) /\ ConfigurationOK(config[d])
  BY StoreOKIsTypeOK, AsReadOK DEF StoreOK
<1> QED
  BY <1>1 DEF BothAsRead, ConfigurationOK

LEMMA StoreOKInit == Init => StoreOK
<1> SUFFICES ASSUME Init PROVE StoreOK
  OBVIOUS
<1>1. IsNameList({}, VlanNames)
  BY EmptyNameList
<1>2. ResetPort \in Port /\ FreshVendor \in Vendor
  BY NoTrunk DEF ResetPort, Port, FreshVendor, Vendor
<1>3. InitialPorts \in SUBSET (PortNames \X PortNames)
  BY DataAssumption DEF IsNameList
<1>4. ASSUME NEW d \in Datastores PROVE ConfigurationOK(config[d])
  BY <1>1, <1>2, <1>3, DataAssumption
     DEF Init, ConfigurationOK, Configuration, PortListOK, Addressable
<1>5. config \in [Datastores -> Configuration]
  BY <1>4 DEF Init, ConfigurationOK
<1> QED
  BY <1>2, <1>4, <1>5 DEF Init, StoreOK

LEMMA StoreOKEdit ==
    ASSUME StoreOK, NEW d \in Datastores, NEW r \in Requests, EditConfig(d, r)
    PROVE  StoreOK'
<1> DEFINE w == Edited(d, r)
<1>1. WorkOK(w, Names(config[d].ports))
  BY StoreOKIsTypeOK, EditedOK
<1>2. w \in Work /\ ConfigurationOK(w.c) /\ w.c \in Configuration
  BY <1>1 DEF WorkOK, ConfigurationOK
<1> HIDE DEF w
<1>3. /\ config' = [config EXCEPT ![d] = w.c]
      /\ alias' = AliasAfter(d, w.reset)
      /\ vendor' = [e \in Datastores |-> IF e = d THEN w.v ELSE Leaked(d, w.v, alias')]
      /\ holds' = holds
      /\ locked' = locked
  BY DEF EditConfig, w
<1>4. /\ config' \in [Datastores -> Configuration]
      /\ \A e \in Datastores : ConfigurationOK(config'[e])
  BY <1>2, <1>3 DEF StoreOK
<1>5. alias' \in [PortNames -> PortNames \cup {NoValue}]
  BY <1>3 DEF AliasAfter, StoreOK
<1>6. vendor' \in [Datastores -> [PortNames -> Vendor]]
  <2>1. w.v \in [PortNames -> Vendor]
    BY <1>2 DEF Work
  <2>2. Other(d) \in Datastores
    BY DEF Other, Datastores
  <2>3. ASSUME NEW p \in PortNames PROVE Leaked(d, w.v, alias')[p] \in Vendor
    <3>1. vendor[Other(d)][p] \in Vendor
      BY <2>2 DEF StoreOK
    <3>2. alias'[p] # NoValue => w.v[alias'[p]] \in Vendor
      BY <1>5, <2>1
    <3>3. (\E q \in PortNames : alias'[q] = p)
             => w.v[CHOOSE q \in PortNames : alias'[q] = p] \in Vendor
      BY <2>1
    <3> QED
      BY <3>1, <3>2, <3>3 DEF Leaked
  <2>4. Leaked(d, w.v, alias') \in [PortNames -> Vendor]
    BY <2>3 DEF Leaked
  <2> QED
    BY <1>3, <2>1, <2>4
<1>7. holds' \in [Sessions -> SUBSET Datastores]
  BY <1>3 DEF StoreOK
<1> QED
  BY <1>3, <1>4, <1>5, <1>6, <1>7 DEF StoreOK

LEMMA StoreOKCommit ==
    ASSUME StoreOK, CommitAccepted
    PROVE  StoreOK'
<1>0. TypeOK /\ PortsAddressable
  BY StoreOKIsTypeOK
<1>1. ConfigurationOK(CommittedConfig) /\ CommittedConfig \in Configuration
  BY <1>0, CommittedConfigOK DEF ConfigurationOK
<1>2. /\ config' \in [Datastores -> Configuration]
      /\ \A e \in Datastores : ConfigurationOK(config'[e])
  BY <1>1 DEF CommitAccepted, StoreOK, Datastores
<1>3. CommittedVendor \in [PortNames -> Vendor]
  <2>1. FreshVendor \in Vendor
    BY DEF FreshVendor, Vendor
  <2> QED
    BY <1>0, <2>1, CommitValuesType DEF CommittedVendor, StoreOK, Datastores
<1>4. CommittedAlias \in [PortNames -> PortNames \cup {NoValue}]
  <2> DEFINE T == PortNames \cup {NoValue}
             theirs == [u \in PortNames |->
                          IF u \in Added(config["running"].ports, config["candidate"].ports)
                          THEN NoValue ELSE u]
  <2>1. theirs \in [PortNames -> T] /\ alias \in [PortNames -> T] /\ NoValue \in T
    BY DEF StoreOK
  <2>2. CommittedAlias = CommitValues(alias, theirs, NoValue)
    BY DEF CommittedAlias
  <2> HIDE DEF T, theirs
  <2>3. CommitValues(alias, theirs, NoValue) \in [PortNames -> T]
    BY <1>0, <2>1, CommitValuesType
  <2> QED
    BY <2>2, <2>3 DEF T
<1> QED
  BY <1>2, <1>3, <1>4 DEF CommitAccepted, StoreOK, Datastores

LEMMA StoreOKStep == StoreOK /\ [Next]_vars => StoreOK'
<1> SUFFICES ASSUME StoreOK, [Next]_vars PROVE StoreOK'
  OBVIOUS
<1>1. ASSUME NEW d \in Datastores, GetConfig(d) PROVE StoreOK'
  <2>1. ConfigurationOK(AsRead(d)) /\ AsRead(d) \in Configuration
    BY StoreOKIsTypeOK, AsReadOK DEF ConfigurationOK
  <2>2. /\ config' \in [Datastores -> Configuration]
        /\ \A e \in Datastores : ConfigurationOK(config'[e])
    BY <1>1, <2>1 DEF GetConfig, StoreOK
  <2> QED
    BY <1>1, <2>2 DEF GetConfig, StoreOK
<1>2. CASE CompareConfiguration
  BY <1>2, BothAsReadOK DEF CompareConfiguration, StoreOK
<1>3. ASSUME NEW s \in Sessions, NEW d \in Datastores, LockGranted(s, d) PROVE StoreOK'
  BY <1>3, BothAsReadOK DEF LockGranted, StoreOK
<1>4. ASSUME NEW d \in Datastores, LockRefused(d) PROVE StoreOK'
  BY <1>4, BothAsReadOK DEF LockRefused, StoreOK
<1>5. ASSUME NEW s \in Sessions, NEW d \in Datastores, Unlock(s, d) PROVE StoreOK'
  BY <1>5 DEF Unlock, StoreOK
<1>6. CASE DiscardChanges
  BY <1>6 DEF DiscardChanges, StoreOK, Datastores
<1>7. ASSUME NEW s \in Sessions, Disconnect(s) PROVE StoreOK'
  BY <1>7 DEF Disconnect, StoreOK
<1>8. CASE UNCHANGED vars
  BY <1>8 DEF vars, StoreOK
<1>9. CASE CommitRefused
  BY <1>8, <1>9 DEF CommitRefused
<1>10. EditTargets \subseteq Datastores /\ LockTargets \subseteq Datastores
  BY DataAssumption
<1> QED
  BY <1>1, <1>2, <1>3, <1>4, <1>5, <1>6, <1>7, <1>8, <1>9, <1>10, StoreOKEdit, StoreOKCommit
     DEF Next

LEMMA StoreOKAlways == Spec => []StoreOK
<1> QED
  BY StoreOKInit, StoreOKStep, PTL DEF Spec

\* The variables keep their shapes, and vlans and ports stay lists of
\* distinct names, whatever the clients of the datastore send.
THEOREM TypeCorrect == Spec => []TypeOK
<1>1. StoreOK => TypeOK
  BY StoreOKIsTypeOK
<1> QED
  BY <1>1, StoreOKAlways, PTL

\* Every port of both datastores is the first one its own name finds.
THEOREM PortsStayAddressable == Spec => []PortsAddressable
<1>1. StoreOK => PortsAddressable
  BY StoreOKIsTypeOK
<1> QED
  BY <1>1, StoreOKAlways, PTL

-----------------------------------------------------------------------------
(***************************************************************************)
(* Locks.  Between disciplined sessions the locked flag is never cleared   *)
(* under a session that holds the lock.                                    *)
(***************************************************************************)
HolderIsLocked ==
    \A s \in Sessions, d \in Datastores : d \in holds[s] => locked[d]

LockInv == StoreOK /\ HolderIsLocked /\ LockExclusive

LEMMA LockInvInit == Init => LockInv
BY StoreOKInit DEF Init, LockInv, HolderIsLocked, LockExclusive

\* Steps that touch neither the flags nor the sessions' views, except to
\* take locks away from a session's view.
LEMMA LockInvQuiet ==
    ASSUME LockInv, StoreOK', locked' = locked,
           \A s \in Sessions : holds'[s] \subseteq holds[s]
    PROVE  LockInv'
BY DEF LockInv, HolderIsLocked, LockExclusive

LEMMA LockInvStep ==
    ASSUME Disciplined, LockInv, [Next]_vars
    PROVE  LockInv'
<1>0. StoreOK /\ StoreOK'
  BY StoreOKStep DEF LockInv
<1>1. ASSUME NEW d \in Datastores, GetConfig(d) PROVE LockInv'
  BY <1>0, <1>1, LockInvQuiet DEF GetConfig
<1>2. CASE CompareConfiguration
  BY <1>0, <1>2, LockInvQuiet DEF CompareConfiguration
<1>3. ASSUME NEW s \in Sessions, NEW d \in Datastores, LockGranted(s, d) PROVE LockInv'
  <2>1. /\ ~locked[d]
        /\ locked' = [locked EXCEPT ![d] = TRUE]
        /\ holds' = [holds EXCEPT ![s] = @ \cup {d}]
    BY <1>3 DEF LockGranted, Lockable
  <2>2. \A t \in Sessions : d \notin holds[t]
    BY <2>1 DEF LockInv, HolderIsLocked
  <2>3. HolderIsLocked'
    BY <1>0, <2>1 DEF HolderIsLocked, LockInv, StoreOK
  <2>4. LockExclusive'
    BY <1>0, <2>1, <2>2 DEF LockExclusive, LockInv, StoreOK
  <2> QED
    BY <1>0, <2>3, <2>4 DEF LockInv
<1>4. ASSUME NEW d \in Datastores, LockRefused(d) PROVE LockInv'
  BY <1>0, <1>4, LockInvQuiet DEF LockRefused
<1>5. ASSUME NEW s \in Sessions, NEW d \in Datastores, Unlock(s, d) PROVE LockInv'
  <2>1. /\ d \in holds[s]
        /\ locked' = [locked EXCEPT ![d] = FALSE]
        /\ holds' = [holds EXCEPT ![s] = @ \ {d}]
    BY <1>5 DEF Unlock
  <2>2. \A t \in Sessions : d \notin holds'[t]
    BY <1>0, <2>1 DEF LockInv, LockExclusive, StoreOK
  <2>3. \A t \in Sessions : holds'[t] \subseteq holds[t]
    BY <1>0, <2>1 DEF StoreOK
  <2>4. HolderIsLocked'
    BY <1>0, <2>1, <2>2, <2>3 DEF HolderIsLocked, LockInv, StoreOK
  <2>5. LockExclusive'
    BY <2>3 DEF LockExclusive, LockInv
  <2> QED
    BY <1>0, <2>4, <2>5 DEF LockInv
<1>6. CASE DiscardChanges
  <2>1. /\ ~locked["candidate"]
        /\ locked' = [locked EXCEPT !["candidate"] = locked["running"]]
        /\ holds' = holds
    BY <1>6 DEF DiscardChanges
  <2>2. HolderIsLocked'
    BY <1>0, <2>1 DEF HolderIsLocked, LockInv, StoreOK, Datastores
  <2>3. LockExclusive'
    BY <2>1 DEF LockExclusive, LockInv
  <2> QED
    BY <1>0, <2>2, <2>3 DEF LockInv
<1>7. ASSUME NEW s \in Sessions, Disconnect(s) PROVE LockInv'
  <2>1. locked' = locked /\ \A t \in Sessions : holds'[t] \subseteq holds[t]
    BY <1>0, <1>7 DEF Disconnect, StoreOK
  <2> QED
    BY <1>0, <2>1, LockInvQuiet
<1>8. ASSUME NEW d \in Datastores, NEW r \in Requests, EditConfig(d, r)
      PROVE  LockInv'
  BY <1>0, <1>8, LockInvQuiet DEF EditConfig
<1>9. CASE CommitAccepted
  BY <1>0, <1>9, LockInvQuiet DEF CommitAccepted
<1>10. CASE UNCHANGED vars
  BY <1>0, <1>10, LockInvQuiet DEF vars
<1>11. CASE CommitRefused
  BY <1>10, <1>11 DEF CommitRefused
<1>12. EditTargets \subseteq Datastores /\ LockTargets \subseteq Datastores
  BY DataAssumption
<1> QED
  BY <1>1, <1>2, <1>3, <1>4, <1>5, <1>6, <1>7, <1>8, <1>9, <1>10, <1>11, <1>12 DEF Next

\* If sessions unlock only what they locked and nobody discards changes
\* while the candidate is locked, no two sessions ever hold one lock.
THEOREM LocksAreExclusive == Disciplined => (Spec => []LockExclusive)
<1> SUFFICES ASSUME Disciplined PROVE Spec => []LockExclusive
  OBVIOUS
<1>1. LockInv /\ [Next]_vars => LockInv'
  BY LockInvStep
<1>2. LockInv => LockExclusive
  BY DEF LockInv
<1> QED
  BY <1>1, <1>2, LockInvInit, PTL DEF Spec

-----------------------------------------------------------------------------
(***************************************************************************)
(* Dangling vlans.  Running uses only vlans it has because a commit copies *)
(* every port it keeps from a validated candidate; that needs running to   *)
(* have no port the candidate lacks, which holds while only the candidate  *)
(* is edited.                                                              *)
(***************************************************************************)
NoPortOnlyInRunning ==
    Names(config["running"].ports) \subseteq Names(config["candidate"].ports)

ResolvedInv == StoreOK /\ NoPortOnlyInRunning /\ RunningResolved

LEMMA ResolvedInvInit == Init => ResolvedInv
<1> SUFFICES ASSUME Init PROVE NoPortOnlyInRunning /\ RunningResolved
  BY StoreOKInit DEF ResolvedInv
<1>1. \A p \in PortNames : VlansOf(config["running"].port[p]) = {}
  BY DEF Init, Datastores, ResetPort, VlansOf, ToSet
<1>2. Names(config["running"].ports) \subseteq PortNames
  BY StoreOKInit DEF StoreOK, ConfigurationOK, PortListOK, IsNameList, Datastores
<1> QED
  BY <1>1, <1>2 DEF Init, Datastores, NoPortOnlyInRunning, RunningResolved, Resolved

\* Steps that leave the lists and the numbers in use of running alone, and
\* take no port from the candidate.
LEMMA ResolvedInvQuiet ==
    ASSUME ResolvedInv, StoreOK',
           config'["running"].ports = config["running"].ports,
           config'["running"].vlans = config["running"].vlans,
           config'["running"].number = config["running"].number,
           \A p \in PortNames :
              VlansOf(config'["running"].port[p]) = VlansOf(config["running"].port[p]),
           Names(config["candidate"].ports) \subseteq Names(config'["candidate"].ports)
    PROVE  ResolvedInv'
<1>1. Names(config["running"].ports) \subseteq PortNames
  BY DEF ResolvedInv, StoreOK, ConfigurationOK, PortListOK, IsNameList, Datastores
<1> QED
  BY <1>1 DEF ResolvedInv, NoPortOnlyInRunning, RunningResolved, Resolved, VlanNumbers

\* Reading either datastore, or both.
LEMMA ResolvedInvRead ==
    ASSUME ResolvedInv, StoreOK',
           \A d \in Datastores : config'[d] = config[d] \/ config'[d] = AsRead(d)
    PROVE  ResolvedInv'
<1>1. \A d \in Datastores :
        /\ AsRead(d).ports = config[d].ports
        /\ AsRead(d).vlans = config[d].vlans
        /\ AsRead(d).number = config[d].number
        /\ \A p \in PortNames : VlansOf(AsRead(d).port[p]) = VlansOf(config[d].port[p])
  BY StoreOKIsTypeOK, AsReadOK DEF ResolvedInv
<1>2. "running" \in Datastores /\ "candidate" \in Datastores
  BY DEF Datastores
<1> QED
  BY <1>1, <1>2, ResolvedInvQuiet

LEMMA ResolvedInvCommit ==
    ASSUME ResolvedInv, StoreOK', CommitAccepted
    PROVE  ResolvedInv'
<1> DEFINE run == config["running"]
           cand == config["candidate"]
           l == CommittedPorts(run.ports, cand.ports)
<1>1. /\ ConfigurationOK(run) /\ ConfigurationOK(cand)
      /\ PortListOK(run.ports) /\ PortListOK(cand.ports)
      /\ IsNameList(run.vlans, VlanNames) /\ IsNameList(cand.vlans, VlanNames)
  BY DEF ResolvedInv, StoreOK, ConfigurationOK, Datastores
<1>2. /\ Resolved(cand)
      /\ config'["running"] = CommittedConfig
      /\ config'["candidate"] = cand
  BY DEF CommitAccepted, Valid, ResolvedInv, StoreOK, Datastores
<1>3. Names(l) = {p \in Names(run.ports) \cup Added(run.ports, cand.ports) :
                     HoldsOneOf(cand.ports, Matches[p])}
  BY <1>1, CommittedPortsOK
<1>4. Names(l) \subseteq Names(cand.ports)
  BY <1>3 DEF Added, ResolvedInv, NoPortOnlyInRunning
<1>5. Names(cand.ports) \subseteq PortNames /\ Names(run.ports) \subseteq PortNames
  BY <1>1 DEF PortListOK, IsNameList
<1>6. ASSUME NEW p \in Names(l)
      PROVE  /\ SourceOf(run.ports, cand.ports, p) \in Names(cand.ports)
             /\ CommittedPort[p] = cand.port[SourceOf(run.ports, cand.ports, p)]
  <2>1. p \in PortNames /\ p \in Names(cand.ports)
    BY <1>4, <1>5
  <2>2. p \notin Added(run.ports, cand.ports) => p \in CopiedTo(run.ports, cand.ports, p)
    <3>1. SUFFICES ASSUME p \notin Added(run.ports, cand.ports)
                   PROVE  p \in CopiedTo(run.ports, cand.ports, p)
      OBVIOUS
    <3>2. p \in Names(run.ports)
      BY <1>3, <3>1
    <3>3. HoldsOneOf(run.ports, Matches[p]) /\ FirstOf(run.ports, Matches[p]) = p
      BY <1>1, <2>1, <3>2, DataAssumption DEF HoldsOneOf, PortListOK, Addressable
    <3> QED
      BY <2>1, <3>3 DEF CopiedTo
  <2>3. SourceOf(run.ports, cand.ports, p) # NoValue
    <3>1. CASE p \in Added(run.ports, cand.ports)
      BY <2>1, <3>1, SentinelAssumption DEF SourceOf
    <3>2. CASE p \notin Added(run.ports, cand.ports)
      <4>1. HoldsOneOf(cand.ports, CopiedTo(run.ports, cand.ports, p))
        BY <2>1, <2>2, <3>2 DEF HoldsOneOf
      <4>2. LastOf(cand.ports, CopiedTo(run.ports, cand.ports, p)) \in Names(cand.ports)
        BY <1>1, <4>1, LastOfProperties DEF PortListOK
      <4>3. SourceOf(run.ports, cand.ports, p) = LastOf(cand.ports, CopiedTo(run.ports, cand.ports, p))
        BY <2>2, <3>2 DEF SourceOf
      <4> QED
        BY <1>5, <4>2, <4>3, SentinelAssumption
    <3> QED
      BY <3>1, <3>2
  <2>4. SourceOf(run.ports, cand.ports, p) \in Names(cand.ports)
    BY <1>1, <2>1, <2>3, SourceOfMember DEF PortListOK
  <2> QED
    BY <2>1, <2>3, <2>4 DEF CommittedPort, CommitValues
<1>7. VlanNumbers(CommittedConfig) = VlanNumbers(cand)
  <2>1. Names(CommittedVlans(run.vlans, cand.vlans)) = Names(cand.vlans)
    BY <1>1, CommittedVlansOK
  <2> QED
    BY <2>1 DEF VlanNumbers, CommittedConfig
<1>8. Resolved(CommittedConfig)
  <2>1. /\ CommittedConfig.ports = l
        /\ CommittedConfig.port = CommittedPort
    BY DEF CommittedConfig
  <2> HIDE DEF l
  <2>2. ASSUME NEW p \in Names(l)
        PROVE  VlansOf(CommittedPort[p]) \subseteq VlanNumbers(CommittedConfig)
    BY <1>2, <1>6, <1>7 DEF Resolved
  <2> QED
    BY <2>1, <2>2 DEF Resolved
<1>9. RunningResolved'
  BY <1>2, <1>8 DEF RunningResolved
<1>10. NoPortOnlyInRunning'
  BY <1>2, <1>4 DEF NoPortOnlyInRunning, CommittedConfig
<1> QED
  BY <1>9, <1>10 DEF ResolvedInv

LEMMA ResolvedInvStep ==
    ASSUME EditTargets = {"candidate"}, ResolvedInv, [Next]_vars
    PROVE  ResolvedInv'
<1>0. StoreOK /\ StoreOK'
  BY StoreOKStep DEF ResolvedInv
<1>1. ASSUME config' = config PROVE ResolvedInv'
  BY <1>0, <1>1, ResolvedInvRead
<1>2. ASSUME NEW d \in Datastores, GetConfig(d) PROVE ResolvedInv'
  <2>1. config' = [config EXCEPT ![d] = AsRead(d)]
    BY <1>2 DEF GetConfig
  <2>2. \A e \in Datastores : config'[e] = config[e] \/ config'[e] = AsRead(e)
    BY <1>0, <2>1 DEF StoreOK
  <2> QED
    BY <1>0, <2>2, ResolvedInvRead
<1>3. ASSUME config' = BothAsRead PROVE ResolvedInv'
  <2>1. \A e \in Datastores : config'[e] = config[e] \/ config'[e] = AsRead(e)
    BY <1>3 DEF BothAsRead
  <2> QED
    BY <1>0, <2>1, ResolvedInvRead
<1>4. CASE DiscardChanges
  <2>1. config' = [config EXCEPT !["candidate"] = config["running"]]
    BY <1>4 DEF DiscardChanges
  <2>2. config'["candidate"] = config["running"] /\ config'["running"] = config["running"]
    BY <1>0, <2>1 DEF StoreOK, Datastores
  <2> QED
    BY <1>0, <2>2 DEF ResolvedInv, NoPortOnlyInRunning, RunningResolved
<1>5. ASSUME NEW r \in Requests, EditConfig("candidate", r)
      PROVE  ResolvedInv'
  <2>1. "candidate" \in Datastores /\ "running" \in Datastores
    BY DEF Datastores
  <2>2. WorkOK(Edited("candidate", r), Names(config["candidate"].ports))
    BY <1>0, <2>1, StoreOKIsTypeOK, EditedOK
  <2>3. config' = [config EXCEPT !["candidate"] = Edited("candidate", r).c]
    BY <1>5 DEF EditConfig
  <2>4. config'["running"] = config["running"] /\ config'["candidate"] = Edited("candidate", r).c
    BY <1>0, <2>1, <2>3 DEF StoreOK
  <2> QED
    BY <1>0, <2>2, <2>4, ResolvedInvQuiet DEF WorkOK
<1>6. CASE CommitAccepted
  BY <1>0, <1>6, ResolvedInvCommit
<1>7. LockTargets \subseteq Datastores
  BY DataAssumption
<1> QED
  BY <1>1, <1>2, <1>3, <1>4, <1>5, <1>6, <1>7
     DEF Next, vars, CompareConfiguration, LockGranted, LockRefused, Unlock, CommitRefused, Disconnect

\* As long as clients edit the candidate alone, running never refers to a
\* vlan it does not have.
THEOREM RunningStaysResolved == EditTargets = {"candidate"} => (Spec => []RunningResolved)
<1> SUFFICES ASSUME EditTargets = {"candidate"} PROVE Spec => []RunningResolved
  OBVIOUS
<1>1. ResolvedInv /\ [Next]_vars => ResolvedInv'
  BY ResolvedInvStep
<1>2. ResolvedInv => RunningResolved
  BY DEF ResolvedInv
<1> QED
  BY <1>1, <1>2, ResolvedInvInit, PTL DEF Spec

-----------------------------------------------------------------------------
(***************************************************************************)
(* Access or trunk.  Deleting the mode element of a trunk makes a port     *)
(* that has trunk members and, once it is given one more, an access vlan   *)
(* too; without such requests no edit, commit or read makes one.           *)
(***************************************************************************)
ModesKept == \A r \in Requests : r.interface # NoValue => r.interface.mode # "delete"

Exclusive(r) == IF r.mode = "trunk" THEN r.access = NoValue ELSE r.trunk = <<>>

AllExclusive(c) == \A p \in PortNames : Exclusive(c.port[p])

\* A port is written as an exclusive one.
LEMMA SetPortExclusive ==
    ASSUME NEW base, NEW w, WorkOK(w, base), AllExclusive(w.c), NEW p \in PortNames,
           NEW r \in Port, Exclusive(r)
    PROVE  AllExclusive(SetPort(w, p, r).c)
<1>1. w.c \in Configuration /\ w \in Work
  BY DEF WorkOK, Work
<1>2. SetPort(w, p, r).c.port = [w.c.port EXCEPT ![p] = r]
  BY <1>1 DEF SetPort, Work, Configuration
<1>3. w.c.port \in [PortNames -> Port]
  BY <1>1 DEF Configuration
<1> QED
  BY <1>2, <1>3 DEF AllExclusive

\* Members go to the list of a trunk, or to the access vlan of any other port.
LEMMA ParseVlanMembersExclusive ==
    ASSUME NEW base, NEW w, WorkOK(w, base), AllExclusive(w.c), NEW p \in PortNames,
           NEW node \in InterfaceNode
    PROVE  AllExclusive(ParseVlanMembers(w, p, node).c)
<1> DEFINE r == w.c.port[p]
           ids == node.ids
<1>1. /\ r \in Port /\ Exclusive(r)
      /\ ids \in Seq(VlanIds) /\ node.vlan \in {"absent", "delete", "add", "remove"}
  BY PortOfWork DEF InterfaceNode, AllExclusive
<1>2. r.trunk \in Seq(VlanIds) /\ w \in Work /\ Fail(w, "crash").c = w.c
  BY <1>1 DEF Port, Fail, WorkOK, Work
<1>3. AllExclusive(RemoveMember(w, p, ids).c)
  <2>1. CASE InAccessMode(r)
    <3>1. [r EXCEPT !.access = NoValue] \in Port /\ Exclusive([r EXCEPT !.access = NoValue])
      BY <1>1, <2>1 DEF Port, Exclusive, InAccessMode
    <3> QED
      BY <2>1, <3>1, SetPortExclusive DEF RemoveMember
  <2>2. CASE ~InAccessMode(r) /\ Len(ids) = 1 /\ ids[1] \in ToSet(r.trunk)
    <3> DEFINE x == [r EXCEPT !.trunk = RemoveFirst(@, ids[1])]
    <3>1. RemoveFirst(r.trunk, ids[1]) \in Seq(VlanIds)
      BY <1>2, <2>2, RemoveFirstType
    <3>2. x \in Port /\ Exclusive(x)
      BY <1>1, <2>2, <3>1 DEF Port, Exclusive, InAccessMode
    <3>3. AllExclusive(SetPort(w, p, x).c)
      BY <3>2, SetPortExclusive
    <3> QED
      BY <2>2, <3>3 DEF RemoveMember
  <2>3. CASE ~InAccessMode(r) /\ ~(Len(ids) = 1 /\ ids[1] \in ToSet(r.trunk))
    BY <1>2, <2>3 DEF RemoveMember
  <2> QED
    BY <2>1, <2>2, <2>3
<1>4. AllExclusive(AddMembers(w, p, ids).c)
  <2>1. CASE ~InAccessMode(r)
    <3> DEFINE x == [r EXCEPT !.trunk = @ \o ids]
    <3>1. r.trunk \o ids \in Seq(VlanIds)
      BY <1>1, <1>2, ConcatProperties
    <3>2. x \in Port /\ Exclusive(x)
      BY <1>1, <2>1, <3>1 DEF Port, Exclusive, InAccessMode
    <3>3. AllExclusive(SetPort(w, p, x).c)
      BY <3>2, SetPortExclusive
    <3> QED
      BY <2>1, <3>3 DEF AddMembers
  <2>2. CASE InAccessMode(r) /\ ids # <<>>
    <3> DEFINE x == [r EXCEPT !.access = ids[1]]
    <3>1. ids[1] \in VlanIds
      BY <1>1, <2>2, LenProperties, ElementOfSeq, EmptySeq
    <3>2. x \in Port /\ Exclusive(x)
      BY <1>1, <2>2, <3>1 DEF Port, Exclusive, InAccessMode
    <3>3. AllExclusive(SetPort(w, p, x).c)
      BY <3>2, SetPortExclusive
    <3> QED
      BY <2>2, <3>3 DEF AddMembers
  <2>3. CASE InAccessMode(r) /\ ids = <<>>
    BY <1>2, <2>3 DEF AddMembers
  <2> QED
    BY <2>1, <2>2, <2>3
<1>5. AllExclusive(SetPort(w, p, [r EXCEPT !.access = NoValue, !.trunk = <<>>]).c)
  <2>1. /\ [r EXCEPT !.access = NoValue, !.trunk = <<>>] \in Port
        /\ Exclusive([r EXCEPT !.access = NoValue, !.trunk = <<>>])
    BY <1>1, NoTrunk DEF Port, Exclusive
  <2> QED
    BY <2>1, SetPortExclusive
<1> QED
  BY <1>1, <1>3, <1>4, <1>5 DEF ParseVlanMembers

\* The native vlan is in neither list.
LEMMA ApplyNativeExclusive ==
    ASSUME NEW base, NEW w, WorkOK(w, base), AllExclusive(w.c), NEW p \in PortNames,
           NEW node \in InterfaceNode
    PROVE  AllExclusive(ApplyNative(w, p, node).c)
<1> DEFINE r == w.c.port[p]
           x == [r EXCEPT !.native = IF node.native = "delete" THEN NoValue ELSE node.native]
<1>1. r \in Port /\ Exclusive(r) /\ node.native \in VlanIds \cup {"absent", "delete"}
  BY PortOfWork DEF InterfaceNode, AllExclusive
<1>2. CASE w.error # "none" \/ node.native = "absent"
  BY <1>2 DEF ApplyNative
<1>3. CASE ~(w.error # "none" \/ node.native = "absent")
  <2>1. x \in Port /\ Exclusive(x)
    BY <1>1, <1>3 DEF Port, Exclusive
  <2>2. AllExclusive(SetPort(w, p, x).c)
    BY <2>1, SetPortExclusive
  <2> QED
    BY <1>3, <2>2 DEF ApplyNative
<1> QED
  BY <1>2, <1>3

\* A mode that is given takes the data of the other one away.
LEMMA ApplySwitchingExclusive ==
    ASSUME NEW base, NEW w, WorkOK(w, base), AllExclusive(w.c), NEW p \in PortNames,
           NEW node \in InterfaceNode, node.mode # "delete"
    PROVE  AllExclusive(ApplySwitching(w, p, node).c)
<1> DEFINE r == w.c.port[p]
           on == [w EXCEPT !.v[p].es = TRUE]
           mode == IF node.mode = "absent" THEN r.mode ELSE node.mode
           x == EnterMode(r, mode)
<1>1. /\ r \in Port /\ Exclusive(r) /\ w.v[p] \in Vendor
      /\ node.mode \in {"absent", "access", "trunk"}
  BY PortOfWork DEF InterfaceNode, AllExclusive
<1>2. WorkOK(on, base) /\ on.c = w.c
  <2>1. [w.v[p] EXCEPT !.es = TRUE] \in Vendor
    BY <1>1 DEF Vendor
  <2>2. on = [w EXCEPT !.v[p] = [w.v[p] EXCEPT !.es = TRUE]]
    OBVIOUS
  <2> QED
    BY <2>1, <2>2, SetVendorOK
<1>3. x \in Port /\ Exclusive(x)
  <2>1. mode \in {"access", "trunk", NoValue}
    BY <1>1 DEF Port
  <2>2. mode = r.mode \/ mode \in {"access", "trunk"}
    BY <1>1
  <2> HIDE DEF mode
  <2>3. x \in Port
    BY <1>1, <2>1, NoTrunk DEF EnterMode, Port
  <2>4. x.mode = mode
    BY <1>1 DEF EnterMode, Port
  <2>5. CASE mode = "access"
    <3>1. x.trunk = <<>>
      BY <1>1, <2>5 DEF EnterMode, Port
    <3> QED
      BY <2>3, <2>4, <2>5, <3>1 DEF Exclusive
  <2>6. CASE mode = "trunk"
    <3>1. x.access = NoValue
      BY <1>1, <2>6 DEF EnterMode, Port
    <3> QED
      BY <2>3, <2>4, <2>6, <3>1 DEF Exclusive
  <2>7. CASE mode \notin {"access", "trunk"}
    <3>1. x.trunk = r.trunk /\ r.trunk = <<>>
      BY <1>1, <2>2, <2>7 DEF EnterMode, Port, Exclusive
    <3> QED
      BY <2>3, <2>4, <2>7, <3>1 DEF Exclusive
  <2> QED
    BY <2>5, <2>6, <2>7
<1> HIDE DEF x
<1>4. WorkOK(SetPort(on, p, x), base) /\ AllExclusive(SetPort(on, p, x).c)
  BY <1>2, <1>3, SetPortOK, SetPortExclusive
<1>5. AllExclusive(ParseVlanMembers(SetPort(on, p, x), p, node).c)
  BY <1>4, ParseVlanMembersExclusive
<1>6. ApplySwitching(w, p, node) = ParseVlanMembers(SetPort(on, p, x), p, node)
  BY <1>1 DEF ApplySwitching, x
<1> QED
  BY <1>5, <1>6

LEMMA ApplyUnitExclusive ==
    ASSUME NEW base, NEW w, WorkOK(w, base), AllExclusive(w.c), NEW p \in PortNames,
           NEW node \in InterfaceNode, node.mode # "delete"
    PROVE  AllExclusive(ApplyUnit(w, p, node).c)
<1> DEFINE off == [w EXCEPT !.v[p].es = FALSE]
           r == w.c.port[p]
           bare == [r EXCEPT !.mode = NoValue, !.native = NoValue,
                             !.access = NoValue, !.trunk = <<>>]
<1>1. r \in Port /\ w.v[p] \in Vendor /\ node.unit \in {"absent", "delete", "switching"}
  BY PortOfWork DEF InterfaceNode
<1>2. WorkOK(off, base) /\ off.c = w.c
  <2>1. [w.v[p] EXCEPT !.es = FALSE] \in Vendor
    BY <1>1 DEF Vendor
  <2>2. off = [w EXCEPT !.v[p] = [w.v[p] EXCEPT !.es = FALSE]]
    OBVIOUS
  <2> QED
    BY <2>1, <2>2, SetVendorOK
<1>3. bare \in Port /\ Exclusive(bare)
  BY <1>1, NoTrunk, SentinelAssumption DEF Port, Exclusive
<1> HIDE DEF bare
<1>4. AllExclusive(SetPort(off, p, bare).c)
  BY <1>2, <1>3, SetPortExclusive
<1>5. AllExclusive(ApplyNative(w, p, node).c)
  BY ApplyNativeExclusive
<1>6. AllExclusive(ApplyNative(ApplySwitching(w, p, node), p, node).c)
  BY ApplySwitchingOK, ApplySwitchingExclusive, ApplyNativeExclusive
<1> QED
  BY <1>1, <1>4, <1>5, <1>6 DEF ApplyUnit, bare

LEMMA ApplyInterfaceDataExclusive ==
    ASSUME NEW base, NEW w, WorkOK(w, base), AllExclusive(w.c), NEW p \in PortNames,
           NEW node \in InterfaceNode, node.mode # "delete"
    PROVE  AllExclusive(ApplyInterfaceData(w, p, node).c)
<1>1. node.descr \in Descriptions \cup {"absent", "delete"}
  BY DEF InterfaceNode
<1>2. ASSUME NEW x \in Descriptions \cup {NoValue}
      PROVE  AllExclusive(ApplyUnit(SetPort(w, p, [w.c.port[p] EXCEPT !.descr = x]), p, node).c)
  <2> DEFINE y == [w.c.port[p] EXCEPT !.descr = x]
  <2>1. y \in Port /\ Exclusive(y)
    BY PortOfWork DEF Port, Exclusive, AllExclusive
  <2> HIDE DEF y
  <2>2. WorkOK(SetPort(w, p, y), base) /\ AllExclusive(SetPort(w, p, y).c)
    BY <2>1, SetPortOK, SetPortExclusive
  <2>3. AllExclusive(ApplyUnit(SetPort(w, p, y), p, node).c)
    BY <2>2, ApplyUnitExclusive
  <2> QED
    BY <2>3 DEF y
<1>3. Fail(w, "netconf").c = w.c
  BY DEF Fail, WorkOK, Work
<1>4. AllExclusive(ApplyUnit(w, p, node).c)
  BY ApplyUnitExclusive
<1> QED
  BY <1>1, <1>2, <1>3, <1>4 DEF ApplyInterfaceData

LEMMA ResetInterfaceExclusive ==
    ASSUME NEW base, NEW w, WorkOK(w, base), AllExclusive(w.c), NEW p \in PortNames
    PROVE  AllExclusive(ResetInterface(w, p).c)
<1> DEFINE u == SetPort(w, p, ResetPort)
<1>1. ResetPort \in Port /\ Exclusive(ResetPort)
  BY NoTrunk, SentinelAssumption DEF ResetPort, Port, Exclusive
<1>2. WorkOK(u, base) /\ AllExclusive(u.c)
  BY <1>1, SetPortOK, SetPortExclusive
<1>3. ResetInterface(w, p).c = u.c
  BY <1>2 DEF ResetInterface, WorkOK, Work
<1> QED
  BY <1>2, <1>3

LEMMA ParseInterfaceExclusive ==
    ASSUME NEW base, NEW w, WorkOK(w, base), AllExclusive(w.c),
           NEW node \in InterfaceNode, node.mode # "delete"
    PROVE  AllExclusive(ParseInterface(w, node).c)
<1>1. node.name \in PortNames /\ node.op \in {"merge", "replace", "delete"}
  BY DEF InterfaceNode
<1>2. ASSUME NEW u, WorkOK(u, base), AllExclusive(u.c), NEW p \in PortNames
      PROVE  AllExclusive(ParseInterfaceOf(u, p, node).c)
  BY <1>1, <1>2, ApplyInterfaceDataExclusive, ResetInterfaceOK, ResetInterfaceExclusive
     DEF ParseInterfaceOf
<1>3. Fail(w, "netconf").c = w.c /\ Fail(w, "crash").c = w.c
  BY DEF Fail, WorkOK, Work
<1>4. AllExclusive(CreateAggregate(w, node.name).c)
  <2>1. CreateAggregate(w, node.name).c.port = w.c.port
    BY DEF CreateAggregate, WorkOK, Work, Configuration
  <2> QED
    BY <2>1 DEF AllExclusive
<1> QED
  BY <1>1, <1>2, <1>3, <1>4, FoundPort, CreateAggregateOK DEF ParseInterface

\* An edit that deletes no mode leaves every port of its target exclusive,
\* wherever it fails.
LEMMA EditedExclusive ==
    ASSUME ModesKept, StoreOK, NEW d \in Datastores, NEW r \in Requests,
           AllExclusive(config[d])
    PROVE  AllExclusive(Edited(d, r).c)
<1> DEFINE base == Names(config[d].ports)
           begin == Begin(d)
           vlans == AfterVlans(d, r)
           interfaces == AfterInterfaces(d, r)
           protocols == AfterProtocols(d, r)
<1>1. WorkOK(begin, base) /\ begin.c = config[d]
  BY StoreOKIsTypeOK
     DEF TypeOK, PortsAddressable, WorkOK, Work, Begin, ConfigurationOK, PortListOK
<1>2. /\ r.vlan = NoValue \/ r.vlan \in VlanNode
      /\ r.interface = NoValue \/ (r.interface \in InterfaceNode /\ r.interface.mode # "delete")
      /\ r.rstp = NoValue \/ r.rstp \in RstpNode
  BY RequestAssumption DEF ModesKept
<1>3. WorkOK(vlans, base) /\ AllExclusive(vlans.c)
  <2>1. WorkOK(vlans, base)
    BY <1>1, <1>2, ParseVlanOK DEF AfterVlans
  <2>2. r.vlan \in VlanNode => ParseVlan(begin, r.vlan).c.port = begin.c.port
    BY <1>1 DEF ParseVlan, ParseVlanNumber, RemoveVlan, SetNumber, Fail, WorkOK, Work, Configuration
  <2> HIDE DEF begin
  <2>3. vlans.c.port = begin.c.port
    BY <1>2, <2>2 DEF AfterVlans, begin
  <2> QED
    BY <1>1, <2>1, <2>3 DEF AllExclusive
<1> HIDE DEF begin, vlans
<1>4. WorkOK(interfaces, base) /\ AllExclusive(interfaces.c)
  BY <1>2, <1>3, ParseInterfaceOK, ParseInterfaceExclusive DEF AfterInterfaces, vlans
<1> HIDE DEF interfaces
<1>5. AllExclusive(protocols.c)
  <2>1. r.rstp \in RstpNode => ParseRstp(interfaces, r.rstp).c = interfaces.c
    BY <1>4 DEF ParseRstp, Fail, WorkOK, Work
  <2> QED
    BY <1>2, <1>4, <2>1 DEF AfterProtocols, interfaces
<1>6. WorkOK(protocols, base)
  BY <1>2, <1>4, ParseRstpOK DEF AfterProtocols, interfaces
<1> HIDE DEF protocols
<1>7. Fail(protocols, "netconf").c = protocols.c
  BY <1>6 DEF Fail, WorkOK, Work
<1> QED
  BY <1>5, <1>7 DEF Edited, protocols

\* Reading an exclusive port leaves it alone.
LEMMA AsReadExclusive ==
    ASSUME StoreOK, NEW d \in Datastores, AllExclusive(config[d])
    PROVE  AllExclusive(AsRead(d))
<1> DEFINE c == config[d]
           f == [p \in PortNames |-> IF p \in ReadPorts(d) THEN PortAsRead(c.port[p], vendor[d][p])
                                                           ELSE c.port[p]]
<1>1. c \in Configuration /\ AsRead(d) = [c EXCEPT !.port = f]
  BY DEF StoreOK, AsRead
<1>2. ASSUME NEW p \in PortNames PROVE f[p] = c.port[p]
  <2>1. c.port[p] \in Port /\ Exclusive(c.port[p])
    BY <1>1 DEF Configuration, AllExclusive
  <2>2. PortAsRead(c.port[p], vendor[d][p]) = c.port[p]
    BY <2>1, SentinelAssumption DEF PortAsRead, Members, Port, Exclusive
  <2> QED
    BY <2>2
<1>3. \A p \in PortNames : AsRead(d).port[p] = c.port[p]
  BY <1>1, <1>2 DEF Configuration
<1> QED
  BY <1>3 DEF AllExclusive

ExclusiveInv == StoreOK /\ \A d \in Datastores : AllExclusive(config[d])

LEMMA ExclusiveInvInit == Init => ExclusiveInv
BY StoreOKInit, SentinelAssumption DEF Init, ExclusiveInv, AllExclusive, ResetPort, Exclusive

LEMMA ExclusiveInvStep ==
    ASSUME ModesKept, ExclusiveInv, [Next]_vars
    PROVE  ExclusiveInv'
<1>0. /\ StoreOK /\ StoreOK'
      /\ \A d \in Datastores : AllExclusive(config[d])
      /\ config \in [Datastores -> Configuration]
  BY StoreOKStep DEF ExclusiveInv, StoreOK
<1>1. ASSUME \A d \in Datastores : config'[d] = config[d] \/ config'[d] = AsRead(d)
      PROVE  ExclusiveInv'
  BY <1>0, <1>1, AsReadExclusive DEF ExclusiveInv, AllExclusive
<1>2. ASSUME config' = config PROVE ExclusiveInv'
  BY <1>1, <1>2
<1>3. ASSUME NEW d \in Datastores, GetConfig(d) PROVE ExclusiveInv'
  BY <1>0, <1>1, <1>3 DEF GetConfig
<1>4. ASSUME config' = BothAsRead PROVE ExclusiveInv'
  BY <1>1, <1>4 DEF BothAsRead
<1>5. CASE DiscardChanges
  <2>1. \A d \in Datastores : config'[d] \in {config["running"], config[d]}
    BY <1>0, <1>5 DEF DiscardChanges
  <2> QED
    BY <1>0, <2>1 DEF ExclusiveInv, AllExclusive, Datastores
<1>6. ASSUME NEW d \in EditTargets, NEW r \in Requests, EditConfig(d, r)
      PROVE  ExclusiveInv'
  <2>1. d \in Datastores
    BY DataAssumption
  <2>2. AllExclusive(Edited(d, r).c)
    BY <1>0, <2>1, EditedExclusive
  <2>3. \A e \in Datastores : config'[e] = config[e] \/ config'[e] = Edited(d, r).c
    BY <1>0, <1>6 DEF EditConfig
  <2> QED
    BY <1>0, <2>2, <2>3 DEF ExclusiveInv, AllExclusive
<1>7. CASE CommitAccepted
  <2> DEFINE T == {r \in Port : Exclusive(r)}
  <2>1. ResetPort \in T
    BY NoTrunk, SentinelAssumption DEF ResetPort, Port, Exclusive
  <2>2. \A d \in Datastores : config[d].port \in [PortNames -> T]
    BY <1>0 DEF Configuration, AllExclusive
  <2>3. CommittedPort \in [PortNames -> T]
    <3>1. config["running"].port \in [PortNames -> T] /\ config["candidate"].port \in [PortNames -> T]
      BY <2>2 DEF Datastores
    <3> HIDE DEF T
    <3> QED
      BY <1>0, <2>1, <3>1, StoreOKIsTypeOK, CommitValuesType DEF CommittedPort
  <2>4. AllExclusive(CommittedConfig)
    BY <2>3 DEF CommittedConfig, AllExclusive
  <2>5. \A d \in Datastores : config'[d] = config[d] \/ config'[d] = CommittedConfig
    BY <1>0, <1>7 DEF CommitAccepted
  <2> QED
    BY <1>0, <2>4, <2>5 DEF ExclusiveInv, AllExclusive
<1>8. LockTargets \subseteq Datastores
  BY DataAssumption
<1> QED
  BY <1>2, <1>3, <1>4, <1>5, <1>6, <1>7, <1>8
     DEF Next, vars, CompareConfiguration, LockGranted, LockRefused, Unlock, CommitRefused, Disconnect

\* As long as no request deletes the mode element of an interface, no port of
\* either datastore is ever an access port and a trunk at once.
THEOREM SwitchportsStayExclusive == ModesKept => (Spec => []SwitchportExclusive)
<1> SUFFICES ASSUME ModesKept PROVE Spec => []SwitchportExclusive
  OBVIOUS
<1>1. ExclusiveInv /\ [Next]_vars => ExclusiveInv'
  BY ExclusiveInvStep
<1>2. ExclusiveInv => SwitchportExclusive
  BY DEF ExclusiveInv, AllExclusive, Exclusive, SwitchportExclusive
<1> QED
  BY <1>1, <1>2, ExclusiveInvInit, PTL DEF Spec
-----------------------------------------------------------------------------
(***************************************************************************)
(* What a commit publishes.  The code pairs ports by partial name and      *)
(* copies them one over another; running reads like the candidate because  *)
(* the candidate, which is never shortened, only ever gets ports that no   *)
(* lookup of a running one accepts.                                        *)
(***************************************************************************)
\* k begins like l: l is k with more names at its end.
Extends(k, l) ==
    /\ Names(k) \subseteq Names(l)
    /\ k = KeepNames(l, Names(k))
    /\ Names(k) \X (Names(l) \ Names(k)) \subseteq l

\* A port that is not listed has no data.
OnlyListed(c, v) ==
    \A p \in PortNames \ Names(c.ports) : c.port[p] = ResetPort /\ v[p] = FreshVendor

\* The fields of a work record.
Shaped(w) ==
    /\ w = [c |-> w.c, v |-> w.v, reset |-> w.reset, error |-> w.error]
    /\ w.c = [vlans |-> w.c.vlans, number |-> w.c.number, ports |-> w.c.ports, port |-> w.c.port]
    /\ w.c.port = [q \in PortNames |-> w.c.port[q]]
    /\ w.v = [q \in PortNames |-> w.v[q]]

\* u is what w becomes when nothing but the data of port p is written.
Touches(w, u, p) ==
    /\ Shaped(u)
    /\ u.c.ports = w.c.ports
    /\ \A q \in PortNames \ {p} : u.c.port[q] = w.c.port[q] /\ u.v[q] = w.v[q]

LEMMA TouchesAgain ==
    ASSUME NEW w, NEW u, NEW x, NEW p, Touches(w, u, p), Touches(u, x, p)
    PROVE  Touches(w, x, p)
BY DEF Touches

LEMMA TouchesShapes ==
    ASSUME NEW w, NEW u, NEW p, Touches(w, u, p)
    PROVE  Shaped(u)
BY DEF Touches

LEMMA FailTouches ==
    ASSUME NEW w, Shaped(w), NEW p, NEW e
    PROVE  Touches(w, Fail(w, e), p)
<1>1. Fail(w, e) = [c |-> w.c, v |-> w.v, reset |-> w.reset, error |-> e]
  BY DEF Fail, Shaped
<1>. QED
  BY <1>1 DEF Touches, Shaped

LEMMA SetPortTouches ==
    ASSUME NEW w, Shaped(w), NEW p \in PortNames, NEW r
    PROVE  Touches(w, SetPort(w, p, r), p)
<1>. DEFINE port == [w.c.port EXCEPT ![p] = r]
            c == [vlans |-> w.c.vlans, number |-> w.c.number, ports |-> w.c.ports, port |-> port]
<1>1. SetPort(w, p, r) = [c |-> c, v |-> w.v, reset |-> w.reset, error |-> w.error]
  BY DEF SetPort, Shaped
<1>2. port = [q \in PortNames |-> port[q]] /\ \A q \in PortNames \ {p} : port[q] = w.c.port[q]
  BY DEF Shaped
<1>. HIDE DEF port
<1>. QED
  BY <1>1, <1>2 DEF Touches, Shaped

\* Writing the vendor dict.
LEMMA SetVendorTouches ==
    ASSUME NEW w, Shaped(w), NEW p \in PortNames, NEW x
    PROVE  Touches(w, [w EXCEPT !.v[p] = x], p)
<1>. DEFINE v == [w.v EXCEPT ![p] = x]
<1>1. [w EXCEPT !.v[p] = x] = [c |-> w.c, v |-> v, reset |-> w.reset, error |-> w.error]
  <2>1. [w EXCEPT !.v[p] = x] = [w EXCEPT !.v = v]
    OBVIOUS
  <2>. HIDE DEF v
  <2>. QED
    BY <2>1 DEF Shaped
<1>2. v = [q \in PortNames |-> v[q]] /\ \A q \in PortNames \ {p} : v[q] = w.v[q]
  BY DEF Shaped
<1>. HIDE DEF v
<1>. QED
  BY <1>1, <1>2 DEF Touches, Shaped

LEMMA ParseVlanMembersTouches ==
    ASSUME NEW w, Shaped(w), NEW p \in PortNames, NEW node \in InterfaceNode
    PROVE  Touches(w, ParseVlanMembers(w, p, node), p)
<1>1. \A r : Touches(w, SetPort(w, p, r), p)
  BY SetPortTouches
<1>2. Touches(w, Fail(w, "crash"), p) /\ Touches(w, w, p)
  <2>1. Touches(w, w, p)
    BY DEF Touches
  <2>. QED
    BY <2>1, FailTouches
<1>3. Touches(w, RemoveMember(w, p, node.ids), p)
  BY <1>1, <1>2 DEF RemoveMember
<1>4. Touches(w, AddMembers(w, p, node.ids), p)
  BY <1>1, <1>2 DEF AddMembers
<1>5. node.vlan \in {"absent", "delete", "add", "remove"}
  BY DEF InterfaceNode
<1>. QED
  BY <1>1, <1>2, <1>3, <1>4, <1>5 DEF ParseVlanMembers

LEMMA ApplyNativeTouches ==
    ASSUME NEW w, Shaped(w), NEW p \in PortNames, NEW node
    PROVE  Touches(w, ApplyNative(w, p, node), p)
<1>1. \A r : Touches(w, SetPort(w, p, r), p)
  BY SetPortTouches
<1>2. Touches(w, w, p)
  BY DEF Touches
<1>. QED
  BY <1>1, <1>2 DEF ApplyNative

LEMMA ApplySwitchingTouches ==
    ASSUME NEW w, Shaped(w), NEW p \in PortNames, NEW node \in InterfaceNode
    PROVE  Touches(w, ApplySwitching(w, p, node), p)
<1>. DEFINE on == [w EXCEPT !.v[p].es = TRUE]
<1>1. Touches(w, on, p)
  <2>1. on = [w EXCEPT !.v[p] = [w.v[p] EXCEPT !.es = TRUE]]
    OBVIOUS
  <2>. QED
    BY <2>1, SetVendorTouches
<1>. HIDE DEF on
<1>0. Shaped(on)
  BY <1>1 DEF Touches
<1>2. Touches(w, Fail(on, "netconf"), p)
  BY <1>0, <1>1, FailTouches, TouchesAgain
<1>3. ASSUME NEW r
      PROVE  Touches(w, ParseVlanMembers(SetPort(on, p, r), p, node), p)
  <2>1. Touches(w, SetPort(on, p, r), p) /\ Shaped(SetPort(on, p, r))
    BY <1>0, <1>1, SetPortTouches, TouchesAgain, TouchesShapes
  <2>. QED
    BY <2>1, ParseVlanMembersTouches, TouchesAgain
<1>. QED
  BY <1>2, <1>3 DEF ApplySwitching, on

LEMMA ApplyUnitTouches ==
    ASSUME NEW w, Shaped(w), NEW p \in PortNames, NEW node \in InterfaceNode
    PROVE  Touches(w, ApplyUnit(w, p, node), p)
<1>. DEFINE off == [w EXCEPT !.v[p].es = FALSE]
<1>1. Touches(w, off, p)
  <2>1. off = [w EXCEPT !.v[p] = [w.v[p] EXCEPT !.es = FALSE]]
    OBVIOUS
  <2>. QED
    BY <2>1, SetVendorTouches
<1>. HIDE DEF off
<1>0. Shaped(off)
  BY <1>1 DEF Touches
<1>2. \A r : Touches(w, SetPort(off, p, r), p)
  BY <1>0, <1>1, SetPortTouches, TouchesAgain
<1>3. Touches(w, ApplyNative(w, p, node), p)
  BY ApplyNativeTouches
<1>6. Touches(w, w, p)
  BY DEF Touches
<1>4. Touches(w, ApplyNative(ApplySwitching(w, p, node), p, node), p)
  BY ApplySwitchingTouches, ApplyNativeTouches, TouchesAgain, TouchesShapes
<1>5. node.unit \in {"absent", "delete", "switching"}
  BY DEF InterfaceNode
<1>. QED
  BY <1>2, <1>3, <1>4, <1>5, <1>6 DEF ApplyUnit, off

LEMMA ApplyInterfaceDataTouches ==
    ASSUME NEW w, Shaped(w), NEW p \in PortNames, NEW node \in InterfaceNode
    PROVE  Touches(w, ApplyInterfaceData(w, p, node), p)
<1>1. ASSUME NEW r PROVE Touches(w, ApplyUnit(SetPort(w, p, r), p, node), p)
  <2>1. Touches(w, SetPort(w, p, r), p) /\ Shaped(SetPort(w, p, r))
    BY SetPortTouches, TouchesShapes
  <2>. QED
    BY <2>1, ApplyUnitTouches, TouchesAgain
<1>2. Touches(w, Fail(w, "netconf"), p) /\ Touches(w, ApplyUnit(w, p, node), p)
  BY FailTouches, ApplyUnitTouches
<1>. QED
  BY <1>1, <1>2 DEF ApplyInterfaceData

LEMMA ParseInterfaceOfTouches ==
    ASSUME NEW w, Shaped(w), NEW p \in PortNames, NEW node \in InterfaceNode
    PROVE  Touches(w, ParseInterfaceOf(w, p, node), p)
<1>. DEFINE u == SetPort(w, p, ResetPort)
<1>1. Touches(w, u, p) /\ Shaped(u)
  BY SetPortTouches, TouchesShapes
<1>. HIDE DEF u
<1>. DEFINE x == [es |-> FALSE, edge |-> IF w.v[p].edge = "on" THEN "on" ELSE "off"]
            y == [u EXCEPT !.v[p] = x]
<1>2. Touches(w, ResetInterface(w, p), p) /\ Shaped(ResetInterface(w, p))
  <2>1. Touches(w, y, p) /\ Shaped(y)
    BY <1>1, SetVendorTouches, TouchesAgain, TouchesShapes
  <2>2. ResetInterface(w, p) = [y EXCEPT !.reset = y.reset \cup {p}]
    BY <1>1 DEF ResetInterface, u, Shaped
  <2>. HIDE DEF y
  <2>3. ResetInterface(w, p) = [c |-> y.c, v |-> y.v, reset |-> y.reset \cup {p}, error |-> y.error]
    BY <2>1, <2>2 DEF Shaped
  <2>. QED
    BY <2>1, <2>3 DEF Touches, Shaped
<1>3. node.op \in {"merge", "replace", "delete"}
  BY DEF InterfaceNode
<1>4. Touches(w, ApplyInterfaceData(w, p, node), p)
  BY ApplyInterfaceDataTouches
<1>5. Touches(w, ApplyInterfaceData(ResetInterface(w, p), p, node), p)
  BY <1>2, ApplyInterfaceDataTouches, TouchesAgain
<1>. QED
  BY <1>2, <1>3, <1>4, <1>5 DEF ParseInterfaceOf

\* What an edit of the candidate keeps, for a running list run.
EditKeeps(w, run) ==
    /\ Shaped(w)
    /\ Extends(run, w.c.ports)
    /\ OnlyListed(w.c, w.v)

LEMMA TouchesKeeps ==
    ASSUME NEW run, NEW w, EditKeeps(w, run), NEW u, NEW p \in Names(w.c.ports), Touches(w, u, p)
    PROVE  EditKeeps(u, run)
BY DEF EditKeeps, Touches, OnlyListed

LEMMA WorkShaped ==
    ASSUME NEW base, NEW w, WorkOK(w, base)
    PROVE  Shaped(w)
<1>1. /\ w \in Work
      /\ w.c \in Configuration
  BY DEF WorkOK, Work
<1>2. /\ w.c.port \in [PortNames -> Port]
      /\ w.v \in [PortNames -> Vendor]
  BY <1>1 DEF Work, Configuration
<1>. QED
  BY <1>1, <1>2 DEF Shaped, Work, Configuration

\* A list extends itself, and what it extends when it gets one more name.
LEMMA ExtendsItself ==
    ASSUME NEW U, NEW l, IsNameList(l, U)
    PROVE  Extends(l, l)
BY DEF Extends, KeepNames, IsNameList

LEMMA AddNameExtends ==
    ASSUME NEW U, NEW k, NEW l, IsNameList(l, U), Extends(k, l), NEW n \in U, n \notin Names(l)
    PROVE  Extends(k, AddName(l, n))
<1>1. Names(AddName(l, n)) = Names(l) \cup {n}
  BY AddNameProperties
<1>2. KeepNames(AddName(l, n), Names(k)) = KeepNames(l, Names(k))
  BY DEF KeepNames, AddName, Extends
<1>3. Names(k) \X {n} \subseteq AddName(l, n)
  BY DEF AddName, Extends
<1>4. Names(k) \X (Names(l) \ Names(k)) \subseteq AddName(l, n)
  BY DEF AddName, Extends
<1>. QED
  BY <1>1, <1>2, <1>3, <1>4 DEF Extends

LEMMA ParseInterfaceKeeps ==
    ASSUME NEW base, NEW run, NEW w, WorkOK(w, base), EditKeeps(w, run), NEW node \in InterfaceNode
    PROVE  EditKeeps(ParseInterface(w, node), run)
<1>. DEFINE n == node.name
            p == FirstOf(w.c.ports, Matches[n])
            w2 == CreateAggregate(w, n)
<1>1. n \in PortNames /\ Shaped(w) /\ IsNameList(w.c.ports, PortNames)
  BY DEF InterfaceNode, EditKeeps, WorkOK, ConfigurationOK, PortListOK
<1>2. \A e : EditKeeps(Fail(w, e), run)
  <2>1. ASSUME NEW e PROVE Fail(w, e).c = w.c /\ Fail(w, e).v = w.v /\ Shaped(Fail(w, e))
    <3>1. Fail(w, e) = [c |-> w.c, v |-> w.v, reset |-> w.reset, error |-> e]
      BY <1>1 DEF Fail, Shaped
    <3>. QED
      BY <1>1, <3>1 DEF Shaped
  <2>. QED
    BY <2>1 DEF EditKeeps
<1>3. ASSUME HoldsOneOf(w.c.ports, Matches[n])
      PROVE  EditKeeps(ParseInterfaceOf(w, p, node), run)
  <2>1. p \in Names(w.c.ports) /\ p \in PortNames
    <3>1. p \in Names(w.c.ports)
      BY <1>1, <1>3, FirstOfProperties
    <3>. QED
      BY <1>1, <3>1 DEF IsNameList
  <2>. HIDE DEF p
  <2>2. Touches(w, ParseInterfaceOf(w, p, node), p)
    BY <1>1, <2>1, ParseInterfaceOfTouches
  <2>. QED
    BY <2>1, <2>2, TouchesKeeps
<1>4. ASSUME ~HoldsOneOf(w.c.ports, Matches[n])
      PROVE  EditKeeps(ParseInterfaceOf(w2, n, node), run)
  <2>1. n \notin Names(w.c.ports)
    BY <1>1, <1>4, DataAssumption DEF HoldsOneOf
  <2>. DEFINE l == AddName(w.c.ports, n)
              v == [w.v EXCEPT ![n] = [w.v[n] EXCEPT !.es = TRUE]]
              c == [vlans |-> w.c.vlans, number |-> w.c.number, ports |-> l, port |-> w.c.port]
  <2>2. Extends(run, l) /\ Names(l) = Names(w.c.ports) \cup {n}
    BY <1>1, <2>1, AddNameExtends, AddNameProperties DEF EditKeeps
  <2>3. w2 = [c |-> c, v |-> v, reset |-> w.reset, error |-> w.error]
    <3>1. w2 = [w EXCEPT !.c = [w.c EXCEPT !.ports = l], !.v = v]
      BY DEF CreateAggregate
    <3>2. [w.c EXCEPT !.ports = l] = c
      BY <1>1 DEF Shaped
    <3>. HIDE DEF l, v, c
    <3>. QED
      BY <1>1, <3>1, <3>2 DEF Shaped
  <2>4. v = [q \in PortNames |-> v[q]] /\ \A q \in PortNames \ {n} : v[q] = w.v[q]
    BY <1>1 DEF Shaped
  <2>. HIDE DEF l, v, w2
  <2>5. /\ Shaped(w2) /\ w2.v = v
        /\ w2.c.ports = l /\ w2.c.port = w.c.port
    BY <1>1, <2>3, <2>4 DEF Shaped
  <2>6. OnlyListed(w2.c, w2.v)
    BY <2>2, <2>4, <2>5 DEF OnlyListed, EditKeeps
  <2>7. EditKeeps(w2, run) /\ n \in Names(w2.c.ports)
    BY <2>2, <2>5, <2>6 DEF EditKeeps
  <2>8. Touches(w2, ParseInterfaceOf(w2, n, node), n)
    BY <1>1, <2>5, ParseInterfaceOfTouches
  <2>. QED
    BY <2>7, <2>8, TouchesKeeps
<1>. QED
  BY <1>2, <1>3, <1>4 DEF ParseInterface

LEMMA ParseRstpKeeps ==
    ASSUME NEW base, NEW run, NEW w, WorkOK(w, base), EditKeeps(w, run), NEW node \in RstpNode
    PROVE  EditKeeps(ParseRstp(w, node), run)
<1>. DEFINE p == FirstOf(w.c.ports, Matches[node.name])
            e == IF node.edge = "merge" THEN "on" ELSE "absent"
<1>1. Shaped(w) /\ IsNameList(w.c.ports, PortNames) /\ node.name \in PortNames
  BY DEF EditKeeps, WorkOK, ConfigurationOK, PortListOK, RstpNode
<1>2. EditKeeps(Fail(w, "crash"), run)
  <2>1. Fail(w, "crash") = [c |-> w.c, v |-> w.v, reset |-> w.reset, error |-> "crash"]
    BY <1>1 DEF Fail, Shaped
  <2>. QED
    BY <1>1, <2>1 DEF EditKeeps, Shaped
<1>3. ASSUME HoldsOneOf(w.c.ports, Matches[node.name])
      PROVE  EditKeeps([w EXCEPT !.v[p].edge = e], run)
  <2>1. p \in Names(w.c.ports) /\ p \in PortNames
    <3>1. p \in Names(w.c.ports)
      BY <1>1, <1>3, FirstOfProperties
    <3>. QED
      BY <1>1, <3>1 DEF IsNameList
  <2>. HIDE DEF p
  <2>2. [w EXCEPT !.v[p].edge = e] = [w EXCEPT !.v[p] = [w.v[p] EXCEPT !.edge = e]]
    OBVIOUS
  <2>3. Touches(w, [w EXCEPT !.v[p].edge = e], p)
    BY <1>1, <2>1, <2>2, SetVendorTouches
  <2>. QED
    BY <2>1, <2>3, TouchesKeeps
<1>. QED
  BY <1>2, <1>3 DEF ParseRstp

\* The vlans of an edit are elsewhere.
LEMMA ParseVlanKeeps ==
    ASSUME NEW base, NEW run, NEW w, WorkOK(w, base), EditKeeps(w, run), NEW node \in VlanNode
    PROVE  EditKeeps(ParseVlan(w, node), run)
<1>1. /\ ParseVlan(w, node).c.port = w.c.port
      /\ ParseVlan(w, node).c.ports = w.c.ports
      /\ ParseVlan(w, node).v = w.v
  BY DEF ParseVlan, ParseVlanNumber, RemoveVlan, SetNumber, Fail, WorkOK, Work, Configuration
<1>2. Shaped(ParseVlan(w, node))
  BY ParseVlanOK, WorkShaped
<1>. QED
  BY <1>1, <1>2 DEF EditKeeps, OnlyListed

LEMMA EditedKeeps ==
    ASSUME StoreOK, NEW d \in Datastores, NEW r \in Requests, NEW run,
           Extends(run, config[d].ports), OnlyListed(config[d], vendor[d])
    PROVE  EditKeeps(Edited(d, r), run)
<1>. DEFINE base == Names(config[d].ports)
            begin == Begin(d)
            vlans == AfterVlans(d, r)
            interfaces == AfterInterfaces(d, r)
            protocols == AfterProtocols(d, r)
<1>1. WorkOK(begin, base)
  BY StoreOKIsTypeOK
     DEF TypeOK, PortsAddressable, WorkOK, Work, Begin, ConfigurationOK, PortListOK
<1>2. EditKeeps(begin, run)
  <2>1. Shaped(begin)
    BY <1>1, WorkShaped
  <2>. QED
    BY <2>1 DEF EditKeeps, Begin
<1>3. /\ r.vlan = NoValue \/ r.vlan \in VlanNode
      /\ r.interface = NoValue \/ r.interface \in InterfaceNode
      /\ r.rstp = NoValue \/ r.rstp \in RstpNode
  BY RequestAssumption
<1>. HIDE DEF begin
<1>4. WorkOK(vlans, base) /\ EditKeeps(vlans, run)
  BY <1>1, <1>2, <1>3, ParseVlanOK, ParseVlanKeeps DEF AfterVlans, begin
<1>. HIDE DEF vlans
<1>5. WorkOK(interfaces, base) /\ EditKeeps(interfaces, run)
  BY <1>3, <1>4, ParseInterfaceOK, ParseInterfaceKeeps DEF AfterInterfaces, vlans
<1>. HIDE DEF interfaces
<1>6. WorkOK(protocols, base) /\ EditKeeps(protocols, run)
  BY <1>3, <1>5, ParseRstpOK, ParseRstpKeeps DEF AfterProtocols, interfaces
<1>. HIDE DEF protocols
<1>7. EditKeeps(Fail(protocols, "netconf"), run)
  <2>1. Fail(protocols, "netconf").c = protocols.c /\ Fail(protocols, "netconf").v = protocols.v
    BY <1>6 DEF Fail, WorkOK, Work
  <2>2. Shaped(Fail(protocols, "netconf"))
    BY <1>6, FailOK, WorkShaped
  <2>. QED
    BY <1>6, <2>1, <2>2 DEF EditKeeps
<1>. QED
  BY <1>6, <1>7 DEF Edited, protocols

\* A lookup by partial name finds in running what it finds in the candidate, or
\* nothing: what it finds first in the candidate is in running if anything is.
LEMMA LookupsAgree ==
    ASSUME NEW run, PortListOK(run), NEW cand, PortListOK(cand), Extends(run, cand),
           NEW u \in Names(cand)
    PROVE  /\ HoldsOneOf(run, Matches[u]) <=> u \in Names(run)
           /\ u \in Names(run) => FirstOf(run, Matches[u]) = u
<1>1. IsNameList(cand, PortNames) /\ u \in PortNames /\ u \in Matches[u]
  BY DataAssumption DEF PortListOK, IsNameList
<1>2. u \in Names(run) => HoldsOneOf(run, Matches[u]) /\ FirstOf(run, Matches[u]) = u
  BY <1>1 DEF HoldsOneOf, PortListOK, Addressable
<1>3. ASSUME HoldsOneOf(run, Matches[u]), u \notin Names(run) PROVE FALSE
  <2>1. PICK q \in Names(run) \cap Matches[u] : TRUE
    BY <1>3 DEF HoldsOneOf
  <2>2. q \in Names(cand) \cap Matches[u] /\ HoldsOneOf(cand, Matches[u])
    BY <2>1 DEF Extends, HoldsOneOf
  <2>3. FirstOf(cand, Matches[u]) = u
    BY DEF PortListOK, Addressable
  <2>4. <<u, q>> \in cand
    BY <1>1, <2>2, <2>3, FirstOfProperties
  <2>5. <<q, u>> \in cand
    BY <1>3, <2>1 DEF Extends
  <2>6. q \in PortNames
    BY <1>1, <2>2 DEF IsNameList
  <2>. QED
    BY <1>1, <1>3, <2>1, <2>4, <2>5, <2>6 DEF IsNameList
<1>. QED
  BY <1>2, <1>3

\* The pairing by partial name is the pairing by name, and running becomes the
\* list of the candidate, in its order.
LEMMA CommittedPortsAre ==
    ASSUME NEW run, PortListOK(run), NEW cand, PortListOK(cand), Extends(run, cand)
    PROVE  /\ Added(run, cand) = Names(cand) \ Names(run)
           /\ CommittedPorts(run, cand) = cand
           /\ \A p \in Names(cand) : SourceOf(run, cand, p) = p
<1>. DEFINE A == Names(cand) \ Names(run)
            K == {p \in PortNames : HoldsOneOf(cand, Matches[p])}
            kept == KeepNames(cand, A)
            all == MergedPorts(run, cand)
<1>1. IsNameList(cand, PortNames) /\ Names(cand) \subseteq PortNames
  BY DEF PortListOK, IsNameList
<1>2. Added(run, cand) = A
  BY LookupsAgree DEF Added
<1>3. Names(kept) = A
  BY <1>1, KeepNamesProperties
<1>4. /\ all = run \cup kept \cup (Names(run) \X A)
      /\ run = cand \cap (Names(run) \X Names(run))
      /\ kept = cand \cap (A \X A)
  BY <1>2, <1>3 DEF MergedPorts, JoinNames, Extends, KeepNames
<1>5. cand \subseteq Names(cand) \X Names(cand)
  BY <1>1 DEF IsNameList
<1>6. Names(run) \subseteq Names(cand) /\ Names(run) \X A \subseteq cand
  BY DEF Extends
<1>7. ASSUME NEW x \in cand PROVE x \in all
  <2>1. PICK m \in Names(cand), n \in Names(cand) : x = <<m, n>>
    BY <1>5
  <2>2. CASE m \in A /\ n \in Names(run)
    <3>1. <<n, m>> \in cand
      BY <1>6, <2>2
    <3>2. m = n
      BY <1>1, <2>1, <3>1 DEF IsNameList
    <3>. QED
      BY <2>2, <3>2
  <2>3. CASE m \in Names(run) /\ n \in A
    BY <1>4, <2>1, <2>3
  <2>4. CASE m \in A /\ n \in A
    BY <1>4, <2>1, <2>4
  <2>5. CASE m \in Names(run) /\ n \in Names(run)
    BY <1>4, <2>1, <2>5
  <2>. QED
    BY <2>1, <2>2, <2>3, <2>4, <2>5
<1>8. all = cand
  BY <1>4, <1>6, <1>7
<1>9. Names(cand) \subseteq K
  BY <1>1, DataAssumption DEF HoldsOneOf
<1>10. CommittedPorts(run, cand) = cand
  BY <1>5, <1>8, <1>9 DEF CommittedPorts, KeepNames
<1>11. ASSUME NEW p \in Names(cand) PROVE SourceOf(run, cand, p) = p
  <2>1. CASE p \in A
    BY <1>2, <2>1 DEF SourceOf
  <2>2. CASE p \in Names(run)
    <3>1. CopiedTo(run, cand, p) = {p}
      BY <1>6, <2>2, LookupsAgree DEF CopiedTo
    <3>2. HoldsOneOf(cand, {p}) /\ LastOf(cand, {p}) \in Names(cand) \cap {p}
      BY <1>1, LastOfProperties DEF HoldsOneOf
    <3>. QED
      BY <1>2, <2>2, <3>1, <3>2 DEF SourceOf
  <2>. QED
    BY <2>1, <2>2
<1>. QED
  BY <1>2, <1>10, <1>11

\* The candidate's list of ports is that of running with more at its end, ports
\* that are not listed have no data, and a dict is shared only by the ports of
\* one name.
PublishInv ==
    /\ StoreOK
    /\ Extends(config["running"].ports, config["candidate"].ports)
    /\ \A d \in Datastores : OnlyListed(config[d], vendor[d])
    /\ \A p \in PortNames : alias[p] # NoValue =>
          alias[p] = p /\ p \in Names(config["running"].ports)

LEMMA CommittedAre ==
    ASSUME PublishInv
    PROVE  /\ CommittedConfig.ports = config["candidate"].ports
           /\ CommittedConfig.port = config["candidate"].port
           /\ CommittedConfig.number = config["candidate"].number
           /\ Names(CommittedConfig.vlans) = Names(config["candidate"].vlans)
           /\ CommittedVendor = vendor["candidate"]
           /\ \A p \in PortNames : CommittedAlias[p] # NoValue =>
                 CommittedAlias[p] = p /\ p \in Names(config["candidate"].ports)
<1>. DEFINE run == config["running"].ports
            cand == config["candidate"].ports
<1>1. /\ StoreOK
      /\ ConfigurationOK(config["running"]) /\ ConfigurationOK(config["candidate"])
  BY DEF PublishInv, StoreOK, Datastores
<1>2. /\ PortListOK(run) /\ PortListOK(cand) /\ Extends(run, cand)
      /\ IsNameList(config["running"].vlans, VlanNames)
      /\ IsNameList(config["candidate"].vlans, VlanNames)
      /\ config["candidate"].port \in [PortNames -> Port]
      /\ vendor["candidate"] \in [PortNames -> Vendor]
  BY <1>1 DEF PublishInv, StoreOK, ConfigurationOK, Configuration, Datastores
<1>3. /\ Added(run, cand) = Names(cand) \ Names(run)
      /\ CommittedPorts(run, cand) = cand
      /\ \A p \in Names(cand) : SourceOf(run, cand, p) = p
  BY <1>2, CommittedPortsAre
<1>4. /\ Names(cand) \subseteq PortNames
      /\ NoValue \notin PortNames
  BY <1>2, SentinelAssumption DEF PortListOK, IsNameList
<1>5. ASSUME NEW mine, NEW theirs, NEW none
      PROVE  CommitValues(mine, theirs, none) =
                [p \in PortNames |-> IF p \in Names(cand) THEN theirs[p] ELSE none]
  BY <1>3, <1>4 DEF CommitValues
<1>6. \A p \in PortNames \ Names(cand) :
          config["candidate"].port[p] = ResetPort /\ vendor["candidate"][p] = FreshVendor
  BY DEF PublishInv, OnlyListed, Datastores
<1>7. CommittedPort = config["candidate"].port
  <2>1. CommittedPort = [p \in PortNames |->
             IF p \in Names(cand) THEN config["candidate"].port[p] ELSE ResetPort]
    BY <1>5 DEF CommittedPort
  <2>. QED
    BY <1>2, <1>6, <2>1
<1>8. CommittedVendor = vendor["candidate"]
  <2>1. CommittedVendor = [p \in PortNames |->
             IF p \in Names(cand) THEN vendor["candidate"][p] ELSE FreshVendor]
    BY <1>5 DEF CommittedVendor
  <2>. QED
    BY <1>2, <1>6, <2>1
<1>9. ASSUME NEW p \in PortNames, CommittedAlias[p] # NoValue
      PROVE  CommittedAlias[p] = p /\ p \in Names(cand)
  <2>. DEFINE theirs == [u \in PortNames |-> IF u \in Added(run, cand) THEN NoValue ELSE u]
  <2>1. CommittedAlias = CommitValues(alias, theirs, NoValue)
    BY DEF CommittedAlias
  <2>2. CommittedAlias[p] = IF p \in Names(cand) THEN theirs[p] ELSE NoValue
    BY <1>5, <2>1
  <2>. QED
    BY <1>9, <2>2
<1>10. Names(CommittedConfig.vlans) = Names(config["candidate"].vlans)
  BY <1>2, CommittedVlansOK DEF CommittedConfig
<1>. QED
  BY <1>3, <1>7, <1>8, <1>9, <1>10 DEF CommittedConfig

LEMMA PublishInvInit == Init => PublishInv
<1>. SUFFICES ASSUME Init PROVE PublishInv
  OBVIOUS
<1>1. Extends(InitialPorts, InitialPorts)
  BY DataAssumption, ExtendsItself
<1>. QED
  BY <1>1, StoreOKInit DEF Init, PublishInv, OnlyListed, Datastores

LEMMA PublishInvCommit ==
    ASSUME PublishInv, CommitAccepted
    PROVE  PublishInv'
<1>1. /\ StoreOK /\ StoreOK'
      /\ config \in [Datastores -> Configuration]
      /\ vendor \in [Datastores -> [PortNames -> Vendor]]
  BY StoreOKCommit DEF PublishInv, StoreOK
<1>2. /\ config'["running"] = CommittedConfig /\ config'["candidate"] = config["candidate"]
      /\ vendor'["running"] = CommittedVendor /\ vendor'["candidate"] = vendor["candidate"]
      /\ alias' = CommittedAlias
  BY <1>1 DEF CommitAccepted, Datastores
<1>3. /\ config'["running"].ports = config["candidate"].ports
      /\ config'["running"].port = config["candidate"].port
      /\ vendor'["running"] = vendor["candidate"]
      /\ \A p \in PortNames : alias'[p] # NoValue =>
            alias'[p] = p /\ p \in Names(config["candidate"].ports)
  BY <1>2, CommittedAre
<1>4. Extends(config["candidate"].ports, config["candidate"].ports)
  <2>1. IsNameList(config["candidate"].ports, PortNames)
    BY <1>1 DEF StoreOK, ConfigurationOK, PortListOK, Datastores
  <2>. QED
    BY <2>1, ExtendsItself
<1>5. OnlyListed(config["candidate"], vendor["candidate"])
  BY DEF PublishInv, Datastores
<1>6. \A d \in Datastores : OnlyListed(config'[d], vendor'[d])
  BY <1>2, <1>3, <1>5 DEF OnlyListed, Datastores
<1>. QED
  BY <1>1, <1>2, <1>3, <1>4, <1>6 DEF PublishInv

\* What is written to a shared dict goes to a listed port of running.
LEMMA PublishInvEdit ==
    ASSUME PublishInv, NEW r \in Requests, EditConfig("candidate", r)
    PROVE  PublishInv'
<1>. DEFINE w == Edited("candidate", r)
            run == config["running"].ports
<1>1. /\ StoreOK /\ "candidate" \in Datastores
      /\ config \in [Datastores -> Configuration]
      /\ vendor \in [Datastores -> [PortNames -> Vendor]]
  BY DEF PublishInv, StoreOK, Datastores
<1>2. StoreOK'
  BY <1>1, StoreOKEdit
<1>3. EditKeeps(w, run)
  BY <1>1, EditedKeeps DEF PublishInv
<1>. HIDE DEF w
<1>4. /\ config' = [config EXCEPT !["candidate"] = w.c]
      /\ alias' = AliasAfter("candidate", w.reset)
      /\ vendor' = [e \in Datastores |->
                      IF e = "candidate" THEN w.v ELSE Leaked("candidate", w.v, alias')]
  BY DEF EditConfig, w
<1>5. /\ config'["running"] = config["running"] /\ config'["candidate"] = w.c
      /\ vendor'["candidate"] = w.v
      /\ vendor'["running"] = Leaked("candidate", w.v, alias')
  BY <1>1, <1>4 DEF Datastores
<1>6. \A p \in PortNames : alias'[p] \in {alias[p], NoValue}
  BY <1>4 DEF AliasAfter
<1>7. Other("candidate") = "running"
  BY DEF Other, Datastores
<1>8. \A p \in PortNames : alias'[p] = NoValue => vendor'["running"][p] = vendor["running"][p]
  BY <1>5, <1>7 DEF Leaked
<1>9. OnlyListed(config'["running"], vendor'["running"])
  BY <1>5, <1>6, <1>8 DEF PublishInv, OnlyListed, Datastores
<1>10. OnlyListed(config'["candidate"], vendor'["candidate"])
  BY <1>3, <1>5 DEF EditKeeps
<1>11. Extends(config'["running"].ports, config'["candidate"].ports)
  BY <1>3, <1>5 DEF EditKeeps
<1>12. \A p \in PortNames : alias'[p] # NoValue =>
           alias'[p] = p /\ p \in Names(config'["running"].ports)
  BY <1>5, <1>6 DEF PublishInv
<1>. QED
  BY <1>2, <1>9, <1>10, <1>11, <1>12 DEF PublishInv, Datastores

LEMMA PublishInvRead ==
    ASSUME PublishInv, StoreOK',
           \A d \in Datastores : config'[d] = config[d] \/ config'[d] = AsRead(d),
           vendor' = vendor, alias' = alias
    PROVE  PublishInv'
<1>1. TypeOK /\ PortsAddressable
  BY StoreOKIsTypeOK DEF PublishInv
<1>2. \A d \in Datastores : config'[d].ports = config[d].ports
  BY <1>1, AsReadOK
<1>3. ASSUME NEW d \in Datastores PROVE OnlyListed(AsRead(d), vendor[d])
  <2>1. ASSUME NEW p \in PortNames \ Names(config[d].ports)
        PROVE  AsRead(d).port[p] = config[d].port[p]
    <3>1. p \notin ReadPorts(d) /\ config[d] \in Configuration
      BY <1>1 DEF ReadPorts, TypeOK
    <3>. QED
      BY <3>1 DEF AsRead, Configuration
  <2>2. AsRead(d).ports = config[d].ports
    BY <1>1, AsReadOK
  <2>. QED
    BY <2>1, <2>2 DEF PublishInv, OnlyListed
<1>4. \A d \in Datastores : OnlyListed(config'[d], vendor'[d])
  BY <1>3 DEF PublishInv
<1>. QED
  BY <1>2, <1>4 DEF PublishInv, Datastores

LEMMA PublishInvStep ==
    ASSUME EditTargets = {"candidate"}, PublishInv, [Next]_vars
    PROVE  PublishInv'
<1>1. StoreOK'
  BY StoreOKStep DEF PublishInv
<1>2. ASSUME UNCHANGED <<config, vendor, alias>> PROVE PublishInv'
  BY <1>1, <1>2, PublishInvRead
<1>3. ASSUME NEW d \in Datastores, GetConfig(d) PROVE PublishInv'
  <2>1. \A e \in Datastores : config'[e] = config[e] \/ config'[e] = AsRead(e)
    BY <1>3 DEF GetConfig, PublishInv, StoreOK
  <2>. QED
    BY <1>1, <1>3, <2>1, PublishInvRead DEF GetConfig
<1>4. ASSUME config' = BothAsRead, vendor' = vendor, alias' = alias PROVE PublishInv'
  <2>1. \A e \in Datastores : config'[e] = config[e] \/ config'[e] = AsRead(e)
    BY <1>4 DEF BothAsRead
  <2>. QED
    BY <1>1, <1>4, <2>1, PublishInvRead
<1>5. CASE DiscardChanges
  <2>1. /\ config'["running"] = config["running"] /\ config'["candidate"] = config["running"]
        /\ vendor'["running"] = vendor["running"] /\ vendor'["candidate"] = vendor["running"]
        /\ alias' = [p \in PortNames |-> NoValue]
    BY <1>5 DEF DiscardChanges, PublishInv, StoreOK, Datastores
  <2>2. Extends(config["running"].ports, config["running"].ports)
    <3>1. IsNameList(config["running"].ports, PortNames)
      BY DEF PublishInv, StoreOK, ConfigurationOK, PortListOK, Datastores
    <3>. QED
      BY <3>1, ExtendsItself
  <2>3. OnlyListed(config["running"], vendor["running"])
    BY DEF PublishInv, Datastores
  <2>. QED
    BY <1>1, <2>1, <2>2, <2>3 DEF PublishInv, Datastores
<1>6. ASSUME NEW d \in EditTargets, NEW r \in Requests, EditConfig(d, r)
      PROVE  PublishInv'
  BY <1>6, PublishInvEdit
<1>7. LockTargets \subseteq Datastores
  BY DataAssumption
<1>. QED
  BY <1>2, <1>3, <1>4, <1>5, <1>6, <1>7, PublishInvCommit
     DEF Next, vars, CompareConfiguration, LockGranted, LockRefused, Unlock, CommitRefused, Disconnect

LEMMA CommitShows ==
    ASSUME PublishInv, CommitAccepted
    PROVE  PublishedView("running")' = PublishedView("candidate")'
<1>1. /\ config \in [Datastores -> Configuration]
      /\ vendor \in [Datastores -> [PortNames -> Vendor]]
  BY DEF PublishInv, StoreOK
<1>2. /\ config'["running"] = CommittedConfig /\ config'["candidate"] = config["candidate"]
      /\ vendor'["running"] = CommittedVendor /\ vendor'["candidate"] = vendor["candidate"]
  BY <1>1 DEF CommitAccepted, Datastores
<1>3. /\ config'["running"].ports = config'["candidate"].ports
      /\ config'["running"].port = config'["candidate"].port
      /\ config'["running"].number = config'["candidate"].number
      /\ Names(config'["running"].vlans) = Names(config'["candidate"].vlans)
      /\ vendor'["running"] = vendor'["candidate"]
  BY <1>2, CommittedAre
<1>. DEFINE Interfaces(c, v) == KeepNames(c.ports, {p \in PortNames : InterfaceShown(p, c.port[p], v[p])})
            Interface(c, v) == [p \in PortNames |-> InterfaceView(p, c.port[p], v[p])]
            Rstp(c, v) == KeepNames(c.ports, {p \in PortNames : v[p].edge = "on"})
            Shows(c, v) == [interfaces |-> Interfaces(c, v), interface |-> Interface(c, v),
                            rstp |-> Rstp(c, v), vlans |-> Names(c.vlans), number |-> c.number]
<1>4. \A d \in Datastores : PublishedView(d)' = Shows(config'[d], vendor'[d])
  <2>. TAKE d \in Datastores
  <2>. DEFINE c == config'[d]
              v == vendor'[d]
  <2>1. View(d)' = [interfaces |-> Interfaces(c, v), interface |-> Interface(c, v),
                    rstp |-> Rstp(c, v), vlans |-> c.vlans, number |-> c.number]
    BY DEF View
  <2>2. PublishedView(d)' = [View(d)' EXCEPT !.vlans = Names(View(d)'.vlans)]
    BY DEF PublishedView
  <2>. HIDE DEF Interfaces, Interface, Rstp, c, v
  <2>3. View(d)'.vlans = c.vlans
    BY <2>1
  <2>. QED
    BY <2>1, <2>2, <2>3 DEF c, v
<1>5. /\ Interfaces(config'["running"], vendor'["running"])
            = Interfaces(config'["candidate"], vendor'["candidate"])
      /\ Interface(config'["running"], vendor'["running"])
            = Interface(config'["candidate"], vendor'["candidate"])
      /\ Rstp(config'["running"], vendor'["running"])
            = Rstp(config'["candidate"], vendor'["candidate"])
  BY <1>3
<1>. HIDE DEF Interfaces, Interface, Rstp
<1>6. Shows(config'["running"], vendor'["running"]) = Shows(config'["candidate"], vendor'["candidate"])
  BY <1>3, <1>5
<1>. HIDE DEF Shows
<1>. QED
  BY <1>4, <1>6 DEF Datastores

\* As long as clients edit the candidate alone, whatever the names of the ports and
\* whichever of them a lookup by partial name takes for another: a commit that is
\* accepted leaves a running configuration that reads like the candidate.
THEOREM CommitAlwaysPublishes == EditTargets = {"candidate"} => (Spec => CommitPublishes)
<1>. SUFFICES ASSUME EditTargets = {"candidate"} PROVE Spec => CommitPublishes
  OBVIOUS
<1>1. PublishInv /\ [Next]_vars => PublishInv'
  BY PublishInvStep
<1>2. PublishInv /\ [Next]_vars =>
        [CommitAccepted => PublishedView("running")' = PublishedView("candidate")']_vars
  BY CommitShows
<1>. QED
  BY <1>1, <1>2, PublishInvInit, PTL DEF Spec, CommitPublishes
-----------------------------------------------------------------------------
(***************************************************************************)
(* The loops of a commit.  What each computes is guessed for every set of  *)
(* the names it goes through; a step more is the guess of a name more.     *)
(***************************************************************************)
\* What the candidate ports in T leave in running: a value of running's, or of
\* the candidate port that was copied last.
CopiedValues(T, mine, theirs) ==
    LET from == KeepNames(config["candidate"].ports, T)
        run  == config["running"].ports
    IN [p \in PortNames |-> IF SourceOf(run, from, p) # NoValue
                            THEN theirs[SourceOf(run, from, p)] ELSE mine[p]]

\* What becomes of the vendor dict of running when port u is copied: it is shared.
Shared == [u \in PortNames |->
              IF u \in Added(config["running"].ports, config["candidate"].ports)
              THEN NoValue ELSE u]

Copied(T) ==
    [ports  |-> MergedPorts(config["running"].ports, KeepNames(config["candidate"].ports, T)),
     port   |-> CopiedValues(T, config["running"].port, config["candidate"].port),
     vendor |-> CopiedValues(T, vendor["running"], vendor["candidate"]),
     alias  |-> CopiedValues(T, alias, Shared)]

\* One more port, the last so far: it is added, or copied over what it finds in
\* running, for it cannot find one that was added before it.
LEMMA OneMoreSource ==
    ASSUME NEW run, PortListOK(run), NEW cand, PortListOK(cand),
           NEW T \in SUBSET Names(cand), T # {}, NEW u, u = LastOf(cand, T),
           NEW from, from = KeepNames(cand, T \ {u}),
           NEW to, to = KeepNames(cand, T)
    PROVE  /\ u \in PortNames
           /\ HoldsOneOf(run, Matches[u]) =>
                /\ HoldsOneOf(MergedPorts(run, from), Matches[u])
                /\ FirstOf(MergedPorts(run, from), Matches[u]) = FirstOf(run, Matches[u])
                /\ FirstOf(run, Matches[u]) \in PortNames
                /\ MergedPorts(run, to) = MergedPorts(run, from)
                /\ SourceOf(run, to, FirstOf(run, Matches[u])) = u
                /\ \A p \in PortNames \ {FirstOf(run, Matches[u])} :
                      SourceOf(run, to, p) = SourceOf(run, from, p)
           /\ ~HoldsOneOf(run, Matches[u]) =>
                /\ ~HoldsOneOf(MergedPorts(run, from), Matches[u])
                /\ MergedPorts(run, to) = AddName(MergedPorts(run, from), u)
                /\ SourceOf(run, to, u) = u
                /\ \A p \in PortNames \ {u} : SourceOf(run, to, p) = SourceOf(run, from, p)
<1>. DEFINE A == Added(run, from)
            first == FirstOf(run, Matches[u])
<1>1. IsNameList(run, PortNames) /\ IsNameList(cand, PortNames)
  BY DEF PortListOK
<1>2. Names(run) \subseteq PortNames /\ Names(cand) \subseteq PortNames
  BY <1>1 DEF IsNameList
<1>3. u \in T /\ \A m \in T : <<m, u>> \in cand
  <2>1. HoldsOneOf(cand, T) /\ Names(cand) \cap T = T
    BY DEF HoldsOneOf
  <2>. QED
    BY <1>1, <2>1, LastOfProperties
<1>4. /\ Names(from) = T \ {u} /\ IsNameList(from, PortNames)
      /\ Names(to) = T /\ IsNameList(to, PortNames)
  BY <1>1, KeepNamesProperties
<1>5. u \in PortNames /\ u \in Matches[u]
  BY <1>2, <1>3, DataAssumption
\* No port before u answers to its name.
<1>6. \A m \in T \ {u} : m \notin Matches[u]
  <2>. SUFFICES ASSUME NEW m \in T \ {u}, m \in Matches[u] PROVE FALSE
    OBVIOUS
  <2>1. HoldsOneOf(cand, Matches[u]) /\ m \in Names(cand) \cap Matches[u]
    BY DEF HoldsOneOf
  <2>2. FirstOf(cand, Matches[u]) = u
    BY <1>3 DEF PortListOK, Addressable
  <2>3. <<u, m>> \in cand /\ <<m, u>> \in cand
    BY <1>1, <1>3, <2>1, <2>2, FirstOfProperties
  <2>. QED
    BY <1>1, <1>2, <1>3, <2>3 DEF IsNameList
<1>7. A \subseteq T \ {u} /\ Names(run) \cap A = {} /\ Names(KeepNames(from, A)) = A
  <2>1. A \subseteq T \ {u}
    BY <1>4 DEF Added
  <2>2. \A p \in A : p \in Matches[p] /\ ~HoldsOneOf(run, Matches[p])
    BY <1>2, <1>4, DataAssumption DEF Added
  <2>3. Names(run) \cap A = {}
    BY <2>2 DEF HoldsOneOf
  <2>4. Names(KeepNames(from, A)) = A
    <3>1. Names(KeepNames(from, A)) = Names(from) \cap A
      BY <1>4, KeepNamesProperties
    <3>. QED
      BY <1>4, <2>1, <3>1
  <2>. QED
    BY <2>1, <2>3, <2>4
<1>8. /\ Names(MergedPorts(run, from)) = Names(run) \cup A
      /\ IsNameList(MergedPorts(run, from), PortNames)
  <2>. DEFINE kept == KeepNames(from, A)
  <2>1. IsNameList(kept, PortNames)
    BY <1>4, KeepNamesProperties
  <2>2. Names(kept) = A /\ Names(run) \cap Names(kept) = {}
    BY <1>7
  <2>3. MergedPorts(run, from) = JoinNames(run, kept)
    BY DEF MergedPorts
  <2>. HIDE DEF kept
  <2>. QED
    BY <1>1, <2>1, <2>2, <2>3, JoinNamesProperties
<1>9. HoldsOneOf(MergedPorts(run, from), Matches[u]) <=> HoldsOneOf(run, Matches[u])
  BY <1>6, <1>7, <1>8 DEF HoldsOneOf
<1>10. ASSUME HoldsOneOf(run, Matches[u])
       PROVE  /\ FirstOf(MergedPorts(run, from), Matches[u]) = first
              /\ first \in PortNames
              /\ MergedPorts(run, to) = MergedPorts(run, from)
              /\ SourceOf(run, to, first) = u
              /\ \A p \in PortNames \ {first} : SourceOf(run, to, p) = SourceOf(run, from, p)
  <2>1. first \in Names(run) \cap Matches[u] /\ \A m \in Names(run) \cap Matches[u] : <<first, m>> \in run
    BY <1>1, <1>10, FirstOfProperties
  <2>2. FirstOf(MergedPorts(run, from), Matches[u]) = first
    <3>1. Names(MergedPorts(run, from)) \cap Matches[u] = Names(run) \cap Matches[u]
      BY <1>6, <1>7, <1>8
    <3>2. \A m \in Names(run) \cap Matches[u] : <<first, m>> \in MergedPorts(run, from)
      BY <2>1 DEF MergedPorts, JoinNames
    <3>. HIDE DEF first
    <3>. QED
      BY <1>8, <1>9, <1>10, <2>1, <3>1, <3>2, FirstOfProperties
  <2>3. Added(run, to) = A
    BY <1>4, <1>10 DEF Added
  <2>4. MergedPorts(run, to) = MergedPorts(run, from)
    <3>1. KeepNames(to, A) = KeepNames(from, A)
      BY <1>7 DEF KeepNames
    <3>. QED
      BY <2>3, <3>1 DEF MergedPorts
  <2>5. CopiedTo(run, to, first) = CopiedTo(run, from, first) \cup {u}
    BY <1>3, <1>4, <1>10 DEF CopiedTo
  <2>6. \A p \in PortNames \ {first} : CopiedTo(run, to, p) = CopiedTo(run, from, p)
    BY <1>3, <1>4, <1>10 DEF CopiedTo
  <2>. HIDE DEF first, A
  <2>7. SourceOf(run, to, first) = u
    <3>1. CopiedTo(run, to, first) \subseteq T /\ u \in CopiedTo(run, to, first)
      BY <1>4, <2>5 DEF CopiedTo
    <3>2. /\ HoldsOneOf(to, CopiedTo(run, to, first))
          /\ \A m \in Names(to) \cap CopiedTo(run, to, first) : <<m, u>> \in to
          /\ u \in Names(to) \cap CopiedTo(run, to, first)
      BY <1>3, <1>4, <3>1 DEF HoldsOneOf, KeepNames
    <3>3. LastOf(to, CopiedTo(run, to, first)) = u
      BY <1>4, <3>2, LastOfProperties
    <3>4. first \notin Added(run, to)
      BY <1>7, <2>1, <2>3
    <3>. QED
      BY <3>1, <3>3, <3>4 DEF SourceOf
  <2>8. ASSUME NEW p \in PortNames \ {first}
        PROVE  SourceOf(run, to, p) = SourceOf(run, from, p)
    <3>. DEFINE C == CopiedTo(run, from, p)
    <3>1. C \subseteq T \ {u}
      BY <1>4 DEF CopiedTo
    <3>2. C # {} => LastOf(to, C) = LastOf(from, C)
      <4>. HIDE DEF C
      <4>1. C \subseteq Names(cand) \cap T /\ C \subseteq Names(cand) \cap (T \ {u})
        BY <3>1
      <4>. QED
        BY <1>1, <4>1, LastOfKept
    <3>. QED
      BY <2>3, <2>6, <3>2 DEF SourceOf, A
  <2>. QED
    BY <2>1, <2>2, <2>4, <2>7, <2>8, <1>2
<1>11. ASSUME ~HoldsOneOf(run, Matches[u])
       PROVE  /\ MergedPorts(run, to) = AddName(MergedPorts(run, from), u)
              /\ SourceOf(run, to, u) = u
              /\ \A p \in PortNames \ {u} : SourceOf(run, to, p) = SourceOf(run, from, p)
  <2>1. Added(run, to) = A \cup {u}
    BY <1>3, <1>4, <1>11 DEF Added
  <2>2. \A p \in PortNames : CopiedTo(run, to, p) = CopiedTo(run, from, p)
    BY <1>3, <1>4, <1>11 DEF CopiedTo
  <2>3. MergedPorts(run, to) = AddName(MergedPorts(run, from), u)
    <3>. DEFINE B == A \cup {u}
    <3>1. KeepNames(to, B) = KeepNames(from, A) \cup (B \X {u})
      <4>1. B \subseteq T /\ A \subseteq T \ {u} /\ u \notin A
        BY <1>3, <1>7
      <4>2. \A m \in B : <<m, u>> \in cand
        BY <1>3, <4>1
      <4>3. \A m \in A : <<u, m>> \notin cand
        BY <1>1, <1>2, <1>3, <4>1 DEF IsNameList
      <4>. HIDE DEF A
      <4>. QED
        BY <4>1, <4>2, <4>3 DEF KeepNames
    <3>2. /\ Names(KeepNames(to, B)) = B
          /\ MergedPorts(run, to) = run \cup KeepNames(to, B) \cup (Names(run) \X B)
      <4>1. Names(KeepNames(to, B)) = Names(to) \cap B
        <5>. HIDE DEF B
        <5>. QED
          BY <1>4, KeepNamesProperties
      <4>2. Names(KeepNames(to, B)) = B
        BY <1>3, <1>4, <1>7, <4>1
      <4>. QED
        BY <2>1, <4>2 DEF MergedPorts, JoinNames
    <3>3. MergedPorts(run, from) = run \cup KeepNames(from, A) \cup (Names(run) \X A)
      BY <1>7 DEF MergedPorts, JoinNames
    <3>4. AddName(MergedPorts(run, from), u)
             = MergedPorts(run, from) \cup ((Names(run) \cup A \cup {u}) \X {u})
      BY <1>8 DEF AddName
    <3>. HIDE DEF A
    <3>. QED
      BY <3>1, <3>2, <3>3, <3>4
  <2>4. SourceOf(run, to, u) = u
    BY <2>1 DEF SourceOf
  <2>5. ASSUME NEW p \in PortNames \ {u}
        PROVE  SourceOf(run, to, p) = SourceOf(run, from, p)
    <3>. DEFINE C == CopiedTo(run, from, p)
    <3>1. C \subseteq T \ {u}
      BY <1>4 DEF CopiedTo
    <3>2. C # {} => LastOf(to, C) = LastOf(from, C)
      <4>. HIDE DEF C
      <4>1. C \subseteq Names(cand) \cap T /\ C \subseteq Names(cand) \cap (T \ {u})
        BY <3>1
      <4>. QED
        BY <1>1, <4>1, LastOfKept
    <3>. QED
      BY <2>1, <2>2, <3>2 DEF SourceOf
  <2>. QED
    BY <2>3, <2>4, <2>5
<1>. QED
  BY <1>5, <1>9, <1>10, <1>11

\* The datastore that the loops start from.
Started == [ports  |-> config["running"].ports, port  |-> config["running"].port,
            vendor |-> vendor["running"],       alias |-> alias]

LEMMA NothingCopied == ASSUME StoreOK PROVE Copied({}) = Started
<1>. DEFINE run == config["running"].ports
            from == KeepNames(config["candidate"].ports, {})
<1>1. from = {} /\ Names(from) = {}
  BY DEF KeepNames, Names
<1>2. Added(run, from) = {} /\ \A p \in PortNames : CopiedTo(run, from, p) = {}
  BY <1>1 DEF Added, CopiedTo
<1>3. \A p \in PortNames : SourceOf(run, from, p) = NoValue
  BY <1>2 DEF SourceOf
<1>4. MergedPorts(run, from) = run
  <2>1. KeepNames(from, {}) = {} /\ Names(KeepNames(from, {})) = {}
    BY DEF KeepNames, Names
  <2>. QED
    BY <1>2, <2>1 DEF MergedPorts, JoinNames
<1>5. ASSUME NEW mine, mine = [p \in PortNames |-> mine[p]], NEW theirs
      PROVE  CopiedValues({}, mine, theirs) = mine
  <2>1. CopiedValues({}, mine, theirs) = [p \in PortNames |-> mine[p]]
    BY <1>3 DEF CopiedValues
  <2>. QED
    BY <1>5, <2>1
<1>6. /\ config["running"].port = [p \in PortNames |-> config["running"].port[p]]
      /\ vendor["running"] = [p \in PortNames |-> vendor["running"][p]]
      /\ alias = [p \in PortNames |-> alias[p]]
  <2>1. config["running"] \in Configuration /\ vendor["running"] \in [PortNames -> Vendor]
    BY DEF StoreOK, Datastores
  <2>. QED
    BY <2>1 DEF StoreOK, Configuration
<1>. QED
  BY <1>4, <1>5, <1>6 DEF Copied, Started

LEMMA CopiedOnce ==
    ASSUME StoreOK, NEW T \in SUBSET Names(config["candidate"].ports), T # {},
           NEW u, u = LastOf(config["candidate"].ports, T)
    PROVE  CopyOrAppend(Copied(T \ {u}), u) = Copied(T)
<1>. DEFINE run == config["running"].ports
            cand == config["candidate"].ports
            from == KeepNames(cand, T \ {u})
            to == KeepNames(cand, T)
            acc == Copied(T \ {u})
            first == FirstOf(run, Matches[u])
            mine == config["candidate"].port[u]
            v == vendor["candidate"][u]
<1>1. PortListOK(run) /\ PortListOK(cand)
  BY DEF StoreOK, ConfigurationOK, Datastores
<1>2. u \in PortNames /\ u # NoValue
  BY <1>1, OneMoreSource, SentinelAssumption
<1>3. acc.ports = MergedPorts(run, from)
  BY DEF Copied
<1>4. u \in Names(cand)
  <2>1. HoldsOneOf(cand, T) /\ IsNameList(cand, PortNames)
    BY <1>1 DEF HoldsOneOf, PortListOK
  <2>. QED
    BY <2>1, LastOfProperties
<1>5. CASE HoldsOneOf(run, Matches[u])
  <2>1. /\ HoldsOneOf(acc.ports, Matches[u])
        /\ FirstOf(acc.ports, Matches[u]) = first /\ first \in PortNames
        /\ MergedPorts(run, to) = MergedPorts(run, from)
        /\ SourceOf(run, to, first) = u
        /\ \A p \in PortNames \ {first} : SourceOf(run, to, p) = SourceOf(run, from, p)
    BY <1>1, <1>3, <1>5, OneMoreSource
  <2>. HIDE DEF first
  <2>2. CopyOrAppend(acc, u) = [acc EXCEPT !.port[first] = mine, !.vendor[first] = v,
                                           !.alias[first] = u]
    BY <2>1 DEF CopyOrAppend
  <2>3. ASSUME NEW own, NEW theirs
        PROVE  CopiedValues(T, own, theirs) =
                  [CopiedValues(T \ {u}, own, theirs) EXCEPT ![first] = theirs[u]]
    BY <1>2, <2>1 DEF CopiedValues
  <2>4. Shared[u] = u
    BY <1>2, <1>5 DEF Shared, Added
  <2>5. /\ Copied(T).ports = acc.ports
        /\ Copied(T).port = [acc.port EXCEPT ![first] = mine]
        /\ Copied(T).vendor = [acc.vendor EXCEPT ![first] = v]
        /\ Copied(T).alias = [acc.alias EXCEPT ![first] = u]
    <3>1. /\ acc.port = CopiedValues(T \ {u}, config["running"].port, config["candidate"].port)
          /\ acc.vendor = CopiedValues(T \ {u}, vendor["running"], vendor["candidate"])
          /\ acc.alias = CopiedValues(T \ {u}, alias, Shared)
      BY DEF Copied
    <3>2. /\ Copied(T).ports = MergedPorts(run, to)
          /\ Copied(T).port = CopiedValues(T, config["running"].port, config["candidate"].port)
          /\ Copied(T).vendor = CopiedValues(T, vendor["running"], vendor["candidate"])
          /\ Copied(T).alias = CopiedValues(T, alias, Shared)
      BY DEF Copied
    <3>. HIDE DEF acc, to, from
    <3>3. Copied(T).ports = acc.ports
      BY <1>3, <2>1, <3>2
    <3>4. Copied(T).port = [acc.port EXCEPT ![first] = mine]
      <4>. DEFINE own == config["running"].port
                  theirs == config["candidate"].port
      <4>1. CopiedValues(T, own, theirs) = [CopiedValues(T \ {u}, own, theirs) EXCEPT ![first] = theirs[u]]
        <5>. HIDE DEF own, theirs
        <5>. QED
          BY <2>3
      <4>. QED
        BY <3>1, <3>2, <4>1
    <3>5. Copied(T).vendor = [acc.vendor EXCEPT ![first] = v]
      BY <2>3, <3>1, <3>2
    <3>6. Copied(T).alias = [acc.alias EXCEPT ![first] = u]
      <4>1. CopiedValues(T, alias, Shared) = [CopiedValues(T \ {u}, alias, Shared) EXCEPT ![first] = Shared[u]]
        BY <2>3
      <4>. QED
        BY <2>4, <3>1, <3>2, <4>1
    <3>. QED
      BY <3>3, <3>4, <3>5, <3>6
  <2>. QED
    BY <2>2, <2>5 DEF Copied
<1>6. CASE ~HoldsOneOf(run, Matches[u])
  <2>1. /\ ~HoldsOneOf(acc.ports, Matches[u])
        /\ MergedPorts(run, to) = AddName(MergedPorts(run, from), u)
        /\ SourceOf(run, to, u) = u
        /\ \A p \in PortNames \ {u} : SourceOf(run, to, p) = SourceOf(run, from, p)
    BY <1>1, <1>3, <1>6, OneMoreSource
  <2>2. CopyOrAppend(acc, u) = [acc EXCEPT !.ports = AddName(acc.ports, u), !.port[u] = mine,
                                           !.vendor[u] = v, !.alias[u] = NoValue]
    BY <2>1 DEF CopyOrAppend
  <2>3. ASSUME NEW own, NEW theirs
        PROVE  CopiedValues(T, own, theirs) =
                  [CopiedValues(T \ {u}, own, theirs) EXCEPT ![u] = theirs[u]]
    BY <1>2, <2>1 DEF CopiedValues
  <2>4. Shared[u] = NoValue
    BY <1>2, <1>4, <1>6 DEF Shared, Added
  <2>5. /\ Copied(T).ports = AddName(acc.ports, u)
        /\ Copied(T).port = [acc.port EXCEPT ![u] = mine]
        /\ Copied(T).vendor = [acc.vendor EXCEPT ![u] = v]
        /\ Copied(T).alias = [acc.alias EXCEPT ![u] = NoValue]
    BY <2>1, <2>3, <2>4 DEF Copied
  <2>. QED
    BY <2>2, <2>5 DEF Copied
<1>. QED
  BY <1>5, <1>6

LEMMA CopyLoop ==
    ASSUME StoreOK
    PROVE  ForEach(CopyOrAppend, Started, config["candidate"].ports)
              = Copied(Names(config["candidate"].ports))
<1>. DEFINE cand == config["candidate"].ports
            N == Names(cand)
            Is(f) == f = [T \in SUBSET N |->
                            IF T = {} THEN Started
                            ELSE CopyOrAppend(f[T \ {LastOf(cand, T)}], LastOf(cand, T))]
            H == CHOOSE f : Is(f)
            F == [T \in SUBSET N |-> Copied(T)]
<1>1. ForEach(CopyOrAppend, Started, cand) = H[N]
  BY DEF ForEach, MapThenFoldSet
<1>2. IsNameList(cand, PortNames)
  BY DEF StoreOK, ConfigurationOK, PortListOK, Datastores
<1>3. \A T \in SUBSET N : T # {} => T \ {LastOf(cand, T)} \in SUBSET N
  OBVIOUS
<1>4. Is(F)
  <2>1. F[{}] = Started
    BY NothingCopied
  <2>2. ASSUME NEW T \in SUBSET N, T # {}
        PROVE  F[T] = CopyOrAppend(F[T \ {LastOf(cand, T)}], LastOf(cand, T))
    BY <2>2, CopiedOnce
  <2>. QED
    BY <2>1, <2>2
<1>5. Is(H)
  <2>. HIDE DEF Is
  <2>. QED
    BY <1>4
<1>. HIDE DEF H
<1>6. H[{}] = F[{}]
  BY <1>4, <1>5
<1>7. ASSUME NEW T \in SUBSET N, T # {},
             H[T \ {LastOf(cand, T)}] = F[T \ {LastOf(cand, T)}]
      PROVE  H[T] = F[T]
  <2>1. H[T] = CopyOrAppend(H[T \ {LastOf(cand, T)}], LastOf(cand, T))
    BY <1>5, <1>7
  <2>2. F[T] = CopyOrAppend(F[T \ {LastOf(cand, T)}], LastOf(cand, T))
    BY <1>4, <1>7
  <2>. QED
    BY <1>7, <2>1, <2>2
<1>. HIDE DEF Is
<1>8. H[N] = F[N]
  <2>. HIDE DEF F
  <2>. QED
    BY <1>2, <1>6, <1>7, LoopsAgree
<1>. QED
  BY <1>1, <1>8

\* What is left of the merged ports when the last loop has been through those
\* in T: those that a lookup finds in the candidate.
Removed(T) ==
    LET cand   == config["candidate"].ports
        copied == Copied(Names(cand))
        gone   == {p \in T : ~HoldsOneOf(cand, Matches[p])}
    IN [ports  |-> KeepNames(copied.ports, Names(copied.ports) \ gone),
        port   |-> [p \in PortNames |-> IF p \in gone THEN ResetPort ELSE copied.port[p]],
        vendor |-> [p \in PortNames |-> IF p \in gone THEN FreshVendor ELSE copied.vendor[p]],
        alias  |-> [p \in PortNames |-> IF p \in gone THEN NoValue ELSE copied.alias[p]]]

LEMMA CopiedPortsOK ==
    ASSUME StoreOK
    PROVE  LET cand == config["candidate"].ports
               run  == config["running"].ports
               all  == Copied(Names(cand)).ports
           IN /\ KeepNames(cand, Names(cand)) = cand
              /\ all = MergedPorts(run, cand)
              /\ IsNameList(all, PortNames)
              /\ Names(all) = Names(run) \cup Added(run, cand)
<1>. DEFINE cand == config["candidate"].ports
            run == config["running"].ports
            A == Added(run, cand)
            kept == KeepNames(cand, A)
<1>1. PortListOK(run) /\ PortListOK(cand)
  BY DEF StoreOK, ConfigurationOK, Datastores
<1>2. IsNameList(run, PortNames) /\ IsNameList(cand, PortNames)
  BY <1>1 DEF PortListOK
<1>3. KeepNames(cand, Names(cand)) = cand
  BY <1>2 DEF KeepNames, IsNameList
<1>4. \A p \in A : p \in PortNames /\ p \in Matches[p] /\ ~HoldsOneOf(run, Matches[p])
  BY <1>2, DataAssumption DEF Added, IsNameList
<1>5. Names(run) \cap A = {} /\ A \subseteq Names(cand)
  BY <1>4 DEF HoldsOneOf, Added
<1>6. Names(kept) = A /\ IsNameList(kept, PortNames)
  <2>1. Names(kept) = Names(cand) \cap A /\ IsNameList(kept, PortNames)
    <3>. HIDE DEF A
    <3>. QED
      BY <1>2, KeepNamesProperties
  <2>. QED
    BY <1>5, <2>1
<1>7. MergedPorts(run, cand) = JoinNames(run, kept)
  BY DEF MergedPorts
<1>8. Names(MergedPorts(run, cand)) = Names(run) \cup A /\ IsNameList(MergedPorts(run, cand), PortNames)
  <2>. HIDE DEF A, kept
  <2>. QED
    BY <1>2, <1>5, <1>6, <1>7, JoinNamesProperties
<1>9. Copied(Names(cand)).ports = MergedPorts(run, cand)
  BY <1>3 DEF Copied
<1>. QED
  BY <1>3, <1>8, <1>9

LEMMA CopiedShape ==
    ASSUME NEW T
    PROVE  /\ Copied(T) = [ports  |-> Copied(T).ports,  port  |-> Copied(T).port,
                           vendor |-> Copied(T).vendor, alias |-> Copied(T).alias]
           /\ Copied(T).port = [p \in PortNames |-> Copied(T).port[p]]
           /\ Copied(T).vendor = [p \in PortNames |-> Copied(T).vendor[p]]
           /\ Copied(T).alias = [p \in PortNames |-> Copied(T).alias[p]]
BY DEF Copied, CopiedValues

LEMMA NothingRemoved ==
    ASSUME StoreOK
    PROVE  Removed({}) = Copied(Names(config["candidate"].ports))
<1>. DEFINE copied == Copied(Names(config["candidate"].ports))
<1>1. copied.ports = KeepNames(copied.ports, Names(copied.ports))
  <2>1. IsNameList(copied.ports, PortNames)
    BY CopiedPortsOK
  <2>. HIDE DEF copied
  <2>. QED
    BY <2>1 DEF IsNameList, KeepNames
<1>2. Removed({}) = [ports  |-> KeepNames(copied.ports, Names(copied.ports)),
                     port   |-> [p \in PortNames |-> copied.port[p]],
                     vendor |-> [p \in PortNames |-> copied.vendor[p]],
                     alias  |-> [p \in PortNames |-> copied.alias[p]]]
  BY DEF Removed
<1>. QED
  BY <1>1, <1>2, CopiedShape

LEMMA RemovedOnce ==
    ASSUME StoreOK,
           NEW T \in SUBSET Names(Copied(Names(config["candidate"].ports)).ports), NEW u \in T
    PROVE  RemoveUnlessKnown(Removed(T \ {u}), u) = Removed(T)
<1>. DEFINE cand == config["candidate"].ports
            copied == Copied(Names(cand))
            all == copied.ports
            before == {p \in T \ {u} : ~HoldsOneOf(cand, Matches[p])}
            gone == {p \in T : ~HoldsOneOf(cand, Matches[p])}
            acc == Removed(T \ {u})
<1>1. IsNameList(all, PortNames) /\ u \in Names(all) /\ u \in PortNames
  <2>1. IsNameList(all, PortNames)
    BY CopiedPortsOK
  <2>. QED
    BY <2>1 DEF IsNameList
<1>2. /\ acc = [ports |-> KeepNames(all, Names(all) \ before),
                port   |-> [p \in PortNames |-> IF p \in before THEN ResetPort ELSE copied.port[p]],
                vendor |-> [p \in PortNames |-> IF p \in before THEN FreshVendor ELSE copied.vendor[p]],
                alias  |-> [p \in PortNames |-> IF p \in before THEN NoValue ELSE copied.alias[p]]]
      /\ Removed(T) =
               [ports |-> KeepNames(all, Names(all) \ gone),
                port   |-> [p \in PortNames |-> IF p \in gone THEN ResetPort ELSE copied.port[p]],
                vendor |-> [p \in PortNames |-> IF p \in gone THEN FreshVendor ELSE copied.vendor[p]],
                alias  |-> [p \in PortNames |-> IF p \in gone THEN NoValue ELSE copied.alias[p]]]
  BY DEF Removed
<1>3. CASE HoldsOneOf(cand, Matches[u])
  <2>1. before = gone
    BY <1>3
  <2>2. RemoveUnlessKnown(acc, u) = acc
    BY <1>3 DEF RemoveUnlessKnown
  <2>. HIDE DEF before, gone, acc, copied
  <2>. QED
    BY <1>2, <2>1, <2>2 DEF acc
<1>4. CASE ~HoldsOneOf(cand, Matches[u])
  <2>1. gone = before \cup {u}
    BY <1>4
  <2>2. RemoveUnlessKnown(acc, u) =
            [acc EXCEPT !.ports = RemoveName(acc.ports, u), !.port[u] = ResetPort,
                        !.vendor[u] = FreshVendor, !.alias[u] = NoValue]
    BY <1>4 DEF RemoveUnlessKnown
  <2>3. RemoveName(KeepNames(all, Names(all) \ before), u) = KeepNames(all, Names(all) \ gone)
    <3>. HIDE DEF before, gone, all
    <3>1. Names(KeepNames(all, Names(all) \ before)) = Names(all) \cap (Names(all) \ before)
      BY <1>1, KeepNamesProperties
    <3>. QED
      BY <2>1, <3>1 DEF RemoveName, KeepNames
  <2>. HIDE DEF before, gone, copied, all, acc
  <2>4. /\ RemoveName(acc.ports, u) = Removed(T).ports
        /\ [acc.port EXCEPT ![u] = ResetPort] = Removed(T).port
        /\ [acc.vendor EXCEPT ![u] = FreshVendor] = Removed(T).vendor
        /\ [acc.alias EXCEPT ![u] = NoValue] = Removed(T).alias
    <3>1. RemoveName(acc.ports, u) = Removed(T).ports
      BY <1>2, <2>3
    <3>2. [acc.port EXCEPT ![u] = ResetPort] = Removed(T).port
      BY <1>1, <1>2, <2>1
    <3>3. [acc.vendor EXCEPT ![u] = FreshVendor] = Removed(T).vendor
      BY <1>1, <1>2, <2>1
    <3>4. [acc.alias EXCEPT ![u] = NoValue] = Removed(T).alias
      BY <1>1, <1>2, <2>1
    <3>. QED
      BY <3>1, <3>2, <3>3, <3>4
  <2>5. acc = [ports |-> acc.ports, port |-> acc.port, vendor |-> acc.vendor, alias |-> acc.alias]
    BY <1>2
  <2>6. Removed(T) = [ports |-> Removed(T).ports, port |-> Removed(T).port,
                      vendor |-> Removed(T).vendor, alias |-> Removed(T).alias]
    BY <1>2
  <2>. QED
    BY <2>2, <2>4, <2>5, <2>6 DEF acc
<1>. QED
  BY <1>3, <1>4

LEMMA RemoveLoop ==
    ASSUME StoreOK, NEW copied, copied = Copied(Names(config["candidate"].ports))
    PROVE  ForEach(RemoveUnlessKnown, copied, copied.ports) = Removed(Names(copied.ports))
<1>. DEFINE all == copied.ports
            N == Names(all)
            Is(f) == f = [T \in SUBSET N |->
                            IF T = {} THEN copied
                            ELSE RemoveUnlessKnown(f[T \ {LastOf(all, T)}], LastOf(all, T))]
            H == CHOOSE f : Is(f)
            F == [T \in SUBSET N |-> Removed(T)]
<1>1. ForEach(RemoveUnlessKnown, copied, all) = H[N]
  BY DEF ForEach, MapThenFoldSet
<1>2. IsNameList(all, PortNames)
  BY CopiedPortsOK
<1>3. \A T \in SUBSET N : T # {} => T \ {LastOf(all, T)} \in SUBSET N /\ LastOf(all, T) \in T
  <2>. TAKE T \in SUBSET N
  <2>1. T # {} => HoldsOneOf(all, T) /\ Names(all) \cap T = T
    BY DEF HoldsOneOf
  <2>. QED
    BY <1>2, <2>1, LastOfProperties
<1>4. Is(F)
  <2>1. F[{}] = copied
    BY NothingRemoved
  <2>2. ASSUME NEW T \in SUBSET N, T # {}
        PROVE  F[T] = RemoveUnlessKnown(F[T \ {LastOf(all, T)}], LastOf(all, T))
    BY <1>3, <2>2, RemovedOnce
  <2>. QED
    BY <2>1, <2>2
<1>5. Is(H)
  <2>. HIDE DEF Is
  <2>. QED
    BY <1>4
<1>. HIDE DEF H
<1>6. H[{}] = F[{}]
  BY <1>4, <1>5
<1>7. ASSUME NEW T \in SUBSET N, T # {},
             H[T \ {LastOf(all, T)}] = F[T \ {LastOf(all, T)}]
      PROVE  H[T] = F[T]
  <2>1. H[T] = RemoveUnlessKnown(H[T \ {LastOf(all, T)}], LastOf(all, T))
    BY <1>5, <1>7
  <2>2. F[T] = RemoveUnlessKnown(F[T \ {LastOf(all, T)}], LastOf(all, T))
    BY <1>4, <1>7
  <2>. QED
    BY <1>7, <2>1, <2>2
<1>. HIDE DEF Is
<1>8. H[N] = F[N]
  <2>. HIDE DEF F, all
  <2>. QED
    BY <1>2, <1>6, <1>7, LoopsAgree
<1>. QED
  BY <1>1, <1>8

\* A port that running does not list has no data and shares no dict there.
LoopInv ==
    /\ StoreOK
    /\ OnlyListed(config["running"], vendor["running"])
    /\ \A p \in PortNames \ Names(config["running"].ports) : alias[p] = NoValue

LEMMA LoopsAreCommitted == LoopInv => CommitLoopAgrees
<1>. SUFFICES ASSUME LoopInv PROVE CommitLoopAgrees
  OBVIOUS
<1>. DEFINE cand == config["candidate"].ports
            run == config["running"].ports
            copied == Copied(Names(cand))
            all == copied.ports
            gone == {p \in Names(all) : ~HoldsOneOf(cand, Matches[p])}
<1>1. StoreOK
  BY DEF LoopInv
<1>2. CommitLoops = Removed(Names(all))
  <2>1. CommitLoops = ForEach(RemoveUnlessKnown, copied, copied.ports)
    BY <1>1, CopyLoop DEF CommitLoops, Started
  <2>. QED
    BY <1>1, <2>1, RemoveLoop
<1>3. /\ KeepNames(cand, Names(cand)) = cand
      /\ all = MergedPorts(run, cand)
      /\ IsNameList(all, PortNames)
      /\ Names(all) = Names(run) \cup Added(run, cand)
  BY <1>1, CopiedPortsOK
<1>4. Names(all) \subseteq PortNames
  BY <1>3 DEF IsNameList
<1>5. KeepNames(all, Names(all) \ gone) = CommittedPorts(run, cand)
  <2>. HIDE DEF copied
  <2>. QED
    BY <1>3, <1>4 DEF CommittedPorts, KeepNames, IsNameList
<1>6. Names(CommittedPorts(run, cand)) = Names(all) \ gone
  <2>. HIDE DEF copied
  <2>1. Names(KeepNames(all, Names(all) \ gone)) = Names(all) \cap (Names(all) \ gone)
    BY <1>3, KeepNamesProperties
  <2>. QED
    BY <1>5, <2>1
<1>7. ASSUME NEW mine, NEW theirs, NEW none,
             \A p \in PortNames \ Names(run) : mine[p] = none
      PROVE  CommitValues(mine, theirs, none) =
                [p \in PortNames |-> IF p \in gone THEN none
                                     ELSE CopiedValues(Names(cand), mine, theirs)[p]]
  <2>. SUFFICES ASSUME NEW p \in PortNames
                PROVE  CommitValues(mine, theirs, none)[p] =
                          IF p \in gone THEN none ELSE CopiedValues(Names(cand), mine, theirs)[p]
    BY DEF CommitValues
  <2>1. CopiedValues(Names(cand), mine, theirs)[p] =
            IF SourceOf(run, cand, p) # NoValue THEN theirs[SourceOf(run, cand, p)] ELSE mine[p]
    BY <1>3 DEF CopiedValues
  <2>2. CASE p \in gone
    BY <1>6, <2>2 DEF CommitValues
  <2>3. CASE p \in Names(all) \ gone
    BY <1>6, <2>1, <2>3 DEF CommitValues
  <2>4. CASE p \notin Names(all)
    <3>1. SourceOf(run, cand, p) = NoValue
      <4>1. p \notin Added(run, cand) /\ p \notin Names(run)
        BY <1>3, <2>4
      <4>2. CopiedTo(run, cand, p) = {}
        <5>1. IsNameList(run, PortNames)
          BY <1>1 DEF StoreOK, ConfigurationOK, PortListOK, Datastores
        <5>2. \A x \in PortNames : HoldsOneOf(run, Matches[x]) => FirstOf(run, Matches[x]) \in Names(run)
          BY <5>1, FirstOfProperties
        <5>3. Names(cand) \subseteq PortNames
          BY <1>1 DEF StoreOK, ConfigurationOK, PortListOK, IsNameList, Datastores
        <5>. QED
          BY <4>1, <5>2, <5>3 DEF CopiedTo
      <4>. QED
        BY <4>1, <4>2 DEF SourceOf
    <3>. QED
      BY <1>3, <1>6, <1>7, <2>1, <2>4, <3>1 DEF CommitValues
  <2>. QED
    BY <2>2, <2>3, <2>4
<1>8. /\ \A p \in PortNames \ Names(run) : config["running"].port[p] = ResetPort
      /\ \A p \in PortNames \ Names(run) : vendor["running"][p] = FreshVendor
      /\ \A p \in PortNames \ Names(run) : alias[p] = NoValue
  BY DEF LoopInv, OnlyListed
<1>9. /\ copied.port = CopiedValues(Names(cand), config["running"].port, config["candidate"].port)
      /\ copied.vendor = CopiedValues(Names(cand), vendor["running"], vendor["candidate"])
      /\ copied.alias = CopiedValues(Names(cand), alias, Shared)
  BY DEF Copied
<1>10. CommittedPort = [p \in PortNames |-> IF p \in gone THEN ResetPort ELSE copied.port[p]]
  <2>. HIDE DEF copied, gone
  <2>. QED
    BY <1>7, <1>8, <1>9 DEF CommittedPort
<1>11. CommittedVendor = [p \in PortNames |-> IF p \in gone THEN FreshVendor ELSE copied.vendor[p]]
  <2>. HIDE DEF copied, gone
  <2>. QED
    BY <1>7, <1>8, <1>9 DEF CommittedVendor
<1>12. CommittedAlias = [p \in PortNames |-> IF p \in gone THEN NoValue ELSE copied.alias[p]]
  <2>1. CommittedAlias = CommitValues(alias, Shared, NoValue)
    BY DEF CommittedAlias, Shared
  <2>. HIDE DEF copied, gone
  <2>. QED
    BY <1>7, <1>8, <1>9, <2>1
<1>13. CommittedConfig.ports = CommittedPorts(run, cand)
  BY DEF CommittedConfig
<1>14. Removed(Names(all)) =
          [ports  |-> KeepNames(all, Names(all) \ gone),
           port   |-> [p \in PortNames |-> IF p \in gone THEN ResetPort ELSE copied.port[p]],
           vendor |-> [p \in PortNames |-> IF p \in gone THEN FreshVendor ELSE copied.vendor[p]],
           alias  |-> [p \in PortNames |-> IF p \in gone THEN NoValue ELSE copied.alias[p]]]
  BY DEF Removed
<1>. HIDE DEF copied, gone
<1>. QED
  BY <1>2, <1>5, <1>10, <1>11, <1>12, <1>13, <1>14 DEF CommitLoopAgrees

LEMMA LoopInvInit == Init => LoopInv
BY StoreOKInit DEF Init, LoopInv, OnlyListed, Datastores

LEMMA LoopInvCommit ==
    ASSUME LoopInv, CommitAccepted
    PROVE  LoopInv'
<1>. DEFINE run == config["running"].ports
            cand == config["candidate"].ports
            listed == Names(CommittedPorts(run, cand))
<1>1. /\ StoreOK /\ StoreOK'
      /\ config \in [Datastores -> Configuration]
      /\ vendor \in [Datastores -> [PortNames -> Vendor]]
  BY StoreOKCommit DEF LoopInv, StoreOK
<1>2. /\ config'["running"] = CommittedConfig /\ vendor'["running"] = CommittedVendor
      /\ alias' = CommittedAlias
  BY <1>1 DEF CommitAccepted, Datastores
<1>3. /\ config'["running"].ports = CommittedPorts(run, cand)
      /\ config'["running"].port = CommittedPort
  BY <1>2 DEF CommittedConfig
<1>4. \A p \in PortNames \ listed : CommittedPort[p] = ResetPort
  BY DEF CommittedPort, CommitValues
<1>5. \A p \in PortNames \ listed : CommittedVendor[p] = FreshVendor
  BY DEF CommittedVendor, CommitValues
<1>6. \A p \in PortNames \ listed : CommittedAlias[p] = NoValue
  BY DEF CommittedAlias, CommitValues
<1>. QED
  BY <1>1, <1>2, <1>3, <1>4, <1>5, <1>6 DEF LoopInv, OnlyListed

LEMMA LoopInvEdit ==
    ASSUME LoopInv, NEW d \in Datastores, NEW r \in Requests, EditConfig(d, r)
    PROVE  LoopInv'
<1>. DEFINE w == Edited(d, r)
            run == config["running"].ports
<1>1. /\ StoreOK /\ StoreOK'
      /\ config \in [Datastores -> Configuration]
      /\ vendor \in [Datastores -> [PortNames -> Vendor]]
  BY StoreOKEdit DEF LoopInv, StoreOK
<1>2. d = "running" => EditKeeps(w, run)
  <2>1. IsNameList(run, PortNames)
    BY <1>1 DEF StoreOK, ConfigurationOK, PortListOK, Datastores
  <2>2. Extends(run, run)
    BY <2>1, ExtendsItself
  <2>. QED
    BY <1>1, <2>2, EditedKeeps DEF LoopInv
<1>. HIDE DEF w
<1>3. /\ config' = [config EXCEPT ![d] = w.c]
      /\ alias' = AliasAfter(d, w.reset)
      /\ vendor' = [e \in Datastores |-> IF e = d THEN w.v ELSE Leaked(d, w.v, alias')]
  BY DEF EditConfig, w
<1>4. \A p \in PortNames : alias'[p] \in {alias[p], NoValue}
  BY <1>3 DEF AliasAfter
<1>5. CASE d = "running"
  <2>1. config'["running"] = w.c /\ vendor'["running"] = w.v
    BY <1>1, <1>3, <1>5
  <2>2. OnlyListed(w.c, w.v) /\ Names(run) \subseteq Names(w.c.ports)
    BY <1>2, <1>5 DEF EditKeeps, Extends
  <2>3. \A p \in PortNames \ Names(w.c.ports) : alias'[p] = NoValue
    BY <1>4, <2>2 DEF LoopInv
  <2>. QED
    BY <1>1, <2>1, <2>2, <2>3 DEF LoopInv
<1>6. CASE d = "candidate"
  <2>1. /\ config'["running"] = config["running"]
        /\ vendor'["running"] = Leaked(d, w.v, alias')
    BY <1>1, <1>3, <1>6 DEF Datastores
  <2>2. Other(d) = "running"
    BY <1>6 DEF Other, Datastores
  <2>3. \A p \in PortNames \ Names(run) : alias'[p] = NoValue
    BY <1>4 DEF LoopInv
  <2>4. \A p \in PortNames \ Names(run) : vendor'["running"][p] = vendor["running"][p]
    BY <1>6, <2>1, <2>2, <2>3 DEF Leaked
  <2>. QED
    BY <1>1, <2>1, <2>3, <2>4 DEF LoopInv, OnlyListed
<1>. QED
  BY <1>5, <1>6 DEF Datastores

LEMMA LoopInvRead ==
    ASSUME LoopInv, StoreOK',
           config'["running"] = config["running"] \/ config'["running"] = AsRead("running"),
           vendor'["running"] = vendor["running"],
           alias' = alias \/ alias' = [p \in PortNames |-> NoValue]
    PROVE  LoopInv'
<1>1. TypeOK /\ "running" \in Datastores
  BY StoreOKIsTypeOK DEF LoopInv, Datastores
<1>2. AsRead("running").ports = config["running"].ports
  BY <1>1, AsReadOK, StoreOKIsTypeOK DEF LoopInv
<1>3. \A p \in PortNames \ Names(config["running"].ports) :
          AsRead("running").port[p] = config["running"].port[p]
  <2>1. config["running"] \in Configuration
    BY <1>1 DEF TypeOK
  <2>2. \A p \in PortNames \ Names(config["running"].ports) : p \notin ReadPorts("running")
    BY DEF ReadPorts
  <2>. QED
    BY <2>1, <2>2 DEF AsRead, Configuration
<1>. QED
  BY <1>2, <1>3 DEF LoopInv, OnlyListed

LEMMA LoopInvStep == LoopInv /\ [Next]_vars => LoopInv'
<1>. SUFFICES ASSUME LoopInv, [Next]_vars PROVE LoopInv'
  OBVIOUS
<1>1. StoreOK'
  BY StoreOKStep DEF LoopInv
<1>2. ASSUME UNCHANGED <<config, vendor, alias>> PROVE LoopInv'
  BY <1>1, <1>2, LoopInvRead
<1>3. ASSUME NEW d \in Datastores, GetConfig(d) PROVE LoopInv'
  <2>1. config'["running"] = config["running"] \/ config'["running"] = AsRead("running")
    BY <1>3 DEF GetConfig, LoopInv, StoreOK, Datastores
  <2>. QED
    BY <1>1, <1>3, <2>1, LoopInvRead DEF GetConfig
<1>4. ASSUME config' = BothAsRead, vendor' = vendor, alias' = alias PROVE LoopInv'
  <2>1. config'["running"] = config["running"] \/ config'["running"] = AsRead("running")
    BY <1>4 DEF BothAsRead, Datastores
  <2>. QED
    BY <1>1, <1>4, <2>1, LoopInvRead
<1>5. CASE DiscardChanges
  <2>1. /\ config'["running"] = config["running"] /\ vendor'["running"] = vendor["running"]
        /\ alias' = [p \in PortNames |-> NoValue]
    BY <1>5 DEF DiscardChanges, LoopInv, StoreOK, Datastores
  <2>. QED
    BY <1>1, <2>1, LoopInvRead
<1>6. EditTargets \subseteq Datastores /\ LockTargets \subseteq Datastores
  BY DataAssumption
<1>7. ASSUME NEW d \in EditTargets, NEW r \in Requests, EditConfig(d, r)
      PROVE  LoopInv'
  BY <1>6, <1>7, LoopInvEdit
<1>. QED
  BY <1>2, <1>3, <1>4, <1>5, <1>7, LoopInvCommit
     DEF Next, vars, CompareConfiguration, LockGranted, LockRefused, Unlock, CommitRefused, Disconnect

\* Whatever clients edit, in both datastores, and whichever ports a lookup by partial
\* name takes for another: visiting the ports one by one, with each lookup in what
\* the earlier visits left, computes the closed form that CommitAccepted takes.
THEOREM LoopsCommit == Spec => []CommitLoopAgrees
<1>. QED
  BY LoopInvInit, LoopInvStep, LoopsAreCommitted, PTL DEF Spec
=============================================================================
