----------------------- MODULE RoutedInterfacesProofs -----------------------
(***************************************************************************)
(* Proofs about RoutedInterfaces and RoutedConfig, for all sessions,       *)
(* interfaces, addresses, vrfs and groups.                                 *)
(***************************************************************************)
EXTENDS RoutedConfig, OrderedNamesProofs, SequenceTheorems, FiniteSetTheorems, WellFoundedInduction, TLAPS

-----------------------------------------------------------------------------
(***************************************************************************)
(* Lists of addresses.                                                     *)
(***************************************************************************)
Elements(ips) == {ips[k] : k \in DOMAIN ips}

\* The list ips holds only what old held, and what is in new.
HoldsOnly(ips, old, new) ==
    /\ ips \in Seq(Ip)
    /\ Elements(ips) \subseteq Elements(old) \cup new

LEMMA EmptyHolds == ASSUME NEW old PROVE HoldsOnly(<<>>, old, {})
BY DEF HoldsOnly, Elements

LEMMA SameHolds == ASSUME NEW ips \in Seq(Ip) PROVE HoldsOnly(ips, ips, {})
BY DEF HoldsOnly

LEMMA OneHolds == ASSUME NEW ip \in Ip, NEW old PROVE HoldsOnly(<<ip>>, old, {ip})
BY DEF HoldsOnly, Elements

\* One place of a list is overwritten.
LEMMA PutHolds ==
    ASSUME NEW ips \in Seq(Ip), NEW ip \in Ip, NEW k
    PROVE  HoldsOnly([ips EXCEPT ![k] = ip], ips, {ip})
<1> DEFINE put == [ips EXCEPT ![k] = ip]
<1>1. ips \in [1..Len(ips) -> Ip] /\ Len(ips) \in Nat
  OBVIOUS
<1>2. put \in [1..Len(ips) -> Ip]
  BY <1>1
<1>3. put \in Seq(Ip)
  BY <1>1, <1>2, SeqDef
<1>4. Elements(put) \subseteq Elements(ips) \cup {ip}
  BY <1>1 DEF Elements
<1> QED
  BY <1>3, <1>4 DEF HoldsOnly

LEMMA WithIpHolds ==
    ASSUME NEW ips \in Seq(Ip), NEW ip \in Ip
    PROVE  HoldsOnly(WithIp(ips, ip), ips, {ip})
<1>1. HoldsOnly(Append(ips, ip), ips, {ip})
  BY DEF HoldsOnly, Elements
<1> QED
  BY <1>1, PutHolds DEF WithIp

LEMMA WithVarpHolds ==
    ASSUME NEW varp \in Seq(Ip), NEW ip \in Ip
    PROVE  WithVarp(varp, ip) \in Seq(Ip)
<1>1. Append(varp, ip) \in Seq(Ip)
  OBVIOUS
<1> QED
  BY <1>1, PutHolds DEF WithVarp, HoldsOnly

LEMMA WithoutIpHolds ==
    ASSUME NEW ips \in Seq(Ip), NEW ip
    PROVE  HoldsOnly(WithoutIp(ips, ip), ips, {})
<1> DEFINE gone == FirstPosition(ips, ip.address)
           less == [k \in 1..(Len(ips) - 1) |-> IF k < gone THEN ips[k] ELSE ips[k + 1]]
<1>1. ips \in [1..Len(ips) -> Ip] /\ Len(ips) \in Nat
  OBVIOUS
<1>2. CASE Positions(ips, ip.address) = {}
  BY <1>2, SameHolds DEF WithoutIp
<1>3. CASE Positions(ips, ip.address) # {}
  <2>1. Len(ips) - 1 \in Nat
    BY <1>1, <1>3 DEF Positions
  <2>2. \A k \in 1..(Len(ips) - 1) : k \in 1..Len(ips) /\ k + 1 \in 1..Len(ips)
    BY <1>1, <2>1
  <2> HIDE DEF gone
  <2>3. less \in [1..(Len(ips) - 1) -> Ip]
    BY <1>1, <2>2
  <2>4. less \in Seq(Ip)
    BY <2>1, <2>3, SeqDef
  <2>5. \A k \in DOMAIN less : less[k] \in Elements(ips)
    BY <1>1, <2>2 DEF Elements
  <2>6. HoldsOnly(less, ips, {})
    <3> HIDE DEF less
    <3> QED
      BY <2>4, <2>5 DEF HoldsOnly, Elements
  <2>7. WithoutIp(ips, ip) = less
    BY <1>3 DEF WithoutIp, gone
  <2> QED
    BY <2>6, <2>7
<1> QED
  BY <1>2, <1>3

-----------------------------------------------------------------------------
(***************************************************************************)
(* The inductive invariant: the shape of the state, what an interface may  *)
(* have configured, and what a session holds.                              *)
(***************************************************************************)
OneEntry(track) == track # NoValue => \A j, k \in DOMAIN track : j = k

\* What an interface may have configured when u is used.
GoodNet(u, r) ==
    /\ r \in Net
    /\ Elements(r.ips) \subseteq u.ips
    /\ u.vendor = "brocade" => \A g \in Groups : OneEntry(r.groups[g])

\* What a session holds, l being the list of interfaces and n what they have: a
\* live interface is listed, a group is held with its interface, and a live group
\* is one that the interface has.
HoldsPlace(l, n, p) ==
    /\ p.port # NoValue /\ p.live => p.port \in Names(l)
    /\ p.group # NoValue => p.port \in Interfaces
    /\ p.group # NoValue /\ p.live /\ p.groupLive => n[p.port].groups[p.group] # NoValue

Inv ==
    /\ use \in Uses
    /\ vrfs \subseteq Vrfs
    /\ IsNameList(ports, Port)
    /\ net \in [Port -> Net]
    /\ \A p \in Port : GoodNet(use, net[p])
    /\ VrfListed
    /\ at \in [Sessions -> Place]
    /\ \A s \in Sessions : HoldsPlace(ports, net, at[s])

LEMMA NoValueIsNew ==
    /\ NoValue \notin Port /\ NoValue \notin Vrfs /\ NoValue \notin Groups
    /\ NoValue \notin Track
BY RoutedInterfacesAssumption DEF Port

LEMMA NoTrackIsTrack == NoTrack \in Track /\ NoTrack # NoValue /\ OneEntry(NoTrack)
<1>1. {} \in SUBSET (Tracked \cup {NoValue}) /\ NoTrack \in [{} -> Priorities \cup {NoValue}]
  BY DEF NoTrack
<1>2. NoTrack \in Track
  BY <1>1 DEF Track
<1> QED
  BY <1>2, NoValueIsNew DEF OneEntry, NoTrack

LEMMA FreshGood == ASSUME NEW u PROVE GoodNet(u, Fresh) /\ Fresh.vrf = NoValue
<1>1. Fresh \in Net
  BY DEF Fresh, Net
<1> QED
  BY <1>1 DEF Fresh, GoodNet, Elements, OneEntry

LEMMA PlaceTypes ==
    /\ Config \in Place
    /\ \A p \in Port : InInterface(p) \in Place
BY DEF Config, Place, InInterface

LEMMA ConfigHolds == \A l, n : HoldsPlace(l, n, Config)
BY DEF HoldsPlace, Config

\* The parts of what an interface has, one at a time.
LEMMA GoodFields ==
    ASSUME NEW u, NEW r, GoodNet(u, r)
    PROVE  /\ \A ips : HoldsOnly(ips, r.ips, u.ips) => GoodNet(u, [r EXCEPT !.ips = ips])
           /\ \A secondary \in SUBSET Ip : GoodNet(u, [r EXCEPT !.secondary = secondary])
           /\ \A varp \in Seq(Ip) : GoodNet(u, [r EXCEPT !.varp = varp])
           /\ \A v \in Vrfs \cup {NoValue} : GoodNet(u, [r EXCEPT !.vrf = v])
           /\ \A g \in Groups, track \in Track \cup {NoValue} :
                 (u.vendor = "brocade" => OneEntry(track)) =>
                    GoodNet(u, [r EXCEPT !.groups[g] = track])
<1>1. r \in Net
  BY DEF GoodNet
<1>2. ASSUME NEW ips, HoldsOnly(ips, r.ips, u.ips) PROVE GoodNet(u, [r EXCEPT !.ips = ips])
  BY <1>1, <1>2 DEF GoodNet, Net, HoldsOnly
<1>3. ASSUME NEW secondary \in SUBSET Ip PROVE GoodNet(u, [r EXCEPT !.secondary = secondary])
  BY <1>1 DEF GoodNet, Net
<1>4. ASSUME NEW varp \in Seq(Ip) PROVE GoodNet(u, [r EXCEPT !.varp = varp])
  BY <1>1 DEF GoodNet, Net
<1>5. ASSUME NEW v \in Vrfs \cup {NoValue} PROVE GoodNet(u, [r EXCEPT !.vrf = v])
  BY <1>1 DEF GoodNet, Net
<1>6. ASSUME NEW g \in Groups, NEW track \in Track \cup {NoValue},
             u.vendor = "brocade" => OneEntry(track)
      PROVE  GoodNet(u, [r EXCEPT !.groups[g] = track])
  <2> DEFINE groups == [r.groups EXCEPT ![g] = track]
  <2>1. r.groups \in [Groups -> Track \cup {NoValue}]
    BY <1>1 DEF Net
  <2>2. groups \in [Groups -> Track \cup {NoValue}]
    BY <2>1
  <2>3. u.vendor = "brocade" => \A h \in Groups : OneEntry(groups[h])
    BY <1>6, <2>1 DEF GoodNet
  <2>4. [r EXCEPT !.groups[g] = track] = [r EXCEPT !.groups = groups]
    BY <1>1 DEF Net
  <2> HIDE DEF groups
  <2>5. GoodNet(u, [r EXCEPT !.groups = groups])
    BY <1>1, <2>2, <2>3 DEF GoodNet, Net
  <2> QED
    BY <2>4, <2>5
<1> QED
  BY <1>2, <1>3, <1>4, <1>5, <1>6

LEMMA InvInit == Init => Inv
<1> SUFFICES ASSUME Init PROVE Inv
  OBVIOUS
<1>1. use \in Uses /\ vrfs \subseteq Vrfs
  BY RoutedInterfacesAssumption DEF Init
<1>2. IsNameList(ports, Port)
  BY DEF Init
<1>3. net \in [Port -> Net] /\ \A p \in Port : GoodNet(use, net[p])
  <2>1. Fresh \in Net
    BY FreshGood DEF GoodNet
  <2> QED
    BY <2>1, FreshGood DEF Init
<1>4. VrfListed
  <2>1. Names(ports) \subseteq Port
    BY <1>2 DEF IsNameList
  <2> QED
    BY <2>1, FreshGood DEF Init, VrfListed
<1>5. at \in [Sessions -> Place] /\ \A s \in Sessions : HoldsPlace(ports, net, at[s])
  BY PlaceTypes, ConfigHolds DEF Init
<1> QED
  BY <1>1, <1>2, <1>3, <1>4, <1>5 DEF Inv

-----------------------------------------------------------------------------
(***************************************************************************)
(* Every step keeps the invariant.                                         *)
(***************************************************************************)

\* A step that moves one session only.
LEMMA Moved ==
    ASSUME Inv, NEW s, NEW p \in Place, HoldsPlace(ports, net, p),
           at' = [at EXCEPT ![s] = p], UNCHANGED <<use, vrfs, ports, net>>
    PROVE  Inv'
<1>1. at' \in [Sessions -> Place] /\ \A t \in Sessions : at'[t] = at[t] \/ at'[t] = p
  BY DEF Inv
<1>2. \A t \in Sessions : HoldsPlace(ports', net', at'[t])
  BY <1>1 DEF Inv
<1> QED
  BY <1>1, <1>2 DEF Inv, VrfListed

\* What a step that writes r into the interface of a session comes to.
Writes(s, r) ==
    /\ at[s].port \in Port
    /\ Set(s, r)
    /\ GoodNet(use, r)
    /\ r.vrf \in vrfs \cup {NoValue, Held(s).vrf}
    /\ UNCHANGED <<use, vrfs, ports>>

KeepsGroups(s, r) == \A g \in Groups : Held(s).groups[g] # NoValue => r.groups[g] # NoValue

LEMMA WrittenNet ==
    ASSUME Inv, NEW s \in Sessions, NEW r, Writes(s, r)
    PROVE  /\ use' \in Uses /\ vrfs' \subseteq Vrfs
           /\ IsNameList(ports', Port)
           /\ net' \in [Port -> Net]
           /\ \A p \in Port : GoodNet(use', net'[p])
           /\ VrfListed'
<1>1. net' = net \/ net' = [net EXCEPT ![at[s].port] = r]
  BY DEF Writes, Set
<1>2. r \in Net /\ \A p \in Port : net'[p] = net[p] \/ (net'[p] = r /\ p = at[s].port)
  BY <1>1 DEF Writes, Inv, GoodNet
<1>3. net' \in [Port -> Net] /\ \A p \in Port : GoodNet(use', net'[p])
  BY <1>1, <1>2 DEF Writes, Inv
<1>4. Names(ports) \subseteq Port
  BY DEF Inv, IsNameList
<1>5. VrfListed'
  BY <1>2, <1>4 DEF Inv, Writes, VrfListed, Held
<1> QED
  BY <1>3, <1>5 DEF Inv, Writes

LEMMA PlaceStays ==
    ASSUME Inv, NEW s \in Sessions, NEW r, Writes(s, r), KeepsGroups(s, r),
           NEW p \in Place, HoldsPlace(ports, net, p)
    PROVE  HoldsPlace(ports', net', p)
<1>1. net' = net \/ net' = [net EXCEPT ![at[s].port] = r]
  BY DEF Writes, Set
<1>2. p.group # NoValue => p.group \in Groups /\ p.port \in Port
  BY DEF Place, HoldsPlace, Port
<1>3. p.group # NoValue /\ p.live /\ p.groupLive => net'[p.port].groups[p.group] # NoValue
  BY <1>1, <1>2 DEF Inv, HoldsPlace, KeepsGroups, Held
<1> QED
  BY <1>3 DEF HoldsPlace, Writes

LEMMA Written ==
    ASSUME Inv, NEW s \in Sessions, NEW r, Writes(s, r), KeepsGroups(s, r), UNCHANGED at
    PROVE  Inv'
<1>1. \A t \in Sessions : HoldsPlace(ports', net', at'[t])
  BY PlaceStays DEF Inv
<1> QED
  BY <1>1, WrittenNet DEF Inv

\* An interface is made, removed or made anew: the others stay as they are.
LEMMA Replaced ==
    ASSUME Inv, NEW i \in Interfaces, IsNameList(ports', Port),
           Names(ports') \subseteq Names(ports) \cup {i},
           Names(ports) \subseteq Names(ports') \cup {i},
           net' = [net EXCEPT ![i] = Fresh], UNCHANGED <<use, vrfs>>,
           at' \in [Sessions -> Place],
           \A s \in Sessions :
              \/ HoldsPlace(ports', net', at'[s])
              \/ HoldsPlace(ports, net, at'[s]) /\ (at'[s].port = i => ~at'[s].live)
    PROVE  Inv'
<1>1. i \in Port /\ Names(ports) \subseteq Port
  BY DEF Port, Inv, IsNameList
<1>2. net' \in [Port -> Net] /\ \A p \in Port : GoodNet(use', net'[p])
  BY <1>1, FreshGood DEF Inv, GoodNet
<1>3. VrfListed'
  BY <1>1, FreshGood DEF Inv, VrfListed
<1>4. ASSUME NEW s \in Sessions PROVE HoldsPlace(ports', net', at'[s])
  <2>1. CASE HoldsPlace(ports, net, at'[s]) /\ (at'[s].port = i => ~at'[s].live)
    <3> DEFINE p == at'[s]
    <3>1. p.group # NoValue => p.port \in Port
      BY <2>1 DEF HoldsPlace, Port
    <3>2. p.port # i => (p.group # NoValue => net'[p.port] = net[p.port])
      BY <3>1 DEF Inv
    <3>3. p.port # NoValue /\ p.live => p.port \in Names(ports')
      BY <2>1 DEF HoldsPlace
    <3> QED
      BY <2>1, <3>2, <3>3 DEF HoldsPlace
  <2> QED
    BY <2>1
<1> QED
  BY <1>2, <1>3, <1>4 DEF Inv

LEMMA LosePortKeeps ==
    ASSUME Inv, NEW i
    PROVE  /\ LosePort(at, i) \in [Sessions -> Place]
           /\ \A s \in Sessions : HoldsPlace(ports, net, LosePort(at, i)[s])
           /\ \A s \in Sessions : LosePort(at, i)[s].port = i => ~LosePort(at, i)[s].live
<1>1. \A p \in Place : /\ [p EXCEPT !.live = FALSE] \in Place
                       /\ [p EXCEPT !.live = FALSE].port = p.port
                       /\ ~[p EXCEPT !.live = FALSE].live
                       /\ HoldsPlace(ports, net, p) =>
                             HoldsPlace(ports, net, [p EXCEPT !.live = FALSE])
  BY DEF Place, HoldsPlace
<1> QED
  BY <1>1 DEF Inv, LosePort

LEMMA RemoveKeeps ==
    ASSUME Inv, NEW i
    PROVE  /\ IsNameList(RemoveName(ports, i), Port)
           /\ Names(RemoveName(ports, i)) = Names(ports) \ {i}
BY KeepNamesProperties DEF Inv, RemoveName

LEMMA ConfigKeeps ==
    ASSUME Inv, NEW s \in Sessions, ConfigCommand(s)
    PROVE  Inv'
<1>1. ASSUME Leave(s) PROVE Inv'
  BY <1>1, Moved, PlaceTypes, ConfigHolds DEF Leave
<1>2. ASSUME NEW v \in use.vrfs, Vrf(s, v) PROVE Inv'
  <2>1. vrfs' \subseteq Vrfs
    BY <1>2, RoutedInterfacesAssumption DEF Vrf, Inv, Use
  <2>2. at' \in [Sessions -> Place] /\ \A t \in Sessions : HoldsPlace(ports', net', at'[t])
    BY <1>2, PlaceTypes, ConfigHolds DEF Vrf, Inv
  <2>3. VrfListed'
    BY <1>2 DEF Vrf, Inv, VrfListed
  <2> QED
    BY <1>2, <2>1, <2>2, <2>3 DEF Vrf, Inv
<1>3. ASSUME NEW v \in use.vrfs, NoVrf(s, v) PROVE Inv'
  <2>1. \A p \in Port : net'[p] = IF p \in InVrf(v) THEN [net[p] EXCEPT !.vrf = NoValue] ELSE net[p]
    BY <1>3 DEF NoVrf
  <2>2. \A p \in Port : GoodNet(use, net'[p])
    <3>1. \A p \in Port : GoodNet(use, [net[p] EXCEPT !.vrf = NoValue])
      BY GoodFields DEF Inv
    <3> QED
      BY <2>1, <3>1 DEF Inv
  <2>3. net' \in [Port -> Net]
    BY <1>3, <2>1, <2>2 DEF NoVrf, GoodNet
  <2>4. \A p \in Port : /\ net'[p].groups = net[p].groups
                        /\ net'[p].vrf = IF p \in InVrf(v) THEN NoValue ELSE net[p].vrf
    BY <2>1 DEF Inv, Net
  <2>5. VrfListed'
    <3>1. Names(ports) \subseteq Port
      BY DEF Inv, IsNameList
    <3> QED
      BY <1>3, <2>4, <3>1 DEF Inv, NoVrf, VrfListed, InVrf
  <2>6. \A t \in Sessions : HoldsPlace(ports', net', at'[t])
    BY <1>3, <2>4 DEF Inv, NoVrf, HoldsPlace, Port
  <2> QED
    BY <1>3, <2>2, <2>3, <2>5, <2>6 DEF NoVrf, Inv
<1>4. ASSUME NEW p \in Port, Interface(s, p) PROVE Inv'
  <2>1. HoldsPlace(ports, net, InInterface(p))
    BY <1>4 DEF Interface, HoldsPlace, InInterface, Config
  <2> QED
    BY <1>4, <2>1, Moved, PlaceTypes DEF Interface
<1>5. ASSUME NEW i \in Interfaces, NewInterface(s, i) PROVE Inv'
  <2>1. i \in Port
    BY DEF Port
  <2>2. IsNameList(ports', Port) /\ Names(ports') = Names(ports) \cup {i}
    BY <1>5, <2>1, AddNameProperties DEF NewInterface, Inv
  <2>3. HoldsPlace(ports', net', InInterface(i)) /\ InInterface(i) \in Place
    BY <2>1, <2>2, PlaceTypes DEF HoldsPlace, InInterface, Config
  <2>4. \A t \in Sessions : at[t].port = i => ~at[t].live
    BY <1>5, <2>1, NoValueIsNew DEF Inv, HoldsPlace, NewInterface
  <2>5. /\ at' \in [Sessions -> Place]
        /\ \A t \in Sessions : \/ HoldsPlace(ports', net', at'[t])
                               \/ HoldsPlace(ports, net, at'[t]) /\ (at'[t].port = i => ~at'[t].live)
    BY <1>5, <2>3, <2>4, PlaceTypes, ConfigHolds DEF NewInterface, Inv
  <2> QED
    BY <1>5, <2>2, <2>5, Replaced DEF NewInterface
<1>6. ASSUME NEW i \in Interfaces, RemoveInterface(s, i) PROVE Inv'
  <2>1. IsNameList(ports', Port) /\ Names(ports') = Names(ports) \ {i}
    BY <1>6, RemoveKeeps DEF RemoveInterface
  <2> DEFINE lost == LosePort(at, i)
  <2>2. \A t \in Sessions : at'[t] = lost[t] \/ at'[t] = Config
    BY <1>6, LosePortKeeps DEF RemoveInterface
  <2>3. at' \in [Sessions -> Place]
    BY <1>6, LosePortKeeps, PlaceTypes DEF RemoveInterface
  <2>4. \A t \in Sessions : \/ HoldsPlace(ports', net', at'[t])
                            \/ HoldsPlace(ports, net, at'[t]) /\ (at'[t].port = i => ~at'[t].live)
    BY <2>2, LosePortKeeps, ConfigHolds
  <2> QED
    BY <1>6, <2>1, <2>3, <2>4, Replaced DEF RemoveInterface
<1>7. ASSUME NEW i \in Interfaces, RenewInterface(s, i) PROVE Inv'
  <2>1. i \in Port /\ IsNameList(RemoveName(ports, i), Port)
        /\ Names(RemoveName(ports, i)) = Names(ports) \ {i}
    BY RemoveKeeps DEF Port
  <2>2. IsNameList(ports', Port) /\ Names(ports') = (Names(ports) \ {i}) \cup {i}
    BY <1>7, <2>1, AddNameProperties DEF RenewInterface, Renewed
  <2> QED
    BY <1>7, <2>2, LosePortKeeps, Replaced DEF RenewInterface
<1>8. ASSUME NEW p \in Port, ResetInterface(s, p) PROVE Inv'
  <2>1. net' = [net EXCEPT ![p] = [net[p] EXCEPT !.vrf = NoValue]]
    BY <1>8 DEF ResetInterface
  <2>2. GoodNet(use, [net[p] EXCEPT !.vrf = NoValue])
    BY GoodFields DEF Inv
  <2>3. net' \in [Port -> Net] /\ \A q \in Port : GoodNet(use, net'[q])
    BY <2>1, <2>2 DEF Inv, GoodNet
  <2>4. \A q \in Port : /\ net'[q].groups = net[q].groups
                        /\ net'[q].vrf \in {NoValue, net[q].vrf}
    BY <2>1 DEF Inv, Net
  <2>5. VrfListed'
    <3>1. Names(ports) \subseteq Port
      BY DEF Inv, IsNameList
    <3> QED
      BY <1>8, <2>4, <3>1 DEF Inv, ResetInterface, VrfListed
  <2>6. \A t \in Sessions : HoldsPlace(ports', net', at'[t])
    BY <1>8, <2>4 DEF Inv, ResetInterface, HoldsPlace, Port
  <2> QED
    BY <1>8, <2>3, <2>5, <2>6 DEF ResetInterface, Inv
<1> QED
  BY <1>1, <1>2, <1>3, <1>4, <1>5, <1>6, <1>7, <1>8 DEF ConfigCommand

\* Every command finds the interface of its session good.
LEMMA HeldGood ==
    ASSUME Inv, NEW s \in Sessions, at[s].port \in Port
    PROVE  GoodNet(use, Held(s)) /\ Held(s) \in Net
BY DEF Inv, Held, GoodNet

LEMMA OnInterfaceHeld ==
    ASSUME Inv, NEW s \in Sessions, NEW makes, OnInterface(s, makes)
    PROVE  /\ GoodNet(use, Held(s)) /\ Held(s) \in Net
           /\ at[s].port \in Port
           /\ vendor \in makes /\ UNCHANGED <<use, vrfs, ports>>
BY HeldGood DEF OnInterface, Port

LEMMA UseTypes ==
    ASSUME Inv
    PROVE  use.ips \subseteq Ip /\ use.varps \subseteq Ip /\ use.groups \subseteq Groups /\ use.vrfs \subseteq Vrfs
BY RoutedInterfacesAssumption DEF Inv, Use

LEMMA RestHolds ==
    ASSUME NEW s, Held(s).ips \in Seq(Ip), NEW ip
    PROVE  HoldsOnly(Rest(s, ip), Held(s).ips, {})
BY SameHolds, WithoutIpHolds DEF Rest

LEMMA HoldsOnlyTransitive ==
    ASSUME NEW a, NEW b, NEW c, NEW T, HoldsOnly(b, a, {}), HoldsOnly(c, b, T)
    PROVE  HoldsOnly(c, a, T)
BY DEF HoldsOnly

\* The interface of s is to have addresses ips: at most one new one, of which
\* the ownership was asked.
IpsStep(s, ips) ==
    \/ HoldsOnly(ips, Held(s).ips, {})
    \/ \E ip \in use.ips : MayHave(s, ip.address) /\ HoldsOnly(ips, Held(s).ips, {ip})

\* No interface changes its addresses but that of s, which s may write.
AddressChange(s) ==
    /\ UNCHANGED <<use, ports>>
    /\ \/ \A p \in Port : net'[p].ips = net[p].ips
       \/ /\ at[s].live /\ at[s].port \in Port
          /\ \A p \in Port \ {at[s].port} : net'[p].ips = net[p].ips
          /\ IpsStep(s, net'[at[s].port].ips)

LEMMA IpsStepGood ==
    ASSUME NEW s, NEW ips, IpsStep(s, ips), GoodNet(use, Held(s))
    PROVE  HoldsOnly(ips, Held(s).ips, use.ips)
BY DEF IpsStep, HoldsOnly

\* A step that writes r into the interface of its session.
LEMMA WriteChanges ==
    ASSUME Inv, NEW s \in Sessions, NEW r, Writes(s, r), IpsStep(s, r.ips)
    PROVE  AddressChange(s)
<1>1. CASE ~at[s].live
  BY <1>1 DEF Writes, Set, AddressChange
<1>2. CASE at[s].live
  <2>1. /\ \A p \in Port \ {at[s].port} : net'[p] = net[p]
        /\ net'[at[s].port] = r
        /\ at[s].port \in Port
    BY <1>2 DEF Writes, Set, Inv
  <2> QED
    BY <1>2, <2>1 DEF AddressChange, Writes
<1> QED
  BY <1>1, <1>2

\* The addresses of an interface are written.
LEMMA IpsWritten ==
    ASSUME Inv, NEW s \in Sessions, NEW makes, OnInterface(s, makes),
           NEW ips, IpsStep(s, ips),
           Set(s, [Held(s) EXCEPT !.ips = ips])
    PROVE  /\ Writes(s, [Held(s) EXCEPT !.ips = ips])
           /\ KeepsGroups(s, [Held(s) EXCEPT !.ips = ips])
           /\ AddressChange(s)
<1> DEFINE r == [Held(s) EXCEPT !.ips = ips]
<1>1. Held(s) \in Net /\ GoodNet(use, Held(s))
  BY OnInterfaceHeld
<1>2. GoodNet(use, r)
  BY <1>1, GoodFields, IpsStepGood
<1>3. r.vrf = Held(s).vrf /\ r.groups = Held(s).groups /\ r.ips = ips
  BY <1>1 DEF Net
<1>4. Writes(s, r) /\ KeepsGroups(s, r)
  <2> HIDE DEF r
  <2> QED
    BY <1>2, <1>3, OnInterfaceHeld DEF Writes, KeepsGroups, r
<1> QED
  BY <1>3, <1>4, WriteChanges

\* Everything of the interface is kept but what no property is about.
LEMMA OthersWritten ==
    ASSUME Inv, NEW s \in Sessions, NEW makes, OnInterface(s, makes),
           NEW r, GoodNet(use, r), r.ips = Held(s).ips, r.vrf = Held(s).vrf, Set(s, r)
    PROVE  Writes(s, r) /\ AddressChange(s)
<1>1. Writes(s, r)
  BY OnInterfaceHeld DEF Writes
<1>2. IpsStep(s, r.ips)
  BY OnInterfaceHeld, SameHolds DEF IpsStep, Net
<1> QED
  BY <1>1, <1>2, WriteChanges

LEMMA AddressKeeps ==
    ASSUME Inv, NEW s \in Sessions, AddressCommand(s)
    PROVE  Inv' /\ AddressChange(s)
<1>0. use.ips \subseteq Ip /\ use.varps \subseteq Ip
  BY UseTypes
<1>1. ASSUME NoAddresses(s) PROVE Inv' /\ AddressChange(s)
  <2>1. IpsStep(s, <<>>)
    BY EmptyHolds DEF IpsStep
  <2> QED
    BY <1>1, <2>1, IpsWritten, Written DEF NoAddresses
<1>2. ASSUME NEW ip \in use.ips, SecondaryAddress(s, ip) PROVE Inv' /\ AddressChange(s)
  <2>1. IpsStep(s, WithIp(Held(s).ips, ip))
    BY <1>0, <1>2, OnInterfaceHeld, WithIpHolds DEF SecondaryAddress, IpsStep, Net
  <2> QED
    BY <1>2, <2>1, IpsWritten, Written DEF SecondaryAddress
<1>3. ASSUME NEW ip \in use.ips, PrimaryAddress(s, ip) PROVE Inv' /\ AddressChange(s)
  <2>1. Held(s).ips \in Seq(Ip) /\ OnInterface(s, {"cisco", "arista"})
    BY <1>3, OnInterfaceHeld DEF PrimaryAddress, Net
  <2>2. IpsStep(s, <<ip>>)
    BY <1>0, <1>3, OneHolds DEF PrimaryAddress, IpsStep
  <2> DEFINE rest == Rest(s, ip)
             put == [rest EXCEPT ![1] = ip]
  <2>3. IpsStep(s, put)
    <3>1. HoldsOnly(rest, Held(s).ips, {})
      BY <2>1, RestHolds
    <3>2. HoldsOnly(put, rest, {ip})
      BY <1>0, <3>1, PutHolds DEF HoldsOnly
    <3> QED
      BY <1>3, <3>1, <3>2, HoldsOnlyTransitive DEF PrimaryAddress, IpsStep
  <2> QED
    BY <1>3, <2>1, <2>2, <2>3, IpsWritten, Written DEF PrimaryAddress
<1>4. ASSUME NEW ip \in use.ips, PrimaryAddressRaises(s, ip) PROVE Inv' /\ AddressChange(s)
  <2>1. IpsStep(s, <<>>)
    BY EmptyHolds DEF IpsStep
  <2> DEFINE r == [Held(s) EXCEPT !.ips = <<>>]
  <2>2. Writes(s, r) /\ KeepsGroups(s, r) /\ AddressChange(s)
    BY <1>4, <2>1, IpsWritten DEF PrimaryAddressRaises
  <2> HIDE DEF r
  <2>3. at' \in [Sessions -> Place] /\ \A t \in Sessions : at'[t] = at[t] \/ at'[t] = Config
    BY <1>4, PlaceTypes DEF PrimaryAddressRaises, Inv
  <2>4. \A t \in Sessions : HoldsPlace(ports', net', at'[t])
    BY <2>2, <2>3, PlaceStays, ConfigHolds DEF Inv
  <2> QED
    BY <2>2, <2>3, <2>4, WrittenNet DEF Inv
<1>5. ASSUME NEW ip \in use.ips, BrocadeNoAddress(s, ip) PROVE Inv' /\ AddressChange(s)
  <2>1. Held(s).ips \in Seq(Ip) /\ OnInterface(s, {"brocade"}) /\ Held(s) \in Net /\ GoodNet(use, Held(s))
    BY <1>5, OnInterfaceHeld DEF BrocadeNoAddress, Net
  <2>2. IpsStep(s, WithoutIp(Held(s).ips, ip))
    BY <2>1, WithoutIpHolds DEF IpsStep
  <2>5. ASSUME NEW gone, Set(s, [Held(s) EXCEPT !.secondary = @ \ {gone}])
        PROVE  Inv' /\ AddressChange(s)
    <3> DEFINE r == [Held(s) EXCEPT !.secondary = @ \ {gone}]
    <3>1. GoodNet(use, r) /\ r.ips = Held(s).ips /\ r.vrf = Held(s).vrf /\ KeepsGroups(s, r)
      BY <2>1, GoodFields DEF KeepsGroups, Net
    <3>2. Set(s, r)
      BY <2>5
    <3> HIDE DEF r
    <3>3. Writes(s, r) /\ AddressChange(s)
      BY <2>1, <3>1, <3>2, OthersWritten
    <3> QED
      BY <1>5, <3>1, <3>2, <3>3, Written DEF BrocadeNoAddress
  <2>6. CASE Set(s, [Held(s) EXCEPT !.ips = WithoutIp(@, ip)])
    BY <1>5, <2>1, <2>2, <2>6, IpsWritten, Written DEF BrocadeNoAddress
  <2> QED
    BY <1>5, <2>5, <2>6 DEF BrocadeNoAddress
<1>6. ASSUME NEW ip \in use.ips, NEW sec \in BOOLEAN, BrocadeAddress(s, ip, sec)
      PROVE  Inv' /\ AddressChange(s)
  <2>1. Held(s).ips \in Seq(Ip) /\ OnInterface(s, {"brocade"}) /\ Held(s) \in Net /\ GoodNet(use, Held(s))
    BY <1>6, OnInterfaceHeld DEF BrocadeAddress, Net
  <2> DEFINE r == [Held(s) EXCEPT !.secondary = @ \cup {ip}]
  <2>3. GoodNet(use, r) /\ r.ips = Held(s).ips /\ r.vrf = Held(s).vrf /\ KeepsGroups(s, r)
    BY <1>0, <2>1, GoodFields DEF KeepsGroups, Net
  <2> HIDE DEF r
  <2>4. Set(s, r) => Writes(s, r) /\ AddressChange(s)
    BY <2>1, <2>3, OthersWritten
  <2>5. CASE Set(s, r)
    BY <1>6, <2>3, <2>4, <2>5, Written DEF BrocadeAddress
  <2>6. CASE /\ Unowned(ip.address)
             /\ Set(s, [Held(s) EXCEPT !.ips = WithIp(@, ip)])
    <3>1. IpsStep(s, WithIp(Held(s).ips, ip))
      BY <1>0, <2>1, <2>6, WithIpHolds DEF IpsStep, MayHave
    <3> QED
      BY <1>6, <2>1, <2>6, <3>1, IpsWritten, Written DEF BrocadeAddress
  <2> QED
    BY <1>6, <2>5, <2>6 DEF BrocadeAddress, r
<1>7. ASSUME NEW ip \in use.ips, NEW sec \in BOOLEAN, NoAddress(s, ip, sec)
      PROVE  Inv' /\ AddressChange(s)
  <2>1. IpsStep(s, WithoutIp(Held(s).ips, ip))
    BY <1>7, OnInterfaceHeld, WithoutIpHolds DEF NoAddress, IpsStep, Net
  <2> QED
    BY <1>7, <2>1, IpsWritten, Written DEF NoAddress
<1>8. ASSUME NEW varp, Set(s, [Held(s) EXCEPT !.varp = varp]), varp \in Seq(Ip),
             OnInterface(s, {"arista"}), UNCHANGED at
      PROVE  Inv' /\ AddressChange(s)
  <2>1. Held(s) \in Net /\ GoodNet(use, Held(s))
    BY <1>8, OnInterfaceHeld
  <2> DEFINE r == [Held(s) EXCEPT !.varp = varp]
  <2>2. GoodNet(use, r) /\ r.ips = Held(s).ips /\ r.vrf = Held(s).vrf /\ KeepsGroups(s, r)
    BY <1>8, <2>1, GoodFields DEF KeepsGroups, Net
  <2>3. Set(s, r)
    BY <1>8
  <2> HIDE DEF r
  <2> QED
    BY <1>8, <2>2, <2>3, OthersWritten, Written
<1>9. ASSUME NoVirtualRouterAddresses(s) PROVE Inv' /\ AddressChange(s)
  <2>1. <<>> \in Seq(Ip)
    OBVIOUS
  <2> QED
    BY <1>8, <1>9, <2>1 DEF NoVirtualRouterAddresses
<1>10. ASSUME NEW ip \in use.varps, VirtualRouterAddress(s, ip) \/ NoVirtualRouterAddress(s, ip)
       PROVE  Inv' /\ AddressChange(s)
  <2>1. Held(s).varp \in Seq(Ip) /\ OnInterface(s, {"arista"})
    BY <1>10, OnInterfaceHeld DEF VirtualRouterAddress, NoVirtualRouterAddress, Net
  <2>2. WithVarp(Held(s).varp, ip) \in Seq(Ip) /\ WithoutIp(Held(s).varp, ip) \in Seq(Ip)
    BY <1>0, <2>1, WithVarpHolds, WithoutIpHolds DEF HoldsOnly
  <2> QED
    BY <1>8, <1>10, <2>1, <2>2 DEF VirtualRouterAddress, NoVirtualRouterAddress
<1> QED
  BY <1>1, <1>2, <1>3, <1>4, <1>5, <1>6, <1>7, <1>9, <1>10 DEF AddressCommand

LEMMA VrfKeeps ==
    ASSUME Inv, NEW s \in Sessions, VrfCommand(s)
    PROVE  Inv' /\ AddressChange(s)
<1>0. use.vrfs \subseteq Vrfs
  BY UseTypes
<1>1. at[s].port \in Port
  BY DEF VrfCommand, VrfForwarding, NoVrfForwarding, Inv, Place
<1>2. Held(s) \in Net /\ GoodNet(use, Held(s))
  BY <1>1, HeldGood
<1>3. ASSUME NEW ips, IpsStep(s, ips), NEW v \in vrfs \cup {NoValue, Held(s).vrf},
             Set(s, [Held(s) EXCEPT !.ips = ips, !.vrf = v]),
             UNCHANGED <<use, vrfs, ports, at>>
      PROVE  Inv' /\ AddressChange(s)
  <2> DEFINE q == [Held(s) EXCEPT !.ips = ips]
             r == [q EXCEPT !.vrf = v]
  <2>1. GoodNet(use, q)
    BY <1>2, <1>3, IpsStepGood, GoodFields
  <2>2. v \in Vrfs \cup {NoValue}
    BY <1>2, <1>3 DEF Inv, Net
  <2>3. GoodNet(use, r)
    <3> HIDE DEF q
    <3> QED
      BY <2>1, <2>2, GoodFields
  <2>4. r = [Held(s) EXCEPT !.ips = ips, !.vrf = v]
    BY <1>2 DEF Net
  <2>5. r.ips = ips /\ r.vrf = v /\ KeepsGroups(s, r)
    BY <1>2 DEF Net, KeepsGroups
  <2> HIDE DEF r
  <2>6. Writes(s, r)
    BY <1>1, <1>3, <2>3, <2>4, <2>5 DEF Writes
  <2> QED
    BY <1>3, <2>5, <2>6, WriteChanges, Written
<1>4. IpsStep(s, <<>>)
  BY EmptyHolds DEF IpsStep
<1>5. ASSUME NEW v \in use.vrfs, VrfForwarding(s, v) PROVE Inv' /\ AddressChange(s)
  <2>1. FoundVrf(v, Held(s).vrf) \in vrfs \cup {NoValue, Held(s).vrf}
    BY DEF FoundVrf
  <2> QED
    BY <1>3, <1>4, <1>5, <2>1 DEF VrfForwarding
<1>6. ASSUME NEW v \in use.vrfs, NoVrfForwarding(s, v) PROVE Inv' /\ AddressChange(s)
  <2>1. CASE Set(s, [Held(s) EXCEPT !.vrf = NoValue])
    <3>1. IpsStep(s, Held(s).ips)
      BY <1>2, SameHolds DEF IpsStep, Net
    <3>2. [Held(s) EXCEPT !.vrf = NoValue] = [Held(s) EXCEPT !.ips = Held(s).ips, !.vrf = NoValue]
      BY <1>2 DEF Net
    <3> QED
      BY <1>3, <1>6, <2>1, <3>1, <3>2 DEF NoVrfForwarding
  <2>2. CASE Set(s, [Held(s) EXCEPT !.ips = <<>>, !.vrf = NoValue])
    BY <1>3, <1>4, <1>6, <2>2 DEF NoVrfForwarding
  <2> QED
    BY <1>6, <2>1, <2>2 DEF NoVrfForwarding
<1> QED
  BY <1>5, <1>6 DEF VrfCommand

-----------------------------------------------------------------------------
(***************************************************************************)
(* VRRP groups.                                                            *)
(***************************************************************************)
LEMMA IsTrack ==
    ASSUME NEW D \in SUBSET (Tracked \cup {NoValue}), NEW track \in [D -> Priorities \cup {NoValue}]
    PROVE  track \in Track
BY DEF Track

LEMMA TrackTypes ==
    ASSUME NEW track \in Track
    PROVE  /\ track # NoValue
           /\ \A key \in Tracked \cup {NoValue}, value \in Priorities \cup {NoValue} :
                 Updated(track, key, value) \in Track /\ [k \in {key} |-> value] \in Track
           /\ \A key : [k \in DOMAIN track \ {key} |-> track[k]] \in Track
           /\ FirstKeys(track) \subseteq Tracked \cup {NoValue}
           /\ FirstValues(track) \subseteq Priorities \cup {NoValue}
           /\ OneEntry(track) => \A key \in FirstKeys(track) : \A value : OneEntry(Updated(track, key, value))
<1>1. PICK D \in SUBSET (Tracked \cup {NoValue}) : track \in [D -> Priorities \cup {NoValue}]
  BY DEF Track
<1>2. ASSUME NEW key \in Tracked \cup {NoValue}, NEW value \in Priorities \cup {NoValue}
      PROVE  Updated(track, key, value) \in Track /\ [k \in {key} |-> value] \in Track
  <2>1. Updated(track, key, value) \in [D \cup {key} -> Priorities \cup {NoValue}]
    BY <1>1 DEF Updated
  <2>2. D \cup {key} \in SUBSET (Tracked \cup {NoValue}) /\ {key} \in SUBSET (Tracked \cup {NoValue})
    BY <1>1
  <2>3. [k \in {key} |-> value] \in [{key} -> Priorities \cup {NoValue}]
    OBVIOUS
  <2> QED
    BY <2>1, <2>2, <2>3, IsTrack
<1>3. ASSUME NEW key PROVE [k \in DOMAIN track \ {key} |-> track[k]] \in Track
  <2>1. [k \in DOMAIN track \ {key} |-> track[k]] \in [D \ {key} -> Priorities \cup {NoValue}]
    BY <1>1
  <2>2. D \ {key} \in SUBSET (Tracked \cup {NoValue})
    BY <1>1
  <2> QED
    BY <2>1, <2>2, IsTrack
<1>4. /\ FirstKeys(track) \subseteq Tracked \cup {NoValue}
      /\ FirstValues(track) \subseteq Priorities \cup {NoValue}
  BY <1>1 DEF FirstKeys, FirstValues
<1>5. ASSUME OneEntry(track), NEW key \in FirstKeys(track), NEW value
      PROVE  OneEntry(Updated(track, key, value))
  <2>1. track # NoValue /\ \A j, k \in DOMAIN track : j = k
    BY <1>5, NoValueIsNew DEF OneEntry
  <2>2. \A j, k \in DOMAIN track \cup {key} : j = k
    BY <1>5, <2>1 DEF FirstKeys
  <2>3. DOMAIN Updated(track, key, value) = DOMAIN track \cup {key}
    BY DEF Updated
  <2> QED
    BY <2>2, <2>3 DEF OneEntry
<1> QED
  BY <1>2, <1>3, <1>4, <1>5, NoValueIsNew

\* A group of the interface is written.
LEMMA GroupWritten ==
    ASSUME Inv, NEW s \in Sessions, NEW makes, OnInterface(s, makes),
           NEW g \in Groups, NEW track \in Track \cup {NoValue},
           vendor = "brocade" => OneEntry(track),
           Set(s, [Held(s) EXCEPT !.groups[g] = track])
    PROVE  /\ Writes(s, [Held(s) EXCEPT !.groups[g] = track])
           /\ AddressChange(s)
           /\ track # NoValue => KeepsGroups(s, [Held(s) EXCEPT !.groups[g] = track])
           /\ [Held(s) EXCEPT !.groups[g] = track].groups = [Held(s).groups EXCEPT ![g] = track]
<1> DEFINE r == [Held(s) EXCEPT !.groups[g] = track]
<1>1. Held(s) \in Net /\ GoodNet(use, Held(s))
  BY OnInterfaceHeld
<1>2. GoodNet(use, r)
  BY <1>1, GoodFields DEF vendor
<1>3. /\ r.ips = Held(s).ips /\ r.vrf = Held(s).vrf
      /\ r.groups = [Held(s).groups EXCEPT ![g] = track]
  BY <1>1 DEF Net
<1>4. track # NoValue => KeepsGroups(s, r)
  <2>1. Held(s).groups \in [Groups -> Track \cup {NoValue}]
    BY <1>1 DEF Net
  <2> HIDE DEF r
  <2> QED
    BY <1>3, <2>1 DEF KeepsGroups
<1>5. Set(s, r)
  OBVIOUS
<1> HIDE DEF r
<1>6. Writes(s, r) /\ AddressChange(s)
  BY <1>2, <1>3, <1>5, OthersWritten
<1> QED
  BY <1>3, <1>4, <1>6 DEF r

\* A group that a session enters or writes is made if there is none.
LEMMA WithGroupIs ==
    ASSUME NEW r \in Net, NEW g \in Groups
    PROVE  LET track == IF r.groups[g] = NoValue THEN NoTrack ELSE r.groups[g]
           IN /\ [r EXCEPT !.groups = WithGroup(r.groups, g)] = [r EXCEPT !.groups[g] = track]
              /\ WithGroup(r.groups, g)[g] = track
              /\ track \in Track
<1> DEFINE track == IF r.groups[g] = NoValue THEN NoTrack ELSE r.groups[g]
<1>1. r.groups \in [Groups -> Track \cup {NoValue}]
  BY DEF Net
<1>2. WithGroup(r.groups, g) = [r.groups EXCEPT ![g] = track]
  BY <1>1 DEF WithGroup
<1>3. track \in Track
  BY <1>1, NoTrackIsTrack
<1>4. WithGroup(r.groups, g)[g] = track
  BY <1>1, <1>2
<1>5. [r EXCEPT !.groups[g] = track] = [r EXCEPT !.groups = [r.groups EXCEPT ![g] = track]]
  BY DEF Net
<1> QED
  BY <1>2, <1>3, <1>4, <1>5

\* A session in the mode of a live group may write it.
LEMMA GroupHeld ==
    ASSUME Inv, NEW s \in Sessions, InGroup(s)
    PROVE  /\ OnInterface(s, {vendor})
           /\ at[s].group \in Groups
           /\ HeldTrack(s) \in Track
           /\ vendor = "brocade" => OneEntry(HeldTrack(s))
           /\ \A track : SetTrack(s, track) => Set(s, [Held(s) EXCEPT !.groups[at[s].group] = track])
<1>1. /\ at[s].group \in Groups /\ at[s].port \in Interfaces /\ at[s].port \in Port
      /\ Held(s).groups[at[s].group] # NoValue
  BY DEF Inv, InGroup, HoldsPlace, Place, Held, Port
<1>2. Held(s) \in Net /\ GoodNet(use, Held(s))
  BY <1>1, HeldGood
<1>3. HeldTrack(s) \in Track /\ (vendor = "brocade" => OneEntry(HeldTrack(s)))
  BY <1>1, <1>2 DEF HeldTrack, Net, GoodNet, vendor
<1>4. ASSUME NEW track, SetTrack(s, track) PROVE Set(s, [Held(s) EXCEPT !.groups[at[s].group] = track])
  BY <1>1, <1>4 DEF SetTrack, Set, Held, InGroup, Inv
<1> QED
  BY <1>1, <1>3, <1>4 DEF OnInterface, InGroup

LEMMA TrackWritten ==
    ASSUME Inv, NEW s \in Sessions, InGroup(s), NEW track \in Track,
           vendor = "brocade" => OneEntry(track), SetTrack(s, track)
    PROVE  Inv' /\ AddressChange(s)
<1>1. /\ at[s].group \in Groups
      /\ OnInterface(s, {vendor}) /\ UNCHANGED at
      /\ Set(s, [Held(s) EXCEPT !.groups[at[s].group] = track])
  BY GroupHeld DEF InGroup
<1>2. track # NoValue
  BY TrackTypes
<1> DEFINE r == [Held(s) EXCEPT !.groups[at[s].group] = track]
<1>3. Writes(s, r) /\ KeepsGroups(s, r) /\ AddressChange(s)
  BY <1>1, <1>2, GroupWritten
<1> HIDE DEF r
<1> QED
  BY <1>1, <1>3, Written

LEMMA NoGroupKeeps ==
    ASSUME Inv, NEW s \in Sessions, NEW g \in Groups, NoGroup(s, g)
    PROVE  Inv' /\ AddressChange(s)
<1> DEFINE r == [Held(s) EXCEPT !.groups[g] = NoValue]
<1>1. /\ OnInterface(s, {"brocade", "cisco"}) /\ Set(s, r)
      /\ at' = IF at[s].live THEN LoseGroup(at, at[s].port, g) ELSE at
  BY DEF NoGroup
<1>2. Held(s) \in Net /\ at[s].port \in Port
  BY <1>1, OnInterfaceHeld
<1>3. /\ Writes(s, r) /\ AddressChange(s)
      /\ r.groups = [Held(s).groups EXCEPT ![g] = NoValue]
  BY <1>1, GroupWritten DEF OneEntry
<1>4. \A h \in Groups \ {g} : r.groups[h] = Held(s).groups[h]
  BY <1>2, <1>3 DEF Net
<1> HIDE DEF r
<1>5. CASE ~at[s].live
  <2>1. UNCHANGED <<use, vrfs, ports, net, at>>
    BY <1>1, <1>3, <1>5 DEF Set, Writes
  <2> QED
    BY <1>3, <2>1 DEF Inv, VrfListed
<1>6. CASE at[s].live
  <2> DEFINE i == at[s].port
  <2>1. net' = [net EXCEPT ![i] = r] /\ at' = LoseGroup(at, i, g)
    BY <1>1, <1>6 DEF Set
  <2>2. \A p \in Place : [p EXCEPT !.groupLive = FALSE] \in Place
    BY DEF Place
  <2>3. at' \in [Sessions -> Place]
    BY <2>1, <2>2 DEF LoseGroup, Inv
  <2>4. ASSUME NEW t \in Sessions PROVE HoldsPlace(ports', net', at'[t])
    <3>1. at[t] \in Place /\ HoldsPlace(ports, net, at[t]) /\ ports' = ports
      BY <1>3 DEF Inv, Writes
    <3>2. at[t].group # NoValue => at[t].group \in Groups /\ at[t].port \in Port
      BY <3>1 DEF HoldsPlace, Place, Port
    <3>3. CASE at[t].port = i /\ at[t].group = g
      <4>1. at'[t] = [at[t] EXCEPT !.groupLive = FALSE]
        BY <2>1, <3>3 DEF LoseGroup
      <4> QED
        BY <3>1, <4>1 DEF HoldsPlace, Place
    <3>4. CASE ~(at[t].port = i /\ at[t].group = g)
      <4>1. at'[t] = at[t]
        BY <2>1, <3>4 DEF LoseGroup
      <4>2. at[t].group # NoValue =>
               net'[at[t].port].groups[at[t].group] = net[at[t].port].groups[at[t].group]
        BY <1>2, <1>4, <2>1, <3>2, <3>4 DEF Held, Inv
      <4> QED
        BY <3>1, <4>1, <4>2 DEF HoldsPlace
    <3> QED
      BY <3>3, <3>4
  <2> QED
    BY <1>3, <2>3, <2>4, WrittenNet DEF Inv
<1> QED
  BY <1>5, <1>6

LEMMA EnterGroupKeeps ==
    ASSUME Inv, NEW s \in Sessions, NEW g \in Groups, EnterGroup(s, g)
    PROVE  Inv' /\ AddressChange(s)
<1> DEFINE track == IF Held(s).groups[g] = NoValue THEN NoTrack ELSE Held(s).groups[g]
           r == [Held(s) EXCEPT !.groups[g] = track]
           entered == [at[s] EXCEPT !.group = g, !.groupLive = TRUE]
<1>1. OnInterface(s, {"brocade"}) /\ at[s].port \in Interfaces
  BY DEF EnterGroup, OnInterface
<1>2. Held(s) \in Net /\ GoodNet(use, Held(s)) /\ at[s].port \in Port
  BY <1>1, OnInterfaceHeld
<1>3. track \in Track /\ (vendor = "brocade" => OneEntry(track))
  BY <1>2, WithGroupIs, NoTrackIsTrack DEF GoodNet, vendor
<1>4. track # NoValue
  BY <1>3, TrackTypes
<1>5. Set(s, r)
  BY <1>2, WithGroupIs DEF EnterGroup
<1> HIDE DEF track
<1>6. /\ Writes(s, r) /\ KeepsGroups(s, r) /\ AddressChange(s)
      /\ r.groups[g] = track
  BY <1>1, <1>2, <1>3, <1>4, <1>5, GroupWritten DEF Net
<1> HIDE DEF r
<1>7. /\ at' = [at EXCEPT ![s] = entered]
      /\ entered \in Place
      /\ entered.port = at[s].port /\ entered.live = at[s].live /\ entered.group = g
  BY <1>2 DEF EnterGroup, Inv, Place
<1>8. HoldsPlace(ports', net', entered)
  <2>1. at[s].live => net'[at[s].port] = r /\ at[s].port \in Names(ports')
    BY <1>2, <1>5, <1>6, NoValueIsNew DEF Set, Inv, HoldsPlace, Writes
  <2> HIDE DEF entered
  <2> QED
    BY <1>1, <1>4, <1>6, <1>7, <2>1 DEF HoldsPlace
<1> HIDE DEF entered
<1>9. /\ at' \in [Sessions -> Place]
      /\ \A t \in Sessions : HoldsPlace(ports', net', at'[t])
  BY <1>6, <1>7, <1>8, PlaceStays DEF Inv
<1> QED
  BY <1>6, <1>9, WrittenNet DEF Inv

LEMMA GroupKeeps ==
    ASSUME Inv, NEW s \in Sessions, GroupCommand(s)
    PROVE  Inv' /\ AddressChange(s)
<1>0. use.groups \subseteq Groups
  BY UseTypes
<1>1. ASSUME LeaveGroup(s) PROVE Inv' /\ AddressChange(s)
  <2> DEFINE p == [at[s] EXCEPT !.group = NoValue, !.groupLive = TRUE]
  <2>1. p \in Place /\ HoldsPlace(ports, net, p)
    BY DEF Inv, Place, HoldsPlace
  <2> HIDE DEF p
  <2>2. at' = [at EXCEPT ![s] = p] /\ UNCHANGED <<use, vrfs, ports, net>>
    BY <1>1 DEF LeaveGroup, p
  <2> QED
    BY <2>1, <2>2, Moved DEF AddressChange
<1>2. ASSUME NEW g \in Groups, NEW makes, OnInterface(s, makes), UNCHANGED at,
             NEW track \in Track,
             vendor = "brocade" => OneEntry(track),
             Set(s, [Held(s) EXCEPT !.groups[g] = track])
      PROVE  Inv' /\ AddressChange(s)
  <2> DEFINE r == [Held(s) EXCEPT !.groups[g] = track]
  <2>1. track # NoValue
    BY TrackTypes
  <2>2. Writes(s, r) /\ KeepsGroups(s, r) /\ AddressChange(s)
    BY <1>2, <2>1, GroupWritten
  <2> HIDE DEF r
  <2> QED
    BY <1>2, <2>2, Written
<1>3. ASSUME NEW g \in use.groups, Standby(s, g) PROVE Inv' /\ AddressChange(s)
  <2> DEFINE track == IF Held(s).groups[g] = NoValue THEN NoTrack ELSE Held(s).groups[g]
  <2>1. g \in Groups /\ OnInterface(s, {"cisco"}) /\ vendor = "cisco" /\ Held(s) \in Net
    BY <1>0, <1>3, OnInterfaceHeld DEF Standby
  <2>2. track \in Track /\ Set(s, [Held(s) EXCEPT !.groups[g] = track])
    BY <1>3, <2>1, WithGroupIs DEF Standby
  <2> HIDE DEF track
  <2> QED
    BY <1>2, <1>3, <2>1, <2>2 DEF Standby
<1>4. ASSUME NEW g \in use.groups, NEW key \in Tracked, NEW value \in Priorities,
             StandbyTrack(s, g, key, value)
      PROVE  Inv' /\ AddressChange(s)
  <2> DEFINE groups == WithGroup(Held(s).groups, g)
             track == Updated(groups[g], key, value)
  <2>1. g \in Groups /\ OnInterface(s, {"cisco"}) /\ vendor = "cisco" /\ Held(s) \in Net
    BY <1>0, <1>4, OnInterfaceHeld DEF StandbyTrack
  <2>2. groups[g] \in Track
    BY <2>1, WithGroupIs
  <2>3. track \in Track
    BY <2>2, TrackTypes
  <2>4. [groups EXCEPT ![g] = track] = [Held(s).groups EXCEPT ![g] = track]
    BY <2>1 DEF Net, WithGroup
  <2>5. Set(s, [Held(s) EXCEPT !.groups = [groups EXCEPT ![g] = track]])
    BY <1>4 DEF StandbyTrack
  <2>6. Set(s, [Held(s) EXCEPT !.groups[g] = track])
    <3> HIDE DEF track, groups
    <3>1. [Held(s) EXCEPT !.groups[g] = track] = [Held(s) EXCEPT !.groups = [groups EXCEPT ![g] = track]]
      BY <2>1, <2>4 DEF Net
    <3> QED
      BY <2>5, <3>1
  <2> HIDE DEF track
  <2> QED
    BY <1>2, <1>4, <2>1, <2>3, <2>6 DEF StandbyTrack
<1>5. ASSUME NEW g \in use.groups, NEW key \in Tracked, NoStandbyTrack(s, g, key)
      PROVE  Inv' /\ AddressChange(s)
  <2> DEFINE old == Held(s).groups[g]
             track == [k \in DOMAIN old \ {key} |-> old[k]]
  <2>1. g \in Groups /\ OnInterface(s, {"cisco"}) /\ vendor = "cisco" /\ Held(s) \in Net
    BY <1>0, <1>5, OnInterfaceHeld DEF NoStandbyTrack
  <2>2. old \in Track
    BY <1>5, <2>1 DEF NoStandbyTrack, Net
  <2>3. track \in Track
    BY <2>2, TrackTypes
  <2>4. Set(s, [Held(s) EXCEPT !.groups[g] = track])
    BY <1>5 DEF NoStandbyTrack
  <2> HIDE DEF track
  <2> QED
    BY <1>2, <1>5, <2>1, <2>3, <2>4 DEF NoStandbyTrack
<1>6. ASSUME NEW value \in Priorities \cup {NoValue}, Backup(s, value)
      PROVE  Inv' /\ AddressChange(s)
  <2>1. PICK key \in FirstKeys(HeldTrack(s)) : SetTrack(s, Updated(HeldTrack(s), key, value))
    BY <1>6 DEF Backup
  <2>2. InGroup(s) /\ HeldTrack(s) \in Track /\ (vendor = "brocade" => OneEntry(HeldTrack(s)))
    BY <1>6, GroupHeld DEF Backup
  <2>3. /\ Updated(HeldTrack(s), key, value) \in Track
        /\ vendor = "brocade" => OneEntry(Updated(HeldTrack(s), key, value))
    BY <2>2, TrackTypes
  <2> QED
    BY <2>1, <2>2, <2>3, TrackWritten
<1>7. ASSUME NEW key \in Tracked \cup {NoValue}, TrackPort(s, key)
      PROVE  Inv' /\ AddressChange(s)
  <2>1. PICK value \in FirstValues(HeldTrack(s)) : SetTrack(s, [k \in {key} |-> value])
    BY <1>7 DEF TrackPort
  <2>2. InGroup(s) /\ HeldTrack(s) \in Track
    BY <1>7, GroupHeld DEF TrackPort
  <2>3. [k \in {key} |-> value] \in Track /\ OneEntry([k \in {key} |-> value])
    <3>1. value \in Priorities \cup {NoValue}
      BY <2>2, TrackTypes
    <3>2. [k \in {key} |-> value] \in Track
      BY <2>2, <3>1, TrackTypes
    <3>3. OneEntry([k \in {key} |-> value])
      BY DEF OneEntry
    <3> QED
      BY <3>2, <3>3
  <2> QED
    BY <2>1, <2>2, <2>3, TrackWritten
<1> QED
  BY <1>0, <1>1, <1>3, <1>4, <1>5, <1>6, <1>7, NoGroupKeeps, EnterGroupKeeps DEF GroupCommand

LEMMA InvNext == Inv /\ [Next]_vars => Inv'
<1>1. ASSUME Inv, NEW s \in Sessions,
             ConfigCommand(s) \/ AddressCommand(s) \/ VrfCommand(s) \/ GroupCommand(s)
      PROVE  Inv'
  BY <1>1, ConfigKeeps, AddressKeeps, VrfKeeps, GroupKeeps
<1>2. ASSUME Inv, UNCHANGED vars PROVE Inv'
  BY <1>2 DEF Inv, vars, VrfListed
<1> QED
  BY <1>1, <1>2 DEF Next

LEMMA InvAlways == Spec => []Inv
BY InvInit, InvNext, PTL DEF Spec

\* Whatever the sessions type, no interface is listed twice and every address,
\* vrf and group keeps its shape.
THEOREM RoutedTyped == Spec => []TypeOK
<1>1. Inv => TypeOK
  BY DEF Inv, TypeOK
<1> QED
  BY <1>1, InvAlways, PTL

\* No listed interface has a vrf that the switch does not have, whichever
\* sessions remove vrfs while others configure the interfaces that have them.
THEOREM VrfListedAlways == Spec => []VrfListed
<1>1. Inv => VrfListed
  BY DEF Inv
<1> QED
  BY <1>1, InvAlways, PTL

\* A VRRP group of a Brocade tracks at most one port, so the first key and the
\* first value of its dict are those of the one entry.
THEOREM TracksOneAlways == Spec => []TracksOne
<1>1. Inv => TracksOne
  BY DEF Inv, TracksOne, GoodNet, OneEntry, vendor, Port
<1> QED
  BY <1>1, InvAlways, PTL

-----------------------------------------------------------------------------
(***************************************************************************)
(* The owners of networks.                                                 *)
(***************************************************************************)

\* The networks that a lookup finds interface i for.
Has(i) == IF i \in Names(ports) THEN SeenNetworksOf(i) ELSE {}

NetworksIn(ips) == {ips[k].network : k \in DOMAIN ips}

LEMMA HasNetworks ==
    ASSUME NEW i
    PROVE  /\ Has(i) = IF i \in Names(ports) THEN NetworksIn(net[i].ips) ELSE {}
           /\ Has(i)' = IF i \in Names(ports') THEN NetworksIn(net'[i].ips) ELSE {}
BY DEF Has, SeenNetworksOf, NetworksIn

LEMMA SameNetworks ==
    ASSUME NEW i, i \in Names(ports') <=> i \in Names(ports), net'[i].ips = net[i].ips
    PROVE  Has(i)' = Has(i)
BY HasNetworks

OwnsApart == \A i, j \in Interfaces : i # j => Has(i) \cap Has(j) = {}

SeenApart == Plain => OwnsApart

\* What a step does to the networks: one interface gives up some, and takes at
\* most one that no other interface has.
NetworkChange ==
    \/ \A j \in Interfaces : Has(j)' = Has(j)
    \/ \E i \in Interfaces :
          /\ \A j \in Interfaces \ {i} : Has(j)' = Has(j)
          /\ \/ Has(i)' \subseteq Has(i)
             \/ \E ip \in use.ips :
                   /\ Has(i)' \subseteq Has(i) \cup {ip.network}
                   /\ \A j \in Interfaces \ {i} : ip.network \notin Has(j)

LEMMA ConfigChanges ==
    ASSUME Inv, NEW s \in Sessions, ConfigCommand(s)
    PROVE  UNCHANGED use /\ NetworkChange
<1>0. Interfaces \subseteq Port
  BY DEF Port
<1>1. ASSUME UNCHANGED ports, \A p \in Port : net'[p].ips = net[p].ips PROVE NetworkChange
  BY <1>0, <1>1, SameNetworks DEF NetworkChange
<1>2. ASSUME NEW i \in Interfaces, net' = [net EXCEPT ![i] = Fresh],
             \A j \in Interfaces \ {i} : j \in Names(ports') <=> j \in Names(ports)
      PROVE  NetworkChange
  <2>1. \A j \in Interfaces \ {i} : Has(j)' = Has(j)
    BY <1>0, <1>2, SameNetworks DEF Inv
  <2>2. Has(i)' = {}
    BY <1>0, <1>2 DEF Has, SeenNetworksOf, Fresh, Inv
  <2> QED
    BY <2>1, <2>2 DEF NetworkChange
<1>3. ASSUME Leave(s) PROVE UNCHANGED use /\ NetworkChange
  BY <1>1, <1>3 DEF Leave
<1>4. ASSUME NEW v \in use.vrfs, Vrf(s, v) PROVE UNCHANGED use /\ NetworkChange
  BY <1>1, <1>4 DEF Vrf
<1>5. ASSUME NEW v \in use.vrfs, NoVrf(s, v) PROVE UNCHANGED use /\ NetworkChange
  <2>1. \A p \in Port : net'[p].ips = net[p].ips
    BY <1>5 DEF NoVrf, Inv, Net
  <2> QED
    BY <1>1, <1>5, <2>1 DEF NoVrf
<1>6. ASSUME NEW p \in Port, Interface(s, p) PROVE UNCHANGED use /\ NetworkChange
  BY <1>1, <1>6 DEF Interface
<1>7. ASSUME NEW i \in Interfaces, NewInterface(s, i) PROVE UNCHANGED use /\ NetworkChange
  <2>1. Names(ports') = Names(ports) \cup {i}
    BY <1>0, <1>7, AddNameProperties DEF NewInterface, Inv
  <2> QED
    BY <1>2, <1>7, <2>1 DEF NewInterface
<1>8. ASSUME NEW i \in Interfaces, RemoveInterface(s, i) PROVE UNCHANGED use /\ NetworkChange
  <2>1. Names(ports') = Names(ports) \ {i}
    BY <1>8, RemoveKeeps DEF RemoveInterface
  <2> QED
    BY <1>2, <1>8, <2>1 DEF RemoveInterface
<1>9. ASSUME NEW i \in Interfaces, RenewInterface(s, i) PROVE UNCHANGED use /\ NetworkChange
  <2>1. /\ IsNameList(RemoveName(ports, i), Port)
        /\ Names(RemoveName(ports, i)) = Names(ports) \ {i}
    BY RemoveKeeps
  <2>2. Names(ports') = (Names(ports) \ {i}) \cup {i}
    BY <1>0, <1>9, <2>1, AddNameProperties DEF RenewInterface, Renewed
  <2> QED
    BY <1>2, <1>9, <2>2 DEF RenewInterface
<1>10. ASSUME NEW p \in Port, ResetInterface(s, p) PROVE UNCHANGED use /\ NetworkChange
  <2>1. \A q \in Port : net'[q].ips = net[q].ips
    BY <1>10 DEF ResetInterface, Inv, Net
  <2> QED
    BY <1>1, <1>10, <2>1 DEF ResetInterface
<1> QED
  BY <1>3, <1>4, <1>5, <1>6, <1>7, <1>8, <1>9, <1>10 DEF ConfigCommand

\* A session that may have an address takes its network from no other interface:
\* if an interface has the network, the first that holds the address is the
\* session's own, and has that network already.
LEMMA MayHaveFree ==
    ASSUME Inv, Plain, OwnsApart, NEW s \in Sessions, NEW ip \in use.ips,
           MayHave(s, ip.address), at[s].port \in Interfaces,
           NEW j \in Interfaces, j # at[s].port
    PROVE  ip.network \notin Has(j)
<1> SUFFICES ASSUME ip.network \in Has(j) PROVE FALSE
  OBVIOUS
<1> DEFINE a == ip.address
           i == at[s].port
<1>0. ip \in Ip /\ a \in ip.network
  BY UseTypes DEF Ip
<1>1. j \in Names(ports) \cap Owners(a)
  BY <1>0 DEF Has, SeenNetworksOf, Owners, Holding
<1>2. Mine(s, a)
  BY <1>1 DEF MayHave, Unowned, HoldsOneOf
<1>3. i \in Names(ports) \cap Owners(a)
  BY <1>2, FirstOfProperties DEF Mine, OwnedBy, Unowned, Inv
<1>4. PICK k \in DOMAIN net[i].ips : a \in net[i].ips[k].network
  BY <1>3 DEF Owners, Holding
<1>5. net[i].ips[k] \in use.ips
  BY <1>4 DEF Inv, GoodNet, Elements, Port
<1>6. net[i].ips[k].network = ip.network
  BY <1>0, <1>4, <1>5 DEF Plain
<1>7. ip.network \in Has(i)
  BY <1>3, <1>4, <1>6 DEF Has, SeenNetworksOf
<1> QED
  BY <1>7 DEF OwnsApart

LEMMA AddressChanges ==
    ASSUME Inv, Plain, OwnsApart, NEW s \in Sessions, AddressChange(s)
    PROVE  NetworkChange
<1>0. Interfaces \subseteq Port /\ ports' = ports
  BY DEF Port, AddressChange
<1>1. CASE \A j \in Interfaces : net'[j].ips = net[j].ips
  BY <1>0, <1>1, SameNetworks DEF NetworkChange
<1>2. ASSUME NEW i \in Interfaces, i = at[s].port,
             \A p \in Port \ {i} : net'[p].ips = net[p].ips,
             IpsStep(s, net'[i].ips)
      PROVE  NetworkChange
  <2>1. \A j \in Interfaces \ {i} : Has(j)' = Has(j)
    BY <1>0, <1>2, SameNetworks
  <2>2. ASSUME NEW new, HoldsOnly(net'[i].ips, net[i].ips, new)
        PROVE  Has(i)' \subseteq Has(i) \cup {ip.network : ip \in new}
    <3>1. NetworksIn(net'[i].ips) \subseteq NetworksIn(net[i].ips) \cup {ip.network : ip \in new}
      BY <2>2 DEF HoldsOnly, Elements, NetworksIn
    <3> QED
      BY <1>0, <3>1, HasNetworks
  <2>3. CASE HoldsOnly(net'[i].ips, net[i].ips, {})
    <3>1. Has(i)' \subseteq Has(i)
      BY <2>2, <2>3
    <3> QED
      BY <2>1, <3>1 DEF NetworkChange
  <2>4. ASSUME NEW ip \in use.ips, MayHave(s, ip.address), HoldsOnly(net'[i].ips, net[i].ips, {ip})
        PROVE  NetworkChange
    <3>1. Has(i)' \subseteq Has(i) \cup {ip.network}
      BY <2>2, <2>4
    <3>2. \A j \in Interfaces \ {i} : ip.network \notin Has(j)
      BY <1>2, <2>4, MayHaveFree
    <3> QED
      BY <2>1, <3>1, <3>2 DEF NetworkChange
  <2> QED
    BY <1>2, <2>3, <2>4 DEF IpsStep, Held
<1> QED
  BY <1>0, <1>1, <1>2 DEF AddressChange

LEMMA StepChanges ==
    ASSUME Inv, Plain, OwnsApart, Next
    PROVE  NetworkChange
BY ConfigChanges, AddressKeeps, VrfKeeps, GroupKeeps, AddressChanges DEF Next

LEMMA UseStays ==
    ASSUME Inv, [Next]_vars
    PROVE  use' = use /\ (Plain' <=> Plain) /\ (NoOrphans' <=> NoOrphans)
<1>1. use' = use
  BY ConfigChanges, AddressKeeps, VrfKeeps, GroupKeeps DEF Next, AddressChange, vars
<1> QED
  BY <1>1 DEF Plain, NoOrphans, vendor

LEMMA ApartNext == Inv /\ SeenApart /\ [Next]_vars => SeenApart'
<1> SUFFICES ASSUME Inv, SeenApart, [Next]_vars, Plain' PROVE OwnsApart'
  BY DEF SeenApart
<1>1. Plain /\ OwnsApart
  BY UseStays DEF SeenApart
<1>2. CASE UNCHANGED vars
  <2>1. \A i \in Interfaces : Has(i)' = Has(i)
    BY <1>2, SameNetworks DEF vars
  <2> QED
    BY <1>1, <2>1 DEF OwnsApart
<1>3. CASE Next
  <2>1. NetworkChange
    BY <1>1, <1>3, StepChanges
  <2> QED
    BY <1>1, <2>1 DEF NetworkChange, OwnsApart
<1> QED
  BY <1>2, <1>3

LEMMA NothingAtFirst == Init => \A i \in Interfaces : Has(i) = {}
BY DEF Init, Has, SeenNetworksOf, Fresh, Port

LEMMA SeenApartAlways == Spec => []SeenApart
<1>1. Init => SeenApart
  BY NothingAtFirst DEF SeenApart, OwnsApart
<1> QED
  BY <1>1, InvAlways, ApartNext, PTL DEF Spec

-----------------------------------------------------------------------------
(***************************************************************************)
(* Lists of addresses, and the commands that change one.                   *)
(***************************************************************************)
LEMMA LeastExists ==
    ASSUME NEW T \in SUBSET Nat, T # {}
    PROVE  \E k \in T : \A j \in T : k <= j
<1>1. PICK k \in T : \A j \in T : ~(<<j, k>> \in OpToRel(<, Nat))
  BY NatLessThanWellFounded, WFMin, Zenon
<1>2. \A j \in T : ~(j < k)
  BY <1>1 DEF OpToRel
<1> QED
  BY <1>2

LEMMA FirstPositionIs ==
    ASSUME NEW ips \in Seq(Ip), NEW a, Positions(ips, a) # {}
    PROVE  /\ FirstPosition(ips, a) \in 1..Len(ips)
           /\ ips[FirstPosition(ips, a)].address = a
<1>1. Positions(ips, a) \in SUBSET Nat
  BY DEF Positions
<1>2. \E k \in Positions(ips, a) : \A j \in Positions(ips, a) : k <= j
  BY <1>1, LeastExists
<1>3. FirstPosition(ips, a) \in Positions(ips, a)
  BY <1>2 DEF FirstPosition
<1> QED
  BY <1>3 DEF Positions

\* remove_ip closes the gap.
LEMMA WithoutIpIs ==
    ASSUME NEW ips \in Seq(Ip), NEW ip, Positions(ips, ip.address) # {}
    PROVE  LET gone == FirstPosition(ips, ip.address)
               less == WithoutIp(ips, ip)
           IN /\ gone \in 1..Len(ips) /\ ips[gone].address = ip.address
              /\ DOMAIN less = 1..(Len(ips) - 1)
              /\ \A k \in DOMAIN less : less[k] = IF k < gone THEN ips[k] ELSE ips[k + 1]
BY FirstPositionIs DEF WithoutIp

NestsNone(ips) ==
    \A k \in DOMAIN ips : \A j \in 1..(k - 1) : ips[k].address \notin ips[j].network

NoneTwice(ips) ==
    \A j, k \in DOMAIN ips : ips[j].address = ips[k].address => j = k

LEMMA WithoutIpApart ==
    ASSUME NEW ips \in Seq(Ip), NEW ip
    PROVE  /\ NestsNone(ips) => NestsNone(WithoutIp(ips, ip))
           /\ NoneTwice(ips) => NoneTwice(WithoutIp(ips, ip))
           /\ NoneTwice(ips) => Positions(WithoutIp(ips, ip), ip.address) = {}
<1>1. CASE Positions(ips, ip.address) = {}
  BY <1>1 DEF WithoutIp
<1>2. CASE Positions(ips, ip.address) # {}
  <2> DEFINE gone == FirstPosition(ips, ip.address)
             less == WithoutIp(ips, ip)
             from(k) == IF k < gone THEN k ELSE k + 1
  <2>1. /\ gone \in 1..Len(ips) /\ ips[gone].address = ip.address
        /\ DOMAIN less = 1..(Len(ips) - 1)
        /\ \A k \in DOMAIN less : less[k] = IF k < gone THEN ips[k] ELSE ips[k + 1]
    BY <1>2, WithoutIpIs
  <2> HIDE DEF gone, less
  <2>2. Len(ips) \in Nat /\ DOMAIN ips = 1..Len(ips)
    OBVIOUS
  <2>3. \A k \in DOMAIN less : /\ less[k] = ips[from(k)]
                               /\ from(k) \in DOMAIN ips /\ from(k) # gone
    BY <2>1, <2>2
  <2>4. \A j, k \in DOMAIN less : (from(j) = from(k) => j = k) /\ (j < k => from(j) < from(k))
    BY <2>1, <2>2
  <2>5. ASSUME NestsNone(ips) PROVE NestsNone(less)
    <3> SUFFICES ASSUME NEW k \in DOMAIN less, NEW j \in 1..(k - 1)
                 PROVE  less[k].address \notin less[j].network
      BY DEF NestsNone
    <3>1. j \in DOMAIN less /\ j < k
      BY <2>1, <2>2
    <3>2. from(k) \in DOMAIN ips /\ from(j) \in 1..(from(k) - 1)
      BY <2>2, <2>3, <2>4, <3>1
    <3> QED
      BY <2>3, <2>5, <3>1, <3>2 DEF NestsNone
  <2>6. ASSUME NoneTwice(ips) PROVE NoneTwice(less)
    <3> SUFFICES ASSUME NEW j \in DOMAIN less, NEW k \in DOMAIN less,
                        less[j].address = less[k].address
                 PROVE  j = k
      BY DEF NoneTwice
    <3>1. from(j) = from(k)
      BY <2>3, <2>6 DEF NoneTwice
    <3> QED
      BY <2>4, <3>1
  <2>7. ASSUME NoneTwice(ips) PROVE Positions(less, ip.address) = {}
    <3> SUFFICES ASSUME NEW k \in DOMAIN less, less[k].address = ip.address PROVE FALSE
      BY DEF Positions
    <3>1. ips[from(k)].address = ips[gone].address
      BY <2>1, <2>3
    <3> QED
      BY <2>1, <2>2, <2>3, <2>7, <3>1 DEF NoneTwice
  <2> QED
    BY <2>5, <2>6, <2>7 DEF less
<1> QED
  BY <1>1, <1>2

LEMMA AppendIs ==
    ASSUME NEW ips \in Seq(Ip), NEW ip \in Ip
    PROVE  /\ DOMAIN Append(ips, ip) = 1..(Len(ips) + 1) /\ Len(ips) \in Nat
           /\ \A k \in 1..Len(ips) : Append(ips, ip)[k] = ips[k]
           /\ Append(ips, ip)[Len(ips) + 1] = ip
OBVIOUS

LEMMA WithIpApart ==
    ASSUME NEW ips \in Seq(Ip), NEW ip \in Ip, NestsNone(ips), Holding(ips, ip.address) = {}
    PROVE  NestsNone(WithIp(ips, ip))
<1>0. Len(ips) \in Nat /\ DOMAIN ips = 1..Len(ips)
  OBVIOUS
<1> DEFINE more == Append(ips, ip)
<1>1. /\ DOMAIN more = 1..(Len(ips) + 1)
      /\ \A k \in 1..Len(ips) : more[k] = ips[k]
      /\ more[Len(ips) + 1] = ip
  BY AppendIs
<1>2. Positions(ips, ip.address) = {}
  BY DEF Positions, Holding, Ip
<1>3. WithIp(ips, ip) = more
  BY <1>2 DEF WithIp
<1> HIDE DEF more
<1>4. ASSUME NEW k \in DOMAIN more, NEW j \in 1..(k - 1)
      PROVE  more[k].address \notin more[j].network
  <2>1. j \in 1..Len(ips) /\ more[j] = ips[j]
    BY <1>0, <1>1
  <2>2. CASE k \in 1..Len(ips)
    BY <1>0, <1>1, <2>1, <2>2 DEF NestsNone
  <2>3. CASE k = Len(ips) + 1
    BY <1>0, <1>1, <2>1, <2>3 DEF Holding
  <2> QED
    BY <1>0, <1>1, <2>2, <2>3
<1> QED
  BY <1>3, <1>4 DEF NestsNone

LEMMA WithVarpApart ==
    ASSUME NEW varp \in Seq(Ip), NEW ip \in Ip, NoneTwice(varp)
    PROVE  NoneTwice(WithVarp(varp, ip))
<1>0. Len(varp) \in Nat /\ DOMAIN varp = 1..Len(varp)
  OBVIOUS
<1>1. CASE Positions(varp, ip.address) = {}
  <2> DEFINE more == Append(varp, ip)
  <2>1. /\ DOMAIN more = 1..(Len(varp) + 1)
        /\ \A k \in 1..Len(varp) : more[k] = varp[k]
        /\ more[Len(varp) + 1] = ip
    BY AppendIs
  <2>2. WithVarp(varp, ip) = more
    BY <1>1 DEF WithVarp
  <2> HIDE DEF more
  <2>3. \A k \in DOMAIN more : k \in 1..Len(varp) \/ k = Len(varp) + 1
    BY <1>0, <2>1
  <2>4. \A i \in 1..Len(varp) : more[i].address # ip.address
    BY <1>0, <1>1, <2>1 DEF Positions
  <2>5. NoneTwice(more)
    BY <1>0, <2>1, <2>3, <2>4 DEF NoneTwice
  <2> QED
    BY <2>2, <2>5
<1>2. CASE Positions(varp, ip.address) # {}
  <2> DEFINE k0 == FirstPosition(varp, ip.address)
             put == [varp EXCEPT ![k0] = ip]
  <2>1. k0 \in DOMAIN varp /\ varp[k0].address = ip.address
    BY <1>2, FirstPositionIs
  <2>2. WithVarp(varp, ip) = put
    BY <1>2 DEF WithVarp
  <2> HIDE DEF k0
  <2>3. DOMAIN put = DOMAIN varp /\ \A k \in DOMAIN varp : put[k].address = varp[k].address
    BY <2>1
  <2> QED
    BY <2>2, <2>3 DEF NoneTwice
<1> QED
  BY <1>1, <1>2

\* An address that the list holds by another entry than that of ip is still held
\* when ip is gone, and one that it holds at all when ip is new.
LEMMA WithoutIpHolding ==
    ASSUME NEW ips \in Seq(Ip), NEW ip, NEW a,
           NEW k \in Holding(ips, a), ips[k].address # ip.address
    PROVE  Holding(WithoutIp(ips, ip), a) # {}
<1>1. CASE Positions(ips, ip.address) = {}
  BY <1>1 DEF WithoutIp
<1>2. CASE Positions(ips, ip.address) # {}
  <2> DEFINE gone == FirstPosition(ips, ip.address)
             less == WithoutIp(ips, ip)
             to == IF k < gone THEN k ELSE k - 1
  <2>1. /\ gone \in 1..Len(ips) /\ ips[gone].address = ip.address
        /\ DOMAIN less = 1..(Len(ips) - 1)
        /\ \A j \in DOMAIN less : less[j] = IF j < gone THEN ips[j] ELSE ips[j + 1]
    BY <1>2, WithoutIpIs
  <2> HIDE DEF gone, less
  <2>2. k \in 1..Len(ips) /\ a \in ips[k].network /\ k # gone /\ Len(ips) \in Nat
    BY <2>1 DEF Holding
  <2>3. to \in DOMAIN less /\ less[to] = ips[k]
    BY <2>1, <2>2
  <2>4. to \in Holding(less, a)
    BY <2>2, <2>3 DEF Holding
  <2> QED
    BY <2>4 DEF less
<1> QED
  BY <1>1, <1>2

LEMMA AppendHolding ==
    ASSUME NEW ips \in Seq(Ip), NEW ip \in Ip, Positions(ips, ip.address) = {},
           NEW a, Holding(ips, a) # {}
    PROVE  Holding(WithIp(ips, ip), a) # {}
<1>1. WithIp(ips, ip) = Append(ips, ip)
  BY DEF WithIp
<1>2. PICK k \in 1..Len(ips) : a \in ips[k].network
  BY DEF Holding
<1>3. k \in DOMAIN Append(ips, ip) /\ Append(ips, ip)[k] = ips[k]
  BY AppendIs
<1> QED
  BY <1>1, <1>2, <1>3 DEF Holding

-----------------------------------------------------------------------------
(***************************************************************************)
(* The inductive invariant, of every interface.                            *)
(***************************************************************************)
\* What SecondaryHasPrimary asks of the clients.
NoVrfTyped(u) ==
    /\ u.vendor = "brocade" /\ u.vrfs = {}
    /\ \A x, y \in u.ips : x.network = y.network \/ x.network \cap y.network = {}

Sound(u, r) ==
    /\ u.vendor = "brocade" => NestsNone(r.ips)
    /\ u.vendor # "brocade" => r.secondary = {}
    /\ NoneTwice(r.varp)
    /\ NoVrfTyped(u) => /\ r.secondary \subseteq u.ips
                        /\ \A other \in r.secondary : Holding(r.ips, other.address) # {}

AddressInv == \A p \in Port : Sound(use, net[p])

LEMMA SameSound ==
    ASSUME NEW u, NEW r, Sound(u, r), NEW q,
           q.ips = r.ips, q.varp = r.varp, q.secondary = r.secondary
    PROVE  Sound(u, q)
BY DEF Sound

LEMMA EmptyApart == NestsNone(<<>>) /\ NoneTwice(<<>>)
BY DEF NestsNone, NoneTwice

LEMMA FreshSound == ASSUME NEW u PROVE Sound(u, Fresh)
BY EmptyApart DEF Sound, Fresh

\* A step that changes nothing of the addresses.
LEMMA SameAddresses ==
    ASSUME AddressInv, UNCHANGED use,
           \A p \in Port : /\ net'[p].ips = net[p].ips
                           /\ net'[p].varp = net[p].varp
                           /\ net'[p].secondary = net[p].secondary
    PROVE  AddressInv'
BY SameSound DEF AddressInv

\* A step that writes r into the interface of its session.
LEMMA SoundWritten ==
    ASSUME Inv, AddressInv, UNCHANGED use, NEW s \in Sessions, NEW r, Set(s, r),
           at[s].port \in Port,
           at[s].live => Sound(use, r)
    PROVE  AddressInv'
<1>1. net' = net \/ (at[s].live /\ net' = [net EXCEPT ![at[s].port] = r])
  BY DEF Set
<1> QED
  BY <1>1 DEF AddressInv, Inv

\* What a live session knows of an address it asked about.
LEMMA AskedAddress ==
    ASSUME Inv, NEW s \in Sessions, at[s].live, at[s].port \in Interfaces, NEW a
    PROVE  /\ Unowned(a) => Holding(Held(s).ips, a) = {}
           /\ Mine(s, a) => Holding(Held(s).ips, a) # {}
<1>1. at[s].port \in Names(ports)
  BY RoutedInterfacesAssumption DEF Inv, HoldsPlace, Port
<1>2. Unowned(a) => at[s].port \notin Owners(a)
  BY <1>1 DEF Unowned, HoldsOneOf
<1>3. Mine(s, a) => at[s].port \in Owners(a)
  BY FirstOfProperties DEF Mine, OwnedBy, Unowned, Inv
<1> QED
  BY <1>2, <1>3 DEF Owners, Held

LEMMA PositionsHold ==
    ASSUME NEW ips \in Seq(Ip), NEW a
    PROVE  Positions(ips, a) \subseteq Holding(ips, a)
BY DEF Positions, Holding, Ip

\* The addresses of a Cisco or an Arista are written.
LEMMA IpsSound ==
    ASSUME NEW u, NEW r \in Net, Sound(u, r), NEW ips, u.vendor # "brocade"
    PROVE  Sound(u, [r EXCEPT !.ips = ips])
BY DEF Sound, Net, NoVrfTyped

LEMMA HeldSound ==
    ASSUME Inv, AddressInv, NEW s \in Sessions, NEW makes, OnInterface(s, makes)
    PROVE  /\ Held(s) \in Net /\ Sound(use, Held(s))
           /\ Held(s).ips \in Seq(Ip) /\ Held(s).varp \in Seq(Ip)
           /\ Elements(Held(s).ips) \subseteq use.ips
           /\ at[s].port \in Port /\ at[s].port \in Interfaces
           /\ use.vendor \in makes /\ UNCHANGED use
<1>1. Held(s) \in Net /\ GoodNet(use, Held(s)) /\ at[s].port \in Port
  BY OnInterfaceHeld
<1>2. Sound(use, Held(s))
  BY <1>1 DEF AddressInv, Held
<1> QED
  BY <1>1, <1>2 DEF OnInterface, vendor, GoodNet, Net
-----------------------------------------------------------------------------
(***************************************************************************)
(* The commands.                                                           *)
(***************************************************************************)
\* "Delete secondary address before deleting primary address": a secondary
\* address that only the deleted one held would have lain in its network.
LEMMA BrocadeNoAddressSound ==
    ASSUME Inv, AddressInv, NEW s \in Sessions, NEW ip \in use.ips, BrocadeNoAddress(s, ip)
    PROVE  AddressInv'
<1>0. OnInterface(s, {"brocade"}) /\ ip \in Ip /\ use.ips \subseteq Ip
  BY UseTypes DEF BrocadeNoAddress
<1>1. /\ Held(s) \in Net /\ Sound(use, Held(s)) /\ Held(s).ips \in Seq(Ip)
      /\ Elements(Held(s).ips) \subseteq use.ips
      /\ at[s].port \in Port /\ use.vendor = "brocade" /\ UNCHANGED use
  BY <1>0, HeldSound
<1> DEFINE same == {other \in Held(s).secondary : other.address = ip.address}
           ips == WithoutIp(Held(s).ips, ip)
           less == [Held(s) EXCEPT !.ips = ips]
<1>2. ASSUME NEW gone, Set(s, [Held(s) EXCEPT !.secondary = @ \ {gone}])
      PROVE  AddressInv'
  <2> DEFINE fewer == [Held(s) EXCEPT !.secondary = @ \ {gone}]
  <2>1. Sound(use, fewer)
    BY <1>1 DEF Sound, Net
  <2> HIDE DEF fewer
  <2> QED
    BY <1>1, <1>2, <2>1, SoundWritten DEF fewer
<1>3. CASE same = {} /\ ~Depended(s, ip) /\ Set(s, less)
  <2>1. NestsNone(ips)
    BY <1>1, WithoutIpApart DEF Sound
  <2>2. ASSUME NoVrfTyped(use), NEW other \in Held(s).secondary
        PROVE  Holding(ips, other.address) # {}
    <3>1. other \in use.ips /\ other \in Ip
      BY <1>0, <1>1, <2>2 DEF Sound
    <3>2. PICK k \in Holding(Held(s).ips, other.address) : TRUE
      BY <1>1, <2>2 DEF Sound
    <3>3. k \in DOMAIN Held(s).ips /\ other.address \in Held(s).ips[k].network
      BY <3>2 DEF Holding
    <3>4. Held(s).ips[k] \in use.ips /\ Held(s).ips[k] \in Ip
      BY <1>0, <1>1, <3>3 DEF Elements
    <3>5. Held(s).ips[k].address # ip.address
      <4> SUFFICES ASSUME Held(s).ips[k].address = ip.address PROVE FALSE
        OBVIOUS
      <4>1. ip.address \in Held(s).ips[k].network /\ ip.address \in ip.network
        BY <1>0, <3>4 DEF Ip
      <4>2. Held(s).ips[k].network = ip.network
        BY <2>2, <3>4, <4>1 DEF NoVrfTyped
      <4>3. other.address \in other.network
        BY <3>1 DEF Ip
      <4>4. other.network = ip.network
        BY <2>2, <3>1, <3>3, <4>2, <4>3 DEF NoVrfTyped
      <4> QED
        BY <1>3, <4>4 DEF Depended
    <3> QED
      BY <1>1, <3>2, <3>5, WithoutIpHolding
  <2> HIDE DEF ips
  <2>3. Sound(use, less)
    BY <1>1, <2>1, <2>2 DEF Sound, Net
  <2> HIDE DEF less
  <2> QED
    BY <1>1, <1>3, <2>3, SoundWritten
<1> QED
  BY <1>2, <1>3 DEF BrocadeNoAddress

LEMMA BrocadeAddressSound ==
    ASSUME Inv, AddressInv, NEW s \in Sessions, NEW ip \in use.ips, NEW sec \in BOOLEAN,
           BrocadeAddress(s, ip, sec)
    PROVE  AddressInv'
<1>0. OnInterface(s, {"brocade"}) /\ ip \in Ip
  BY UseTypes DEF BrocadeAddress
<1>1. /\ Held(s) \in Net /\ Sound(use, Held(s)) /\ Held(s).ips \in Seq(Ip)
      /\ at[s].port \in Port /\ at[s].port \in Interfaces
      /\ use.vendor = "brocade" /\ UNCHANGED use
  BY <1>0, HeldSound
<1> DEFINE ips == WithIp(Held(s).ips, ip)
           primary == [Held(s) EXCEPT !.ips = ips]
           secondary == [Held(s) EXCEPT !.secondary = @ \cup {ip}]
<1>2. CASE Unowned(ip.address) /\ Set(s, primary)
  <2>1. ASSUME at[s].live PROVE Sound(use, primary)
    <3>1. Holding(Held(s).ips, ip.address) = {}
      BY <1>1, <1>2, <2>1, AskedAddress
    <3>2. Positions(Held(s).ips, ip.address) = {}
      BY <1>1, <3>1, PositionsHold
    <3>3. NestsNone(ips)
      BY <1>0, <1>1, <3>1, WithIpApart DEF Sound
    <3>4. \A other \in Held(s).secondary : Holding(Held(s).ips, other.address) # {} =>
                Holding(ips, other.address) # {}
      BY <1>0, <1>1, <3>2, AppendHolding
    <3> HIDE DEF ips
    <3> QED
      BY <1>1, <3>3, <3>4 DEF Sound, Net
  <2> HIDE DEF primary
  <2> QED
    BY <1>1, <1>2, <2>1, SoundWritten
<1>3. CASE Mine(s, ip.address) /\ Set(s, secondary)
  <2>1. ASSUME at[s].live PROVE Sound(use, secondary)
    <3>1. Holding(Held(s).ips, ip.address) # {}
      BY <1>1, <1>3, <2>1, AskedAddress
    <3> QED
      BY <1>1, <3>1 DEF Sound, Net
  <2> HIDE DEF secondary
  <2> QED
    BY <1>1, <1>3, <2>1, SoundWritten
<1> QED
  BY <1>2, <1>3 DEF BrocadeAddress

LEMMA AddressSound ==
    ASSUME Inv, AddressInv, NEW s \in Sessions, AddressCommand(s)
    PROVE  AddressInv'
<1>0. use.ips \subseteq Ip /\ use.varps \subseteq Ip
  BY UseTypes
<1>1. ASSUME NEW makes, makes \subseteq {"cisco", "arista"}, OnInterface(s, makes), NEW ips,
             Set(s, [Held(s) EXCEPT !.ips = ips])
      PROVE  AddressInv'
  <2>1. /\ Held(s) \in Net /\ Sound(use, Held(s)) /\ at[s].port \in Port
        /\ use.vendor \in makes /\ UNCHANGED use
    BY <1>1, HeldSound
  <2>2. Sound(use, [Held(s) EXCEPT !.ips = ips])
    BY <1>1, <2>1, IpsSound
  <2> QED
    BY <1>1, <2>1, <2>2, SoundWritten
<1>2. ASSUME NoAddresses(s) PROVE AddressInv'
  BY <1>1, <1>2 DEF NoAddresses
<1>3. ASSUME NEW ip \in use.ips, SecondaryAddress(s, ip) \/ PrimaryAddress(s, ip) PROVE AddressInv'
  BY <1>1, <1>3 DEF SecondaryAddress, PrimaryAddress
<1>4. ASSUME NEW ip \in use.ips, PrimaryAddressRaises(s, ip) PROVE AddressInv'
  BY <1>1, <1>4 DEF PrimaryAddressRaises
<1>5. ASSUME NEW ip \in use.ips, NEW sec \in BOOLEAN, NoAddress(s, ip, sec) PROVE AddressInv'
  BY <1>1, <1>5 DEF NoAddress
<1>6. ASSUME NEW varp, OnInterface(s, {"arista"}), NoneTwice(Held(s).varp) => NoneTwice(varp),
             Set(s, [Held(s) EXCEPT !.varp = varp])
      PROVE  AddressInv'
  <2>1. Held(s) \in Net /\ Sound(use, Held(s)) /\ at[s].port \in Port /\ UNCHANGED use
    BY <1>6, HeldSound
  <2>2. Sound(use, [Held(s) EXCEPT !.varp = varp])
    BY <1>6, <2>1 DEF Sound, Net
  <2> QED
    BY <1>6, <2>1, <2>2, SoundWritten
<1>7. ASSUME NoVirtualRouterAddresses(s) PROVE AddressInv'
  BY <1>6, <1>7, EmptyApart DEF NoVirtualRouterAddresses
<1>8. ASSUME NEW ip \in use.varps, VirtualRouterAddress(s, ip) PROVE AddressInv'
  <2>1. OnInterface(s, {"arista"})
    BY <1>8 DEF VirtualRouterAddress
  <2>2. NoneTwice(Held(s).varp) => NoneTwice(WithVarp(Held(s).varp, ip))
    BY <1>0, <2>1, HeldSound, WithVarpApart
  <2> QED
    BY <1>6, <1>8, <2>1, <2>2 DEF VirtualRouterAddress
<1>9. ASSUME NEW ip \in use.varps, NoVirtualRouterAddress(s, ip) PROVE AddressInv'
  <2>1. OnInterface(s, {"arista"})
    BY <1>9 DEF NoVirtualRouterAddress
  <2>2. NoneTwice(Held(s).varp) => NoneTwice(WithoutIp(Held(s).varp, ip))
    BY <2>1, HeldSound, WithoutIpApart
  <2> QED
    BY <1>6, <1>9, <2>1, <2>2 DEF NoVirtualRouterAddress
<1> QED
  BY <1>2, <1>3, <1>4, <1>5, <1>7, <1>8, <1>9,
     BrocadeNoAddressSound, BrocadeAddressSound DEF AddressCommand

\* Typed vrf commands remove the primary addresses.
LEMMA VrfSound ==
    ASSUME Inv, AddressInv, NEW s \in Sessions, VrfCommand(s)
    PROVE  AddressInv'
<1>1. at[s].port \in Port /\ UNCHANGED use /\ use.vrfs # {}
  BY DEF VrfCommand, VrfForwarding, NoVrfForwarding, Inv, Place
<1>2. Held(s) \in Net /\ Sound(use, Held(s))
  BY <1>1, HeldGood DEF AddressInv, Held
<1>3. ASSUME NEW v PROVE Sound(use, [Held(s) EXCEPT !.ips = <<>>, !.vrf = v])
  BY <1>1, <1>2, EmptyApart DEF Sound, NoVrfTyped, Net
<1>4. ASSUME NEW v PROVE Sound(use, [Held(s) EXCEPT !.vrf = v])
  BY <1>2, SameSound DEF Net
<1>5. ASSUME NEW v \in use.vrfs, VrfForwarding(s, v) PROVE AddressInv'
  BY <1>1, <1>3, <1>5, SoundWritten DEF VrfForwarding
<1>6. ASSUME NEW v \in use.vrfs, NoVrfForwarding(s, v) PROVE AddressInv'
  <2>1. CASE Set(s, [Held(s) EXCEPT !.vrf = NoValue])
    BY <1>1, <1>4, <2>1, SoundWritten
  <2>2. CASE Set(s, [Held(s) EXCEPT !.ips = <<>>, !.vrf = NoValue])
    BY <1>1, <1>3, <2>2, SoundWritten
  <2> QED
    BY <1>6, <2>1, <2>2 DEF NoVrfForwarding
<1> QED
  BY <1>5, <1>6 DEF VrfCommand

LEMMA GroupSound ==
    ASSUME Inv, AddressInv, NEW s \in Sessions, GroupCommand(s)
    PROVE  AddressInv'
<1>1. ASSUME NEW makes, OnInterface(s, makes), NEW groups, Set(s, [Held(s) EXCEPT !.groups = groups])
      PROVE  AddressInv'
  <2>1. Held(s) \in Net /\ Sound(use, Held(s)) /\ at[s].port \in Port /\ UNCHANGED use
    BY <1>1, HeldSound
  <2>2. Sound(use, [Held(s) EXCEPT !.groups = groups])
    BY <2>1, SameSound DEF Net
  <2> QED
    BY <1>1, <2>1, <2>2, SoundWritten
<1>2. ASSUME NEW makes, OnInterface(s, makes), NEW g, NEW track,
             Set(s, [Held(s) EXCEPT !.groups[g] = track])
      PROVE  AddressInv'
  <2>1. Held(s) \in Net
    BY <1>2, HeldSound
  <2>2. [Held(s) EXCEPT !.groups[g] = track] =
            [Held(s) EXCEPT !.groups = [Held(s).groups EXCEPT ![g] = track]]
    BY <2>1 DEF Net
  <2> QED
    BY <1>1, <1>2, <2>2
<1>3. ASSUME NEW track, SetTrack(s, track), InGroup(s)
      PROVE  AddressInv'
  <2>1. \A p \in Port : net[p] \in Net
    BY DEF Inv
  <2>2. \A p \in Port : /\ net'[p].ips = net[p].ips
                        /\ net'[p].varp = net[p].varp
                        /\ net'[p].secondary = net[p].secondary
    BY <1>3, <2>1 DEF SetTrack, Inv, Net
  <2> QED
    BY <1>3, <2>2, SameAddresses DEF InGroup
<1>4. ASSUME LeaveGroup(s) PROVE AddressInv'
  BY <1>4, SameAddresses DEF LeaveGroup
<1>5. ASSUME NEW g \in use.groups, EnterGroup(s, g) \/ NoGroup(s, g) \/ Standby(s, g) PROVE AddressInv'
  BY <1>1, <1>2, <1>5 DEF EnterGroup, NoGroup, Standby
<1>6. ASSUME NEW value \in Priorities \cup {NoValue}, Backup(s, value) PROVE AddressInv'
  BY <1>3, <1>6 DEF Backup
<1>7. ASSUME NEW key \in Tracked \cup {NoValue}, TrackPort(s, key) PROVE AddressInv'
  BY <1>3, <1>7 DEF TrackPort
<1>8. ASSUME NEW g \in use.groups, NEW key \in Tracked, NoStandbyTrack(s, g, key) PROVE AddressInv'
  BY <1>2, <1>8 DEF NoStandbyTrack
<1>9. ASSUME NEW g \in use.groups, NEW key \in Tracked, NEW value \in Priorities,
             StandbyTrack(s, g, key, value)
      PROVE  AddressInv'
  BY <1>1, <1>9 DEF StandbyTrack
<1> QED
  BY <1>4, <1>5, <1>6, <1>7, <1>8, <1>9 DEF GroupCommand

LEMMA ConfigSound ==
    ASSUME Inv, AddressInv, NEW s \in Sessions, ConfigCommand(s)
    PROVE  AddressInv'
<1>1. ASSUME NEW i \in Interfaces, UNCHANGED use, net' = [net EXCEPT ![i] = Fresh]
      PROVE  AddressInv'
  BY <1>1, FreshSound DEF AddressInv, Inv
<1>2. ASSUME UNCHANGED <<use, net>> PROVE AddressInv'
  BY <1>2 DEF AddressInv
<1>3. ASSUME NEW i \in Interfaces, NewInterface(s, i) \/ RemoveInterface(s, i) \/ RenewInterface(s, i)
      PROVE  AddressInv'
  BY <1>1, <1>3 DEF NewInterface, RemoveInterface, RenewInterface
<1>4. ASSUME NEW v \in use.vrfs, NoVrf(s, v) PROVE AddressInv'
  <2>1. \A p \in Port : net[p] \in Net
    BY DEF Inv
  <2>2. \A p \in Port : net'[p] = net[p] \/ net'[p] = [net[p] EXCEPT !.vrf = NoValue]
    BY <1>4 DEF NoVrf
  <2>3. \A p \in Port : /\ net'[p].ips = net[p].ips
                        /\ net'[p].varp = net[p].varp
                        /\ net'[p].secondary = net[p].secondary
    BY <2>1, <2>2 DEF Net
  <2> QED
    BY <1>4, <2>3, SameAddresses DEF NoVrf
<1>5. ASSUME NEW p \in Port, ResetInterface(s, p) PROVE AddressInv'
  <2>1. \A q \in Port : net[q] \in Net
    BY DEF Inv
  <2>2. \A q \in Port : /\ net'[q].ips = net[q].ips
                        /\ net'[q].varp = net[q].varp
                        /\ net'[q].secondary = net[q].secondary
    BY <1>5, <2>1 DEF ResetInterface, Inv, Net
  <2> QED
    BY <1>5, <2>2, SameAddresses DEF ResetInterface
<1>6. ASSUME NEW v \in use.vrfs, Vrf(s, v) PROVE AddressInv'
  BY <1>2, <1>6 DEF Vrf
<1>7. ASSUME NEW p \in Port, Interface(s, p) PROVE AddressInv'
  BY <1>2, <1>7 DEF Interface
<1>8. ASSUME Leave(s) PROVE AddressInv'
  BY <1>2, <1>8 DEF Leave
<1> QED
  BY <1>3, <1>4, <1>5, <1>6, <1>7, <1>8 DEF ConfigCommand

LEMMA AddressInvNext == Inv /\ AddressInv /\ [Next]_vars => AddressInv'
<1>1. ASSUME Inv, AddressInv, Next PROVE AddressInv'
  BY <1>1, ConfigSound, AddressSound, VrfSound, GroupSound DEF Next
<1>2. ASSUME AddressInv, UNCHANGED vars PROVE AddressInv'
  BY <1>2 DEF AddressInv, vars
<1> QED
  BY <1>1, <1>2

LEMMA AddressInvAlways == Spec => []AddressInv
<1>1. Init => AddressInv
  BY FreshSound DEF Init, AddressInv
<1> QED
  BY <1>1, AddressInvNext, InvAlways, PTL DEF Spec

\* However addresses are typed, replaced and removed, no later primary address
\* of a Brocade interface lies in the network of an earlier one, and no
\* virtual-router address of an Arista interface is listed twice.
THEOREM AddressesApartAlways == Spec => []AddressesApart
<1>1. AddressInv => AddressesApart
  BY DEF AddressInv, Sound, NestsNone, NoneTwice, AddressesApart, Listed, Port, vendor
<1> QED
  BY <1>1, AddressInvAlways, PTL

\* As long as no vrf command is typed and networks do not overlap, a secondary
\* address of a Brocade interface has a primary one in its network.
THEOREM SecondaryHasPrimaryAlways == Spec => []SecondaryHasPrimary
<1>1. AddressInv => SecondaryHasPrimary
  BY DEF AddressInv, Sound, NoVrfTyped, SecondaryHasPrimary, NoOrphans, Plain, Listed, Port, vendor
<1> QED
  BY <1>1, AddressInvAlways, PTL

-----------------------------------------------------------------------------
(***************************************************************************)
(* The owners of networks, secondary addresses included.                   *)
(***************************************************************************)

\* A secondary address lies in a network that the interface is looked up by.
AllSeen == Plain /\ NoOrphans => \A i \in Interfaces : NetworksOf(i) = SeenNetworksOf(i)

LEMMA AllSeenAlways == Spec => []AllSeen
<1>1. Inv /\ AddressInv => AllSeen
  <2> SUFFICES ASSUME Inv, AddressInv, Plain, NoOrphans, NEW i \in Interfaces,
                      NEW other \in net[i].secondary
               PROVE  other.network \in SeenNetworksOf(i)
    BY DEF AllSeen, NetworksOf
  <2>1. net[i] \in Net /\ GoodNet(use, net[i]) /\ Sound(use, net[i])
    BY DEF Inv, AddressInv, Port
  <2>2. use.vendor = "brocade"
    BY <2>1 DEF Sound
  <2>3. NoVrfTyped(use)
    BY <2>2 DEF NoVrfTyped, NoOrphans, Plain, vendor
  <2>4. other \in use.ips /\ other \in Ip /\ Holding(net[i].ips, other.address) # {}
    BY <2>1, <2>3, UseTypes DEF Sound
  <2>5. PICK k \in DOMAIN net[i].ips : other.address \in net[i].ips[k].network
    BY <2>4 DEF Holding
  <2>6. net[i].ips[k] \in use.ips
    BY <2>1, <2>5 DEF GoodNet, Elements
  <2>7. net[i].ips[k].network = other.network
    BY <2>4, <2>5, <2>6 DEF Plain, Ip
  <2> QED
    BY <2>5, <2>7 DEF SeenNetworksOf
<1> QED
  BY <1>1, InvAlways, AddressInvAlways, PTL

\* A network that is typed is on one interface only, as long as the networks
\* that are typed are the same or have nothing in common: those of secondary
\* addresses too, except on a Brocade where vrf commands are typed.
THEOREM OneOwnerAlways == Spec => []OneOwner
<1>1. SeenApart /\ AllSeen => OneOwner
  BY DEF SeenApart, AllSeen, OneOwner, OwnsApart, Has, Listed
<1> QED
  BY <1>1, SeenApartAlways, AllSeenAlways, PTL

-----------------------------------------------------------------------------
(***************************************************************************)
(* The commands implement NetworkOwnership.                                *)
(***************************************************************************)

\* What the mapping says: who has a network, and nobody if no interface has it
\* (or if it matters which of several networks an address is looked up in, or if
\* secondary addresses may be left behind).
Mapped == Plain /\ NoOrphans

OwnerMap ==
    /\ owner = [n \in Networks |-> owner[n]]
    /\ Mapped => \A n \in Networks :
                     /\ \A i \in Interfaces : n \in Has(i) => owner[n] = i
                     /\ (\A i \in Interfaces : n \notin Has(i)) => owner[n] = Nobody
    /\ ~Mapped => \A n \in Networks : owner[n] = Nobody

LEMMA NobodyIsNew == Nobody \notin Interfaces
BY NoValueIsNew DEF Nobody, Port

LEMMA OwnerIs == OneOwner /\ AllSeen => OwnerMap
<1> SUFFICES ASSUME OneOwner, AllSeen PROVE OwnerMap
  OBVIOUS
<1>0. Mapped => \A i \in Interfaces : Has(i) = IF i \in Listed THEN NetworksOf(i) ELSE {}
  BY DEF Mapped, AllSeen, Has, Listed
<1>1. ASSUME Mapped, NEW n \in Networks, NEW i \in Interfaces, n \in Has(i)
      PROVE  owner[n] = i
  <2>1. i \in Listed /\ n \in NetworksOf(i)
    BY <1>0, <1>1
  <2>2. \A j \in Listed : n \in NetworksOf(j) => j = i
    BY <1>1, <2>1 DEF OneOwner, Mapped
  <2>3. (CHOOSE j \in Listed : n \in NetworksOf(j)) = i
    BY <2>1, <2>2
  <2> QED
    BY <1>1, <2>1, <2>3 DEF owner, Mapped
<1>2. ASSUME Mapped, NEW n \in Networks, \A i \in Interfaces : n \notin Has(i)
      PROVE  owner[n] = Nobody
  <2>1. ~\E i \in Listed : n \in NetworksOf(i)
    BY <1>0, <1>2 DEF Listed
  <2> QED
    BY <2>1 DEF owner
<1>3. ASSUME ~Mapped, NEW n \in Networks PROVE owner[n] = Nobody
  BY <1>3 DEF owner, Mapped
<1>4. owner = [n \in Networks |-> owner[n]]
  BY DEF owner
<1> QED
  BY <1>1, <1>2, <1>3, <1>4 DEF OwnerMap

\* One interface gives up networks, and takes at most one that is free.
LEMMA ChangeIsChange ==
    ASSUME Mapped, Mapped', OwnerMap, OwnerMap', OwnsApart', use \in Uses, NetworkChange
    PROVE  [Ownership!Next]_owner
<1>1. CASE \A j \in Interfaces : Has(j)' = Has(j)
  <2>1. \A n \in Networks : owner'[n] = owner[n]
    BY <1>1 DEF OwnerMap
  <2> QED
    BY <2>1 DEF OwnerMap
<1>2. ASSUME NEW i \in Interfaces, \A j \in Interfaces \ {i} : Has(j)' = Has(j)
      PROVE  /\ \A n \in Networks : n \in Has(i) \/ n \notin Has(i)' =>
                    owner'[n] = IF owner[n] = i /\ n \notin Has(i)' THEN Nobody ELSE owner[n]
             /\ \A n \in Networks : n \in Has(i)' => owner'[n] = i
             /\ \A n \in Networks : n \notin Has(i) /\ (\A j \in Interfaces \ {i} : n \notin Has(j)) =>
                    owner[n] = Nobody
  <2>1. ASSUME NEW n \in Networks, n \in Has(i) \/ n \notin Has(i)'
        PROVE  owner'[n] = IF owner[n] = i /\ n \notin Has(i)' THEN Nobody ELSE owner[n]
    <3>1. CASE n \in Has(i)
      <4>1. owner[n] = i
        BY <3>1 DEF OwnerMap
      <4>2. CASE n \in Has(i)'
        BY <4>1, <4>2 DEF OwnerMap
      <4>3. CASE n \notin Has(i)'
        BY <4>1, <4>3, <1>2, <3>1 DEF OwnerMap
      <4> QED
        BY <4>2, <4>3
    <3>2. CASE n \notin Has(i) /\ n \notin Has(i)'
      BY <1>2, <3>2, NobodyIsNew DEF OwnerMap
    <3> QED
      BY <2>1, <3>1, <3>2
  <2> QED
    BY <2>1 DEF OwnerMap
<1>3. ASSUME NEW i \in Interfaces, \A j \in Interfaces \ {i} : Has(j)' = Has(j),
             \A n \in Networks : n \in Has(i) \/ n \notin Has(i)'
      PROVE  Ownership!Next
  <2> DEFINE given == {n \in Networks : owner[n] = i /\ n \notin Has(i)'}
  <2>1. \A n \in Networks : owner'[n] = IF n \in given THEN Nobody ELSE owner[n]
    BY <1>2, <1>3
  <2>2. owner' = [n \in Networks |-> IF n \in given THEN Nobody ELSE owner[n]]
    BY <2>1 DEF OwnerMap
  <2>3. given \in SUBSET {n \in Networks : owner[n] = i}
    OBVIOUS
  <2> HIDE DEF given
  <2> QED
    BY <2>2, <2>3 DEF Ownership!Next, Ownership!Change
<1>4. ASSUME NEW i \in Interfaces, \A j \in Interfaces \ {i} : Has(j)' = Has(j),
             NEW m \in Networks, Has(i)' \subseteq Has(i) \cup {m},
             m \notin Has(i), m \in Has(i)',
             \A j \in Interfaces \ {i} : m \notin Has(j)
      PROVE  Ownership!Next
  <2> DEFINE given == {n \in Networks : owner[n] = i /\ n \notin Has(i)'}
  <2>1. owner[m] = Nobody /\ owner'[m] = i
    BY <1>2, <1>4
  <2>2. \A n \in Networks : owner'[n] = IF n = m THEN i
                                        ELSE IF n \in given THEN Nobody ELSE owner[n]
    BY <1>2, <1>4, <2>1
  <2>3. owner' = [n \in Networks |-> IF n = m THEN i
                                     ELSE IF n \in given THEN Nobody ELSE owner[n]]
    BY <2>2 DEF OwnerMap
  <2>4. given \in SUBSET {n \in Networks : owner[n] = i}
    OBVIOUS
  <2> HIDE DEF given
  <2> QED
    BY <2>1, <2>3, <2>4 DEF Ownership!Next, Ownership!Change
<1>5. \A ip \in use.ips : ip.network \in Networks
  BY DEF Networks
<1> QED
  BY <1>1, <1>3, <1>4, <1>5 DEF NetworkChange

LEMMA StepImplements ==
    ASSUME Inv, SeenApart, SeenApart', OwnerMap, OwnerMap', [Next]_vars
    PROVE  [Ownership!Next]_owner
<1>0. Mapped' <=> Mapped
  BY UseStays DEF Mapped
<1>1. CASE ~Mapped
  <2>1. \A n \in Networks : owner'[n] = owner[n]
    BY <1>0, <1>1 DEF OwnerMap
  <2> QED
    BY <2>1 DEF OwnerMap
<1>2. CASE Mapped
  <2>1. Mapped' /\ Plain /\ OwnsApart /\ OwnsApart'
    BY <1>0, <1>2 DEF Mapped, SeenApart
  <2>2. NetworkChange
    <3>1. CASE UNCHANGED vars
      <4>1. \A i \in Interfaces : Has(i)' = Has(i)
        BY <3>1, SameNetworks DEF vars
      <4> QED
        BY <4>1 DEF NetworkChange
    <3> QED
      BY <2>1, <3>1, StepChanges
  <2> QED
    BY <1>2, <2>1, <2>2, ChangeIsChange DEF Inv
<1> QED
  BY <1>1, <1>2

\* The commands of every make implement the ownership of networks: an interface
\* takes a network only when no interface has it, not even by a secondary
\* address, one command at a time.
THEOREM ImplementsOwnership == Spec => OwnsNetworks
<1>1. Init /\ OneOwner /\ AllSeen => Ownership!Init
  <2> SUFFICES ASSUME Init, OneOwner, AllSeen PROVE Ownership!Init
    OBVIOUS
  <2>1. OwnerMap
    BY OwnerIs
  <2>2. \A n \in Networks : owner[n] = Nobody
    BY <2>1, NothingAtFirst DEF OwnerMap
  <2> QED
    BY <2>1, <2>2 DEF OwnerMap, Ownership!Init
<1>2. Inv /\ SeenApart /\ SeenApart' /\ OwnerMap /\ OwnerMap' /\ [Next]_vars => [Ownership!Next]_owner
  BY StepImplements
<1> QED
  BY <1>1, <1>2, InvAlways, SeenApartAlways, OneOwnerAlways, AllSeenAlways, OwnerIs, PTL
     DEF Spec, OwnsNetworks, Ownership!Spec

-----------------------------------------------------------------------------
(***************************************************************************)
(* Folds over a finite set S that take the element ch[T] of a set T last:  *)
(* what holds of one, and that there is one.                               *)
(***************************************************************************)
Chooses(ch, S) == \A T \in SUBSET S : T # {} => ch[T] \in T

\* What holds of {}, and of T when it holds of T less the last one, holds of S.
LEMMA FoldHolds ==
    ASSUME NEW S, IsFiniteSet(S), NEW ch, Chooses(ch, S), NEW Q, {} \in Q,
           \A T \in SUBSET S : T # {} /\ T \ {ch[T]} \in Q => T \in Q
    PROVE  S \in Q
<1> DEFINE Bad == {T \in SUBSET S : T \notin Q}
<1> SUFFICES ASSUME Bad # {} PROVE FALSE
  OBVIOUS
<1>1. Bad \subseteq FiniteSubsetsOf(S)
  BY FS_FiniteSubsetsOfFinite
<1>2. PICK T \in Bad : \A U \in Bad : ~(<<U, T>> \in StrictSubsetOrdering(S))
  <2>1. IsWellFoundedOn(StrictSubsetOrdering(S), FiniteSubsetsOf(S))
    BY FS_StrictSubsetOrderingWellFounded
  <2> HIDE DEF Bad
  <2> QED
    BY <1>1, <2>1, WFMin, Zenon
<1>3. T \in SUBSET S /\ T \notin Q /\ T # {}
  OBVIOUS
<1>4. ch[T] \in T
  BY <1>3 DEF Chooses
<1>5. T \ {ch[T]} \in SUBSET S /\ <<T \ {ch[T]}, T>> \in StrictSubsetOrdering(S)
  BY <1>3, <1>4 DEF StrictSubsetOrdering
<1>6. T \ {ch[T]} \in Q
  BY <1>2, <1>5
<1> QED
  BY <1>3, <1>6

FoldsTo(f, D, ch, op, base) ==
    \A T \in D : f[T] = IF T = {} THEN base ELSE op[<<ch[T], f[T \ {ch[T]}]>>]

\* By the number of members, a fold exists for sets of up to n of them, for every n.
LEMMA FoldExists ==
    ASSUME NEW S, IsFiniteSet(S), NEW ch, Chooses(ch, S),
           NEW B, NEW base \in B, NEW op \in [S \X B -> B]
    PROVE  \E f \in [SUBSET S -> B] : FoldsTo(f, SUBSET S, ch, op, base)
<1> DEFINE Small(n) == {T \in SUBSET S : Cardinality(T) <= n}
           Exists(n) == \E f \in [Small(n) -> B] : FoldsTo(f, Small(n), ch, op, base)
           Fails == {n \in Nat : ~Exists(n)}
<1>1. \A T \in SUBSET S : /\ Cardinality(T) \in Nat
                          /\ Cardinality(T) = 0 <=> T = {}
                          /\ T # {} => /\ ch[T] \in S /\ T \ {ch[T]} \in SUBSET S
                                       /\ Cardinality(T \ {ch[T]}) = Cardinality(T) - 1
  <2> TAKE T \in SUBSET S
  <2>1. IsFiniteSet(T)
    BY FS_Subset
  <2>2. T # {} => ch[T] \in T
    BY DEF Chooses
  <2> QED
    BY <2>1, <2>2, FS_CardinalityType, FS_EmptySet, FS_RemoveElement
<1>2. Exists(0)
  <2> DEFINE f == [T \in Small(0) |-> base]
  <2>1. ASSUME NEW T \in Small(0) PROVE T = {}
    <3>1. T \in SUBSET S /\ Cardinality(T) <= 0
      OBVIOUS
    <3>2. Cardinality(T) \in Nat /\ (Cardinality(T) = 0 => T = {})
      BY <1>1, <3>1
    <3> HIDE DEF Small
    <3> QED
      BY <3>1, <3>2
  <2>2. f \in [Small(0) -> B] /\ \A T \in Small(0) : f[T] = base
    OBVIOUS
  <2> HIDE DEF f
  <2>3. FoldsTo(f, Small(0), ch, op, base)
    BY <2>1, <2>2 DEF FoldsTo
  <2> QED
    BY <2>2, <2>3
<1>3. ASSUME NEW n \in Nat, Exists(n) PROVE Exists(n + 1)
  <2>1. PICK f \in [Small(n) -> B] : FoldsTo(f, Small(n), ch, op, base)
    BY <1>3
  <2> DEFINE g == [T \in Small(n + 1) |->
                      IF T = {} THEN base ELSE op[<<ch[T], f[T \ {ch[T]}]>>]]
  <2>2. \A T \in Small(n + 1) : T # {} => T \ {ch[T]} \in Small(n) /\ ch[T] \in S
    BY <1>1
  <2>3. ASSUME NEW T \in Small(n) PROVE T \in Small(n + 1)
    <3>1. T \in SUBSET S /\ Cardinality(T) <= n
      OBVIOUS
    <3>2. Cardinality(T) \in Nat
      BY <1>1, <3>1
    <3>3. Cardinality(T) <= n + 1
      BY <3>1, <3>2
    <3> QED
      BY <3>1, <3>3
  <2>4. g \in [Small(n + 1) -> B]
    <3>1. ASSUME NEW T \in Small(n + 1)
          PROVE  (IF T = {} THEN base ELSE op[<<ch[T], f[T \ {ch[T]}]>>]) \in B
      <4> HIDE DEF Small
      <4> QED
        BY <2>2
    <3> HIDE DEF Small
    <3> QED
      BY <3>1
  <2>5. \A T \in Small(n) : g[T] = f[T]
    <3> HIDE DEF Small
    <3> QED
      BY <2>1, <2>3 DEF FoldsTo
  <2>6. FoldsTo(g, Small(n + 1), ch, op, base)
    <3> SUFFICES ASSUME NEW T \in Small(n + 1)
                 PROVE  g[T] = IF T = {} THEN base ELSE op[<<ch[T], g[T \ {ch[T]}]>>]
      BY Zenon DEF FoldsTo
    <3>1. g[T] = IF T = {} THEN base ELSE op[<<ch[T], f[T \ {ch[T]}]>>]
      OBVIOUS
    <3> HIDE DEF Small, g
    <3> QED
      BY <2>2, <2>5, <3>1
  <2> HIDE DEF g, Small
  <2> QED
    BY <2>4, <2>6
<1> HIDE DEF Exists
<1>4. Fails = {}
  <2> SUFFICES ASSUME Fails # {} PROVE FALSE
    OBVIOUS
  <2>1. PICK n \in Fails : \A j \in Fails : n <= j
    <3>1. Fails \in SUBSET Nat
      OBVIOUS
    <3> HIDE DEF Fails
    <3> QED
      BY <3>1, LeastExists
  <2>2. n \in Nat /\ ~Exists(n) /\ n # 0
    BY <1>2
  <2>3. n - 1 \in Nat /\ (n - 1) + 1 = n /\ ~(n <= n - 1)
    BY <2>2
  <2>4. Exists(n - 1)
    BY <2>1, <2>3
  <2>5. Exists((n - 1) + 1)
    BY <1>3, <2>3, <2>4
  <2> QED
    BY <2>2, <2>3, <2>5
<1>5. Cardinality(S) \in Nat /\ Small(Cardinality(S)) = SUBSET S
  BY FS_CardinalityType, FS_Subset
<1>6. Exists(Cardinality(S))
  BY <1>4, <1>5
<1> HIDE DEF Small, Fails
<1> QED
  BY <1>5, <1>6 DEF Exists

-----------------------------------------------------------------------------
(***************************************************************************)
(* The parts of the lines.                                                 *)
(***************************************************************************)
\* A finite set of addresses has a highest one.
LEMMA HighestIs ==
    ASSUME NEW S \in SUBSET Ip, IsFiniteSet(S), S # {}
    PROVE  Highest(S) \in S /\ \A other \in S : other.address <= Highest(S).address
<1> DEFINE HasHighest(T) == \E ip \in T : \A other \in T : other.address <= ip.address
           ch == [T \in SUBSET S |-> CHOOSE ip \in T : TRUE]
           Q == {T \in SUBSET S : T = {} \/ HasHighest(T)}
<1>1. \A ip \in S : ip.address \in Nat
  BY RoutedConfigAssumption DEF Ip
<1>2. Chooses(ch, S)
  BY DEF Chooses
<1>3. ASSUME NEW T \in SUBSET S, T # {}, T \ {ch[T]} \in Q PROVE T \in Q
  <2> DEFINE last == ch[T]
  <2>1. last \in T /\ last \in S
    BY <1>2, <1>3 DEF Chooses
  <2> HIDE DEF ch, last
  <2>2. CASE T \ {last} = {}
    BY <1>1, <2>1, <2>2
  <2>3. CASE T \ {last} # {}
    <3>1. PICK ip \in T \ {last} : \A other \in T \ {last} : other.address <= ip.address
      BY <1>3, <2>3 DEF last
    <3>2. ip.address \in Nat /\ last.address \in Nat
      BY <1>1, <2>1
    <3>3. CASE ip.address <= last.address
      <4>1. \A other \in T : other.address <= last.address
        BY <1>1, <2>1, <3>1, <3>2, <3>3
      <4> QED
        BY <2>1, <4>1
    <3>4. CASE last.address <= ip.address
      <4>1. \A other \in T : other.address <= ip.address
        BY <3>1, <3>4
      <4> QED
        BY <3>1, <4>1
    <3> QED
      BY <3>2, <3>3, <3>4
  <2> QED
    BY <2>2, <2>3
<1> HIDE DEF ch
<1>4. S \in Q
  <2>1. {} \in Q
    OBVIOUS
  <2> HIDE DEF Q
  <2> QED
    BY <1>2, <1>3, <2>1, FoldHolds
<1> QED
  BY <1>4 DEF Highest

\* Addresses that differ from those of the list are added to its end.
LEMMA WithIpAppends ==
    ASSUME NEW ips \in Seq(Ip), NEW ip \in Ip, \A k \in DOMAIN ips : ips[k].address # ip.address
    PROVE  WithIp(ips, ip) = Append(ips, ip)
BY DEF WithIp, Positions

LEMMA WithIpType == \A ips \in Seq(Ip), ip \in Ip : WithIp(ips, ip) \in Seq(Ip)
BY WithIpHolds DEF HoldsOnly

LEMMA GreatestPlace ==
    ASSUME NEW n \in Nat, NEW T \in SUBSET (1..n), T # {}
    PROVE  Max(T) \in T /\ \A k \in T : k <= Max(T)
<1> DEFINE Above == {m \in Nat : \A k \in T : k <= m}
<1>1. n \in Above
  OBVIOUS
<1>2. PICK m \in Above : \A j \in Above : m <= j
  <2>1. Above \in SUBSET Nat
    OBVIOUS
  <2> HIDE DEF Above
  <2> QED
    BY <1>1, <2>1, LeastExists
<1>3. m \in Nat /\ \A k \in T : k \in Nat /\ k # 0 /\ k <= m
  OBVIOUS
<1>4. m \in T
  <2> SUFFICES ASSUME m \notin T PROVE FALSE
    OBVIOUS
  <2>1. \A k \in T : k <= m - 1
    BY <1>3
  <2>2. m # 0
    <3>1. PICK x \in T : TRUE
      OBVIOUS
    <3>2. x \in 1..n /\ x <= m
      BY <1>3
    <3> QED
      BY <1>3, <3>2
  <2>3. m - 1 \in Above /\ ~(m <= m - 1)
    BY <1>3, <2>1, <2>2
  <2> HIDE DEF Above
  <2> QED
    BY <1>2, <2>3
<1>5. \A x \in T : (\A y \in T : x >= y) => x = m
  BY <1>3, <1>4
<1>6. \E x \in T : \A y \in T : x >= y
  BY <1>3, <1>4
<1>7. Max(T) = m
  BY <1>5, <1>6 DEF Max
<1> QED
  BY <1>3, <1>4, <1>7

LEMMA ListIs ==
    ASSUME NEW ips \in Seq(Ip)
    PROVE  /\ Len(ips) \in Nat /\ DOMAIN ips = 1..Len(ips)
           /\ ips = [k \in 1..Len(ips) |-> ips[k]]
           /\ \A k \in 1..Len(ips) : ips[k] \in Ip
<1>1. ips \in [1..Len(ips) -> Ip] /\ Len(ips) \in Nat
  OBVIOUS
<1> QED
  BY <1>1

\* The fold has put the first k addresses behind base, for every k.
LEMMA SecondariesAppended ==
    ASSUME NEW base \in Seq(Ip), NEW more \in Seq(Ip), NoneTwice(base \o more)
    PROVE  FoldLeft(WithIp, base, more) = base \o more
<1> DEFINE n == Len(more)
           b == Len(base)
           D == DOMAIN more
           whole == base \o more
           upto(k) == [j \in 1..(b + k) |-> whole[j]]
           Is(f) == f = [T \in SUBSET D |->
                            IF T = {} THEN base ELSE WithIp(f[T \ {Max(T)}], more[Max(T)])]
           H == CHOOSE f : Is(f)
           ch == [T \in SUBSET D |-> Max(T)]
           op == [x \in D \X Seq(Ip) |-> WithIp(x[2], more[x[1]])]
<1>1. FoldLeft(WithIp, base, more) = H[D]
  BY DEF FoldLeft, MapThenFoldSet
<1>a. n \in Nat /\ b \in Nat /\ D = 1..n /\ D \subseteq Nat /\ DOMAIN base = 1..b
  OBVIOUS
<1>b. IsFiniteSet(D)
  BY <1>a, FS_Interval
<1>c. whole \in Seq(Ip) /\ Len(whole) = b + n
  OBVIOUS
<1>d. \A k \in 1..b : whole[k] = base[k] /\ base[k] \in Ip
  OBVIOUS
<1>e. \A k \in D : more[k] \in Ip /\ whole[b + k] = more[k] /\ b + k \in 1..(b + n)
  OBVIOUS
<1>f. whole = [j \in 1..(b + n) |-> whole[j]] /\ base = [j \in 1..b |-> base[j]]
  <2>1. whole = [j \in 1..Len(whole) |-> whole[j]] /\ base = [j \in 1..Len(base) |-> base[j]]
    <3> HIDE DEF whole
    <3> QED
      BY <1>c, ListIs
  <2> HIDE DEF whole
  <2> QED
    BY <1>c, <2>1
<1> HIDE DEF whole, n, b
<1>2. /\ n \in Nat /\ b \in Nat /\ D = 1..n /\ IsFiniteSet(D) /\ D \subseteq Nat
      /\ whole \in Seq(Ip) /\ DOMAIN whole = 1..(b + n)
      /\ \A k \in 1..b : whole[k] = base[k]
      /\ \A k \in 1..(b + n) : whole[k] \in Ip
      /\ \A k \in D : more[k] \in Ip /\ whole[b + k] = more[k] /\ b + k \in 1..(b + n)
  BY <1>a, <1>b, <1>c, <1>d, <1>e
<1>3. \A T \in SUBSET D : T # {} => Max(T) \in T /\ \A k \in T : k <= Max(T)
  BY <1>2, GreatestPlace
<1>4. Chooses(ch, D)
  BY <1>3 DEF Chooses
<1>5. op \in [D \X Seq(Ip) -> Seq(Ip)]
  BY <1>2, WithIpType
<1> HIDE DEF D
<1>6. PICK f \in [SUBSET D -> Seq(Ip)] : FoldsTo(f, SUBSET D, ch, op, base)
  <2> HIDE DEF ch, op
  <2> QED
    BY <1>2, <1>4, <1>5, FoldExists
<1>7. Is(f)
  <2>1. ASSUME NEW T \in SUBSET D
        PROVE  f[T] = IF T = {} THEN base ELSE WithIp(f[T \ {Max(T)}], more[Max(T)])
    <3>1. T # {} => Max(T) \in D /\ T \ {Max(T)} \in SUBSET D /\ f[T \ {Max(T)}] \in Seq(Ip)
      BY <1>3, <1>6
    <3>2. f[T] = IF T = {} THEN base ELSE op[<<ch[T], f[T \ {ch[T]}]>>]
      BY <1>6 DEF FoldsTo
    <3> QED
      BY <3>1, <3>2
  <2> QED
    BY <1>6, <2>1
<1>8. Is(H)
  <2> HIDE DEF Is
  <2> QED
    BY <1>7
<1> HIDE DEF H
<1> DEFINE Q == {T \in SUBSET D : \A k \in 0..n : T = 1..k => H[T] = upto(k)}
<1>9. {} \in Q
  <2>1. ASSUME NEW k \in 0..n, {} = 1..k PROVE k = 0
    <3>1. k # 0 => 1 \in 1..k
      BY <1>2
    <3> QED
      BY <2>1, <3>1
  <2>2. H[{}] = base
    BY <1>8
  <2>3. upto(0) = base
    <3>1. b + 0 = b
      BY <1>2
    <3>2. upto(0) = [j \in 1..b |-> base[j]]
      BY <1>d, <3>1
    <3> QED
      BY <1>f, <3>2
  <2> QED
    BY <2>1, <2>2, <2>3
<1>10. ASSUME NEW T \in SUBSET D, T # {}, T \ {ch[T]} \in Q PROVE T \in Q
  <2> SUFFICES ASSUME NEW k \in 0..n, T = 1..k PROVE H[T] = upto(k)
    OBVIOUS
  <2>1. k \in 1..n /\ k - 1 \in 0..n /\ T \ {k} = 1..(k - 1)
    BY <1>2, <1>10
  <2>2. Max(T) = k /\ ch[T] = k
    <3>1. Max(T) \in 1..k /\ \A j \in 1..k : j <= Max(T)
      BY <1>3, <1>10
    <3>2. k \in 1..k
      BY <1>2, <2>1
    <3>3. k <= Max(T) /\ Max(T) <= k
      BY <3>1, <3>2
    <3>4. Max(T) = k
      BY <1>2, <3>1, <3>3
    <3> QED
      BY <3>4
  <2>3. H[T \ {k}] = upto(k - 1)
    BY <1>10, <2>1, <2>2
  <2>4. H[T] = WithIp(upto(k - 1), more[k])
    <3>1. H[T] = WithIp(H[T \ {Max(T)}], more[Max(T)])
      BY <1>8, <1>10
    <3> HIDE DEF upto
    <3> QED
      BY <2>2, <2>3, <3>1
  <2>5. /\ upto(k - 1) \in Seq(Ip) /\ Len(upto(k - 1)) = b + (k - 1) /\ DOMAIN upto(k - 1) = 1..(b + (k - 1))
        /\ \A j \in 1..(b + (k - 1)) : upto(k - 1)[j] = whole[j]
    <3>1. b + (k - 1) \in Nat /\ \A j \in 1..(b + (k - 1)) : whole[j] \in Ip
      BY <1>2, <2>1
    <3> DEFINE m == b + (k - 1)
    <3> HIDE DEF m
    <3>2. [j \in 1..m |-> whole[j]] \in [1..m -> Ip] /\ m \in Nat
      BY <3>1 DEF m
    <3>3. [j \in 1..m |-> whole[j]] \in Seq(Ip)
      BY <3>2, SeqDef
    <3>4. Len([j \in 1..m |-> whole[j]]) = m
      BY <3>2
    <3> QED
      BY <3>3, <3>4 DEF m
  <2>6. more[k] \in Ip /\ whole[b + k] = more[k] /\ b + k \in 1..(b + n)
    BY <1>2, <2>1
  <2>7. \A j \in 1..(b + (k - 1)) : whole[j].address # more[k].address
    <3> SUFFICES ASSUME NEW j \in 1..(b + (k - 1)), whole[j].address = whole[b + k].address
                 PROVE  FALSE
      BY <2>6
    <3>1. j \in DOMAIN whole /\ b + k \in DOMAIN whole /\ j # b + k
      BY <1>2, <2>1
    <3> QED
      BY <3>1 DEF NoneTwice, whole
  <2>8. H[T] = Append(upto(k - 1), more[k])
    <3> HIDE DEF upto
    <3> QED
      BY <2>4, <2>5, <2>6, <2>7, WithIpAppends
  <2>9. Append(upto(k - 1), more[k]) = upto(k)
    <3>1. b + (k - 1) + 1 = b + k
      BY <1>2, <2>1
    <3> QED
      BY <1>2, <2>1, <2>5, <2>6, <3>1
  <2> QED
    BY <2>8, <2>9
<1>11. D \in Q
  <2> HIDE DEF Q, ch
  <2> QED
    BY <1>2, <1>4, <1>9, <1>10, FoldHolds
<1>12. H[D] = upto(n)
  BY <1>2, <1>11
<1>13. upto(n) = whole
  BY <1>f
<1> QED
  BY <1>1, <1>12, <1>13 DEF whole

LEMMA ListedAreFinite ==
    ASSUME NEW ips \in Seq(Ip)
    PROVE  /\ IsFiniteSet(ToSet(ips)) /\ ToSet(ips) \in SUBSET Ip
           /\ \A ip \in ToSet(ips) : \E k \in 1..Len(ips) : ips[k] = ip
           /\ \A k \in 1..Len(ips) : ips[k] \in ToSet(ips)
<1>1. /\ Len(ips) \in Nat /\ DOMAIN ips = 1..Len(ips)
      /\ ips = [k \in 1..Len(ips) |-> ips[k]]
      /\ \A k \in 1..Len(ips) : ips[k] \in Ip
  BY ListIs
<1>2. \A k \in 1..Len(ips) : ips[k] \in ToSet(ips)
  BY <1>1 DEF ToSet
<1>3. \A ip \in ToSet(ips) : \E k \in 1..Len(ips) : ips[k] = ip
  BY <1>1 DEF ToSet
<1>4. ips \in [1..Len(ips) -> ToSet(ips)]
  BY <1>1, <1>2
<1>5. ips \in Surjection(1..Len(ips), ToSet(ips))
  BY <1>3, <1>4 DEF Surjection
<1>6. IsFiniteSet(ToSet(ips))
  BY <1>1, <1>5, FS_NatSurjection DEF ExistsSurjection
<1> QED
  BY <1>1, <1>2, <1>3, <1>6

LEMMA EmptyList == <<>> \in Seq(Ip) /\ ToSet(<<>>) = {}
<1>1. DOMAIN <<>> = {}
  OBVIOUS
<1> QED
  BY <1>1 DEF ToSet

LEMMA HighestChooses ==
    ASSUME NEW S \in SUBSET Ip, IsFiniteSet(S)
    PROVE  /\ Chooses([T \in SUBSET S |-> Highest(T)], S)
           /\ \A T \in SUBSET S : T # {} =>
                 Highest(T) \in T /\ \A other \in T : other.address <= Highest(T).address
<1>1. ASSUME NEW T \in SUBSET S, T # {}
      PROVE  Highest(T) \in T /\ \A other \in T : other.address <= Highest(T).address
  <2>1. T \in SUBSET Ip /\ IsFiniteSet(T)
    BY FS_Subset
  <2> QED
    BY <1>1, <2>1, HighestIs
<1> QED
  BY <1>1 DEF Chooses

LEMMA AppendElements ==
    ASSUME NEW ips \in Seq(Ip), NEW ip \in Ip, \A other \in ToSet(ips) : other.address # ip.address
    PROVE  WithIp(ips, ip) \in Seq(Ip) /\ ToSet(WithIp(ips, ip)) = ToSet(ips) \cup {ip}
<1>1. WithIp(ips, ip) = Append(ips, ip)
  BY WithIpAppends DEF ToSet
<1>2. ToSet(Append(ips, ip)) = ToSet(ips) \cup {ip}
  BY AppendIs DEF ToSet
<1> QED
  BY <1>1, <1>2, WithIpType

LEMMA WithVarpElements ==
    ASSUME NEW varp \in Seq(Ip), NEW ip \in Ip, \A other \in ToSet(varp) : other.address # ip.address
    PROVE  WithVarp(varp, ip) \in Seq(Ip) /\ ToSet(WithVarp(varp, ip)) = ToSet(varp) \cup {ip}
<1>1. Positions(varp, ip.address) = {}
  BY DEF Positions, ToSet
<1>2. WithVarp(varp, ip) = Append(varp, ip)
  BY <1>1 DEF WithVarp
<1>3. ToSet(Append(varp, ip)) = ToSet(varp) \cup {ip}
  BY AppendIs DEF ToSet
<1> QED
  BY <1>2, <1>3, WithVarpHolds

\* Arista: all virtual-router addresses come back, in some order.
LEMMA VarpShown ==
    ASSUME NEW r, r.varp \in Seq(Ip), NoneTwice(r.varp)
    PROVE  ToSet(VarpTyped(<<>>, r)) = ToSet(r.varp)
<1> DEFINE S == ToSet(r.varp)
           Is(f) == f = [T \in SUBSET S |->
                            IF T = {} THEN <<>> ELSE WithVarp(f[T \ {Highest(T)}], Highest(T))]
           H == CHOOSE f : Is(f)
           ch == [T \in SUBSET S |-> Highest(T)]
           op == [x \in S \X Seq(Ip) |-> WithVarp(x[2], x[1])]
<1>1. VarpTyped(<<>>, r) = H[S]
  BY DEF VarpTyped, MapThenFoldSet
<1>2. IsFiniteSet(S) /\ S \in SUBSET Ip /\ <<>> \in Seq(Ip)
  BY ListedAreFinite
<1>3. \A x, y \in S : x.address = y.address => x = y
  BY ListIs DEF ToSet, NoneTwice
<1> HIDE DEF S
<1>4. Chooses(ch, S) /\ \A T \in SUBSET S : T # {} => Highest(T) \in T
  BY <1>2, HighestChooses
<1>5. op \in [S \X Seq(Ip) -> Seq(Ip)]
  BY <1>2, WithVarpHolds
<1>6. PICK f \in [SUBSET S -> Seq(Ip)] : FoldsTo(f, SUBSET S, ch, op, <<>>)
  <2> HIDE DEF ch, op
  <2> QED
    BY <1>2, <1>4, <1>5, FoldExists
<1>7. Is(f)
  <2>1. ASSUME NEW T \in SUBSET S
        PROVE  f[T] = IF T = {} THEN <<>> ELSE WithVarp(f[T \ {Highest(T)}], Highest(T))
    <3>1. T # {} => Highest(T) \in S /\ T \ {Highest(T)} \in SUBSET S /\ f[T \ {Highest(T)}] \in Seq(Ip)
      BY <1>4, <1>6
    <3>2. f[T] = IF T = {} THEN <<>> ELSE op[<<ch[T], f[T \ {ch[T]}]>>]
      BY <1>6 DEF FoldsTo
    <3> QED
      BY <3>1, <3>2
  <2> QED
    BY <1>6, <2>1
<1>8. Is(H)
  <2> HIDE DEF Is
  <2> QED
    BY <1>7
<1> HIDE DEF H
<1> DEFINE Q == {T \in SUBSET S : H[T] \in Seq(Ip) /\ ToSet(H[T]) = T}
<1>9. {} \in Q
  <2>1. H[{}] = <<>>
    BY <1>8
  <2>2. {} \in SUBSET S
    OBVIOUS
  <2> QED
    BY <2>1, <2>2, EmptyList
<1>10. ASSUME NEW T \in SUBSET S, T # {}, T \ {ch[T]} \in Q PROVE T \in Q
  <2> DEFINE last == Highest(T)
             W == T \ {last}
  <2>1. last \in T /\ last \in Ip /\ ch[T] = last /\ W \cup {last} = T
    BY <1>2, <1>4, <1>10
  <2>2. H[W] \in Seq(Ip) /\ ToSet(H[W]) = W
    BY <1>10, <2>1
  <2>3. H[T] = WithVarp(H[W], last)
    BY <1>8, <1>10
  <2> HIDE DEF last
  <2>4. \A other \in W : other.address # last.address
    BY <1>3, <2>1
  <2> HIDE DEF W, ch
  <2> QED
    BY <2>1, <2>2, <2>3, <2>4, WithVarpElements
<1>11. S \in Q
  <2> HIDE DEF Q, ch
  <2> QED
    BY <1>2, <1>4, <1>9, <1>10, FoldHolds
<1> QED
  BY <1>1, <1>11 DEF S

-----------------------------------------------------------------------------
LEMMA NetFields ==
    ASSUME NEW x \in Net
    PROVE  /\ \A ips \in Seq(Ip) : LET y == [x EXCEPT !.ips = ips]
              IN /\ y \in Net /\ y.ips = ips /\ y.secondary = x.secondary
                 /\ \A more : [y EXCEPT !.ips = more] = [x EXCEPT !.ips = more]
           /\ \A ips \in SUBSET Ip : LET y == [x EXCEPT !.secondary = ips]
              IN /\ y \in Net /\ y.secondary = ips /\ y.ips = x.ips
                 /\ \A more : [y EXCEPT !.secondary = more] = [x EXCEPT !.secondary = more]
           /\ [x EXCEPT !.ips = x.ips] = x /\ [x EXCEPT !.secondary = x.secondary] = x
           /\ x.ips \in Seq(Ip) /\ x.secondary \in SUBSET Ip
BY DEF Net

LEMMA OnBrocadeType ==
    ASSUME NEW x \in Net, NEW ip \in Ip, NEW sec \in BOOLEAN
    PROVE  OnBrocade(x, ip, sec) \in Net
<1>1. /\ [x EXCEPT !.ips = WithIp(@, ip)] \in Net
      /\ [x EXCEPT !.secondary = @ \cup {ip}] \in Net
  BY NetFields, WithIpType
<1> QED
  BY <1>1 DEF OnBrocade

\* Brocade: what was typed is listed, in some order, and holds no higher address
\* in its networks; so each address finds no owner.
LEMMA BrocadePrimariesShown ==
    ASSUME vendor = "brocade", NEW r \in Net, NestsNone(r.ips), ~Covered(r),
           NEW x \in Net, x.ips = <<>>
    PROVE  \E ips \in Seq(Ip) : /\ ToSet(ips) = ToSet(r.ips)
                                /\ BrocadePrimariesTyped(x, r) = [x EXCEPT !.ips = ips]
<1> DEFINE S == ToSet(r.ips)
           Is(f) == f = [T \in SUBSET S |->
                            IF T = {} THEN x
                            ELSE OnBrocade(f[T \ {Highest(T)}], Highest(T), FALSE)]
           H == CHOOSE f : Is(f)
           ch == [T \in SUBSET S |-> Highest(T)]
           op == [z \in S \X Net |-> OnBrocade(z[2], z[1], FALSE)]
<1>1. BrocadePrimariesTyped(x, r) = H[S]
  BY DEF BrocadePrimariesTyped, MapThenFoldSet
<1>0. r.ips \in Seq(Ip)
  BY NetFields
<1>2. IsFiniteSet(S) /\ S \in SUBSET Ip
  BY <1>0, ListedAreFinite
<1>3. \A a, b \in S : a # b /\ a.address <= b.address =>
          b.address \notin a.network /\ a.address # b.address
  <2> SUFFICES ASSUME NEW a \in S, NEW b \in S, a # b, a.address <= b.address
               PROVE  b.address \notin a.network /\ a.address # b.address
    OBVIOUS
  <2>1. PICK j \in 1..Len(r.ips), k \in 1..Len(r.ips) : r.ips[j] = a /\ r.ips[k] = b
    BY <1>0, ListedAreFinite
  <2>2. /\ j \in DOMAIN r.ips /\ k \in DOMAIN r.ips /\ j # k
        /\ a.address \in Nat /\ b.address \in Nat /\ a.address \in a.network /\ b.address \in b.network
    BY <1>0, <1>2, <2>1, RoutedConfigAssumption DEF Ip
  <2>3. a.address # b.address
    <3> SUFFICES ASSUME a.address = b.address PROVE FALSE
      OBVIOUS
    <3>1. j \in 1..(k - 1) \/ k \in 1..(j - 1)
      BY <1>0, <2>1, <2>2
    <3> QED
      BY <2>1, <2>2, <3>1 DEF NestsNone
  <2>4. a.address < b.address
    BY <2>2, <2>3
  <2> QED
    BY <2>1, <2>2, <2>3, <2>4 DEF Covered
<1> HIDE DEF S
<1>4. Chooses(ch, S) /\ \A T \in SUBSET S : T # {} =>
          Highest(T) \in T /\ \A other \in T : other.address <= Highest(T).address
  BY <1>2, HighestChooses
<1>5. op \in [S \X Net -> Net]
  BY <1>2, OnBrocadeType
<1>6. PICK f \in [SUBSET S -> Net] : FoldsTo(f, SUBSET S, ch, op, x)
  <2> HIDE DEF ch, op
  <2> QED
    BY <1>2, <1>4, <1>5, FoldExists
<1>7. Is(f)
  <2>1. ASSUME NEW T \in SUBSET S
        PROVE  f[T] = IF T = {} THEN x ELSE OnBrocade(f[T \ {Highest(T)}], Highest(T), FALSE)
    <3>1. T # {} => Highest(T) \in S /\ T \ {Highest(T)} \in SUBSET S /\ f[T \ {Highest(T)}] \in Net
      BY <1>4, <1>6
    <3>2. f[T] = IF T = {} THEN x ELSE op[<<ch[T], f[T \ {ch[T]}]>>]
      BY <1>6 DEF FoldsTo
    <3> QED
      BY <3>1, <3>2
  <2> QED
    BY <1>6, <2>1
<1>8. Is(H)
  <2> HIDE DEF Is
  <2> QED
    BY <1>7
<1> HIDE DEF H
<1> DEFINE Q == {T \in SUBSET S : \E ips \in Seq(Ip) : ToSet(ips) = T /\ H[T] = [x EXCEPT !.ips = ips]}
<1>9. {} \in Q
  <2>1. H[{}] = x
    BY <1>8
  <2>2. [x EXCEPT !.ips = <<>>] = x /\ <<>> \in Seq(Ip) /\ ToSet(<<>>) = {}
    <3>1. [x EXCEPT !.ips = x.ips] = x
      BY NetFields
    <3> QED
      BY <3>1, EmptyList
  <2> QED
    BY <2>1, <2>2
<1>10. ASSUME NEW T \in SUBSET S, T # {}, T \ {ch[T]} \in Q PROVE T \in Q
  <2> DEFINE last == Highest(T)
             W == T \ {last}
  <2>1. /\ last \in T /\ last \in Ip /\ last \in S /\ ch[T] = last /\ W \cup {last} = T
        /\ \A other \in T : other.address <= last.address
    BY <1>2, <1>4, <1>10
  <2>2. PICK ips \in Seq(Ip) : ToSet(ips) = W /\ H[W] = [x EXCEPT !.ips = ips]
    BY <1>10, <2>1
  <2>3. H[T] = OnBrocade(H[W], last, FALSE)
    BY <1>8, <1>10
  <2> HIDE DEF last
  <2>4. \A other \in W : last.address \notin other.network /\ other.address # last.address
    BY <1>3, <2>1
  <2> HIDE DEF W, ch
  <2>5. Holding(ips, last.address) = {}
    BY <2>2, <2>4 DEF Holding, ToSet
  <2>6. H[T] = [x EXCEPT !.ips = WithIp(ips, last)]
    <3> DEFINE y == [x EXCEPT !.ips = ips]
    <3>1. y.ips = ips /\ \A more : [y EXCEPT !.ips = more] = [x EXCEPT !.ips = more]
      BY NetFields
    <3> HIDE DEF y
    <3>2. OnBrocade(y, last, FALSE) = [y EXCEPT !.ips = WithIp(@, last)]
      BY <2>5, <3>1 DEF OnBrocade
    <3> QED
      BY <2>2, <2>3, <3>1, <3>2 DEF y
  <2>7. WithIp(ips, last) \in Seq(Ip) /\ ToSet(WithIp(ips, last)) = T
    BY <2>1, <2>2, <2>4, AppendElements
  <2> QED
    BY <2>6, <2>7
<1>11. S \in Q
  <2> HIDE DEF Q, ch
  <2> QED
    BY <1>2, <1>4, <1>9, <1>10, FoldHolds
<1> QED
  BY <1>1, <1>11 DEF S

\* There are no more secondary addresses than addresses.
LEMMA DistinctAreFinite ==
    ASSUME NEW S \in SUBSET Ip, \A a, b \in S : a.address = b.address => a = b
    PROVE  IsFiniteSet(S)
<1> DEFINE f == [ip \in S |-> ip.address]
<1>1. f \in [S -> Addresses] /\ \A a, b \in S : f[a] = f[b] => a = b
  BY DEF Ip
<1>2. f \in Injection(S, Addresses)
  <2> HIDE DEF f
  <2> QED
    BY <1>1 DEF Injection, IsInjective
<1> QED
  BY <1>2, FS_Injection, RoutedConfigAssumption

\* An address of a network of the interface that is not in its lists.
LEMMA SecondaryTyped ==
    ASSUME NEW x \in Net, NEW ip \in Ip, Holding(x.ips, ip.address) # {},
           \A other \in ToSet(x.ips) : other.address # ip.address,
           \A other \in x.secondary : other.address # ip.address
    PROVE  OnBrocade(x, ip, TRUE) = [x EXCEPT !.secondary = @ \cup {ip}]
<1> DEFINE holding == Holding(x.ips, ip.address)
           k == CHOOSE k \in holding : \A j \in holding : k <= j
<1>1. holding \in SUBSET Nat /\ holding \subseteq DOMAIN x.ips
  <2>1. x.ips \in Seq(Ip)
    BY NetFields
  <2>2. DOMAIN x.ips \subseteq Nat
    BY <2>1, ListIs
  <2> QED
    BY <2>2 DEF Holding
<1>2. k \in holding
  <2>1. \E m \in holding : \A j \in holding : m <= j
    BY <1>1, LeastExists
  <2> QED
    BY <2>1
<1>3. x.ips[k] \in ToSet(x.ips)
  BY <1>1, <1>2 DEF ToSet
<1>4. x.ips[k].address # ip.address
  BY <1>3
<1> QED
  BY <1>4 DEF OnBrocade

\* Brocade: all secondary addresses come back.
LEMMA BrocadeSecondariesShown ==
    ASSUME NEW r \in Net, ~Orphaned(r),
           \A a, b \in r.secondary : a.address = b.address => a = b,
           NEW x \in Net, x.secondary = {}, ToSet(x.ips) = ToSet(r.ips)
    PROVE  BrocadeSecondariesTyped(x, r) = [x EXCEPT !.secondary = r.secondary]
<1> DEFINE S == r.secondary
           Is(f) == f = [T \in SUBSET S |->
                            IF T = {} THEN x
                            ELSE OnBrocade(f[T \ {Highest(T)}], Highest(T), TRUE)]
           H == CHOOSE f : Is(f)
           ch == [T \in SUBSET S |-> Highest(T)]
           F == [T \in SUBSET S |-> [x EXCEPT !.secondary = T]]
<1>1. BrocadeSecondariesTyped(x, r) = H[S]
  BY DEF BrocadeSecondariesTyped, MapThenFoldSet
<1>2. S \in SUBSET Ip /\ IsFiniteSet(S)
  <2>1. S \in SUBSET Ip
    BY NetFields
  <2> QED
    BY <2>1, DistinctAreFinite
<1>3. ASSUME NEW ip \in S
      PROVE  /\ Holding(x.ips, ip.address) # {}
             /\ \A other \in ToSet(x.ips) : other.address # ip.address
  <2>1. Holding(r.ips, ip.address) # {} /\ Positions(r.ips, ip.address) = {}
    BY DEF Orphaned
  <2>2. PICK k \in DOMAIN r.ips : ip.address \in r.ips[k].network
    BY <2>1 DEF Holding
  <2>3. r.ips[k] \in ToSet(x.ips)
    BY <2>2 DEF ToSet
  <2>4. PICK j \in DOMAIN x.ips : x.ips[j] = r.ips[k]
    BY <2>3 DEF ToSet
  <2>5. j \in Holding(x.ips, ip.address)
    BY <2>2, <2>4 DEF Holding
  <2>6. \A other \in ToSet(r.ips) : other.address # ip.address
    BY <2>1 DEF Positions, ToSet
  <2> QED
    BY <2>5, <2>6
<1>4. Chooses(ch, S) /\ \A T \in SUBSET S : T # {} => Highest(T) \in T
  BY <1>2, HighestChooses
<1>5. \A T \in SUBSET S : T \in SUBSET Ip
  BY <1>2
<1>6. \A T \in SUBSET S : T # {} => OnBrocade(F[T \ {Highest(T)}], Highest(T), TRUE) = F[T]
  <2> SUFFICES ASSUME NEW T \in SUBSET S, T # {}
               PROVE  OnBrocade(F[T \ {Highest(T)}], Highest(T), TRUE) = F[T]
    OBVIOUS
  <2> DEFINE last == Highest(T)
             W == T \ {last}
             y == [x EXCEPT !.secondary = W]
  <2>1. /\ last \in S /\ last \in Ip /\ last \in T /\ W \in SUBSET S /\ W \in SUBSET Ip
        /\ W \cup {last} = T
    BY <1>2, <1>4
  <2>2. F[W] = y /\ F[T] = [x EXCEPT !.secondary = T]
    BY <2>1
  <2> HIDE DEF last
  <2>3. \A other \in W : other.address # last.address
    BY <2>1
  <2> HIDE DEF W
  <2>4. /\ y \in Net /\ y.secondary = W /\ y.ips = x.ips
        /\ \A more : [y EXCEPT !.secondary = more] = [x EXCEPT !.secondary = more]
    BY <2>1, NetFields
  <2> HIDE DEF y
  <2>5. OnBrocade(y, last, TRUE) = [y EXCEPT !.secondary = @ \cup {last}]
    BY <1>3, <2>1, <2>3, <2>4, SecondaryTyped
  <2>6. OnBrocade(y, last, TRUE) = [x EXCEPT !.secondary = T]
    BY <2>1, <2>4, <2>5
  <2> QED
    BY <2>2, <2>6 DEF last, W
<1>7. F[{}] = x
  BY NetFields
<1>8. Is(F)
  <2>1. F = [T \in SUBSET S |-> F[T]]
    OBVIOUS
  <2> HIDE DEF F, S
  <2>2. \A T \in SUBSET S : F[T] = IF T = {} THEN x
                                   ELSE OnBrocade(F[T \ {Highest(T)}], Highest(T), TRUE)
    BY <1>6, <1>7
  <2> QED
    BY <2>1, <2>2
<1>9. Is(H)
  <2> HIDE DEF Is
  <2> QED
    BY <1>8
<1> HIDE DEF H, F
<1> DEFINE Q == {T \in SUBSET S : H[T] = F[T]}
<1>10. {} \in Q
  BY <1>7, <1>9
<1>11. ASSUME NEW T \in SUBSET S, T # {}, T \ {ch[T]} \in Q PROVE T \in Q
  <2>1. ch[T] = Highest(T)
    OBVIOUS
  <2>2. H[T \ {Highest(T)}] = F[T \ {Highest(T)}]
    BY <1>11, <2>1
  <2>3. H[T] = OnBrocade(H[T \ {Highest(T)}], Highest(T), TRUE)
    BY <1>9, <1>11
  <2> QED
    BY <1>6, <1>11, <2>2, <2>3
<1>12. S \in Q
  <2> HIDE DEF Q, ch
  <2> QED
    BY <1>2, <1>4, <1>10, <1>11, FoldHolds
<1>13. F[S] = [x EXCEPT !.secondary = S]
  BY DEF F
<1> QED
  BY <1>1, <1>12, <1>13

-----------------------------------------------------------------------------
LEMMA TrackFinite ==
    ASSUME NEW track \in Track
    PROVE  IsFiniteSet(DOMAIN track) /\ track = [key \in DOMAIN track |-> track[key]]
<1>1. PICK D \in SUBSET (Tracked \cup {NoValue}) : track \in [D -> Priorities \cup {NoValue}]
  BY DEF Track
<1>2. IsFiniteSet(Tracked \cup {NoValue})
  BY FS_AddElement, RoutedConfigAssumption
<1>3. IsFiniteSet(D)
  BY <1>2, FS_Subset
<1> QED
  BY <1>1, <1>3

\* A Cisco group gets all its tracked ports back.
LEMMA TracksShown ==
    ASSUME NEW track \in Track, DOMAIN track # {}
    PROVE  TracksTyped(track) = track
<1> DEFINE S == DOMAIN track
           any(T) == CHOOSE key \in T : TRUE
           Is(f) == f = [T \in SUBSET S |->
                            IF T = {} THEN NoTrack
                            ELSE Updated(f[T \ {any(T)}], any(T), track[any(T)])]
           H == CHOOSE f : Is(f)
           ch == [T \in SUBSET S |-> any(T)]
           F == [T \in SUBSET S |-> [key \in T |-> track[key]]]
<1>1. TracksTyped(track) = H[S]
  BY DEF TracksTyped, MapThenFoldSet
<1>2. IsFiniteSet(S) /\ track = [key \in S |-> track[key]]
  BY TrackFinite
<1>3. \A T \in SUBSET S : T # {} => any(T) \in T
  OBVIOUS
<1>4. Chooses(ch, S)
  BY <1>3 DEF Chooses
<1> HIDE DEF any
<1>5. \A T \in SUBSET S : T # {} => Updated(F[T \ {any(T)}], any(T), track[any(T)]) = F[T]
  <2> SUFFICES ASSUME NEW T \in SUBSET S, T # {}
               PROVE  Updated(F[T \ {any(T)}], any(T), track[any(T)]) = F[T]
    OBVIOUS
  <2>1. any(T) \in T /\ T \ {any(T)} \in SUBSET S /\ (T \ {any(T)}) \cup {any(T)} = T
    BY <1>3
  <2>2. F[T \ {any(T)}] = [key \in T \ {any(T)} |-> track[key]] /\ F[T] = [key \in T |-> track[key]]
    BY <2>1
  <2> HIDE DEF F, S
  <2> QED
    BY <2>1, <2>2 DEF Updated
<1>6. F[{}] = NoTrack
  BY DEF NoTrack
<1>7. Is(F)
  <2>1. F = [T \in SUBSET S |-> F[T]]
    OBVIOUS
  <2> HIDE DEF F, S
  <2>2. \A T \in SUBSET S : F[T] = IF T = {} THEN NoTrack
                                   ELSE Updated(F[T \ {any(T)}], any(T), track[any(T)])
    BY <1>5, <1>6
  <2> QED
    BY <2>1, <2>2
<1>8. Is(H)
  <2> HIDE DEF Is
  <2> QED
    BY <1>7
<1> HIDE DEF H, F
<1> DEFINE Q == {T \in SUBSET S : H[T] = F[T]}
<1>9. {} \in Q
  BY <1>6, <1>8
<1>10. ASSUME NEW T \in SUBSET S, T # {}, T \ {ch[T]} \in Q PROVE T \in Q
  <2>1. H[T \ {any(T)}] = F[T \ {any(T)}]
    BY <1>10
  <2>2. H[T] = Updated(H[T \ {any(T)}], any(T), track[any(T)])
    BY <1>8, <1>10
  <2> QED
    BY <1>5, <1>10, <2>1, <2>2
<1>11. S \in Q
  <2> HIDE DEF Q, ch
  <2> QED
    BY <1>2, <1>4, <1>9, <1>10, FoldHolds
<1>12. F[S] = track
  BY <1>2 DEF F
<1> QED
  BY <1>1, <1>11, <1>12

\* A Brocade group gets its entry back, if it says anything.
LEMMA EntryShown ==
    ASSUME NEW track \in Track, OneEntry(track)
    PROVE  EntryTyped(track) \in Track /\ Entries(EntryTyped(track)) = Entries(track)
<1>0. NoTrack \in Track /\ NoTrack # NoValue /\ track # NoValue
  BY NoTrackIsTrack, NoValueIsNew
<1>1. FirstKeys(NoTrack) = {NoValue} /\ FirstValues(NoTrack) = {NoValue}
  BY DEF FirstKeys, FirstValues, NoTrack
<1>2. track = [key \in DOMAIN track |-> track[key]]
  BY TrackFinite
<1>3. PICK D \in SUBSET (Tracked \cup {NoValue}) : track \in [D -> Priorities \cup {NoValue}]
  BY DEF Track
<1>4. CASE DOMAIN track = {}
  <2>1. FirstKeys(track) = {NoValue}
    BY <1>4 DEF FirstKeys
  <2>2. track = NoTrack
    BY <1>2, <1>4 DEF NoTrack
  <2>3. EntryTyped(track) = NoTrack
    BY <2>1, <2>2 DEF EntryTyped
  <2> QED
    BY <1>0, <2>2, <2>3
<1>5. CASE DOMAIN track # {}
  <2>1. PICK key \in DOMAIN track : DOMAIN track = {key}
    BY <1>0, <1>5 DEF OneEntry
  <2> DEFINE value == track[key]
             backup == IF value = NoValue THEN NoTrack ELSE [k \in {NoValue} |-> value]
             typed == IF key = NoValue THEN backup ELSE [k \in {key} |-> value]
  <2>2. track = [k \in {key} |-> value]
    BY <1>2, <2>1
  <2>3. FirstKeys(track) = {key} /\ track # NoTrack
    BY <2>1 DEF FirstKeys, NoTrack
  <2>4. key \in Tracked \cup {NoValue} /\ value \in Priorities \cup {NoValue}
    BY <1>3, <2>1
  <2>5. Updated(NoTrack, NoValue, value) = [k \in {NoValue} |-> value]
    BY DEF Updated, NoTrack
  <2>6. FirstValues(backup) = {value}
    <3>1. CASE value = NoValue
      BY <1>1, <3>1
    <3>2. CASE value # NoValue
      BY <3>2 DEF FirstValues
    <3> QED
      BY <3>1, <3>2
  <2>7. (CHOOSE k \in FirstKeys(track) : TRUE) = key /\ (CHOOSE k \in FirstKeys(NoTrack) : TRUE) = NoValue
    BY <1>1, <2>3
  <2>8. (CHOOSE v \in FirstValues(backup) : TRUE) = value
    <3> HIDE DEF value, backup
    <3> QED
      BY <2>6
  <2>9. EntryTyped(track) = typed
    <3> DEFINE first == CHOOSE k \in FirstKeys(track) : TRUE
               shown == IF track = NoTrack \/ track[first] = NoValue THEN NoTrack
                        ELSE Updated(NoTrack, CHOOSE k \in FirstKeys(NoTrack) : TRUE, track[first])
    <3>1. EntryTyped(track) = IF first = NoValue THEN shown
                              ELSE [k \in {first} |-> CHOOSE v \in FirstValues(shown) : TRUE]
      BY DEF EntryTyped
    <3>2. first = key
      BY <2>7
    <3> HIDE DEF first
    <3>3. shown = backup
      BY <2>3, <2>5, <2>7, <3>2
    <3> HIDE DEF shown, backup, value
    <3>4. EntryTyped(track) = IF key = NoValue THEN backup
                              ELSE [k \in {key} |-> CHOOSE v \in FirstValues(backup) : TRUE]
      BY <3>1, <3>2, <3>3
    <3> QED
      BY <2>8, <3>4
  <2>10. typed \in Track
    <3> HIDE DEF value
    <3>1. ASSUME NEW k \in Tracked \cup {NoValue} PROVE [j \in {k} |-> value] \in Track
      <4>1. {k} \in SUBSET (Tracked \cup {NoValue})
        OBVIOUS
      <4>2. [j \in {k} |-> value] \in [{k} -> Priorities \cup {NoValue}]
        BY <2>4
      <4> QED
        BY <4>1, <4>2 DEF Track
    <3> QED
      BY <1>0, <2>4, <3>1
  <2>11. typed # NoValue
    BY <2>10, NoValueIsNew
  <2>12. Entries(track) = {<<key, value>>} \ {<<NoValue, NoValue>>}
    BY <1>0, <2>1 DEF Entries
  <2>13. Entries(typed) = {<<key, value>>} \ {<<NoValue, NoValue>>}
    <3>1. CASE typed = NoTrack
      BY <2>11, <3>1, <2>5 DEF Entries, NoTrack
    <3>2. CASE typed = [k \in {key} |-> value]
      BY <2>11, <3>2 DEF Entries
    <3> QED
      BY <3>1, <3>2
  <2> QED
    BY <2>9, <2>10, <2>12, <2>13
<1> QED
  BY <1>4, <1>5

-----------------------------------------------------------------------------
(***************************************************************************)
(* The inductive invariant of what only some makes configure, and of the   *)
(* secondary addresses of a Brocade.                                       *)
(***************************************************************************)
Shaped(u, r) ==
    /\ u.vendor # "brocade" => r.secondary = {}
    /\ u.vendor # "arista" => r.varp = <<>>
    /\ u.vendor = "arista" => \A g \in Groups : r.groups[g] = NoValue
    /\ \A a, b \in r.secondary : a.address = b.address => a = b

ShapeInv == \A p \in Port : Shaped(use, net[p])

LEMMA FreshShaped == ASSUME NEW u PROVE Shaped(u, Fresh)
BY DEF Shaped, Fresh

\* What has the secondary and virtual-router addresses and the groups of r has
\* its shape.
LEMMA SameShape ==
    ASSUME NEW u, NEW r, Shaped(u, r), NEW q,
           q.secondary = r.secondary, q.varp = r.varp, q.groups = r.groups
    PROVE  Shaped(u, q)
BY DEF Shaped

LEMMA ShapeWritten ==
    ASSUME Inv, ShapeInv, UNCHANGED use, NEW s \in Sessions, NEW r, Set(s, r),
           at[s].port \in Port, Shaped(use, r)
    PROVE  ShapeInv'
<1>1. net' = net \/ net' = [net EXCEPT ![at[s].port] = r]
  BY DEF Set
<1> QED
  BY <1>1 DEF ShapeInv, Inv

LEMMA HeldShaped ==
    ASSUME Inv, ShapeInv, NEW s \in Sessions, NEW makes, OnInterface(s, makes)
    PROVE  /\ Held(s) \in Net /\ Shaped(use, Held(s)) /\ at[s].port \in Port
           /\ use.vendor \in makes /\ UNCHANGED use
BY OnInterfaceHeld DEF ShapeInv, Held, vendor

\* The addresses are written.
LEMMA IpsShaped ==
    ASSUME Inv, ShapeInv, NEW s \in Sessions, NEW makes, OnInterface(s, makes),
           NEW ips, Set(s, [Held(s) EXCEPT !.ips = ips])
    PROVE  ShapeInv'
<1> DEFINE r == [Held(s) EXCEPT !.ips = ips]
<1>1. Held(s) \in Net /\ Shaped(use, Held(s)) /\ at[s].port \in Port /\ UNCHANGED use
  BY HeldShaped
<1>2. Shaped(use, r)
  BY <1>1, SameShape DEF Net
<1> HIDE DEF r
<1> QED
  BY <1>1, <1>2, ShapeWritten DEF r

LEMMA SecondaryShaped ==
    ASSUME Inv, ShapeInv, NEW s \in Sessions, OnInterface(s, {"brocade"}),
           NEW secondary, \A a, b \in secondary : a.address = b.address => a = b,
           Set(s, [Held(s) EXCEPT !.secondary = secondary])
    PROVE  ShapeInv'
<1> DEFINE r == [Held(s) EXCEPT !.secondary = secondary]
<1>1. /\ Held(s) \in Net /\ Shaped(use, Held(s)) /\ at[s].port \in Port /\ UNCHANGED use
      /\ use.vendor = "brocade"
  BY HeldShaped
<1>2. r.secondary = secondary /\ r.varp = Held(s).varp /\ r.groups = Held(s).groups
  BY <1>1 DEF Net
<1>3. Set(s, r)
  OBVIOUS
<1> HIDE DEF r
<1>4. Shaped(use, r)
  BY <1>1, <1>2 DEF Shaped
<1> QED
  BY <1>1, <1>3, <1>4, ShapeWritten

LEMMA VarpShaped ==
    ASSUME Inv, ShapeInv, NEW s \in Sessions, OnInterface(s, {"arista"}),
           NEW varp, Set(s, [Held(s) EXCEPT !.varp = varp])
    PROVE  ShapeInv'
<1> DEFINE r == [Held(s) EXCEPT !.varp = varp]
<1>1. /\ Held(s) \in Net /\ Shaped(use, Held(s)) /\ at[s].port \in Port /\ UNCHANGED use
      /\ use.vendor = "arista"
  BY HeldShaped
<1>2. r.secondary = Held(s).secondary /\ r.groups = Held(s).groups
  BY <1>1 DEF Net
<1>3. Set(s, r)
  OBVIOUS
<1> HIDE DEF r
<1>4. Shaped(use, r)
  BY <1>1, <1>2 DEF Shaped
<1> QED
  BY <1>1, <1>3, <1>4, ShapeWritten

LEMMA GroupsShaped ==
    ASSUME Inv, ShapeInv, NEW s \in Sessions, OnInterface(s, {"brocade", "cisco"}),
           NEW groups, Set(s, [Held(s) EXCEPT !.groups = groups])
    PROVE  ShapeInv'
<1> DEFINE r == [Held(s) EXCEPT !.groups = groups]
<1>1. /\ Held(s) \in Net /\ Shaped(use, Held(s)) /\ at[s].port \in Port /\ UNCHANGED use
      /\ use.vendor # "arista"
  BY HeldShaped
<1>2. r.secondary = Held(s).secondary /\ r.varp = Held(s).varp
  BY <1>1 DEF Net
<1>3. Set(s, r)
  OBVIOUS
<1> HIDE DEF r
<1>4. Shaped(use, r)
  BY <1>1, <1>2 DEF Shaped
<1> QED
  BY <1>1, <1>3, <1>4, ShapeWritten

LEMMA AddressShaped ==
    ASSUME Inv, ShapeInv, NEW s \in Sessions, AddressCommand(s)
    PROVE  ShapeInv'
<1>1. ASSUME NEW makes, OnInterface(s, makes),
             \E ips : Set(s, [Held(s) EXCEPT !.ips = ips])
      PROVE  ShapeInv'
  BY <1>1, IpsShaped
<1>2. ASSUME NoAddresses(s) PROVE ShapeInv'
  BY <1>1, <1>2 DEF NoAddresses
<1>3. ASSUME NEW ip, SecondaryAddress(s, ip) PROVE ShapeInv'
  BY <1>1, <1>3 DEF SecondaryAddress
<1>4. ASSUME NEW ip, PrimaryAddress(s, ip) PROVE ShapeInv'
  BY <1>1, <1>4 DEF PrimaryAddress
<1>5. ASSUME NEW ip, PrimaryAddressRaises(s, ip) PROVE ShapeInv'
  BY <1>1, <1>5 DEF PrimaryAddressRaises
<1>6. ASSUME NEW ip, NEW sec, NoAddress(s, ip, sec) PROVE ShapeInv'
  BY <1>1, <1>6 DEF NoAddress
<1>7. ASSUME NEW ip, BrocadeNoAddress(s, ip) PROVE ShapeInv'
  <2>1. OnInterface(s, {"brocade"})
    BY <1>7 DEF BrocadeNoAddress
  <2>2. ASSUME NEW gone, Set(s, [Held(s) EXCEPT !.secondary = @ \ {gone}]) PROVE ShapeInv'
    <3> DEFINE fewer == Held(s).secondary \ {gone}
    <3>1. \A a, b \in fewer : a.address = b.address => a = b
      BY <2>1, HeldShaped DEF Shaped
    <3>2. Set(s, [Held(s) EXCEPT !.secondary = fewer])
      BY <2>2
    <3> HIDE DEF fewer
    <3> QED
      BY <2>1, <3>1, <3>2, SecondaryShaped
  <2>3. CASE Set(s, [Held(s) EXCEPT !.ips = WithoutIp(Held(s).ips, ip)])
    BY <1>1, <2>1, <2>3
  <2> QED
    BY <1>7, <2>2, <2>3 DEF BrocadeNoAddress
<1>8. ASSUME NEW ip, NEW sec, BrocadeAddress(s, ip, sec) PROVE ShapeInv'
  <2> DEFINE more == Held(s).secondary \cup {ip}
  <2>1. OnInterface(s, {"brocade"})
    BY <1>8 DEF BrocadeAddress
  <2>2. CASE Set(s, [Held(s) EXCEPT !.ips = WithIp(Held(s).ips, ip)])
    BY <1>1, <2>1, <2>2
  <2>3. CASE /\ \A other \in Held(s).secondary : other.address # ip.address
             /\ Set(s, [Held(s) EXCEPT !.secondary = more])
    <3>1. \A a, b \in more : a.address = b.address => a = b
      BY <2>1, <2>3, HeldShaped DEF Shaped
    <3> HIDE DEF more
    <3> QED
      BY <2>1, <2>3, <3>1, SecondaryShaped
  <2> QED
    BY <1>8, <2>2, <2>3 DEF BrocadeAddress
<1>9. ASSUME OnInterface(s, {"arista"}), \E varp : Set(s, [Held(s) EXCEPT !.varp = varp])
      PROVE  ShapeInv'
  BY <1>9, VarpShaped
<1>10. ASSUME NEW ip, VirtualRouterAddress(s, ip) \/ NoVirtualRouterAddress(s, ip) PROVE ShapeInv'
  BY <1>9, <1>10 DEF VirtualRouterAddress, NoVirtualRouterAddress
<1>11. ASSUME NoVirtualRouterAddresses(s) PROVE ShapeInv'
  BY <1>9, <1>11 DEF NoVirtualRouterAddresses
<1> QED
  BY <1>2, <1>3, <1>4, <1>5, <1>6, <1>7, <1>8, <1>10, <1>11 DEF AddressCommand

LEMMA VrfShaped ==
    ASSUME Inv, ShapeInv, NEW s \in Sessions, VrfCommand(s)
    PROVE  ShapeInv'
<1>1. at[s].port \in Port /\ UNCHANGED use
  BY DEF VrfCommand, VrfForwarding, NoVrfForwarding, Inv, Place
<1>2. Held(s) \in Net /\ Shaped(use, Held(s))
  BY <1>1, HeldGood DEF ShapeInv, Held
<1>3. ASSUME NEW v PROVE Shaped(use, [Held(s) EXCEPT !.ips = <<>>, !.vrf = v])
  BY <1>2 DEF Shaped, Net
<1>4. ASSUME NEW v PROVE Shaped(use, [Held(s) EXCEPT !.vrf = v])
  BY <1>2, SameShape DEF Net
<1>5. ASSUME NEW v, VrfForwarding(s, v) PROVE ShapeInv'
  BY <1>1, <1>3, <1>5, ShapeWritten DEF VrfForwarding
<1>6. ASSUME NEW v, NoVrfForwarding(s, v) PROVE ShapeInv'
  BY <1>1, <1>3, <1>4, <1>6, ShapeWritten DEF NoVrfForwarding
<1> QED
  BY <1>5, <1>6 DEF VrfCommand

\* An Arista has no groups to enter.
LEMMA GroupShaped ==
    ASSUME Inv, ShapeInv, NEW s \in Sessions, GroupCommand(s)
    PROVE  ShapeInv'
<1>1. ASSUME OnInterface(s, {"brocade", "cisco"}), NEW g, NEW track,
             Set(s, [Held(s) EXCEPT !.groups[g] = track])
      PROVE  ShapeInv'
  <2>1. Held(s) \in Net
    BY <1>1, HeldShaped
  <2>2. [Held(s) EXCEPT !.groups[g] = track] =
            [Held(s) EXCEPT !.groups = [Held(s).groups EXCEPT ![g] = track]]
    BY <2>1 DEF Net
  <2> QED
    BY <1>1, <2>2, GroupsShaped
<1>2. ASSUME NEW track, SetTrack(s, track), InGroup(s) PROVE ShapeInv'
  <2>1. /\ OnInterface(s, {vendor}) /\ at[s].group \in Groups
        /\ Set(s, [Held(s) EXCEPT !.groups[at[s].group] = track])
        /\ HeldTrack(s) \in Track
    BY <1>2, GroupHeld
  <2>2. HeldTrack(s) # NoValue /\ Shaped(use, Held(s)) /\ use \in Uses
    BY <2>1, NoValueIsNew, HeldShaped DEF Inv
  <2>3. use.vendor # "arista"
    BY <2>1, <2>2 DEF Shaped, HeldTrack
  <2>4. use.vendor \in {"brocade", "cisco"}
    BY <2>2, <2>3, RoutedInterfacesAssumption DEF Use
  <2>5. OnInterface(s, {"brocade", "cisco"})
    BY <2>1, <2>4 DEF OnInterface, vendor
  <2> QED
    BY <1>1, <2>1, <2>5
<1>3. ASSUME LeaveGroup(s) PROVE ShapeInv'
  BY <1>3 DEF LeaveGroup, ShapeInv
<1>4. ASSUME NEW g, EnterGroup(s, g) \/ NoGroup(s, g) \/ Standby(s, g) PROVE ShapeInv'
  <2>1. OnInterface(s, {"brocade", "cisco"})
    BY <1>4 DEF EnterGroup, NoGroup, Standby, OnInterface
  <2> QED
    BY <1>1, <1>4, <2>1, GroupsShaped DEF EnterGroup, NoGroup, Standby
<1>5. ASSUME NEW value, Backup(s, value) PROVE ShapeInv'
  BY <1>2, <1>5 DEF Backup
<1>6. ASSUME NEW key, TrackPort(s, key) PROVE ShapeInv'
  BY <1>2, <1>6 DEF TrackPort
<1>7. ASSUME NEW g, NEW key, NoStandbyTrack(s, g, key) PROVE ShapeInv'
  <2>1. OnInterface(s, {"brocade", "cisco"})
    BY <1>7 DEF NoStandbyTrack, OnInterface
  <2> QED
    BY <1>1, <1>7, <2>1 DEF NoStandbyTrack
<1>8. ASSUME NEW g, NEW key, NEW value, StandbyTrack(s, g, key, value) PROVE ShapeInv'
  <2>1. OnInterface(s, {"brocade", "cisco"})
    BY <1>8 DEF StandbyTrack, OnInterface
  <2> QED
    BY <1>8, <2>1, GroupsShaped DEF StandbyTrack
<1> QED
  BY <1>3, <1>4, <1>5, <1>6, <1>7, <1>8 DEF GroupCommand

LEMMA ConfigShaped ==
    ASSUME Inv, ShapeInv, NEW s \in Sessions, ConfigCommand(s)
    PROVE  ShapeInv'
<1>0. \A p \in Port : net[p] \in Net
  BY DEF Inv
<1>1. ASSUME NEW i \in Interfaces, NewInterface(s, i) \/ RemoveInterface(s, i) \/ RenewInterface(s, i)
      PROVE  ShapeInv'
  BY <1>1, FreshShaped DEF NewInterface, RemoveInterface, RenewInterface, ShapeInv, Inv
<1>2. ASSUME UNCHANGED use, \A p \in Port : /\ net'[p].secondary = net[p].secondary
                                            /\ net'[p].varp = net[p].varp
                                            /\ net'[p].groups = net[p].groups
      PROVE  ShapeInv'
  BY <1>2, SameShape DEF ShapeInv
<1>3. ASSUME NEW v, NoVrf(s, v) PROVE ShapeInv'
  <2>1. \A p \in Port : net'[p] = net[p] \/ net'[p] = [net[p] EXCEPT !.vrf = NoValue]
    BY <1>3 DEF NoVrf
  <2>2. \A p \in Port : /\ net'[p].secondary = net[p].secondary
                        /\ net'[p].varp = net[p].varp
                        /\ net'[p].groups = net[p].groups
    BY <1>0, <2>1 DEF Net
  <2> QED
    BY <1>2, <1>3, <2>2 DEF NoVrf
<1>4. ASSUME NEW p, ResetInterface(s, p) PROVE ShapeInv'
  <2>1. \A q \in Port : /\ net'[q].secondary = net[q].secondary
                        /\ net'[q].varp = net[q].varp
                        /\ net'[q].groups = net[q].groups
    BY <1>0, <1>4 DEF ResetInterface, Inv, Net
  <2> QED
    BY <1>2, <1>4, <2>1 DEF ResetInterface
<1>5. ASSUME UNCHANGED <<use, net>> PROVE ShapeInv'
  BY <1>5 DEF ShapeInv
<1> QED
  BY <1>1, <1>3, <1>4, <1>5 DEF ConfigCommand, Vrf, Interface, Leave

LEMMA ShapeInvNext == Inv /\ ShapeInv /\ [Next]_vars => ShapeInv'
<1>1. ASSUME Inv, ShapeInv, Next PROVE ShapeInv'
  BY <1>1, ConfigShaped, AddressShaped, VrfShaped, GroupShaped DEF Next
<1>2. ASSUME ShapeInv, UNCHANGED vars PROVE ShapeInv'
  BY <1>2 DEF ShapeInv, vars
<1> QED
  BY <1>1, <1>2

LEMMA ShapeInvAlways == Spec => []ShapeInv
<1>1. Init => ShapeInv
  BY FreshShaped DEF Init, ShapeInv
<1> QED
  BY <1>1, ShapeInvNext, InvAlways, PTL DEF Spec

-----------------------------------------------------------------------------
(***************************************************************************)
(* An interface that is typed anew, from its parts.                        *)
(***************************************************************************)
\* An interface with a vrf and addresses, and no group yet.
Addressed(ips, secondary, varp, v) ==
    [ips |-> ips, secondary |-> secondary, varp |-> varp, vrf |-> v,
     groups |-> [g \in Groups |-> NoValue]]

LEMMA EmptyAddressed ==
    ASSUME NEW v \in Vrfs \cup {NoValue}
    PROVE  Addressed(<<>>, {}, <<>>, v) \in Net
BY DEF Addressed, Net

\* The switch has the vrf, so it is found; there are no addresses to lose yet.
LEMMA VrfShown ==
    ASSUME NEW r, r.vrf \in vrfs \cup {NoValue}
    PROVE  VrfTyped(Fresh, r) = Addressed(<<>>, {}, <<>>, r.vrf)
BY DEF VrfTyped, FoundVrf, Fresh, Addressed

LEMMA ListParts ==
    ASSUME NEW ips \in Seq(Ip), ips # <<>>
    PROVE  LET more == SubSeq(ips, 2, Len(ips))
           IN /\ Head(ips) \in Ip /\ Head(ips) = ips[1] /\ Len(ips) \in Nat \ {0}
              /\ more \in Seq(Ip) /\ Len(more) = Len(ips) - 1
              /\ \A k \in 1..(Len(ips) - 1) : more[k] = ips[k + 1] /\ k + 1 \in 1..Len(ips)
              /\ <<Head(ips)>> \o more = ips
<1> DEFINE more == SubSeq(ips, 2, Len(ips))
<1>1. Len(ips) \in Nat \ {0} /\ Head(ips) \in Ip /\ Head(ips) = ips[1]
  OBVIOUS
<1>2. more \in Seq(Ip) /\ Len(more) = Len(ips) - 1
  <2>1. 2 \in Int /\ Len(ips) \in Int /\ \A k \in 2..Len(ips) : ips[k] \in Ip
    BY <1>1
  <2> DEFINE n == Len(ips)
  <2> HIDE DEF n
  <2>2. SubSeq(ips, 2, n) \in Seq(Ip) /\ Len(SubSeq(ips, 2, n)) = IF 2 <= n THEN n - 2 + 1 ELSE 0
    BY <2>1, SubSeqProperties DEF n
  <2>3. (IF 2 <= n THEN n - 2 + 1 ELSE 0) = n - 1
    <3>1. n \in Nat /\ n # 0
      BY <1>1 DEF n
    <3> QED
      BY <3>1
  <2> QED
    BY <2>2, <2>3 DEF n
<1>3. \A k \in 1..(Len(ips) - 1) : more[k] = ips[k + 1] /\ k + 1 \in 1..Len(ips)
  BY <1>1, <1>2, SubSeqProperties
<1>4. <<Head(ips)>> \o more = ips
  <2> HIDE DEF more
  <2>1. <<Head(ips)>> \in Seq(Ip) /\ Len(<<Head(ips)>>) = 1 /\ <<Head(ips)>>[1] = ips[1]
    BY <1>1
  <2>2. Len(<<Head(ips)>> \o more) = Len(ips)
    BY <1>1, <1>2, <2>1
  <2>3. \A k \in 1..Len(ips) : (<<Head(ips)>> \o more)[k] = ips[k]
    <3> TAKE k \in 1..Len(ips)
    <3>1. CASE k = 1
      BY <1>1, <1>2, <2>1, <3>1
    <3>2. CASE k # 1
      <4>1. k - 1 \in 1..(Len(ips) - 1) /\ (k - 1) + 1 = k
        BY <1>1, <3>2
      <4>2. (<<Head(ips)>> \o more)[k] = more[k - 1]
        BY <1>1, <1>2, <2>1, <3>2
      <4> QED
        BY <1>3, <4>1, <4>2
    <3> QED
      BY <3>1, <3>2
  <2>4. <<Head(ips)>> \o more \in Seq(Ip)
    BY <1>2, <2>1
  <2> QED
    BY <2>2, <2>3, <2>4, SeqEqual
<1> QED
  BY <1>1, <1>2, <1>3, <1>4

LEMMA SecondariesShown ==
    ASSUME NEW base \in Seq(Ip), NEW r, r.ips \in Seq(Ip),
           NoneTwice(base \o SubSeq(r.ips, 2, Len(r.ips)))
    PROVE  SecondariesTyped(base, r) = base \o SubSeq(r.ips, 2, Len(r.ips))
<1>1. SubSeq(r.ips, 2, Len(r.ips)) \in Seq(Ip)
  <2>1. CASE r.ips = <<>>
    <3>1. Len(r.ips) < 2 /\ Len(r.ips) \in Int
      BY <2>1
    <3>2. SubSeq(r.ips, 2, Len(r.ips)) = <<>>
      BY <3>1, SubSeqEmpty
    <3> QED
      BY <3>2
  <2>2. CASE r.ips # <<>>
    BY <2>2, ListParts
  <2> QED
    BY <2>1, <2>2
<1> QED
  BY <1>1, SecondariesAppended DEF SecondariesTyped

LEMMA NoSecondaries ==
    ASSUME NEW r, r.ips = <<>>
    PROVE  SecondariesTyped(<<>>, r) = <<>>
<1>1. Len(r.ips) < 2 /\ Len(r.ips) \in Int
  OBVIOUS
<1>2. SubSeq(r.ips, 2, Len(r.ips)) = <<>>
  BY <1>1, SubSeqEmpty
<1>3. <<>> \in Seq(Ip) /\ <<>> \o <<>> = <<>>
  OBVIOUS
<1>4. NoneTwice(<<>> \o SubSeq(r.ips, 2, Len(r.ips)))
  BY <1>2, <1>3, EmptyApart
<1> QED
  BY <1>2, <1>3, <1>4, SecondariesShown

\* Arista: the first address, then the others behind it.
LEMMA AristaAddresses ==
    ASSUME vendor = "arista", NEW r \in Net, NoneTwice(r.ips)
    PROVE  SecondariesTyped(PrimaryTyped(<<>>, r), r) = r.ips
<1>0. r.ips \in Seq(Ip)
  BY NetFields
<1>1. CASE r.ips = <<>>
  BY <1>1, NoSecondaries DEF PrimaryTyped
<1>2. CASE r.ips # <<>>
  <2>1. PrimaryTyped(<<>>, r) = <<Head(r.ips)>>
    BY <1>2 DEF PrimaryTyped, OverPrimary
  <2>2. /\ <<Head(r.ips)>> \in Seq(Ip)
        /\ <<Head(r.ips)>> \o SubSeq(r.ips, 2, Len(r.ips)) = r.ips
    BY <1>0, <1>2, ListParts
  <2> QED
    BY <1>0, <2>1, <2>2, SecondariesShown
<1> QED
  BY <1>1, <1>2

\* Cisco: the secondary addresses, then the primary one over the first of them.
LEMMA CiscoAddresses ==
    ASSUME vendor = "cisco", NEW r \in Net, NoneTwice(r.ips)
    PROVE  PrimaryTyped(SecondariesTyped(<<>>, r), r) = Survivors(r)
<1>0. r.ips \in Seq(Ip)
  BY NetFields
<1>1. CASE r.ips = <<>>
  BY <1>1, NoSecondaries DEF PrimaryTyped, Survivors
<1>2. CASE r.ips # <<>>
  <2> DEFINE more == SubSeq(r.ips, 2, Len(r.ips))
             first == Head(r.ips)
  <2>1. /\ first \in Ip /\ first = r.ips[1] /\ Len(r.ips) \in Nat \ {0}
        /\ more \in Seq(Ip) /\ Len(more) = Len(r.ips) - 1
        /\ \A k \in 1..(Len(r.ips) - 1) : more[k] = r.ips[k + 1] /\ k + 1 \in 1..Len(r.ips)
    BY <1>0, <1>2, ListParts
  <2>2. DOMAIN r.ips = 1..Len(r.ips)
    BY <1>0
  <2> HIDE DEF first
  <2>3. SecondariesTyped(<<>>, r) = more
    <3> HIDE DEF more
    <3>1. DOMAIN more = 1..(Len(r.ips) - 1) /\ <<>> \o more = more
      BY <2>1
    <3>2. NoneTwice(more)
      <4> SUFFICES ASSUME NEW j \in DOMAIN more, NEW k \in DOMAIN more,
                          more[j].address = more[k].address
                   PROVE  j = k
        BY DEF NoneTwice
      <4>1. j \in 1..(Len(r.ips) - 1) /\ k \in 1..(Len(r.ips) - 1)
        BY <3>1
      <4>2. /\ j + 1 \in DOMAIN r.ips /\ k + 1 \in DOMAIN r.ips
            /\ r.ips[j + 1].address = r.ips[k + 1].address
        BY <2>1, <2>2, <4>1
      <4>3. j + 1 = k + 1
        BY <4>2 DEF NoneTwice
      <4> QED
        BY <2>1, <4>1, <4>3
    <3>3. NoneTwice(<<>> \o more) /\ <<>> \in Seq(Ip)
      BY <3>1, <3>2, EmptyList
    <3>4. SecondariesTyped(<<>>, r) = <<>> \o more
      BY <1>0, <3>3, SecondariesShown DEF more
    <3> QED
      BY <3>1, <3>4
  <2>4. Positions(more, first.address) = {}
    <3> HIDE DEF more
    <3> SUFFICES ASSUME NEW k \in DOMAIN more, more[k].address = first.address PROVE FALSE
      BY DEF Positions
    <3>1. k \in 1..(Len(r.ips) - 1)
      BY <2>1
    <3>2. k + 1 \in DOMAIN r.ips /\ 1 \in DOMAIN r.ips /\ k + 1 # 1
      BY <2>1, <2>2, <3>1
    <3> QED
      BY <2>1, <3>1, <3>2 DEF NoneTwice
  <2>5. PrimaryTyped(more, r) = IF more = <<>> THEN <<first>> ELSE [more EXCEPT ![1] = first]
    <3> HIDE DEF more
    <3>1. PrimaryTyped(more, r) = OverPrimary(more, first)
      BY <1>2 DEF PrimaryTyped, first
    <3>2. WithoutIp(more, first) = more
      BY <2>4 DEF WithoutIp
    <3> QED
      BY <3>1, <3>2 DEF OverPrimary
  <2> HIDE DEF more
  <2>6. CASE Len(r.ips) = 1
    <3>1. more = <<>>
      BY <2>1, <2>6
    <3>2. <<first>> = r.ips
      BY <1>0, <2>1, <2>6
    <3> QED
      BY <2>3, <2>5, <2>6, <3>1, <3>2 DEF Survivors
  <2>7. CASE Len(r.ips) > 1
    <3> DEFINE put == [more EXCEPT ![1] = first]
               n == Len(r.ips)
               head == SubSeq(r.ips, 1, 1)
               tail == SubSeq(r.ips, 3, n)
    <3>1. /\ n \in Nat /\ n > 1 /\ r.ips = [k \in 1..n |-> r.ips[k]]
          /\ \A k \in 1..n : r.ips[k] \in Ip
      BY <1>0, <2>7, ListIs
    <3>2. more # <<>> /\ DOMAIN more = 1..(n - 1) /\ more \in Seq(Ip)
      BY <2>1, <2>7
    <3>3. /\ put \in Seq(Ip) /\ Len(put) = n - 1
          /\ \A k \in 1..(n - 1) : put[k] = IF k = 1 THEN r.ips[1] ELSE r.ips[k + 1]
      <4>1. put \in Seq(Ip)
        BY <2>1, <3>2
      <4>2. Len(put) = n - 1
        BY <2>1, <3>2
      <4> QED
        BY <2>1, <3>1, <3>2, <4>1, <4>2
    <3> HIDE DEF n, put
    <3>4. head \in Seq(Ip) /\ Len(head) = 1 /\ head[1] = r.ips[1]
      <4>1. 1 \in Int /\ \A k \in 1..1 : r.ips[k] \in Ip
        BY <3>1
      <4>2. head \in Seq(Ip) /\ Len(head) = (IF 1 <= 1 THEN 1 - 1 + 1 ELSE 0)
            /\ \A k \in 1..(1 - 1 + 1) : head[k] = r.ips[1 + k - 1]
        BY <4>1, SubSeqProperties
      <4> HIDE DEF head
      <4>3. 1 \in 1..(1 - 1 + 1) /\ 1 + 1 - 1 = 1
        OBVIOUS
      <4> QED
        BY <4>2, <4>3
    <3>5. tail \in Seq(Ip) /\ Len(tail) = n - 2 /\ \A k \in 1..(n - 2) : tail[k] = r.ips[k + 2]
      <4>1. 3 \in Int /\ n \in Int /\ \A k \in 3..n : r.ips[k] \in Ip
        BY <3>1
      <4>2. tail \in Seq(Ip) /\ Len(tail) = (IF 3 <= n THEN n - 3 + 1 ELSE 0)
            /\ \A k \in 1..(n - 3 + 1) : tail[k] = r.ips[3 + k - 1]
        BY <4>1, SubSeqProperties
      <4> HIDE DEF tail
      <4>3. (IF 3 <= n THEN n - 3 + 1 ELSE 0) = n - 2 /\ n - 3 + 1 = n - 2
        BY <3>1
      <4>4. \A k \in 1..(n - 2) : 3 + k - 1 = k + 2
        BY <3>1
      <4> QED
        BY <4>2, <4>3, <4>4
    <3>6. Survivors(r) = head \o tail
      <4>1. Survivors(r) = RemoveAt(r.ips, 2)
        BY <2>7 DEF Survivors
      <4>2. 2 - 1 = 1 /\ 2 + 1 = 3
        OBVIOUS
      <4> QED
        BY <4>1, <4>2 DEF RemoveAt, n
    <3> HIDE DEF head, tail
    <3>7. /\ head \o tail \in Seq(Ip) /\ Len(head \o tail) = 1 + (n - 2)
          /\ \A k \in 1..(1 + (n - 2)) : (head \o tail)[k] = IF k <= 1 THEN head[k] ELSE tail[k - 1]
      BY <3>1, <3>4, <3>5, ConcatProperties
    <3>8. Len(put) = Len(head \o tail) /\ Len(put) = n - 1
      BY <3>1, <3>3, <3>7
    <3>9. \A k \in 1..Len(put) : put[k] = (head \o tail)[k]
      <4> TAKE k \in 1..Len(put)
      <4>1. k \in 1..(n - 1) /\ k \in 1..(1 + (n - 2))
        BY <3>1, <3>8
      <4>2. CASE k = 1
        BY <3>3, <3>4, <3>7, <4>1, <4>2
      <4>3. CASE k # 1
        <5>1. k - 1 \in 1..(n - 2) /\ (k - 1) + 2 = k + 1 /\ ~(k <= 1)
          BY <3>1, <4>1, <4>3
        <5>2. tail[k - 1] = r.ips[k + 1]
          BY <3>5, <5>1
        <5> QED
          BY <3>3, <3>7, <4>1, <4>3, <5>1, <5>2
      <4> QED
        BY <4>2, <4>3
    <3>10. put = head \o tail
      BY <3>3, <3>7, <3>8, <3>9, SeqEqual
    <3> QED
      BY <2>3, <2>5, <3>2, <3>6, <3>10 DEF put
  <2>8. Len(r.ips) = 1 \/ Len(r.ips) > 1
    <3> DEFINE n == Len(r.ips)
    <3>1. n \in Nat /\ n # 0
      BY <2>1
    <3> HIDE DEF n
    <3>2. n = 1 \/ n > 1
      BY <3>1
    <3> QED
      BY <3>2 DEF n
  <2> QED
    BY <2>6, <2>7, <2>8
<1> QED
  BY <1>1, <1>2

-----------------------------------------------------------------------------
(***************************************************************************)
(* What is shown of an interface, typed into a new one.                    *)
(***************************************************************************)
Replayable(r) ==
    /\ vendor \in {"brocade", "cisco", "arista"}
    /\ r \in Net /\ GoodNet(use, r) /\ Sound(use, r) /\ Shaped(use, r)
    /\ ~Lossy(r)

LEMMA AddressedFields ==
    ASSUME NEW ips, NEW secondary, NEW varp, NEW v, NEW i
    PROVE  /\ [Addressed(ips, secondary, varp, v) EXCEPT !.ips = i] = Addressed(i, secondary, varp, v)
           /\ [Addressed(ips, secondary, varp, v) EXCEPT !.secondary = i] = Addressed(ips, i, varp, v)
<1> DEFINE none == [g \in Groups |-> NoValue]
<1>1. \A j, k : Addressed(j, k, varp, v) = [ips |-> j, secondary |-> k, varp |-> varp, vrf |-> v,
                                            groups |-> none]
  BY DEF Addressed
<1> HIDE DEF none
<1> QED
  BY <1>1

\* The addresses that come back.
LEMMA AddressesShown ==
    ASSUME NEW r, Replayable(r)
    PROVE  \E ips, varp :
              /\ AddressesTyped(Addressed(<<>>, {}, <<>>, r.vrf), r)
                    = Addressed(ips, r.secondary, varp, r.vrf)
              /\ IF vendor = "brocade" THEN ToSet(ips) = ToSet(r.ips) ELSE ips = Survivors(r)
              /\ ToSet(varp) = ToSet(r.varp)
<1> DEFINE x == Addressed(<<>>, {}, <<>>, r.vrf)
<1>1. r \in Net /\ r.ips \in Seq(Ip) /\ r.varp \in Seq(Ip) /\ r.vrf \in Vrfs \cup {NoValue}
  BY DEF Replayable, Net
<1>2. NoneTwice(r.varp)
  BY DEF Replayable, Sound
<1>3. CASE vendor = "cisco"
  <2>1. NoneTwice(r.ips) /\ r.secondary = {} /\ r.varp = <<>>
    BY <1>3 DEF Replayable, Shaped, vendor, Lossy, Doubled, NoneTwice
  <2>2. AddressesTyped(x, r) = [x EXCEPT !.ips = PrimaryTyped(SecondariesTyped(@, r), r)]
    BY <1>3 DEF AddressesTyped
  <2>3. x.ips = <<>>
    BY DEF Addressed
  <2>4. AddressesTyped(x, r) = [x EXCEPT !.ips = Survivors(r)]
    BY <1>1, <1>3, <2>1, <2>2, <2>3, CiscoAddresses
  <2>5. AddressesTyped(x, r) = Addressed(Survivors(r), r.secondary, <<>>, r.vrf)
    BY <2>1, <2>4 DEF Addressed
  <2> QED
    BY <1>3, <2>1, <2>5
<1>4. CASE vendor = "arista"
  <2>1. NoneTwice(r.ips) /\ r.secondary = {}
    BY <1>4 DEF Replayable, Shaped, vendor, Lossy, Doubled, NoneTwice
  <2>2. AddressesTyped(x, r) = [x EXCEPT !.ips = SecondariesTyped(PrimaryTyped(@, r), r),
                                         !.varp = VarpTyped(@, r)]
    BY <1>4 DEF AddressesTyped
  <2>3. x.ips = <<>> /\ x.varp = <<>>
    BY DEF Addressed
  <2>4. SecondariesTyped(PrimaryTyped(<<>>, r), r) = r.ips
    BY <1>1, <1>4, <2>1, AristaAddresses
  <2>5. AddressesTyped(x, r) = Addressed(r.ips, r.secondary, VarpTyped(<<>>, r), r.vrf)
    BY <2>1, <2>2, <2>3, <2>4 DEF Addressed
  <2>6. ToSet(VarpTyped(<<>>, r)) = ToSet(r.varp)
    BY <1>1, <1>2, VarpShown
  <2>7. Survivors(r) = r.ips
    BY <1>4 DEF Survivors
  <2> QED
    BY <1>4, <2>5, <2>6, <2>7
<1>5. CASE vendor = "brocade"
  <2>1. /\ NestsNone(r.ips) /\ r.varp = <<>>
        /\ \A a, b \in r.secondary : a.address = b.address => a = b
        /\ ~Covered(r) /\ ~Orphaned(r)
    BY <1>5 DEF Replayable, Sound, Shaped, vendor, Lossy
  <2>2. x \in Net /\ x.ips = <<>>
    BY <1>1, EmptyAddressed DEF Addressed
  <2>3. AddressesTyped(x, r) = BrocadeSecondariesTyped(BrocadePrimariesTyped(x, r), r)
    BY <1>5 DEF AddressesTyped
  <2> HIDE DEF x
  <2>4. PICK ips \in Seq(Ip) : /\ ToSet(ips) = ToSet(r.ips)
                               /\ BrocadePrimariesTyped(x, r) = [x EXCEPT !.ips = ips]
    BY <1>1, <1>5, <2>1, <2>2, BrocadePrimariesShown
  <2> DEFINE y == [x EXCEPT !.ips = ips]
  <2>5. y = Addressed(ips, {}, <<>>, r.vrf)
    BY AddressedFields DEF x
  <2>6. y \in Net /\ y.ips = ips /\ y.secondary = {}
    <3>1. y \in Net /\ y.ips = ips
      BY <2>2, NetFields
    <3> QED
      BY <2>5, <3>1 DEF Addressed
  <2> HIDE DEF y
  <2>7. BrocadeSecondariesTyped(y, r) = [y EXCEPT !.secondary = r.secondary]
    BY <1>1, <2>1, <2>4, <2>6, BrocadeSecondariesShown
  <2>8. [y EXCEPT !.secondary = r.secondary] = Addressed(ips, r.secondary, <<>>, r.vrf)
    BY <2>5 DEF Addressed
  <2>9. AddressesTyped(x, r) = Addressed(ips, r.secondary, <<>>, r.vrf)
    BY <2>3, <2>4, <2>7, <2>8 DEF y
  <2> QED
    BY <1>5, <2>1, <2>4, <2>9 DEF x
<1> QED
  BY <1>3, <1>4, <1>5 DEF Replayable

\* The groups that come back.
LEMMA GroupsShown ==
    ASSUME NEW r, Replayable(r), NEW ips, NEW secondary, NEW varp, NEW v
    PROVE  LET x == GroupsTyped(Addressed(ips, secondary, varp, v), r)
           IN /\ x.ips = ips /\ x.secondary = secondary /\ x.varp = varp /\ x.vrf = v
              /\ \A g \in Groups : Entries(x.groups[g]) = Entries(r.groups[g])
<1> DEFINE y == Addressed(ips, secondary, varp, v)
           typed(g) == IF r.groups[g] = NoValue THEN y.groups[g]
                       ELSE CASE vendor = "cisco"   -> TracksTyped(r.groups[g])
                              [] vendor = "brocade" -> EntryTyped(r.groups[g])
                              [] vendor = "arista"  -> y.groups[g]
<1>1. /\ vendor \in {"brocade", "cisco", "arista"}
      /\ r.groups \in [Groups -> Track \cup {NoValue}]
      /\ vendor = "brocade" => \A g \in Groups : OneEntry(r.groups[g])
      /\ vendor = "arista" => \A g \in Groups : r.groups[g] = NoValue
  BY DEF Replayable, GoodNet, Shaped, Net, vendor
<1>2. GroupsTyped(y, r) = [y EXCEPT !.groups = [g \in Groups |-> typed(g)]]
  BY DEF GroupsTyped
<1>3. \A g \in Groups : y.groups[g] = NoValue
  BY DEF Addressed
<1>4. ASSUME NEW g \in Groups PROVE Entries(typed(g)) = Entries(r.groups[g])
  <2> DEFINE track == r.groups[g]
  <2>1. CASE track = NoValue
    BY <1>3, <2>1
  <2>2. CASE track # NoValue /\ vendor = "cisco"
    <3>1. typed(g) = TracksTyped(track) /\ track \in Track
      BY <1>1, <2>2
    <3> HIDE DEF track, typed
    <3>2. CASE DOMAIN track = {}
      <4>1. typed(g) = NoValue
        BY <3>1, <3>2 DEF TracksTyped
      <4>2. Entries(track) = {}
        BY <3>2 DEF Entries
      <4> QED
        BY <4>1, <4>2 DEF Entries, track
    <3>3. CASE DOMAIN track # {}
      BY <3>1, <3>3, TracksShown DEF track
    <3> QED
      BY <3>2, <3>3
  <2>3. CASE track # NoValue /\ vendor = "brocade"
    <3>1. typed(g) = EntryTyped(track) /\ track \in Track /\ OneEntry(track)
      BY <1>1, <2>3
    <3> HIDE DEF track, typed
    <3> QED
      BY <3>1, EntryShown DEF track
  <2> QED
    BY <1>1, <2>1, <2>2, <2>3
<1> HIDE DEF typed
<1>5. LET x == GroupsTyped(y, r)
      IN /\ x.ips = ips /\ x.secondary = secondary /\ x.varp = varp /\ x.vrf = v
         /\ x.groups = [g \in Groups |-> typed(g)]
  BY <1>2 DEF Addressed
<1> HIDE DEF y
<1> QED
  BY <1>4, <1>5 DEF y

LEMMA SameReplayed ==
    ASSUME NEW r, Replayable(r), r.vrf \in vrfs \cup {NoValue}
    PROVE  SameInterface(Replayed(r), r)
<1>1. VrfTyped(Fresh, r) = Addressed(<<>>, {}, <<>>, r.vrf)
  BY VrfShown
<1>2. PICK ips, varp :
          /\ AddressesTyped(Addressed(<<>>, {}, <<>>, r.vrf), r)
                = Addressed(ips, r.secondary, varp, r.vrf)
          /\ IF vendor = "brocade" THEN ToSet(ips) = ToSet(r.ips) ELSE ips = Survivors(r)
          /\ ToSet(varp) = ToSet(r.varp)
  BY AddressesShown
<1>3. Replayed(r) = GroupsTyped(Addressed(ips, r.secondary, varp, r.vrf), r)
  BY <1>1, <1>2 DEF Replayed
<1> QED
  BY <1>2, <1>3, GroupsShown DEF SameInterface

\* However an interface came to its configuration, what the switch shows of it,
\* typed into a new interface, gives it the same vrf, addresses and groups, but
\* for the cases that Lossy names: no address is refused because a lower network
\* was typed first, and no line undoes an earlier one.
THEOREM RoutedConfigReplaysAlways == Spec => []RoutedConfigReplays
<1>1. ASSUME Inv, AddressInv, ShapeInv PROVE RoutedConfigReplays
  <2> SUFFICES ASSUME NEW p \in Names(ports), ~Lossy(net[p])
               PROVE  SameInterface(Replayed(net[p]), net[p])
    BY DEF RoutedConfigReplays
  <2>1. p \in Port
    BY <1>1 DEF Inv, IsNameList
  <2>2. Replayable(net[p])
    BY <1>1, <2>1, RoutedInterfacesAssumption
       DEF Inv, AddressInv, ShapeInv, Replayable, Use, vendor
  <2>3. net[p].vrf \in vrfs \cup {NoValue}
    BY <1>1 DEF Inv, VrfListed
  <2> QED
    BY <2>2, <2>3, SameReplayed
<1> QED
  BY <1>1, InvAlways, AddressInvAlways, ShapeInvAlways, PTL
=============================================================================
