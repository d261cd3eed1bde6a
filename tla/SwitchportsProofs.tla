------------------------- MODULE SwitchportsProofs -------------------------
(***************************************************************************)
(* Proofs about Switchports, for every number of sessions, vlans and       *)
(* interfaces, and for every make.                                         *)
(***************************************************************************)
EXTENDS RunningConfig, OrderedNamesProofs, FiniteSetTheorems, WellFoundedInduction

-----------------------------------------------------------------------------
(***************************************************************************)
(* The inductive invariant: the shape of the state, the objects that       *)
(* sessions hold, and what an interface may have configured.               *)
(***************************************************************************)

\* A session in the mode of an object holds one (Dell's vlan mode holds none).
HoldsObject(p) ==
    /\ p.mode = "interface" => p.port \in Object
    /\ p.mode = "vlan" /\ vendor # "dell" => p.vlan \in Numbers

\* What interface r of make v may have configured.
BrocadePort(r) ==
    /\ r.mode = NoValue
    /\ r.access # NoValue => r.trunk = NoValue
    /\ r.trunk # NoneListed
    /\ r.trunk # NoValue => \A n \in Numbers : r.trunk[n] <= 1

DellPort(r) ==
    /\ r.native # NoValue => r.mode = "general"
    /\ r.trunk # NoValue => /\ r.mode \in {"trunk", "general"}
                            /\ \A n \in Numbers : r.trunk[n] <= 1

AristaPort(r) == r.access = NoValue /\ r.native = NoValue

GoodPort(v, r) ==
    /\ r \in Port
    /\ v = "brocade" => BrocadePort(r)
    /\ v = "dell" => DellPort(r)
    /\ v = "arista" => AristaPort(r)

Inv ==
    /\ use \in Uses
    /\ vlans \in [Numbers -> Nat]
    /\ IsNameList(ports, Object)
    /\ port \in [Object -> Port]
    /\ \A o \in Object : GoodPort(vendor, port[o])
    /\ at \in [Sessions -> Place]
    /\ \A s \in Sessions : HoldsObject(at[s])

LEMMA NoValueIsNew ==
    /\ NoValue \notin Nat /\ NoValue \notin Numbers
    /\ NoValue \notin [Numbers -> Nat] /\ NoValue \notin Object
    /\ NoValue \notin {"access", "trunk", "general"}
BY SwitchportsAssumption

\* Lists of vlans as counts.
LEMMA TrunkTypes ==
    ASSUME NEW t \in [Numbers -> Nat], NEW S
    PROVE  /\ Listed(S) \in [Numbers -> Nat]
           /\ Appended(t, S) \in [Numbers -> Nat]
           /\ Merged(t, S) \in [Numbers -> Nat]
           /\ Removed(t, S) \in [Numbers -> Nat]
           /\ NoneListed \in [Numbers -> Nat]
           /\ OrNone(t) \in [Numbers -> Nat] \cup {NoValue}
           /\ OrNone(t) # NoneListed
           /\ \A n \in Numbers : Merged(t, S)[n] <= 1 /\ Removed(t, S)[n] <= t[n]
<1>1. /\ Listed(S) \in [Numbers -> Nat] /\ NoneListed \in [Numbers -> Nat]
      /\ Appended(t, S) \in [Numbers -> Nat]
      /\ Merged(t, S) \in [Numbers -> Nat]
  BY DEF Listed, NoneListed, Appended, Merged
<1>2. Removed(t, S) \in [Numbers -> Nat]
  BY DEF Removed
<1>3. \A n \in Numbers : Merged(t, S)[n] <= 1 /\ Removed(t, S)[n] <= t[n]
  BY DEF Merged, Removed
<1>4. OrNone(t) \in [Numbers -> Nat] \cup {NoValue} /\ OrNone(t) # NoneListed
  BY <1>1, NoValueIsNew DEF OrNone
<1> QED
  BY <1>1, <1>2, <1>3, <1>4

LEMMA RemovedOnce ==
    ASSUME NEW t \in [Numbers -> Nat], \A n \in Numbers : t[n] <= 1, NEW S
    PROVE  /\ Removed(t, S) \in [Numbers -> Nat]
           /\ \A n \in Numbers : Removed(t, S)[n] <= 1
<1>1. Removed(t, S) \in [Numbers -> Nat] /\ \A n \in Numbers : Removed(t, S)[n] <= t[n]
  BY TrunkTypes
<1> QED
  BY <1>1

LEMMA MergedLists ==
    ASSUME NEW t \in [Numbers -> Nat], NEW n \in Numbers
    PROVE  Merged(t, {n}) # NoneListed
<1>1. Merged(t, {n})[n] = 1 /\ NoneListed[n] = 0
  BY DEF Merged, NoneListed, Listed
<1> QED
  BY <1>1

-----------------------------------------------------------------------------
(***************************************************************************)
(* What the commands make of one interface.                                *)
(***************************************************************************)
LEMMA ResetGood == ASSUME NEW v PROVE GoodPort(v, ResetPort)
<1>1. ResetPort \in Port
  BY DEF ResetPort, Port
<1>2. NoneListed \in [Numbers -> Nat]
  BY DEF NoneListed, Listed
<1> QED
  BY <1>1, <1>2, NoValueIsNew DEF GoodPort, BrocadePort, DellPort, AristaPort, ResetPort

LEMMA WithoutVlanGood ==
    ASSUME NEW r, GoodPort("brocade", r), NEW n \in Numbers
    PROVE  GoodPort("brocade", WithoutVlan(r, n))
<1>1. CASE r.trunk = NoValue
  BY <1>1 DEF GoodPort, BrocadePort, WithoutVlan, Port
<1>2. CASE r.trunk # NoValue
  <2>1. /\ r.trunk \in [Numbers -> Nat] /\ r.access = NoValue
        /\ \A k \in Numbers : r.trunk[k] <= 1
    BY <1>2 DEF GoodPort, BrocadePort, Port
  <2> DEFINE less == Removed(r.trunk, {n})
             t == IF r.trunk[n] > 0 THEN OrNone(less) ELSE r.trunk
  <2>4. less \in [Numbers -> Nat] /\ \A k \in Numbers : less[k] <= 1
    BY <2>1, RemovedOnce
  <2>5. OrNone(less) \in {less, NoValue}
    BY DEF OrNone
  <2>6. OrNone(less) # NoneListed
    BY <2>4, TrunkTypes
  <2>2. /\ t \in [Numbers -> Nat] \cup {NoValue} /\ t # NoneListed
        /\ t # NoValue => \A k \in Numbers : t[k] <= 1
    <3> HIDE DEF less
    <3> QED
      BY <2>1, <2>4, <2>5, <2>6 DEF GoodPort, BrocadePort
  <2>3. WithoutVlan(r, n) =
          [r EXCEPT !.native = IF r.native = n THEN NoValue ELSE r.native, !.trunk = t]
    BY <1>2 DEF WithoutVlan, GoodPort, Port
  <2> HIDE DEF t
  <2> QED
    BY <2>1, <2>2, <2>3 DEF GoodPort, BrocadePort, Port
<1> QED
  BY <1>1, <1>2

\* The other fields of a Brocade port may be anything.
LEMMA BrocadeFields ==
    ASSUME NEW r, GoodPort("brocade", r),
           NEW a \in Numbers \cup {NoValue}, NEW m \in Numbers \cup {NoValue}
    PROVE  /\ r.trunk = NoValue => GoodPort("brocade", [r EXCEPT !.access = a])
           /\ GoodPort("brocade", [r EXCEPT !.native = m])
BY DEF GoodPort, BrocadePort, Port

LEMMA TaggedGood ==
    ASSUME NEW r, GoodPort("brocade", r), NEW n \in Numbers
    PROVE  GoodPort("brocade", WithTagged(r, n))
<1>1. /\ AsTrunk(r) \in Port
      /\ AsTrunk(r).trunk \in [Numbers -> Nat]
      /\ AsTrunk(r).access = NoValue /\ AsTrunk(r).mode = NoValue
  <2>1. CASE r.trunk = NoValue
    <3>1. NoneListed \in [Numbers -> Nat] /\ 1 \in Numbers
      BY SwitchportsAssumption DEF NoneListed, Listed
    <3> QED
      BY <2>1, <3>1 DEF AsTrunk, GoodPort, BrocadePort, Port
  <2>2. CASE r.trunk # NoValue
    BY <2>2 DEF AsTrunk, GoodPort, BrocadePort, Port
  <2> QED
    BY <2>1, <2>2
<1>2. /\ Merged(AsTrunk(r).trunk, {n}) \in [Numbers -> Nat]
      /\ Merged(AsTrunk(r).trunk, {n}) # NoneListed
      /\ \A k \in Numbers : Merged(AsTrunk(r).trunk, {n})[k] <= 1
  BY <1>1, TrunkTypes, MergedLists
<1> QED
  BY <1>1, <1>2 DEF GoodPort, BrocadePort, Port, WithTagged

LEMMA NoTaggedGood ==
    ASSUME NEW r, GoodPort("brocade", r), NEW n \in Numbers, r.trunk # NoValue
    PROVE  GoodPort("brocade", LessTagged(r, n))
<1> DEFINE q == [r EXCEPT !.trunk = Removed(r.trunk, {n})]
<1>1. /\ r.trunk \in [Numbers -> Nat] /\ r.access = NoValue /\ r.mode = NoValue /\ r \in Port
      /\ \A k \in Numbers : r.trunk[k] <= 1
  BY DEF GoodPort, BrocadePort, Port
<1>2. Removed(r.trunk, {n}) \in [Numbers -> Nat] /\ NoneListed \in [Numbers -> Nat]
  BY <1>1, TrunkTypes
<1>3. /\ q \in Port /\ q.access = NoValue /\ q.mode = NoValue /\ q.trunk \in [Numbers -> Nat]
      /\ \A k \in Numbers : q.trunk[k] <= 1
  <2>1. \A k \in Numbers : Removed(r.trunk, {n})[k] <= 1
    BY <1>1, RemovedOnce
  <2> QED
    BY <1>1, <1>2, <2>1 DEF Port
<1> HIDE DEF q
<1>4. GoodPort("brocade", AsAccess(q))
  BY <1>2, <1>3, NoValueIsNew DEF AsAccess, GoodPort, BrocadePort, Port
<1> QED
  BY <1>4 DEF q, LessTagged

\* Fields that the rules for Brocade and Dell ports do not speak of.
LEMMA NeutralFields ==
    ASSUME NEW v, NEW r, GoodPort(v, r), NEW b \in BOOLEAN, NEW g \in Numbers \cup {NoValue}
    PROVE  /\ GoodPort(v, [r EXCEPT !.touched = b])
           /\ GoodPort(v, [r EXCEPT !.group = g])
BY DEF GoodPort, BrocadePort, DellPort, AristaPort, Port

\* Makes without such rules: every field may take every value.
LEMMA FreeMode ==
    ASSUME NEW v, v \notin {"brocade", "dell"}, NEW r, GoodPort(v, r),
           NEW m \in {NoValue, "access", "trunk", "general"}
    PROVE  GoodPort(v, [r EXCEPT !.mode = m])
BY DEF GoodPort, AristaPort, Port

LEMMA FreeVlan ==
    ASSUME NEW v, v \notin {"brocade", "dell", "arista"}, NEW r, GoodPort(v, r),
           NEW a \in Numbers \cup {NoValue}
    PROVE  /\ GoodPort(v, [r EXCEPT !.access = a])
           /\ GoodPort(v, [r EXCEPT !.native = a])
BY DEF GoodPort, AristaPort, Port

LEMMA FreeTrunk ==
    ASSUME NEW v, v \notin {"brocade", "dell"}, NEW r, GoodPort(v, r),
           NEW t \in [Numbers -> Nat] \cup {NoValue}
    PROVE  GoodPort(v, [r EXCEPT !.trunk = t])
BY DEF GoodPort, AristaPort, Port

LEMMA DellVlan ==
    ASSUME NEW r, GoodPort("dell", r), NEW a \in Numbers \cup {NoValue},
           a # NoValue => r.mode = "general"
    PROVE  GoodPort("dell", [r EXCEPT !.native = a])
BY DEF GoodPort, DellPort, Port

LEMMA DellAccess ==
    ASSUME NEW r, GoodPort("dell", r), NEW a \in Numbers \cup {NoValue}
    PROVE  GoodPort("dell", [r EXCEPT !.access = a])
BY DEF GoodPort, DellPort, Port

LEMMA DellMode ==
    ASSUME NEW r, GoodPort("dell", r), NEW m \in {"access", "trunk", "general"}
    PROVE  GoodPort("dell", WithMode(r, m))
BY DEF GoodPort, DellPort, WithMode, Port, ResetPort

LEMMA DellNoMode ==
    ASSUME NEW r, GoodPort("dell", r)
    PROVE  GoodPort("dell", [r EXCEPT !.mode = NoValue, !.trunk = NoValue, !.native = NoValue])
BY DEF GoodPort, DellPort, Port

LEMMA DellTrunk ==
    ASSUME NEW r, GoodPort("dell", r), r.mode \in {"trunk", "general"}, NEW S
    PROVE  /\ GoodPort("dell", WithMore(r, S))
           /\ r.trunk # NoValue => GoodPort("dell", [r EXCEPT !.trunk = OrNone(Removed(@, S))])
<1> DEFINE t == IF r.trunk = NoValue THEN NoneListed ELSE r.trunk
<1>0. r \in Port
  BY DEF GoodPort
<1>1. t \in [Numbers -> Nat]
  BY <1>0, TrunkTypes DEF Port, NoneListed, Listed
<1> DEFINE more == Merged(t, S)
<1>2. more \in [Numbers -> Nat] /\ \A n \in Numbers : more[n] <= 1
  BY <1>1, TrunkTypes
<1>3. WithMore(r, S) = [r EXCEPT !.trunk = more]
  BY <1>0 DEF WithMore, Port
<1>4. GoodPort("dell", WithMore(r, S))
  <2> HIDE DEF more
  <2> QED
    BY <1>2, <1>3 DEF GoodPort, DellPort, Port
<1>5. ASSUME r.trunk # NoValue PROVE GoodPort("dell", [r EXCEPT !.trunk = OrNone(Removed(@, S))])
  <2> DEFINE less == OrNone(Removed(r.trunk, S))
  <2>1. r.trunk \in [Numbers -> Nat] /\ \A n \in Numbers : r.trunk[n] <= 1
    BY <1>5 DEF GoodPort, DellPort, Port
  <2>2. /\ Removed(r.trunk, S) \in [Numbers -> Nat]
        /\ \A n \in Numbers : Removed(r.trunk, S)[n] <= 1
    <3>1. \A n \in Numbers : Removed(r.trunk, S)[n] <= r.trunk[n]
      BY <2>1, TrunkTypes
    <3>2. Removed(r.trunk, S) \in [Numbers -> Nat]
      BY <2>1, TrunkTypes
    <3> QED
      BY <2>1, <3>1, <3>2
  <2>3. less \in [Numbers -> Nat] \cup {NoValue} /\ (less # NoValue => \A n \in Numbers : less[n] <= 1)
    BY <2>2, TrunkTypes DEF OrNone
  <2> HIDE DEF less
  <2>4. GoodPort("dell", [r EXCEPT !.trunk = less])
    BY <2>3 DEF GoodPort, DellPort, Port
  <2> QED
    BY <2>4 DEF less
<1> QED
  BY <1>4, <1>5

-----------------------------------------------------------------------------
(***************************************************************************)
(* Every step keeps the invariant.                                         *)
(***************************************************************************)
LEMMA FoundListed ==
    ASSUME IsNameList(ports, Object), NEW name, Exists(name)
    PROVE  /\ Found(name) \in Names(ports) /\ Found(name) \in Matching(name)
           /\ Found(name) \in Object /\ Found(name).kind = name.kind
<1>1. Found(name) \in Names(ports) \cap Matching(name)
  BY FirstOfProperties DEF Exists, Found
<1> QED
  BY <1>1 DEF Matching

LEMMA PlaceTypes ==
    /\ Config \in Place
    /\ [Config EXCEPT !.mode = "vlan"] \in Place
    /\ \A n \in Numbers : InVlan(n) \in Place
    /\ \A o \in Object : InInterface(o) \in Place
BY DEF Config, Place, InVlan, InInterface

LEMMA Lost ==
    ASSUME NEW places \in [Sessions -> Place], \A s \in Sessions : HoldsObject(places[s]),
           NEW n, NEW gone
    PROVE  /\ LoseVlan(places, n) \in [Sessions -> Place]
           /\ LosePorts(places, gone) \in [Sessions -> Place]
           /\ \A s \in Sessions : HoldsObject(LoseVlan(places, n)[s])
           /\ \A s \in Sessions : HoldsObject(LosePorts(places, gone)[s])
<1>1. \A p \in Place : [p EXCEPT !.live = FALSE] \in Place
  BY DEF Place
<1>2. LoseVlan(places, n) \in [Sessions -> Place] /\ LosePorts(places, gone) \in [Sessions -> Place]
  BY <1>1 DEF LoseVlan, LosePorts
<1>3. \A p \in Place : HoldsObject(p) => HoldsObject([p EXCEPT !.live = FALSE])
  BY DEF HoldsObject, Place
<1> QED
  BY <1>2, <1>3 DEF LoseVlan, LosePorts

\* What is not mentioned stays: the general form of a step.
LEMMA Kept ==
    ASSUME Inv, use' = use,
           vlans' \in [Numbers -> Nat],
           IsNameList(ports', Object),
           port' \in [Object -> Port],
           \A o \in Object : GoodPort(vendor, port'[o]),
           at' \in [Sessions -> Place],
           \A s \in Sessions : HoldsObject(at'[s])
    PROVE  Inv'
<1>1. vendor' = vendor
  BY DEF vendor
<1> QED
  BY <1>1 DEF Inv, HoldsObject

\* A step that moves sessions only.
LEMMA Moved ==
    ASSUME Inv, NEW s \in Sessions, NEW p \in Place, HoldsObject(p),
           at' = [at EXCEPT ![s] = p], UNCHANGED <<use, vlans, ports, port>>
    PROVE  Inv'
<1>1. at' \in [Sessions -> Place] /\ \A t \in Sessions : HoldsObject(at'[t])
  BY DEF Inv
<1> QED
  BY <1>1, Kept DEF Inv

\* A step that changes what one interface has configured.
LEMMA Configured ==
    ASSUME Inv, NEW o, NEW r, GoodPort(vendor, r),
           port' = [port EXCEPT ![o] = r] \/ port' = port,
           UNCHANGED <<use, vlans, ports, at>>
    PROVE  Inv'
<1>1. port' \in [Object -> Port] /\ \A x \in Object : GoodPort(vendor, port'[x])
  BY DEF Inv, GoodPort
<1> QED
  BY <1>1, Kept DEF Inv

LEMMA SetKeeps ==
    ASSUME Inv, NEW s, NEW r, GoodPort(vendor, r), Set(s, r),
           UNCHANGED <<use, vlans, ports, at>>
    PROVE  Inv'
BY Configured DEF Set

LEMMA HeldGood ==
    ASSUME Inv, NEW s \in Sessions, at[s].mode = "interface"
    PROVE  GoodPort(vendor, Held(s))
BY DEF Inv, HoldsObject, Held

LEMMA Added ==
    ASSUME Inv, NEW o \in Object, o \notin Names(ports), AddPort(o), UNCHANGED <<use, vlans>>,
           at' \in [Sessions -> Place], \A s \in Sessions : HoldsObject(at'[s])
    PROVE  Inv'
<1>1. IsNameList(ports', Object)
  BY AddNameProperties DEF AddPort, Inv
<1>2. port' \in [Object -> Port] /\ \A x \in Object : GoodPort(vendor, port'[x])
  BY ResetGood DEF AddPort, Inv, GoodPort
<1> QED
  BY <1>1, <1>2, Kept DEF Inv

LEMMA Dropped ==
    ASSUME Inv, NEW o, ports' = RemoveName(ports, o), port' = [port EXCEPT ![o] = ResetPort],
           UNCHANGED <<use, vlans>>,
           at' \in [Sessions -> Place], \A s \in Sessions : HoldsObject(at'[s])
    PROVE  Inv'
<1>1. IsNameList(ports', Object)
  BY KeepNamesProperties DEF RemoveName, Inv
<1>2. port' \in [Object -> Port] /\ \A x \in Object : GoodPort(vendor, port'[x])
  BY ResetGood DEF Inv, GoodPort
<1> QED
  BY <1>1, <1>2, Kept DEF Inv

LEMMA Removing ==
    ASSUME Inv, NEW o, RemovePort(o), UNCHANGED <<use, vlans>>
    PROVE  Inv'
<1>1. at' \in [Sessions -> Place] /\ \A s \in Sessions : HoldsObject(at'[s])
  BY Lost DEF RemovePort, Inv
<1> QED
  BY <1>1, Dropped DEF RemovePort

LEMMA InvInit == Init => Inv
<1> SUFFICES ASSUME Init PROVE Inv
  OBVIOUS
<1>1. vlans \in [Numbers -> Nat] /\ use \in Uses /\ IsNameList(ports, Object)
  BY SwitchportsAssumption DEF Init
<1>2. port \in [Object -> Port] /\ \A o \in Object : GoodPort(vendor, port[o])
  BY ResetGood DEF Init, GoodPort
<1>3. at \in [Sessions -> Place] /\ \A s \in Sessions : HoldsObject(at[s])
  BY PlaceTypes DEF Init, HoldsObject, Config
<1> QED
  BY <1>1, <1>2, <1>3 DEF Inv

LEMMA ConfigKeeps ==
    ASSUME Inv, NEW s \in Sessions, ConfigCommand(s)
    PROVE  Inv'
<1>1. CASE VlanDatabase(s)
  <2>1. HoldsObject([Config EXCEPT !.mode = "vlan"])
    BY <1>1 DEF VlanDatabase, HoldsObject, Config
  <2> QED
    BY <1>1, <2>1, PlaceTypes, Moved DEF VlanDatabase
<1>2. CASE Leave(s)
  <2>1. HoldsObject(Config)
    BY DEF HoldsObject, Config
  <2> QED
    BY <1>2, <2>1, PlaceTypes, Moved DEF Leave
<1>3. ASSUME NEW n \in Numbers, Vlan(s, n)
      PROVE  Inv'
  <2>1. vlans' \in [Numbers -> Nat]
    BY <1>3 DEF Vlan, Inv
  <2>2. at' \in [Sessions -> Place] /\ \A t \in Sessions : HoldsObject(at'[t])
    BY <1>3, PlaceTypes DEF Vlan, Inv, HoldsObject, InVlan, Config
  <2> QED
    BY <1>3, <2>1, <2>2, Kept DEF Vlan, Inv
<1>4. ASSUME NEW n \in Numbers, DatabaseVlan(s, n)
      PROVE  Inv'
  <2>1. vlans' \in [Numbers -> Nat]
    BY <1>4 DEF DatabaseVlan, Inv
  <2> QED
    BY <1>4, <2>1, Kept DEF DatabaseVlan, Inv
<1>5. ASSUME NEW n \in Numbers, NoVlan(s, n)
      PROVE  Inv'
  <2>1. vlans' \in [Numbers -> Nat]
    BY <1>5 DEF NoVlan, HasVlan, Inv
  <2>2. at' \in [Sessions -> Place] /\ \A t \in Sessions : HoldsObject(at'[t])
    <3>1. LoseVlan(at, n) \in [Sessions -> Place] /\ \A t \in Sessions : HoldsObject(LoseVlan(at, n)[t])
      BY Lost DEF Inv
    <3> QED
      BY <1>5, <3>1, Lost DEF NoVlan
  <2>3. IsNameList(ports', Object)
    BY <1>5, KeepNamesProperties DEF NoVlan, Inv
  <2>4. port' \in [Object -> Port] /\ \A o \in Object : GoodPort(vendor, port'[o])
    <3>1. CASE vendor # "brocade"
      BY <1>5, <3>1 DEF NoVlan, Inv
    <3>2. CASE vendor = "brocade"
      <4>1. port' = [o \in Object |-> IF o \in Names(ports')
                                       THEN WithoutVlan(port[o], n) ELSE ResetPort]
        BY <1>5, <3>2 DEF NoVlan
      <4>2. \A o \in Object : GoodPort("brocade", WithoutVlan(port[o], n))
        BY <3>2, WithoutVlanGood DEF Inv
      <4> QED
        BY <3>2, <4>1, <4>2, ResetGood DEF GoodPort
    <3> QED
      BY <3>1, <3>2
  <2> QED
    BY <1>5, <2>1, <2>2, <2>3, <2>4, Kept DEF NoVlan
<1>6. ASSUME NEW name \in use.names, Interface(s, name)
      PROVE  Inv'
  <2>1. Found(name) \in Object
    BY <1>6, FoundListed DEF Interface, Inv
  <2>2. HoldsObject(InInterface(Found(name)))
    BY <2>1 DEF HoldsObject, InInterface, Config
  <2> QED
    BY <1>6, <2>1, <2>2, PlaceTypes, Moved DEF Interface
<1>7. ASSUME NEW name \in use.names, NewInterface(s, name)
      PROVE  Inv'
  <2> DEFINE o == [kind |-> name.kind, number |-> name.number,
                   vlan |-> IF name.kind = "vlan" THEN name.number ELSE NoValue]
  <2>1. name \in Name
    BY SwitchportsAssumption DEF Inv, Use
  <2>2. name.kind \in {"vlan", "channel"}
    BY <1>7 DEF NewInterface
  <2>3. o \in Object
    <3>1. CASE name.kind = "vlan"
      <4>1. o = [kind |-> "vlan", number |-> name.number, vlan |-> name.number]
        BY <3>1
      <4> QED
        BY <2>1, <4>1 DEF Object, Name
    <3>2. CASE name.kind = "channel"
      BY <2>1, <3>2 DEF Object, Name
    <3> QED
      BY <2>2, <3>1, <3>2
  <2>4. o \in Matching(name)
    BY <2>1, <2>3, SwitchportsAssumption DEF Matching, Name
  <2>5. o \notin Names(ports)
    BY <1>7, <2>4 DEF NewInterface, Exists, HoldsOneOf
  <2>6. AddPort(o) /\ at' = [at EXCEPT ![s] = InInterface(o)] /\ UNCHANGED <<use, vlans>>
    BY <1>7 DEF NewInterface
  <2> HIDE DEF o
  <2>7. at' \in [Sessions -> Place] /\ \A t \in Sessions : HoldsObject(at'[t])
    BY <2>3, <2>6, PlaceTypes DEF Inv, HoldsObject, InInterface, Config
  <2> QED
    BY <2>3, <2>5, <2>6, <2>7, Added
<1>8. ASSUME NEW name \in use.names, NoInterface(s, name)
      PROVE  Inv'
  BY <1>8, Removing DEF NoInterface
<1>9. ASSUME NEW name \in use.names, AristaNoInterface(s, name)
      PROVE  Inv'
  <2>1. Config \in Place /\ HoldsObject(Config)
    BY PlaceTypes DEF HoldsObject, Config
  <2>2. CASE Exists(name)
    <3>1. /\ LosePorts(at, {Found(name)}) \in [Sessions -> Place]
          /\ \A t \in Sessions : HoldsObject(LosePorts(at, {Found(name)})[t])
      BY Lost DEF Inv
    <3>2. at' \in [Sessions -> Place] /\ \A t \in Sessions : HoldsObject(at'[t])
      BY <1>9, <2>1, <2>2, <3>1 DEF AristaNoInterface
    <3> QED
      BY <1>9, <2>2, <3>2, Dropped DEF AristaNoInterface
  <2>3. CASE ~Exists(name)
    BY <1>9, <2>1, <2>3, Moved DEF AristaNoInterface
  <2> QED
    BY <2>2, <2>3
<1>10. ASSUME NEW name \in use.names, BrocadeNoInterface(s, name)
       PROVE  Inv'
  <2> DEFINE o == Found(name)
  <2>1. o \in Object /\ o \in Names(ports) /\ vendor = "brocade"
    BY <1>10, FoundListed DEF BrocadeNoInterface, Inv
  <2>2. CASE name.kind = "port"
    <3> DEFINE r == [ResetPort EXCEPT !.trunk = port[o].trunk, !.access = port[o].access,
                                      !.native = port[o].native]
    <3>1. GoodPort("brocade", port[o])
      BY <2>1 DEF Inv
    <3>2. GoodPort("brocade", r)
      BY <3>1 DEF GoodPort, BrocadePort, Port, ResetPort
    <3>3. port' = [port EXCEPT ![o] = r] /\ UNCHANGED <<use, vlans, ports, at>>
      BY <1>10, <2>2 DEF BrocadeNoInterface
    <3> HIDE DEF o, r
    <3> QED
      BY <2>1, <3>2, <3>3, Configured
  <2>3. CASE name.kind # "port"
    <3>1. /\ ports' = AddName(RemoveName(ports, o), o)
          /\ port' = [port EXCEPT ![o] = ResetPort]
          /\ at' = LosePorts(at, {o})
          /\ UNCHANGED <<use, vlans>>
      BY <1>10, <2>3 DEF BrocadeNoInterface
    <3> HIDE DEF o
    <3>2. IsNameList(RemoveName(ports, o), Object) /\ o \notin Names(RemoveName(ports, o))
      BY KeepNamesProperties DEF RemoveName, Inv
    <3>3. IsNameList(ports', Object)
      BY <2>1, <3>1, <3>2, AddNameProperties
    <3>4. port' \in [Object -> Port] /\ \A x \in Object : GoodPort(vendor, port'[x])
      BY <3>1, ResetGood DEF Inv, GoodPort
    <3>5. at' \in [Sessions -> Place] /\ \A t \in Sessions : HoldsObject(at'[t])
      BY <3>1, Lost DEF Inv
    <3> QED
      BY <3>1, <3>3, <3>4, <3>5, Kept DEF Inv
  <2> QED
    BY <2>2, <2>3
<1>11. ASSUME NEW name \in use.names, DefaultInterface(s, name)
       PROVE  Inv'
  BY <1>11, ResetGood, Configured DEF DefaultInterface
<1> QED
  BY <1>1, <1>2, <1>3, <1>4, <1>5, <1>6, <1>7, <1>8, <1>9, <1>10, <1>11 DEF ConfigCommand

LEMMA VlanKeeps ==
    ASSUME Inv, NEW s \in Sessions, VlanCommand(s)
    PROVE  Inv'
<1>1. ASSUME vendor = "brocade", at[s].mode = "vlan"
      PROVE  at[s].vlan \in Numbers
  BY <1>1 DEF Inv, HoldsObject
<1>2. CASE NoRouterInterface(s)
  BY <1>2, Removing DEF NoRouterInterface
<1>3. ASSUME NEW k \in Numbers, RouterInterface(s, k)
      PROVE  Inv'
  <2> DEFINE o == [kind |-> "ve", number |-> k, vlan |-> at[s].vlan]
  <2>1. o \in Object /\ o.vlan = at[s].vlan
    BY <1>1, <1>3 DEF RouterInterface, Object
  <2>2. o \notin Names(ports)
    BY <1>3, <2>1 DEF RouterInterface, BoundVe, HoldsOneOf, VlanPortsOf
  <2>3. AddPort(o) /\ UNCHANGED <<use, vlans, at>>
    BY <1>3 DEF RouterInterface
  <2> HIDE DEF o
  <2> QED
    BY <2>1, <2>2, <2>3, Added DEF Inv
<1>4. ASSUME NEW name \in use.edited, BrocadeMember(s, name)
      PROVE  /\ Found(name) \in Object
             /\ GoodPort("brocade", port[Found(name)])
             /\ at[s].vlan \in Numbers
             /\ vendor = "brocade"
             /\ UNCHANGED <<use, vlans, ports, at>>
  BY <1>1, <1>4, FoundListed DEF BrocadeMember, Inv
<1>5. ASSUME NEW name \in use.edited, Untagged(s, name)
      PROVE  Inv'
  <2>1. BrocadeMember(s, name)
    BY <1>5 DEF Untagged
  <2> DEFINE o == Found(name)
             r == IF port[o].trunk = NoValue THEN [port[o] EXCEPT !.access = at[s].vlan]
                                             ELSE [port[o] EXCEPT !.native = at[s].vlan]
  <2>2. GoodPort("brocade", r)
    BY <1>4, <2>1, BrocadeFields
  <2>3. port' = [port EXCEPT ![o] = r]
    BY <1>5 DEF Untagged
  <2> HIDE DEF o, r
  <2> QED
    BY <1>4, <2>1, <2>2, <2>3, Configured
<1>6. ASSUME NEW name \in use.edited, NoUntagged(s, name)
      PROVE  Inv'
  <2>1. BrocadeMember(s, name)
    BY <1>6 DEF NoUntagged
  <2> DEFINE o == Found(name)
             r == IF port[o].trunk = NoValue THEN [port[o] EXCEPT !.access = NoValue]
                                             ELSE [port[o] EXCEPT !.native = NoValue]
  <2>2. GoodPort("brocade", r)
    BY <1>4, <2>1, BrocadeFields
  <2>3. port' = [port EXCEPT ![o] = r]
    BY <1>6 DEF NoUntagged
  <2> HIDE DEF o, r
  <2> QED
    BY <1>4, <2>1, <2>2, <2>3, Configured
<1>7. ASSUME NEW name \in use.edited, Tagged(s, name)
      PROVE  Inv'
  <2>1. BrocadeMember(s, name)
    BY <1>7 DEF Tagged
  <2> DEFINE o == Found(name)
             r == WithTagged(port[o], at[s].vlan)
  <2>2. GoodPort("brocade", r)
    BY <1>4, <2>1, TaggedGood
  <2>3. port' = [port EXCEPT ![o] = r]
    BY <1>7 DEF Tagged
  <2> HIDE DEF o, r
  <2> QED
    BY <1>4, <2>1, <2>2, <2>3, Configured
<1>8. ASSUME NEW name \in use.edited, NoTagged(s, name)
      PROVE  Inv'
  <2>1. BrocadeMember(s, name)
    BY <1>8 DEF NoTagged
  <2> DEFINE o == Found(name)
             r == LessTagged(port[o], at[s].vlan)
  <2>2. port[o].trunk # NoValue
    BY <1>8 DEF NoTagged
  <2>3. GoodPort("brocade", r)
    BY <1>4, <2>1, <2>2, NoTaggedGood
  <2>4. port' = [port EXCEPT ![o] = r]
    BY <1>8 DEF NoTagged
  <2> HIDE DEF o, r
  <2> QED
    BY <1>4, <2>1, <2>3, <2>4, Configured
<1> QED
  BY <1>2, <1>3, <1>5, <1>6, <1>7, <1>8 DEF VlanCommand

LEMMA InterfaceKeeps ==
    ASSUME Inv, NEW s \in Sessions, InterfaceCommand(s)
    PROVE  Inv'
<1>1. ASSUME NEW makes, OnInterface(s, makes)
      PROVE  /\ vendor \in makes /\ at[s].mode = "interface"
             /\ GoodPort(vendor, Held(s)) /\ Held(s) \in Port
             /\ UNCHANGED <<use, vlans, ports, at>>
  BY <1>1, HeldGood DEF OnInterface, GoodPort
<1>2. ASSUME NEW r, Set(s, r), GoodPort(vendor, r), UNCHANGED <<use, vlans, ports, at>>
      PROVE  Inv'
  BY <1>2, SetKeeps
<1>20. ASSUME NEW makes \in SUBSET {"cisco", "dell10g", "arista"}, OnInterface(s, makes)
       PROVE  vendor \notin {"brocade", "dell"} /\ GoodPort(vendor, Held(s))
  BY <1>1, <1>20
<1>3. ASSUME NEW value \in BOOLEAN, Attribute(s, value)
      PROVE  Inv'
  BY <1>1, <1>2, <1>3, NeutralFields DEF Attribute
<1>4. CASE NoChannelGroup(s)
  <2>1. GoodPort(vendor, Held(s))
    BY <1>4, HeldGood DEF NoChannelGroup
  <2> QED
    BY <1>2, <1>4, <2>1, NeutralFields DEF NoChannelGroup
<1>5. ASSUME NEW m \in {"access", "trunk", "general"}, SwitchportMode(s, m)
      PROVE  Inv'
  <2>1. CASE OnInterface(s, {"cisco", "dell10g"}) /\ Set(s, [Held(s) EXCEPT !.mode = m])
    <3>1. vendor \notin {"brocade", "dell"} /\ GoodPort(vendor, Held(s))
      BY <1>20, <2>1
    <3> QED
      BY <1>1, <1>2, <2>1, <3>1, FreeMode
  <2>2. CASE OnInterface(s, {"arista"}) /\ Set(s, [Held(s) EXCEPT !.mode = m])
    <3>1. vendor \notin {"brocade", "dell"} /\ GoodPort(vendor, Held(s))
      BY <1>20, <2>2
    <3> QED
      BY <1>1, <1>2, <2>2, <3>1, FreeMode
  <2>3. CASE OnInterface(s, {"dell"}) /\ Set(s, WithMode(Held(s), m))
    BY <1>1, <1>2, <2>3, DellMode
  <2> QED
    BY <1>5, <2>1, <2>2, <2>3 DEF SwitchportMode
<1>6. CASE NoSwitchportMode(s)
  <2>1. CASE OnInterface(s, {"cisco", "arista"}) /\ Set(s, [Held(s) EXCEPT !.mode = NoValue])
    <3>1. vendor \notin {"brocade", "dell"} /\ GoodPort(vendor, Held(s))
      BY <1>20, <2>1
    <3> QED
      BY <1>1, <1>2, <2>1, <3>1, FreeMode
  <2>2. CASE OnInterface(s, {"dell10g"}) /\ Set(s, [Held(s) EXCEPT !.mode = "access"])
    <3>1. vendor \notin {"brocade", "dell"} /\ GoodPort(vendor, Held(s))
      BY <1>20, <2>2
    <3> QED
      BY <1>1, <1>2, <2>2, <3>1, FreeMode
  <2>3. CASE /\ OnInterface(s, {"dell"})
             /\ Set(s, [Held(s) EXCEPT !.mode = NoValue, !.trunk = NoValue, !.native = NoValue])
    <3>1. vendor = "dell" /\ GoodPort("dell", Held(s))
      BY <1>1, <2>3
    <3> QED
      BY <1>1, <1>2, <2>3, <3>1, DellNoMode
  <2> QED
    BY <1>6, <2>1, <2>2, <2>3 DEF NoSwitchportMode
<1>7. ASSUME NEW a \in Numbers \cup {NoValue}, OnInterface(s, Family),
             Set(s, [Held(s) EXCEPT !.access = a])
      PROVE  Inv'
  <2>1. GoodPort(vendor, [Held(s) EXCEPT !.access = a])
    <3>1. CASE vendor = "dell"
      BY <1>1, <1>7, <3>1, DellAccess
    <3>2. CASE vendor # "dell"
      <4>1. vendor \notin {"brocade", "dell", "arista"} /\ GoodPort(vendor, Held(s))
        BY <1>1, <1>7, <3>2 DEF Family
      <4> QED
        BY <1>7, <4>1, FreeVlan
    <3> QED
      BY <3>1, <3>2
  <2> QED
    BY <1>1, <1>2, <1>7, <2>1
<1>8. ASSUME NEW a \in Numbers \cup {NoValue}, OnInterface(s, Family),
             vendor = "dell" /\ a # NoValue => Held(s).mode = "general",
             Set(s, [Held(s) EXCEPT !.native = a])
      PROVE  Inv'
  <2>1. GoodPort(vendor, [Held(s) EXCEPT !.native = a])
    <3>1. CASE vendor = "dell"
      BY <1>1, <1>8, <3>1, DellVlan
    <3>2. CASE vendor # "dell"
      <4>1. vendor \notin {"brocade", "dell", "arista"} /\ GoodPort(vendor, Held(s))
        BY <1>1, <1>8, <3>2 DEF Family
      <4> QED
        BY <1>8, <4>1, FreeVlan
    <3> QED
      BY <3>1, <3>2
  <2> QED
    BY <1>1, <1>2, <1>8, <2>1
<1>9. \A n \in Numbers : /\ AccessVlan(s, n) => Inv'
                         /\ NativeVlan(s, n) => Inv'
  BY <1>7, <1>8 DEF AccessVlan, NativeVlan
<1>10. (NoAccessVlan(s) => Inv') /\ (NoNativeVlan(s) => Inv')
  BY <1>7, <1>8 DEF NoAccessVlan, NoNativeVlan
<1>11. ASSUME NEW makes \in SUBSET {"cisco", "dell10g", "arista"}, OnInterface(s, makes),
              NEW t \in [Numbers -> Nat] \cup {NoValue}, Set(s, [Held(s) EXCEPT !.trunk = t])
       PROVE  Inv'
  BY <1>1, <1>2, <1>11, FreeTrunk
<1>12. CASE AllowedAll(s)
  BY <1>11, <1>12 DEF AllowedAll
<1>13. ASSUME NEW S \in SUBSET Numbers, AllowedList(s, S)
       PROVE  Inv'
  <2>1. Listed(S) \in [Numbers -> Nat]
    BY DEF Listed
  <2> QED
    BY <1>11, <1>13, <2>1 DEF AllowedList
<1>14. ASSUME NEW S \in SUBSET Numbers, AllowedAdd(s, S)
       PROVE  Inv'
  <2>1. OnInterface(s, {"cisco", "arista"}) \/ OnInterface(s, {"dell10g"})
    BY <1>14 DEF AllowedAdd
  <2>2. Held(s).trunk \in [Numbers -> Nat]
    <3>1. Held(s) \in Port /\ Held(s).trunk # NoValue
      BY <1>1, <1>14, <2>1 DEF AllowedAdd
    <3> QED
      BY <3>1 DEF Port
  <2>3. /\ Appended(Held(s).trunk, S) \in [Numbers -> Nat]
        /\ Merged(Held(s).trunk, S) \in [Numbers -> Nat]
    BY <2>2, TrunkTypes
  <2> QED
    BY <1>11, <1>14, <2>3 DEF AllowedAdd
<1>15. ASSUME NEW S \in SUBSET Numbers, AllowedRemove(s, S)
       PROVE  Inv'
  <2> DEFINE listed == IF Held(s).trunk = NoValue THEN Listed(Numbers) ELSE Held(s).trunk
  <2>1. OnInterface(s, {"cisco", "arista"}) \/ OnInterface(s, {"dell10g"})
    BY <1>15 DEF AllowedRemove
  <2>2. listed \in [Numbers -> Nat]
    <3>1. Held(s) \in Port
      BY <1>1, <2>1
    <3> QED
      BY <3>1 DEF Port, Listed
  <2>3. /\ \/ /\ OnInterface(s, {"cisco", "arista"})
              /\ Set(s, [Held(s) EXCEPT !.trunk = Removed(listed, S)])
           \/ /\ OnInterface(s, {"dell10g"})
              /\ Set(s, [Held(s) EXCEPT !.trunk = OrNone(Removed(listed, S))])
    BY <1>15 DEF AllowedRemove
  <2> HIDE DEF listed
  <2>4. /\ Removed(listed, S) \in [Numbers -> Nat]
        /\ OrNone(Removed(listed, S)) \in [Numbers -> Nat] \cup {NoValue}
    BY <2>2, TrunkTypes
  <2> QED
    BY <1>11, <2>3, <2>4
<1>16. ASSUME NEW S \in SUBSET Numbers, UpdateVlansAdd(s, S)
       PROVE  Inv'
  <2>1. /\ OnInterface(s, {"dell", "dell10g"})
        /\ vendor = "dell" => Held(s).mode \in {"trunk", "general"}
        /\ Set(s, WithMore(Held(s), S))
    BY <1>16 DEF UpdateVlansAdd, MayUpdateVlans
  <2>2. CASE vendor = "dell"
    BY <1>1, <1>2, <2>1, <2>2, DellTrunk
  <2>3. CASE vendor = "dell10g"
    <3> DEFINE t == IF Held(s).trunk = NoValue THEN NoneListed ELSE Held(s).trunk
    <3>1. Held(s) \in Port
      BY <1>1, <2>1
    <3>2. t \in [Numbers -> Nat]
      BY <3>1 DEF Port, NoneListed, Listed
    <3>3. WithMore(Held(s), S) = [Held(s) EXCEPT !.trunk = Merged(t, S)]
      BY <3>1 DEF WithMore, Port
    <3> HIDE DEF t
    <3>4. Merged(t, S) \in [Numbers -> Nat]
      BY <3>2, TrunkTypes
    <3>5. GoodPort(vendor, [Held(s) EXCEPT !.trunk = Merged(t, S)])
      BY <1>1, <2>1, <2>3, <3>4, FreeTrunk
    <3> QED
      BY <1>1, <1>2, <2>1, <3>3, <3>5
  <2> QED
    BY <1>1, <2>1, <2>2, <2>3
<1>17. ASSUME NEW S \in SUBSET Numbers, UpdateVlansRemove(s, S)
       PROVE  Inv'
  <2>1. /\ OnInterface(s, {"dell", "dell10g"})
        /\ vendor = "dell" => Held(s).mode \in {"trunk", "general"}
        /\ Held(s).trunk # NoValue
        /\ Set(s, [Held(s) EXCEPT !.trunk = OrNone(Removed(@, S))])
    BY <1>17 DEF UpdateVlansRemove, MayUpdateVlans
  <2>2. CASE vendor = "dell"
    BY <1>1, <1>2, <2>1, <2>2, DellTrunk
  <2>3. CASE vendor = "dell10g"
    <3>1. Held(s).trunk \in [Numbers -> Nat]
      BY <1>1, <2>1 DEF Port
    <3> DEFINE t == OrNone(Removed(Held(s).trunk, S))
    <3>2. t \in [Numbers -> Nat] \cup {NoValue}
      BY <3>1, TrunkTypes
    <3>3. Set(s, [Held(s) EXCEPT !.trunk = t])
      BY <2>1
    <3> HIDE DEF t
    <3> QED
      BY <1>1, <1>2, <2>1, <2>3, <3>2, <3>3, FreeTrunk
  <2> QED
    BY <1>1, <2>1, <2>2, <2>3
<1>18. ASSUME NEW g \in Numbers, ChannelGroup(s, g)
       PROVE  Inv'
  <2> DEFINE channel == [kind |-> "channel", number |-> g, vlan |-> NoValue]
             held    == at[s].port
             r       == [port[held] EXCEPT !.group = g]
             joined  == [port EXCEPT ![held] = r]
  <2>1. held \in Object /\ GoodPort(vendor, port[held])
    BY <1>18, HeldGood DEF ChannelGroup, Held, Inv, HoldsObject
  <2>2. GoodPort(vendor, r)
    BY <2>1, NeutralFields
  <2>3. joined = [port EXCEPT ![held].group = g]
    OBVIOUS
  <2>4. CASE Exists(channel)
    <3>1. port' = joined /\ UNCHANGED <<use, vlans, ports, at>>
      BY <1>18, <2>3, <2>4 DEF ChannelGroup
    <3> HIDE DEF r
    <3> QED
      BY <2>2, <3>1, Configured
  <2>5. CASE ~Exists(channel)
    <3>1. /\ ports' = AddName(ports, channel)
          /\ port' = [joined EXCEPT ![channel] = ResetPort]
          /\ UNCHANGED <<use, vlans, at>>
      BY <1>18, <2>3, <2>5 DEF ChannelGroup
    <3>2. channel \in Object /\ channel \in Matching(channel)
      BY SwitchportsAssumption DEF Object, Matching
    <3>3. channel \notin Names(ports)
      BY <2>5, <3>2 DEF Exists, HoldsOneOf
    <3> HIDE DEF channel, r
    <3>4. IsNameList(ports', Object)
      BY <3>1, <3>2, <3>3, AddNameProperties DEF Inv
    <3>5. port' \in [Object -> Port] /\ \A x \in Object : GoodPort(vendor, port'[x])
      BY <2>2, <3>1, ResetGood DEF Inv, GoodPort
    <3> QED
      BY <3>1, <3>4, <3>5, Kept DEF Inv
  <2> QED
    BY <2>4, <2>5
<1> QED
  BY <1>3, <1>4, <1>5, <1>6, <1>9, <1>10, <1>12, <1>13, <1>14, <1>15, <1>16, <1>17, <1>18
     DEF InterfaceCommand

LEMMA InvNext == Inv /\ [Next]_vars => Inv'
<1>1. ASSUME Inv, UNCHANGED vars PROVE Inv'
  BY <1>1 DEF vars, Inv, HoldsObject, vendor
<1>2. ASSUME Inv, Next PROVE Inv'
  BY <1>2, ConfigKeeps, VlanKeeps, InterfaceKeeps DEF Next
<1> QED
  BY <1>1, <1>2

LEMMA InvAlways == Spec => []Inv
BY InvInit, InvNext, PTL DEF Spec

\* Whatever the sessions type, the switch configuration keeps its shape and
\* lists no interface twice.
THEOREM SwitchportsTyped == Spec => []TypeOK
<1>1. Inv => TypeOK
  BY DEF Inv, TypeOK
<1> QED
  BY <1>1, InvAlways, PTL

\* A Brocade interface never has an untagged vlan beside tagged ones.
THEOREM UntaggedOrTaggedAlways == Spec => []UntaggedOrTagged
<1>1. Inv => UntaggedOrTagged
  BY DEF Inv, UntaggedOrTagged, GoodPort, BrocadePort
<1> QED
  BY <1>1, InvAlways, PTL

\* A Dell interface never has what its mode does not allow.
THEOREM ModeFitsAlways == Spec => []ModeFits
<1>1. Inv => ModeFits
  BY DEF Inv, ModeFits, GoodPort, DellPort
<1> QED
  BY <1>1, InvAlways, PTL

-----------------------------------------------------------------------------
(***************************************************************************)
(* Lookups by name.  What comes first in a list stays first when others    *)
(* are removed or another one is added at the end.                         *)
(***************************************************************************)
LEMMA FirstStays ==
    ASSUME NEW U, NEW l, IsNameList(l, U), NEW k, IsNameList(k, U), NEW S,
           HoldsOneOf(l, S), FirstOf(l, S) \in Names(k),
           \A m \in Names(k) \cap S : m \in Names(l) \/ <<FirstOf(l, S), m>> \in k,
           \A m \in Names(k) : <<FirstOf(l, S), m>> \in l => <<FirstOf(l, S), m>> \in k
    PROVE  FirstOf(k, S) = FirstOf(l, S)
<1> DEFINE f == FirstOf(l, S)
<1>1. f \in S /\ \A m \in Names(l) \cap S : <<f, m>> \in l
  BY FirstOfProperties
<1>2. f \in Names(k) \cap S /\ \A m \in Names(k) \cap S : <<f, m>> \in k
  BY <1>1
<1>3. HoldsOneOf(k, S)
  BY <1>2 DEF HoldsOneOf
<1> QED
  BY <1>2, <1>3, FirstOfProperties

\* Every listed interface, a virtual one of Brocade apart, is found by its name.
AllFound(l) == \A o \in Names(l) : o.kind # "ve" => FirstOf(l, Matching(NameOf(o))) = o

LEMMA OwnName ==
    ASSUME NEW o \in Object
    PROVE  o \in Matching(NameOf(o)) /\ o.number \in Numbers
<1>1. o.number \in Numbers
  <2>1. CASE o \in [kind : {"port"}, number : Physical, vlan : {NoValue}]
    BY <2>1, SwitchportsAssumption
  <2>2. CASE o \in [kind : {"channel"}, number : Numbers, vlan : {NoValue}]
    BY <2>2
  <2>3. CASE o \in {[kind |-> "vlan", number |-> n, vlan |-> n] : n \in Numbers}
    BY <2>3
  <2>4. CASE o \in [kind : {"ve"}, number : Numbers, vlan : Numbers]
    BY <2>4
  <2> QED
    BY <2>1, <2>2, <2>3, <2>4 DEF Object
<1>2. o.number \in EndsWith[o.number]
  BY <1>1, SwitchportsAssumption
<1> QED
  BY <1>1, <1>2 DEF Matching, NameOf

LEMMA AllFoundKeep ==
    ASSUME NEW l, IsNameList(l, Object), AllFound(l), NEW S
    PROVE  AllFound(KeepNames(l, S))
<1> DEFINE k == KeepNames(l, S)
<1>1. IsNameList(k, Object) /\ Names(k) = Names(l) \cap S
  BY KeepNamesProperties
<1>2. ASSUME NEW o \in Names(k), o.kind # "ve"
      PROVE  FirstOf(k, Matching(NameOf(o))) = o
  <2> DEFINE M == Matching(NameOf(o))
  <2>1. o \in Object /\ o \in Names(l) /\ FirstOf(l, M) = o
    BY <1>1, <1>2 DEF AllFound, IsNameList
  <2>2. HoldsOneOf(l, M)
    BY <2>1, OwnName DEF HoldsOneOf
  <2>3. \A m \in Names(k) : <<o, m>> \in l => <<o, m>> \in k
    BY <1>1 DEF KeepNames
  <2>4. \A m \in Names(k) \cap M : m \in Names(l)
    BY <1>1
  <2> HIDE DEF M, k
  <2> QED
    BY <1>1, <1>2, <2>1, <2>2, <2>3, <2>4, FirstStays DEF M
<1> QED
  BY <1>2 DEF AllFound

LEMMA AllFoundAdd ==
    ASSUME NEW l, IsNameList(l, Object), AllFound(l), NEW new \in Object, new \notin Names(l),
           new.kind = "ve" \/ ~HoldsOneOf(l, Matching(NameOf(new)))
    PROVE  AllFound(AddName(l, new))
<1> DEFINE k == AddName(l, new)
<1>1. IsNameList(k, Object) /\ Names(k) = Names(l) \cup {new}
  BY AddNameProperties
<1>0. l \subseteq k /\ \A m \in Names(k) : <<m, new>> \in k
  BY <1>1 DEF AddName
<1>2. ASSUME NEW o \in Names(l), o.kind # "ve"
      PROVE  FirstOf(k, Matching(NameOf(o))) = o
  <2> DEFINE M == Matching(NameOf(o))
  <2>1. o \in Object /\ FirstOf(l, M) = o
    BY <1>2 DEF AllFound, IsNameList
  <2>2. HoldsOneOf(l, M)
    BY <2>1, OwnName DEF HoldsOneOf
  <2>3. o \in Names(k) /\ <<o, new>> \in k
    BY <1>0, <1>1
  <2>4. \A m \in Names(k) \cap M : m \in Names(l) \/ <<o, m>> \in k
    BY <1>1, <2>3
  <2> HIDE DEF M, k
  <2> QED
    BY <1>0, <1>1, <2>1, <2>2, <2>3, <2>4, FirstStays DEF M
<1>3. ASSUME new.kind # "ve"
      PROVE  FirstOf(k, Matching(NameOf(new))) = new
  <2> DEFINE M == Matching(NameOf(new))
  <2>1. Names(k) \cap M = {new}
    BY <1>1, <1>3, OwnName DEF HoldsOneOf
  <2>2. HoldsOneOf(k, M)
    BY <2>1 DEF HoldsOneOf
  <2> HIDE DEF M, k
  <2> QED
    BY <1>1, <2>1, <2>2, FirstOfProperties DEF M
<1> QED
  BY <1>1, <1>2, <1>3 DEF AllFound


\* A command that adds an interface looks its name up first, or makes a virtual one.
LEMMA Absent ==
    ASSUME NEW o \in Object, ~HoldsOneOf(ports, Matching(NameOf(o)))
    PROVE  o \notin Names(ports)
BY OwnName DEF HoldsOneOf

NewName(o) ==
    /\ o \in Object /\ o \notin Names(ports)
    /\ o.kind = "ve" \/ ~HoldsOneOf(ports, Matching(NameOf(o)))

LEMMA NewInterfaceAdds ==
    ASSUME Inv, NEW s \in Sessions, NEW name \in use.names, NewInterface(s, name)
    PROVE  \E o : NewName(o) /\ ports' = AddName(ports, o)
<1> DEFINE o == [kind |-> name.kind, number |-> name.number,
                 vlan |-> IF name.kind = "vlan" THEN name.number ELSE NoValue]
<1>1. name \in Name
  BY SwitchportsAssumption DEF Inv, Use
<1>2. name.kind \in {"vlan", "channel"}
  BY DEF NewInterface
<1>3. o \in Object
  <2>1. CASE name.kind = "vlan"
    <3>1. o = [kind |-> "vlan", number |-> name.number, vlan |-> name.number]
      BY <2>1
    <3> QED
      BY <1>1, <3>1 DEF Object, Name
  <2>2. CASE name.kind = "channel"
    BY <1>1, <2>2 DEF Object, Name
  <2> QED
    BY <1>2, <2>1, <2>2
<1>4. ~HoldsOneOf(ports, Matching(NameOf(o)))
  BY DEF NewInterface, Exists, Matching, NameOf
<1>5. ports' = AddName(ports, o)
  BY DEF NewInterface, AddPort
<1> HIDE DEF o
<1> QED
  BY <1>3, <1>4, <1>5, Absent DEF NewName

LEMMA RouterInterfaceAdds ==
    ASSUME Inv, NEW s \in Sessions, NEW k \in Numbers, RouterInterface(s, k)
    PROVE  \E o : NewName(o) /\ ports' = AddName(ports, o)
<1> DEFINE o == [kind |-> "ve", number |-> k, vlan |-> at[s].vlan]
<1>1. at[s].vlan \in Numbers
  BY DEF RouterInterface, Inv, HoldsObject
<1>2. o \in Object /\ o.vlan = at[s].vlan /\ o.kind = "ve"
  BY <1>1 DEF Object
<1>3. o \notin Names(ports)
  BY <1>2 DEF RouterInterface, BoundVe, HoldsOneOf, VlanPortsOf
<1>4. ports' = AddName(ports, o)
  BY DEF RouterInterface, AddPort
<1> HIDE DEF o
<1> QED
  BY <1>2, <1>3, <1>4 DEF NewName

LEMMA ChannelGroupAdds ==
    ASSUME Inv, NEW s \in Sessions, NEW g \in Numbers, ChannelGroup(s, g), ports' # ports
    PROVE  \E o : NewName(o) /\ ports' = AddName(ports, o)
<1> DEFINE o == [kind |-> "channel", number |-> g, vlan |-> NoValue]
<1>1. ports' = AddName(ports, o) /\ ~Exists(o)
  BY DEF ChannelGroup
<1>2. o \in Object
  BY DEF Object
<1>3. ~HoldsOneOf(ports, Matching(NameOf(o)))
  BY <1>1 DEF Exists, Matching, NameOf
<1> HIDE DEF o
<1> QED
  BY <1>1, <1>2, <1>3, Absent DEF NewName

\* How a command changes the list of interfaces.
PortsChange ==
    \/ ports' = ports
    \/ \E S : ports' = KeepNames(ports, S)
    \/ \E o : NewName(o) /\ ports' = AddName(ports, o)
    \/ \E o \in Object : o.kind = "ve" /\ ports' = AddName(RemoveName(ports, o), o)

LEMMA PortsChanges == ASSUME Inv, Next PROVE PortsChange
<1>0. PICK s \in Sessions : ConfigCommand(s) \/ VlanCommand(s) \/ InterfaceCommand(s)
  BY DEF Next
<1>1. \A o : RemovePort(o) => PortsChange
  BY DEF RemovePort, RemoveName, PortsChange
<1>2. CASE ConfigCommand(s)
  <2>1. ASSUME NEW name \in use.names, NewInterface(s, name) PROVE PortsChange
    BY <2>1, NewInterfaceAdds DEF PortsChange
  <2>2. ASSUME NEW name \in use.names, NoInterface(s, name) PROVE PortsChange
    BY <1>1, <2>2 DEF NoInterface
  <2>3. ASSUME NEW name \in use.names, AristaNoInterface(s, name) PROVE PortsChange
    BY <2>3 DEF AristaNoInterface, RemoveName, PortsChange
  <2>4. ASSUME NEW name \in use.names, BrocadeNoInterface(s, name) PROVE PortsChange
    <3>1. Found(name) \in Object /\ Found(name).kind = name.kind
      BY <2>4, FoundListed DEF BrocadeNoInterface, Inv
    <3> QED
      BY <2>4, <3>1 DEF BrocadeNoInterface, PortsChange
  <2>5. ASSUME NEW n \in Numbers, NoVlan(s, n) PROVE PortsChange
    BY <2>5 DEF NoVlan, PortsChange
  <2>6. ASSUME NEW n \in Numbers, Vlan(s, n) \/ DatabaseVlan(s, n) PROVE PortsChange
    BY <2>6 DEF Vlan, DatabaseVlan, PortsChange
  <2>7. ASSUME NEW name \in use.names, Interface(s, name) \/ DefaultInterface(s, name)
        PROVE  PortsChange
    BY <2>7 DEF Interface, DefaultInterface, PortsChange
  <2>8. VlanDatabase(s) \/ Leave(s) => PortsChange
    BY DEF VlanDatabase, Leave, PortsChange
  <2> QED
    BY <1>2, <2>1, <2>2, <2>3, <2>4, <2>5, <2>6, <2>7, <2>8 DEF ConfigCommand
<1>3. CASE VlanCommand(s)
  <2>1. NoRouterInterface(s) => PortsChange
    BY <1>1 DEF NoRouterInterface
  <2>2. ASSUME NEW k \in Numbers, RouterInterface(s, k) PROVE PortsChange
    BY <2>2, RouterInterfaceAdds DEF PortsChange
  <2>3. ASSUME NEW name \in use.edited,
               Untagged(s, name) \/ NoUntagged(s, name) \/ Tagged(s, name) \/ NoTagged(s, name)
        PROVE  PortsChange
    BY <2>3 DEF Untagged, NoUntagged, Tagged, NoTagged, BrocadeMember, PortsChange
  <2> QED
    BY <1>3, <2>1, <2>2, <2>3 DEF VlanCommand
<1>4. CASE InterfaceCommand(s)
  <2>1. ASSUME NEW makes, OnInterface(s, makes) PROVE PortsChange
    BY <2>1 DEF OnInterface, PortsChange
  <2>2. ASSUME NEW g \in Numbers, ChannelGroup(s, g) PROVE PortsChange
    BY <2>2, ChannelGroupAdds DEF PortsChange
  <2>3. NoChannelGroup(s) => PortsChange
    BY DEF NoChannelGroup, PortsChange
  <2>4. (\E b \in BOOLEAN : Attribute(s, b)) \/ NoAccessVlan(s) \/ NoNativeVlan(s)
          \/ AllowedAll(s) \/ NoSwitchportMode(s) => PortsChange
    BY <2>1 DEF Attribute, NoAccessVlan, NoNativeVlan, AllowedAll, NoSwitchportMode
  <2>5. (\E m : SwitchportMode(s, m)) \/ (\E n : AccessVlan(s, n) \/ NativeVlan(s, n))
          => PortsChange
    BY <2>1 DEF SwitchportMode, AccessVlan, NativeVlan
  <2>6. (\E S : \/ AllowedList(s, S) \/ AllowedAdd(s, S) \/ AllowedRemove(s, S)
                \/ UpdateVlansAdd(s, S) \/ UpdateVlansRemove(s, S)) => PortsChange
    BY <2>1 DEF AllowedList, AllowedAdd, AllowedRemove, UpdateVlansAdd, UpdateVlansRemove,
                MayUpdateVlans
  <2> QED
    BY <1>4, <2>2, <2>3, <2>4, <2>5, <2>6 DEF InterfaceCommand
<1> QED
  BY <1>0, <1>2, <1>3, <1>4

LEMMA AddressableInit == Init => Addressable
BY InitialPortsAssumption DEF Init, Addressable, Found

LEMMA AddressableNext == Inv /\ Addressable /\ [Next]_vars => Addressable'
<1> SUFFICES ASSUME Inv, Addressable, [Next]_vars PROVE AllFound(ports')
  BY DEF Addressable, AllFound, Found
<1>1. IsNameList(ports, Object) /\ AllFound(ports)
  BY DEF Inv, Addressable, AllFound, Found
<1>2. CASE ports' = ports
  BY <1>1, <1>2
<1>3. CASE \E S : ports' = KeepNames(ports, S)
  BY <1>1, <1>3, AllFoundKeep
<1>4. CASE \E o : NewName(o) /\ ports' = AddName(ports, o)
  BY <1>1, <1>4, AllFoundAdd DEF NewName
<1>5. ASSUME NEW o \in Object, o.kind = "ve", ports' = AddName(RemoveName(ports, o), o)
      PROVE  AllFound(ports')
  <2>1. AllFound(RemoveName(ports, o)) /\ IsNameList(RemoveName(ports, o), Object)
    BY <1>1, AllFoundKeep, KeepNamesProperties DEF RemoveName
  <2>2. o \notin Names(RemoveName(ports, o))
    BY <1>1, KeepNamesProperties DEF RemoveName
  <2> QED
    BY <1>5, <2>1, <2>2, AllFoundAdd
<1> QED
  BY <1>2, <1>3, <1>4, <1>5, PortsChanges DEF vars, PortsChange

\* An interface that is listed is found by its full name, for every relation
\* between the names.
THEOREM AddressableAlways == Spec => []Addressable
BY InvInit, InvNext, AddressableInit, AddressableNext, PTL DEF Spec

-----------------------------------------------------------------------------
(***************************************************************************)
(* Brocade's references to vlans.  A vlan is listed once and has at most   *)
(* one virtual interface, and a session in the mode of a vlan that is      *)
(* listed no more knows nothing of it: its `live` is FALSE.                *)
(***************************************************************************)
VlanInv ==
    vendor = "brocade" =>
        /\ \A n \in Numbers : vlans[n] <= 1
        /\ \A s \in Sessions : at[s].mode = "vlan" /\ at[s].live => HasVlan(at[s].vlan)
        /\ \A a, b \in Names(ports) : a.vlan = b.vlan /\ a.vlan \in Numbers => a = b

StrayCommand(n) ==
    \E s \in Sessions : at[s].mode = "vlan" /\ at[s].vlan = n /\ ~at[s].live

\* Other commands than those of Brocade are not typed there.
LEMMA BrocadeNext ==
    ASSUME Inv, Next, vendor = "brocade"
    PROVE  \E s \in Sessions :
              \/ Leave(s)
              \/ \E n \in Numbers : Vlan(s, n) \/ NoVlan(s, n)
              \/ \E name \in use.names : Interface(s, name) \/ BrocadeNoInterface(s, name)
              \/ NoRouterInterface(s)
              \/ \E k \in Numbers : RouterInterface(s, k)
              \/ \E name \in use.edited :
                    Untagged(s, name) \/ NoUntagged(s, name) \/ Tagged(s, name) \/ NoTagged(s, name)
              \/ \E value \in BOOLEAN : Attribute(s, value)
<1>0. PICK s \in Sessions : ConfigCommand(s) \/ VlanCommand(s) \/ InterfaceCommand(s)
  BY DEF Next
<1>1. /\ ~VlanDatabase(s)
      /\ \A n : ~DatabaseVlan(s, n)
      /\ \A name : ~NewInterface(s, name) /\ ~NoInterface(s, name)
      /\ \A name : ~AristaNoInterface(s, name) /\ ~DefaultInterface(s, name)
  BY DEF VlanDatabase, DatabaseVlan, NewInterface, NoInterface, AristaNoInterface,
         DefaultInterface, Family
<1>2. /\ ~NoSwitchportMode(s) /\ ~NoAccessVlan(s) /\ ~NoNativeVlan(s)
      /\ ~AllowedAll(s) /\ ~NoChannelGroup(s)
      /\ \A m : ~SwitchportMode(s, m)
      /\ \A n : ~AccessVlan(s, n) /\ ~NativeVlan(s, n) /\ ~ChannelGroup(s, n)
  BY DEF NoSwitchportMode, NoAccessVlan, NoNativeVlan, AllowedAll, NoChannelGroup,
         SwitchportMode, AccessVlan, NativeVlan, ChannelGroup, OnInterface, Family
<1>3. \A S : /\ ~AllowedList(s, S) /\ ~AllowedAdd(s, S) /\ ~AllowedRemove(s, S)
             /\ ~UpdateVlansAdd(s, S) /\ ~UpdateVlansRemove(s, S)
  BY DEF AllowedList, AllowedAdd, AllowedRemove, UpdateVlansAdd, UpdateVlansRemove,
         MayUpdateVlans, OnInterface
<1> QED
  BY <1>0, <1>1, <1>2, <1>3 DEF ConfigCommand, VlanCommand, InterfaceCommand

LEMMA VlanInvInit == Init => VlanInv
<1> SUFFICES ASSUME Init PROVE VlanInv
  OBVIOUS
<1>1. \A n \in Numbers : vlans[n] <= 1
  BY DEF Init
<1>2. \A s \in Sessions : at[s].mode # "vlan"
  BY DEF Init, Config
<1>3. \A a \in Names(ports) : a.vlan \notin Numbers
  <2>1. \A a \in Names(ports) : a.kind = "port" /\ a \in Object
    BY SwitchportsAssumption DEF Init, IsNameList
  <2>2. \A a \in [kind : {"channel"}, number : Numbers, vlan : {NoValue}]
               \cup [kind : {"ve"}, number : Numbers, vlan : Numbers] : a.kind # "port"
    OBVIOUS
  <2>3. \A a \in {[kind |-> "vlan", number |-> n, vlan |-> n] : n \in Numbers} : a.kind # "port"
    OBVIOUS
  <2>4. \A a \in Names(ports) : a \in [kind : {"port"}, number : Physical, vlan : {NoValue}]
    BY <2>1, <2>2, <2>3 DEF Object
  <2> QED
    BY <2>4, NoValueIsNew
<1> QED
  BY <1>1, <1>2, <1>3 DEF VlanInv

\* What may change without new vlans, sessions in them or virtual interfaces.
LEMMA VlanInvQuiet ==
    ASSUME Inv, VlanInv, vendor' = vendor,
           vlans' = vlans,
           \A s \in Sessions : at'[s].mode = "vlan" /\ at'[s].live =>
               at[s].mode = "vlan" /\ at[s].live /\ at'[s].vlan = at[s].vlan,
           Names(ports') \subseteq Names(ports)
    PROVE  VlanInv'
BY DEF VlanInv, HasVlan

LEMMA LostNotLive ==
    ASSUME Inv, NEW s \in Sessions, NEW n, NEW gone
    PROVE  /\ LoseVlan(at, n)[s].live => at[s].live
           /\ LosePorts(at, gone)[s].live => at[s].live
           /\ LoseVlan(at, n)[s].mode = at[s].mode /\ LoseVlan(at, n)[s].vlan = at[s].vlan
           /\ LosePorts(at, gone)[s].mode = at[s].mode /\ LosePorts(at, gone)[s].vlan = at[s].vlan
           /\ at[s].mode = "vlan" /\ at[s].vlan = n => ~LoseVlan(at, n)[s].live
<1>1. at[s] \in Place
  BY DEF Inv
<1>2. [at[s] EXCEPT !.live = FALSE].live = FALSE
  BY <1>1 DEF Place
<1> QED
  BY <1>1, <1>2 DEF LoseVlan, LosePorts, Place

LEMMA UseStays == ASSUME Next PROVE vendor' = vendor
<1>0. PICK s \in Sessions : ConfigCommand(s) \/ VlanCommand(s) \/ InterfaceCommand(s)
  BY DEF Next
<1>1. CASE ConfigCommand(s)
  BY <1>1 DEF ConfigCommand, VlanDatabase, Leave, Vlan, DatabaseVlan, NoVlan, Interface,
              NewInterface, NoInterface, AristaNoInterface, BrocadeNoInterface,
              DefaultInterface, vendor
<1>2. CASE VlanCommand(s)
  BY <1>2 DEF VlanCommand, NoRouterInterface, RouterInterface, Untagged, NoUntagged, Tagged,
              NoTagged, BrocadeMember, vendor
<1>3. CASE InterfaceCommand(s)
  <2>1. ASSUME NEW makes, OnInterface(s, makes) PROVE use' = use
    BY <2>1 DEF OnInterface
  <2>2. (\E g : ChannelGroup(s, g)) \/ NoChannelGroup(s) => use' = use
    BY DEF ChannelGroup, NoChannelGroup
  <2>3. (\E b : Attribute(s, b)) \/ NoAccessVlan(s) \/ NoNativeVlan(s)
          \/ AllowedAll(s) \/ NoSwitchportMode(s) => use' = use
    BY <2>1 DEF Attribute, NoAccessVlan, NoNativeVlan, AllowedAll, NoSwitchportMode
  <2>4. (\E m : SwitchportMode(s, m)) \/ (\E n : AccessVlan(s, n) \/ NativeVlan(s, n))
          => use' = use
    BY <2>1 DEF SwitchportMode, AccessVlan, NativeVlan
  <2>5. (\E S : \/ AllowedList(s, S) \/ AllowedAdd(s, S) \/ AllowedRemove(s, S)
                \/ UpdateVlansAdd(s, S) \/ UpdateVlansRemove(s, S)) => use' = use
    BY <2>1 DEF AllowedList, AllowedAdd, AllowedRemove, UpdateVlansAdd, UpdateVlansRemove,
                MayUpdateVlans
  <2> QED
    BY <1>3, <2>2, <2>3, <2>4, <2>5 DEF InterfaceCommand, vendor
<1> QED
  BY <1>0, <1>1, <1>2, <1>3

LEMMA RemoveNames ==
    ASSUME Inv, NEW o
    PROVE  /\ IsNameList(RemoveName(ports, o), Object)
           /\ Names(RemoveName(ports, o)) = Names(ports) \ {o}
BY KeepNamesProperties DEF RemoveName, Inv

\* A virtual interface that is made anew: the list has the same names.
LEMMA Renewed ==
    ASSUME Inv, NEW o \in Object, o \in Names(ports), ports' = AddName(RemoveName(ports, o), o)
    PROVE  Names(ports') = Names(ports)
<1>1. IsNameList(RemoveName(ports, o), Object) /\ o \notin Names(RemoveName(ports, o))
  BY RemoveNames
<1>2. Names(ports') = Names(RemoveName(ports, o)) \cup {o}
  BY <1>1, AddNameProperties
<1> QED
  BY <1>2, RemoveNames

LEMMA VlanInvNext == Inv /\ VlanInv /\ [Next]_vars => VlanInv'
<1> SUFFICES ASSUME Inv, VlanInv, Next PROVE VlanInv'
  BY DEF vars, VlanInv, vendor, HasVlan
<1>0. vendor' = vendor
  BY UseStays
<1> SUFFICES ASSUME vendor = "brocade" PROVE VlanInv'
  BY <1>0 DEF VlanInv
<1>1. PICK s \in Sessions :
         \/ Leave(s)
         \/ \E n \in Numbers : Vlan(s, n) \/ NoVlan(s, n)
         \/ \E name \in use.names : Interface(s, name) \/ BrocadeNoInterface(s, name)
         \/ NoRouterInterface(s)
         \/ \E k \in Numbers : RouterInterface(s, k)
         \/ \E name \in use.edited :
               Untagged(s, name) \/ NoUntagged(s, name) \/ Tagged(s, name) \/ NoTagged(s, name)
         \/ \E value \in BOOLEAN : Attribute(s, value)
  BY BrocadeNext
<1>2. ASSUME vlans' = vlans, ports' = ports, at' = at PROVE VlanInv'
  BY <1>0, <1>2, VlanInvQuiet
<1>3. CASE Leave(s)
  BY <1>0, <1>3, VlanInvQuiet DEF Leave, Config, Inv
<1>4. ASSUME NEW n \in Numbers, Vlan(s, n)
      PROVE  VlanInv'
  <2>1. /\ vlans' \in [Numbers -> Nat] /\ vlans'[n] = IF HasVlan(n) THEN vlans[n] ELSE 1
        /\ \A k \in Numbers \ {n} : vlans'[k] = vlans[k]
    BY <1>4 DEF Vlan, Inv
  <2>2. \A k \in Numbers : vlans'[k] <= 1 /\ (vlans[k] > 0 => vlans'[k] > 0) /\ vlans'[n] > 0
    BY <2>1 DEF VlanInv, HasVlan, Inv
  <2>3. \A t \in Sessions : at'[t].mode = "vlan" /\ at'[t].live => vlans'[at'[t].vlan] > 0
    <3>1. at'[s].vlan = n /\ \A t \in Sessions \ {s} : at'[t] = at[t]
      BY <1>4 DEF Vlan, InVlan, Config, Inv
    <3>2. \A t \in Sessions : at[t].mode = "vlan" => at[t].vlan \in Numbers
      BY DEF Inv, HoldsObject
    <3> QED
      BY <2>2, <3>1, <3>2 DEF VlanInv, HasVlan
  <2>4. ports' = ports
    BY <1>4 DEF Vlan
  <2> QED
    BY <2>2, <2>3, <2>4 DEF VlanInv, HasVlan
<1>5. ASSUME NEW n \in Numbers, NoVlan(s, n)
      PROVE  VlanInv'
  <2>1. /\ vlans' \in [Numbers -> Nat] /\ vlans'[n] = vlans[n] - 1
        /\ \A k \in Numbers \ {n} : vlans'[k] = vlans[k]
    BY <1>5 DEF NoVlan, HasVlan, Inv
  <2>2. \A k \in Numbers : vlans'[k] <= 1
    BY <2>1 DEF VlanInv, Inv
  <2>3. Names(ports') \subseteq Names(ports)
    BY <1>5, KeepNamesProperties DEF NoVlan, Inv
  <2>4. at' = LosePorts(LoseVlan(at, n), BoundVe(n))
    BY <1>5 DEF NoVlan
  <2>5. \A t \in Sessions : at'[t].mode = "vlan" /\ at'[t].live =>
            /\ at[t].mode = "vlan" /\ at[t].live /\ at'[t].vlan = at[t].vlan
            /\ at[t].vlan # n
    <3>1. \A t \in Sessions : at[t] \in Place
      BY DEF Inv
    <3> QED
      BY <2>4, <3>1 DEF LoseVlan, LosePorts, Place
  <2>6. \A t \in Sessions : at[t].mode = "vlan" => at[t].vlan \in Numbers
    BY DEF Inv, HoldsObject
  <2> QED
    BY <1>0, <2>1, <2>2, <2>3, <2>5, <2>6 DEF VlanInv, HasVlan
<1>6. ASSUME NEW name \in use.names, Interface(s, name)
      PROVE  VlanInv'
  BY <1>0, <1>6, VlanInvQuiet DEF Interface, InInterface, Config, Inv
<1>7. ASSUME NEW name \in use.names, BrocadeNoInterface(s, name)
      PROVE  VlanInv'
  <2>1. CASE name.kind = "port"
    BY <1>2, <1>7, <2>1 DEF BrocadeNoInterface
  <2>2. CASE name.kind # "port"
    <3>1. Found(name) \in Names(ports) /\ Found(name) \in Object
      BY <1>7, FoundListed DEF BrocadeNoInterface, Inv
    <3>2. Names(ports') = Names(ports)
      BY <1>7, <2>2, <3>1, Renewed DEF BrocadeNoInterface
    <3>3. at' = LosePorts(at, {Found(name)}) /\ vlans' = vlans
      BY <1>7, <2>2 DEF BrocadeNoInterface
    <3> QED
      BY <1>0, <3>2, <3>3, LostNotLive, VlanInvQuiet
  <2> QED
    BY <2>1, <2>2
<1>8. CASE NoRouterInterface(s)
  <2>1. PICK ve : RemovePort(ve) /\ vlans' = vlans
    BY <1>8 DEF NoRouterInterface
  <2>2. at' = LosePorts(at, {ve}) /\ Names(ports') \subseteq Names(ports)
    BY <2>1, RemoveNames DEF RemovePort
  <2> QED
    BY <1>0, <2>1, <2>2, LostNotLive, VlanInvQuiet
<1>9. ASSUME NEW k \in Numbers, RouterInterface(s, k)
      PROVE  VlanInv'
  <2> DEFINE o == [kind |-> "ve", number |-> k, vlan |-> at[s].vlan]
  <2>1. at[s].vlan \in Numbers
    BY <1>9 DEF RouterInterface, Inv, HoldsObject
  <2>2. o \in Object /\ o.vlan = at[s].vlan
    BY <2>1 DEF Object
  <2>3. \A a \in Names(ports) : a.vlan # at[s].vlan
    BY <1>9 DEF RouterInterface, BoundVe, HoldsOneOf, VlanPortsOf, Inv, IsNameList
  <2>4. ports' = AddName(ports, o) /\ vlans' = vlans /\ at' = at
    BY <1>9 DEF RouterInterface, AddPort
  <2> HIDE DEF o
  <2>5. Names(ports') = Names(ports) \cup {o}
    BY <2>2, <2>3, <2>4, AddNameProperties DEF Inv
  <2> QED
    BY <1>0, <2>2, <2>3, <2>4, <2>5 DEF VlanInv, HasVlan
<1>10. ASSUME NEW name \in use.edited,
              Untagged(s, name) \/ NoUntagged(s, name) \/ Tagged(s, name) \/ NoTagged(s, name)
       PROVE  VlanInv'
  BY <1>2, <1>10 DEF Untagged, NoUntagged, Tagged, NoTagged, BrocadeMember
<1>11. ASSUME NEW value \in BOOLEAN, Attribute(s, value)
       PROVE  VlanInv'
  BY <1>2, <1>11 DEF Attribute, OnInterface
<1> QED
  BY <1>1, <1>3, <1>4, <1>5, <1>6, <1>7, <1>8, <1>9, <1>10, <1>11

-----------------------------------------------------------------------------
(***************************************************************************)
(* What the commands do to the references that one interface makes.        *)
(***************************************************************************)
LEMMA ResetRefersToNone == ASSUME NEW n \in Numbers PROVE ~RefersTo(ResetPort, n)
BY NoValueIsNew DEF RefersTo, ResetPort

LEMMA OtherVlanReferences ==
    ASSUME NEW r \in Port, NEW k \in Numbers \cup {NoValue}, NEW n \in Numbers, n # k
    PROVE  /\ RefersTo([r EXCEPT !.access = k], n) => RefersTo(r, n)
           /\ RefersTo([r EXCEPT !.native = k], n) => RefersTo(r, n)
BY DEF RefersTo, Port

LEMMA TouchedReferences ==
    ASSUME NEW r \in Port, NEW b, NEW n
    PROVE  RefersTo([r EXCEPT !.touched = b], n) => RefersTo(r, n)
BY DEF RefersTo, Port

LEMMA WithTaggedReferences ==
    ASSUME NEW r, GoodPort("brocade", r), NEW k \in Numbers, NEW n \in Numbers, n # k,
           RefersTo(WithTagged(r, k), n)
    PROVE  RefersTo(r, n)
<1>1. r \in Port
  BY DEF GoodPort
<1>2. AsTrunk(r) \in Port /\ AsTrunk(r).trunk \in [Numbers -> Nat]
  <2>1. NoneListed \in [Numbers -> Nat] /\ 1 \in Numbers
    BY SwitchportsAssumption DEF NoneListed, Listed
  <2> QED
    BY <1>1, <2>1 DEF AsTrunk, Port
<1>3. /\ WithTagged(r, k).access = AsTrunk(r).access
      /\ WithTagged(r, k).native = AsTrunk(r).native
      /\ WithTagged(r, k).trunk[n] > 0 => AsTrunk(r).trunk[n] > 0
  <2>1. Merged(AsTrunk(r).trunk, {k})[n] > 0 => AsTrunk(r).trunk[n] > 0
    BY <1>2 DEF Merged
  <2> QED
    BY <1>2, <2>1 DEF WithTagged, Port
<1>4. RefersTo(AsTrunk(r), n)
  BY <1>2, <1>3, NoValueIsNew DEF RefersTo
<1>5. CASE r.trunk = NoValue
  <2>1. /\ AsTrunk(r).access = NoValue /\ AsTrunk(r).trunk[n] = 0
        /\ AsTrunk(r).native = IF r.access = NoValue THEN 1 ELSE r.access
    BY <1>1, <1>5 DEF AsTrunk, Port, NoneListed, Listed
  <2> QED
    BY <1>4, <2>1, NoValueIsNew DEF RefersTo
<1>6. CASE r.trunk # NoValue
  BY <1>4, <1>6 DEF AsTrunk
<1> QED
  BY <1>5, <1>6

LEMMA LessTaggedReferences ==
    ASSUME NEW r, GoodPort("brocade", r), r.trunk # NoValue,
           NEW k \in Numbers, NEW n \in Numbers, RefersTo(LessTagged(r, k), n)
    PROVE  RefersTo(r, n)
<1> DEFINE q == [r EXCEPT !.trunk = Removed(r.trunk, {k})]
<1>1. r \in Port /\ r.trunk \in [Numbers -> Nat] /\ r.access = NoValue
  BY DEF GoodPort, BrocadePort, Port
<1>2. Removed(r.trunk, {k}) \in [Numbers -> Nat] /\ Removed(r.trunk, {k})[n] <= r.trunk[n]
  BY <1>1, TrunkTypes
<1>3. /\ q \in Port /\ q.trunk \in [Numbers -> Nat] /\ q.trunk[n] <= r.trunk[n]
      /\ q.access = NoValue /\ q.native = r.native
  BY <1>1, <1>2 DEF Port
<1>4. RefersTo(AsAccess(q), n)
  BY DEF LessTagged
<1> HIDE DEF q
<1>5. CASE q.trunk = NoneListed
  <2>1. /\ AsAccess(q).trunk = NoValue
        /\ AsAccess(q).access = IF q.native \in {NoValue, 1} THEN q.access ELSE q.native
    BY <1>3, <1>5 DEF AsAccess, Port
  <2> QED
    BY <1>1, <1>3, <1>4, <2>1, NoValueIsNew DEF RefersTo
<1>6. CASE q.trunk # NoneListed
  <2>1. RefersTo(q, n)
    BY <1>4, <1>6 DEF AsAccess
  <2> QED
    BY <1>1, <1>3, <2>1, NoValueIsNew DEF RefersTo
<1> QED
  BY <1>5, <1>6

LEMMA WithoutVlanReferences ==
    ASSUME NEW r, GoodPort("brocade", r), NEW m \in Numbers, NEW n \in Numbers,
           RefersTo(WithoutVlan(r, m), n)
    PROVE  n # m /\ RefersTo(r, n)
<1>1. r \in Port
  BY DEF GoodPort
<1>2. CASE r.trunk = NoValue
  BY <1>1, <1>2, NoValueIsNew DEF WithoutVlan, RefersTo, Port
<1>3. CASE r.trunk # NoValue
  <2>1. /\ r.trunk \in [Numbers -> Nat] /\ r.access = NoValue
        /\ \A k \in Numbers : r.trunk[k] <= 1
    BY <1>3 DEF GoodPort, BrocadePort, Port
  <2> DEFINE less == Removed(r.trunk, {m})
             t == IF r.trunk[m] > 0 THEN OrNone(less) ELSE r.trunk
  <2>2. WithoutVlan(r, m) =
          [r EXCEPT !.native = IF r.native = m THEN NoValue ELSE r.native, !.trunk = t]
    BY <1>1, <1>3 DEF WithoutVlan, Port
  <2>3. less[n] <= r.trunk[n] /\ (n = m => less[n] = 0)
    BY <2>1 DEF Removed
  <2>4. t # NoValue => t[n] <= r.trunk[n] /\ (n = m => ~(t[n] > 0)) /\ t[n] \in Nat
    <3>1. less \in [Numbers -> Nat]
      BY <2>1, TrunkTypes
    <3> HIDE DEF less
    <3> QED
      BY <2>1, <2>3, <3>1 DEF OrNone
  <2> HIDE DEF t
  <2>5. /\ WithoutVlan(r, m).access = NoValue
        /\ WithoutVlan(r, m).trunk = t
        /\ WithoutVlan(r, m).native = IF r.native = m THEN NoValue ELSE r.native
    BY <1>1, <2>1, <2>2 DEF Port
  <2> QED
    BY <1>3, <2>1, <2>4, <2>5, NoValueIsNew DEF RefersTo
<1> QED
  BY <1>2, <1>3

-----------------------------------------------------------------------------
(***************************************************************************)
(* No step makes a vlan dangle but one of a session in a removed vlan.     *)
(***************************************************************************)

\* A vlan that stays listed, or whose references do not grow, does not dangle anew.
LEMMA NoNewReference ==
    ASSUME NEW n \in Numbers, Names(ports') \subseteq Names(ports),
           vlans[n] > 0 => vlans'[n] > 0,
           \A o \in Names(ports') : RefersTo(port'[o], n) => RefersTo(port[o], n)
    PROVE  Dangling(n)' => Dangling(n)
BY DEF Dangling, HasVlan, RefersTo

LEMMA NoNewReferenceOf ==
    ASSUME Inv, NEW n \in Numbers, NEW x \in Object, NEW r, UNCHANGED <<vlans, ports>>,
           port' = [port EXCEPT ![x] = r], RefersTo(r, n) => RefersTo(port[x], n)
    PROVE  Dangling(n)' => Dangling(n)
<1>1. \A o \in Names(ports') : RefersTo(port'[o], n) => RefersTo(port[o], n)
  BY DEF Inv, IsNameList
<1> QED
  BY <1>1, NoNewReference

\* A command in the mode of vlan n: the session's vlan is listed, or it is stray.
LEMMA InItsVlan ==
    ASSUME Inv, VlanInv, vendor = "brocade", NEW s \in Sessions, NEW n \in Numbers,
           at[s].mode = "vlan", at[s].vlan = n, ~StrayCommand(n), vlans' = vlans
    PROVE  ~Dangling(n)'
<1>1. vlans[n] > 0
  BY DEF VlanInv, StrayCommand, HasVlan
<1> QED
  BY <1>1 DEF Dangling, HasVlan

LEMMA MemberCommands ==
    ASSUME Inv, VlanInv, vendor = "brocade", NEW s \in Sessions, NEW n \in Numbers,
           NEW name, ~StrayCommand(n),
           Untagged(s, name) \/ NoUntagged(s, name) \/ Tagged(s, name) \/ NoTagged(s, name)
    PROVE  Dangling(n)' => Dangling(n)
<1> DEFINE x == Found(name)
<1>1. UNCHANGED <<vlans, ports>> /\ at[s].mode = "vlan" /\ Exists(name)
  BY DEF Untagged, NoUntagged, Tagged, NoTagged, BrocadeMember
<1>2. x \in Object
  BY <1>1, FoundListed DEF Inv
<1>3. port[x] \in Port /\ GoodPort("brocade", port[x])
  BY <1>2 DEF Inv
<1>4. at[s].vlan \in Numbers
  BY <1>1 DEF Inv, HoldsObject
<1>5. CASE at[s].vlan = n
  BY <1>1, <1>5, InItsVlan
<1>6. CASE at[s].vlan # n
  <2>1. CASE Untagged(s, name)
    <3>1. port' = [port EXCEPT ![x] = IF port[x].trunk = NoValue
                                      THEN [port[x] EXCEPT !.access = at[s].vlan]
                                      ELSE [port[x] EXCEPT !.native = at[s].vlan]]
      BY <2>1 DEF Untagged
    <3> HIDE DEF x
    <3> QED
      BY <1>1, <1>2, <1>3, <1>4, <1>6, <3>1, OtherVlanReferences, NoNewReferenceOf
  <2>2. CASE NoUntagged(s, name)
    <3>1. port' = [port EXCEPT ![x] = IF port[x].trunk = NoValue
                                      THEN [port[x] EXCEPT !.access = NoValue]
                                      ELSE [port[x] EXCEPT !.native = NoValue]]
      BY <2>2 DEF NoUntagged
    <3> HIDE DEF x
    <3> QED
      BY <1>1, <1>2, <1>3, <3>1, OtherVlanReferences, NoNewReferenceOf, NoValueIsNew
  <2>3. CASE Tagged(s, name)
    <3>1. port' = [port EXCEPT ![x] = WithTagged(port[x], at[s].vlan)]
      BY <2>3 DEF Tagged
    <3>2. RefersTo(WithTagged(port[x], at[s].vlan), n) => RefersTo(port[x], n)
      BY <1>3, <1>4, <1>6, WithTaggedReferences
    <3> HIDE DEF x
    <3> QED
      BY <1>1, <1>2, <3>1, <3>2, NoNewReferenceOf
  <2>4. CASE NoTagged(s, name)
    <3>1. port' = [port EXCEPT ![x] = LessTagged(port[x], at[s].vlan)] /\ port[x].trunk # NoValue
      BY <2>4 DEF NoTagged
    <3>2. RefersTo(LessTagged(port[x], at[s].vlan), n) => RefersTo(port[x], n)
      BY <1>3, <1>4, <3>1, LessTaggedReferences
    <3> HIDE DEF x
    <3> QED
      BY <1>1, <1>2, <3>1, <3>2, NoNewReferenceOf
  <2> QED
    BY <2>1, <2>2, <2>3, <2>4
<1> QED
  BY <1>5, <1>6

\* The vlan goes with its members and its only virtual interface.
LEMMA NoVlanLeavesNone ==
    ASSUME Inv, VlanInv, vendor = "brocade", NEW s, NEW m \in Numbers, NoVlan(s, m),
           NEW n \in Numbers
    PROVE  Dangling(n)' => Dangling(n)
<1>1. /\ ports' = KeepNames(ports, Object \ BoundVe(m))
      /\ port' = [o \in Object |-> IF o \in Names(ports')
                                    THEN WithoutVlan(port[o], m) ELSE ResetPort]
      /\ vlans' = [vlans EXCEPT ![m] = @ - 1]
  BY DEF NoVlan
<1>2. Names(ports') = Names(ports) \ BoundVe(m) /\ Names(ports) \subseteq Object
  <2>1. IsNameList(ports, Object)
    BY DEF Inv
  <2>2. Names(ports') = Names(ports) \cap (Object \ BoundVe(m))
    BY <1>1, <2>1, KeepNamesProperties
  <2> QED
    BY <2>1, <2>2 DEF IsNameList
<1>3. \A o \in Names(ports') : RefersTo(port'[o], n) => n # m /\ RefersTo(port[o], n)
  <2>1. \A o \in Object : GoodPort("brocade", port[o])
    BY DEF Inv
  <2> QED
    BY <1>1, <1>2, <2>1, WithoutVlanReferences
<1>4. CASE n = m
  <2>1. \A o \in Names(ports') : o.vlan # m
    <3>1. SUFFICES ASSUME NEW o \in Names(ports), o.vlan = m PROVE o \in BoundVe(m)
      BY <1>2
    <3>2. HoldsOneOf(ports, VlanPortsOf(m))
      BY <1>2, <3>1 DEF HoldsOneOf, VlanPortsOf
    <3>3. FirstOf(ports, VlanPortsOf(m)) \in Names(ports) \cap VlanPortsOf(m)
      BY <3>2, FirstOfProperties DEF Inv
    <3>4. FirstOf(ports, VlanPortsOf(m)).vlan = m
      BY <3>3 DEF VlanPortsOf
    <3> QED
      BY <3>1, <3>2, <3>3, <3>4 DEF BoundVe, VlanInv
  <2> QED
    BY <1>3, <1>4, <2>1 DEF Dangling, RefersTo
<1>5. CASE n # m
  <2>1. vlans'[n] = vlans[n]
    BY <1>1, <1>5 DEF Inv
  <2> QED
    BY <1>2, <1>3, <2>1, NoNewReference
<1> QED
  BY <1>4, <1>5

LEMMA DanglingNext ==
    ASSUME Inv, VlanInv, Next, vendor = "brocade", NEW n \in Numbers, ~StrayCommand(n)
    PROVE  Dangling(n)' => Dangling(n)
<1>1. PICK s \in Sessions :
         \/ Leave(s)
         \/ \E m \in Numbers : Vlan(s, m) \/ NoVlan(s, m)
         \/ \E name \in use.names : Interface(s, name) \/ BrocadeNoInterface(s, name)
         \/ NoRouterInterface(s)
         \/ \E k \in Numbers : RouterInterface(s, k)
         \/ \E name \in use.edited :
               Untagged(s, name) \/ NoUntagged(s, name) \/ Tagged(s, name) \/ NoTagged(s, name)
         \/ \E value \in BOOLEAN : Attribute(s, value)
  BY BrocadeNext
<1>2. ASSUME UNCHANGED <<vlans, ports, port>> PROVE Dangling(n)' => Dangling(n)
  BY <1>2, NoNewReference
<1>3. CASE Leave(s)
  BY <1>2, <1>3 DEF Leave
<1>4. ASSUME NEW m \in Numbers, Vlan(s, m)
      PROVE  Dangling(n)' => Dangling(n)
  <2>1. vlans' = [vlans EXCEPT ![m] = IF HasVlan(m) THEN @ ELSE 1] /\ UNCHANGED <<ports, port>>
    BY <1>4 DEF Vlan
  <2>2. vlans[n] > 0 => vlans'[n] > 0
    BY <2>1 DEF HasVlan, Inv
  <2> QED
    BY <2>1, <2>2, NoNewReference
<1>5. ASSUME NEW m \in Numbers, NoVlan(s, m)
      PROVE  Dangling(n)' => Dangling(n)
  BY <1>5, NoVlanLeavesNone
<1>6. ASSUME NEW name \in use.names, Interface(s, name)
      PROVE  Dangling(n)' => Dangling(n)
  BY <1>2, <1>6 DEF Interface
<1>7. ASSUME NEW name \in use.names, BrocadeNoInterface(s, name)
      PROVE  Dangling(n)' => Dangling(n)
  <2> DEFINE x == Found(name)
  <2>1. x \in Names(ports) /\ x \in Object /\ port[x] \in Port
    BY <1>7, FoundListed DEF BrocadeNoInterface, Inv
  <2>2. CASE name.kind = "port"
    <3> DEFINE r == [ResetPort EXCEPT !.trunk = port[x].trunk, !.access = port[x].access,
                                      !.native = port[x].native]
    <3>1. port' = [port EXCEPT ![x] = r] /\ UNCHANGED <<vlans, ports>>
      BY <1>7, <2>2 DEF BrocadeNoInterface
    <3>2. RefersTo(r, n) => RefersTo(port[x], n)
      BY DEF RefersTo, ResetPort
    <3> HIDE DEF r, x
    <3> QED
      BY <2>1, <3>1, <3>2, NoNewReferenceOf
  <2>3. CASE name.kind # "port"
    <3>1. /\ ports' = AddName(RemoveName(ports, x), x)
          /\ port' = [port EXCEPT ![x] = ResetPort] /\ vlans' = vlans
      BY <1>7, <2>3 DEF BrocadeNoInterface
    <3> HIDE DEF x
    <3>2. Names(ports') = Names(ports) /\ Names(ports) \subseteq Object
      BY <2>1, <3>1, Renewed DEF Inv, IsNameList
    <3>3. \A o \in Names(ports') : RefersTo(port'[o], n) => RefersTo(port[o], n)
      BY <3>1, <3>2, ResetRefersToNone DEF Inv
    <3> QED
      BY <3>1, <3>2, <3>3, NoNewReference
  <2> QED
    BY <2>2, <2>3
<1>8. CASE NoRouterInterface(s)
  <2>1. PICK ve : RemovePort(ve) /\ vlans' = vlans
    BY <1>8 DEF NoRouterInterface
  <2>2. Names(ports') \subseteq Names(ports) /\ Names(ports) \subseteq Object
    BY <2>1, RemoveNames DEF RemovePort, Inv, IsNameList
  <2>3. \A o \in Names(ports') : RefersTo(port'[o], n) => RefersTo(port[o], n)
    BY <2>1, <2>2, ResetRefersToNone DEF RemovePort, Inv
  <2> QED
    BY <2>1, <2>2, <2>3, NoNewReference
<1>9. ASSUME NEW k \in Numbers, RouterInterface(s, k)
      PROVE  Dangling(n)' => Dangling(n)
  <2> DEFINE o == [kind |-> "ve", number |-> k, vlan |-> at[s].vlan]
  <2>1. /\ at[s].mode = "vlan" /\ at[s].vlan \in Numbers /\ vlans' = vlans
        /\ ports' = AddName(ports, o) /\ port' = [port EXCEPT ![o] = ResetPort]
    BY <1>9 DEF RouterInterface, AddPort, Inv, HoldsObject
  <2>2. CASE at[s].vlan = n
    BY <2>1, <2>2, InItsVlan
  <2>3. CASE at[s].vlan # n
    <3>1. o \in Object /\ o.vlan = at[s].vlan
      BY <2>1 DEF Object
    <3>2. \A a \in Names(ports) : a.vlan # at[s].vlan
      BY <1>9 DEF RouterInterface, BoundVe, HoldsOneOf, VlanPortsOf, Inv, IsNameList
    <3> HIDE DEF o
    <3>3. Names(ports') = Names(ports) \cup {o} /\ Names(ports) \subseteq Object
      BY <2>1, <3>1, <3>2, AddNameProperties DEF Inv, IsNameList
    <3>4. ~(o.vlan = n \/ RefersTo(port'[o], n))
      BY <2>1, <2>3, <3>1, ResetRefersToNone DEF Inv
    <3>5. \A a \in Names(ports) : a # o /\ port'[a] = port[a]
      BY <2>1, <3>1, <3>2, <3>3 DEF Inv
    <3> QED
      BY <2>1, <3>3, <3>4, <3>5 DEF Dangling, HasVlan, RefersTo
  <2> QED
    BY <2>2, <2>3
<1>10. ASSUME NEW name \in use.edited,
              Untagged(s, name) \/ NoUntagged(s, name) \/ Tagged(s, name) \/ NoTagged(s, name)
       PROVE  Dangling(n)' => Dangling(n)
  BY <1>10, MemberCommands
<1>11. ASSUME NEW value \in BOOLEAN, Attribute(s, value)
       PROVE  Dangling(n)' => Dangling(n)
  <2>1. UNCHANGED <<vlans, ports>> /\ at[s].port \in Object
    BY <1>11 DEF Attribute, OnInterface, Inv, HoldsObject
  <2>2. port' = port \/ port' = [port EXCEPT ![at[s].port] = [Held(s) EXCEPT !.touched = value]]
    BY <1>11 DEF Attribute, Set
  <2>3. RefersTo([Held(s) EXCEPT !.touched = value], n) => RefersTo(port[at[s].port], n)
    BY <2>1, TouchedReferences DEF Held, Inv
  <2> QED
    BY <1>2, <2>1, <2>2, <2>3, NoNewReferenceOf
<1> QED
  BY <1>1, <1>3, <1>4, <1>5, <1>6, <1>7, <1>8, <1>9, <1>10, <1>11

\* Brocade's `no vlan` takes every untagged, tagged and virtual interface of
\* the vlan with it, and no command of a session that is not in the mode of a
\* removed vlan brings a reference to a vlan back that is not listed.
THEOREM DanglingOnlyFromRemovedVlanAlways == Spec => DanglingOnlyFromRemovedVlan
<1>1. Inv /\ VlanInv /\ [Next]_vars =>
          [\A n \in Numbers : vendor = "brocade" /\ ~Dangling(n) /\ Dangling(n)' =>
              \E s \in Sessions : at[s].mode = "vlan" /\ at[s].vlan = n /\ ~at[s].live]_vars
  BY DanglingNext DEF StrayCommand
<1> QED
  BY <1>1, InvInit, InvNext, VlanInvInit, VlanInvNext, PTL DEF Spec, DanglingOnlyFromRemovedVlan

-----------------------------------------------------------------------------
(***************************************************************************)
(* Folds.  The lines of one interface are at most five, so a fold through  *)
(* them is unfolded; the loop through the vlans is compared with what it   *)
(* should compute, as LoopsAgree of OrderedNamesProofs does.               *)
(***************************************************************************)
LEMMA MaxIs ==
    ASSUME NEW T \in SUBSET Nat, NEW m \in T, \A k \in T : k <= m
    PROVE  Max(T) = m
<1>1. \A y \in T : m >= y
  OBVIOUS
<1>2. Max(T) \in T /\ \A y \in T : Max(T) >= y
  BY <1>1 DEF Max
<1>3. Max(T) \in Nat /\ m \in Nat /\ m >= Max(T) /\ Max(T) >= m
  BY <1>1, <1>2
<1> QED
  BY <1>3

\* The line at place k, if there is one, typed.
Kth(lines, k, r) == IF k \in DOMAIN lines THEN Typed(r, lines[k]) ELSE r

LEMMA TypedInTurn ==
    ASSUME NEW r, NEW lines, DOMAIN lines \in {1..2, 1..4, 1..5}
    PROVE  TypedAll(r, lines) =
              Kth(lines, 5, Kth(lines, 4, Kth(lines, 3, Kth(lines, 2, Kth(lines, 1, r)))))
<1>. DEFINE D == DOMAIN lines
            Step(t, k, x) == IF k \in t THEN Typed(x, lines[k]) ELSE x
            F == [t \in SUBSET D |->
                    Step(t, 5, Step(t, 4, Step(t, 3, Step(t, 2, Step(t, 1, r)))))]
            Is(f) == f = [t \in SUBSET D |->
                            IF t = {} THEN r
                            ELSE Typed(f[t \ {Max(t)}], lines[Max(t)])]
            H == CHOOSE f : Is(f)
<1>1. TypedAll(r, lines) = H[D]
  BY DEF TypedAll, FoldLeft, MapThenFoldSet
<1>2. D \subseteq {1, 2, 3, 4, 5} /\ D \subseteq Nat
  OBVIOUS
<1>3. ASSUME NEW t \in SUBSET D, t # {}
      PROVE  F[t] = Typed(F[t \ {Max(t)}], lines[Max(t)])
  <2>1. t \in SUBSET {1, 2, 3, 4, 5} /\ t \in SUBSET Nat
    BY <1>2
  <2>2. PICK m \in t : \A k \in t : k <= m
    BY <1>3, <2>1
  <2>3. Max(t) = m /\ m \in {1, 2, 3, 4, 5}
    BY <2>1, <2>2, MaxIs
  <2>4. t \ {m} \in SUBSET D
    OBVIOUS
  <2>5. \A k \in {1, 2, 3, 4, 5} : k # m => (k \in t <=> k \in t \ {m})
    OBVIOUS
  <2>6. \A k \in {1, 2, 3, 4, 5} : m < k => k \notin t
    BY <2>2, <2>1
  <2>. HIDE DEF D
  <2>. QED
    BY <2>2, <2>3, <2>4, <2>5, <2>6
<1>4. Is(F)
  <2>1. F[{}] = r /\ F = [t \in SUBSET D |-> F[t]]
    OBVIOUS
  <2>. HIDE DEF F
  <2>. QED
    BY <1>3, <2>1
<1>5. Is(H)
  <2>. HIDE DEF Is
  <2>. QED
    BY <1>4
<1>. HIDE DEF H
<1>6. H[{}] = r
  BY <1>5
<1>7. ASSUME NEW k \in D PROVE H[1..k] = Typed(H[1..(k - 1)], lines[k])
  <2>1. 1..k \in SUBSET D /\ 1..k # {} /\ 1..k \in SUBSET Nat /\ k \in 1..k
    OBVIOUS
  <2>2. Max(1..k) = k
    BY <2>1, MaxIs
  <2>3. (1..k) \ {k} = 1..(k - 1)
    BY <1>2
  <2>. QED
    BY <1>5, <2>1, <2>2, <2>3
<1>. HIDE DEF Is, F
<1>8. 1..0 = {}
  OBVIOUS
<1>. QED
  <2>1. CASE D = 1..2
    BY <1>1, <1>6, <1>7, <1>8, <2>1 DEF Kth
  <2>2. CASE D = 1..4
    BY <1>1, <1>6, <1>7, <1>8, <2>2 DEF Kth
  <2>3. CASE D = 1..5
    BY <1>1, <1>6, <1>7, <1>8, <2>3 DEF Kth
  <2>. QED
    BY <2>1, <2>2, <2>3

LEMMA TypedTwo ==
    ASSUME NEW r, NEW l1, NEW l2
    PROVE  TypedAll(r, <<l1, l2>>) = Typed(Typed(r, l1), l2)
<1>. DEFINE lines == <<l1, l2>>
<1>1. DOMAIN lines = 1..2 /\ lines[1] = l1 /\ lines[2] = l2
  OBVIOUS
<1>. HIDE DEF lines
<1>2. \A x : Kth(lines, 1, x) = Typed(x, l1) /\ Kth(lines, 2, x) = Typed(x, l2)
  BY <1>1 DEF Kth
<1>3. \A x : Kth(lines, 3, x) = x /\ Kth(lines, 4, x) = x /\ Kth(lines, 5, x) = x
  BY <1>1 DEF Kth
<1>4. TypedAll(r, lines) = Typed(Typed(r, l1), l2)
  BY <1>1, <1>2, <1>3, TypedInTurn
<1>. QED
  BY <1>4 DEF lines

LEMMA TypedFour ==
    ASSUME NEW r, NEW l1, NEW l2, NEW l3, NEW l4
    PROVE  TypedAll(r, <<l1, l2, l3, l4>>) = Typed(Typed(Typed(Typed(r, l1), l2), l3), l4)
<1>. DEFINE lines == <<l1, l2, l3, l4>>
<1>1. /\ DOMAIN lines = 1..4
      /\ lines[1] = l1 /\ lines[2] = l2 /\ lines[3] = l3 /\ lines[4] = l4
  OBVIOUS
<1>. HIDE DEF lines
<1>2. \A x : /\ Kth(lines, 1, x) = Typed(x, l1) /\ Kth(lines, 2, x) = Typed(x, l2)
             /\ Kth(lines, 3, x) = Typed(x, l3) /\ Kth(lines, 4, x) = Typed(x, l4)
  BY <1>1 DEF Kth
<1>3. \A x : Kth(lines, 5, x) = x
  BY <1>1 DEF Kth
<1>4. TypedAll(r, lines) = Typed(Typed(Typed(Typed(r, l1), l2), l3), l4)
  BY <1>1, <1>2, <1>3, TypedInTurn
<1>. QED
  BY <1>4 DEF lines

LEMMA TypedFive ==
    ASSUME NEW r, NEW l1, NEW l2, NEW l3, NEW l4, NEW l5
    PROVE  TypedAll(r, <<l1, l2, l3, l4, l5>>) =
              Typed(Typed(Typed(Typed(Typed(r, l1), l2), l3), l4), l5)
<1>. DEFINE lines == <<l1, l2, l3, l4, l5>>
<1>1. /\ DOMAIN lines = 1..5
      /\ lines[1] = l1 /\ lines[2] = l2 /\ lines[3] = l3 /\ lines[4] = l4 /\ lines[5] = l5
  OBVIOUS
<1>. HIDE DEF lines
<1>2. \A x : /\ Kth(lines, 1, x) = Typed(x, l1) /\ Kth(lines, 2, x) = Typed(x, l2)
             /\ Kth(lines, 3, x) = Typed(x, l3) /\ Kth(lines, 4, x) = Typed(x, l4)
             /\ Kth(lines, 5, x) = Typed(x, l5)
  BY <1>1 DEF Kth
<1>4. TypedAll(r, lines) = Typed(Typed(Typed(Typed(Typed(r, l1), l2), l3), l4), l5)
  BY <1>1, <1>2, TypedInTurn
<1>. QED
  BY <1>4 DEF lines

\* A finite set of numbers has a greatest one.
LEMMA GreatestNumber ==
    ASSUME NEW T \in SUBSET Numbers, T # {}
    PROVE  Max(T) \in T /\ \A k \in T : k <= Max(T)
<1>. DEFINE Without(S) == \A m \in S : \E k \in S : ~(k <= m)
            Sizes == {c \in Nat : \E S \in SUBSET Numbers :
                                     S # {} /\ Cardinality(S) = c /\ Without(S)}
<1>1. Numbers \subseteq Nat /\ IsFiniteSet(Numbers)
  BY SwitchportsAssumption, RunningConfigAssumption
<1>2. Sizes = {}
  <2>. SUFFICES ASSUME Sizes # {} PROVE FALSE
    OBVIOUS
  <2>1. PICK c \in Sizes : \A d \in Sizes : ~(d < c)
    <3>1. Sizes \in SUBSET Nat
      OBVIOUS
    <3>2. PICK c \in Sizes : \A d \in Sizes : ~(<<d, c>> \in OpToRel(<, Nat))
      <4>. HIDE DEF Sizes
      <4>. QED
        BY <3>1, NatLessThanWellFounded, WFMin, Zenon
    <3>. QED
      BY <3>1, <3>2 DEF OpToRel
  <2>2. PICK S \in SUBSET Numbers : S # {} /\ Cardinality(S) = c /\ Without(S)
    OBVIOUS
  <2>3. PICK x \in S : TRUE
    BY <2>2
  <2>4. IsFiniteSet(S)
    BY <1>1, FS_Subset
  <2>5. /\ Cardinality(S \ {x}) = c - 1 /\ c \in Nat /\ c # 0
    BY <2>2, <2>4, FS_RemoveElement, FS_CardinalityType, FS_EmptySet
  <2>6. S \ {x} # {}
    <3>. SUFFICES ASSUME S = {x} PROVE FALSE
      BY <2>3
    <3>. QED
      BY <1>1, <2>2
  <2>7. ~Without(S \ {x})
    <3>1. c - 1 \in Nat /\ c - 1 < c
      BY <2>5
    <3>. QED
      BY <2>1, <2>5, <2>6, <3>1
  <2>8. PICK m \in S \ {x} : \A k \in S \ {x} : k <= m
    BY <2>7
  <2>9. m \in Nat /\ x \in Nat /\ S \subseteq Nat
    BY <1>1
  <2>10. CASE x <= m
    BY <2>2, <2>8, <2>10
  <2>11. CASE m < x
    BY <2>2, <2>8, <2>9, <2>11
  <2>. QED
    BY <2>9, <2>10, <2>11
<1>3. ~Without(T)
  <2>1. IsFiniteSet(T)
    BY <1>1, FS_Subset
  <2>2. Cardinality(T) \in Nat
    BY <2>1, FS_CardinalityType
  <2>. QED
    BY <1>2, <2>2
<1>4. PICK m \in T : \A k \in T : k <= m
  BY <1>3
<1>. QED
  BY <1>1, <1>4, MaxIs

\* Numbers in their order, as a list of names.
Ascending(V) == {pair \in V \X V : pair[1] <= pair[2]}

LEMMA AscendingList ==
    ASSUME NEW V \in SUBSET Numbers
    PROVE  /\ IsNameList(Ascending(V), V)
           /\ Names(Ascending(V)) = V
           /\ \A T \in SUBSET V : T # {} => LastOf(Ascending(V), T) = Max(T)
<1>1. V \subseteq Nat
  BY SwitchportsAssumption
<1>2. Names(Ascending(V)) = V
  <2>1. \A n \in V : <<n, n>> \in Ascending(V) /\ <<n, n>>[1] = n
    BY <1>1 DEF Ascending
  <2>2. V \subseteq Names(Ascending(V))
    BY <2>1, Zenon DEF Names
  <2>3. Names(Ascending(V)) \subseteq V
    BY DEF Ascending, Names
  <2>. QED
    BY <2>2, <2>3
<1>3. \A m, n \in V : <<m, n>> \in Ascending(V) <=> m <= n
  BY DEF Ascending
<1>4. ASSUME NEW S \in SUBSET V, S # {}
      PROVE  /\ \E n \in S : \A m \in S : n <= m
             /\ \E n \in S : \A m \in S : m <= n
  <2>1. PICK n \in S : \A m \in S : ~(<<m, n>> \in OpToRel(<, Nat))
    <3>1. S \in SUBSET Nat
      BY <1>1
    <3>. QED
      BY <1>4, <3>1, NatLessThanWellFounded, WFMin, Zenon
  <2>3. \A m \in S : ~(m < n)
    BY <1>1, <2>1 DEF OpToRel
  <2>2. \A m \in S : n <= m
    BY <1>1, <2>3
  <2>. QED
    BY <1>4, <2>2, GreatestNumber
<1>5. IsNameList(Ascending(V), V)
  <2>1. Ascending(V) \subseteq V \X V
    BY DEF Ascending
  <2>2. \A m, n \in V : <<m, n>> \in Ascending(V) /\ <<n, m>> \in Ascending(V) => m = n
    BY <1>1, <1>3
  <2>3. ASSUME NEW S \in SUBSET V, S # {}
        PROVE  /\ \E n \in S : \A m \in S : <<n, m>> \in Ascending(V)
               /\ \E n \in S : \A m \in S : <<m, n>> \in Ascending(V)
    BY <1>3, <1>4, <2>3
  <2>. QED
    BY <1>2, <2>1, <2>2, <2>3 DEF IsNameList
<1>6. ASSUME NEW T \in SUBSET V, T # {} PROVE LastOf(Ascending(V), T) = Max(T)
  <2>1. Max(T) \in T /\ \A k \in T : <<k, Max(T)>> \in Ascending(V)
    BY <1>3, <1>6, GreatestNumber
  <2>2. V \cap T = T /\ T # {}
    BY <1>6
  <2>3. \A n \in T : (\A m \in T : <<m, n>> \in Ascending(V)) => n = Max(T)
    BY <2>1, <1>5 DEF IsNameList
  <2>. QED
    BY <1>2, <2>1, <2>2, <2>3 DEF LastOf
<1>. QED
  BY <1>2, <1>5, <1>6

-----------------------------------------------------------------------------
(***************************************************************************)
(* What the lines of an interface leave a new one with.                    *)
(***************************************************************************)
Untouched == FALSE

Made(m, a, n, t, g) ==
    [mode |-> m, access |-> a, native |-> n, trunk |-> t, group |-> g, touched |-> Untouched]

Said(c, y) == [command |-> c, argument |-> y]

LEMMA ResetMade == ResetPort = Made(NoValue, NoValue, NoValue, NoValue, NoValue)
BY DEF ResetPort, Made, Untouched

LEMMA SaidTyped ==
    ASSUME NEW x, NEW c, NEW y
    PROVE  Typed(x, Said(c, y)) = Entered(x, c, y)
BY DEF Typed, Said

LEMMA NothingTyped ==
    ASSUME NEW x, NEW y
    PROVE  Typed(x, Said("nothing", y)) = x
<1>1. Entered(x, "nothing", y) = x
  BY DEF Entered
<1>. QED
  BY <1>1, SaidTyped

\* The commands, on an interface that was made so far.
LEMMA ModeTyped ==
    ASSUME NEW m, NEW a, NEW n, NEW t, NEW g, NEW y, vendor # "dell"
    PROVE  Typed(Made(m, a, n, t, g), Said("mode", y)) = Made(y, a, n, t, g)
<1>1. Entered(Made(m, a, n, t, g), "mode", y) = Made(y, a, n, t, g)
  BY DEF Entered, Made
<1>. QED
  BY <1>1, SaidTyped

LEMMA AccessTyped ==
    ASSUME NEW m, NEW a, NEW n, NEW t, NEW g, NEW y, Accepts(y)
    PROVE  Typed(Made(m, a, n, t, g), Said("access_vlan", y)) = Made(m, y, n, t, g)
<1>1. Entered(Made(m, a, n, t, g), "access_vlan", y) = Made(m, y, n, t, g)
  BY DEF Entered, Made
<1>. QED
  BY <1>1, SaidTyped

LEMMA NativeTyped ==
    ASSUME NEW m, NEW a, NEW n, NEW t, NEW g, NEW y, Accepts(y), vendor = "dell" => m = "general"
    PROVE  Typed(Made(m, a, n, t, g), Said("native_vlan", y)) = Made(m, a, y, t, g)
<1>1. Entered(Made(m, a, n, t, g), "native_vlan", y) = Made(m, a, y, t, g)
  BY DEF Entered, Made
<1>. QED
  BY <1>1, SaidTyped

LEMMA AllowedTyped ==
    ASSUME NEW m, NEW a, NEW n, NEW t, NEW g, NEW y, Parses(ListedIn(y))
    PROVE  Typed(Made(m, a, n, t, g), Said("allowed_vlan", y)) = Made(m, a, n, y, g)
<1>1. Entered(Made(m, a, n, t, g), "allowed_vlan", y) = Made(m, a, n, y, g)
  BY DEF Entered, Made
<1>. QED
  BY <1>1, SaidTyped

LEMMA AllowedAddTyped ==
    ASSUME NEW m, NEW a, NEW n, NEW g, NEW y, Parses(ListedIn(y)),
           \A k \in ListedIn(y) : HasVlan(k), vendor = "dell" => m \in {"trunk", "general"}
    PROVE  Typed(Made(m, a, n, NoValue, g), Said("allowed_vlan_add", y))
              = Made(m, a, n, Listed(ListedIn(y)), g)
<1>. DEFINE x == Made(m, a, n, NoValue, g)
<1>1. x.mode = m
  BY DEF Made
<1>2. Entered(x, "allowed_vlan_add", y) = WithMore(x, ListedIn(y))
  <2>. HIDE DEF x
  <2>. QED
    BY <1>1 DEF Entered
<1>3. Merged(NoneListed, ListedIn(y)) = Listed(ListedIn(y))
  BY DEF Merged, NoneListed, Listed
<1>4. WithMore(x, ListedIn(y)) = Made(m, a, n, Merged(NoneListed, ListedIn(y)), g)
  <2>1. ASSUME NEW z PROVE [x EXCEPT !.trunk = z] = Made(m, a, n, z, g)
    BY DEF Made
  <2>2. x.trunk = NoValue
    BY DEF Made
  <2>. HIDE DEF x
  <2>. QED
    BY <2>1, <2>2 DEF WithMore
<1>. QED
  BY <1>2, <1>3, <1>4, SaidTyped

LEMMA GroupTyped ==
    ASSUME NEW m, NEW a, NEW n, NEW t, NEW g, NEW y
    PROVE  Typed(Made(m, a, n, t, g), Said("channel_group", y)) = Made(m, a, n, t, y)
<1>1. Entered(Made(m, a, n, t, g), "channel_group", y) = Made(m, a, n, t, y)
  BY DEF Entered, Made
<1>. QED
  BY <1>1, SaidTyped

LEMMA CiscoReplayed ==
    ASSUME vendor = "cisco", NEW r, ~Lossy(r)
    PROVE  ReplayedAlone(r) = Made(r.mode, IF r.access = 1 THEN NoValue ELSE r.access,
                              r.native, r.trunk, r.group)
<1>. DEFINE a == IF r.access = 1 THEN NoValue ELSE r.access
            fits == r.trunk # NoValue /\ ListLength(r.trunk) < Cardinality(Numbers)
            l1 == Line(r.access \notin {NoValue, 1}, "access_vlan", r.access)
            l2 == NativeLine(r)
            l3 == Line(fits, "allowed_vlan", r.trunk)
            l4 == Line(r.mode # NoValue, "mode", r.mode)
            l5 == Line(r.group # NoValue, "channel_group", r.group)
<1>1. ReplayedAlone(r) = TypedAll(ResetPort, <<l1, l2, l3, l4, l5>>)
  BY DEF ReplayedAlone, Shown, CiscoShown
<1>2. fits <=> r.trunk # NoValue
  BY DEF Lossy, Hidden
<1>3. \A y : Accepts(y) /\ Parses(ListedIn(y))
  BY DEF Accepts, Parses
<1>. HIDE DEF fits
<1>4. /\ l1 = Said(IF r.access \notin {NoValue, 1} THEN "access_vlan" ELSE "nothing", r.access)
      /\ l2 = Said(IF r.native # NoValue THEN "native_vlan" ELSE "nothing", r.native)
      /\ l3 = Said(IF r.trunk # NoValue THEN "allowed_vlan" ELSE "nothing", r.trunk)
      /\ l4 = Said(IF r.mode # NoValue THEN "mode" ELSE "nothing", r.mode)
      /\ l5 = Said(IF r.group # NoValue THEN "channel_group" ELSE "nothing", r.group)
  BY <1>2 DEF NativeLine, Line, Said
<1>. HIDE DEF l1, l2, l3, l4, l5
<1>5. Typed(ResetPort, l1) = Made(NoValue, a, NoValue, NoValue, NoValue)
  BY <1>3, <1>4, ResetMade, AccessTyped, NothingTyped
<1>6. Typed(Made(NoValue, a, NoValue, NoValue, NoValue), l2)
         = Made(NoValue, a, r.native, NoValue, NoValue)
  BY <1>3, <1>4, NativeTyped, NothingTyped
<1>7. Typed(Made(NoValue, a, r.native, NoValue, NoValue), l3)
         = Made(NoValue, a, r.native, r.trunk, NoValue)
  BY <1>3, <1>4, AllowedTyped, NothingTyped
<1>8. Typed(Made(NoValue, a, r.native, r.trunk, NoValue), l4)
         = Made(r.mode, a, r.native, r.trunk, NoValue)
  BY <1>4, ModeTyped, NothingTyped
<1>9. Typed(Made(r.mode, a, r.native, r.trunk, NoValue), l5)
         = Made(r.mode, a, r.native, r.trunk, r.group)
  BY <1>4, GroupTyped, NothingTyped
<1>. QED
  BY <1>1, <1>5, <1>6, <1>7, <1>8, <1>9, TypedFive

LEMMA AristaReplayed ==
    ASSUME vendor = "arista", NEW r, ~Lossy(r)
    PROVE  ReplayedAlone(r) = Made(r.mode, NoValue, NoValue, r.trunk, NoValue)
<1>. DEFINE l1 == Line(r.trunk # NoValue, "allowed_vlan", r.trunk)
            l2 == Line(r.mode # NoValue, "mode", r.mode)
<1>1. ReplayedAlone(r) = TypedAll(ResetPort, <<l1, l2>>)
  BY DEF ReplayedAlone, Shown, AristaShown
<1>2. r.trunk # NoValue => Parses(ListedIn(r.trunk))
  BY DEF Lossy, Backwards
<1>3. /\ l1 = Said(IF r.trunk # NoValue THEN "allowed_vlan" ELSE "nothing", r.trunk)
      /\ l2 = Said(IF r.mode # NoValue THEN "mode" ELSE "nothing", r.mode)
  BY DEF Line, Said
<1>. HIDE DEF l1, l2
<1>4. Typed(ResetPort, l1) = Made(NoValue, NoValue, NoValue, r.trunk, NoValue)
  BY <1>2, <1>3, ResetMade, AllowedTyped, NothingTyped
<1>5. Typed(Made(NoValue, NoValue, NoValue, r.trunk, NoValue), l2)
         = Made(r.mode, NoValue, NoValue, r.trunk, NoValue)
  BY <1>3, ModeTyped, NothingTyped
<1>. QED
  BY <1>1, <1>4, <1>5, TypedTwo

\* The vlans that r names are listed, so none is refused.
LEMMA DellReplayed ==
    ASSUME vendor \in {"dell", "dell10g"}, NEW r, GoodPort(vendor, r), ~Lossy(r)
    PROVE  \E t : /\ ReplayedAlone(r) = Made(IF r.mode = "access" THEN NoValue ELSE r.mode,
                                        r.access, r.native, t, NoValue)
                  /\ Allowed(ReplayedAlone(r)) = Allowed(r)
                  /\ \A n \in Numbers : Lists(ReplayedAlone(r), n) <=> Lists(r, n)
<1>. DEFINE m == IF r.mode = "access" THEN NoValue ELSE r.mode
            whole == vendor = "dell10g" /\ r.mode # "general"
            command == IF whole THEN "allowed_vlan" ELSE "allowed_vlan_add"
            t == IF ~ListsSome(r) THEN NoValue
                 ELSE IF whole THEN r.trunk ELSE Listed(ListedIn(r.trunk))
            l1 == ModeLine(r)
            l2 == AccessLine(r)
            l3 == NativeLine(r)
            l4 == AllowedLine(r)
<1>1. ReplayedAlone(r) = TypedAll(ResetPort, <<l1, l2, l3, l4>>)
  BY DEF ReplayedAlone, Shown, DellShown
<1>2. /\ r \in Port /\ (vendor = "dell" => DellPort(r))
      /\ ~NamesRemoved(r) /\ ~NoneHidden(r) /\ ~Backwards(r)
  BY DEF GoodPort, Lossy
<1>3. /\ r.access # NoValue => Accepts(r.access)
      /\ r.native # NoValue => Accepts(r.native)
      /\ r.trunk # NoValue => \A n \in ListedIn(r.trunk) : HasVlan(n)
  BY <1>2 DEF NamesRemoved, ListedVlans, Accepts, Port, ListedIn, Lists
<1>4. r.trunk # NoValue => Parses(ListedIn(r.trunk))
  BY <1>2 DEF Backwards
<1>5. ListsSome(r) => r.trunk # NoValue /\ r.trunk \in [Numbers -> Nat]
  BY <1>2 DEF ListsSome, Port
<1>6. /\ l1 = Said(IF r.mode \notin {NoValue, "access"} THEN "mode" ELSE "nothing", r.mode)
      /\ l2 = Said(IF r.access # NoValue THEN "access_vlan" ELSE "nothing", r.access)
      /\ l3 = Said(IF r.native # NoValue THEN "native_vlan" ELSE "nothing", r.native)
      /\ l4 = Said(IF ListsSome(r) THEN command ELSE "nothing", r.trunk)
  BY DEF ModeLine, AccessLine, NativeLine, AllowedLine, Line, Said
<1>. HIDE DEF l1, l2, l3, l4
<1>7. Typed(ResetPort, l1) = Made(m, NoValue, NoValue, NoValue, NoValue)
  <2>1. CASE r.mode \in {NoValue, "access"}
    BY <1>6, <2>1, ResetMade, NothingTyped
  <2>2. CASE r.mode \notin {NoValue, "access"} /\ vendor = "dell"
    <3>1. Typed(ResetPort, l1) = Entered(ResetPort, "mode", r.mode)
      BY <1>6, <2>2, SaidTyped
    <3>2. Entered(ResetPort, "mode", r.mode) = WithMode(ResetPort, r.mode)
      BY <2>2 DEF Entered
    <3>3. WithMode(ResetPort, r.mode) = Made(r.mode, NoValue, NoValue, NoValue, NoValue)
      BY <2>2 DEF WithMode, ResetPort, Made, Untouched
    <3>. QED
      BY <2>2, <3>1, <3>2, <3>3
  <2>3. CASE r.mode \notin {NoValue, "access"} /\ vendor # "dell"
    BY <1>6, <2>3, ResetMade, ModeTyped
  <2>. QED
    BY <2>1, <2>2, <2>3
<1>8. Typed(Made(m, NoValue, NoValue, NoValue, NoValue), l2)
         = Made(m, r.access, NoValue, NoValue, NoValue)
  BY <1>3, <1>6, AccessTyped, NothingTyped
<1>9. Typed(Made(m, r.access, NoValue, NoValue, NoValue), l3)
         = Made(m, r.access, r.native, NoValue, NoValue)
  <2>1. r.native # NoValue => (vendor = "dell" => m = "general")
    BY <1>2 DEF DellPort
  <2>. HIDE DEF m
  <2>. QED
    BY <1>3, <1>6, <2>1, NativeTyped, NothingTyped
<1>10. Typed(Made(m, r.access, r.native, NoValue, NoValue), l4)
         = Made(m, r.access, r.native, t, NoValue)
  <2>1. CASE ~ListsSome(r)
    BY <1>6, <2>1, NothingTyped
  <2>2. CASE ListsSome(r) /\ whole
    BY <1>4, <1>5, <1>6, <2>2, AllowedTyped
  <2>3. CASE ListsSome(r) /\ ~whole
    <3>1. vendor = "dell" => m \in {"trunk", "general"}
      BY <1>2, <1>5, <2>3 DEF DellPort
    <3>2. l4 = Said("allowed_vlan_add", r.trunk) /\ t = Listed(ListedIn(r.trunk))
      BY <1>6, <2>3
    <3>. HIDE DEF m, t
    <3>. QED
      BY <1>3, <1>4, <1>5, <2>3, <3>1, <3>2, AllowedAddTyped
  <2>. QED
    BY <2>1, <2>2, <2>3
<1>. HIDE DEF m, t
<1>11. ReplayedAlone(r) = Made(m, r.access, r.native, t, NoValue)
  BY <1>1, <1>7, <1>8, <1>9, <1>10, TypedFour
<1>12. ListsSome(r) => t # NoValue /\ ListedIn(t) = ListedIn(r.trunk)
  <2>1. \A S \in SUBSET Numbers : Listed(S) \in [Numbers -> Nat] /\ ListedIn(Listed(S)) = S
    BY DEF Listed, ListedIn
  <2>2. ListedIn(r.trunk) \in SUBSET Numbers
    BY DEF ListedIn
  <2>. QED
    BY <1>5, <2>1, <2>2, NoValueIsNew DEF t
<1>13. ~ListsSome(r) => /\ t = NoValue
                        /\ r.trunk = NoValue \/ (vendor = "dell" /\ ListedIn(r.trunk) = {})
  <2>1. ListedIn(NoneListed) = {}
    BY DEF ListedIn, NoneListed, Listed
  <2>. QED
    BY <1>2, <2>1 DEF t, ListsSome, NoneHidden
<1>14. \A x : \A k \in Numbers : Lists(x, k) <=> x.trunk # NoValue /\ k \in ListedIn(x.trunk)
  BY DEF Lists, ListedIn
<1>15. ReplayedAlone(r).trunk = t
  BY <1>11 DEF Made
<1>16. Allowed(ReplayedAlone(r)) = Allowed(r)
  BY <1>5, <1>12, <1>13, <1>15 DEF Allowed
<1>17. \A n \in Numbers : Lists(ReplayedAlone(r), n) <=> Lists(r, n)
  BY <1>5, <1>12, <1>13, <1>14, <1>15
<1>. QED
  BY <1>11, <1>16, <1>17 DEF m

-----------------------------------------------------------------------------
(***************************************************************************)
(* Brocade.  The vlans W were gone through, and V are those of them that   *)
(* the interface is tagged in; u is the one that it is untagged in.        *)
(***************************************************************************)
Along(u, W, V) ==
    IF V = {}
    THEN Made(NoValue, IF u \in W \ {1} THEN u ELSE NoValue, NoValue, NoValue, NoValue)
    ELSE Made(NoValue, NoValue, IF u \in W THEN u ELSE 1, Listed(V), NoValue)

LEMMA TaggedTyped ==
    ASSUME NEW x, NEW n
    PROVE  Typed(x, Said("tagged", n)) = WithTagged(x, n)
<1>1. Entered(x, "tagged", n) = WithTagged(x, n)
  BY DEF Entered, TypedOnBrocade
<1>. QED
  BY <1>1, SaidTyped

LEMMA UntaggedTyped ==
    ASSUME NEW x, NEW n
    PROVE  Typed(x, Said("untagged", n)) = IF x.trunk = NoValue THEN [x EXCEPT !.access = n]
                                                               ELSE [x EXCEPT !.native = n]
<1>1. Entered(x, "untagged", n) = IF x.trunk = NoValue THEN [x EXCEPT !.access = n]
                                                      ELSE [x EXCEPT !.native = n]
  BY DEF Entered, TypedOnBrocade
<1>. QED
  BY <1>1, SaidTyped

LEMMA NoUntaggedTyped ==
    ASSUME NEW x, NEW n, n \notin {x.access, x.native}
    PROVE  Typed(x, Said("no_untagged", n)) = x
<1>1. Entered(x, "no_untagged", n) = x
  BY DEF Entered, TypedOnBrocade
<1>. QED
  BY <1>1, SaidTyped

LEMMA MergedListed ==
    ASSUME NEW V, NEW n
    PROVE  Merged(Listed(V), {n}) = Listed(V \cup {n})
BY DEF Merged, Listed

LEMMA ListedIsNew == ASSUME NEW V PROVE Listed(V) # NoValue
<1>1. Listed(V) \in [Numbers -> Nat]
  BY DEF Listed
<1>. QED
  BY <1>1, NoValueIsNew

LEMMA MadeFields ==
    ASSUME NEW m, NEW a, NEW n, NEW t, NEW g
    PROVE  LET x == Made(m, a, n, t, g)
           IN  /\ x.mode = m /\ x.access = a /\ x.native = n /\ x.trunk = t /\ x.group = g
               /\ \A z : [x EXCEPT !.access = z] = Made(m, z, n, t, g)
               /\ \A z : [x EXCEPT !.native = z] = Made(m, a, z, t, g)
               /\ \A z : [x EXCEPT !.trunk = z] = Made(m, a, n, z, g)
<1>. DEFINE x == Made(m, a, n, t, g)
<1>1. x.mode = m /\ x.access = a /\ x.native = n /\ x.trunk = t /\ x.group = g
  BY DEF Made
<1>2. ASSUME NEW z PROVE /\ [x EXCEPT !.access = z] = Made(m, z, n, t, g)
                         /\ [x EXCEPT !.native = z] = Made(m, a, z, t, g)
                         /\ [x EXCEPT !.trunk = z] = Made(m, a, n, z, g)
  BY DEF Made
<1>. HIDE DEF x
<1>3. /\ x.mode = m /\ x.access = a /\ x.native = n /\ x.trunk = t /\ x.group = g
      /\ \A z : [x EXCEPT !.access = z] = Made(m, z, n, t, g)
      /\ \A z : [x EXCEPT !.native = z] = Made(m, a, z, t, g)
      /\ \A z : [x EXCEPT !.trunk = z] = Made(m, a, n, z, g)
  BY <1>1, <1>2
<1>. QED
  BY <1>3 DEF x

LEMMA MadeTrunk ==
    ASSUME NEW m, NEW a, NEW n, NEW g
    PROVE  AsTrunk(Made(m, a, n, NoValue, g))
              = Made(m, NoValue, IF a = NoValue THEN 1 ELSE a, NoneListed, g)
<1>. DEFINE x == AsTrunk(Made(m, a, n, NoValue, g))
            q == IF a = NoValue THEN 1 ELSE a
<1>1. x = [k \in {"mode", "access", "native", "trunk", "group", "touched"} |-> x[k]]
  BY DEF AsTrunk, Made
<1>2. /\ x.mode = m /\ x.access = NoValue /\ x.trunk = NoneListed
      /\ x.group = g /\ x.touched = Untouched
  BY DEF AsTrunk, Made
<1>3. x.native = q
  BY DEF AsTrunk, Made
<1>. HIDE DEF x, q
<1>4. x = Made(m, NoValue, q, NoneListed, g)
  BY <1>1, <1>2, <1>3 DEF Made
<1>. QED
  BY <1>4 DEF x, q

LEMMA UntaggedStep ==
    ASSUME NEW u, NEW V, NEW W, NEW n \in Numbers, n \notin W,
           n = 1 => W = {} /\ V = {}
    PROVE  Typed(Along(u, W, V), Line(n = u \/ (n = 1 /\ u = NoValue),
                                      IF n = 1 THEN "no_untagged" ELSE "untagged", n))
              = Along(u, W \cup {n}, V)
<1>. DEFINE l == Line(n = u \/ (n = 1 /\ u = NoValue),
                      IF n = 1 THEN "no_untagged" ELSE "untagged", n)
            x == Along(u, W, V)
<1>1. n # NoValue
  BY NoValueIsNew
<1>2. CASE n = 1
  <2>1. l = Said("no_untagged", n) \/ l = Said("nothing", n)
    BY <1>2 DEF Line, Said
  <2>2. x = Made(NoValue, NoValue, NoValue, NoValue, NoValue)
    BY <1>2 DEF Along
  <2>3. Along(u, W \cup {n}, V) = Made(NoValue, NoValue, NoValue, NoValue, NoValue)
    BY <1>2 DEF Along
  <2>4. x.access = NoValue /\ x.native = NoValue
    BY <2>2, MadeFields
  <2>. HIDE DEF l, x
  <2>5. Typed(x, l) = x
    BY <1>1, <2>1, <2>4, NoUntaggedTyped, NothingTyped
  <2>. QED
    BY <2>2, <2>3, <2>5 DEF l, x
<1>3. CASE n # 1 /\ n # u
  <2>1. l = Said("nothing", n)
    BY <1>3 DEF Line, Said
  <2>2. Along(u, W \cup {n}, V) = Along(u, W, V)
    BY <1>3 DEF Along
  <2>. HIDE DEF l
  <2>. QED
    BY <2>1, <2>2, NothingTyped DEF l
<1>4. CASE n # 1 /\ n = u
  <2>1. l = Said("untagged", n)
    BY <1>4 DEF Line, Said
  <2>2. CASE V = {}
    <3>1. x = Made(NoValue, NoValue, NoValue, NoValue, NoValue)
      BY <1>4, <2>2 DEF Along
    <3>2. Along(u, W \cup {n}, V) = Made(NoValue, n, NoValue, NoValue, NoValue)
      BY <1>4, <2>2 DEF Along
    <3>3. x.trunk = NoValue /\ [x EXCEPT !.access = n] = Made(NoValue, n, NoValue, NoValue, NoValue)
      BY <3>1, MadeFields
    <3>. HIDE DEF l, x
    <3>. QED
      BY <2>1, <3>2, <3>3, UntaggedTyped DEF l, x
  <2>3. CASE V # {}
    <3>1. x = Made(NoValue, NoValue, 1, Listed(V), NoValue)
      BY <1>4, <2>3 DEF Along
    <3>2. Along(u, W \cup {n}, V) = Made(NoValue, NoValue, n, Listed(V), NoValue)
      BY <1>4, <2>3 DEF Along
    <3>3. x.trunk # NoValue /\ [x EXCEPT !.native = n] = Made(NoValue, NoValue, n, Listed(V), NoValue)
      BY <3>1, MadeFields, ListedIsNew
    <3>. HIDE DEF l, x
    <3>. QED
      BY <2>1, <3>2, <3>3, UntaggedTyped DEF l, x
  <2>. QED
    BY <2>2, <2>3
<1>. QED
  BY <1>2, <1>3, <1>4

LEMMA TaggedStep ==
    ASSUME NEW u, u # NoValue, NEW V, NEW W, NEW n
    PROVE  WithTagged(Along(u, W, V), n) = Along(u, W, V \cup {n})
<1>. DEFINE x == Along(u, W, V)
            native == IF u \in W THEN u ELSE 1
<1>1. AsTrunk(x) = Made(NoValue, NoValue, native, Listed(V), NoValue)
  <2>1. CASE V = {}
    <3>. DEFINE a == IF u \in W \ {1} THEN u ELSE NoValue
    <3>1. x = Made(NoValue, a, NoValue, NoValue, NoValue)
      BY <2>1 DEF Along
    <3>2. native = IF a = NoValue THEN 1 ELSE a
      OBVIOUS
    <3>. HIDE DEF x, a, native
    <3>. QED
      BY <2>1, <3>1, <3>2, MadeTrunk DEF NoneListed
  <2>2. CASE V # {}
    <3>1. x = Made(NoValue, NoValue, native, Listed(V), NoValue)
      BY <2>2 DEF Along
    <3>. HIDE DEF x, native
    <3>2. x.trunk # NoValue
      BY <3>1, MadeFields, ListedIsNew
    <3>. QED
      BY <3>1, <3>2 DEF AsTrunk
  <2>. QED
    BY <2>1, <2>2
<1>2. Along(u, W, V \cup {n}) = Made(NoValue, NoValue, native, Listed(V \cup {n}), NoValue)
  BY DEF Along
<1>. HIDE DEF x, native
<1>3. WithTagged(x, n) = [AsTrunk(x) EXCEPT !.trunk = Merged(AsTrunk(x).trunk, {n})]
  BY DEF WithTagged
<1>. DEFINE y == AsTrunk(x)
<1>. HIDE DEF y
<1>4. y.trunk = Listed(V) /\ \A z : [y EXCEPT !.trunk = z] = Made(NoValue, NoValue, native, z, NoValue)
  BY <1>1, MadeFields DEF y
<1>5. WithTagged(x, n) = Made(NoValue, NoValue, native, Merged(Listed(V), {n}), NoValue)
  BY <1>3, <1>4 DEF y
<1>. QED
  BY <1>2, <1>5, MergedListed DEF x

\* A port that is alone in its lines is typed as its own record says.
LEMMA LineOfOne ==
    ASSUME vendor = "brocade", NEW o \in Names(ports), o.kind # "ve", ~SharesLine(o),
           NEW n \in ListedVlans
    PROVE  /\ n # 1 => (UntaggedIn(port[o], n) <=> UntaggedMembers(n) = {o})
           /\ Lists(port[o], n) <=> TaggedMembers(n) = {o}
<1>1. /\ o \in UntaggedMembers(n) <=> UntaggedIn(port[o], n)
      /\ o \in TaggedMembers(n) <=> Lists(port[o], n)
  BY DEF UntaggedMembers, TaggedMembers
<1>2. /\ n # 1 /\ o \in UntaggedMembers(n) => UntaggedMembers(n) = {o}
      /\ o \in TaggedMembers(n) => TaggedMembers(n) = {o}
  BY DEF SharesLine
<1>. QED
  BY <1>1, <1>2

LEMMA LinesOfVlan ==
    ASSUME vendor = "brocade", NEW o \in Names(ports), o.kind # "ve", ~SharesLine(o),
           NEW n \in ListedVlans, NEW x
    PROVE  VlanTyped(o, x, n)
              = Typed(Typed(x, Line(UntaggedMembers(n) = {o},
                                    IF n = 1 THEN "no_untagged" ELSE "untagged", n)),
                      Line(Lists(port[o], n), "tagged", n))
<1>. DEFINE l1 == Line(UntaggedMembers(n) = {o}, IF n = 1 THEN "no_untagged" ELSE "untagged", n)
            l2 == Line(TaggedMembers(n) = {o}, "tagged", n)
<1>1. ForPort(o, ShownInVlan(n)[1]) = l1 /\ ForPort(o, ShownInVlan(n)[2]) = l2
  BY DEF ForPort, ShownInVlan, MembersLine
<1>2. l2 = Line(Lists(port[o], n), "tagged", n)
  BY LineOfOne DEF Line
<1>. HIDE DEF l1, l2
<1>3. VlanTyped(o, x, n) = TypedAll(x, <<l1, l2>>)
  BY <1>1 DEF VlanTyped
<1>4. TypedAll(x, <<l1, l2>>) = Typed(Typed(x, l1), l2)
  BY TypedTwo
<1>. QED
  BY <1>2, <1>3, <1>4 DEF l1

LEMMA BrocadeReplayed ==
    ASSUME vendor = "brocade", NEW o \in Names(ports), o.kind # "ve",
           GoodPort(vendor, port[o]), ~Lossy(port[o]), ~SharesLine(o)
    PROVE  LET r == port[o]
               u == IF r.trunk = NoValue THEN r.access ELSE r.native
           IN  Replayed(o) = Along(u, ListedVlans, {n \in ListedVlans : Lists(r, n)})
<1>. DEFINE r == port[o]
            L == ListedVlans
            S == {n \in L : Lists(r, n)}
            u == IF r.trunk = NoValue THEN r.access ELSE r.native
            Op(n, x) == VlanTyped(o, x, n)
            Is(f) == f = [T \in SUBSET L |-> IF T = {} THEN ResetPort
                                             ELSE Op(Max(T), f[T \ {Max(T)}])]
            H == CHOOSE f : Is(f)
            F == [T \in SUBSET L |-> Along(u, T, S \cap T)]
<1>1. Replayed(o) = H[L]
  BY DEF Replayed, MapThenFoldSet
<1>2. /\ r \in Port /\ BrocadePort(r)
      /\ ~NativeLeft(r) /\ ~NativeMissing(r)
  BY DEF GoodPort, Lossy
<1>3. L \subseteq Numbers /\ L \in SUBSET Numbers
  BY DEF ListedVlans
<1>4. r.trunk # NoValue => u # NoValue
  BY <1>2 DEF NativeMissing
<1>5. \A n \in Numbers : UntaggedIn(r, n) <=> n = u \/ (n = 1 /\ u = NoValue)
  BY <1>2, NoValueIsNew DEF UntaggedIn, NativeLeft, NativeMissing, BrocadePort
<1>6. \A n : Lists(r, n) => r.trunk # NoValue
  BY DEF Lists
<1>. HIDE DEF u
<1>7. ASSUME NEW n \in L, NEW W \in SUBSET L, n \notin W, n = 1 => W = {}
      PROVE  Op(n, Along(u, W, S \cap W)) = Along(u, W \cup {n}, S \cap (W \cup {n}))
  <2>. DEFINE V == S \cap W
              l1 == Line(UntaggedMembers(n) = {o}, IF n = 1 THEN "no_untagged" ELSE "untagged", n)
              l2 == Line(Lists(r, n), "tagged", n)
  <2>1. Op(n, Along(u, W, V)) = Typed(Typed(Along(u, W, V), l1), l2)
    BY <1>7, LinesOfVlan
  <2>2. n \in Numbers
    BY <1>3
  <2>3. n = 1 => V = {}
    BY <1>7
  <2>4. ASSUME n # 1 \/ UntaggedMembers(n) = {o}
        PROVE  l1 = Line(n = u \/ (n = 1 /\ u = NoValue),
                         IF n = 1 THEN "no_untagged" ELSE "untagged", n)
    <3>1. n # 1 => (UntaggedIn(r, n) <=> UntaggedMembers(n) = {o})
      BY <1>7, LineOfOne
    <3>2. UntaggedMembers(n) = {o} => UntaggedIn(r, n)
      BY DEF UntaggedMembers
    <3>. QED
      BY <1>5, <2>2, <2>4, <3>1, <3>2 DEF Line
  <2>5. Typed(Along(u, W, V), l1) = Along(u, W \cup {n}, V)
    <3>1. CASE n # 1 \/ UntaggedMembers(n) = {o}
      <4>1. l1 = Line(n = u \/ (n = 1 /\ u = NoValue),
                      IF n = 1 THEN "no_untagged" ELSE "untagged", n)
        BY <2>4, <3>1
      <4>. HIDE DEF V, l1
      <4>. QED
        BY <1>7, <2>2, <2>3, <4>1, UntaggedStep
    <3>2. CASE n = 1 /\ UntaggedMembers(n) # {o}
      <4>1. l1 = Said("nothing", n)
        BY <3>2 DEF Line, Said
      <4>2. Along(u, W, V) = Along(u, W \cup {n}, V)
        <5>1. W = {} /\ V = {}
          BY <1>7, <2>3, <3>2
        <5>2. (IF u \in {} \ {1} THEN u ELSE NoValue) = (IF u \in {1} \ {1} THEN u ELSE NoValue)
          OBVIOUS
        <5>. HIDE DEF V
        <5>. QED
          BY <3>2, <5>1, <5>2 DEF Along
      <4>. HIDE DEF V, l1
      <4>. QED
        BY <4>1, <4>2, NothingTyped
    <3>. QED
      BY <3>1, <3>2
  <2>6. Typed(Along(u, W \cup {n}, V), l2) = Along(u, W \cup {n}, S \cap (W \cup {n}))
    <3>1. CASE Lists(r, n)
      <4>1. l2 = Said("tagged", n)
        BY <3>1 DEF Line, Said
      <4>2. S \cap (W \cup {n}) = V \cup {n}
        BY <3>1
      <4>. HIDE DEF V, l2, S
      <4>. QED
        BY <1>4, <1>6, <3>1, <4>1, <4>2, TaggedTyped, TaggedStep
    <3>2. CASE ~Lists(r, n)
      <4>1. l2 = Said("nothing", n)
        BY <3>2 DEF Line, Said
      <4>2. S \cap (W \cup {n}) = V
        BY <3>2
      <4>. HIDE DEF V, l2, S
      <4>. QED
        BY <4>1, <4>2, NothingTyped
    <3>. QED
      BY <3>1, <3>2
  <2>. HIDE DEF S, l1, l2, Op
  <2>. QED
    BY <2>1, <2>5, <2>6
<1>8. ASSUME NEW T \in SUBSET L, T # {}
      PROVE  /\ Max(T) \in T /\ T \ {Max(T)} \in SUBSET L
             /\ Op(Max(T), F[T \ {Max(T)}]) = F[T]
  <2>1. T \in SUBSET Numbers
    BY <1>3
  <2>2. Max(T) \in T /\ \A k \in T : k <= Max(T)
    BY <1>8, <2>1, GreatestNumber
  <2>. DEFINE W == T \ {Max(T)}
  <2>3. W \in SUBSET L /\ Max(T) \in L /\ Max(T) \notin W /\ W \cup {Max(T)} = T
    BY <2>2
  <2>4. Max(T) = 1 => W = {}
    <3>1. \A k \in T : k \in Nat /\ k # 0
      BY <2>1, SwitchportsAssumption
    <3>. QED
      BY <2>2, <3>1
  <2>5. F[W] = Along(u, W, S \cap W) /\ F[T] = Along(u, T, S \cap T)
    BY <2>3
  <2>. HIDE DEF W, S, F, Op
  <2>6. Op(Max(T), Along(u, W, S \cap W)) = Along(u, T, S \cap T)
    BY <1>7, <2>3, <2>4
  <2>. QED
    BY <2>2, <2>3, <2>5, <2>6 DEF W
<1>9. F[{}] = ResetPort
  <2>1. Along(u, {}, {}) = Made(NoValue, NoValue, NoValue, NoValue, NoValue)
    BY DEF Along
  <2>2. {} \in SUBSET L /\ S \cap {} = {}
    OBVIOUS
  <2>. HIDE DEF S
  <2>. QED
    BY <2>1, <2>2, ResetMade
<1>10. Is(F)
  <2>1. F = [T \in SUBSET L |-> F[T]]
    OBVIOUS
  <2>. HIDE DEF F, Op, L
  <2>2. \A T \in SUBSET L : F[T] = IF T = {} THEN ResetPort ELSE Op(Max(T), F[T \ {Max(T)}])
    BY <1>8, <1>9
  <2>. QED
    BY <2>1, <2>2
<1>11. Is(H)
  <2>. HIDE DEF Is
  <2>. QED
    BY <1>10
<1>. DEFINE l == Ascending(L)
<1>12. IsNameList(l, L) /\ Names(l) = L /\ \A T \in SUBSET L : T # {} => LastOf(l, T) = Max(T)
  BY <1>3, AscendingList
<1>. HIDE DEF H, F, Op, L, S
<1>13. H[{}] = F[{}]
  BY <1>9, <1>11
<1>14. ASSUME NEW T \in SUBSET L, T # {}, H[T \ {Max(T)}] = F[T \ {Max(T)}]
       PROVE  H[T] = F[T]
  BY <1>8, <1>11, <1>14
<1>. HIDE DEF Is
<1>15. H[L] = F[L]
  <2>. HIDE DEF l
  <2>1. \A T \in SUBSET Names(l) :
           T # {} /\ H[T \ {LastOf(l, T)}] = F[T \ {LastOf(l, T)}] => H[T] = F[T]
    BY <1>12, <1>14
  <2>. QED
    BY <1>12, <1>13, <2>1, LoopsAgree
<1>16. F[L] = Along(u, L, S)
  BY DEF F, S
<1>. QED
  BY <1>1, <1>15, <1>16 DEF u, L, S

-----------------------------------------------------------------------------
(***************************************************************************)
(* What is shown stands for what was configured.                           *)
(***************************************************************************)
\* The interface as the vlans of a Brocade switch show it.
LEMMA BrocadeUntagged ==
    ASSUME vendor = "brocade", NEW r, GoodPort(vendor, r), ~Lossy(r)
    PROVE  LET u == IF r.trunk = NoValue THEN r.access ELSE r.native
           IN  /\ r.mode = NoValue
               /\ u \in ListedVlans \cup {NoValue}
               /\ r.trunk = NoValue => r.native = NoValue
               /\ r.trunk # NoValue => /\ r.trunk \in [Numbers -> Nat]
                                       /\ r.access = NoValue /\ r.native # NoValue
                                       /\ ListedIn(r.trunk) # {}
               /\ {n \in ListedVlans : Lists(r, n)}
                     = IF r.trunk = NoValue THEN {} ELSE ListedIn(r.trunk)
<1>1. /\ r \in Port /\ BrocadePort(r)
      /\ ~NativeLeft(r) /\ ~NativeMissing(r) /\ ~NamesRemoved(r)
  BY DEF GoodPort, Lossy
<1>2. r.trunk = NoValue => r.native = NoValue
  BY <1>1 DEF NativeLeft
<1>3. r.trunk # NoValue => /\ r.trunk \in [Numbers -> Nat]
                           /\ r.access = NoValue /\ r.native # NoValue
                           /\ r.trunk # NoneListed
  BY <1>1 DEF NativeMissing, BrocadePort, Port
<1>4. ASSUME r.trunk # NoValue PROVE ListedIn(r.trunk) # {}
  <2>. SUFFICES ASSUME ListedIn(r.trunk) = {} PROVE FALSE
    OBVIOUS
  <2>1. \A n \in Numbers : r.trunk[n] = 0
    BY <1>3, <1>4 DEF ListedIn
  <2>2. r.trunk = NoneListed
    BY <1>3, <1>4, <2>1 DEF NoneListed, Listed
  <2>. QED
    BY <1>3, <1>4, <2>2
<1>5. \A n \in Numbers : n \in {r.access, r.native} \/ Lists(r, n) => n \in ListedVlans
  BY <1>1 DEF NamesRemoved
<1>6. r.access \in Numbers \cup {NoValue} /\ r.native \in Numbers \cup {NoValue}
  BY <1>1 DEF Port
<1>7. {n \in ListedVlans : Lists(r, n)} = IF r.trunk = NoValue THEN {} ELSE ListedIn(r.trunk)
  BY <1>5 DEF Lists, ListedIn, ListedVlans
<1>. QED
  BY <1>1, <1>2, <1>3, <1>4, <1>5, <1>6, <1>7 DEF BrocadePort

LEMMA ListedAgain == ASSUME NEW S \in SUBSET Numbers PROVE ListedIn(Listed(S)) = S
BY DEF ListedIn, Listed

LEMMA SameOnBrocade ==
    ASSUME vendor = "brocade", NEW o \in Names(ports), o.kind # "ve",
           GoodPort(vendor, port[o]), ~Lossy(port[o]), ~SharesLine(o)
    PROVE  SameSwitchport(Replayed(o), port[o])
<1>. DEFINE r == port[o]
            u == IF r.trunk = NoValue THEN r.access ELSE r.native
            S == {n \in ListedVlans : Lists(r, n)}
            x == Replayed(o)
<1>1. x = Along(u, ListedVlans, S)
  BY BrocadeReplayed
<1>2. ListedVlans \subseteq Numbers /\ 1 # NoValue
  BY SwitchportsAssumption, NoValueIsNew DEF ListedVlans
<1>3. CASE r.trunk = NoValue
  <2>. DEFINE a == IF u \in ListedVlans \ {1} THEN u ELSE NoValue
  <2>1. S = {}
    BY <1>3, BrocadeUntagged
  <2>2. x = Made(NoValue, a, NoValue, NoValue, NoValue)
    BY <1>1, <2>1 DEF Along
  <2>3. u = r.access /\ u \in ListedVlans \cup {NoValue} /\ r.native = NoValue /\ r.mode = NoValue
    BY <1>3, BrocadeUntagged
  <2>4. (IF a = NoValue THEN 1 ELSE a) = Untagging(r)
    BY <1>2, <2>3 DEF Untagging
  <2>. HIDE DEF x, a
  <2>5. x.access = a /\ x.mode = NoValue /\ x.native = NoValue /\ x.trunk = NoValue
    BY <2>2, MadeFields
  <2>6. Untagging(x) = Untagging(r) /\ ModeOf(x) = ModeOf(r) /\ Allowed(x) = Allowed(r)
    BY <1>3, <2>3, <2>4, <2>5 DEF Untagging, ModeOf, Allowed
  <2>. QED
    BY <2>3, <2>5, <2>6 DEF SameSwitchport, x
<1>4. CASE r.trunk # NoValue
  <2>1. S = ListedIn(r.trunk) /\ S # {} /\ S \subseteq Numbers
    BY <1>2, <1>4, BrocadeUntagged
  <2>2. u = r.native /\ u \in ListedVlans /\ r.access = NoValue /\ r.mode = NoValue
    BY <1>4, BrocadeUntagged
  <2>. HIDE DEF S, u
  <2>3. x = Made(NoValue, NoValue, u, Listed(S), NoValue)
    BY <1>1, <2>1, <2>2 DEF Along
  <2>. HIDE DEF x
  <2>4. x.access = NoValue /\ x.mode = NoValue /\ x.native = u /\ x.trunk = Listed(S)
    BY <2>3, MadeFields
  <2>5. Allowed(x) = Allowed(r)
    BY <1>4, <2>1, <2>4, ListedIsNew, ListedAgain DEF Allowed
  <2>6. Untagging(x) = Untagging(r) /\ ModeOf(x) = ModeOf(r)
    BY <2>2, <2>4 DEF Untagging, ModeOf
  <2>. QED
    BY <2>2, <2>4, <2>5, <2>6 DEF SameSwitchport, x
<1>. QED
  BY <1>3, <1>4

LEMMA SameOnCisco ==
    ASSUME vendor = "cisco", NEW r, ~Lossy(r)
    PROVE  SameSwitchport(ReplayedAlone(r), r)
<1>. DEFINE x == ReplayedAlone(r)
            a == IF r.access = 1 THEN NoValue ELSE r.access
<1>1. x = Made(r.mode, a, r.native, r.trunk, r.group)
  BY CiscoReplayed
<1>. HIDE DEF x, a
<1>2. /\ x.mode = r.mode /\ x.access = a /\ x.native = r.native
      /\ x.trunk = r.trunk /\ x.group = r.group
  BY <1>1, MadeFields
<1>3. Untagging(x) = Untagging(r)
  BY <1>2 DEF Untagging, a
<1>4. Allowed(x) = Allowed(r) /\ ModeOf(x) = ModeOf(r)
  BY <1>2 DEF Allowed, ModeOf
<1>. QED
  BY <1>2, <1>3, <1>4 DEF SameSwitchport, x

LEMMA SameOnArista ==
    ASSUME vendor = "arista", NEW r, GoodPort(vendor, r), ~Lossy(r)
    PROVE  SameSwitchport(ReplayedAlone(r), r)
<1>. DEFINE x == ReplayedAlone(r)
<1>1. x = Made(r.mode, NoValue, NoValue, r.trunk, NoValue)
  BY AristaReplayed
<1>. HIDE DEF x
<1>2. x.mode = r.mode /\ x.access = NoValue /\ x.native = NoValue /\ x.trunk = r.trunk
  BY <1>1, MadeFields
<1>3. r.access = NoValue /\ r.native = NoValue
  BY DEF GoodPort, AristaPort
<1>4. Untagging(x) = Untagging(r) /\ Allowed(x) = Allowed(r) /\ ModeOf(x) = ModeOf(r)
  BY <1>2, <1>3 DEF Untagging, Allowed, ModeOf
<1>. QED
  BY <1>2, <1>3, <1>4 DEF SameSwitchport, x

LEMMA SameOnDell ==
    ASSUME vendor \in {"dell", "dell10g"}, NEW r, GoodPort(vendor, r), ~Lossy(r)
    PROVE  SameSwitchport(ReplayedAlone(r), r)
<1>. DEFINE x == ReplayedAlone(r)
            m == IF r.mode = "access" THEN NoValue ELSE r.mode
<1>1. PICK t : x = Made(m, r.access, r.native, t, NoValue) /\ Allowed(x) = Allowed(r)
  BY DellReplayed
<1>. HIDE DEF x, m
<1>2. x.mode = m /\ x.access = r.access /\ x.native = r.native
  BY <1>1, MadeFields
<1>3. Untagging(x) = Untagging(r)
  BY <1>2 DEF Untagging
<1>4. ModeOf(x) = ModeOf(r)
  BY <1>2, NoValueIsNew DEF ModeOf, m
<1>. QED
  BY <1>1, <1>2, <1>3, <1>4 DEF SameSwitchport, x

LEMMA SwitchedGood ==
    ASSUME Inv, NEW o \in Switched
    PROVE  /\ GoodPort(vendor, port[o]) /\ ~Lossy(port[o])
           /\ vendor \in {"cisco", "dell", "dell10g", "arista", "brocade"}
<1>1. o \in Object
  BY DEF Inv, IsNameList, Switched
<1>2. vendor \in {"cisco", "dell", "dell10g", "arista", "brocade"}
  BY SwitchportsAssumption DEF Inv, Use, Vendors, vendor
<1>. QED
  BY <1>1, <1>2 DEF Inv, Switched

\* The lines that a switch shows for an interface, typed into a new one,
\* configure the same, unless Lossy names what they cannot stand for, or a Brocade
\* vlan shows it in one line with another.
THEOREM RunningConfigReplaysAlways == Spec => []RunningConfigReplays
<1>1. Inv => RunningConfigReplays
  <2>. SUFFICES ASSUME Inv, NEW o \in Switched, ~SharesLine(o)
                PROVE  SameSwitchport(Replayed(o), port[o])
    BY DEF RunningConfigReplays
  <2>1. /\ GoodPort(vendor, port[o]) /\ ~Lossy(port[o])
        /\ vendor \in {"cisco", "dell", "dell10g", "arista", "brocade"}
    BY SwitchedGood
  <2>2. CASE vendor = "brocade"
    <3>1. o \in Names(ports) /\ o.kind # "ve"
      BY DEF Switched
    <3>. QED
      BY <2>1, <2>2, <3>1, SameOnBrocade
  <2>3. CASE vendor # "brocade"
    <3>1. Replayed(o) = ReplayedAlone(port[o])
      BY <2>3 DEF Replayed
    <3>. QED
      BY <2>1, <2>3, <3>1, SameOnCisco, SameOnDell, SameOnArista
  <2>. QED
    BY <2>2, <2>3
<1>. QED
  BY <1>1, InvAlways, PTL

LEMMA PagesOnBrocade ==
    ASSUME vendor = "brocade", NEW r, GoodPort(vendor, r), ~Lossy(r)
    PROVE  Cardinality(MemberOf(r)) <= 1 /\ \A n \in ListedVlans : PagesTell(r, n)
<1>1. /\ r.access \in Numbers \cup {NoValue} /\ r.native \in Numbers \cup {NoValue}
      /\ r.access # NoValue => r.trunk = NoValue
      /\ r.trunk = NoValue => r.native = NoValue
      /\ r.trunk # NoValue => r.native # NoValue
  <2>1. r.access \in Numbers \cup {NoValue} /\ r.native \in Numbers \cup {NoValue}
    BY DEF GoodPort, Port
  <2>. QED
    BY <2>1, BrocadeUntagged
<1>2. NoValue \notin Numbers /\ 1 \in Numbers /\ ListedVlans \subseteq Numbers
  BY SwitchportsAssumption, NoValueIsNew DEF ListedVlans
<1>3. PICK u : MemberOf(r) = {u} /\ u = (IF r.access # NoValue THEN r.access
                                        ELSE IF r.trunk # NoValue THEN r.native ELSE 1)
  BY <1>1 DEF MemberOf
<1>4. Cardinality(MemberOf(r)) <= 1
  <2>1. MemberOf(r) = {u}
    BY <1>3
  <2>. QED
    BY <2>1, FS_Singleton
<1>5. ASSUME NEW n \in ListedVlans PROVE PagesTell(r, n)
  <2>1. n \in Numbers /\ n # NoValue /\ (n \in MemberOf(r) <=> n = u)
    BY <1>2, <1>3
  <2>2. UntaggedIn(r, n) <=> n = u
    BY <1>1, <1>2, <1>3, <2>1 DEF UntaggedIn
  <2>3. UntaggedOnPage(r, n) <=> n = u /\ ~(r.access = NoValue /\ r.trunk = NoValue)
    BY <1>1, <1>2, <1>3, <2>1 DEF UntaggedOnPage
  <2>4. n \in UntaggedOfPort(r) <=> n = u /\ r.native # 1
    BY <1>1, <1>2, <1>3, <2>1 DEF UntaggedOfPort
  <2>5. OnBrief(r, n) <=> IF r.trunk = NoValue THEN n = u ELSE n = 1
    BY <1>1, <1>2, <1>3, <2>1 DEF OnBrief
  <2>6. TaggedOnPage(r, n) <=> Lists(r, n) /\ n # u
    BY <1>1, <1>2, <1>3, <2>1 DEF TaggedOnPage, Lists
  <2>. QED
    BY <2>1, <2>2, <2>3, <2>4, <2>5, <2>6 DEF PagesTell
<1>. QED
  BY <1>4, <1>5

LEMMA PagesOnOthers ==
    ASSUME vendor \in {"cisco", "dell", "dell10g"}, NEW r, GoodPort(vendor, r), ~Lossy(r)
    PROVE  \A n \in ListedVlans : OnPage(r, n) <=> OnPage(ReplayedAlone(r), n)
<1>. TAKE n \in ListedVlans
<1>. DEFINE x == ReplayedAlone(r)
<1>1. n \in Numbers /\ n # NoValue
  BY NoValueIsNew DEF ListedVlans
<1>2. CASE vendor = "cisco"
  <2>. DEFINE a == IF r.access = 1 THEN NoValue ELSE r.access
  <2>1. x = Made(r.mode, a, r.native, r.trunk, r.group)
    BY <1>2, CiscoReplayed
  <2>. HIDE DEF x, a
  <2>2. x.access = a
    BY <2>1, MadeFields
  <2>3. OnPage(r, n) <=> OnPage(x, n)
    BY <1>1, <1>2, <2>2 DEF OnPage, a
  <2>. QED
    BY <2>3 DEF x
<1>3. CASE vendor \in {"dell", "dell10g"}
  <2>. DEFINE m == IF r.mode = "access" THEN NoValue ELSE r.mode
  <2>1. PICK t : /\ x = Made(m, r.access, r.native, t, NoValue)
                 /\ \A k \in Numbers : Lists(x, k) <=> Lists(r, k)
    BY <1>3, DellReplayed
  <2>. HIDE DEF x, m
  <2>2. x.access = r.access
    BY <2>1, MadeFields
  <2>3. OnPage(r, n) <=> OnPage(x, n)
    BY <1>1, <1>3, <2>1, <2>2 DEF OnPage
  <2>. QED
    BY <2>3 DEF x
<1>. QED
  BY <1>2, <1>3

\* The commands that show an interface tell the same of it.
THEOREM PagesAgreeAlways == Spec => []PagesAgree
<1>1. Inv => PagesAgree
  <2>. SUFFICES ASSUME Inv, NEW o \in Switched
                PROVE  IF vendor = "brocade"
                       THEN /\ Cardinality(MemberOf(port[o])) <= 1
                            /\ \A n \in ListedVlans : PagesTell(port[o], n)
                       ELSE vendor # "arista" =>
                            \A n \in ListedVlans : OnPage(port[o], n) <=> OnPage(Replayed(o), n)
    BY DEF PagesAgree
  <2>. DEFINE r == port[o]
  <2>1. /\ GoodPort(vendor, r) /\ ~Lossy(r)
        /\ vendor \in {"cisco", "dell", "dell10g", "arista", "brocade"}
    BY SwitchedGood
  <2>. HIDE DEF r
  <2>2. CASE vendor = "brocade"
    BY <2>1, <2>2, PagesOnBrocade DEF r
  <2>3. CASE vendor # "brocade"
    <3>1. Replayed(o) = ReplayedAlone(r)
      BY <2>3 DEF Replayed, r
    <3>. QED
      BY <2>1, <2>3, <3>1, PagesOnOthers DEF r
  <2>. QED
    BY <2>2, <2>3
<1>. QED
  BY <1>1, InvAlways, PTL
=============================================================================
