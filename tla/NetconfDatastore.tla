-------------------------- MODULE NetconfDatastore --------------------------
(***************************************************************************)
(* The candidate/running datastore of the Juniper switches                 *)
(* (juniper/juniper_netconf_datastore.py, and the QFX copper subclass when *)
(* Qfx is TRUE) together with the NETCONF operations that reach it         *)
(* (netconf/capabilities.py).  One action is one RPC: the Twisted reactor  *)
(* runs the handler of a message to its end, so sessions interleave        *)
(* between messages only.  The datastore is one object shared by every     *)
(* session of the switch.                                                  *)
(***************************************************************************)
EXTENDS Naturals, Sequences, SequencesExt, OrderedNames

CONSTANTS
    Sessions,        \* NETCONF clients
    VlanNames,       \* names of vlans
    VlanIds,         \* vlan numbers
    PortNames,       \* names a request may give for an interface
    AggregateNames,  \* those of the form ae<n> in range: created when missing
    InvalidNames,    \* those raise_for_invalid_interface refuses
    InitialPorts,    \* the ports the switch is built with, as a name list
    Matches,         \* Matches[n]: the port names that a lookup of n accepts
    Descriptions,    \* values of the plain attributes (description, mtu, ...)
    Requests,        \* the <edit-config> contents that clients send
    EditTargets,     \* the datastores that clients edit
    LockTargets,     \* the datastores that clients lock
    Qfx,             \* TRUE: the QFX copper datastore; FALSE: the base one
    Disciplined,     \* TRUE: sessions unlock only what they locked, and no
                     \* one discards changes while the candidate is locked
    MaxTrunk,        \* bound on the length of a trunk member list
    NoValue          \* Python's None

Datastores == {"candidate", "running"}

Other(d) == CHOOSE e \in Datastores : e # d

(***************************************************************************)
(* Data.  A port's plain attributes (description, mtu, shutdown, speed...) *)
(* are all read, merged, reset and committed alike: descr stands for them. *)
(* trunk is the trunk_vlans list; None and [] are read alike and are both  *)
(* the empty sequence.  A vendor record is the port's vendor_specific dict *)
(* : es is "has-ethernet-switching"; edge is "rstp-edge", where off is a   *)
(* key that holds None (rstp-no-root-port and lldp are handled like it).   *)
(***************************************************************************)
Port == [descr  : Descriptions \cup {NoValue},
         mode   : {"access", "trunk", NoValue},
         access : VlanIds \cup {NoValue},
         trunk  : Seq(VlanIds),
         native : VlanIds \cup {NoValue}]

Vendor == [es : BOOLEAN, edge : {"absent", "off", "on"}]

Configuration == [vlans  : SUBSET (VlanNames \X VlanNames),
                  number : [VlanNames -> VlanIds \cup {NoValue}],
                  ports  : SUBSET (PortNames \X PortNames),
                  port   : [PortNames -> Port]]

\* The <vlan>, <interface> and <rstp><interface> nodes of an edit.  A field
\* is "absent" when the node has no such element and "delete" when that
\* element carries operation="delete"; ids are the vlan ids of <members>.
VlanNode == [name : VlanNames, op : {"merge", "delete"},
             number : VlanIds \cup {"absent", "delete"}]

InterfaceNode == [name   : PortNames, op : {"merge", "replace", "delete"},
                  descr  : Descriptions \cup {"absent", "delete"},
                  unit   : {"absent", "delete", "switching"},
                  mode   : {"absent", "delete", "access", "trunk"},
                  vlan   : {"absent", "delete", "add", "remove"},
                  ids    : Seq(VlanIds),
                  native : VlanIds \cup {"absent", "delete"}]

RstpNode == [name : PortNames, edge : {"absent", "merge", "delete"}]

\* bad: the edit also holds an element that no parser handles.
Request == [vlan : VlanNode \cup {NoValue}, interface : InterfaceNode \cup {NoValue},
            rstp : RstpNode \cup {NoValue}, bad : BOOLEAN]

ResetPort == [descr |-> NoValue, mode |-> NoValue, access |-> NoValue,
              trunk |-> <<>>, native |-> NoValue]

FreshVendor == [es |-> FALSE, edge |-> "absent"]

ASSUME SentinelAssumption ==
    /\ NoValue \notin VlanIds \cup Descriptions
    /\ NoValue \notin PortNames \cup {"access", "trunk", "absent", "delete"}
    /\ NoValue \notin VlanNode \cup InterfaceNode \cup RstpNode
    /\ VlanIds \cap {"absent", "delete"} = {}
    /\ Descriptions \cap {"absent", "delete"} = {}

ASSUME DataAssumption ==
    /\ AggregateNames \subseteq PortNames \ InvalidNames
    /\ Matches \in [PortNames -> SUBSET PortNames]
    /\ \A n \in PortNames : n \in Matches[n]
    /\ IsNameList(InitialPorts, PortNames)
    /\ \A n \in Names(InitialPorts) : FirstOf(InitialPorts, Matches[n]) = n
    /\ EditTargets \subseteq Datastores
    /\ LockTargets \subseteq Datastores
    /\ Qfx \in BOOLEAN
    /\ Disciplined \in BOOLEAN
    /\ MaxTrunk \in Nat

\* TLC cannot enumerate Request (ids is any sequence): the shape is stated
\* field by field.
ASSUME RequestAssumption ==
    \A r \in Requests :
        /\ r.vlan = NoValue \/ r.vlan \in VlanNode
        /\ r.interface = NoValue \/ r.interface \in InterfaceNode
        /\ r.rstp = NoValue \/ r.rstp \in RstpNode
        /\ r.bad \in BOOLEAN

VARIABLES
    config,   \* config[d]: the vlans and ports of datastore d
    vendor,   \* vendor[d][p]: the content of port p's vendor_specific dict
    alias,    \* alias[p]: the candidate port whose vendor_specific dict IS
              \* the dict of running port p, or NoValue
    locked,   \* locked[d]: SwitchConfiguration.locked
    holds     \* holds[s]: the datastores session s was told it locked and
              \* has not unlocked since (the client's view)

vars == <<config, vendor, alias, locked, holds>>

Init ==
    /\ config = [d \in Datastores |->
                   [vlans |-> {}, number |-> [n \in VlanNames |-> NoValue],
                    ports |-> InitialPorts, port |-> [p \in PortNames |-> ResetPort]]]
    /\ vendor = [d \in Datastores |-> [p \in PortNames |-> FreshVendor]]
    /\ alias = [p \in PortNames |-> NoValue]
    /\ locked = [d \in Datastores |-> FALSE]
    /\ holds = [s \in Sessions |-> {}]
-----------------------------------------------------------------------------
(***************************************************************************)
(* Reading: to_etree.  What a reader sees of a datastore is its View.      *)
(* ethernet_switching_to_etree appends the access vlan to port.trunk_vlans *)
(* itself when that list is not empty: reading changes the port (AsRead).  *)
(***************************************************************************)
Members(r) == IF r.access = NoValue THEN r.trunk ELSE Append(r.trunk, r.access)

FamilyShown(p, r, v) ==
    v.es /\ (p \notin AggregateNames \/ r.mode # NoValue \/ Members(r) # <<>>)

NativeShown(r, v) == r.native # NoValue /\ (Qfx \/ v.es)

InterfaceShown(p, r, v) ==
    r.descr # NoValue \/ FamilyShown(p, r, v) \/ NativeShown(r, v)

InterfaceView(p, r, v) ==
    [descr   |-> r.descr,
     family  |-> FamilyShown(p, r, v),
     mode    |-> IF FamilyShown(p, r, v) THEN r.mode ELSE NoValue,
     members |-> IF FamilyShown(p, r, v) THEN Members(r) ELSE <<>>,
     native  |-> IF NativeShown(r, v) THEN r.native ELSE NoValue]

View(d) ==
    LET c == config[d]
        v == vendor[d]
    IN [interfaces |-> KeepNames(c.ports, {p \in PortNames : InterfaceShown(p, c.port[p], v[p])}),
        interface  |-> [p \in PortNames |-> InterfaceView(p, c.port[p], v[p])],
        rstp       |-> KeepNames(c.ports, {p \in PortNames : v[p].edge = "on"}),
        vlans      |-> c.vlans,
        number     |-> c.number]

\* apply_trunk_native_vlan reads interface_data[-1] of an empty list.
RaisesWhenRead(p, r, v) ==
    /\ ~Qfx
    /\ NativeShown(r, v)
    /\ r.descr = NoValue
    /\ ~FamilyShown(p, r, v)

Unreadable(d) ==
    {p \in Names(config[d].ports) : RaisesWhenRead(p, config[d].port[p], vendor[d][p])}

PortAsRead(r, v) == IF v.es /\ r.trunk # <<>> THEN [r EXCEPT !.trunk = Members(r)] ELSE r

\* The ports are read in order, up to the first that raises.
ReadPorts(d) ==
    {p \in Names(config[d].ports) : \A q \in Unreadable(d) : <<q, p>> \notin config[d].ports}

AsRead(d) ==
    [config[d] EXCEPT !.port =
        [p \in PortNames |-> IF p \in ReadPorts(d) THEN PortAsRead(@[p], vendor[d][p]) ELSE @[p]]]

\* to_etree(RUNNING) followed, when it does not raise, by to_etree(CANDIDATE).
BothAsRead ==
    [d \in Datastores |->
        IF d = "candidate" /\ Unreadable("running") # {} THEN config[d] ELSE AsRead(d)]

BothReadable == \A d \in Datastores : Unreadable(d) = {}

\* Bound: no step makes a trunk list longer than MaxTrunk.
TrunksBounded(c) ==
    \A d \in Datastores, p \in PortNames : Len(c[d].port[p].trunk) <= MaxTrunk
-----------------------------------------------------------------------------
(***************************************************************************)
(* Editing.  edit() handles the vlan, then the interface, then the rstp    *)
(* nodes, writing the target as it goes; an exception leaves what was      *)
(* written so far.  A work record is the target in the middle of an edit:  *)
(* its configuration c, its vendor dicts v, the ports whose dict object    *)
(* was replaced by reset(), and the error that stopped the edit ("netconf" *)
(* is answered with <rpc-error>; "crash" is any other Python exception).   *)
(***************************************************************************)
Begin(d) == [c |-> config[d], v |-> vendor[d], reset |-> {}, error |-> "none"]

Fail(w, e) == [w EXCEPT !.error = e]

SetPort(w, p, r) == [w EXCEPT !.c.port[p] = r]

SetNumber(w, n, x) == [w EXCEPT !.c.number[n] = x]

ParseVlanNumber(w, node) ==
    CASE node.number = "absent" -> w
      [] node.number = "delete" -> IF w.c.number[node.name] = NoValue
                                   THEN Fail(w, "netconf")
                                   ELSE SetNumber(w, node.name, NoValue)
      [] OTHER -> SetNumber(w, node.name, node.number)

RemoveVlan(w, n) == [SetNumber(w, n, NoValue) EXCEPT !.c.vlans = RemoveName(@, n)]

ParseVlan(w, node) ==
    LET known == node.name \in Names(w.c.vlans)
    IN IF node.op = "delete"
       THEN IF known THEN RemoveVlan(w, node.name) ELSE Fail(w, "netconf")
       ELSE ParseVlanNumber(IF known THEN w ELSE [w EXCEPT !.c.vlans = AddName(@, node.name)],
                            node)

InAccessMode(r) == r.mode # "trunk"

\* parse_vlan_members.  int() refuses a range, list.remove an absent member.
RemoveMember(w, p, ids) ==
    LET r == w.c.port[p]
    IN CASE InAccessMode(r) -> SetPort(w, p, [r EXCEPT !.access = NoValue])
         [] ~InAccessMode(r) /\ Len(ids) = 1 /\ ids[1] \in ToSet(r.trunk) ->
               SetPort(w, p, [r EXCEPT !.trunk = RemoveFirst(@, ids[1])])
         [] OTHER -> Fail(w, "crash")

AddMembers(w, p, ids) ==
    LET r == w.c.port[p]
    IN CASE ~InAccessMode(r) -> SetPort(w, p, [r EXCEPT !.trunk = @ \o ids])
         [] InAccessMode(r) /\ ids # <<>> -> SetPort(w, p, [r EXCEPT !.access = ids[1]])
         [] OTHER -> Fail(w, "crash")

ParseVlanMembers(w, p, node) ==
    CASE node.vlan = "absent" -> w
      [] node.vlan = "delete" ->
            SetPort(w, p, [w.c.port[p] EXCEPT !.access = NoValue, !.trunk = <<>>])
      [] node.vlan = "remove" -> RemoveMember(w, p, node.ids)
      [] node.vlan = "add" -> AddMembers(w, p, node.ids)

\* Mutant: an access port keeps its trunk list.
EnterModeKeepingTrunk(r, mode) ==
    IF mode = "access" THEN [r EXCEPT !.mode = mode, !.native = NoValue]
                       ELSE [r EXCEPT !.mode = mode, !.access = NoValue]

\* The port in its new mode: an access port has no trunk data, any other
\* port has no access vlan.
EnterMode(r, mode) ==
    IF mode = "access" THEN [r EXCEPT !.mode = mode, !.trunk = <<>>, !.native = NoValue]
                       ELSE [r EXCEPT !.mode = mode, !.access = NoValue]

ApplySwitching(w, p, node) ==
    LET r == w.c.port[p]
        on == [w EXCEPT !.v[p].es = TRUE]
        mode == CASE node.mode = "absent" -> r.mode
                  [] node.mode = "delete" -> NoValue
                  [] OTHER -> node.mode
    IN IF node.mode = "delete" /\ r.mode = NoValue
       THEN Fail(on, "netconf")
       ELSE ParseVlanMembers(SetPort(on, p, EnterMode(r, mode)), p, node)

ApplyNative(w, p, node) ==
    IF w.error # "none" \/ node.native = "absent" THEN w
    ELSE SetPort(w, p, [w.c.port[p] EXCEPT
                          !.native = IF node.native = "delete" THEN NoValue ELSE node.native])

ApplyUnit(w, p, node) ==
    CASE node.unit = "delete" ->
            SetPort([w EXCEPT !.v[p].es = FALSE], p,
                    [w.c.port[p] EXCEPT !.mode = NoValue, !.native = NoValue,
                                        !.access = NoValue, !.trunk = <<>>])
      [] node.unit = "switching" -> ApplyNative(ApplySwitching(w, p, node), p, node)
      [] node.unit = "absent" -> IF Qfx THEN ApplyNative(w, p, node) ELSE w

ApplyInterfaceData(w, p, node) ==
    CASE node.descr = "absent" -> ApplyUnit(w, p, node)
      [] node.descr = "delete" -> IF w.c.port[p].descr = NoValue
                                  THEN Fail(w, "netconf")
                                  ELSE ApplyUnit(SetPort(w, p, [w.c.port[p] EXCEPT !.descr = NoValue]), p, node)
      [] OTHER -> ApplyUnit(SetPort(w, p, [w.c.port[p] EXCEPT !.descr = node.descr]), p, node)

\* handle_interface_operation: reset() makes a new vendor_specific dict, to
\* which _restore_protocols_specific_data copies the protocols' keys.
ResetInterface(w, p) ==
    [SetPort(w, p, ResetPort) EXCEPT
        !.v[p] = [es |-> FALSE, edge |-> IF w.v[p].edge = "on" THEN "on" ELSE "off"],
        !.reset = @ \cup {p}]

CreateAggregate(w, n) == [w EXCEPT !.c.ports = AddName(@, n), !.v[n].es = TRUE]

ParseInterfaceOf(w, p, node) ==
    CASE node.op = "merge" -> ApplyInterfaceData(w, p, node)
      [] node.op = "replace" -> ApplyInterfaceData(ResetInterface(w, p), p, node)
      [] node.op = "delete" -> ResetInterface(w, p)

\* Mutant: an aggregate is created unless one has exactly its name.
ParseInterfaceByName(w, node) ==
    IF node.name \in AggregateNames \ Names(w.c.ports)
    THEN ParseInterfaceOf(CreateAggregate(w, node.name), node.name, node)
    ELSE Fail(w, "crash")

ParseInterface(w, node) ==
    LET n == node.name
    IN CASE n \in InvalidNames -> Fail(w, "netconf")
         [] HoldsOneOf(w.c.ports, Matches[n]) ->
               ParseInterfaceOf(w, FirstOf(w.c.ports, Matches[n]), node)
         [] n \in AggregateNames /\ ~HoldsOneOf(w.c.ports, Matches[n]) ->
               ParseInterfaceOf(CreateAggregate(w, n), n, node)
         [] OTHER -> Fail(w, "crash")

\* parse_protocols: dict.pop of an absent key, or a port that does not exist.
ParseRstp(w, node) ==
    LET p == FirstOf(w.c.ports, Matches[node.name])
    IN IF \/ ~HoldsOneOf(w.c.ports, Matches[node.name])
          \/ (node.edge = "delete" /\ w.v[p].edge = "absent")
       THEN Fail(w, "crash")
       ELSE [w EXCEPT !.v[p].edge = IF node.edge = "merge" THEN "on" ELSE "absent"]

AfterVlans(d, r) == IF r.vlan = NoValue THEN Begin(d) ELSE ParseVlan(Begin(d), r.vlan)

AfterInterfaces(d, r) ==
    LET w == AfterVlans(d, r)
    IN IF w.error # "none" \/ r.interface = NoValue THEN w ELSE ParseInterface(w, r.interface)

AfterProtocols(d, r) ==
    LET w == AfterInterfaces(d, r)
    IN IF w.error # "none" \/ r.rstp = NoValue THEN w ELSE ParseRstp(w, r.rstp)

Edited(d, r) ==
    LET w == AfterProtocols(d, r)
    IN IF w.error = "none" /\ r.bad THEN Fail(w, "netconf") ELSE w
-----------------------------------------------------------------------------
(***************************************************************************)
(* Committing.  _validate runs before anything is written.                 *)
(***************************************************************************)
VlanNumbers(c) == {c.number[n] : n \in Names(c.vlans)}

VlansOf(r) == ({r.access, r.native} \cup ToSet(r.trunk)) \ {NoValue}

\* validate_vlan_config accepts every port of c.
Resolved(c) == \A p \in Names(c.ports) : VlansOf(c.port[p]) \subseteq VlanNumbers(c)

\* Mutant: the native vlan of a trunk is not validated.
ValidIgnoringNative(c, v) ==
    \A p \in Names(c.ports) :
        ({c.port[p].access} \cup ToSet(c.port[p].trunk)) \ {NoValue} \subseteq VlanNumbers(c)

Valid(c, v) ==
    /\ Resolved(c)
    /\ \A p \in Names(c.ports) :
          IF Qfx THEN c.port[p].mode = "trunk" => c.port[p].trunk # <<>>
                 ELSE v[p].edge = "on" => v[p].es

\* Mutant: vlans that both datastores have are appended again.
CommittedVlansAppended(run, cand) == JoinNames(run, cand)

\* Vlans are matched by name: the running ones keep their place, the new
\* ones are appended, those the candidate lacks are removed.
CommittedVlans(run, cand) ==
    JoinNames(KeepNames(run, Names(cand)), KeepNames(cand, Names(cand) \ Names(run)))

(***************************************************************************)
(* Ports are matched by get_port_by_partial_name, which may find a port of *)
(* another name.  Candidate port u is copied over the first port of        *)
(* running that a lookup of u accepts, later ones over earlier ones, or    *)
(* appended when there is none; then the running ports for which a lookup  *)
(* in the candidate finds nothing are removed.                             *)
(***************************************************************************)
CopiedTo(run, cand, p) ==
    {u \in Names(cand) : HoldsOneOf(run, Matches[u]) /\ FirstOf(run, Matches[u]) = p}

\* Mutant: ports are matched by their exact name.
AddedByName(run, cand) == Names(cand) \ Names(run)

Added(run, cand) == {u \in Names(cand) : ~HoldsOneOf(run, Matches[u])}

MergedPorts(run, cand) == JoinNames(run, KeepNames(cand, Added(run, cand)))

CommittedPorts(run, cand) ==
    KeepNames(MergedPorts(run, cand), {p \in PortNames : HoldsOneOf(cand, Matches[p])})

\* The candidate port whose attributes running port p has after the commit,
\* or NoValue when the commit leaves p alone.
SourceOf(run, cand, p) ==
    CASE p \in Added(run, cand) -> p
      [] p \notin Added(run, cand) /\ CopiedTo(run, cand, p) # {} ->
            LastOf(cand, CopiedTo(run, cand, p))
      [] OTHER -> NoValue

\* f[p] for the running ports after the commit: taken from the candidate,
\* kept, or none for a port that is not there.
CommitValues(mine, theirs, none) ==
    LET run == config["running"].ports
        cand == config["candidate"].ports
    IN [p \in PortNames |->
          CASE p \notin Names(CommittedPorts(run, cand)) -> none
            [] p \in Names(CommittedPorts(run, cand)) /\ SourceOf(run, cand, p) # NoValue ->
                  theirs[SourceOf(run, cand, p)]
            [] OTHER -> mine[p]]

\* Mutant: the commit forgets the native vlan.
CommittedPortLessNative ==
    LET port == CommitValues(config["running"].port, config["candidate"].port, ResetPort)
    IN [p \in PortNames |-> [port[p] EXCEPT !.native = config["running"].port[p].native]]

CommittedPort == CommitValues(config["running"].port, config["candidate"].port, ResetPort)

CommittedVendor == CommitValues(vendor["running"], vendor["candidate"], FreshVendor)

\* A port that was copied over holds the candidate's dict itself; a port
\* that was appended is a deep copy.
CommittedAlias ==
    LET run == config["running"].ports
        cand == config["candidate"].ports
    IN CommitValues(alias,
                    [u \in PortNames |-> IF u \in Added(run, cand) THEN NoValue ELSE u],
                    NoValue)

CommittedConfig ==
    LET run == config["running"]
        cand == config["candidate"]
    IN [vlans  |-> CommittedVlans(run.vlans, cand.vlans),
        number |-> cand.number,
        ports  |-> CommittedPorts(run.ports, cand.ports),
        port   |-> CommittedPort]
-----------------------------------------------------------------------------
(***************************************************************************)
(* The RPCs.  An exception other than NetconfError leaves dataReceived;    *)
(* NETCONF runs over SSH, which only logs it: the request has no answer,   *)
(* and its session goes on, with the locks it was granted.                 *)
(***************************************************************************)
GetConfig(d) ==
    /\ config' = [config EXCEPT ![d] = AsRead(d)]
    /\ TrunksBounded(config')
    /\ UNCHANGED <<vendor, alias, locked, holds>>

CompareConfiguration ==
    /\ config' = BothAsRead
    /\ TrunksBounded(config')
    /\ UNCHANGED <<vendor, alias, locked, holds>>

\* Mutant: a locked datastore is locked again.
LockableAgain(d) == BothReadable /\ View("running") = View("candidate") /\ d \in Datastores

Lockable(d) == BothReadable /\ View("running") = View("candidate") /\ ~locked[d]

LockGranted(s, d) ==
    /\ Lockable(d)
    /\ config' = BothAsRead
    /\ TrunksBounded(config')
    /\ locked' = [locked EXCEPT ![d] = TRUE]
    /\ holds' = [holds EXCEPT ![s] = @ \cup {d}]
    /\ UNCHANGED <<vendor, alias>>

LockRefused(d) ==
    /\ ~Lockable(d)
    /\ config' = BothAsRead
    /\ TrunksBounded(config')
    /\ UNCHANGED <<vendor, alias, locked, holds>>

Unlock(s, d) ==
    /\ Disciplined => d \in holds[s]
    /\ locked' = [locked EXCEPT ![d] = FALSE]
    /\ holds' = [holds EXCEPT ![s] = @ \ {d}]
    /\ UNCHANGED <<config, vendor, alias>>

\* reset(): the candidate becomes a deep copy of running, its lock included.
DiscardChanges ==
    /\ Disciplined => ~locked["candidate"]
    /\ config' = [config EXCEPT !["candidate"] = config["running"]]
    /\ vendor' = [vendor EXCEPT !["candidate"] = vendor["running"]]
    /\ alias' = [p \in PortNames |-> NoValue]
    /\ locked' = [locked EXCEPT !["candidate"] = locked["running"]]
    /\ UNCHANGED holds

\* The dicts that reset() replaced in datastore d are shared no more.
AliasAfter(d, reset) ==
    [p \in PortNames |->
        IF (d = "running" /\ p \in reset) \/ (d = "candidate" /\ alias[p] \in reset)
        THEN NoValue ELSE alias[p]]

\* The other datastore's dicts after an edit of d wrote v: what is written
\* to a shared dict shows on both sides.
Leaked(d, v, al) ==
    [p \in PortNames |->
        CASE d = "candidate" /\ al[p] # NoValue -> v[al[p]]
          [] d = "running" /\ (\E q \in PortNames : al[q] = p) ->
                v[CHOOSE q \in PortNames : al[q] = p]
          [] OTHER -> vendor[Other(d)][p]]

EditConfig(d, r) ==
    LET w == Edited(d, r)
    IN /\ config' = [config EXCEPT ![d] = w.c]
       /\ TrunksBounded(config')
       /\ alias' = AliasAfter(d, w.reset)
       /\ vendor' = [e \in Datastores |-> IF e = d THEN w.v ELSE Leaked(d, w.v, alias')]
       /\ UNCHANGED <<locked, holds>>

CommitAccepted ==
    /\ Valid(config["candidate"], vendor["candidate"])
    /\ config' = [config EXCEPT !["running"] = CommittedConfig]
    /\ vendor' = [vendor EXCEPT !["running"] = CommittedVendor]
    /\ alias' = CommittedAlias
    /\ UNCHANGED <<locked, holds>>

CommitRefused ==
    /\ ~Valid(config["candidate"], vendor["candidate"])
    /\ UNCHANGED vars

\* close-session or a lost connection: the datastore is not told.
Disconnect(s) ==
    /\ holds' = [holds EXCEPT ![s] = {}]
    /\ UNCHANGED <<config, vendor, alias, locked>>

Next ==
    \/ \E s \in Sessions :
          \/ Disconnect(s)
          \/ \E d \in LockTargets : LockGranted(s, d) \/ Unlock(s, d)
    \/ \E d \in LockTargets : LockRefused(d)
    \/ \E d \in Datastores : GetConfig(d)
    \/ CompareConfiguration
    \/ \E d \in EditTargets, r \in Requests : EditConfig(d, r)
    \/ DiscardChanges
    \/ CommitAccepted
    \/ CommitRefused

Spec == Init /\ [][Next]_vars
-----------------------------------------------------------------------------
(***************************************************************************)
(* Properties.                                                             *)
(***************************************************************************)

\* Every variable has its shape, and the vlans and ports of both datastores
\* are lists of distinct names: commit, edit and discard never list a vlan
\* or a port twice.
TypeOK ==
    /\ config \in [Datastores -> Configuration]
    /\ \A d \in Datastores : /\ IsNameList(config[d].vlans, VlanNames)
                             /\ IsNameList(config[d].ports, PortNames)
    /\ vendor \in [Datastores -> [PortNames -> Vendor]]
    /\ alias \in [PortNames -> PortNames \cup {NoValue}]
    /\ locked \in [Datastores -> BOOLEAN]
    /\ holds \in [Sessions -> SUBSET Datastores]

\* The full name of every port of the list finds that port.
Addressable(l) == \A p \in Names(l) : FirstOf(l, Matches[p]) = p

\* get_port_by_partial_name returns the first port whose name starts and ends
\* like the one asked for, so "ae1" may find "ae11".  Whatever is created,
\* edited, committed and discarded, in whatever order, the full name of a
\* port still finds that port, in both datastores.
PortsAddressable == \A d \in Datastores : Addressable(config[d].ports)

\* _validate is only run on the candidate, at commit.  As long as clients
\* edit the candidate alone, every vlan number that a port of RUNNING uses
\* is the number of a vlan of running: no later commit that removes or
\* renumbers the vlan, no read that rewrites the trunk list and no refused
\* commit leaves it dangling.
RunningResolved == Resolved(config["running"])

\* A port is never an access port and a trunk at once: with such a port
\* every read of the datastore grows its trunk list.  (It takes a request
\* that deletes the mode element of a trunk to make one.)
SwitchportExclusive ==
    \A d \in Datastores, p \in PortNames :
        LET r == config[d].port[p]
        IN IF r.mode = "trunk" THEN r.access = NoValue ELSE r.trunk = <<>>

\* Two sessions never both hold the lock of a datastore, in the eyes of the
\* sessions: what <lock> is for.  A session whose edit crashed half way is one
\* that goes on and still holds its lock.
LockExclusive ==
    \A s, t \in Sessions : s # t => holds[s] \cap holds[t] = {}

PublishedView(d) == [View(d) EXCEPT !.vlans = Names(@)]

\* When commit answers ok, a reader sees the same ports, in the same order,
\* with the same data, and the same vlans in running as in the candidate:
\* the pairing of ports by partial name, the in-place update of running and
\* the shared dicts lose nothing.  (Clients edit the candidate alone.)
CommitPublishes ==
    [][CommitAccepted => PublishedView("running")' = PublishedView("candidate")']_vars

\* What a session edits in the candidate is not seen in running before it is
\* committed, and is gone from both after a discard.
CandidateEditsStayPrivate ==
    [][\A r \in Requests :
          EditConfig("candidate", r) => View("running")' = View("running")]_vars
=============================================================================
