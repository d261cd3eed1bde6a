# fake-switches: a verification development

TLA+ modules, TLC configurations and TLAPS proofs for `fake_switches`, the
Python/Twisted program that imitates network switches (Cisco, Brocade, Dell,
Dell 10G, Arista, Juniper) over telnet, SSH, NETCONF and HTTP.

## 1. The system

Everything runs in one Twisted reactor thread: a handler (a NETCONF message, a
terminal line, a keystroke, an HTTP request) runs to its end before the next
one starts. Concurrency is therefore the interleaving of whole handlers of
several sessions on shared Python objects. Nothing is persisted. An exception that
escapes a handler leaves what the handler had already written; it ends a Telnet
connection, while over SSH the library only logs it, so that a NETCONF session goes
on with whatever its input buffer holds.

| part (under `src/fake_switches/`) | state | operations | hard behaviour |
|---|---|---|---|
| `juniper/juniper_netconf_datastore.py`, QFX subclass | `configurations[candidate, running]`, `locked`, each port's `vendor_specific` dict | edit, commit, discard (reset), lock, unlock, to_etree | locks without owner; edits that fail half-way; lookups by partial name; dicts shared between the two datastores; reads that write |
| `netconf/capabilities.py`, `netconf_protocol.py` | input buffer, greeted flag | one method per RPC | framing of messages, greeting, exceptions, channels that share one protocol object |
| `juniper_mx/` | bridge domains, irb interfaces, their addresses and VRRP groups | edit, validate, commit, discard | lists changed while they are walked, lookups by host against lookups by network, links shared between the datastores |
| `switch_configuration.py` | lists of vlans, ports, routes, vrfs | add, remove, look up | lists without uniqueness, first match wins, objects removed while referred to |
| `command_processing/` | per session: a chain of command processors, continuation, pending keystroke, pipe | process_command, move_to, continue_to, on_keystroke | fall-through to the parent, prompts, continuations left behind, pipes left open |
| `terminal/`, `transports/` | line buffer, key handler, echo replacement | chunk or key received | keystroke mode against line mode, several lines in a chunk |
| `brocade/`, `cisco/`, `dell/`, `dell10g/`, `arista/` command processors | the mode's vlan, port, vrf, VRRP object | one method per command | vlan membership and its tag flags, switchport modes, ip ownership, VRRP, objects removed by another session |
| `arista/eapi.py` | a shell session per request | runCmds | a batch that fails half-way |
| `switch_core.py`, `*_core.py`, `switch_factory.py`, `cmd/main.py` | none after start | wiring | none |

The components, with what is modelled of each, are the `components` of
`PROJECT.json`; the hazards, each at its line, are its `hazards`.

### What makes each part correct

* datastore: running never refers to a vlan it does not have; a commit
  publishes exactly what the candidate shows; no vlan or port is listed twice;
  a lock has one holder; an edit of the candidate is invisible in running until
  it is committed (which is false of `vendor_specific`, see section 3);
* command engine: every line gets exactly one answer that ends in a prompt, a
  question or a pause (a line that raises gets none: Telnet then loses the connection,
  SSH does not); the processors always form a path of the mode tree; no
  key that a handler intercepts reaches the line buffer;
* vlan membership (Brocade): an interface is untagged in at most one vlan, and
  what the interface records and what the vlans list agree;
* Cisco, Dell, Arista interfaces: an ip belongs to one interface, a trunk list
  is a sorted set, a port is not an access port and a trunk at once;
* NETCONF session: at most one reply per request, in order, with its message id,
  and one for every request of a client that waits for its replies;
* MX: a commit publishes what the candidate shows, no subnet is in service twice,
  a group id is on an interface once;
* what is shown: the lines of `show running-config`, typed again, configure the same
  interface; the vlan pages tell the same of it; ranges are shown as they are read.

## 2. Modules

### `OrderedNames`

The lists `vlans` and `ports` of a `SwitchConfiguration`, as the order relation
of their names. Add, remove, keep and join are set operations, and "the first
object that fits" (`get_port_by_partial_name`) is the least element of a set.
Written this way the lists need no recursion and can be reasoned about by the
provers.

### `NetconfDatastore`

One action per RPC. `config` holds the two datastores (vlans, ports and the
switchport data of each port), `vendor` the content of the `vendor_specific`
dicts and `alias` which dict object is shared between running and candidate.
`locked` is the flag of the code, and `holds` what each session was told: the
flag has no owner in the code, so the exclusion is stated about `holds`.

* `edit()` is a chain of operators on a work record that carries the error that
  stopped it, so an edit that fails keeps what it wrote before (`Edited`).
* `to_etree` is `View`; it also writes (`AsRead`: the access vlan appended to
  the trunk list) and can raise (`Unreadable`).
* `commit_candidate` is a closed form (`CommittedVlans`, `CommittedPorts`,
  `CommitValues`). `NetconfCommitLoop` gives the loops of the code (`ForEach`) and
  says that in every reachable state both agree.
* `Qfx` selects the overrides of `JuniperQfxCopperNetconfDatastore`.

Abstractions: one attribute `descr` stands for description, mtu, shutdown,
speed, auto-negotiation, aggregation membership and lacp, which are all read,
merged, reset and committed alike; `edge` stands for the keys of rstp and lldp;
a trunk list that is None and one that is empty are read alike and are one
value. Names and numbers are model values or short strings. `MaxTrunk` bounds
the length of trunk lists, which repeated edits (and reads) could grow for ever.

### `JuniperMxDatastore`

What the MX adds: `domains` (bridge domains with number and routing-interface),
`irbs` (addresses, VRRP groups, redirects and the linked vlan) and one physical
port with its vlan-id-list. A request is one *node* of an edit; an edit with
several is a series of them up to the first that fails, and every operator stops
where the code raises, keeping what was written (`DomainAttributes`,
`GroupAttributes`). Equality follows netaddr: two addresses are equal when their
networks are, whatever their hosts, which is why `AddIp` looks for the host and
then replaces the first of the *network*, as `list.index` does. `Commit` has
`_validate` as its guard, and then the loops of the code as folds: `DropIps` walks
the list it removes from, so it passes over the neighbour of what it removes, while
`DropDomains` and `DropIrbs` walk a copy of theirs;
`CopiedIrb` pairs interfaces by partial name (`Matches`). `shared` says which
domains have one `vendor_specific` dict in both datastores after a commit: it holds
the link, so `LinkSeenThrough` writes it to both. `View` is what readers see, where
groups are found by the network of their address. Locks, aggregates and protocols
are those of `NetconfDatastore`; the plain attributes of a group are one, `attr`.

### `NetconfSession` and `RpcExchange`

`NetconfProtocol` on one SSH connection, whose avatar gives one protocol object to
all channels. A message is a body, the end marker in two parts and perhaps a
newline; `stream` is what the client wrote, `at`, `part` and `newline` say how much
of it arrived, and `from`, `lead` and `junk` what is still in `input_buffer`. A
chunk ends anywhere (`ChunkEnd`), so requests may arrive together, or in pieces.
`Greet` is the first message of the connection, `Dispatch` the others; `Raise`
leaves before the buffer is cleared. The code looks for the marker at the end of the buffer
only: two requests in one chunk are one document that does not parse. `tidy`
clients write one message at a time and wait for the reply.

`RpcExchange` is the abstract specification: requests are counted, answers come in
increasing order, at most one to each and none to the greeting.

### `CommandProcessor`

The command engine of one session: `BaseCommandProcessor`, `ShellSession.receive`,
the keystroke handler and `SwitchTftpParser`. The `sub_processor` links are the
sequence `session.stack`, deepest processor last; `proc[m]` holds the fields of
each processor object (they are built once per session and re-initialised by
`init`, which is why a processor has one record however often it is entered).
`process_command` calls itself down the chain and works on the way back: an
action is one such call coming back (`call.at`), and `Receive`, `KeyPressed` or a
file line starts the next descent. `FallThrough`, `Say`, `Enter`, `Exit`,
`AskPassword`, `AskFile`, `Pause`, `Drop`, `CheckPassword` are what a command can
come to for the engine; `OpenFile`, `FileLine`, `FileEnd`, `FileAborted` the
parsing of a configuration file in the session's own config processor.
`session.out` is what the terminal showed since the last line or key.

What a processor does with a command is data (`Does[m][c]`), given for the
processors of four vendors in `MCCommandProcessor`; `Does` already contains the
prefix matching of command names. A piping command is one whose pattern is in no
prompt. With `Disciplined` a client gives each command in its mode and answers
what it is asked; without it any line comes at any time.

A line that raises leaves the chain as it was at that point (`LineAborted`). What
becomes of the session is the transport's affair, so the engine alone allows both: over,
as with Telnet, or at rest without an answer, as with SSH, where the next line is
received by the same processors. `out` then says "raised", which no client sees.
`Terminal` knows which of the two it is.

### `Terminal`

Composes `CommandProcessor` with the Telnet or SSH shell in front of it: chunks of
units (a word, a letter, enter) arrive, are offered to the any-key handler, typed
into `line`, echoed or hidden, and become lines; the rest of a chunk waits in
`keys` while a line is worked on. Telnet has the login and its own copy of the
top processor's `replace_input` (`masked`), SSH asks the deepest processor.

### `Switchports`

The vlans and interfaces of one switch of any CLI make, and several sessions in
the modes `config`, `vlan` and `interface`. A mode holds the vlan or interface
*object*, so `at[s].live` tells whether the configuration still lists it; a write
to an object that is not listed is seen by nobody, one by number (Brocade's
`untagged`, `tagged`) is. `port[o]` has the switchport fields of `Port`; `trunk`
counts how often the list holds each vlan, because Cisco's `add` appends and
`remove` takes one away. `Matching` is the partial-name lookup. `use` bounds what
clients do: the make and the names that are typed; it is chosen in `Init`.
`InitialPorts` is any list of physical ports that find their own names.
Attributes that only show commands read are one Boolean, `touched`.

`RunningConfig` adds what the enabled modes show of these interfaces. `Shown(r)` is
the sequence of switchport lines of `show running-config` for interface `r` and the
make (one that is not shown is a line that does nothing); `Entered` is what a command
does to an interface, and `Replayed(o)` the result of typing all lines into a new one.
Brocade shows all interfaces of a vlan in one line (`UntaggedMembers`, `TaggedMembers`,
`ShownInVlan`), and `Replayed` goes through the vlans by their number. The member commands
look the whole text up as one port, so a line of several is refused: `ForPort`
is what a line means to an interface, and `SharesLine` names the interfaces that lose
something by it. The exceptions to `RunningConfigReplays` are
definitions with names: lists that are not shown (`Hidden`, `NoneHidden`), ranges
that are refused (`Backwards`), references to vlans that are gone
(`NamesRemoved`), and native vlans that Brocade leaves behind or lacks
(`NativeLeft`, `NativeMissing`). Where none of them holds, nothing
is lost. `PagesAgree` compares the vlan pages, each of which walks the
interfaces with a test of its own. Brocade's five tell the same untagged vlan except for
vlan 1, and `PagesTell` says what each makes of it: `show vlan 1` leaves out a port
that has no vlan, `show vlan ethernet` a native vlan 1, and `show vlan brief` has every
trunk in vlan 1. `ShownRangesParse` is about the ends of a range,
which Dell's parser compares as text: `TextBefore` is that order.

### `RoutedInterfaces` and `NetworkOwnership`

The addresses, vrfs and VRRP groups of virtual interfaces, again with sessions
that hold interface and group objects (`live`, `groupLive`). An address is a
record of an address and the set of addresses of its network, so that networks
may be equal, disjoint or nested. `Owners` is `get_port_and_ip_by_ip`; `MayHave`
is the test before `ip address`; `Rest`/`PrimaryAddress`/`PrimaryAddressRaises`
are Cisco's and Arista's replacement of the first address, of which Cisco's
raises half-way when the only address is typed again. netaddr counts networks as
equal whatever their hosts, so `WithIp` (`add_ip`) looks an address up by its host and
replaces the first one of its *network* (`FirstEqual`), Arista's `NoAddress` asks
whether the network is listed, and Brocade's `BrocadeNoAddress` takes any
secondary address of the network. Arista's virtual-router addresses are replaced in
their place (`WithVarp`). Brocade's secondaries are a set of their own. A VRRP group's `track` is a dict from port to priority of which
Brocade's commands use "the first" key or value: the model takes any one. `cisco`
stands for both Dells as well. Static routes, access lists, helper addresses and
the groups' virtual addresses are left out.

`RoutedConfig` does for these interfaces what `RunningConfig` does for switchports. The lines
are not written down: each part of them is what typing its lines makes of an interface, as a fold over
what is shown in the order in which it is shown (`SecondariesTyped`, `VarpTyped`, `BrocadePrimariesTyped`,
`EntryTyped`, ...), with the address commands of `RoutedInterfaces` for an owner that is this interface or nobody
(`OnBrocade`, `OverPrimary`). `Replayed` takes the parts in the order of `get_port_attributes`: the
vrf, the addresses, the groups. Addresses are numbers, of which there are finitely many, because Brocade and
Arista sort them (`RoutedConfigAssumption`).
Its exceptions are `Orphaned` (secondary addresses without a primary one, which is
what Brocade's `vrf forwarding` leaves although it says that all addresses have
been removed), `Covered`, and `Doubled` (an address that a Cisco or Arista interface
has twice, which `add_ip` makes of the second of two addresses in one network when it is typed once
more); and Cisco shows the primary address last, so
that the first secondary one is lost when the lines are typed: `Survivors` says
that exactly this one is.

`NetworkOwnership` is the abstract specification: every network has one owner or
nobody, an interface takes one free network at a time and gives up any of its
own. `RoutedInterfaces` implements it under the mapping `owner` (the listed
interface that has an address with that network, a secondary one too: `NetworksOf`) whenever the networks
typed are equal or disjoint (`Plain`) and nobody types Brocade's vrf commands
(`NoOrphans`). With nested networks only addresses are looked up, and a wider network may be
typed over a narrower one; after `vrf forwarding` a Brocade interface keeps secondary
addresses that no lookup sees, and another interface can have their network. In both
cases the mapping says nobody. `OneOwner` has the same two exceptions, but says of the
networks that the lookup sees (`SeenNetworksOf`) that they stay apart whatever vrf commands are typed.

### Modules for TLC

`MCNetconfDatastore` (sets of edit requests), `MCJuniperMxDatastore` (workloads),
`MCNetconfSession` (what requests come to), `MCCommandProcessor` (command tables),
`MCTerminal` (chunks), `MCSwitchports` and `MCRoutedInterfaces` (uses, names, the
symmetry of sessions) give the constants their values.

## 3. Runs

| run | question | bounds |
|---|---|---|
| `datastore_switchports` | QFX: is running always resolved, does a commit publish the candidate, is no port access and trunk at once, are the lists free of duplicates, do disciplined sessions never share a lock | 2 sessions, candidate lock, 2 vlans, 2 numbers, 1 port, trunk lists up to 2; 11 requests, none deletes the mode element |
| `datastore_aggregates` | lookups by partial name stay unambiguous; the closed form of the commit is its loops | base datastore, ae1 and ae11, edits of both datastores |
| `datastore_lock_stolen` (violation) | locks without the discipline | 2 sessions, both datastores |
| `datastore_leak` (violation) | candidate edits stay private | rstp edits |
| `datastore_mx` | does a commit publish the candidate, is a group on an interface once | 4 workloads: domains and links; addresses and groups (three hosts, three networks, one group); two irbs whose names match each other; bridge members of a port |
| `mx_overlap` (violation) | is no subnet in service twice | two addresses, two irbs |
| `netconf_sessions` | do replies come in order, once, in step; is nothing run twice or after close; is every sound request replied to | 2 channels of 3 messages, chunks cut anywhere |
| `sessions` | does every line and key get exactly one answer (but a line that raises), does no finished processor stay, do answers and keys reach who asked, is the chain a path | four vendors' tables, disciplined clients, three kinds of pipe, files of up to 3 lines, up to 2 more pages |
| `terminals` | is no line answered twice, and are passwords and nothing else hidden, however chunks are cut | Telnet and SSH, three makes, any client, chunks of one or two lines cut anywhere |
| `switchports` | are interfaces findable by name, are ports untagged or tagged (Brocade), do modes fit (Dell), where do references to missing vlans come from; do shown lines replay, do pages agree | 2 sessions, numbers 1 and 11, one physical port (two that share lines in one use of Brocade), 14 uses, a vlan at most twice in a list |
| `vlan_ranges` (violation) | are shown ranges accepted again | 1 session, numbers 1, 9, 10, Dell and Arista |
| `routed_interfaces` | has each network one owner, and is it given up before it changes hands; are Brocade's primary addresses apart, secondaries covered, vrfs listed, one port tracked; do shown lines replay | 2 sessions, 2 virtual interfaces and 1 port, 3 addresses in plain, nested, mirrored or one wide network, 2 vrfs, 1 group, 2 tracked ports, 13 uses |

The datastore does not know which session a request comes from, so the requests
of several sessions are the requests of one as far as data goes; the second session is
there for the lock. An edit that crashes gets no answer, but SSH only logs the
exception: its session goes on and keeps the locks it was granted, so the next request,
its own or another's, meets the half-done edit under the same locks. The base datastore's vlans and switchports differ from those of
the QFX only where `Qfx` is tested; the theorems of section 4 hold for both. Two numbers and two vlan names are enough for a vlan to be
renumbered to a number that is in use and for orders to differ. Two overlapping
names (ae1/ae11, Vlan1/Vlan11) are the smallest ambiguous lookup.

Three messages are a greeting and two requests, the least with an order; a second
channel is what finds the buffer and the greeting of the first. Two neighbouring
addresses are enough for one to be passed over, a third keeps the list from being
emptied.

In `Switchports` and `RoutedInterfaces` two sessions are enough: a session
is affected by others only through the object it holds being removed, replaced or
changed, and any number of others can do no more than one. What clients do is
split into *uses* (families of commands that share no state), each explored in
full; on Brocade, where vlans tie everything together, there is one use of a port and
virtual interfaces, and one of two ports, the least that share a line.

Three lines of a file are enough to move, move deeper and leave. In `sessions`
clients are disciplined because the answers to undisciplined ones are not always
the prompt of their mode: a command of a parent mode typed below it may ask a
question that the mode below does not wait for. `AtMostOneAnswer` holds for all clients, but
not when files are parsed: a file that says `exit` while the session sits in the
config processor it is parsed by. `ChainIsPath` holds for all clients and files,
which the theorem shows.

Fairness: `NetconfSession` assumes `WF_vars(Deliver)` and nothing else. What a client
wrote arrives in the end, because TCP delivers it and the reactor calls
`dataReceived` for what a socket has; the handler runs to its end before anything
else. Nothing makes a client write or reopen. Under this `RequestsAnswered` says that every sound
request of a client that waits for its replies is replied to; what makes a request
not sound is in `Sound`: an operation that raises leaves its message in the buffer, and an XML
declaration behind the newline of an earlier message does not parse. The other
properties are safety properties: an answer that a line must get is stated as what
a session at rest has shown.

Deadlock is checked in every run but `netconf_sessions`, where a client may have
written all it wanted.

### What the violations show

* `datastore_lock_stolen`: `unlock` and `discard-changes` drop the lock flag
  whoever asks, so a second session is granted a lock that is held.
* `datastore_leak`: commit shares the candidate's `vendor_specific` dict with
  running, so later edits show before they are committed.
* `mx_overlap`: the loop of the commit that removes addresses walks the list it
  removes from, so the second of two deleted neighbours stays in running. Given to
  another interface it passes the validation of the candidate and is in service
  twice. `CommitPublishes` of the MX is therefore stated where no two neighbours
  are dropped (`DropsApart`) and lookups by partial name are apart (`NamesApart`).
* `vlan_ranges`: Dell's `parse_vlan_list`, which Arista uses too, compares the ends of a
  range as text and refuses 9-10, the range it shows for these vlans.

More things were met in the code and are in the models as they are: commit keeps
running's order of vlans, and compare and lock are order-sensitive; a Telnet chunk
of several characters goes past the any-key handler into the line buffer, so
`KeyIsAwaited` is about the engine and not about what is typed; `vrf forwarding`
on Brocade keeps the secondary addresses (`Orphaned`), whose network another interface
can then have; Brocade refuses the line `untagged ethe 1/1 to 1/2` that it shows itself
(`SharesLine`), and its pages disagree on vlan 1 (`PagesTell`); and on Cisco and Arista an
address can be listed twice (`Doubled`).

## 4. Proofs

`NetconfDatastoreProofs` proves, for every value of the constants that meets
the module's assumptions:

* `TypeCorrect`: `Spec => []TypeOK`. The inductive invariant is `StoreOK`: the
  shapes, and that all four lists are lists of distinct names.
* `PortsStayAddressable`: from `StoreOK` and `PortsAddressable` of both
  datastores. The step that matters is the commit: a candidate port is appended
  only if no lookup of it finds a running one.
* `LocksAreExclusive`: under `Disciplined`. `LockExclusive` is not inductive by
  itself; `LockInv` adds that what a session holds is locked. A
  crash takes no lock from a session, so the argument does not depend on how edits end.
* `RunningStaysResolved`: when `EditTargets = {"candidate"}`. `ResolvedInv` adds
  that running is resolved; the commit step uses that the candidate was
  validated and that the numbers of running's vlans afterwards are those of the
  candidate's.
* `SwitchportsStayExclusive`: under `ModesKept` (no request deletes the mode
  element of an interface). `ExclusiveInv` is `StoreOK` with every port of both
  datastores `Exclusive`; it goes through the parsers one by one, because an edit
  that fails keeps what it wrote. A read leaves an exclusive port alone, and a
  commit makes running ports of exclusive ones only.
* `CommitAlwaysPublishes`: the action property `CommitPublishes`, when clients edit the
  candidate only (`EditTargets = {"candidate"}`, as in the runs) and whatever a lookup by partial
  name accepts. The commit pairs ports by partial name, and its outcome depends on
  running being older than the candidate: `PublishInv` says that running's list of
  ports is a prefix of the candidate's (`Extends`), that ports in no list are as
  new, and that the `vendor_specific` of a port is its own or none. From the prefix, a
  lookup finds the same port in both lists (`LookupsAgree`), hence pairing by
  partial name is pairing by name (`CommittedPortsAre`) and the loops copy every
  port to itself; `CommitShows` then compares the views. A direct edit of running breaks the
  prefix, which is why the hypothesis is there.
* `LoopsCommit`: `CommitLoopAgrees`, with edits of both datastores. `Copied` and `Removed` guess
  what each loop has computed after any set of the names it visits; the loop is the solution
  of a recursion, `CopiedOnce` and `RemovedOnce` say that the guess solves it too, and
  `LoopsAgree` that there is one solution. The step that could fail is a lookup that
  finds a port which an earlier iteration appended: it does not, since a candidate port
  for which an earlier one of its list is found would not be addressable
  (`OneMoreSource`). `LoopInv` adds that a port running does not list has no data and shares no dict.

`OrderedNamesProofs` holds the lemmas about the lists (adding, filtering and
joining preserve `IsNameList`; the first match is a member and precedes the
others; the order is transitive; `LoopsAgree`, the induction on a list that the
other proofs cite).

`CommandProcessorProofs`, for every mode tree, command table, client and file content
that meets the assumptions (a processor moves only to its children):

* `TypedSession` and `ChainAlwaysPath`. The inductive invariant `IInv` is
  `Good(session)`, the shape with a non-empty chain that is a path, and `FileInv`,
  which says what is known of the chain that is put aside while a file is parsed and
  of where the calls are; each method of a processor gets a lemma that it keeps
  `Good`, and each action one that it keeps `IInv`.
* `OneAnswerAlways`, `NoneDoneAlways`, `AnswerReachesAskerAlways` and
  `KeyIsAwaitedAlways`: what the client sees of a session at rest, for clients
  that give each command in its mode (`Disciplined`, as in the run `sessions`) and
  files none of whose lines opens a page (`FilesNeverPause`: the files are
  configurations, and only Dell's `show` commands page). The four are
  conjuncts of what a line leaves behind, and none is inductive alone: in the middle
  of a line a processor is done and its parent has not seen it, and in the middle of a
  file the chain that will be shown is not the one that is walked. `DInv` therefore says, call
  by call, what has been shown so far, which processor took the line, where the only
  open question is, and, inside a file, that the terminal is silent and the chain put aside
  is the one that asked for the file. `NextDInv` has a step per action; the one that
  matters is the return from a call, where either the processor
  showed its own prompt, or its parent pops it and shows the prompt in its stead, or
  nobody took the line and the session shows it. A line that raises shows nothing, and
  under SSH the session is then at rest with the chain it had; that this chain has
  no done processor, and the next line one answer, is part of the invariant.

`TerminalProofs` is about the clients of the run `terminals`, which type anything anywhere:

* `AnsweredOnce` and `TypedLinesAnsweredOnce`: `AtMostOneAnswer` of the engine, and of the
  engine behind a terminal that cuts its input into chunks anywhere and goes on behind an exit,
  where no processor reads files (`NoFiles`, the setting of the run). The invariant
  `AnswerInv` says when a processor may be done without its parent having removed
  it: only during the call in which it took the line, before anything was shown. A file
  whose parsing leaves a done processor in the session's own chain breaks this, so with files the property
  needs a client that keeps to its mode (`OneAnswerAlways`).
* `EchoesRight`: the action property `EchoesAllButPasswords`, where only processors that
  none moves to ask for passwords (`PasswordsAtRoot`; in the code only the default
  processors, which are on top, set `replace_input`). `MaskInv` says that a Telnet shell's
  copy of `replace_input` is that of the top processor whenever it is at rest: it is the copy,
  taken after each line, that would go stale if a processor down the chain could ask.

`SwitchportsProofs`: `SwitchportsTyped`, `UntaggedOrTaggedAlways`, `ModeFitsAlways` from one
inductive invariant `Inv`: the types, that a session in the mode of an interface
holds one, and `GoodPort`, which is what the two properties say of one interface
of the given make. `AddressableAlways` adds an argument about orders: removal
keeps the first match of every name (`AllFoundKeep`), and appending keeps it
because only names that find nothing are appended (`AllFoundAdd`).
`DanglingOnlyFromRemovedVlanAlways` is an action property of Brocade: `VlanInv`
says that a vlan is listed at most once and has at most one virtual interface, and
that the vlan of a session that is live in its mode is listed; `NoVlanLeavesNone` that `no vlan` takes every reference
along, and the member commands make references only to the vlan of their mode.

The last part of the module proves `RunningConfigReplaysAlways` and `PagesAgreeAlways`:
from `Inv`, what typing the lines comes to is found in closed form, and is the interface again.
`GoodPort` carries what the lines need of the commands that came before: Dell's native vlan and list
fit the mode that the first line sets, so none of the next is refused and `WithMode` has nothing to
reset; an Arista interface has neither an access nor a native vlan, which are not shown. An interface
of Cisco, Dell or Arista has at most five lines (`TypedInTurn` unfolds the fold). On Brocade
the lines of an interface lie in any number of vlans, and `BrocadeReplayed` has the invariant of
that loop: `Along(u, W, V)` is the interface after the vlans `W`, `V` of which it is tagged in,
when `u` is its untagged one. Vlan 1, whose line removes, comes first, so there is nothing to remove;
and the untagged vlan is the access or the native one as there are tagged ones *before* it, which the
first tagged one repairs (`TaggedStep`). `Ascending` makes a list of the numbers, so that
`LoopsAgree` of `OrderedNamesProofs` applies (`LineOfOne` and `LinesOfVlan` say first
that the lines of a vlan are those of this interface alone, from `~SharesLine`): two computations that agree on nothing, and on a set
when they agree on the set less its last member, agree. `PagesAgree` follows from `GoodPort` for
Brocade, where it is `PagesTell` of each vlan with its exceptions, and from the closed forms for Cisco and Dell.

`RoutedInterfacesProofs`: `RoutedTyped`, `VrfListedAlways`, `TracksOneAlways`,
`OneOwnerAlways` and `ImplementsOwnership`. The inductive invariant `Inv` has the
types, `GoodNet` of every interface (shapes, and that a group of a Brocade
interface tracks one port), `VrfListed`, and `HoldsPlace` of every session: a
session that goes on with an interface or a group that was removed holds
something that nobody else has. `OneOwner` then follows from what a step does to
the networks. `AddressChanges` goes through the commands and finds that one
interface gives up networks and takes at most one that is free
(`NetworkChange`). Its heart is `MayHaveFree`: the code asks only for the *first*
interface that holds the address, and lets the session through when that is its
own; if another interface had the network too, then, as typed networks are equal
or disjoint, the session's own interface would have the same network already,
against `SeenApart`, which is `OneOwner` for what the lookup sees. That secondary
addresses add no network (`AllSeen`) comes from the second part, where each is
held by a primary address of a plain network. `NetworkChange` also maps to a step of `NetworkOwnership`
(`ChangeIsChange`), and `OwnerIs` says what the mapping is, which gives the
refinement. The mapping has owners only where `Plain` and `NoOrphans` hold (`Mapped`);
elsewhere it is the abstract initial state and the theorem says nothing.

The second part of the module proves `AddressesApartAlways` and
`SecondaryHasPrimaryAlways`. The invariant `AddressInv` says that every interface
is `Sound`: what the two properties ask, for interfaces that are not listed too,
since they are named again. Brocade appends a primary address only when the ownership
lookup finds nobody; the interface of a live session is listed, so an
address that nobody owns lies in none of its networks. Of Cisco's and Arista's primary
addresses nothing of the kind is true (`WithIp`), and nothing is claimed. A secondary address held by the removed primary one
alone would, where networks are plain, lie in its network, which `Depended` refuses.

The third part proves `RoutedConfigReplaysAlways`. `FoldHolds` and `FoldExists` are about folds over any finite set,
where `Chooses` names the member that is taken last: a property of sets that holds of the empty one, and of a set
when it holds of the set less that member, holds of the whole (by the well-founded order of its finite
subsets), and the recursion of such a fold has a solution. Each loop over what is shown then has a
closed form. The addresses of a Cisco or an Arista are put behind those that are there
(`SecondariesAppended`), since none is there twice (`~Doubled`); Cisco's primary one then takes the first place, which is
what `Survivors` says (`CiscoAddresses`). On Brocade the invariant of the loop is that what was
typed so far is listed, in some order: the next address, higher than all of them, lies in none of their
networks (`BrocadePrimariesShown`), from `NestsNone` where the higher one was added later and from
`~Covered` where it was added first, so the lookup finds nobody. The secondary addresses
come afterwards, each held by a primary one other than itself (`~Orphaned`), and none is
typed before. That these are sets with one entry for an address is not in `AddressInv`; `ShapeInv` adds it, and
what a make has no command for: only Brocade has secondary addresses apart, only Arista virtual-router ones, and
Arista has no groups. The groups come back from `OneEntry` of `GoodNet` on Brocade: the first entry that is
shown is all there is. The vrf is found because of `VrfListed`.

`NetconfSessionProofs`: `SessionTypeCorrect`, `OperationsRunInOrder`,
`RepliesByPosition`, `CloseIsLast` and `SessionImplementsExchange`, for any number of
channels, messages and operations. The argument is about the buffer: `from` never passes `at`, and
what was replied to is at most `from`, because a reply clears the buffer up to the
message it answers; so the next reply is to a later message. For a tidy client
the next message is written only after the reply, hence replies have no gaps. An
operation runs a second time only when it raised (`from` stayed) and the newline of its
message came in a later chunk. A step of the session is then an `Ask`, an
`Answer`, a `Renew` or a stutter of `RpcExchange`.

`JuniperMxDatastoreProofs`, for every set of names, partial-name lookup and workload:
`MxTypeCorrect`, `GroupsOnceAlways` and `MxCommitPublishes`. The inductive
invariant `IInv` says that both configurations are `Sound` (domains and interfaces listed once
under a name, the interfaces' VRRP groups apart) and that a domain whose dict is shared is in
both. The commit is made of loops, and a loop is a fold. The provers cannot
apply a lemma to an operator, and so cannot use an induction rule, but they can apply one to a
*function*: `FoldExists` says, from the least element of a set of numbers, that the recursion
of a fold has a solution, `FoldRuns` that the fold ends a run that takes one step for each place of
the list, and `RunReaches` that an invariant of the places, kept by each step, holds of the end.
Each loop of the commit then has one lemma that names its step (`CopiedDomains`,
`IrbsDropped`, ...). Pairing by partial name could break what `TypeOK` says, as one interface
takes the place of another; it does not, because the code appends only when no lookup, hence no
equal name, finds one, and what it overwrites keeps its name.
`MxCommitPublishes` needs the invariants of the loops. Copying: what was copied looks like the
candidate's, the rest is still running's (`Copied`). Removing: of what was walked only names of the candidate are
left (`Remaining`). Dropping addresses while walking them: what was passed is kept for good, and
ahead one of two neighbours stays (`Walked`); without the premise that no two neighbours are dropped,
this is what fails. `_validate` is needed too: `AddMissing` skips an address whose
network it has, which is the same address only when the networks of an interface differ.

The assumptions are those of the modules (named `...Assumption`): sets of names
are disjoint and `NoValue` is none of them, bounds are positive, and the tables
of a run have the shapes the module gives. TLC evaluates all of them.

`RoutedConfigAssumption` adds that addresses are numbers and finitely many, as are the ports that groups track.

Only model-checked: `RequestsAnswered`, which is liveness under fairness; that is out of the
provers' reach, as is `ENABLED`.

## 5. Not modelled, and what is left

* `arista/eapi.py`: a POST builds a session and processors of its own and runs its
  whole batch in one handler; a command that fails stops it and what came before
  stays. It adds no interleaving to that of the sessions, whose commands are in
  `Switchports` and `RoutedInterfaces`.
* Static routes, access lists, helper addresses, virtual addresses of VRRP groups,
  and attributes that are stored and shown and nothing else (description, mtu,
  speed and the like): lists or fields that no other state depends on. They are one
  attribute (`touched`, `descr`, `attr`) where a component has them.
* The filter of `get-config`, the XML helpers, status pages and the wording of
  every answer: formatting.
* `switch_core.py`, the cores, the factory and `cmd/main.py`: wiring at start.
* Two makes share one set of commands where the code shares it by inheritance; the
  matching of abbreviated command names is data of the command tables.

Worth doing next: a proof of `AtMostOneAnswer` with files, for which the tables need an
assumption on what a file may do to the processor it is parsed into; an abstract candidate store (edit, commit, discard) that both datastores implement
outside the named exceptions.
