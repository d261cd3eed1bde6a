\* The QFX copper datastore and two sessions that may lock the candidate:
\* vlans and switchport data of one physical port through edit, commit,
\* discard, reads, resets and locks.
SPECIFICATION Spec
CONSTANTS
    Sessions = {s1, s2}
    VlanNames = {"v1", "v2"}
    VlanIds = {id1, id2}
    id1 = id1
    id2 = id2
    d1 = d1
    PortNames = {"ge1"}
    AggregateNames = {}
    InvalidNames = {}
    InitialPorts <- PhysicalOnly
    Matches <- MCMatches
    Descriptions = {d1}
    Requests <- QfxEdits
    EditTargets = {"candidate"}
    LockTargets = {"candidate"}
    Qfx = TRUE
    Disciplined = TRUE
    MaxTrunk = 2
    NoValue = NoValue
INVARIANTS TypeOK RunningResolved LockExclusive SwitchportExclusive
PROPERTIES CommitPublishes
