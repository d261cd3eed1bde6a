\* Two sessions, of which one may discard or unlock while the other holds a lock.
SPECIFICATION Spec
CONSTANTS
    Sessions = {s1, s2}
    VlanNames = {"v1"}
    VlanIds = {id1}
    id1 = id1
    id2 = id2
    d1 = d1
    PortNames = {"ge1"}
    AggregateNames = {}
    InvalidNames = {}
    InitialPorts <- PhysicalOnly
    Matches <- MCMatches
    Descriptions = {d1}
    Requests <- LockEdits
    EditTargets = {"candidate"}
    LockTargets = {"candidate", "running"}
    Qfx = FALSE
    Disciplined = FALSE
    MaxTrunk = 2
    NoValue = NoValue
INVARIANTS LockExclusive
