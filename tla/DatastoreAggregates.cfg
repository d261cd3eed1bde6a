\* Aggregated ports created and edited in both datastores, with names of
\* which one is found by a lookup of the other.
SPECIFICATION Spec
CONSTANTS
    Sessions = {s1}
    VlanNames = {"v1"}
    VlanIds = {id1}
    id1 = id1
    id2 = id2
    d1 = d1
    PortNames = {"ge1", "ae1", "ae11", "ge9", "bad"}
    AggregateNames = {"ae1", "ae11"}
    InvalidNames = {"bad"}
    InitialPorts <- PhysicalOnly
    Matches <- MCMatches
    Descriptions = {d1}
    Requests <- AggregateEdits
    EditTargets = {"candidate", "running"}
    LockTargets = {}
    Qfx = FALSE
    Disciplined = TRUE
    MaxTrunk = 2
    NoValue = NoValue
INVARIANTS PortsAddressable CommitLoopAgrees
