\* Rstp edits of the candidate after a commit.
SPECIFICATION Spec
CONSTANTS
    Sessions = {s1}
    VlanNames = {"v1"}
    VlanIds = {id1}
    id1 = id1
    id2 = id2
    d1 = d1
    PortNames = {"ge1"}
    AggregateNames = {}
    InvalidNames = {}
    InitialPorts <- PhysicalOnly
    Matches <- MCMatches
    Descriptions = {d1}
    Requests <- RstpEdits
    EditTargets = {"candidate"}
    LockTargets = {}
    Qfx = FALSE
    Disciplined = TRUE
    MaxTrunk = 2
    NoValue = NoValue
PROPERTIES CandidateEditsStayPrivate
