\* The switches of all vendors: two ports, vlans and aggregates 1 and 11.
SPECIFICATION Spec
CONSTANTS
    Sessions = {s1, s2}
    Uses <- MCUses
    Numbers = {1, 11}
    Physical = {1, 11}
    InitialPorts <- MCInitialPorts
    EndsWith <- MCEndsWith
    TextBefore <- MCTextBefore
    MaxCopies = 2
    NoValue = NoValue
SYMMETRY Symmetry
INVARIANTS TypeOK Addressable UntaggedOrTagged ModeFits RunningConfigReplays PagesAgree
PROPERTIES DanglingOnlyFromRemovedVlan
