\* One session, and vlan numbers that are consecutive but not as text: 9 and 10.
SPECIFICATION Spec
CONSTANTS
    Sessions = {s1}
    Uses <- ListUses
    Numbers = {1, 9, 10}
    Physical = {1}
    InitialPorts <- MCInitialPorts
    EndsWith <- MCEndsWith
    TextBefore <- MCTextBefore
    MaxCopies = 2
    NoValue = NoValue
INVARIANT ShownRangesParse

