\* Two sessions configure the routed interfaces of every make.
SPECIFICATION Spec
CONSTANTS
    Sessions = {s1, s2}
    Interfaces = {i1, i2}
    Physical = {p1}
    other = other
    Addresses = {1, 2, 3}
    DefaultLan = DefaultLan
    Vrfs = {DefaultLan, other}
    Groups = {1}
    Tracked = {t1, t2}
    Priorities = {10}
    MaxIps = 2
    NoValue = NoValue
    Uses <- MCUses
SYMMETRY SessionSymmetry
INVARIANTS TypeOK OneOwner AddressesApart SecondaryHasPrimary VrfListed TracksOne RoutedConfigReplays
PROPERTIES OwnsNetworks
