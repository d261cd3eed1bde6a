\* Domains, routed interfaces, VRRP groups and the trunk of an MX.
CONSTANTS
    Domains = {"d1", "d2"}
    id10 = id10
    id20 = id20
    Numbers = {id10, id20}
    Irbs = {"irb.10", "irb.110"}
    Matches <- MCMatches
    Hosts = {"h1", "h2", "h3"}
    Networks = {"n1", "n2", "n3"}
    Groups = {1}
    Vips = {"vip"}
    Workloads <- MxWorkloads
    MaxTrunk = 2
    NoValue = NoValue

SPECIFICATION Spec
INVARIANTS TypeOK GroupsOnce
PROPERTIES CommitPublishes
