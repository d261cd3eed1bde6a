\* Two routed interfaces whose subnets a commit should keep apart.
CONSTANTS
    Domains = {"d1", "d2"}
    id10 = id10
    id20 = id20
    Numbers = {id10, id20}
    Irbs = {"irb.10", "irb.20"}
    Matches <- MCMatches
    Hosts = {"h1", "h2", "h3"}
    Networks = {"n1", "n2", "n3"}
    Groups = {1}
    Vips = {"vip"}
    Workloads <- OverlapWorkloads
    MaxTrunk = 2
    NoValue = NoValue

SPECIFICATION Spec
INVARIANTS SubnetsDistinct
