\* Sessions of four vendors whose clients give each command in its mode.
SPECIFICATION Spec
CONSTANTS
    Modes <- VendorModes
    Tops = {"cisco_default", "brocade_default", "dell_default", "arista_default"}
    EnabledOf <- VendorEnabled
    ConfigOf <- VendorConfig
    Parent <- VendorParent
    FollowsChild = {"cisco_default", "brocade_default"}
    Commands = {"blank", "typo", "secret", "enable", "show", "configure", "copy", "ncopy", "exit", "quit", "interface", "vlan", "ipvrrp", "activate", "badvlan", "shutdown", "name", "nointerface"}
    Accepted = {"blank", "secret"}
    Does <- VendorDoes
    Lines <- AnyPipe
    FileCommands = {"interface", "vlan", "ipvrrp", "activate", "exit", "shutdown", "typo", "badvlan"}
    MaxFile = 3
    MaxPages = 2
    Disciplined = TRUE
INVARIANTS TypeOK OneAnswer NoneDone AnswerReachesAsker KeyIsAwaited ChainIsPath
