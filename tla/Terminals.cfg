\* Telnet and SSH terminals, typed in chunks that are cut anywhere.
SPECIFICATION TSpec
CONSTANTS
    Modes <- VendorModes
    Tops = {"cisco_default", "dell_default", "arista_default"}
    EnabledOf <- VendorEnabled
    ConfigOf <- VendorConfig
    Parent <- VendorParent
    FollowsChild = {"cisco_default", "brocade_default"}
    Commands = {"blank", "typo", "secret", "enable", "show", "configure", "exit", "badvlan", "nointerface", "interface"}
    Accepted = {"blank", "secret"}
    Does <- VendorDoes
    Lines = {}
    FileCommands = {}
    MaxFile = 0
    MaxPages = 1
    Disciplined = FALSE
    Shells = {"telnet", "ssh"}
    Words = {"typo", "secret", "enable", "configure", "show", "exit", "badvlan"}
    Chunks <- AnyChunk
INVARIANTS AtMostOneAnswer
PROPERTIES EchoesAllButPasswords
