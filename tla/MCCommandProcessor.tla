------------------------- MODULE MCCommandProcessor -------------------------
(***************************************************************************)
(* The sessions of four vendors for TLC: which processors they have, and   *)
(* what each does with the commands that differ for the engine.            *)
(***************************************************************************)
EXTENDS CommandProcessor, TLC, FiniteSets

\* Every processor knows an empty line.  A table says what a processor knows.
Knows(table) ==
    [c \in Commands |-> IF c = "blank" THEN "print"
                        ELSE IF c \in DOMAIN table THEN table[c] ELSE "unknown"]

CiscoDoes ==
    [cisco_default |-> Knows([enable |-> "password"]),
     cisco_enabled |-> Knows([enable |-> "print", show |-> "print", configure |-> "cisco_config",
                              copy |-> "file", exit |-> "exit"]),
     cisco_config  |-> Knows([interface |-> "cisco_if", vlan |-> "cisco_vlan", exit |-> "exit",
                              badvlan |-> "raise"]),
     cisco_if      |-> Knows([shutdown |-> "print", exit |-> "exit"]),
     cisco_vlan    |-> Knows([name |-> "print", exit |-> "exit"])]

CiscoParent ==
    [cisco_default |-> "cisco_default", cisco_enabled |-> "cisco_default",
     cisco_config |-> "cisco_enabled", cisco_if |-> "cisco_config", cisco_vlan |-> "cisco_config"]

\* ve is an interface ve of Brocade, vrrp its "ip vrrp" mode, which activate ends.
BrocadeDoes ==
    [brocade_default |-> Knows([enable |-> "password"]),
     brocade_enabled |-> Knows([show |-> "print", configure |-> "brocade_config",
                                ncopy |-> "parse", exit |-> "exit"]),
     brocade_config  |-> Knows([interface |-> "brocade_ve", exit |-> "exit"]),
     brocade_ve      |-> Knows([ipvrrp |-> "brocade_vrrp", exit |-> "exit"]),
     brocade_vrrp    |-> Knows([activate |-> "exit", exit |-> "exit"])]

BrocadeParent ==
    [brocade_default |-> "brocade_default", brocade_enabled |-> "brocade_default",
     brocade_config |-> "brocade_enabled", brocade_ve |-> "brocade_config",
     brocade_vrrp |-> "brocade_ve"]

DellDoes ==
    [dell_default |-> Knows([enable |-> "password", exit |-> "exit", quit |-> "exit"]),
     dell_enabled |-> Knows([show |-> "pause", configure |-> "dell_config", exit |-> "exit"]),
     dell_config  |-> Knows([interface |-> "dell_if", exit |-> "exit"]),
     dell_if      |-> Knows([shutdown |-> "print", exit |-> "exit"])]

DellParent ==
    [dell_default |-> "dell_default", dell_enabled |-> "dell_default",
     dell_config |-> "dell_enabled", dell_if |-> "dell_config"]

AristaDoes ==
    [arista_default |-> Knows([enable |-> "arista_enabled", show |-> "print", exit |-> "leave"]),
     arista_enabled |-> Knows([enable |-> "print", show |-> "print", configure |-> "arista_config",
                               exit |-> "leave"]),
     arista_config  |-> Knows([interface |-> "arista_if", nointerface |-> "drop", exit |-> "exit"]),
     arista_if      |-> Knows([shutdown |-> "print", exit |-> "exit"])]

AristaParent ==
    [arista_default |-> "arista_default", arista_enabled |-> "arista_default",
     arista_config |-> "arista_enabled", arista_if |-> "arista_config"]

VendorDoes == CiscoDoes @@ BrocadeDoes @@ DellDoes @@ AristaDoes

VendorParent == CiscoParent @@ BrocadeParent @@ DellParent @@ AristaParent

VendorModes == DOMAIN VendorParent

\* self.enabled_processor and self.config_processor; the other modes have none.
VendorEnabled ==
    [m \in VendorModes |-> IF m = "cisco_default" THEN "cisco_enabled"
                           ELSE IF m = "brocade_default" THEN "brocade_enabled"
                           ELSE IF m = "dell_default" THEN "dell_enabled" ELSE m]

VendorConfig ==
    [m \in VendorModes |-> IF m = "cisco_enabled" THEN "cisco_config"
                           ELSE IF m = "brocade_enabled" THEN "brocade_config" ELSE m]

AnyPipe == [cmd : Commands, pipe : {"none", "drop", "bad"}]
=============================================================================
