----------------------------- MODULE MCSlotCache -----------------------------
(* TLC instances of SlotCache: three devices, one that dmidecode and lspci   *)
(* know, one that sysfs and dmidecode know, one that no source names.        *)
EXTENDS SlotCache, TLC

CONSTANTS eth0, eth1, eth2, bond0, a0, a1, a2

MCSysfsSlot == (a0 :> None) @@ (a1 :> "sysfs1") @@ (a2 :> None)
MCDmiSlot   == (a0 :> "dmi0") @@ (a1 :> "dmi1") @@ (a2 :> None)
MCLspciSlot == (a0 :> "lspci0") @@ (a1 :> None) @@ (a2 :> None)

\* Three ports, one of them in a bond, and nothing changes.
StableHost ==
    [iface  |-> {eth0, eth1, eth2, bond0},
     lldp   |-> {eth0, eth1, eth2},
     link   |-> (eth0 :> a0) @@ (eth1 :> a1) @@ (eth2 :> a2) @@ (bond0 :> None),
     master |-> (eth0 :> None) @@ (eth1 :> bond0) @@ (eth2 :> None) @@ (bond0 :> None),
     fails  |-> FALSE,
     changes |-> 0]

\* Two free ports; links change twice, and the tools fail.
RestlessHost ==
    [iface  |-> {eth0, eth1, bond0},
     lldp   |-> {eth0},
     link   |-> (eth0 :> a0) @@ (eth1 :> a1) @@ (eth2 :> None) @@ (bond0 :> None),
     master |-> [i \in {eth0, eth1, eth2, bond0} |-> None],
     fails  |-> TRUE,
     changes |-> 2]

MCHost == {StableHost, RestlessHost}
=============================================================================
