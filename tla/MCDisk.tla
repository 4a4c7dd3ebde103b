------------------------------- MODULE MCDisk -------------------------------
(* TLC instances of Disk: two disks and a loop device.  sda is a SATA disk,  *)
(* sdb a SCSI or NVMe disk, with every state, health and array either may    *)
(* have; sdc is a virtual disk without a serial number.                      *)
EXTENDS Disk

MCDrives == {"sda", "sdb"}
MCContained == {<<"S1", "S12">>}

Host(sb, fa, fb, ta, tb, ra, rb, nvme) ==
    [d \in {"sda", "sdb", "sdc", "loop0"} |->
       CASE d = "sda" -> [serial |-> "S1", sysfs |-> FALSE, scsi |-> FALSE,
                          failing |-> fa, state |-> ta, array |-> ra]
         [] d = "sdb" -> [serial |-> sb, sysfs |-> nvme, scsi |-> ~nvme,
                          failing |-> fb, state |-> tb, array |-> rb]
         [] OTHER     -> [serial |-> "", sysfs |-> FALSE, scsi |-> FALSE,
                          failing |-> FALSE, state |-> "Onln", array |-> ""]]

States == {"Onln", "Failed"}

\* Disks in no array: serials, SMART status and drive states vary.
MCHosts == {Host(sb, fa, fb, ta, tb, "", "", n) :
              sb \in {"S2", "S12"}, fa \in BOOLEAN, fb \in BOOLEAN,
              ta \in States, tb \in States, n \in BOOLEAN}

\* Healthy disks in arrays.
MCArrayHosts == {Host("S2", FALSE, FALSE, "Onln", "Onln", ra, rb, FALSE) :
                   ra \in {"", "raid1", "raid5"}, rb \in {"", "raid1", "raid5"}}

MCAllHosts == MCHosts \cup MCArrayHosts
=============================================================================
