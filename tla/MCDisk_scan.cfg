\* Every host, any tool missing, any disks listed.
SPECIFICATION Spec
CONSTANTS
    Dev = {"sda", "sdb", "sdc", "loop0"}
    Skipped = {"loop0"}
    Part = "sda1"
    Drives <- MCDrives
    Serials = {"S1", "S2", "S12"}
    Contained <- MCContained
    Levels = {"raid1", "raid5"}
    MayFail = TRUE
    Hosts <- MCAllHosts
CHECK_DEADLOCK FALSE
INVARIANTS TypeOK SerialOwn RaidOnlyForMembers
PROPERTY DisksKept
