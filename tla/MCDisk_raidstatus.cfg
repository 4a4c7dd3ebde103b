\* A failed disk behind a controller.
SPECIFICATION Spec
CONSTANTS
    Dev = {"sda", "sdb", "sdc", "loop0"}
    Skipped = {"loop0"}
    Part = "sda1"
    Drives <- MCDrives
    Serials = {"S1", "S2", "S12"}
    Contained <- MCContained
    Levels = {"raid1", "raid5"}
    MayFail = FALSE
    Hosts <- MCHosts
CHECK_DEADLOCK FALSE
INVARIANT FailedDriveNotOnline
