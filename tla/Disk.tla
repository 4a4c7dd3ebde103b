-------------------------------- MODULE Disk --------------------------------
(***************************************************************************)
(* One scrape of the disk collector (collector/disk_collector.go): the       *)
(* pipeline collectDiskInfo from sysfs over lsblk, smartctl and the RAID     *)
(* tools, each of which may be missing or fail.  The line scanners of lsblk  *)
(* and storcli are stepped line by line, with the variables they carry from  *)
(* one line to the next.  A tool lists its entries in any order; the first   *)
(* line of an entry is a step that names it, and the lines left of it are    *)
(* records of their kind and their value after the trimming and splitting    *)
(* the code does.                                                            *)
(*                                                                         *)
(* What the disks really are (serial, transport, state, array) is chosen at  *)
(* the start and stays; the tools report it, the collector has to.           *)
(***************************************************************************)
EXTENDS Integers, Sequences

CONSTANTS
    Dev,        \* device names below /sys/block
    Skipped,    \* those with a prefix the collector skips: loop, ram, dm-, sr, rom
    Part,       \* the partition lsblk shows below its first disk
    Drives,     \* the disks behind the RAID controller
    Serials,    \* serial numbers
    Contained,  \* <<x, y>>: serial x is a proper substring of serial y
    Levels,     \* RAID levels
    MayFail,    \* whether tools may be missing or fail
    Hosts       \* the hosts considered: what the disks of each really are

ASSUME DevAssumption == Skipped \subseteq Dev /\ Drives \subseteq Dev
                        /\ {Part, ""} \cap Dev = {} /\ Part # ""
ASSUME FailAssumption == MayFail \in BOOLEAN
\* No serial number is spelt, or contains, the word lsblk prints for none.
ASSUME SerialAssumption == {"", "null"} \cap Serials = {} /\ Contained \subseteq Serials \X Serials

VARIABLES
    truth,         \* of a device: serial, sysfs (whether sysfs shows it),
                   \* scsi, failing, state and array
    stage,         \* where collectDiskInfo is
    disks,         \* DiskInfo by device name, for the devices collected
    todo,          \* the entries the present tool has still to list, or the
                   \* disks smartctl has still to be asked about
    lines,         \* the lines of the present entry still to scan
    currentName, currentSerial, currentEID, \* what the scanners carry over
    emitted        \* the disks Collect sent

scanVars == <<lines, currentName, currentSerial, currentEID>>
vars == <<truth, stage, disks, todo, scanVars, emitted>>

NoInfo == [serial |-> "", slot |-> "", raid |-> "", level |-> "", health |-> ""]

\* A virtual disk has no serial number; sysfs shows those of NVMe disks only.
Truth == [serial : Serials \cup {""}, sysfs : BOOLEAN, scsi : BOOLEAN,
          failing : BOOLEAN, state : {"Onln", "Failed"}, array : Levels \cup {""}]

ASSUME HostAssumption ==
    \A w \in Hosts : /\ w \in [Dev -> Truth]
                     /\ \A d, e \in Dev : d # e /\ w[d].serial = w[e].serial => w[d].serial = ""

Init ==
    /\ truth \in Hosts
    /\ stage = "sysfs"
    /\ disks = <<>> /\ todo = {} /\ lines = <<>>
    /\ currentName = "" /\ currentSerial = "" /\ currentEID = ""
    /\ emitted = {}

Line(kind, value) == [kind |-> kind, value |-> value]
Collected == DOMAIN disks

-----------------------------------------------------------------------------
(* collectFromSysfs: the real disks present, with the serial sysfs shows.   *)

FromSysfs(present) ==
    /\ stage = "sysfs"
    /\ disks' = [d \in present \ Skipped |->
                   [NoInfo EXCEPT !.serial = IF truth[d].sysfs THEN truth[d].serial ELSE ""]]
    /\ stage' = "lsblk"
    /\ UNCHANGED <<truth, todo, scanVars, emitted>>

-----------------------------------------------------------------------------
(* collectFromLsblk: name, serial and type lines, a serial of null as such.  *)

\* A tool that is missing or fails changes nothing.
ToolFails(now, following) ==
    /\ MayFail
    /\ stage = now
    /\ stage' = following
    /\ UNCHANGED <<truth, disks, todo, scanVars, emitted>>

\* lsblk lists any of the devices.
Lsblk(S) ==
    /\ stage = "lsblk"
    /\ todo' = S
    /\ stage' = "lsblkScan"
    /\ UNCHANGED <<truth, disks, scanVars, emitted>>

LsblkName(d) ==
    /\ stage = "lsblkScan" /\ lines = <<>> /\ d \in todo
    /\ currentName' = d
    /\ todo' = todo \ {d}
    /\ lines' = <<Line("serial", IF truth[d].serial = "" THEN "null" ELSE truth[d].serial),
                 Line("disk", d)>>
    /\ UNCHANGED <<truth, stage, disks, currentSerial, currentEID, emitted>>

\* A partition is an entry of its own, after its disk, and has no serial.
LsblkPart ==
    /\ stage = "lsblkScan" /\ lines = <<>> /\ currentName \in Dev
    /\ currentName' = Part
    /\ lines' = <<Line("serial", "null"), Line("part", Part)>>
    /\ UNCHANGED <<truth, stage, disks, todo, currentSerial, currentEID, emitted>>

\* Mutant of LsblkSerial: a null is skipped, and the last serial stays.
LsblkSerialSkipsNull ==
    /\ stage = "lsblkScan" /\ lines # <<>> /\ Head(lines).kind = "serial"
    /\ currentSerial' = IF Head(lines).value = "null" THEN currentSerial ELSE Head(lines).value
    /\ lines' = Tail(lines)
    /\ UNCHANGED <<truth, stage, disks, todo, currentName, currentEID, emitted>>

LsblkSerial ==
    /\ stage = "lsblkScan" /\ lines # <<>> /\ Head(lines).kind = "serial"
    /\ currentSerial' = Head(lines).value
    /\ lines' = Tail(lines)
    /\ UNCHANGED <<truth, stage, disks, todo, currentName, currentEID, emitted>>

\* Mutant of LsblkType: every entry is stored, known or not.
LsblkTypeAdds ==
    /\ stage = "lsblkScan" /\ lines # <<>> /\ Head(lines).kind \in {"disk", "part"}
    /\ disks' = [d \in Collected \cup {currentName} |->
                   IF d \in Collected THEN disks[d] ELSE [NoInfo EXCEPT !.serial = currentSerial]]
    /\ lines' = Tail(lines)
    /\ UNCHANGED <<truth, stage, todo, currentName, currentSerial, currentEID, emitted>>

\* The type line closes an entry: a disk without a serial takes the last one seen.
LsblkType ==
    /\ stage = "lsblkScan" /\ lines # <<>> /\ Head(lines).kind \in {"disk", "part"}
    /\ disks' = IF /\ Head(lines).kind = "disk"
                   /\ currentName \in Collected
                   /\ disks[currentName].serial = ""
                  THEN [disks EXCEPT ![currentName].serial = currentSerial]
                  ELSE disks
    /\ lines' = Tail(lines)
    /\ UNCHANGED <<truth, stage, todo, currentName, currentSerial, currentEID, emitted>>

LsblkEnd ==
    /\ stage = "lsblkScan" /\ lines = <<>> /\ todo = {}
    /\ stage' = "smartctl"
    /\ todo' = Collected
    /\ UNCHANGED <<truth, disks, scanVars, emitted>>

-----------------------------------------------------------------------------
(* collectFromSmartctl, disk by disk.                                       *)

\* smartctl exits with a status other than 0 for a failing disk, as for one it
\* cannot open: the output is thrown away.  Only SCSI disks have the line
\* "SMART Health Status:", where the others say "overall-health ... result:",
\* and only the others spell "Serial Number:" with a capital N.
Smartctl(d, opens) ==
    /\ stage = "smartctl"
    /\ d \in todo
    /\ todo' = todo \ {d}
    /\ disks' = IF opens /\ ~truth[d].failing
                  THEN [disks EXCEPT
                          ![d].serial = IF @ = "" /\ ~truth[d].scsi THEN truth[d].serial ELSE @,
                          ![d].health = IF truth[d].scsi THEN "OK" ELSE @]
                  ELSE disks
    /\ UNCHANGED <<truth, stage, scanVars, emitted>>

SmartctlEnd ==
    /\ stage = "smartctl"
    /\ todo = {}
    /\ stage' = "storcli"
    /\ UNCHANGED <<truth, disks, todo, scanVars, emitted>>

-----------------------------------------------------------------------------
(* collectFromRaidTools: storcli, lsraid, mdadm.                            *)

\* Mutant of EidValue: the first part of the split.
EidValueFirst(d) == "EID"

\* Splitting the line  "EID:Slt":"252:0"  at its colons and taking the second
\* part leaves the word Slt, whatever the slot.
EidValue(d) == "Slt"

Storcli ==
    /\ stage = "storcli"
    /\ todo' = Drives
    /\ currentEID' = "" /\ currentSerial' = ""
    /\ stage' = "storcliScan"
    /\ UNCHANGED <<truth, disks, lines, currentName, emitted>>

StorcliEid(d) ==
    /\ stage = "storcliScan" /\ lines = <<>> /\ d \in todo
    /\ currentEID' = EidValue(d)
    /\ todo' = todo \ {d}
    /\ lines' = <<Line("state", truth[d].state), Line("sn", truth[d].serial)>>
    /\ UNCHANGED <<truth, stage, disks, currentName, currentSerial, emitted>>

\* Mutant of StorcliState: the slot is not compared.
StorcliStateAll ==
    /\ stage = "storcliScan" /\ lines # <<>> /\ Head(lines).kind = "state"
    /\ disks' = [d \in Collected |-> [disks[d] EXCEPT !.raid = Head(lines).value]]
    /\ lines' = Tail(lines)
    /\ UNCHANGED <<truth, stage, todo, currentName, currentSerial, currentEID, emitted>>

\* Every disk in the present slot gets the state.
StorcliState ==
    /\ stage = "storcliScan" /\ lines # <<>> /\ Head(lines).kind = "state"
    /\ disks' = [d \in Collected |->
                   IF disks[d].slot = currentEID
                     THEN [disks[d] EXCEPT !.raid = Head(lines).value] ELSE disks[d]]
    /\ lines' = Tail(lines)
    /\ UNCHANGED <<truth, stage, todo, currentName, currentSerial, currentEID, emitted>>

\* Every disk whose serial number occurs in the drive's is in its slot.
Matches(x, y) == x # "" /\ (x = y \/ <<x, y>> \in Contained)

StorcliSerial ==
    /\ stage = "storcliScan" /\ lines # <<>> /\ Head(lines).kind = "sn"
    /\ currentSerial' = Head(lines).value
    /\ disks' = [d \in Collected |->
                   IF Matches(disks[d].serial, currentSerial')
                     THEN [disks[d] EXCEPT !.slot = currentEID, !.raid = "online"]
                     ELSE disks[d]]
    /\ lines' = Tail(lines)
    /\ UNCHANGED <<truth, stage, todo, currentName, currentEID, emitted>>

StorcliEnd ==
    /\ stage = "storcliScan" /\ lines = <<>> /\ todo = {}
    /\ stage' = "lsraid"
    /\ UNCHANGED <<truth, disks, todo, scanVars, emitted>>

\* parseLsraidOutput: the devices it names that were collected, first level wins.
Lsraid(named) ==
    /\ stage = "lsraid"
    /\ disks' = [d \in Collected |->
                   IF d \in named /\ disks[d].level = ""
                     THEN [disks[d] EXCEPT !.level = truth[d].array] ELSE disks[d]]
    /\ stage' = "mdadm"
    /\ UNCHANGED <<truth, todo, scanVars, emitted>>

\* parseMdadmOutput: a level goes to every disk that has none yet, so that the
\* first array decides; without an array it is "", and nothing changes.
Mdadm(first) ==
    /\ stage = "mdadm"
    /\ disks' = [d \in Collected |->
                   IF disks[d].level = "" THEN [disks[d] EXCEPT !.level = first] ELSE disks[d]]
    /\ stage' = "emit"
    /\ UNCHANGED <<truth, todo, scanVars, emitted>>

\* Collect sends a metric for each.
Emit ==
    /\ stage = "emit"
    /\ emitted' = {[device |-> d, info |-> disks[d]] : d \in Collected}
    /\ stage' = "done"
    /\ UNCHANGED <<truth, disks, todo, scanVars>>

-----------------------------------------------------------------------------
\* The arrays of the host: mdadm can report any of them first, or none at all.
Arrays == {truth[d].array : d \in Dev} \ {""}

Next ==
    \/ \E present \in SUBSET Dev : FromSysfs(present)
    \/ ToolFails("lsblk", "lsblkScan") \/ ToolFails("storcli", "lsraid")
    \/ ToolFails("lsraid", "mdadm") \/ ToolFails("mdadm", "emit")
    \/ \E S \in SUBSET Dev : Lsblk(S)
    \/ \E d \in todo : LsblkName(d)
    \/ LsblkPart \/ LsblkSerial \/ LsblkType \/ LsblkEnd
    \/ \E d \in todo, opens \in {TRUE, ~MayFail} : Smartctl(d, opens)
    \/ SmartctlEnd
    \/ Storcli
    \/ \E d \in todo : StorcliEid(d)
    \/ StorcliState \/ StorcliSerial \/ StorcliEnd
    \/ \E named \in SUBSET Dev : Lsraid(named)
    \/ \E first \in Arrays \cup {""} : Mdadm(first)
    \/ Emit

Spec == Init /\ [][Next]_vars

-----------------------------------------------------------------------------
(* Properties.                                                             *)

\* What a slot can be: the name of the column, or that of the drive the slot is of.
Slots == {"Slt"} \cup Drives
RaidStates == {"online", "offline", "failed", "Onln", "Failed"}

Info == [serial : Serials \cup {"", "null"}, slot : Slots \cup {""},
         raid : RaidStates \cup {""}, level : Levels \cup {""},
         health : {"", "OK", "PASSED", "FAILED"}]

\* The state has its type: the labels of node_disk_info have the values that
\* docs/metrics.md gives for them or those that the tools print.
TypeOK ==
    /\ truth \in Hosts
    /\ stage \in {"sysfs", "lsblk", "lsblkScan", "smartctl", "storcli", "storcliScan",
                  "lsraid", "mdadm", "emit", "done"}
    /\ Collected \subseteq Dev /\ \A d \in Collected : disks[d] \in Info
    /\ todo \subseteq Dev
    /\ currentName \in Dev \cup {Part, ""}
    /\ currentSerial \in Serials \cup {"null", ""}
    /\ currentEID \in Slots \cup {""}
    /\ \A m \in emitted : m.device \in Dev /\ m.info \in Info

\* From sysfs on no stage loses a disk, and none adds what sysfs did not list:
\* no partition or skipped device becomes a disk through a later tool.
DisksKept == [][stage # "sysfs" => DOMAIN disks' = DOMAIN disks]_vars

\* A serial number is the disk's own, or "null" for a disk without one: what the
\* lsblk scanner carries from line to line never ends up at the wrong disk, in
\* whatever order and selection lsblk lists them.  That lsblk prints null only for
\* a disk without a serial number is assumed.
SerialOwn ==
    \A d \in Collected :
        \/ disks[d].serial \in {"", truth[d].serial}
        \/ disks[d].serial = "null" /\ truth[d].serial = ""

\* Only a disk whose serial occurs in that of a drive of the controller has a
\* slot or a RAID status.  Which drive the status is of is not said: every slot is
\* the word Slt, so that a State line reaches all disks matched before it, and a
\* member can have the state of another drive.
RaidOnlyForMembers ==
    \A d \in Collected : disks[d].raid # "" \/ disks[d].slot # "" =>
        \E e \in Drives : Matches(truth[d].serial, truth[e].serial)

\* docs/metrics.md, the RaidDiskOffline alert: raid_status tells a failed disk
\* from one that is online.
FailedDriveNotOnline ==
    \A m \in emitted : truth[m.device].state = "Failed" => m.info.raid \notin {"online", "Onln"}
=============================================================================
