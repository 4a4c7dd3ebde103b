----------------------------- MODULE Disk_proof -----------------------------
(***************************************************************************)
(* Proofs about Disk, for any devices, partition, drives, serial numbers     *)
(* and hosts, whatever the tools list and whichever of them fail.            *)
(*                                                                         *)
(* SerialOwn is not inductive: the serial a disk takes is the one the lsblk  *)
(* scanner carries, so the invariant also says what the lines left of an     *)
(* entry are and what the scanner carries by then (EntryInv).  For           *)
(* RaidOnlyForMembers it is the slot of storcli's scanner that has to be     *)
(* known: it is not "" once a State line can come, so that such a line       *)
(* reaches only disks with a slot.                                           *)
(***************************************************************************)
EXTENDS Disk, TLAPS

\* The type of the collector's state, without its hosts and its lines; storcli
\* lists drives of the controller alone.
DiskTypeOK ==
    /\ stage \in {"sysfs", "lsblk", "lsblkScan", "smartctl", "storcli", "storcliScan",
                  "lsraid", "mdadm", "emit", "done"}
    /\ todo \subseteq Dev
    /\ stage = "storcliScan" => todo \subseteq Drives
    /\ currentName \in Dev \cup {Part, ""}
    /\ currentSerial \in Serials \cup {"null", ""}
    /\ currentEID \in Slots \cup {""}

\* What a disk's record may say: values of their types, the serial of the disk
\* itself, and a slot or a status for members alone.
Good(d, info) ==
    /\ info \in Info
    /\ \/ info.serial \in {"", truth[d].serial}
       \/ info.serial = "null" /\ truth[d].serial = ""
    /\ info.raid # "" \/ info.slot # "" =>
          \E e \in Drives : Matches(truth[d].serial, truth[e].serial)
DisksGood == Collected \subseteq Dev /\ \A d \in Collected : Good(d, disks[d])
EmittedType == \A m \in emitted : m.device \in Dev /\ m.info \in Info

\* What lsblk prints as the serial number of a device.
SerialShown(d) == IF truth[d].serial = "" THEN "null" ELSE truth[d].serial

\* The lines left of an entry, and what the scanner carries with them.
DiskEntry ==
    /\ currentName \in Dev
    /\ \/ lines = <<Line("serial", SerialShown(currentName)), Line("disk", currentName)>>
       \/ lines = <<Line("disk", currentName)>> /\ currentSerial = SerialShown(currentName)
PartEntry == \/ lines = <<Line("serial", "null"), Line("part", Part)>>
             \/ lines = <<Line("part", Part)>>
DriveEntry(e) == \/ lines = <<Line("state", truth[e].state), Line("sn", truth[e].serial)>>
                 \/ lines = <<Line("sn", truth[e].serial)>>
EntryInv ==
    \/ lines = <<>>
    \/ stage = "lsblkScan" /\ (DiskEntry \/ PartEntry)
    \/ stage = "storcliScan" /\ currentEID = "Slt" /\ \E e \in Drives : DriveEntry(e)

DInv == /\ truth \in Hosts
        /\ DiskTypeOK
        /\ DisksGood
        /\ EmittedType
        /\ EntryInv

-----------------------------------------------------------------------------
LEMMA LinesTwo ==
    ASSUME NEW a, NEW b
    PROVE  /\ <<a, b>> # <<>> /\ Head(<<a, b>>) = a /\ Tail(<<a, b>>) = <<b>>
           /\ <<a>> # <<>> /\ Head(<<a>>) = a /\ Tail(<<a>>) = <<>>
  OBVIOUS

\* The kind and the value of a line.
LEMMA LineParts == ASSUME NEW k, NEW v
                   PROVE  Line(k, v).kind = k /\ Line(k, v).value = v
  BY DEF Line

\* Every device has the type of a disk.
LEMMA TruthTyped ==
    ASSUME truth \in Hosts, NEW d \in Dev
    PROVE  /\ truth[d].serial \in Serials \cup {""}
           /\ truth[d].state \in {"Onln", "Failed"}
           /\ truth[d].array \in Levels \cup {""}
  <1>1. truth \in [Dev -> Truth]
    BY HostAssumption
  <1>2. truth[d] \in Truth
    BY <1>1
  <1> QED  BY <1>2 DEF Truth

\* The fields of a record of the collector's type.
LEMMA InfoFields ==
    ASSUME NEW info \in Info
    PROVE  /\ info.serial \in Serials \cup {"", "null"}
           /\ info.slot \in Slots \cup {""}
           /\ info.raid \in RaidStates \cup {""}
           /\ info.level \in Levels \cup {""}
           /\ info.health \in {"", "OK", "PASSED", "FAILED"}
  BY DEF Info

\* A record stays good with the disk's own serial, as shown by sysfs and smartctl
\* or as printed by lsblk, in it.
LEMMA GoodSerial ==
    ASSUME truth \in Hosts, NEW d \in Dev, NEW info, Good(d, info),
           NEW serial \in {"", truth[d].serial, SerialShown(d)}
    PROVE  Good(d, [info EXCEPT !.serial = serial])
  <1> DEFINE new == [info EXCEPT !.serial = serial]
  <1>1. serial \in Serials \cup {"", "null"}
    BY TruthTyped DEF SerialShown
  <1>2. info \in Info
    BY DEF Good
  <1>3. new \in Info
    BY <1>1, <1>2 DEF Info
  <1>4. new.serial = serial /\ new.raid = info.raid /\ new.slot = info.slot
    BY <1>2 DEF Info
  <1>5. \/ serial \in {"", truth[d].serial}
        \/ serial = "null" /\ truth[d].serial = ""
    BY DEF SerialShown
  <1> HIDE DEF new
  <1>6. Good(d, new)
    BY <1>3, <1>4, <1>5 DEF Good
  <1> QED  BY <1>6 DEF new

\* A record stays good with another level or health.
LEMMA GoodLevel ==
    ASSUME NEW d \in Dev, NEW info, Good(d, info), NEW level \in Levels \cup {""}
    PROVE  Good(d, [info EXCEPT !.level = level])
  <1> DEFINE new == [info EXCEPT !.level = level]
  <1>1. info \in Info
    BY DEF Good
  <1>2. new \in Info
    BY <1>1 DEF Info
  <1>3. new.serial = info.serial /\ new.raid = info.raid /\ new.slot = info.slot
    BY <1>1 DEF Info
  <1> HIDE DEF new
  <1>4. Good(d, new)
    BY <1>2, <1>3 DEF Good
  <1> QED  BY <1>4 DEF new

LEMMA GoodHealth ==
    ASSUME NEW d \in Dev, NEW info, Good(d, info), NEW health \in {"", "OK", "PASSED", "FAILED"}
    PROVE  Good(d, [info EXCEPT !.health = health])
  <1> DEFINE new == [info EXCEPT !.health = health]
  <1>1. info \in Info
    BY DEF Good
  <1>2. new \in Info
    BY <1>1 DEF Info
  <1>3. new.serial = info.serial /\ new.raid = info.raid /\ new.slot = info.slot
    BY <1>1 DEF Info
  <1> HIDE DEF new
  <1>4. Good(d, new)
    BY <1>2, <1>3 DEF Good
  <1> QED  BY <1>4 DEF new

\* The record of a member stays good with any status.
LEMMA GoodRaid ==
    ASSUME NEW d \in Dev, NEW info, Good(d, info),
           \E e \in Drives : Matches(truth[d].serial, truth[e].serial),
           NEW raid \in RaidStates \cup {""}
    PROVE  Good(d, [info EXCEPT !.raid = raid])
  <1> DEFINE new == [info EXCEPT !.raid = raid]
  <1>1. info \in Info
    BY DEF Good
  <1>2. new \in Info
    BY <1>1 DEF Info
  <1>3. new.serial = info.serial
    BY <1>1 DEF Info
  <1> HIDE DEF new
  <1>4. Good(d, new)
    BY <1>2, <1>3 DEF Good
  <1> QED  BY <1>4 DEF new

\* The record of a member stays good with a slot and the status online.
LEMMA GoodSlot ==
    ASSUME NEW d \in Dev, NEW info, Good(d, info),
           \E e \in Drives : Matches(truth[d].serial, truth[e].serial),
           NEW slot \in Slots \cup {""}
    PROVE  Good(d, [info EXCEPT !.slot = slot, !.raid = "online"])
  <1> DEFINE new == [info EXCEPT !.slot = slot, !.raid = "online"]
  <1>1. info \in Info
    BY DEF Good
  <1>2. new \in Info
    BY <1>1 DEF Info, RaidStates
  <1>3. new.serial = info.serial
    BY <1>1 DEF Info
  <1> HIDE DEF new
  <1>4. Good(d, new)
    BY <1>2, <1>3 DEF Good
  <1> QED  BY <1>4 DEF new

\* A disk's serial number that occurs in a drive's is that of the disk itself, and
\* not the word lsblk prints for none.
LEMMA MatchIsOwn ==
    ASSUME truth \in Hosts, NEW d \in Dev, NEW info, Good(d, info), NEW e \in Drives,
           Matches(info.serial, truth[e].serial)
    PROVE  Matches(truth[d].serial, truth[e].serial)
  <1>1. e \in Dev
    BY DevAssumption
  <1>2. truth[e].serial \in Serials \cup {""}
    BY <1>1, TruthTyped
  <1>3. info.serial # ""
    BY DEF Matches
  <1>4. info.serial # "null"
    <2>1. <<"null", truth[e].serial>> \notin Contained
      BY SerialAssumption
    <2>2. truth[e].serial # "null"
      BY <1>2, SerialAssumption
    <2> QED  BY <2>1, <2>2 DEF Matches
  <1>5. info.serial = truth[d].serial
    BY <1>3, <1>4 DEF Good
  <1> QED  BY <1>5

-----------------------------------------------------------------------------
LEMMA DInit == Init => DInv
  <1> SUFFICES ASSUME Init PROVE DInv
    OBVIOUS
  <1>1. truth \in Hosts /\ DiskTypeOK /\ EmittedType /\ EntryInv
    BY DEF Init, DiskTypeOK, EmittedType, EntryInv
  <1>2. DisksGood
    <2>1. DOMAIN <<>> = {}
      OBVIOUS
    <2>2. Collected = {}
      BY <2>1 DEF Init, Collected
    <2> QED  BY <2>2 DEF DisksGood
  <1> QED  BY <1>1, <1>2 DEF DInv

\* The disks stay good when the record each of them gets is.
LEMMA GoodKept ==
    ASSUME DisksGood, truth' = truth, DOMAIN disks' = Collected,
           \A d \in Collected : Good(d, disks'[d])
    PROVE  DisksGood'
  <1>1. Collected' = Collected
    BY DEF Collected
  <1>2. \A d \in Collected : Good(d, disks[d])'
    BY DEF Good
  <1> QED  BY <1>1, <1>2 DEF DisksGood

\* What a step does that leaves the disks, what was emitted or the lines alone.
LEMMA DisksFrame == DisksGood /\ UNCHANGED <<truth, disks>> => DisksGood'
  BY GoodKept DEF DisksGood, Collected
LEMMA EmittedFrame == EmittedType /\ UNCHANGED emitted => EmittedType'
  BY DEF EmittedType
LEMMA NoLines == EntryInv /\ stage \notin {"lsblkScan", "storcliScan"} => lines = <<>>
  BY DEF EntryInv
LEMMA NoEntry == lines' = <<>> => EntryInv'
  BY DEF EntryInv

\* The scanner meets a line of a kind only with the entry the line is in.
LEMMA SerialLine ==
    ASSUME DInv, stage = "lsblkScan", lines # <<>>, Head(lines).kind = "serial"
    PROVE  \/ /\ currentName \in Dev
              /\ Head(lines).value = SerialShown(currentName)
              /\ Tail(lines) = <<Line("disk", currentName)>>
           \/ Head(lines).value = "null" /\ Tail(lines) = <<Line("part", Part)>>
  <1>1. DiskEntry \/ PartEntry
    BY DEF DInv, EntryInv
  <1>2. ASSUME NEW v PROVE Head(<<Line("disk", v)>>).kind # "serial"
    BY LinesTwo, LineParts
  <1>3. ASSUME NEW v PROVE Head(<<Line("part", v)>>).kind # "serial"
    BY LinesTwo, LineParts
  <1>4. CASE DiskEntry
    <2>1. lines = <<Line("serial", SerialShown(currentName)), Line("disk", currentName)>>
      BY <1>2, <1>4 DEF DiskEntry
    <2>2. Head(lines) = Line("serial", SerialShown(currentName))
          /\ Tail(lines) = <<Line("disk", currentName)>>
      BY <2>1, LinesTwo
    <2> QED  BY <2>2, <1>4, LineParts DEF DiskEntry
  <1>5. CASE PartEntry
    <2>1. lines = <<Line("serial", "null"), Line("part", Part)>>
      BY <1>3, <1>5 DEF PartEntry
    <2>2. Head(lines) = Line("serial", "null") /\ Tail(lines) = <<Line("part", Part)>>
      BY <2>1, LinesTwo
    <2> QED  BY <2>2, LineParts
  <1> QED  BY <1>1, <1>4, <1>5

LEMMA TypeLine ==
    ASSUME DInv, stage = "lsblkScan", lines # <<>>, Head(lines).kind \in {"disk", "part"}
    PROVE  /\ Tail(lines) = <<>>
           /\ Head(lines).kind = "disk" =>
                currentName \in Dev /\ currentSerial = SerialShown(currentName)
  <1>1. DiskEntry \/ PartEntry
    BY DEF DInv, EntryInv
  <1>2. ASSUME NEW v, NEW w PROVE Head(<<Line("serial", v), w>>).kind \notin {"disk", "part"}
    BY LinesTwo, LineParts
  <1>3. CASE DiskEntry
    <2>1. lines = <<Line("disk", currentName)>> /\ currentSerial = SerialShown(currentName)
      BY <1>2, <1>3 DEF DiskEntry
    <2> QED  BY <2>1, <1>3, LinesTwo DEF DiskEntry
  <1>4. CASE PartEntry
    <2>1. lines = <<Line("part", Part)>>
      BY <1>2, <1>4 DEF PartEntry
    <2>2. Head(lines) = Line("part", Part) /\ Tail(lines) = <<>>
      BY <2>1, LinesTwo
    <2>3. Head(lines).kind = "part"
      BY <2>2, LineParts
    <2> QED  BY <2>2, <2>3
  <1> QED  BY <1>1, <1>3, <1>4

LEMMA StateLine ==
    ASSUME DInv, stage = "storcliScan", lines # <<>>, Head(lines).kind = "state"
    PROVE  /\ currentEID = "Slt"
           /\ \E e \in Drives : /\ Head(lines).value = truth[e].state
                                /\ Tail(lines) = <<Line("sn", truth[e].serial)>>
  <1>1. currentEID = "Slt"
    BY DEF DInv, EntryInv
  <1>2. PICK e \in Drives : DriveEntry(e)
    BY DEF DInv, EntryInv
  <1>3. Head(<<Line("sn", truth[e].serial)>>).kind # "state"
    BY LinesTwo, LineParts
  <1>4. lines = <<Line("state", truth[e].state), Line("sn", truth[e].serial)>>
    BY <1>2, <1>3 DEF DriveEntry
  <1>5. Head(lines) = Line("state", truth[e].state)
        /\ Tail(lines) = <<Line("sn", truth[e].serial)>>
    BY <1>4, LinesTwo
  <1> QED  BY <1>1, <1>5, LineParts

LEMMA SnLine ==
    ASSUME DInv, stage = "storcliScan", lines # <<>>, Head(lines).kind = "sn"
    PROVE  /\ Tail(lines) = <<>>
           /\ \E e \in Drives : Head(lines).value = truth[e].serial
  <1>1. PICK e \in Drives : DriveEntry(e)
    BY DEF DInv, EntryInv
  <1>2. Head(<<Line("state", truth[e].state), Line("sn", truth[e].serial)>>).kind # "sn"
    BY LinesTwo, LineParts
  <1>3. lines = <<Line("sn", truth[e].serial)>>
    BY <1>1, <1>2 DEF DriveEntry
  <1>4. Head(lines) = Line("sn", truth[e].serial) /\ Tail(lines) = <<>>
    BY <1>3, LinesTwo
  <1> QED  BY <1>4, LineParts

-----------------------------------------------------------------------------
\* The actions that change the disks, one lemma each.

LEMMA SysfsGood ==
    ASSUME DInv, NEW present \in SUBSET Dev, FromSysfs(present)
    PROVE  DInv'
  <1>1. \A d \in present \ Skipped :
            disks'[d] = [NoInfo EXCEPT !.serial = IF truth[d].sysfs THEN truth[d].serial ELSE ""]
    BY DEF FromSysfs
  <1>2. DOMAIN disks' = present \ Skipped /\ truth' = truth
    BY DEF FromSysfs
  <1>3. ASSUME NEW d \in Dev PROVE Good(d, NoInfo)
    <2>1. NoInfo \in Info /\ NoInfo.serial = "" /\ NoInfo.raid = "" /\ NoInfo.slot = ""
      BY DEF NoInfo, Info
    <2> QED  BY <2>1 DEF Good
  <1>4. \A d \in present \ Skipped : Good(d, disks'[d])
    <2> SUFFICES ASSUME NEW d \in present \ Skipped PROVE Good(d, disks'[d])
      OBVIOUS
    <2> DEFINE serial == IF truth[d].sysfs THEN truth[d].serial ELSE ""
    <2>1. serial \in {"", truth[d].serial, SerialShown(d)}
      OBVIOUS
    <2>2. truth \in Hosts /\ d \in Dev /\ Good(d, NoInfo)
      BY <1>3 DEF DInv
    <2>3. disks'[d] = [NoInfo EXCEPT !.serial = serial]
      BY <1>1
    <2> HIDE DEF serial
    <2>4. Good(d, [NoInfo EXCEPT !.serial = serial])
      BY <2>1, <2>2, GoodSerial
    <2> QED  BY <2>3, <2>4
  <1>5. DisksGood'
    <2>1. \A d \in present \ Skipped : Good(d, disks[d])'
      BY <1>2, <1>4 DEF Good
    <2> QED  BY <1>2, <2>1 DEF DisksGood, Collected
  <1>6. lines = <<>>
    BY NoLines DEF DInv, FromSysfs
  <1>7. EntryInv' /\ EmittedType'
    BY <1>6, NoEntry, EmittedFrame DEF DInv, FromSysfs, scanVars
  <1>8. (truth \in Hosts)' /\ DiskTypeOK'
    BY DEF DInv, DiskTypeOK, FromSysfs, scanVars
  <1> QED  BY <1>5, <1>7, <1>8 DEF DInv

LEMMA TypeGood ==
    ASSUME DInv, LsblkType
    PROVE  DInv'
  <1>1. DOMAIN disks' = Collected /\ truth' = truth
    BY DEF LsblkType, Collected
  <1>2. Tail(lines) = <<>>
    BY TypeLine DEF LsblkType
  <1>3. ASSUME NEW d \in Collected PROVE Good(d, disks'[d])
    <2>1. Good(d, disks[d]) /\ d \in Dev
      BY DEF DInv, DisksGood
    <2>2. CASE disks'[d] = disks[d]
      BY <2>1, <2>2
    <2>3. CASE /\ Head(lines).kind = "disk"
               /\ currentName = d
               /\ disks'[d] = [disks[d] EXCEPT !.serial = currentSerial]
      <3>1. currentSerial = SerialShown(d)
        BY <2>3, TypeLine DEF LsblkType
      <3>2. Good(d, [disks[d] EXCEPT !.serial = currentSerial])
        BY <2>1, <3>1, GoodSerial DEF DInv
      <3> QED  BY <2>3, <3>2
    <2> QED  BY <2>2, <2>3 DEF LsblkType, Collected
  <1>4. DisksGood'
    BY <1>1, <1>3, GoodKept DEF DInv
  <1>5. EntryInv' /\ EmittedType'
    BY <1>2, NoEntry, EmittedFrame DEF DInv, LsblkType
  <1>6. (truth \in Hosts)' /\ DiskTypeOK'
    BY DEF DInv, DiskTypeOK, LsblkType
  <1> QED  BY <1>4, <1>5, <1>6 DEF DInv

LEMMA SmartctlGood ==
    ASSUME DInv, NEW d \in todo, NEW opens \in BOOLEAN, Smartctl(d, opens)
    PROVE  DInv'
  <1>1. DOMAIN disks' = Collected /\ truth' = truth
    BY DEF Smartctl, Collected
  <1>2. ASSUME NEW e \in Collected PROVE Good(e, disks'[e])
    <2>1. Good(e, disks[e]) /\ e \in Dev
      BY DEF DInv, DisksGood
    <2>2. CASE disks'[e] = disks[e]
      BY <2>1, <2>2
    <2>3. CASE disks' # disks /\ e = d
      <3> DEFINE serial == IF disks[d].serial = "" /\ ~truth[d].scsi THEN truth[d].serial
                                                                     ELSE disks[d].serial
                 first == [disks[d] EXCEPT !.serial = serial]
                 health == IF truth[d].scsi THEN "OK" ELSE disks[d].health
      <3>1. disks[d] \in Info
        BY <2>1, <2>3 DEF Good
      <3>2. disks'[d] = [first EXCEPT !.health = health]
        BY <2>3 DEF Smartctl, Collected
      <3>3. Good(d, first)
        <4>1. CASE disks[d].serial = "" /\ ~truth[d].scsi
          BY <2>1, <2>3, <4>1, GoodSerial DEF DInv
        <4>2. CASE ~(disks[d].serial = "" /\ ~truth[d].scsi)
          <5>1. first = disks[d]
            BY <3>1, <4>2 DEF Info
          <5> QED  BY <5>1, <2>1, <2>3
        <4> QED  BY <4>1, <4>2
      <3>4. health \in {"", "OK", "PASSED", "FAILED"}
        BY <3>1, InfoFields
      <3> HIDE DEF first, health
      <3>5. Good(d, [first EXCEPT !.health = health])
        BY <2>1, <2>3, <3>3, <3>4, GoodHealth
      <3> QED  BY <2>3, <3>2, <3>5
    <2> QED  BY <2>2, <2>3 DEF Smartctl, Collected
  <1>3. DisksGood'
    BY <1>1, <1>2, GoodKept DEF DInv
  <1>4. lines = <<>>
    BY NoLines DEF DInv, Smartctl
  <1>5. EntryInv' /\ EmittedType'
    BY <1>4, NoEntry, EmittedFrame DEF DInv, Smartctl, scanVars
  <1>6. (truth \in Hosts)' /\ DiskTypeOK'
    BY DEF DInv, DiskTypeOK, Smartctl, scanVars
  <1> QED  BY <1>3, <1>5, <1>6 DEF DInv

LEMMA StateGood ==
    ASSUME DInv, StorcliState
    PROVE  DInv'
  <1>1. DOMAIN disks' = Collected /\ truth' = truth
    BY DEF StorcliState, Collected
  <1>2. PICK e \in Drives : /\ Head(lines).value = truth[e].state
                            /\ Tail(lines) = <<Line("sn", truth[e].serial)>>
    BY StateLine DEF StorcliState
  <1>3. currentEID = "Slt"
    BY StateLine DEF StorcliState
  <1>4. truth[e].state \in RaidStates \cup {""}
    BY DevAssumption, TruthTyped DEF DInv, RaidStates
  <1>5. ASSUME NEW d \in Collected PROVE Good(d, disks'[d])
    <2>1. Good(d, disks[d]) /\ d \in Dev
      BY DEF DInv, DisksGood
    <2>2. CASE disks[d].slot # currentEID
      BY <2>1, <2>2 DEF StorcliState
    <2>3. CASE disks[d].slot = currentEID
      <3>1. \E f \in Drives : Matches(truth[d].serial, truth[f].serial)
        BY <1>3, <2>1, <2>3 DEF Good
      <3>2. disks'[d] = [disks[d] EXCEPT !.raid = truth[e].state]
        BY <1>2, <2>3 DEF StorcliState
      <3>3. Good(d, [disks[d] EXCEPT !.raid = truth[e].state])
        BY <1>4, <2>1, <3>1, GoodRaid
      <3> QED  BY <3>2, <3>3
    <2> QED  BY <2>2, <2>3
  <1>6. DisksGood'
    BY <1>1, <1>5, GoodKept DEF DInv
  <1>7. EntryInv'
    <2>1. DriveEntry(e)'
      BY <1>2 DEF DriveEntry, StorcliState
    <2> QED  BY <2>1, <1>3 DEF EntryInv, StorcliState
  <1>8. (truth \in Hosts)' /\ DiskTypeOK' /\ EmittedType'
    BY EmittedFrame DEF DInv, DiskTypeOK, StorcliState
  <1> QED  BY <1>6, <1>7, <1>8 DEF DInv

LEMMA SnGood ==
    ASSUME DInv, StorcliSerial
    PROVE  DInv'
  <1>1. DOMAIN disks' = Collected /\ truth' = truth
    BY DEF StorcliSerial, Collected
  <1>2. PICK e \in Drives : Head(lines).value = truth[e].serial
    BY SnLine DEF StorcliSerial
  <1>3. currentSerial' = truth[e].serial /\ Tail(lines) = <<>>
    BY <1>2, SnLine DEF StorcliSerial
  <1>4. ASSUME NEW d \in Collected PROVE Good(d, disks'[d])
    <2>1. Good(d, disks[d]) /\ d \in Dev
      BY DEF DInv, DisksGood
    <2>2. CASE ~Matches(disks[d].serial, truth[e].serial)
      BY <1>3, <2>1, <2>2 DEF StorcliSerial
    <2>3. CASE Matches(disks[d].serial, truth[e].serial)
      <3>1. Matches(truth[d].serial, truth[e].serial)
        BY <2>1, <2>3, MatchIsOwn DEF DInv
      <3>2. disks'[d] = [disks[d] EXCEPT !.slot = currentEID, !.raid = "online"]
        BY <1>3, <2>3 DEF StorcliSerial
      <3>3. currentEID \in Slots \cup {""}
        BY DEF DInv, DiskTypeOK
      <3>4. Good(d, [disks[d] EXCEPT !.slot = currentEID, !.raid = "online"])
        BY <2>1, <3>1, <3>3, GoodSlot
      <3> QED  BY <3>2, <3>4
    <2> QED  BY <2>2, <2>3
  <1>5. DisksGood'
    BY <1>1, <1>4, GoodKept DEF DInv
  <1>6. EntryInv' /\ EmittedType'
    BY <1>3, NoEntry, EmittedFrame DEF DInv, StorcliSerial
  <1>7. truth[e].serial \in Serials \cup {""}
    BY DevAssumption, TruthTyped DEF DInv
  <1>8. (truth \in Hosts)' /\ DiskTypeOK'
    BY <1>3, <1>7 DEF DInv, DiskTypeOK, StorcliSerial
  <1> QED  BY <1>5, <1>6, <1>8 DEF DInv

LEMMA LsraidGood ==
    ASSUME DInv, NEW named, Lsraid(named)
    PROVE  DInv'
  <1>1. DOMAIN disks' = Collected /\ truth' = truth
    BY DEF Lsraid, Collected
  <1>2. ASSUME NEW d \in Collected PROVE Good(d, disks'[d])
    <2>1. Good(d, disks[d]) /\ d \in Dev
      BY DEF DInv, DisksGood
    <2>2. CASE disks'[d] = disks[d]
      BY <2>1, <2>2
    <2>3. CASE disks'[d] = [disks[d] EXCEPT !.level = truth[d].array]
      <3>1. truth[d].array \in Levels \cup {""}
        BY <2>1, TruthTyped DEF DInv
      <3>2. Good(d, [disks[d] EXCEPT !.level = truth[d].array])
        BY <2>1, <3>1, GoodLevel
      <3> QED  BY <2>3, <3>2
    <2> QED  BY <2>2, <2>3 DEF Lsraid
  <1>3. DisksGood'
    BY <1>1, <1>2, GoodKept DEF DInv
  <1>4. lines = <<>>
    BY NoLines DEF DInv, Lsraid
  <1>5. EntryInv' /\ EmittedType'
    BY <1>4, NoEntry, EmittedFrame DEF DInv, Lsraid, scanVars
  <1>6. (truth \in Hosts)' /\ DiskTypeOK'
    BY DEF DInv, DiskTypeOK, Lsraid, scanVars
  <1> QED  BY <1>3, <1>5, <1>6 DEF DInv

LEMMA MdadmGood ==
    ASSUME DInv, NEW first \in Arrays \cup {""}, Mdadm(first)
    PROVE  DInv'
  <1>1. DOMAIN disks' = Collected /\ truth' = truth
    BY DEF Mdadm, Collected
  <1>2. first \in Levels \cup {""}
    BY TruthTyped DEF DInv, Arrays
  <1>3. ASSUME NEW d \in Collected PROVE Good(d, disks'[d])
    <2>1. Good(d, disks[d]) /\ d \in Dev
      BY DEF DInv, DisksGood
    <2>2. CASE disks'[d] = disks[d]
      BY <2>1, <2>2
    <2>3. CASE disks'[d] = [disks[d] EXCEPT !.level = first]
      <3>1. Good(d, [disks[d] EXCEPT !.level = first])
        BY <1>2, <2>1, GoodLevel
      <3> QED  BY <2>3, <3>1
    <2> QED  BY <2>2, <2>3 DEF Mdadm
  <1>4. DisksGood'
    BY <1>1, <1>3, GoodKept DEF DInv
  <1>5. lines = <<>>
    BY NoLines DEF DInv, Mdadm
  <1>6. EntryInv' /\ EmittedType'
    BY <1>5, NoEntry, EmittedFrame DEF DInv, Mdadm, scanVars
  <1>7. (truth \in Hosts)' /\ DiskTypeOK'
    BY DEF DInv, DiskTypeOK, Mdadm, scanVars
  <1> QED  BY <1>4, <1>6, <1>7 DEF DInv

-----------------------------------------------------------------------------
\* The steps between two tools, which leave the disks and the lines alone.
LEMMA StagesKeep ==
    ASSUME DInv, UNCHANGED <<truth, disks, lines, currentName, emitted>>,
           lines = <<>>, DiskTypeOK'
    PROVE  DInv'
  <1>1. DisksGood' /\ EmittedType' /\ EntryInv'
    BY DisksFrame, EmittedFrame, NoEntry DEF DInv
  <1> QED  BY <1>1 DEF DInv

LEMMA DStep ==
    ASSUME DInv, [Next]_vars
    PROVE  DInv'
  <1> USE DEF scanVars
  <1>1. ASSUME NEW present \in SUBSET Dev, FromSysfs(present) PROVE DInv'
    BY <1>1, SysfsGood
  <1>2. ASSUME NEW now \in {"lsblk", "storcli", "lsraid", "mdadm"},
               NEW following \in {"lsblkScan", "lsraid", "mdadm", "emit"},
               ToolFails(now, following)
        PROVE  DInv'
    <2>1. lines = <<>>
      BY <1>2, NoLines DEF DInv, ToolFails
    <2>2. DiskTypeOK'
      BY <1>2 DEF DInv, DiskTypeOK, ToolFails
    <2> QED  BY <1>2, <2>1, <2>2, StagesKeep DEF ToolFails
  <1>3. ASSUME NEW S \in SUBSET Dev, Lsblk(S) PROVE DInv'
    <2>1. lines = <<>>
      BY <1>3, NoLines DEF DInv, Lsblk
    <2>2. DiskTypeOK'
      BY <1>3 DEF DInv, DiskTypeOK, Lsblk
    <2> QED  BY <1>3, <2>1, <2>2, StagesKeep DEF Lsblk
  <1>4. ASSUME NEW d \in todo, LsblkName(d) PROVE DInv'
    <2>1. d \in Dev
      BY DEF DInv, DiskTypeOK
    <2>2. EntryInv'
      <3>1. lines' = <<Line("serial", SerialShown(d)), Line("disk", d)>>
        BY <1>4 DEF LsblkName, SerialShown
      <3>2. DiskEntry'
        BY <1>4, <2>1, <3>1 DEF DiskEntry, LsblkName, SerialShown
      <3> QED  BY <1>4, <3>2 DEF EntryInv, LsblkName
    <2>3. DisksGood' /\ EmittedType'
      BY <1>4, DisksFrame, EmittedFrame DEF DInv, LsblkName
    <2>4. DiskTypeOK' /\ (truth \in Hosts)'
      BY <1>4, <2>1 DEF DInv, DiskTypeOK, LsblkName
    <2> QED  BY <2>2, <2>3, <2>4 DEF DInv
  <1>5. CASE LsblkPart
    <2>1. EntryInv'
      BY <1>5 DEF EntryInv, PartEntry, LsblkPart
    <2>2. DisksGood' /\ EmittedType'
      BY <1>5, DisksFrame, EmittedFrame DEF DInv, LsblkPart
    <2>3. DiskTypeOK' /\ (truth \in Hosts)'
      BY <1>5 DEF DInv, DiskTypeOK, LsblkPart
    <2> QED  BY <2>1, <2>2, <2>3 DEF DInv
  <1>6. CASE LsblkSerial
    <2>1. \/ /\ currentName \in Dev
             /\ currentSerial' = SerialShown(currentName)
             /\ lines' = <<Line("disk", currentName)>>
          \/ currentSerial' = "null" /\ lines' = <<Line("part", Part)>>
      BY <1>6, SerialLine DEF LsblkSerial
    <2>2. EntryInv'
      <3>1. CASE /\ currentName \in Dev
                 /\ currentSerial' = SerialShown(currentName)
                 /\ lines' = <<Line("disk", currentName)>>
        <4>1. DiskEntry'
          BY <1>6, <3>1 DEF DiskEntry, LsblkSerial, SerialShown
        <4> QED  BY <1>6, <4>1 DEF EntryInv, LsblkSerial
      <3>2. CASE lines' = <<Line("part", Part)>>
        BY <1>6, <3>2 DEF EntryInv, PartEntry, LsblkSerial
      <3> QED  BY <2>1, <3>1, <3>2
    <2>3. DisksGood' /\ EmittedType'
      BY <1>6, DisksFrame, EmittedFrame DEF DInv, LsblkSerial
    <2>4. currentSerial' \in Serials \cup {"null", ""}
      BY <2>1, TruthTyped DEF DInv, SerialShown
    <2>5. DiskTypeOK' /\ (truth \in Hosts)'
      BY <1>6, <2>4 DEF DInv, DiskTypeOK, LsblkSerial
    <2> QED  BY <2>2, <2>3, <2>5 DEF DInv
  <1>7. CASE LsblkType
    BY <1>7, TypeGood
  <1>8. CASE LsblkEnd
    <2>1. DiskTypeOK'
      BY <1>8 DEF DInv, DiskTypeOK, DisksGood, LsblkEnd
    <2> QED  BY <1>8, <2>1, StagesKeep DEF LsblkEnd
  <1>9. ASSUME NEW d \in todo, NEW opens \in {TRUE, ~MayFail}, Smartctl(d, opens) PROVE DInv'
    <2>1. opens \in BOOLEAN
      BY FailAssumption
    <2> QED  BY <1>9, <2>1, SmartctlGood
  <1>10. CASE SmartctlEnd
    <2>1. lines = <<>>
      BY <1>10, NoLines DEF DInv, SmartctlEnd
    <2>2. DiskTypeOK'
      BY <1>10 DEF DInv, DiskTypeOK, SmartctlEnd
    <2> QED  BY <1>10, <2>1, <2>2, StagesKeep DEF SmartctlEnd
  <1>11. CASE Storcli
    <2>1. lines = <<>>
      BY <1>11, NoLines DEF DInv, Storcli
    <2>2. DiskTypeOK'
      BY <1>11, DevAssumption DEF DInv, DiskTypeOK, Storcli
    <2> QED  BY <1>11, <2>1, <2>2, StagesKeep DEF Storcli
  <1>12. ASSUME NEW d \in todo, StorcliEid(d) PROVE DInv'
    <2>1. EntryInv'
      <3> d \in Drives
        BY <1>12 DEF DInv, DiskTypeOK, StorcliEid
      <3>1. DriveEntry(d)'
        BY <1>12 DEF DriveEntry, StorcliEid
      <3>2. currentEID' = "Slt" /\ stage' = "storcliScan"
        BY <1>12 DEF StorcliEid, EidValue
      <3> QED  BY <1>12, <3>1, <3>2 DEF EntryInv
    <2>2. DisksGood' /\ EmittedType'
      BY <1>12, DisksFrame, EmittedFrame DEF DInv, StorcliEid
    <2>3. DiskTypeOK' /\ (truth \in Hosts)'
      BY <1>12 DEF DInv, DiskTypeOK, StorcliEid, EidValue, Slots
    <2> QED  BY <2>1, <2>2, <2>3 DEF DInv
  <1>13. CASE StorcliState
    BY <1>13, StateGood
  <1>14. CASE StorcliSerial
    BY <1>14, SnGood
  <1>15. CASE StorcliEnd
    <2>1. DiskTypeOK'
      BY <1>15 DEF DInv, DiskTypeOK, StorcliEnd
    <2> QED  BY <1>15, <2>1, StagesKeep DEF StorcliEnd
  <1>16. ASSUME NEW named \in SUBSET Dev, Lsraid(named) PROVE DInv'
    BY <1>16, LsraidGood
  <1>17. ASSUME NEW first \in Arrays \cup {""}, Mdadm(first) PROVE DInv'
    BY <1>17, MdadmGood
  <1>18. CASE Emit
    <2>1. EmittedType'
      <3> SUFFICES ASSUME NEW m \in emitted' PROVE m.device \in Dev /\ m.info \in Info
        BY DEF EmittedType
      <3>1. PICK d \in Collected : m = [device |-> d, info |-> disks[d]]
        BY <1>18 DEF Emit
      <3>2. d \in Dev /\ disks[d] \in Info
        BY DEF DInv, DisksGood, Good
      <3>3. m.device = d /\ m.info = disks[d]
        BY <3>1
      <3> QED  BY <3>2, <3>3
    <2>2. lines = <<>>
      BY <1>18, NoLines DEF DInv, Emit
    <2>3. DisksGood' /\ EntryInv'
      BY <1>18, <2>2, DisksFrame, NoEntry DEF DInv, Emit
    <2>4. DiskTypeOK' /\ (truth \in Hosts)'
      BY <1>18 DEF DInv, DiskTypeOK, Emit
    <2> QED  BY <2>1, <2>3, <2>4 DEF DInv
  <1>19. CASE UNCHANGED vars
    <2>1. DisksGood' /\ EmittedType'
      BY <1>19, DisksFrame, EmittedFrame DEF DInv, vars
    <2>2. EntryInv'
      <3>1. CASE lines = <<>>
        BY <1>19, <3>1 DEF EntryInv, vars
      <3>2. CASE stage = "lsblkScan" /\ DiskEntry
        BY <1>19, <3>2 DEF EntryInv, DiskEntry, SerialShown, vars
      <3>3. CASE stage = "lsblkScan" /\ PartEntry
        BY <1>19, <3>3 DEF EntryInv, PartEntry, vars
      <3>4. CASE stage = "storcliScan" /\ currentEID = "Slt" /\ \E e \in Drives : DriveEntry(e)
        BY <1>19, <3>4 DEF EntryInv, DriveEntry, vars
      <3> QED  BY <3>1, <3>2, <3>3, <3>4 DEF DInv, EntryInv
    <2>3. DiskTypeOK' /\ (truth \in Hosts)'
      BY <1>19 DEF DInv, DiskTypeOK, vars
    <2> QED  BY <2>1, <2>2, <2>3 DEF DInv
  <1> QED  BY <1>1, <1>2, <1>3, <1>4, <1>5, <1>6, <1>7, <1>8, <1>9, <1>10, <1>11, <1>12,
              <1>13, <1>14, <1>15, <1>16, <1>17, <1>18, <1>19 DEF Next

-----------------------------------------------------------------------------
(* What the proofs are for.                                                *)

\* Every scrape keeps the inductive invariant.
THEOREM DiskScrape == Spec => []DInv
  BY DInit, DStep, PTL DEF Spec

\* TypeOK of the disk collector (collectDiskInfo), for any host.
THEOREM DiskTypeCorrect == Spec => []TypeOK
  <1>1. DInv => TypeOK
    BY DEF DInv, DiskTypeOK, DisksGood, Good, EmittedType, TypeOK
  <1> QED  BY <1>1, DiskScrape, PTL

\* SerialOwn: the serial number a disk is reported with is its own, or "null" for a
\* disk without one, in whatever order lsblk lists any selection of the devices and
\* their partitions (parseLsblk's currentName and currentSerial).
THEOREM OwnSerial == Spec => []SerialOwn
  <1>1. DInv => SerialOwn
    BY DEF DInv, DisksGood, Good, SerialOwn
  <1> QED  BY <1>1, DiskScrape, PTL

\* RaidOnlyForMembers: no State line of storcli reaches a disk that is not behind
\* the controller, although the slot compared is the word Slt for every drive; the
\* members matched before it are all reached.
THEOREM MembersOnly == Spec => []RaidOnlyForMembers
  <1>1. DInv => RaidOnlyForMembers
    BY DEF DInv, DisksGood, Good, RaidOnlyForMembers
  <1> QED  BY <1>1, DiskScrape, PTL

\* DisksKept: from sysfs on no tool adds a disk or loses one.
THEOREM NoDiskLost == Spec => DisksKept
  <1>1. ASSUME [Next]_vars, stage # "sysfs"
        PROVE  DOMAIN disks' = DOMAIN disks
    BY <1>1 DEF Next, vars, scanVars, Collected, FromSysfs, ToolFails, Lsblk, LsblkName,
           LsblkPart, LsblkSerial, LsblkType, LsblkEnd, Smartctl, SmartctlEnd, Storcli,
           StorcliEid, StorcliState, StorcliSerial, StorcliEnd, Lsraid, Mdadm, Emit
  <1>2. [Next]_vars => [stage # "sysfs" => DOMAIN disks' = DOMAIN disks]_vars
    BY <1>1
  <1> QED  BY <1>2, PTL DEF Spec, DisksKept
=============================================================================
