------------------------------- MODULE Network -------------------------------
(***************************************************************************)
(* One scrape of the network collector (collector/network_collector.go)      *)
(* reading /sys/class/net file by file while interfaces come, go and change  *)
(* bonds.  Each read of a file is a step.  The counters of an interface are  *)
(* abstracted to the files Field, their values and the sums Collect makes of *)
(* them are left out; a metric is a record of its name, device and, for the  *)
(* two bonding gauges, their values.                                         *)
(***************************************************************************)
EXTENDS Integers, Sequences, FiniteSets

CONSTANTS
    Iface,          \* names of interfaces, bonds included
    Bond,           \* the names that are bonds when they exist
    Field,          \* the files of statistics/
    Faulty,         \* the interfaces with one that cannot be read or parsed (such
                    \* as rx_nohandler, on a kernel without it)
    None,           \* no entry
    BondingMasters, \* the name of the file bonding_masters in /sys/class/net
    MaxChanges      \* bound on the changes of sysfs during the scrape

ASSUME NameAssumption == /\ Bond \subseteq Iface
                         /\ BondingMasters \notin Iface
                         /\ None \notin Iface \cup {BondingMasters}
ASSUME IfaceAssumption == IsFiniteSet(Iface) /\ Faulty \subseteq Iface
ASSUME ChangeAssumption == MaxChanges \in Nat

VARIABLES
    net,         \* sysfs: the interfaces there are
    bonding,     \* sysfs: the bonding module is loaded
    slaves,      \* sysfs: the slaves of a bond
    up,          \* sysfs: the slaves whose mii_status is up
    changes,     \* how often sysfs changed
    pc,          \* where Collect is
    interfaces,  \* the entries of /sys/class/net it listed
    todo,        \* the entries its present loop has left
    cur,         \* the entry or bond it is at
    fields,      \* the files of statistics/ still to read
    masters,     \* bonds still to read
    list,        \* slaves of the present bond still to read
    sstat,       \* sstat of the present bond: slaves, active
    status,      \* status, the bonds read so far
    emitted      \* the metrics sent

sysfsVars == <<net, bonding, slaves, up, changes>>
bondVars  == <<masters, list, sstat, status>>
vars == <<sysfsVars, pc, interfaces, todo, fields, cur, bondVars, emitted>>

\* What /sys/class/net can look like: bonds only with the module, slaves only of
\* bonds that are there, each of one bond.
Sysfs == {h \in [net : SUBSET Iface, bonding : BOOLEAN,
                 slaves : [Bond -> SUBSET (Iface \ Bond)], up : SUBSET (Iface \ Bond)] :
            /\ ~h.bonding => h.net \cap Bond = {}
            /\ \A b \in Bond : /\ h.slaves[b] \subseteq h.net
                               /\ b \notin h.net => h.slaves[b] = {}
            /\ \A b, c \in Bond : b # c => h.slaves[b] \cap h.slaves[c] = {}
            /\ h.up \subseteq UNION {h.slaves[b] : b \in Bond}}

Init ==
    /\ \E h \in Sysfs : net = h.net /\ bonding = h.bonding /\ slaves = h.slaves /\ up = h.up
    /\ changes = 0
    /\ pc = "readDir"
    /\ interfaces = {} /\ todo = {} /\ fields = {} /\ cur = None
    /\ masters = {} /\ list = {} /\ sstat = <<0, 0>> /\ status = {}
    /\ emitted = {}

-----------------------------------------------------------------------------
(* Collect and readInterfaceStatistics.                                     *)

\* os.ReadDir lists the interfaces, and the file bonding_masters beside them.
ReadDir ==
    /\ pc = "readDir"
    /\ interfaces' = net \cup IF bonding THEN {BondingMasters} ELSE {}
    /\ todo' = interfaces'
    /\ pc' = "stats"
    /\ UNCHANGED <<sysfsVars, fields, cur, bondVars, emitted>>

\* /sys/class/net cannot be read: nothing is collected.
ReadDirFails ==
    /\ pc = "readDir"
    /\ pc' = "done"
    /\ UNCHANGED <<sysfsVars, interfaces, todo, fields, cur, bondVars, emitted>>

\* The loop over the entries calls readInterfaceStatistics ...
NextStats(i) ==
    /\ pc = "stats"
    /\ cur = None
    /\ i \in todo
    /\ cur' = i
    /\ todo' = todo \ {i}
    /\ fields' = Field
    /\ UNCHANGED <<sysfsVars, pc, interfaces, bondVars, emitted>>

\* ... which reads its files in the order of a map, but never the last of a faulty
\* interface; with the last one read its metrics are sent, all of them.
ReadField(f) ==
    /\ f \in fields
    /\ cur \in net
    /\ cur \in Faulty => fields # {f}
    /\ fields' = fields \ {f}
    /\ IF fields' = {}
         THEN /\ emitted' = emitted \cup {[name |-> "stats", device |-> cur]}
              /\ cur' = None
         ELSE UNCHANGED <<emitted, cur>>
    /\ UNCHANGED <<sysfsVars, pc, interfaces, todo, bondVars>>

\* The next file can be one that os.ReadFile or ParseInt refuses: any file of an
\* interface that is gone or of what is no interface, and some file of a faulty one.
CanFail == fields # {} /\ (cur \notin net \/ cur \in Faulty)

\* Mutant of ReadFieldFails: the loop returns where it should continue.
ReadFieldFailsReturn ==
    /\ CanFail
    /\ fields' = {}
    /\ cur' = None
    /\ todo' = {}
    /\ UNCHANGED <<sysfsVars, pc, interfaces, bondVars, emitted>>

\* Mutant of ReadFieldFails: the read is tried again.
ReadFieldRetries ==
    /\ CanFail
    /\ fields' = Field
    /\ UNCHANGED <<sysfsVars, pc, interfaces, todo, cur, bondVars, emitted>>

\* An error of os.ReadFile or ParseInt drops the entry with all its metrics, be it
\* there or not: the loop continues with the next.
ReadFieldFails ==
    /\ CanFail
    /\ fields' = {}
    /\ cur' = None
    /\ UNCHANGED <<sysfsVars, pc, interfaces, todo, bondVars, emitted>>

-----------------------------------------------------------------------------
(* readBondingStats.                                                        *)

\* bonding_masters names the bonds ...
ReadMasters ==
    /\ pc = "stats"
    /\ cur = None
    /\ todo = {}
    /\ bonding
    /\ masters' = net \cap Bond
    /\ pc' = "masters"
    /\ UNCHANGED <<sysfsVars, interfaces, todo, fields, cur, list, sstat, status, emitted>>

\* ... or is not there: Collect returns, with the statistics only.
ReadMastersFails ==
    /\ pc = "stats"
    /\ cur = None
    /\ todo = {}
    /\ ~bonding
    /\ pc' = "done"
    /\ UNCHANGED <<sysfsVars, interfaces, todo, fields, cur, bondVars, emitted>>

\* <bond>/bonding/slaves lists the slaves of the next bond.
ReadSlaves(b) ==
    /\ pc = "masters"
    /\ cur = None
    /\ b \in masters \cap net
    /\ cur' = b
    /\ masters' = masters \ {b}
    /\ list' = slaves[b]
    /\ sstat' = <<0, 0>>
    /\ UNCHANGED <<sysfsVars, pc, interfaces, todo, fields, status, emitted>>

\* Mutant of ReadMii: the slave is counted for lower_ and for slave_.
ReadMiiTwice(i) ==
    /\ pc = "masters"
    /\ cur \in Bond
    /\ i \in list \cap slaves[cur]
    /\ list' = list \ {i}
    /\ sstat' = <<sstat[1] + 2, sstat[2] + IF i \in up THEN 2 ELSE 0>>
    /\ UNCHANGED <<sysfsVars, pc, interfaces, todo, fields, cur, masters, status, emitted>>

\* lower_<slave> or slave_<slave>/bonding_slave/mii_status of a listed slave.
ReadMii(i) ==
    /\ pc = "masters"
    /\ cur \in Bond
    /\ i \in list \cap slaves[cur]
    /\ list' = list \ {i}
    /\ sstat' = <<sstat[1] + 1, sstat[2] + IF i \in up THEN 1 ELSE 0>>
    /\ UNCHANGED <<sysfsVars, pc, interfaces, todo, fields, cur, masters, status, emitted>>

\* Mutant of EndOfBond: the gauges are sent bond by bond.
EndOfBondEmits ==
    /\ cur \in Bond
    /\ pc = "masters"
    /\ list = {}
    /\ emitted' = emitted \cup {[name |-> "bond", device |-> cur, sstat |-> sstat]}
    /\ cur' = None
    /\ UNCHANGED <<sysfsVars, pc, interfaces, todo, fields, masters, list, sstat, status>>

\* The slaves of the bond are through.
EndOfBond ==
    /\ cur \in Bond
    /\ pc = "masters"
    /\ list = {}
    /\ status' = status \cup {[name |-> "bond", device |-> cur, sstat |-> sstat]}
    /\ cur' = None
    /\ UNCHANGED <<sysfsVars, pc, interfaces, todo, fields, masters, list, sstat, emitted>>

\* A bond that is gone, or a listed slave that is no slave any more: the error
\* reaches Collect, which returns.
BondGone ==
    /\ pc = "masters"
    /\ \/ cur = None /\ ~(masters \subseteq net)
       \/ cur \in Bond /\ ~(list \subseteq slaves[cur])
    /\ pc' = "done"
    /\ UNCHANGED <<sysfsVars, interfaces, todo, fields, cur, bondVars, emitted>>

\* The bonding gauges are sent for all bonds.
EmitBonds ==
    /\ pc = "masters"
    /\ cur = None
    /\ masters = {}
    /\ emitted' = emitted \cup status
    /\ todo' = interfaces
    /\ pc' = "info"
    /\ UNCHANGED <<sysfsVars, interfaces, fields, cur, bondVars>>

\* readInterfaceInfo answers with empty labels for what it cannot read.
EmitInfo(i) ==
    /\ pc = "info"
    /\ i \in todo
    /\ todo' = todo \ {i}
    /\ emitted' = emitted \cup {[name |-> "info", device |-> i]}
    /\ UNCHANGED <<sysfsVars, pc, interfaces, fields, cur, bondVars>>

EndOfCollect ==
    /\ pc = "info"
    /\ todo = {}
    /\ pc' = "done"
    /\ UNCHANGED <<sysfsVars, interfaces, todo, fields, cur, bondVars, emitted>>

Collect == \/ ReadDir \/ ReadDirFails
           \/ \E i \in todo : NextStats(i) \/ EmitInfo(i)
           \/ \E f \in Field : ReadField(f)
           \/ ReadFieldFails \/ ReadMasters \/ ReadMastersFails
           \/ \E b \in Bond : ReadSlaves(b)
           \/ \E i \in Iface : ReadMii(i)
           \/ EndOfBond \/ BondGone \/ EmitBonds \/ EndOfCollect

-----------------------------------------------------------------------------
(* What else happens on the host.                                           *)

SysfsChanges ==
    /\ changes < MaxChanges
    /\ changes' = changes + 1
    /\ \E h \in Sysfs :
          /\ h # [net |-> net, bonding |-> bonding, slaves |-> slaves, up |-> up]
          /\ net' = h.net /\ bonding' = h.bonding /\ slaves' = h.slaves /\ up' = h.up
    /\ UNCHANGED <<pc, interfaces, todo, fields, cur, bondVars, emitted>>

Next == Collect \/ SysfsChanges

Spec == Init /\ [][Next]_vars

FairSpec == Spec /\ WF_vars(Collect)

-----------------------------------------------------------------------------
(* Properties.                                                             *)

Devices(name) == {e.device : e \in {m \in emitted : m.name = name}}

\* The state has its type.
TypeOK ==
    /\ net \subseteq Iface /\ bonding \in BOOLEAN /\ up \subseteq Iface
    /\ slaves \in [Bond -> SUBSET Iface]
    /\ pc \in {"readDir", "stats", "masters", "info", "done"}
    /\ interfaces \subseteq Iface \cup {BondingMasters}
    /\ todo \subseteq interfaces
    /\ cur \in interfaces \cup Iface \cup {None}
    /\ fields \subseteq Field
    /\ masters \subseteq Bond /\ list \subseteq Iface
    /\ LET n == Cardinality(Iface \ Bond) IN sstat \in (0 .. n) \X (0 .. n)
    /\ status \subseteq [name : {"bond"}, device : Bond, sstat : Nat \X Nat]

\* A scrape of a host that holds still reports it exactly: the slaves and active
\* slaves of every bond, and the statistics of every interface but the faulty ones.
\* A file that cannot be read or parsed costs its interface all of its statistics,
\* however many were read before, and no other interface any.
QuietScrapeExact ==
    pc = "done" /\ changes = 0 /\ interfaces # {} =>
        /\ Devices("stats") = net \ Faulty
        /\ Devices("bond") = net \cap Bond
        /\ \A m \in emitted : m.name = "bond" =>
              m.sstat = <<Cardinality(slaves[m.device]),
                          Cardinality(slaves[m.device] \cap up)>>

\* Whatever changes under the scrape, bonds and infos are all or nothing: after
\* the gauges of a bond come those of every bond read and the info of every
\* entry listed, also when a bond vanished between two reads.
BondsAllOrNothing ==
    pc = "done" /\ Devices("bond") # {} =>
        status \subseteq emitted /\ Devices("info") = interfaces

\* A scrape ends, however sysfs changes: one interface that vanishes between
\* two reads does not hold up the rest.
ScrapeEnds == <>(pc = "done")

\* docs/metrics.md: node_network_info reports the state of the interfaces; a
\* scrape that lists an interface that stays reports it.
InfoForEveryInterface ==
    pc = "done" /\ changes = 0 /\ interfaces # {} => net \subseteq Devices("info")
=============================================================================
