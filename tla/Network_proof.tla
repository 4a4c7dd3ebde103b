----------------------------- MODULE Network_proof -----------------------------
(***************************************************************************)
(* What a scrape of the network collector sends, for every set of interfaces  *)
(* and bonds and any number of changes under it.                              *)
(***************************************************************************)
EXTENDS Network, FiniteSetTheorems, TLAPS

USE NameAssumption, ChangeAssumption, IfaceAssumption
    DEF NameAssumption, ChangeAssumption, IfaceAssumption

(* The inductive invariant.                                                  *)

\* sysfs is consistent at every moment.
SysfsInv ==
    /\ net \subseteq Iface /\ bonding \in BOOLEAN /\ up \subseteq Iface \ Bond
    /\ slaves \in [Bond -> SUBSET (Iface \ Bond)]
    /\ changes \in Nat
    /\ ~bonding => net \cap Bond = {}
    /\ \A b \in Bond : slaves[b] \subseteq net

\* The type of what Collect carries, but for sstat.
CollectTypeOK ==
    /\ pc \in {"readDir", "stats", "masters", "info", "done"}
    /\ interfaces \subseteq Iface \cup {BondingMasters}
    /\ todo \subseteq interfaces
    /\ cur \in interfaces \cup Iface \cup {None}
    /\ fields \subseteq Field
    /\ masters \subseteq Bond /\ list \subseteq Iface \ Bond
    /\ status \subseteq [name : {"bond"}, device : Bond, sstat : Nat \X Nat]

\* A bond never counts more slaves than there are left for it.
CountInv ==
    /\ sstat \in Nat \X Nat
    /\ sstat[2] <= sstat[1]
    /\ sstat[1] + Cardinality(list) <= Cardinality(Iface \ Bond)

\* Where Collect is, and what it has in hand there.
PlaceInv ==
    /\ pc = "readDir" => interfaces = {} /\ cur = None /\ emitted = {}
    /\ pc = "stats" => cur \notin todo
    /\ pc = "masters" => cur \notin masters
    /\ pc # "stats" \/ cur = None => fields = {}
    /\ pc \in {"readDir", "stats"} => status = {}
    /\ pc = "info" => cur = None

\* What was sent: statistics only at first, the gauges of all bonds at once, and
\* then the infos one by one.
EmitInv ==
    /\ \A m \in emitted : m.name = "bond" => m \in status
    /\ pc \in {"readDir", "stats", "masters"} => \A m \in emitted : m.name = "stats"
    /\ pc = "info" => status \subseteq emitted /\ Devices("info") = interfaces \ todo
    /\ pc = "done" => \/ Devices("bond") = {}
                      \/ status \subseteq emitted /\ Devices("info") = interfaces

\* The interfaces all of whose files can be read.
Sound == net \ Faulty

DevicesOf(S) == {m.device : m \in S}

\* What there is to say of a bond.
Exact(b) == <<Cardinality(slaves[b]), Cardinality(slaves[b] \cap up)>>

\* What Collect has found is what there is, as long as nothing changed.
QuietInv ==
    changes = 0 /\ pc # "readDir" /\ interfaces # {} =>
        /\ interfaces = net \cup IF bonding THEN {BondingMasters} ELSE {}
        /\ Devices("stats") = IF pc = "stats" THEN (Sound \ todo) \ {cur} ELSE Sound
        /\ pc = "masters" =>
              /\ masters \subseteq net
              /\ cur \in (net \cap Bond) \cup {None}
              /\ DevicesOf(status) = ((net \cap Bond) \ masters) \ {cur}
              /\ cur # None =>
                    /\ list \subseteq slaves[cur]
                    /\ sstat[1] + Cardinality(list) = Cardinality(slaves[cur])
                    /\ sstat[2] + Cardinality(list \cap up) = Cardinality(slaves[cur] \cap up)
        /\ pc = "info" => DevicesOf(status) = net \cap Bond
        /\ pc = "done" => Devices("bond") = net \cap Bond
        /\ \A m \in status : m.sstat = Exact(m.device)

NInv == SysfsInv /\ CollectTypeOK /\ CountInv /\ PlaceInv /\ EmitInv /\ QuietInv
-----------------------------------------------------------------------------
(* Lemmas.                                                                  *)

\* A set of ports is finite, and so is the part of it that is up.
LEMMA Finite ==
    ASSUME NEW S \in SUBSET (Iface \ Bond)
    PROVE  /\ IsFiniteSet(S) /\ Cardinality(S) \in Nat
           /\ Cardinality(S) <= Cardinality(Iface \ Bond)
           /\ Cardinality(Iface \ Bond) \in Nat
<1>1. IsFiniteSet(Iface \ Bond)
  BY FS_Subset
<1>2. IsFiniteSet(S) /\ Cardinality(S) <= Cardinality(Iface \ Bond)
  BY <1>1, FS_Subset
<1> QED BY <1>1, <1>2, FS_CardinalityType

\* What one metric more adds to the devices reported.
LEMMA DevicesAdd ==
    ASSUME NEW r, emitted' = emitted \cup {r}, NEW n
    PROVE  Devices(n)' = Devices(n) \cup IF r.name = n THEN {r.device} ELSE {}
<1>1. CASE r.name = n
  BY <1>1 DEF Devices
<1>2. CASE r.name # n
  BY <1>2 DEF Devices
<1> QED BY <1>1, <1>2

\* What sysfs may look like is consistent.
LEMMA SysfsShape ==
    ASSUME NEW h \in Sysfs
    PROVE  /\ h.net \subseteq Iface /\ h.bonding \in BOOLEAN /\ h.up \subseteq Iface \ Bond
           /\ h.slaves \in [Bond -> SUBSET (Iface \ Bond)]
           /\ ~h.bonding => h.net \cap Bond = {}
           /\ \A b \in Bond : h.slaves[b] \subseteq h.net
BY DEF Sysfs

\* The invariant holds at the start.
LEMMA NInvInit == Init => NInv
<1> SUFFICES ASSUME Init PROVE NInv
  OBVIOUS
<1>1. SysfsInv
  BY SysfsShape DEF Init, SysfsInv
<1>2. CollectTypeOK
  BY DEF Init, CollectTypeOK
<1>3. CountInv
  BY Finite, FS_EmptySet DEF Init, CountInv
<1>4. PlaceInv /\ EmitInv /\ QuietInv
  BY DEF Init, PlaceInv, EmitInv, QuietInv
<1> QED BY <1>1, <1>2, <1>3, <1>4 DEF NInv

-----------------------------------------------------------------------------
(* The steps of Collect, conjunct by conjunct.                              *)

LEMMA CollectKeepsSysfs == ASSUME SysfsInv, Collect PROVE SysfsInv' /\ UNCHANGED sysfsVars
<1>1. UNCHANGED sysfsVars
  BY DEF Collect, ReadDir, ReadDirFails, NextStats, EmitInfo, ReadField, ReadFieldFails,
         ReadMasters, ReadMastersFails, ReadSlaves, ReadMii, EndOfBond, BondGone, EmitBonds,
         EndOfCollect
<1> QED BY <1>1 DEF SysfsInv, sysfsVars

LEMMA CollectKeepsType ==
    ASSUME SysfsInv, CollectTypeOK, CountInv, PlaceInv, Collect PROVE CollectTypeOK'
<1> USE DEF SysfsInv, CollectTypeOK, bondVars
<1>0. CASE ReadDir
  <2>1. interfaces' \subseteq Iface \cup {BondingMasters}
    BY <1>0 DEF ReadDir
  <2>2. cur \in Iface \cup {None}
    BY <1>0 DEF ReadDir, PlaceInv
  <2> QED BY <1>0, <2>1, <2>2 DEF ReadDir
<1>1. CASE ReadDirFails
  BY <1>1 DEF ReadDirFails
<1>2. ASSUME NEW i \in todo, NextStats(i) \/ EmitInfo(i) PROVE CollectTypeOK'
  BY <1>2 DEF NextStats, EmitInfo
<1>3. CASE (\E f \in Field : ReadField(f)) \/ ReadFieldFails
  BY <1>3 DEF ReadField, ReadFieldFails, CanFail
<1>4. CASE ReadMasters \/ ReadMastersFails \/ BondGone \/ EmitBonds \/ EndOfCollect
  BY <1>4 DEF ReadMasters, ReadMastersFails, BondGone, EmitBonds, EndOfCollect
<1>5. ASSUME NEW b \in Bond, ReadSlaves(b) PROVE CollectTypeOK'
  BY <1>5 DEF ReadSlaves
<1>6. ASSUME NEW i \in Iface, ReadMii(i) PROVE CollectTypeOK'
  BY <1>6 DEF ReadMii
<1>7. CASE EndOfBond
  <2>1. [name |-> "bond", device |-> cur, sstat |-> sstat]
          \in [name : {"bond"}, device : Bond, sstat : Nat \X Nat]
    BY <1>7 DEF EndOfBond, CountInv
  <2> QED BY <1>7, <2>1 DEF EndOfBond
<1> QED BY <1>0, <1>1, <1>2, <1>3, <1>4, <1>5, <1>6, <1>7 DEF Collect

LEMMA CollectKeepsCount ==
    ASSUME SysfsInv, CollectTypeOK, CountInv, Collect PROVE CountInv'
<1>1. CASE ~(\E b \in Bond : ReadSlaves(b)) /\ ~(\E i \in Iface : ReadMii(i))
  <2>1. UNCHANGED <<sstat, list>>
    BY <1>1 DEF Collect, ReadDir, ReadDirFails, NextStats, EmitInfo, ReadField, ReadFieldFails,
       ReadMasters, ReadMastersFails, EndOfBond, BondGone, EmitBonds, EndOfCollect, bondVars
  <2> QED BY <2>1 DEF CountInv
<1>2. ASSUME NEW b \in Bond, ReadSlaves(b) PROVE CountInv'
  <2>1. Cardinality(slaves[b]) <= Cardinality(Iface \ Bond) /\ Cardinality(slaves[b]) \in Nat
    BY Finite DEF SysfsInv
  <2> QED BY <1>2, <2>1 DEF ReadSlaves, CountInv
<1>3. ASSUME NEW i \in Iface, ReadMii(i) PROVE CountInv'
  <2>1. list' = list \ {i} /\ i \in list
    BY <1>3 DEF ReadMii
  <2>2. Cardinality(list') = Cardinality(list) - 1
    BY <2>1, Finite, FS_RemoveElement DEF CollectTypeOK
  <2>3. PICK x \in {0, 1} : sstat' = <<sstat[1] + 1, sstat[2] + x>>
    BY <1>3 DEF ReadMii
  <2>4. Cardinality(list) \in Nat /\ Cardinality(Iface \ Bond) \in Nat
    BY Finite DEF CollectTypeOK
  <2> QED BY <2>2, <2>3, <2>4 DEF CountInv
<1> QED BY <1>1, <1>2, <1>3

LEMMA CollectKeepsPlace ==
    ASSUME SysfsInv, CollectTypeOK, CountInv, PlaceInv, Collect PROVE PlaceInv'
<1> USE DEF CollectTypeOK, PlaceInv, bondVars
<1>0. CASE ReadDir
  <2>1. interfaces' \subseteq Iface \cup {BondingMasters}
    BY CollectKeepsType DEF CollectTypeOK
  <2>2. pc' = "stats" /\ todo' = interfaces' /\ cur' = None /\ fields' = {} /\ status' = {}
    BY <1>0 DEF ReadDir
  <2> QED BY <2>1, <2>2
<1>1. CASE ReadDirFails
  BY <1>1 DEF ReadDirFails
<1>2. ASSUME NEW i \in todo, NextStats(i) \/ EmitInfo(i) PROVE PlaceInv'
  BY <1>2 DEF NextStats, EmitInfo
<1>3. CASE (\E f \in Field : ReadField(f)) \/ ReadFieldFails
  BY <1>3 DEF ReadField, ReadFieldFails, CanFail
<1>4. CASE ReadMasters \/ ReadMastersFails \/ BondGone \/ EmitBonds \/ EndOfCollect
  BY <1>4 DEF ReadMasters, ReadMastersFails, BondGone, EmitBonds, EndOfCollect
<1>5. CASE (\E b \in Bond : ReadSlaves(b)) \/ (\E i \in Iface : ReadMii(i)) \/ EndOfBond
  BY <1>5 DEF ReadSlaves, ReadMii, EndOfBond
<1> QED BY <1>0, <1>1, <1>2, <1>3, <1>4, <1>5 DEF Collect

LEMMA CollectKeepsEmit ==
    ASSUME CollectTypeOK, PlaceInv, EmitInv, Collect PROVE EmitInv'
<1> USE DEF PlaceInv
<1>1. CASE ReadDir \/ ReadDirFails
  BY <1>1 DEF ReadDir, ReadDirFails, bondVars, EmitInv, Devices
<1>2. ASSUME NEW i \in todo, NextStats(i) PROVE EmitInv'
  BY <1>2 DEF NextStats, bondVars, EmitInv
<1>3. ASSUME NEW f \in Field, ReadField(f) PROVE EmitInv'
  <2>1. pc = "stats" /\ pc' = "stats" /\ status' = status
    BY <1>3 DEF ReadField, bondVars
  <2>2. emitted' = emitted \/ emitted' = emitted \cup {[name |-> "stats", device |-> cur]}
    BY <1>3 DEF ReadField
  <2> QED BY <2>1, <2>2 DEF EmitInv
<1>4. CASE ReadFieldFails
  <2>1. pc = "stats"
    BY <1>4 DEF ReadFieldFails, CanFail
  <2> QED BY <1>4, <2>1 DEF ReadFieldFails, bondVars, EmitInv
<1>5. CASE ReadMasters \/ ReadMastersFails \/ BondGone
  <2>1. pc \in {"stats", "masters"} /\ emitted' = emitted /\ status' = status
        /\ pc' \in {"masters", "done"}
    BY <1>5 DEF ReadMasters, ReadMastersFails, BondGone, bondVars
  <2>2. \A m \in emitted : m.name = "stats"
    BY <2>1 DEF EmitInv
  <2>3. Devices("bond")' = {}
    BY <2>1, <2>2 DEF Devices
  <2> QED BY <2>1, <2>2, <2>3 DEF EmitInv
<1>6. CASE (\E b \in Bond : ReadSlaves(b)) \/ (\E i \in Iface : ReadMii(i)) \/ EndOfBond
  <2>1. pc = "masters" /\ pc' = "masters" /\ emitted' = emitted /\ status \subseteq status'
    BY <1>6 DEF ReadSlaves, ReadMii, EndOfBond
  <2> QED BY <2>1 DEF EmitInv
<1>7. CASE EmitBonds
  <2>1. pc = "masters" /\ pc' = "info" /\ status' = status /\ todo' = interfaces
        /\ interfaces' = interfaces /\ emitted' = emitted \cup status
    BY <1>7 DEF EmitBonds, bondVars
  <2>2. \A m \in emitted' : m.name # "info"
    BY <2>1 DEF EmitInv, CollectTypeOK
  <2>3. Devices("info")' = {}
    BY <2>2 DEF Devices
  <2> QED BY <2>1, <2>3 DEF EmitInv
<1>8. ASSUME NEW i \in todo, EmitInfo(i) PROVE EmitInv'
  <2> DEFINE r == [name |-> "info", device |-> i]
  <2>1. pc = "info" /\ pc' = "info" /\ status' = status /\ todo' = todo \ {i}
        /\ interfaces' = interfaces /\ emitted' = emitted \cup {r}
    BY <1>8 DEF EmitInfo, bondVars
  <2>2. r.name = "info" /\ r.device = i
    OBVIOUS
  <2> HIDE DEF r
  <2>3. Devices("info")' = Devices("info") \cup {i}
    BY <2>1, <2>2, DevicesAdd
  <2>4. i \in interfaces
    BY DEF CollectTypeOK
  <2> QED BY <2>1, <2>2, <2>3, <2>4 DEF EmitInv
<1>9. CASE EndOfCollect
  <2>1. Devices("info")' = Devices("info")
    BY <1>9 DEF EndOfCollect, Devices
  <2> QED BY <1>9, <2>1 DEF EndOfCollect, bondVars, EmitInv
<1> QED BY <1>1, <1>2, <1>3, <1>4, <1>5, <1>6, <1>7, <1>8, <1>9 DEF Collect
\* The scrape of a host that holds still, step by step.
LEMMA CollectKeepsQuiet ==
    ASSUME SysfsInv, CollectTypeOK, CountInv, PlaceInv, EmitInv, QuietInv, Collect
    PROVE  QuietInv'
<1>f. UNCHANGED sysfsVars
  BY CollectKeepsSysfs
<1>b. \A b : Exact(b)' = Exact(b)
  BY <1>f DEF sysfsVars, Exact
<1> SUFFICES ASSUME changes = 0, pc' # "readDir", interfaces' # {} PROVE QuietInv'
  BY <1>f DEF QuietInv, sysfsVars
<1> USE <1>f DEF sysfsVars, Sound
<1>q. pc # "readDir" /\ interfaces # {} =>
        /\ interfaces = net \cup IF bonding THEN {BondingMasters} ELSE {}
        /\ Devices("stats") = IF pc = "stats" THEN (Sound \ todo) \ {cur} ELSE Sound
        /\ \A m \in status : m.sstat = Exact(m.device)
  BY DEF QuietInv
<1>1. CASE ReadDir
  <2>1. Devices("stats")' = {} /\ todo' = interfaces' /\ pc' = "stats" /\ status' = {}
    BY <1>1 DEF ReadDir, PlaceInv, Devices, bondVars
  <2>2. interfaces' = net \cup IF bonding THEN {BondingMasters} ELSE {}
    BY <1>1 DEF ReadDir
  <2>3. (net \ Faulty) \ todo' = {}
    BY <2>1, <2>2
  <2> QED BY <2>1, <2>2, <2>3 DEF QuietInv
<1>2. CASE ReadDirFails
  BY <1>2 DEF ReadDirFails, PlaceInv
<1>3. ASSUME NEW i \in todo, NextStats(i) PROVE QuietInv'
  <2>1. /\ pc = "stats" /\ pc' = "stats" /\ cur = None /\ cur' = i /\ todo' = todo \ {i}
        /\ UNCHANGED <<interfaces, status, emitted>>
    BY <1>3 DEF NextStats, bondVars
  <2>2. Devices("stats")' = Devices("stats") /\ None \notin net
    BY <2>1 DEF Devices, SysfsInv
  <2>3. ((net \ Faulty) \ todo') \ {cur'} = ((net \ Faulty) \ todo) \ {cur}
    BY <2>1, <2>2
  <2> QED BY <1>q, <1>b, <2>1, <2>2, <2>3 DEF QuietInv, PlaceInv
<1>4. ASSUME NEW f \in Field, ReadField(f) PROVE QuietInv'
  <2>1. /\ pc = "stats" /\ pc' = "stats" /\ cur \in net
        /\ UNCHANGED <<interfaces, todo, status>> /\ status = {}
    BY <1>4 DEF ReadField, bondVars, PlaceInv
  <2>2. CASE UNCHANGED <<emitted, cur>>
    BY <1>q, <2>1, <2>2 DEF QuietInv, Devices
  <2>3. CASE emitted' = emitted \cup {[name |-> "stats", device |-> cur]} /\ cur' = None
             /\ cur \notin Faulty
    <3>1. Devices("stats")' = Devices("stats") \cup {cur}
      <4> DEFINE r == [name |-> "stats", device |-> cur]
      <4>1. emitted' = emitted \cup {r} /\ r.name = "stats" /\ r.device = cur
        BY <2>3
      <4> HIDE DEF r
      <4> QED BY <4>1, DevicesAdd
    <3>2. None \notin net
      BY DEF SysfsInv
    <3>3. cur \notin todo
      BY <2>1 DEF PlaceInv
    <3>4. (((net \ Faulty) \ todo) \ {cur}) \cup {cur} = ((net \ Faulty) \ todo) \ {None}
      BY <2>1, <2>3, <3>2, <3>3
    <3> QED BY <1>q, <2>1, <2>3, <3>1, <3>4 DEF QuietInv
  <2>4. fields' = {} => cur \notin Faulty
    BY <1>4 DEF ReadField
  <2> QED BY <1>4, <2>2, <2>3, <2>4 DEF ReadField
<1>5. CASE ReadFieldFails
  <2>1. /\ pc = "stats" /\ pc' = "stats" /\ cur \notin net \ Faulty /\ cur' = None
        /\ UNCHANGED <<interfaces, todo, status, emitted>> /\ status = {}
    BY <1>5 DEF ReadFieldFails, CanFail, bondVars, PlaceInv
  <2>2. Devices("stats")' = Devices("stats") /\ None \notin net
    BY <2>1 DEF Devices, SysfsInv
  <2> QED BY <1>q, <2>1, <2>2 DEF QuietInv
<1>6. CASE ReadMasters
  <2>1. /\ pc = "stats" /\ pc' = "masters" /\ cur = None /\ cur' = None /\ todo = {}
        /\ masters' = net \cap Bond /\ UNCHANGED <<interfaces, status, emitted>> /\ status = {}
    BY <1>6 DEF ReadMasters, PlaceInv
  <2>2. Devices("stats")' = Devices("stats") /\ None \notin net /\ DevicesOf(status)' = {}
    BY <2>1 DEF Devices, SysfsInv, DevicesOf
  <2> QED BY <1>q, <2>1, <2>2 DEF QuietInv
<1>7. CASE ReadMastersFails
  <2>1. /\ pc = "stats" /\ pc' = "done" /\ cur = None /\ todo = {} /\ ~bonding
        /\ UNCHANGED <<interfaces, status, emitted>> /\ status = {}
    BY <1>7 DEF ReadMastersFails, bondVars, PlaceInv
  <2>2. Devices("stats")' = Devices("stats") /\ None \notin net /\ net \cap Bond = {}
    BY <2>1 DEF Devices, SysfsInv
  <2>3. Devices("bond")' = {}
    BY <2>1 DEF Devices, EmitInv
  <2> QED BY <1>q, <2>1, <2>2, <2>3 DEF QuietInv
<1>8. ASSUME NEW b \in Bond, ReadSlaves(b) PROVE QuietInv'
  <2>1. /\ pc = "masters" /\ pc' = "masters" /\ cur = None /\ cur' = b /\ b \in masters \cap net
        /\ masters' = masters \ {b} /\ list' = slaves[b] /\ sstat' = <<0, 0>>
        /\ UNCHANGED <<interfaces, status, emitted>>
    BY <1>8 DEF ReadSlaves
  <2>2. Devices("stats")' = Devices("stats") /\ DevicesOf(status)' = DevicesOf(status)
    BY <2>1 DEF Devices, DevicesOf
  <2>3. Cardinality(slaves[b]) \in Nat /\ Cardinality(slaves[b] \cap up) \in Nat
    BY Finite DEF SysfsInv
  <2>4. None \notin net
    BY DEF SysfsInv
  <2>5. ((net \cap Bond) \ masters') \ {b} = ((net \cap Bond) \ masters) \ {None}
    BY <2>1, <2>4
  <2>6. masters \subseteq net /\ DevicesOf(status) = ((net \cap Bond) \ masters) \ {None}
    BY <2>1 DEF QuietInv
  <2> QED BY <1>q, <1>b, <2>1, <2>2, <2>3, <2>5, <2>6 DEF QuietInv
<1>9. ASSUME NEW i \in Iface, ReadMii(i) PROVE QuietInv'
  <2>1. /\ pc = "masters" /\ pc' = "masters" /\ cur \in Bond /\ cur' = cur
        /\ masters' = masters /\ i \in list /\ list' = list \ {i}
        /\ sstat' = <<sstat[1] + 1, sstat[2] + IF i \in up THEN 1 ELSE 0>>
        /\ UNCHANGED <<interfaces, status, emitted>>
    BY <1>9 DEF ReadMii
  <2>2. Devices("stats")' = Devices("stats") /\ DevicesOf(status)' = DevicesOf(status)
    BY <2>1 DEF Devices, DevicesOf
  <2>3. /\ list \subseteq slaves[cur]
        /\ sstat[1] + Cardinality(list) = Cardinality(slaves[cur])
        /\ sstat[2] + Cardinality(list \cap up) = Cardinality(slaves[cur] \cap up)
    BY <2>1 DEF QuietInv
  <2>4. Cardinality(list') = Cardinality(list) - 1
    BY <2>1, Finite, FS_RemoveElement DEF CollectTypeOK
  <2>5. Cardinality(list' \cap up) = Cardinality(list \cap up) - IF i \in up THEN 1 ELSE 0
    <3>1. list' \cap up = (list \cap up) \ {i} /\ IsFiniteSet(list \cap up)
      BY <2>1, Finite DEF CollectTypeOK
    <3>2. Cardinality(list \cap up) \in Nat
      BY <3>1, FS_CardinalityType
    <3>3. Cardinality((list \cap up) \ {i})
            = IF i \in list \cap up THEN Cardinality(list \cap up) - 1
                                   ELSE Cardinality(list \cap up)
      BY <3>1, FS_RemoveElement
    <3>4. i \in list
      BY <2>1
    <3>5. Cardinality(list' \cap up) = IF i \in up THEN Cardinality(list \cap up) - 1
                                                  ELSE Cardinality(list \cap up)
      BY ONLY <3>1, <3>3, <3>4
    <3> QED BY ONLY <3>2, <3>5
  <2>6. Cardinality(list) \in Nat /\ Cardinality(list \cap up) \in Nat
    BY Finite DEF CollectTypeOK
  <2>7. /\ sstat'[1] + Cardinality(list') = Cardinality(slaves[cur])
        /\ sstat'[2] + Cardinality(list' \cap up) = Cardinality(slaves[cur] \cap up)
    <3>1. sstat[1] \in Nat /\ sstat[2] \in Nat
      BY DEF CountInv
    <3>2. sstat'[1] = sstat[1] + 1 /\ sstat'[2] = sstat[2] + IF i \in up THEN 1 ELSE 0
      BY <2>1
    <3>3. sstat'[1] + Cardinality(list') = Cardinality(slaves[cur])
      BY <2>3, <2>4, <2>6, <3>1, <3>2
    <3>4. sstat'[2] + Cardinality(list' \cap up) = Cardinality(slaves[cur] \cap up)
      BY <2>3, <2>5, <2>6, <3>1, <3>2
    <3> QED BY <3>3, <3>4
  <2>8. cur' \in (net \cap Bond) \cup {None} /\ list' \subseteq slaves[cur]
        /\ masters' \subseteq net
        /\ DevicesOf(status)' = ((net \cap Bond) \ masters') \ {cur'}
    BY <2>1, <2>2, <2>3 DEF QuietInv
  <2> QED BY <1>q, <1>b, <2>1, <2>2, <2>7, <2>8 DEF QuietInv
<1>10. CASE EndOfBond
  <2> DEFINE r == [name |-> "bond", device |-> cur, sstat |-> sstat]
  <2>1. /\ pc = "masters" /\ pc' = "masters" /\ cur \in Bond /\ list = {} /\ cur' = None
        /\ status' = status \cup {r} /\ UNCHANGED <<masters, interfaces, emitted>>
    BY <1>10 DEF EndOfBond
  <2>2. r.device = cur /\ r.sstat = sstat
    OBVIOUS
  <2> HIDE DEF r
  <2>3. Devices("stats")' = Devices("stats")
    BY <2>1 DEF Devices
  <2>4. DevicesOf(status)' = DevicesOf(status) \cup {cur}
    BY <2>1, <2>2 DEF DevicesOf
  <2>5. /\ masters \subseteq net /\ cur \in net \cap Bond
        /\ DevicesOf(status) = ((net \cap Bond) \ masters) \ {cur}
        /\ sstat[1] + Cardinality(list) = Cardinality(slaves[cur])
        /\ sstat[2] + Cardinality(list \cap up) = Cardinality(slaves[cur] \cap up)
    BY <2>1 DEF QuietInv
  <2>6. cur \notin masters
    BY <2>1 DEF PlaceInv
  <2>7. None \notin net
    BY DEF SysfsInv
  <2>8. DevicesOf(status)' = ((net \cap Bond) \ masters') \ {cur'}
    BY <2>1, <2>4, <2>5, <2>6, <2>7
  <2>9. r.sstat = Exact(cur)
    <3>1. Cardinality(list) = 0 /\ Cardinality(list \cap up) = 0
      BY <2>1, FS_EmptySet
    <3>2. sstat \in Nat \X Nat
      BY DEF CountInv
    <3>3. sstat[1] = Cardinality(slaves[cur]) /\ sstat[2] = Cardinality(slaves[cur] \cap up)
      BY <2>5, <3>1, <3>2
    <3> QED BY <2>2, <3>2, <3>3 DEF Exact
  <2>10. \A m \in status' : m.sstat = Exact(m.device)'
    BY <1>q, <2>1, <2>2, <2>9 DEF Exact
  <2> QED BY <1>q, <2>1, <2>3, <2>5, <2>8, <2>10 DEF QuietInv
<1>11. CASE BondGone
  BY <1>11 DEF BondGone, QuietInv, SysfsInv
<1>12. CASE EmitBonds
  <2>1. /\ pc = "masters" /\ pc' = "info" /\ cur = None /\ masters = {}
        /\ emitted' = emitted \cup status /\ UNCHANGED <<interfaces, status>>
    BY <1>12 DEF EmitBonds, bondVars
  <2>2. Devices("stats")' = Devices("stats") /\ DevicesOf(status)' = DevicesOf(status)
    BY <2>1 DEF Devices, DevicesOf, CollectTypeOK
  <2>3. DevicesOf(status) = ((net \cap Bond) \ {}) \ {None} /\ None \notin net
    BY <2>1 DEF QuietInv, SysfsInv
  <2> QED BY <1>q, <1>b, <2>1, <2>2, <2>3 DEF QuietInv
<1>13. ASSUME NEW i \in todo, EmitInfo(i) PROVE QuietInv'
  <2> DEFINE r == [name |-> "info", device |-> i]
  <2>1. /\ pc = "info" /\ pc' = "info" /\ UNCHANGED <<interfaces, status>>
        /\ emitted' = emitted \cup {r} /\ r.name = "info"
    BY <1>13 DEF EmitInfo, bondVars
  <2> HIDE DEF r
  <2>2. Devices("stats")' = Devices("stats") /\ DevicesOf(status)' = DevicesOf(status)
    <3>1. Devices("stats")' = Devices("stats")
      BY ONLY <2>1 DEF Devices
    <3>2. DevicesOf(status)' = DevicesOf(status)
      BY ONLY <2>1 DEF DevicesOf
    <3> QED BY <3>1, <3>2
  <2> QED BY <1>q, <1>b, <2>1, <2>2 DEF QuietInv
<1>14. CASE EndOfCollect
  <2>1. pc = "info" /\ pc' = "done" /\ UNCHANGED <<interfaces, status, emitted>>
    BY <1>14 DEF EndOfCollect, bondVars
  <2>2. Devices("stats")' = Devices("stats") /\ Devices("bond")' = Devices("bond")
    BY <2>1 DEF Devices
  <2>3. Devices("bond") = DevicesOf(status)
    BY <2>1 DEF Devices, DevicesOf, EmitInv, CollectTypeOK
  <2> QED BY <1>q, <1>b, <2>1, <2>2, <2>3 DEF QuietInv
<1> QED BY <1>1, <1>2, <1>3, <1>4, <1>5, <1>6, <1>7, <1>8, <1>9, <1>10, <1>11, <1>12, <1>13,
           <1>14 DEF Collect

-----------------------------------------------------------------------------
(* The theorems.                                                            *)

\* A change of sysfs leaves what was collected as it is, and ends the quiet.
LEMMA ChangeKeeps == ASSUME NInv, SysfsChanges PROVE NInv'
<1> USE DEF NInv
<1>1. SysfsInv'
  <2>1. PICK h \in Sysfs : net' = h.net /\ bonding' = h.bonding /\ slaves' = h.slaves
                           /\ up' = h.up
    BY DEF SysfsChanges
  <2> QED BY <2>1, SysfsShape DEF SysfsChanges, SysfsInv
<1>2. UNCHANGED <<pc, interfaces, todo, fields, cur, bondVars, emitted>>
  BY DEF SysfsChanges
<1>3. CollectTypeOK' /\ CountInv' /\ PlaceInv'
  BY <1>2 DEF bondVars, CollectTypeOK, CountInv, PlaceInv
<1>4. EmitInv'
  BY <1>2 DEF bondVars, EmitInv, Devices
<1>5. QuietInv'
  <2>1. changes' # 0
    BY DEF SysfsChanges, SysfsInv
  <2> QED BY <2>1 DEF QuietInv
<1> QED BY <1>1, <1>3, <1>4, <1>5

\* sysfs, what Collect carries and what it has sent fit in every reachable state.
THEOREM Scraping == Spec => []NInv
<1>1. NInv /\ [Next]_vars => NInv'
  <2> SUFFICES ASSUME NInv, [Next]_vars PROVE NInv'
    OBVIOUS
  <2>1. CASE Collect
    BY <2>1, CollectKeepsSysfs, CollectKeepsType, CollectKeepsCount, CollectKeepsPlace,
       CollectKeepsEmit, CollectKeepsQuiet DEF NInv
  <2>2. CASE SysfsChanges
    BY <2>2, ChangeKeeps
  <2>3. CASE UNCHANGED vars
    <3> USE <2>3 DEF NInv, vars, sysfsVars, bondVars
    <3>1. SysfsInv'
      BY DEF SysfsInv
    <3>2. CollectTypeOK' /\ CountInv' /\ PlaceInv'
      BY DEF CollectTypeOK, CountInv, PlaceInv
    <3>3. EmitInv'
      BY DEF EmitInv, Devices
    <3>4. QuietInv'
      BY DEF QuietInv, Devices, DevicesOf, Exact, Sound
    <3> QED BY <3>1, <3>2, <3>3, <3>4
  <2> QED BY <2>1, <2>2, <2>3 DEF Next
<1> QED BY NInvInit, <1>1, PTL DEF Spec

\* The state of a scrape has its type: no bond counts more slaves than there are
\* ports.
THEOREM ScrapeTypeCorrect == Spec => []TypeOK
<1>1. NInv => TypeOK
  <2> SUFFICES ASSUME NInv PROVE TypeOK
    OBVIOUS
  <2>1. sstat \in (0 .. Cardinality(Iface \ Bond)) \X (0 .. Cardinality(Iface \ Bond))
    <3>1. /\ sstat \in Nat \X Nat /\ sstat[2] <= sstat[1]
          /\ sstat[1] + Cardinality(list) <= Cardinality(Iface \ Bond)
      BY DEF NInv, CountInv
    <3>2. Cardinality(list) \in Nat /\ Cardinality(Iface \ Bond) \in Nat
      BY Finite DEF NInv, CollectTypeOK
    <3> DEFINE n == Cardinality(Iface \ Bond)
    <3>3. sstat[1] \in 0 .. n /\ sstat[2] \in 0 .. n
      BY <3>1, <3>2
    <3> QED BY <3>1, <3>3
  <2>2. net \subseteq Iface /\ bonding \in BOOLEAN /\ up \subseteq Iface
        /\ slaves \in [Bond -> SUBSET Iface]
    BY DEF NInv, SysfsInv
  <2> QED BY <2>1, <2>2 DEF NInv, CollectTypeOK, TypeOK
<1> QED BY <1>1, Scraping, PTL

\* Whatever changes under a scrape, after the gauges of a bond come those of every
\* bond and the info of every entry.
THEOREM AllOrNothing == Spec => []BondsAllOrNothing
<1>1. NInv => BondsAllOrNothing
  BY DEF NInv, EmitInv, BondsAllOrNothing
<1> QED BY <1>1, Scraping, PTL

\* A host that holds still is reported exactly, however many interfaces, bonds and
\* slaves it has, in whatever order they are read and whichever interfaces have a
\* file that cannot be read or parsed: these alone are without statistics.
THEOREM QuietExact == Spec => []QuietScrapeExact
<1>1. NInv => QuietScrapeExact
  <2> SUFFICES ASSUME NInv, pc = "done", changes = 0, interfaces # {} PROVE QuietScrapeExact
    BY DEF QuietScrapeExact
  <2>1. /\ Devices("stats") = net \ Faulty
        /\ Devices("bond") = net \cap Bond
        /\ \A m \in status : m.sstat = Exact(m.device)
    BY DEF NInv, QuietInv, Sound
  <2>2. \A m \in emitted : m.name = "bond" => m \in status
    BY DEF NInv, EmitInv
  <2> QED BY <2>1, <2>2 DEF QuietScrapeExact, Exact
<1> QED BY <1>1, Scraping, PTL
=============================================================================
