------------------------------ MODULE SlotCache ------------------------------
(***************************************************************************)
(* Concurrent scrapes of the LLDP collector (collector/lldp_collector.go):   *)
(* Collect walks the interfaces lldpcli reports, and getInterfaceSlot finds  *)
(* the PCI slot of each through three caches that every scrape shares:       *)
(* slotCache, pciCache and dmidecodeCache.  Each step is what one scrape     *)
(* does between two points where another can run: a read of sysfs, a run of  *)
(* a tool, a critical section.                                               *)
(*                                                                         *)
(* getInterfaceSlot recurses from an interface to its master; the frames of  *)
(* the recursion are the stack of names.                                     *)
(***************************************************************************)
EXTENDS Integers, Sequences, FiniteSets

CONSTANTS
    Scrape,      \* the scrapes
    Iface,       \* interface names, of devices and of bonds
    Addr,        \* PCI addresses
    None,        \* no master, no device, no answer, no cache entry
    NoSlot,      \* the slot "", which is an entry when it is cached
    SysfsSlot,   \* the slot attribute of an address in sysfs, None for none
    DmiSlot,     \* the slot dmidecode's table has for an address
    LspciSlot,   \* the slot lspci names for an address
    Host         \* the hosts the collector may run on: of each
                 \*   iface  its interfaces
                 \*   lldp   those with an LLDP neighbour
                 \*   master, link  the links in sysfs at the start
                 \*   fails  whether dmidecode and lspci may fail
                 \*   changes  bound on the changes of links while scrapes run

ASSUME NoneAssumption == None \notin Iface \cup Addr \cup Scrape /\ NoSlot # None
ASSUME HostAssumption ==
    Host \subseteq [iface : SUBSET Iface, lldp : SUBSET Iface,
                    master : [Iface -> Iface \cup {None}], link : [Iface -> Addr \cup {None}],
                    fails : BOOLEAN, changes : Nat]
\* What can be a master (a bond, a bridge) is no device itself.
ASSUME MasterAssumption ==
    \A h \in Host, i \in Iface : h.master[i] # None => h.link[h.master[i]] = None
\* The kernel refuses a master below its own slave: every chain of masters ends.
ASSUME ChainAssumption ==
    \A h \in Host, S \in (SUBSET Iface) \ {{}} : \E i \in S : h.master[i] \notin S

\* What the sources can say of an address: the names they know, the address.
SlotsOf(a) == ({SysfsSlot[a], DmiSlot[a], LspciSlot[a]} \ {None}) \cup {a}
Slots == (UNION {SlotsOf(a) : a \in Addr}) \cup {NoSlot}

VARIABLES
    pc, todo,        \* of a scrape: where it is, the interfaces left to do
    stack,           \* the recursion of getInterfaceSlot, innermost last
    stage,           \* the source of slots a frame is at
    addr,            \* the result of getPciAddr
    slot,            \* the slot found so far
    ipFrom,          \* the interface whose addresses are reported
    emitted,         \* the metrics sent
    slotCache,       \* slotCache, None where there is no entry
    pciCache,        \* pciCache, None where there is no entry
    dmiFilled,       \* dmidecodeCache # ""
    dmiWriter,       \* who holds dmidecodeCacheMu for writing
    master, link,    \* sysfs: /sys/class/net/<iface>/{master,device}
    changes,         \* how often sysfs changed
    had,             \* history: the addresses an interface ever had
    host             \* the host

frameVars == <<stack, stage, addr, slot>>
cacheVars == <<slotCache, pciCache, dmiFilled, dmiWriter>>
sysfsVars == <<master, link, changes, had, host>>
vars == <<pc, todo, ipFrom, emitted, frameVars, cacheVars, sysfsVars>>

Init ==
    /\ pc        = [s \in Scrape |-> "start"]
    /\ todo      = [s \in Scrape |-> {}]
    /\ stack     = [s \in Scrape |-> <<>>]
    /\ stage     = [s \in Scrape |-> "sysfs"]
    /\ addr      = [s \in Scrape |-> None]
    /\ slot      = [s \in Scrape |-> NoSlot]
    /\ ipFrom    = [s \in Scrape |-> None]
    /\ emitted   = {}
    /\ slotCache = [i \in Iface |-> None]
    /\ pciCache  = [i \in Iface |-> None]
    /\ dmiFilled = FALSE
    /\ dmiWriter = None
    /\ host \in Host
    /\ master = host.master
    /\ link   = host.link
    /\ changes = 0
    /\ had = [i \in Iface |-> {host.link[i]} \ {None}]

top(s)  == stack[s][Len(stack[s])]
base(s) == stack[s][1]
Go(s, where) == pc' = [pc EXCEPT ![s] = where]

-----------------------------------------------------------------------------
(* Collect.                                                                 *)

\* lldpcli fails or names no interface: the scrape has nothing to report.
LldpFails(s) ==
    /\ pc[s] = "start"
    /\ Go(s, "done")
    /\ UNCHANGED <<todo, ipFrom, emitted, frameVars, cacheVars, sysfsVars>>

LldpAnswers(s) ==
    /\ pc[s] = "start"
    /\ Go(s, "next")
    /\ todo' = [todo EXCEPT ![s] = host.lldp]
    /\ UNCHANGED <<ipFrom, emitted, frameVars, cacheVars, sysfsVars>>

\* The loop takes an interface and begins getInterfaceIPs, or is through.
NextInterface(s, i) ==
    /\ pc[s] = "next"
    /\ i \in todo[s]
    /\ Go(s, "ips")
    /\ todo'   = [todo   EXCEPT ![s] = @ \ {i}]
    /\ stack'  = [stack  EXCEPT ![s] = <<i>>]
    /\ ipFrom' = [ipFrom EXCEPT ![s] = i]
    /\ UNCHANGED <<emitted, stage, addr, slot, cacheVars, sysfsVars>>

EndOfLoop(s) ==
    /\ pc[s] = "next"
    /\ todo[s] = {}
    /\ Go(s, "done")
    /\ UNCHANGED <<todo, ipFrom, emitted, frameVars, cacheVars, sysfsVars>>

\* getInterfaceIPs: a slave has its master's addresses.
InterfaceIPs(s) ==
    /\ pc[s] = "ips"
    /\ IF master[ipFrom[s]] # None
         THEN ipFrom' = [ipFrom EXCEPT ![s] = master[@]] /\ UNCHANGED pc
         ELSE Go(s, "lookup") /\ UNCHANGED ipFrom
    /\ UNCHANGED <<todo, emitted, frameVars, cacheVars, sysfsVars>>

\* The metric of the interface at the bottom of the recursion.
Emit(s) ==
    /\ pc[s] = "return"
    /\ Len(stack[s]) = 1
    /\ Go(s, "next")
    /\ emitted' = emitted \cup {[iface |-> base(s), ip |-> ipFrom[s], slot |-> slot[s]]}
    /\ UNCHANGED <<todo, ipFrom, frameVars, cacheVars, sysfsVars>>

-----------------------------------------------------------------------------
(* getInterfaceSlot, for the innermost frame.                               *)

\* Under slotCacheMu.RLock: a hit returns at once.
CacheHit(s) ==
    /\ pc[s] = "lookup"
    /\ slotCache[top(s)] # None
    /\ slot' = [slot EXCEPT ![s] = slotCache[top(s)]]
    /\ Go(s, "return")
    /\ UNCHANGED <<todo, ipFrom, emitted, stack, stage, addr, cacheVars, sysfsVars>>

CacheMiss(s) ==
    /\ pc[s] = "lookup"
    /\ slotCache[top(s)] = None
    /\ Go(s, "master")
    /\ UNCHANGED <<todo, ipFrom, emitted, frameVars, cacheVars, sysfsVars>>

\* Mutant of InterfaceMaster: no check that there is a master.
InterfaceMasterUnchecked(s) ==
    /\ pc[s] = "master"
    /\ stack' = [stack EXCEPT ![s] = Append(@, master[top(s)])]
    /\ Go(s, "lookup")
    /\ UNCHANGED <<todo, ipFrom, emitted, stage, addr, slot, cacheVars, sysfsVars>>

\* getInterfaceMaster: recurse to the master, or search for the slot here.
InterfaceMaster(s) ==
    /\ pc[s] = "master"
    /\ IF master[top(s)] \notin {None, top(s)}
         THEN /\ stack' = [stack EXCEPT ![s] = Append(@, master[top(s)])]
              /\ Go(s, "lookup")
         ELSE Go(s, "ethtool") /\ UNCHANGED stack
    /\ UNCHANGED <<todo, ipFrom, emitted, stage, addr, slot, cacheVars, sysfsVars>>

\* getSlotFromEthtool finds nothing for any device: it passes the last two parts
\* of bus-info to extractSlotFromBusInfo, which wants three.
SlotFromEthtool(s) ==
    /\ pc[s] = "ethtool"
    /\ stage' = [stage EXCEPT ![s] = "sysfs"]
    /\ Go(s, "pci")
    /\ UNCHANGED <<todo, ipFrom, emitted, stack, addr, slot, cacheVars, sysfsVars>>

\* The recursive call returned: its slot is the slave's, to be stored as such.
ReturnToSlave(s) ==
    /\ pc[s] = "return"
    /\ Len(stack[s]) > 1
    /\ stack' = [stack EXCEPT ![s] = SubSeq(@, 1, Len(@) - 1)]
    /\ Go(s, "store")
    /\ UNCHANGED <<todo, ipFrom, emitted, stage, addr, slot, cacheVars, sysfsVars>>

\* Mutant of StoreSlot: keyed by the name the addresses came from.
StoreSlotAtMaster(s) ==
    /\ pc[s] = "store"
    /\ slotCache' = [slotCache EXCEPT ![ipFrom[s]] = slot[s]]
    /\ Go(s, "return")
    /\ UNCHANGED <<todo, ipFrom, emitted, frameVars, pciCache, dmiFilled, dmiWriter, sysfsVars>>

\* Under slotCacheMu.Lock: the last writer wins, whatever it found.
StoreSlot(s) ==
    /\ pc[s] = "store"
    /\ slotCache' = [slotCache EXCEPT ![top(s)] = slot[s]]
    /\ Go(s, "return")
    /\ UNCHANGED <<todo, ipFrom, emitted, frameVars, pciCache, dmiFilled, dmiWriter, sysfsVars>>

-----------------------------------------------------------------------------
(* getPciAddr, which each source of slots calls first.                      *)

\* From the cache or from the device link; a missing link is not cached.
PciAddr(s) ==
    /\ pc[s] = "pci"
    /\ LET a == IF pciCache[top(s)] # None THEN pciCache[top(s)] ELSE link[top(s)]
       IN  /\ addr' = [addr EXCEPT ![s] = a]
           /\ Go(s, IF pciCache[top(s)] = None /\ a # None THEN "storePci" ELSE "source")
    /\ UNCHANGED <<todo, ipFrom, emitted, stack, stage, slot, cacheVars, sysfsVars>>

\* Under pciCacheMu.Lock.
StorePci(s) ==
    /\ pc[s] = "storePci"
    /\ pciCache' = [pciCache EXCEPT ![top(s)] = addr[s]]
    /\ Go(s, "source")
    /\ UNCHANGED <<todo, ipFrom, emitted, frameVars, slotCache, dmiFilled, dmiWriter, sysfsVars>>

\* A source that found x: store it, or ask the next source.
Found(s, x, following) ==
    IF x # None
      THEN /\ slot' = [slot EXCEPT ![s] = x]
           /\ Go(s, "store")
           /\ UNCHANGED stage
      ELSE /\ stage' = [stage EXCEPT ![s] = following]
           /\ Go(s, "pci")
           /\ UNCHANGED slot

\* getSlotFromSysfs.  Its calls of itself pass a PCI address where a name is
\* looked up, and so add nothing.
SlotFromSysfs(s) ==
    /\ pc[s] = "source"
    /\ stage[s] = "sysfs"
    /\ Found(s, IF addr[s] = None THEN None ELSE SysfsSlot[addr[s]], "dmi")
    /\ UNCHANGED <<todo, ipFrom, emitted, stack, addr, cacheVars, sysfsVars>>

\* getPciSlotFromLspci, the last source: lspci's slot, else the address.
SlotFromLspci(s) ==
    /\ pc[s] = "source"
    /\ stage[s] = "lspci"
    /\ \E fails \in {FALSE, host.fails} :
          slot' = [slot EXCEPT ![s] =
                     IF addr[s] = None THEN NoSlot
                     ELSE IF fails \/ LspciSlot[addr[s]] = None THEN addr[s]
                     ELSE LspciSlot[addr[s]]]
    /\ Go(s, "store")
    /\ UNCHANGED <<todo, ipFrom, emitted, stack, stage, addr, cacheVars, sysfsVars>>

-----------------------------------------------------------------------------
(* getPhysicalSlotFromDmidecode and its double-checked dmidecodeCache.       *)

DmiStage(s) == pc[s] = "source" /\ stage[s] = "dmi"

NoAddress(s) ==
    /\ DmiStage(s)
    /\ addr[s] = None
    /\ Found(s, None, "lspci")
    /\ UNCHANGED <<todo, ipFrom, emitted, stack, addr, cacheVars, sysfsVars>>

\* Under RLock: the table is searched, or is not there yet.
SearchTable(s) ==
    /\ DmiStage(s)
    /\ addr[s] # None
    /\ dmiWriter = None
    /\ dmiFilled
    /\ Found(s, DmiSlot[addr[s]], "lspci")
    /\ UNCHANGED <<todo, ipFrom, emitted, stack, addr, cacheVars, sysfsVars>>

TableMissing(s) ==
    /\ DmiStage(s)
    /\ addr[s] # None
    /\ dmiWriter = None
    /\ ~dmiFilled
    /\ Go(s, "dmiLock")
    /\ UNCHANGED <<todo, ipFrom, emitted, frameVars, cacheVars, sysfsVars>>

\* Mutant of DmiLock: no second look under the lock.
DmiLockUnchecked(s) ==
    /\ pc[s] = "dmiLock"
    /\ dmiWriter = None
    /\ Go(s, "dmiRun") /\ dmiWriter' = s
    /\ UNCHANGED <<todo, ipFrom, emitted, frameVars, slotCache, pciCache, dmiFilled, sysfsVars>>

\* Mutant of DmiLock: a lock that is held is not waited for.
DmiTryLock(s) ==
    /\ pc[s] = "dmiLock"
    /\ IF dmiWriter # None
         THEN Found(s, None, "lspci") /\ UNCHANGED dmiWriter
         ELSE /\ IF dmiFilled
                   THEN Go(s, "source") /\ UNCHANGED dmiWriter
                   ELSE Go(s, "dmiRun") /\ dmiWriter' = s
              /\ UNCHANGED <<stage, slot>>
    /\ UNCHANGED <<todo, ipFrom, emitted, stack, addr, slotCache, pciCache, dmiFilled, sysfsVars>>

\* Lock and look again: another scrape may have filled the table meanwhile.
DmiLock(s) ==
    /\ pc[s] = "dmiLock"
    /\ dmiWriter = None
    /\ IF dmiFilled
         THEN Go(s, "source") /\ UNCHANGED dmiWriter
         ELSE Go(s, "dmiRun") /\ dmiWriter' = s
    /\ UNCHANGED <<todo, ipFrom, emitted, frameVars, slotCache, pciCache, dmiFilled, sysfsVars>>

\* dmidecode has run, under the lock.
DmiSucceeds(s) ==
    /\ pc[s] = "dmiRun"
    /\ dmiFilled' = TRUE
    /\ dmiWriter' = None
    /\ Go(s, "source")
    /\ UNCHANGED <<todo, ipFrom, emitted, frameVars, slotCache, pciCache, sysfsVars>>

\* Mutant of DmiFails: the error path forgets to unlock.
DmiFailsLocked(s) ==
    /\ host.fails
    /\ pc[s] = "dmiRun"
    /\ Found(s, None, "lspci")
    /\ UNCHANGED <<todo, ipFrom, emitted, stack, addr, cacheVars, sysfsVars>>

\* It failed, or printed nothing: unlock, no slot from here, and the next caller
\* tries again.
DmiFails(s) ==
    /\ host.fails
    /\ pc[s] = "dmiRun"
    /\ dmiWriter' = None
    /\ Found(s, None, "lspci")
    /\ UNCHANGED <<todo, ipFrom, emitted, stack, addr, slotCache, pciCache, dmiFilled, sysfsVars>>

-----------------------------------------------------------------------------
(* sysfs changes under the scrapes: bonding and hot plug.                    *)

Relink ==
    /\ changes < host.changes
    /\ changes' = changes + 1
    /\ \/ \E i \in host.iface, m \in host.iface \cup {None} :
            /\ m # master[i]
            /\ m # None => link[i] # None /\ link[m] = None /\ host.link[m] = None
            /\ master' = [master EXCEPT ![i] = m]
            /\ UNCHANGED <<link, had>>
       \/ \E i \in host.iface, a \in Addr \cup {None} :
            /\ host.link[i] # None \* bonds never have a device
            /\ a # link[i]
            /\ a # None => \A j \in Iface : link[j] # a
            /\ link' = [link EXCEPT ![i] = a]
            /\ master' = [master EXCEPT ![i] = None]
            /\ had' = [had EXCEPT ![i] = @ \cup ({a} \ {None})]
    /\ UNCHANGED <<pc, todo, ipFrom, emitted, frameVars, cacheVars, host>>

Step(s) ==
    \/ LldpFails(s) \/ LldpAnswers(s) \/ EndOfLoop(s) \/ InterfaceIPs(s) \/ Emit(s)
    \/ \E i \in host.lldp : NextInterface(s, i)
    \/ CacheHit(s) \/ CacheMiss(s) \/ InterfaceMaster(s) \/ ReturnToSlave(s) \/ StoreSlot(s)
    \/ PciAddr(s) \/ StorePci(s) \/ SlotFromEthtool(s) \/ SlotFromSysfs(s) \/ SlotFromLspci(s)
    \/ NoAddress(s) \/ SearchTable(s) \/ TableMissing(s)
    \/ DmiLock(s) \/ DmiSucceeds(s) \/ DmiFails(s)

Next == (\E s \in Scrape : Step(s)) \/ Relink

Spec == Init /\ [][Next]_vars

\* Scrapes are scheduled and a lock that is let go is granted.  The tools are
\* run without a timeout: that they end is an assumption about them.
FairSpec == Spec /\ \A s \in Scrape : WF_vars(Step(s))

-----------------------------------------------------------------------------
(* Properties.                                                             *)

\* The state has its type.
TypeOK ==
    /\ pc \in [Scrape -> {"start", "next", "ips", "lookup", "master", "ethtool", "pci", "storePci",
                          "source", "dmiLock", "dmiRun", "store", "return", "done"}]
    /\ todo \in [Scrape -> SUBSET host.lldp]
    /\ \A s \in Scrape : stack[s] \in Seq(Iface)
    /\ stage \in [Scrape -> {"sysfs", "dmi", "lspci"}]
    /\ addr \in [Scrape -> Addr \cup {None}]
    /\ slot \in [Scrape -> Slots]
    /\ ipFrom \in [Scrape -> Iface \cup {None}]
    /\ emitted \subseteq [iface : host.lldp, ip : Iface, slot : Slots]
    /\ slotCache \in [Iface -> Slots \cup {None}]
    /\ pciCache \in [Iface -> Addr \cup {None}]
    /\ dmiFilled \in BOOLEAN
    /\ dmiWriter \in Scrape \cup {None}
    /\ master \in [Iface -> Iface \cup {None}]
    /\ link \in [Iface -> Addr \cup {None}]
    /\ had \in [Iface -> SUBSET Addr]

\* The interface at the end of the chain of masters.
Top[i \in Iface] == IF master[i] = None THEN i ELSE Top[master[i]]

\* The slot of an address without any cache: the first source that knows one.
SlotOfAddr(a) == IF a = None THEN NoSlot
                 ELSE IF SysfsSlot[a] # None THEN SysfsSlot[a]
                 ELSE IF DmiSlot[a] # None THEN DmiSlot[a]
                 ELSE IF LspciSlot[a] # None THEN LspciSlot[a]
                 ELSE a

\* While sysfs and the tools stay as they are, the caches cannot be told from
\* none: every scrape reports for each interface what a lone uncached run of
\* getInterfaceIPs and getInterfaceSlot would, however the scrapes interleave.
CacheTransparent ==
    changes = 0 /\ ~host.fails =>
        \A e \in emitted : e.ip = Top[e.iface] /\ e.slot = SlotOfAddr(link[Top[e.iface]])

\* Whatever is relinked while scrapes run, the caches never give an interface
\* the slot of a device it never had.
NeverForeign ==
    \A i \in Iface : slotCache[i] \in (UNION {SlotsOf(a) : a \in had[i]}) \cup {None, NoSlot}

\* dmidecode runs for one scrape at a time, under the lock, and never again
\* once its table is there (the double check in getPhysicalSlotFromDmidecode).
DmiSingleFlight ==
    /\ \A s \in Scrape : pc[s] = "dmiRun" => dmiWriter = s /\ ~dmiFilled
    /\ dmiWriter # None => pc[dmiWriter] = "dmiRun"

\* No scrape is left waiting on dmidecodeCacheMu, also when dmidecode fails.
EveryScrapeEnds == \A s \in Scrape : <>(pc[s] = "done")
=============================================================================
