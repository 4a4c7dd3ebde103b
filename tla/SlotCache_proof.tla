---------------------------- MODULE SlotCache_proof ----------------------------
(***************************************************************************)
(* The caches of the LLDP collector: dmidecode runs for one scrape at a time, *)
(* no interface is given the slot of a device it never had, whatever changes  *)
(* in sysfs, and while nothing changes every scrape reports what it would     *)
(* without the caches, for any number of scrapes and interfaces.              *)
(***************************************************************************)
EXTENDS SlotCache, SequenceTheorems, TLAPS

Inside == {"ips", "lookup", "master", "ethtool", "pci", "storePci", "source",
           "dmiLock", "dmiRun", "store", "return"}
Places == Inside \cup {"start", "next", "done"}

\* The part of the type the proofs need.
SlotTypeOK ==
    /\ pc \in [Scrape -> Places]
    /\ stack \in [Scrape -> Seq(Iface)]
    /\ stage \in [Scrape -> {"sysfs", "dmi", "lspci"}]
    /\ addr \in [Scrape -> Addr \cup {None}]
    /\ slot \in [Scrape -> Slots]
    /\ slotCache \in [Iface -> Slots \cup {None}]
    /\ pciCache \in [Iface -> Addr \cup {None}]
    /\ dmiFilled \in BOOLEAN
    /\ dmiWriter \in Scrape \cup {None}
    /\ host \in Host
    /\ master \in [Iface -> Iface \cup {None}]
    /\ link \in [Iface -> Addr \cup {None}]
    /\ had \in [Iface -> SUBSET Addr]

\* The slots an interface may ever be given.
Own(i) == (UNION {SlotsOf(a) : a \in had[i]}) \cup {NoSlot}

\* Addresses are those the interface had, and a master has none.
LinkInv ==
    /\ \A i \in Iface : link[i] \in had[i] \cup {None} /\ pciCache[i] \in had[i] \cup {None}
    /\ \A i \in Iface : master[i] # None => host.link[master[i]] = None
    /\ \A i \in Iface : host.link[i] = None => had[i] = {}

\* What a scrape carries through the recursion: below the first frame there are
\* masters only, and address and slot are the innermost interface's.
FrameOK(s) ==
    /\ pc[s] \in Inside => stack[s] # <<>>
    /\ \A k \in 2 .. Len(stack[s]) : host.link[stack[s][k]] = None
    /\ pc[s] \in {"storePci", "source", "dmiLock", "dmiRun"} => addr[s] \in had[top(s)] \cup {None}
    /\ pc[s] \in {"store", "return"} => slot[s] \in Own(top(s))

SInv == SlotTypeOK /\ LinkInv /\ NeverForeign /\ \A s \in Scrape : FrameOK(s)

-----------------------------------------------------------------------------
\* The type holds at the start, and every step keeps it.
LEMMA TopTyped ==
    ASSUME SlotTypeOK, NEW s \in Scrape, stack[s] # <<>>
    PROVE  top(s) \in Iface /\ Len(stack[s]) \in Nat \ {0}
BY DEF SlotTypeOK, top

\* NeverForeign, by what an interface may be given.
LEMMA OwnOrNone == NeverForeign <=> \A i \in Iface : slotCache[i] \in Own(i) \cup {None}
<1>1. \A X : X \cup {None, NoSlot} = (X \cup {NoSlot}) \cup {None}
  OBVIOUS
<1>2. \A i \in Iface : (UNION {SlotsOf(a) : a \in had[i]}) \cup {None, NoSlot}
                       = ((UNION {SlotsOf(a) : a \in had[i]}) \cup {NoSlot}) \cup {None}
  BY <1>1
<1> QED BY <1>2 DEF NeverForeign, Own

\* The slot a source names for an address is one of that address.
LEMMA SlotTyped == \A a \in Addr : SlotsOf(a) \subseteq Slots
BY DEF Slots

LEMMA SInvInit == Init => SInv
<1> SUFFICES ASSUME Init PROVE SInv
  OBVIOUS
<1> USE DEF Init
<1>h. /\ host \in Host
      /\ host.master \in [Iface -> Iface \cup {None}]
      /\ host.link \in [Iface -> Addr \cup {None}]
  BY HostAssumption DEF HostAssumption
<1>1. SlotTypeOK
  <2>1. NoSlot \in Slots
    BY DEF Slots
  <2>2. <<>> \in Seq(Iface)
    OBVIOUS
  <2>3. had \in [Iface -> SUBSET Addr]
    BY <1>h
  <2>4. pc \in [Scrape -> Places]
    BY DEF Places
  <2> QED BY <1>h, <2>1, <2>2, <2>3, <2>4 DEF SlotTypeOK
<1>2. LinkInv
  BY <1>h, MasterAssumption DEF LinkInv, MasterAssumption
<1>3. NeverForeign
  BY OwnOrNone
<1>4. \A s \in Scrape : FrameOK(s)
  BY DEF FrameOK, Inside
<1> QED BY <1>1, <1>2, <1>3, <1>4 DEF SInv

\* A step of one scrape leaves the frames of the others as they are.
LEMMA OthersStay ==
    ASSUME SInv, NEW u \in Scrape,
           pc'[u] = pc[u], stack'[u] = stack[u], addr'[u] = addr[u], slot'[u] = slot[u],
           host' = host, \A i \in Iface : had[i] \subseteq had'[i]
    PROVE  FrameOK(u)'
<1>1. FrameOK(u)
  BY DEF SInv
<1>2. CASE stack[u] = <<>>
  BY <1>1, <1>2 DEF FrameOK, Inside
<1>3. CASE stack[u] # <<>>
  <2>1. top(u) \in Iface /\ top(u)' = top(u)
    BY <1>3, TopTyped DEF SInv, top
  <2>2. Own(top(u)) \subseteq Own(top(u))'
    BY <2>1 DEF Own
  <2> QED BY <1>1, <2>1, <2>2 DEF FrameOK
<1> QED BY <1>2, <1>3

\* A step of a scrape within its frame: what is shared stays.
LEMMA FrameStep ==
    ASSUME SInv, NEW s \in Scrape, UNCHANGED <<cacheVars, sysfsVars>>, SlotTypeOK', FrameOK(s)',
           \A u \in Scrape \ {s} : /\ pc'[u] = pc[u] /\ stack'[u] = stack[u]
                                   /\ addr'[u] = addr[u] /\ slot'[u] = slot[u]
    PROVE  SInv'
<1>1. LinkInv' /\ NeverForeign'
  BY DEF SInv, LinkInv, NeverForeign, cacheVars, sysfsVars
<1>2. \A u \in Scrape : FrameOK(u)'
  BY OthersStay DEF sysfsVars
<1> QED BY <1>1, <1>2 DEF SInv

\* Collect and the recursion.
LEMMA CollectKeeps ==
    ASSUME SInv, NEW s \in Scrape,
           \/ LldpFails(s) \/ LldpAnswers(s) \/ EndOfLoop(s) \/ InterfaceIPs(s) \/ Emit(s)
           \/ \E i \in host.lldp : NextInterface(s, i)
    PROVE  SInv'
<1> USE DEF SInv
<1>t. SlotTypeOK /\ FrameOK(s)
  OBVIOUS
<1>1. CASE LldpFails(s) \/ LldpAnswers(s) \/ EndOfLoop(s) \/ Emit(s)
  <2> USE <1>1 DEF LldpFails, LldpAnswers, EndOfLoop, Emit, Go
  <2>1. pc' = [pc EXCEPT ![s] = pc'[s]] /\ pc'[s] \in {"next", "done"}
        /\ UNCHANGED <<frameVars, cacheVars, sysfsVars>>
    BY <1>t DEF SlotTypeOK
  <2> HIDE <1>1
  <2>2. SlotTypeOK'
    BY <1>t, <2>1 DEF SlotTypeOK, Places, frameVars, cacheVars, sysfsVars
  <2>3. FrameOK(s)'
    BY <1>t, <2>1 DEF FrameOK, Inside, frameVars, sysfsVars
  <2>4. \A u \in Scrape \ {s} : /\ pc'[u] = pc[u] /\ stack'[u] = stack[u]
                                /\ addr'[u] = addr[u] /\ slot'[u] = slot[u]
    BY <1>t, <2>1 DEF SlotTypeOK, frameVars
  <2> QED BY <2>1, <2>2, <2>3, <2>4, FrameStep
<1>2. CASE InterfaceIPs(s)
  <2> USE <1>2 DEF InterfaceIPs, Go, frameVars
  <2>1. SlotTypeOK'
    BY <1>t DEF SlotTypeOK, Places, Inside, cacheVars, sysfsVars
  <2>2. FrameOK(s)'
    BY <1>t DEF FrameOK, Inside, SlotTypeOK, sysfsVars
  <2>3. \A u \in Scrape \ {s} : pc'[u] = pc[u]
    BY <1>t DEF SlotTypeOK
  <2> QED BY <2>1, <2>2, <2>3, FrameStep
<1>3. ASSUME NEW i \in host.lldp, NextInterface(s, i) PROVE SInv'
  <2> USE <1>3 DEF NextInterface, Go
  <2>0. i \in Iface
    BY <1>t, HostAssumption DEF SlotTypeOK, HostAssumption
  <2>1. SlotTypeOK'
    BY <1>t, <2>0 DEF SlotTypeOK, Places, Inside, cacheVars, sysfsVars
  <2>2. pc'[s] = "ips" /\ stack'[s] = <<i>>
    BY <1>t DEF SlotTypeOK
  <2>3. FrameOK(s)'
    BY <2>2 DEF FrameOK, Inside
  <2>4. \A u \in Scrape \ {s} : pc'[u] = pc[u] /\ stack'[u] = stack[u]
    BY <1>t DEF SlotTypeOK
  <2> QED BY <2>1, <2>3, <2>4, FrameStep
<1> QED BY <1>1, <1>2, <1>3

\* getInterfaceSlot: the cache, the master, the recursion.
LEMMA RecursionKeeps ==
    ASSUME SInv, NEW s \in Scrape,
           CacheHit(s) \/ CacheMiss(s) \/ InterfaceMaster(s) \/ SlotFromEthtool(s) \/ ReturnToSlave(s)
    PROVE  SInv'
<1> USE DEF SInv
<1>t. SlotTypeOK /\ FrameOK(s) /\ LinkInv /\ NeverForeign
  OBVIOUS
<1>s. stack[s] # <<>> /\ top(s) \in Iface /\ Len(stack[s]) \in Nat \ {0}
      /\ stack[s] \in Seq(Iface)
  BY <1>t, TopTyped DEF FrameOK, Inside, CacheHit, CacheMiss, InterfaceMaster, SlotFromEthtool,
                        ReturnToSlave, SlotTypeOK
<1>1. CASE CacheHit(s)
  <2> USE <1>1 DEF CacheHit, Go
  <2>1. slotCache[top(s)] \in Slots /\ slotCache[top(s)] \in Own(top(s))
    BY <1>t, <1>s, OwnOrNone DEF SlotTypeOK
  <2>2. SlotTypeOK'
    BY <1>t, <2>1 DEF SlotTypeOK, Places, Inside, cacheVars, sysfsVars
  <2>3. slot'[s] = slotCache[top(s)] /\ pc'[s] = "return" /\ UNCHANGED <<stack, addr, had, host>>
    BY <1>t DEF SlotTypeOK, sysfsVars
  <2>4. FrameOK(s)'
    BY <1>t, <1>s, <2>1, <2>3 DEF FrameOK, top, Own
  <2>5. \A u \in Scrape \ {s} : pc'[u] = pc[u] /\ slot'[u] = slot[u]
    BY <1>t DEF SlotTypeOK
  <2> QED BY <2>2, <2>4, <2>5, FrameStep
<1>2. CASE CacheMiss(s) \/ SlotFromEthtool(s)
  <2> USE <1>2 DEF CacheMiss, SlotFromEthtool, Go, frameVars
  <2>1. SlotTypeOK'
    BY <1>t DEF SlotTypeOK, Places, Inside, cacheVars, sysfsVars
  <2>2. pc'[s] \in {"master", "pci"} /\ UNCHANGED <<stack, addr, slot, host>>
    BY <1>t DEF SlotTypeOK, sysfsVars
  <2>3. FrameOK(s)'
    BY <1>t, <1>s, <2>2 DEF FrameOK
  <2>4. \A u \in Scrape \ {s} : pc'[u] = pc[u]
    BY <1>t DEF SlotTypeOK
  <2> QED BY <2>1, <2>2, <2>3, <2>4, FrameStep
<1>3. CASE InterfaceMaster(s) /\ master[top(s)] \notin {None, top(s)}
  <2> DEFINE m == master[top(s)]
  <2>1. m \in Iface /\ host.link[m] = None
    BY <1>t, <1>s, <1>3 DEF SlotTypeOK, LinkInv
  <2>2. /\ stack' = [stack EXCEPT ![s] = Append(@, m)]
        /\ pc' = [pc EXCEPT ![s] = "lookup"]
        /\ UNCHANGED <<stage, addr, slot, cacheVars, sysfsVars>>
    BY <1>3 DEF InterfaceMaster, Go
  <2> HIDE DEF m
  <2>3. SlotTypeOK'
    BY <1>t, <1>s, <2>1, <2>2 DEF SlotTypeOK, Places, Inside, cacheVars, sysfsVars
  <2>4. /\ pc'[s] = "lookup"
        /\ stack'[s] = Append(stack[s], m)
        /\ host' = host
    BY <1>t, <2>2 DEF SlotTypeOK, sysfsVars
  <2>5. /\ Len(stack'[s]) = Len(stack[s]) + 1
        /\ \A k \in 1 .. Len(stack[s]) : stack'[s][k] = stack[s][k]
        /\ stack'[s][Len(stack[s]) + 1] = m
    BY <1>s, <2>1, <2>4
  <2>6. stack'[s] # <<>> /\ \A k \in 2 .. Len(stack'[s]) : host.link[stack'[s][k]] = None
    BY <1>t, <1>s, <2>1, <2>5 DEF FrameOK
  <2>7. FrameOK(s)'
    BY <2>4, <2>6 DEF FrameOK
  <2>8. \A u \in Scrape \ {s} : pc'[u] = pc[u] /\ stack'[u] = stack[u]
    BY <1>t, <2>2 DEF SlotTypeOK
  <2> QED BY <2>2, <2>3, <2>7, <2>8, FrameStep
<1>4. CASE InterfaceMaster(s) /\ master[top(s)] \in {None, top(s)}
  <2>1. /\ pc' = [pc EXCEPT ![s] = "ethtool"]
        /\ UNCHANGED <<stack, stage, addr, slot, cacheVars, sysfsVars>>
    BY <1>4 DEF InterfaceMaster, Go
  <2>2. SlotTypeOK'
    BY <1>t, <2>1 DEF SlotTypeOK, Places, Inside, cacheVars, sysfsVars
  <2>3. FrameOK(s)'
    BY <1>t, <1>s, <2>1 DEF FrameOK, SlotTypeOK, sysfsVars
  <2>4. \A u \in Scrape \ {s} : pc'[u] = pc[u]
    BY <1>t, <2>1 DEF SlotTypeOK
  <2> QED BY <2>1, <2>2, <2>3, <2>4, FrameStep
<1>5. CASE ReturnToSlave(s)
  <2> DEFINE n == Len(stack[s]) - 1
  <2>1. /\ n \in Nat \ {0}
        /\ pc[s] = "return"
        /\ stack' = [stack EXCEPT ![s] = SubSeq(@, 1, Len(@) - 1)]
        /\ pc' = [pc EXCEPT ![s] = "store"]
        /\ UNCHANGED <<stage, addr, slot, cacheVars, sysfsVars>>
    <3>1. Len(stack[s]) > 1
      BY <1>5 DEF ReturnToSlave
    <3>2. n \in Nat \ {0}
      <4>1. \A l \in Nat : l > 1 => l - 1 \in Nat \ {0}
        OBVIOUS
      <4>2. Len(stack[s]) \in Nat
        BY <1>s
      <4> QED BY ONLY <3>1, <4>1, <4>2
    <3> QED BY <1>5, <3>2 DEF ReturnToSlave, Go
  <2>2. /\ pc'[s] = "store" /\ stack'[s] = SubSeq(stack[s], 1, n)
        /\ slot'[s] = slot[s] /\ host' = host /\ had' = had
    BY <1>t, <2>1 DEF SlotTypeOK, sysfsVars
  <2>3. /\ stack'[s] \in Seq(Iface)
        /\ Len(stack'[s]) = n
        /\ \A k \in 1 .. n : stack'[s][k] = stack[s][k]
    BY <1>s, <2>1, <2>2, SubSeqProperties
  <2>4. SlotTypeOK'
    <3>1. stack' \in [Scrape -> Seq(Iface)]
      BY <1>t, <2>1, <2>2, <2>3 DEF SlotTypeOK
    <3> QED BY <1>t, <2>1, <3>1 DEF SlotTypeOK, Places, Inside, cacheVars, sysfsVars
  <2>5. slot[s] = NoSlot
    <3>1. host.link[top(s)] = None
      <4>1. Len(stack[s]) \in 2 .. Len(stack[s])
        <5>1. \A l \in Nat : l > 1 => l \in 2 .. l
          OBVIOUS
        <5>2. Len(stack[s]) \in Nat /\ Len(stack[s]) > 1
          BY <1>s, <1>5 DEF ReturnToSlave
        <5> QED BY ONLY <5>1, <5>2
      <4> QED BY <1>t, <4>1 DEF FrameOK, top
    <3>2. had[top(s)] = {}
      BY <1>t, <1>s, <3>1 DEF LinkInv
    <3> QED BY <1>t, <2>1, <3>2 DEF FrameOK, Own
  <2>6. \A k \in 2 .. n : host.link[stack'[s][k]] = None
    <3>1. \A k \in 2 .. n : k \in 1 .. n /\ k \in 2 .. Len(stack[s])
      BY <1>s, <2>1
    <3> QED BY <1>t, <2>3, <3>1 DEF FrameOK
  <2>7. stack'[s] # <<>>
    BY <2>1, <2>3
  <2> HIDE DEF n
  <2>8. FrameOK(s)'
    <3>1. slot'[s] \in Own(top(s))'
      BY <2>2, <2>5 DEF Own
    <3> QED BY <2>2, <2>3, <2>6, <2>7, <3>1 DEF FrameOK
  <2>9. \A u \in Scrape \ {s} : pc'[u] = pc[u] /\ stack'[u] = stack[u]
    BY <1>t, <2>1 DEF SlotTypeOK
  <2> QED BY <2>1, <2>4, <2>8, <2>9, FrameStep
<1> QED BY <1>1, <1>2, <1>3, <1>4, <1>5

-----------------------------------------------------------------------------
\* What a source found is a slot of the innermost interface.
LEMMA FoundKeeps ==
    ASSUME SInv, NEW s \in Scrape, pc[s] \in {"source", "dmiRun"},
           NEW x, x # None => x \in Slots /\ x \in Own(top(s)),
           NEW following \in {"dmi", "lspci"}, Found(s, x, following),
           UNCHANGED <<stack, addr, slotCache, pciCache, sysfsVars>>,
           dmiFilled' \in BOOLEAN, dmiWriter' \in Scrape \cup {None}
    PROVE  SInv'
<1> USE DEF SInv
<1>t. SlotTypeOK /\ FrameOK(s) /\ LinkInv /\ NeverForeign
  OBVIOUS
<1>1. /\ pc' = [pc EXCEPT ![s] = pc'[s]] /\ pc'[s] \in {"store", "pci"}
      /\ pc'[s] = "store" => x # None /\ slot'[s] = x
      /\ slot' \in [Scrape -> Slots]
      /\ stage' \in [Scrape -> {"sysfs", "dmi", "lspci"}]
      /\ \A u \in Scrape \ {s} : slot'[u] = slot[u]
  BY <1>t DEF Found, Go, SlotTypeOK
<1>2. SlotTypeOK'
  BY <1>t, <1>1 DEF SlotTypeOK, Places, Inside, sysfsVars
<1>3. stack[s] # <<>> /\ UNCHANGED <<host, had>>
  BY <1>t DEF FrameOK, Inside, sysfsVars
<1>4. FrameOK(s)'
  BY <1>t, <1>1, <1>3 DEF FrameOK, top, Own
<1>5. LinkInv' /\ NeverForeign'
  BY <1>t DEF LinkInv, NeverForeign, sysfsVars
<1>6. \A u \in Scrape \ {s} : pc'[u] = pc[u]
  BY <1>t, <1>1 DEF SlotTypeOK
<1>7. \A u \in Scrape : FrameOK(u)'
  BY <1>1, <1>3, <1>4, <1>6, OthersStay
<1> QED BY <1>2, <1>5, <1>7

\* The sources of slots.
LEMMA SourcesKeep ==
    ASSUME SInv, NEW s \in Scrape,
           \/ SlotFromSysfs(s) \/ SlotFromLspci(s) \/ NoAddress(s) \/ SearchTable(s)
           \/ TableMissing(s) \/ DmiLock(s) \/ DmiSucceeds(s) \/ DmiFails(s)
    PROVE  SInv'
<1> USE DEF SInv
<1>t. SlotTypeOK /\ FrameOK(s) /\ LinkInv /\ NeverForeign
  OBVIOUS
<1>a. /\ pc[s] \in {"source", "dmiLock", "dmiRun"}
      /\ stack[s] # <<>> /\ top(s) \in Iface
      /\ addr[s] \in had[top(s)] \cup {None} /\ addr[s] \in Addr \cup {None}
  <2>1. pc[s] \in {"source", "dmiLock", "dmiRun"}
    BY DEF SlotFromSysfs, SlotFromLspci, NoAddress, SearchTable, TableMissing, DmiLock,
           DmiSucceeds, DmiFails, DmiStage
  <2> QED BY <1>t, <2>1, TopTyped DEF FrameOK, Inside, SlotTypeOK
<1>b. \A x \in SlotsOf(addr[s]) : addr[s] # None => x \in Slots /\ x \in Own(top(s))
  BY <1>a, SlotTyped DEF Own
<1>d. dmiFilled \in BOOLEAN /\ dmiWriter \in Scrape \cup {None}
  BY <1>t DEF SlotTypeOK
<1>1. CASE SlotFromSysfs(s)
  <2> DEFINE x == IF addr[s] = None THEN None ELSE SysfsSlot[addr[s]]
  <2>1. x # None => x \in Slots /\ x \in Own(top(s))
    BY <1>b DEF SlotsOf
  <2>2. /\ Found(s, x, "dmi") /\ pc[s] = "source"
        /\ UNCHANGED <<stack, addr, cacheVars, sysfsVars>>
    BY <1>1 DEF SlotFromSysfs
  <2> HIDE DEF x
  <2> QED BY <1>d, <2>1, <2>2, FoundKeeps DEF cacheVars
<1>2. CASE NoAddress(s)
  BY <1>d, <1>2, FoundKeeps DEF NoAddress, DmiStage, cacheVars
<1>3. CASE SearchTable(s)
  <2> DEFINE x == DmiSlot[addr[s]]
  <2>1. x # None => x \in Slots /\ x \in Own(top(s))
    BY <1>b, <1>3 DEF SlotsOf, SearchTable
  <2>2. /\ Found(s, x, "lspci") /\ pc[s] = "source"
        /\ UNCHANGED <<stack, addr, cacheVars, sysfsVars>>
    BY <1>3 DEF SearchTable, DmiStage
  <2> HIDE DEF x
  <2> QED BY <1>d, <2>1, <2>2, FoundKeeps DEF cacheVars
<1>4. CASE DmiFails(s)
  BY <1>d, <1>4, FoundKeeps DEF DmiFails
<1>5. CASE SlotFromLspci(s)
  <2>1. PICK x \in {NoSlot, addr[s], LspciSlot[addr[s]]} :
           /\ slot' = [slot EXCEPT ![s] = x]
           /\ x # NoSlot => addr[s] # None /\ x \in SlotsOf(addr[s])
    BY <1>5 DEF SlotFromLspci, SlotsOf
  <2>2. x \in Slots /\ x \in Own(top(s))
    <3>1. NoSlot \in Slots /\ NoSlot \in Own(top(s))
      BY DEF Slots, Own
    <3> QED BY <1>b, <2>1, <3>1
  <2>3. /\ pc' = [pc EXCEPT ![s] = "store"]
        /\ UNCHANGED <<stack, stage, addr, cacheVars, sysfsVars>>
    BY <1>5 DEF SlotFromLspci, Go
  <2>4. SlotTypeOK'
    BY <1>t, <2>1, <2>2, <2>3 DEF SlotTypeOK, Places, Inside, cacheVars, sysfsVars
  <2>5. pc'[s] = "store" /\ slot'[s] = x /\ UNCHANGED <<host, had>>
    BY <1>t, <2>1, <2>3 DEF SlotTypeOK, sysfsVars
  <2>6. FrameOK(s)'
    BY <1>t, <1>a, <2>2, <2>3, <2>5 DEF FrameOK, top, Own
  <2>7. \A u \in Scrape \ {s} : pc'[u] = pc[u] /\ slot'[u] = slot[u]
    BY <1>t, <2>1, <2>3 DEF SlotTypeOK
  <2> QED BY <2>3, <2>4, <2>6, <2>7, FrameStep
<1>6. CASE TableMissing(s) \/ DmiLock(s) \/ DmiSucceeds(s)
  <2>1. /\ pc' = [pc EXCEPT ![s] = pc'[s]] /\ pc'[s] \in {"dmiLock", "dmiRun", "source"}
        /\ dmiFilled' \in BOOLEAN /\ dmiWriter' \in Scrape \cup {None}
        /\ UNCHANGED <<frameVars, slotCache, pciCache, sysfsVars>>
    BY <1>t, <1>6 DEF TableMissing, DmiLock, DmiSucceeds, Go, SlotTypeOK, cacheVars
  <2>2. SlotTypeOK'
    BY <1>t, <2>1 DEF SlotTypeOK, Places, Inside, frameVars, sysfsVars
  <2>3. FrameOK(s)'
    BY <1>t, <1>a, <2>1 DEF FrameOK, top, Own, frameVars, sysfsVars
  <2>4. LinkInv' /\ NeverForeign'
    BY <1>t, <2>1 DEF LinkInv, NeverForeign, sysfsVars
  <2>5. \A u \in Scrape \ {s} : pc'[u] = pc[u]
    BY <1>t, <2>1 DEF SlotTypeOK
  <2>6. \A u \in Scrape : FrameOK(u)'
    BY <2>1, <2>3, <2>5, OthersStay DEF frameVars, sysfsVars
  <2> QED BY <2>2, <2>4, <2>6
<1> QED BY <1>1, <1>2, <1>3, <1>4, <1>5, <1>6

\* The caches are written under their locks with what the frame carries.
LEMMA StoresKeep ==
    ASSUME SInv, NEW s \in Scrape, StoreSlot(s) \/ PciAddr(s) \/ StorePci(s)
    PROVE  SInv'
<1> USE DEF SInv
<1>t. SlotTypeOK /\ FrameOK(s) /\ LinkInv /\ NeverForeign
  OBVIOUS
<1>a. stack[s] # <<>> /\ top(s) \in Iface
  BY <1>t, TopTyped DEF FrameOK, Inside, StoreSlot, PciAddr, StorePci
<1>1. CASE StoreSlot(s)
  <2>1. slot[s] \in Own(top(s)) /\ slot[s] \in Slots
    BY <1>t, <1>1 DEF FrameOK, StoreSlot, SlotTypeOK
  <2>2. /\ pc[s] = "store"
        /\ slotCache' = [slotCache EXCEPT ![top(s)] = slot[s]]
        /\ pc' = [pc EXCEPT ![s] = "return"]
        /\ UNCHANGED <<frameVars, pciCache, dmiFilled, dmiWriter, sysfsVars>>
    BY <1>1 DEF StoreSlot, Go
  <2>3. SlotTypeOK'
    BY <1>t, <2>1, <2>2 DEF SlotTypeOK, Places, Inside, frameVars, sysfsVars
  <2>4. LinkInv'
    BY <1>t, <2>2 DEF LinkInv, sysfsVars
  <2>5. NeverForeign'
    BY <1>t, <1>a, <2>1, <2>2 DEF NeverForeign, Own, SlotTypeOK, sysfsVars
  <2>6. pc'[s] = "return" /\ UNCHANGED <<stack, addr, slot, host, had>>
    BY <1>t, <2>2 DEF SlotTypeOK, frameVars, sysfsVars
  <2>7. FrameOK(s)'
    BY <1>t, <1>a, <2>1, <2>6 DEF FrameOK, top, Own
  <2>8. \A u \in Scrape \ {s} : pc'[u] = pc[u]
    BY <1>t, <2>2 DEF SlotTypeOK
  <2>9. \A u \in Scrape : FrameOK(u)'
    BY <2>6, <2>7, <2>8, OthersStay
  <2> QED BY <2>3, <2>4, <2>5, <2>9
<1>2. CASE PciAddr(s)
  <2>1. PICK a \in {pciCache[top(s)], link[top(s)]} :
           /\ addr' = [addr EXCEPT ![s] = a]
           /\ \E p \in {"storePci", "source"} : pc' = [pc EXCEPT ![s] = p]
           /\ UNCHANGED <<stack, stage, slot, cacheVars, sysfsVars>>
    BY <1>2 DEF PciAddr, Go
  <2>2. a \in had[top(s)] \cup {None} /\ a \in Addr \cup {None}
    BY <1>t, <1>a, <2>1 DEF LinkInv, SlotTypeOK
  <2>3. SlotTypeOK'
    BY <1>t, <2>1, <2>2 DEF SlotTypeOK, Places, Inside, cacheVars, sysfsVars
  <2>4. pc'[s] \in {"storePci", "source"} /\ addr'[s] = a /\ UNCHANGED <<stack, host, had>>
    BY <1>t, <2>1 DEF SlotTypeOK, sysfsVars
  <2>5. FrameOK(s)'
    BY <1>t, <1>a, <2>2, <2>4 DEF FrameOK, top
  <2>6. \A u \in Scrape \ {s} : pc'[u] = pc[u] /\ addr'[u] = addr[u]
    BY <1>t, <2>1 DEF SlotTypeOK
  <2> QED BY <2>1, <2>3, <2>5, <2>6, FrameStep
<1>3. CASE StorePci(s)
  <2>1. addr[s] \in had[top(s)] \cup {None} /\ addr[s] \in Addr \cup {None}
    BY <1>t, <1>3 DEF FrameOK, StorePci, SlotTypeOK
  <2>2. /\ pciCache' = [pciCache EXCEPT ![top(s)] = addr[s]]
        /\ pc' = [pc EXCEPT ![s] = "source"]
        /\ UNCHANGED <<frameVars, slotCache, dmiFilled, dmiWriter, sysfsVars>>
    BY <1>3 DEF StorePci, Go
  <2>3. SlotTypeOK'
    BY <1>t, <2>1, <2>2 DEF SlotTypeOK, Places, Inside, frameVars, sysfsVars
  <2>4. LinkInv'
    BY <1>t, <1>a, <2>1, <2>2 DEF LinkInv, SlotTypeOK, sysfsVars
  <2>5. NeverForeign'
    BY <1>t, <2>2 DEF NeverForeign, sysfsVars
  <2>6. pc'[s] = "source" /\ UNCHANGED <<stack, addr, slot, host, had>>
    BY <1>t, <2>2 DEF SlotTypeOK, frameVars, sysfsVars
  <2>7. FrameOK(s)'
    BY <1>t, <1>a, <2>1, <2>6 DEF FrameOK, top
  <2>8. \A u \in Scrape \ {s} : pc'[u] = pc[u]
    BY <1>t, <2>2 DEF SlotTypeOK
  <2>9. \A u \in Scrape : FrameOK(u)'
    BY <2>6, <2>7, <2>8, OthersStay
  <2> QED BY <2>3, <2>4, <2>5, <2>9
<1> QED BY <1>1, <1>2, <1>3

\* sysfs changes: an interface may get an address, which is its own from then on,
\* or a master, which has none.
LEMMA RelinkKeeps == ASSUME SInv, Relink PROVE SInv'
<1> USE DEF SInv
<1>t. SlotTypeOK /\ LinkInv /\ NeverForeign
  OBVIOUS
<1>u. UNCHANGED <<pc, frameVars, cacheVars, host>>
  BY DEF Relink
<1>i. host.iface \subseteq Iface
  BY <1>t, HostAssumption DEF SlotTypeOK, HostAssumption
<1> DEFINE Sysfs == /\ master' \in [Iface -> Iface \cup {None}]
                    /\ link' \in [Iface -> Addr \cup {None}]
                    /\ had' \in [Iface -> SUBSET Addr]
                    /\ \A j \in Iface : had[j] \subseteq had'[j]
                    /\ LinkInv'
<1>1. Sysfs
  <2>1. ASSUME NEW i \in host.iface, NEW m \in host.iface \cup {None},
               m # None => host.link[m] = None,
               master' = [master EXCEPT ![i] = m], UNCHANGED <<link, had>>
        PROVE  Sysfs
    BY <1>t, <1>u, <1>i, <2>1 DEF SlotTypeOK, LinkInv, cacheVars
  <2>2. ASSUME NEW i \in host.iface, NEW a \in Addr \cup {None}, host.link[i] # None,
               link' = [link EXCEPT ![i] = a], master' = [master EXCEPT ![i] = None],
               had' = [had EXCEPT ![i] = @ \cup ({a} \ {None})]
        PROVE  Sysfs
    BY <1>t, <1>u, <1>i, <2>2, NoneAssumption DEF SlotTypeOK, LinkInv, cacheVars, NoneAssumption
  <2> QED BY <2>1, <2>2 DEF Relink
<1>2. SlotTypeOK'
  BY <1>t, <1>u, <1>1 DEF SlotTypeOK, frameVars, cacheVars
<1>3. NeverForeign'
  BY <1>t, <1>u, <1>1 DEF NeverForeign, cacheVars
<1>4. \A s \in Scrape : FrameOK(s)'
  BY <1>u, <1>1, OthersStay DEF frameVars
<1> QED BY <1>1, <1>2, <1>3, <1>4

\* Caches and frames hold an interface's own addresses and slots in every
\* reachable state.
THEOREM Caches == Spec => []SInv
<1>1. SInv /\ [Next]_vars => SInv'
  <2> SUFFICES ASSUME SInv, [Next]_vars PROVE SInv'
    OBVIOUS
  <2>1. ASSUME NEW s \in Scrape, Step(s) PROVE SInv'
    BY <2>1, CollectKeeps, RecursionKeeps, SourcesKeep, StoresKeep DEF Step
  <2>2. CASE Relink
    BY <2>2, RelinkKeeps
  <2>3. CASE UNCHANGED vars
    <3> USE <2>3 DEF vars, frameVars, cacheVars, sysfsVars, SInv
    <3>1. SlotTypeOK' /\ LinkInv' /\ NeverForeign'
      BY DEF SlotTypeOK, LinkInv, NeverForeign
    <3>2. \A s \in Scrape : FrameOK(s)'
      BY OthersStay
    <3> QED BY <3>1, <3>2
  <2> QED BY <2>1, <2>2, <2>3 DEF Next
<1> QED BY SInvInit, <1>1, PTL DEF Spec

\* The slot cache gives no interface the slot of a device it never had.
THEOREM OwnSlots == Spec => []NeverForeign
<1>1. SInv => NeverForeign
  BY DEF SInv
<1> QED BY <1>1, Caches, PTL

-----------------------------------------------------------------------------
\* dmidecode runs for the holder of the lock alone, and not again after it filled
\* the table.
THEOREM SingleFlight == Spec => []DmiSingleFlight
<1>1. Init => DmiSingleFlight
  BY NoneAssumption DEF Init, DmiSingleFlight, NoneAssumption
<1>2. SInv /\ DmiSingleFlight /\ [Next]_vars => DmiSingleFlight'
  <2> SUFFICES ASSUME SInv, DmiSingleFlight, [Next]_vars PROVE DmiSingleFlight'
    OBVIOUS
  <2>t. pc \in [Scrape -> Places] /\ None \notin Scrape /\ dmiWriter \in Scrape \cup {None}
    BY NoneAssumption DEF SInv, SlotTypeOK, NoneAssumption
  <2>1. ASSUME NEW s \in Scrape, pc[s] # "dmiRun", UNCHANGED <<dmiFilled, dmiWriter>>,
               pc' = pc \/ \E p \in Places \ {"dmiRun"} : pc' = [pc EXCEPT ![s] = p]
        PROVE  DmiSingleFlight'
    BY <2>t, <2>1 DEF DmiSingleFlight
  <2>2. ASSUME NEW s \in Scrape, DmiLock(s), ~dmiFilled PROVE DmiSingleFlight'
    BY <2>t, <2>2 DEF DmiLock, Go, DmiSingleFlight
  <2>3. ASSUME NEW s \in Scrape, DmiSucceeds(s) \/ DmiFails(s) PROVE DmiSingleFlight'
    <3>1. pc[s] = "dmiRun" /\ dmiWriter' = None /\ pc'[s] # "dmiRun"
          /\ \A u \in Scrape \ {s} : pc'[u] = pc[u]
      BY <2>t, <2>3 DEF DmiSucceeds, DmiFails, Found, Go
    <3>2. \A u \in Scrape : pc'[u] # "dmiRun"
      BY <3>1 DEF DmiSingleFlight
    <3> QED BY <3>1, <3>2 DEF DmiSingleFlight
  <2>4. ASSUME NEW s \in Scrape, Step(s), ~(DmiLock(s) /\ ~dmiFilled), ~DmiSucceeds(s), ~DmiFails(s)
        PROVE  DmiSingleFlight'
    <3>1. CASE \/ LldpFails(s) \/ LldpAnswers(s) \/ EndOfLoop(s) \/ InterfaceIPs(s) \/ Emit(s)
               \/ \E i \in host.lldp : NextInterface(s, i)
      BY <2>1, <3>1 DEF LldpFails, LldpAnswers, EndOfLoop, InterfaceIPs, Emit, NextInterface, Go,
                        cacheVars, Places, Inside
    <3>2. CASE \/ CacheHit(s) \/ CacheMiss(s) \/ InterfaceMaster(s) \/ ReturnToSlave(s)
               \/ StoreSlot(s) \/ SlotFromEthtool(s)
      BY <2>1, <3>2 DEF CacheHit, CacheMiss, InterfaceMaster, ReturnToSlave, StoreSlot,
                        SlotFromEthtool, Go, cacheVars, Places, Inside
    <3>3. CASE PciAddr(s) \/ StorePci(s) \/ TableMissing(s) \/ (DmiLock(s) /\ dmiFilled)
      BY <2>1, <3>3 DEF PciAddr, StorePci, TableMissing, DmiLock, DmiStage, Go, cacheVars,
                        Places, Inside
    <3>4. CASE SlotFromSysfs(s) \/ SlotFromLspci(s) \/ NoAddress(s) \/ SearchTable(s)
      BY <2>1, <3>4 DEF SlotFromSysfs, SlotFromLspci, NoAddress, SearchTable, DmiStage, Found, Go,
                        cacheVars, Places, Inside
    <3> QED BY <2>4, <3>1, <3>2, <3>3, <3>4, <2>t DEF Step, SInv, SlotTypeOK
  <2>5. CASE Relink \/ UNCHANGED vars
    BY <2>5 DEF Relink, vars, cacheVars, DmiSingleFlight
  <2> QED BY <2>2, <2>3, <2>4, <2>5 DEF Next
<1> QED BY <1>1, <1>2, Caches, PTL DEF Spec

-----------------------------------------------------------------------------
(* The type: what is reported is of an interface with a neighbour.           *)

\* The rest of the type: what a scrape reports is an interface with a neighbour,
\* the one at the bottom of its recursion.
RestInv ==
    /\ todo \in [Scrape -> SUBSET host.lldp]
    /\ ipFrom \in [Scrape -> Iface \cup {None}]
    /\ \A s \in Scrape : pc[s] \in Inside => ipFrom[s] \in Iface /\ base(s) \in host.lldp
    /\ emitted \subseteq [iface : host.lldp, ip : Iface, slot : Slots]

\* What a step of a scrape leaves alone: sysfs, the other scrapes and, but for
\* the loop of Collect, the interface reported on.
LEMMA StepFrame ==
    ASSUME SInv, RestInv, NEW s \in Scrape, Step(s)
    PROVE  /\ UNCHANGED sysfsVars
           /\ \A u \in Scrape \ {s} :
                 /\ pc'[u] = pc[u] /\ stack'[u] = stack[u] /\ stage'[u] = stage[u]
                 /\ addr'[u] = addr[u] /\ slot'[u] = slot[u]
                 /\ todo'[u] = todo[u] /\ ipFrom'[u] = ipFrom[u]
<1>t. SlotTypeOK /\ RestInv
  BY DEF SInv
<1>1. UNCHANGED sysfsVars
  BY DEF Step, LldpFails, LldpAnswers, EndOfLoop, InterfaceIPs, Emit, NextInterface, CacheHit,
         CacheMiss, InterfaceMaster, ReturnToSlave, StoreSlot, PciAddr, StorePci, SlotFromEthtool,
         SlotFromSysfs, SlotFromLspci, NoAddress, SearchTable, TableMissing, DmiLock, DmiSucceeds,
         DmiFails
<1>2. ASSUME NEW u \in Scrape \ {s}
      PROVE  /\ pc'[u] = pc[u] /\ stack'[u] = stack[u] /\ stage'[u] = stage[u]
             /\ addr'[u] = addr[u] /\ slot'[u] = slot[u]
             /\ todo'[u] = todo[u] /\ ipFrom'[u] = ipFrom[u]
  <2> USE <1>t DEF SlotTypeOK, RestInv, Go, frameVars
  <2>1. CASE LldpFails(s) \/ LldpAnswers(s) \/ EndOfLoop(s) \/ Emit(s)
    BY <2>1 DEF LldpFails, LldpAnswers, EndOfLoop, Emit
  <2>2. CASE InterfaceIPs(s) \/ \E i \in host.lldp : NextInterface(s, i)
    BY <2>2 DEF InterfaceIPs, NextInterface
  <2>3. CASE CacheHit(s) \/ CacheMiss(s) \/ ReturnToSlave(s) \/ StoreSlot(s)
    BY <2>3 DEF CacheHit, CacheMiss, ReturnToSlave, StoreSlot
  <2>4. CASE InterfaceMaster(s) \/ SlotFromEthtool(s) \/ PciAddr(s) \/ StorePci(s)
    BY <2>4 DEF InterfaceMaster, SlotFromEthtool, PciAddr, StorePci
  <2>5. CASE SlotFromSysfs(s) \/ SlotFromLspci(s) \/ NoAddress(s) \/ SearchTable(s)
    BY <2>5 DEF SlotFromSysfs, SlotFromLspci, NoAddress, SearchTable, Found
  <2>6. CASE TableMissing(s) \/ DmiLock(s) \/ DmiSucceeds(s) \/ DmiFails(s)
    BY <2>6 DEF TableMissing, DmiLock, DmiSucceeds, DmiFails, Found
  <2> QED BY <2>1, <2>2, <2>3, <2>4, <2>5, <2>6 DEF Step
<1> QED BY <1>1, <1>2

\* Within getInterfaceSlot the bottom of the recursion stays, and only Emit
\* leaves it.
LEMMA BaseStays ==
    ASSUME SInv, RestInv, NEW s \in Scrape, Step(s), pc[s] \in Inside \ {"ips"}
    PROVE  /\ UNCHANGED <<todo, ipFrom>>
           /\ base(s)' = base(s)
           /\ ~Emit(s) => pc'[s] \in Inside \ {"ips"} /\ UNCHANGED emitted
           /\ Emit(s) => pc'[s] = "next"
<1>t. SlotTypeOK /\ FrameOK(s)
  BY DEF SInv
<1>s. stack[s] # <<>> /\ top(s) \in Iface /\ Len(stack[s]) \in Nat \ {0} /\ stack[s] \in Seq(Iface)
  BY <1>t, TopTyped DEF FrameOK, SlotTypeOK
<1>0. ~LldpFails(s) /\ ~LldpAnswers(s) /\ ~EndOfLoop(s) /\ ~InterfaceIPs(s)
      /\ \A i \in host.lldp : ~NextInterface(s, i)
  BY DEF LldpFails, LldpAnswers, EndOfLoop, InterfaceIPs, NextInterface, Inside
<1>1. CASE Emit(s)
  BY <1>t, <1>1 DEF Emit, Go, SlotTypeOK, frameVars, base
<1>2. CASE InterfaceMaster(s) /\ master[top(s)] \notin {None, top(s)}
  <2>1. master[top(s)] \in Iface
    BY <1>t, <1>s, <1>2 DEF SlotTypeOK
  <2>2. stack'[s] = Append(stack[s], master[top(s)]) /\ pc'[s] = "lookup"
    BY <1>t, <1>2 DEF InterfaceMaster, Go, SlotTypeOK
  <2>3. stack'[s][1] = stack[s][1]
    BY <1>s, <2>1, <2>2
  <2>4. ~Emit(s) /\ UNCHANGED <<todo, ipFrom, emitted>>
    BY <1>2 DEF InterfaceMaster, Emit
  <2> QED BY <2>2, <2>3, <2>4 DEF base, Inside
<1>3. CASE ReturnToSlave(s)
  <2> DEFINE n == Len(stack[s]) - 1
  <2>0. Len(stack[s]) > 1
    BY <1>3 DEF ReturnToSlave
  <2>1. n \in Nat /\ n >= 1 /\ n <= Len(stack[s])
    <3>1. \A l \in Nat : l > 1 => l - 1 \in Nat /\ l - 1 >= 1 /\ l - 1 <= l
      OBVIOUS
    <3> QED BY ONLY <1>s, <2>0, <3>1
  <2>2. stack'[s] = SubSeq(stack[s], 1, n) /\ pc'[s] = "store"
    BY <1>t, <1>3 DEF ReturnToSlave, Go, SlotTypeOK
  <2>3. stack'[s][1] = stack[s][1]
    BY <1>s, <2>1, <2>2, SubSeqProperties
  <2>4. ~Emit(s)
    <3>1. \A l \in Nat : l > 1 => l # 1
      OBVIOUS
    <3> QED BY <1>s, <2>0, <3>1 DEF Emit
  <2>5. UNCHANGED <<todo, ipFrom, emitted>>
    BY <1>3 DEF ReturnToSlave
  <2> QED BY <2>2, <2>3, <2>4, <2>5 DEF base, Inside
<1>4. CASE ~Emit(s) /\ ~ReturnToSlave(s) /\ ~(InterfaceMaster(s) /\ master[top(s)] \notin {None, top(s)})
  <2> USE <1>t, <1>4 DEF SlotTypeOK, Go, frameVars, base, Inside
  <2>1. CASE CacheHit(s) \/ CacheMiss(s) \/ StoreSlot(s)
    BY <2>1 DEF CacheHit, CacheMiss, StoreSlot
  <2>2. CASE InterfaceMaster(s) \/ SlotFromEthtool(s) \/ PciAddr(s) \/ StorePci(s)
    BY <2>2 DEF InterfaceMaster, SlotFromEthtool, PciAddr, StorePci
  <2>3. CASE SlotFromSysfs(s) \/ SlotFromLspci(s) \/ NoAddress(s) \/ SearchTable(s)
    BY <2>3 DEF SlotFromSysfs, SlotFromLspci, NoAddress, SearchTable, Found
  <2>4. CASE TableMissing(s) \/ DmiLock(s) \/ DmiSucceeds(s) \/ DmiFails(s)
    BY <2>4 DEF TableMissing, DmiLock, DmiSucceeds, DmiFails, Found
  <2> QED BY <1>0, <2>1, <2>2, <2>3, <2>4 DEF Step
<1> QED BY <1>1, <1>2, <1>3, <1>4

\* The interfaces of the loop are host.lldp's, and so is what is reported.
LEMMA RestKeeps ==
    ASSUME SInv, RestInv, NEW s \in Scrape, Step(s)
    PROVE  RestInv'
<1>t. SlotTypeOK /\ FrameOK(s) /\ host' = host
  BY StepFrame DEF SInv, sysfsVars
<1>f. \A u \in Scrape \ {s} : /\ pc'[u] = pc[u] /\ base(u)' = base(u)
                              /\ todo'[u] = todo[u] /\ ipFrom'[u] = ipFrom[u]
  BY StepFrame DEF base
<1>h. host.lldp \subseteq Iface
  BY <1>t, HostAssumption DEF SlotTypeOK, HostAssumption
<1>1. CASE pc[s] \in Inside \ {"ips"} /\ ~Emit(s)
  <2>1. /\ UNCHANGED <<todo, ipFrom, emitted>> /\ base(s)' = base(s) /\ pc'[s] \in Inside
    BY <1>1, BaseStays
  <2> QED BY <1>t, <1>f, <1>1, <2>1 DEF RestInv
<1>2. CASE Emit(s)
  <2>0. pc[s] = "return" /\ emitted' = emitted \cup {[iface |-> base(s), ip |-> ipFrom[s], slot |-> slot[s]]}
    BY <1>2 DEF Emit
  <2>1. /\ UNCHANGED <<todo, ipFrom>> /\ pc'[s] = "next"
    BY <1>2, <2>0, BaseStays DEF Inside
  <2>2. emitted' \subseteq [iface : host.lldp, ip : Iface, slot : Slots]
    BY <1>t, <2>0 DEF RestInv, SlotTypeOK, Inside
  <2> QED BY <1>t, <1>f, <2>1, <2>2 DEF RestInv, Inside
<1>3. CASE LldpFails(s) \/ LldpAnswers(s) \/ EndOfLoop(s)
  <2>1. todo' \in [Scrape -> SUBSET host.lldp]
    BY <1>3 DEF LldpFails, LldpAnswers, EndOfLoop, RestInv
  <2>2. pc'[s] \notin Inside /\ UNCHANGED <<ipFrom, emitted>>
    BY <1>t, <1>3 DEF LldpFails, LldpAnswers, EndOfLoop, Go, SlotTypeOK, Inside
  <2> QED BY <1>t, <1>f, <2>1, <2>2 DEF RestInv
<1>4. CASE InterfaceIPs(s)
  <2>1. ipFrom[s] \in Iface /\ base(s) \in host.lldp
    BY <1>4 DEF InterfaceIPs, RestInv, Inside
  <2>2. ipFrom' \in [Scrape -> Iface \cup {None}] /\ ipFrom'[s] \in Iface
    BY <1>t, <1>4, <2>1 DEF InterfaceIPs, RestInv, SlotTypeOK
  <2>3. base(s)' = base(s) /\ UNCHANGED <<todo, emitted>>
    BY <1>4 DEF InterfaceIPs, frameVars, base
  <2> QED BY <1>t, <1>f, <2>1, <2>2, <2>3 DEF RestInv
<1>5. ASSUME NEW i \in host.lldp, NextInterface(s, i) PROVE RestInv'
  <2> USE <1>5 DEF NextInterface
  <2>1. todo' \in [Scrape -> SUBSET host.lldp] /\ emitted' = emitted
    BY DEF RestInv
  <2>2. ipFrom' \in [Scrape -> Iface \cup {None}] /\ ipFrom'[s] = i
    BY <1>h DEF RestInv
  <2>3. base(s)' = i
    BY <1>t DEF SlotTypeOK, base
  <2> QED BY <1>t, <1>f, <1>h, <2>1, <2>2, <2>3 DEF RestInv
<1>6. ASSUME Step(s), pc[s] \notin Inside \ {"ips"}
      PROVE  LldpFails(s) \/ LldpAnswers(s) \/ EndOfLoop(s) \/ InterfaceIPs(s)
             \/ \E i \in host.lldp : NextInterface(s, i)
  BY <1>6 DEF Step, Emit, CacheHit,
         CacheMiss, InterfaceMaster, ReturnToSlave, StoreSlot, PciAddr, StorePci, SlotFromEthtool,
         SlotFromSysfs, SlotFromLspci, NoAddress, SearchTable, TableMissing, DmiLock, DmiSucceeds,
         DmiFails, DmiStage, Inside
<1> QED BY <1>1, <1>2, <1>3, <1>4, <1>5, <1>6

\* What is reported is of an interface with a neighbour.
THEOREM Reported == Spec => []RestInv
<1>1. Init => RestInv
  BY DEF Init, RestInv, Inside
<1>2. SInv /\ RestInv /\ [Next]_vars => RestInv'
  <2>1. CASE Relink \/ UNCHANGED vars
    BY <2>1 DEF Relink, vars, frameVars, sysfsVars, RestInv, base
  <2> QED BY <2>1, RestKeeps DEF Next
<1> QED BY <1>1, <1>2, Caches, PTL DEF Spec

\* The state has its type.
THEOREM CacheTypeCorrect == Spec => []TypeOK
<1>1. SInv /\ RestInv => TypeOK
  BY DEF SInv, SlotTypeOK, RestInv, TypeOK, Places, Inside
<1> QED BY <1>1, Caches, Reported, PTL

-----------------------------------------------------------------------------
(* Top is defined by recursion along the masters; it has a value because every *)
(* chain of masters ends.                                                   *)

\* f solves the equation of Top on the interfaces D, which hold their masters.
Solves(f, D) ==
    /\ D \subseteq Iface
    /\ \A i \in D : /\ master[i] = None => f[i] = i
                    /\ master[i] # None => master[i] \in D /\ f[i] = f[master[i]]

\* Every set of interfaces has one whose master is outside of it.
Chains ==
    /\ master \in [Iface -> Iface \cup {None}] /\ None \notin Iface
    /\ \A S \in SUBSET Iface : S # {} => \E i \in S : master[i] \notin S

LEMMA OneSolution ==
    ASSUME Chains, NEW f, NEW D, NEW g, NEW E, Solves(f, D), Solves(g, E), NEW i \in D \cap E
    PROVE  f[i] = g[i]
<1> DEFINE S == {j \in D \cap E : f[j] # g[j]}
<1>1. CASE S = {}
  BY <1>1
<1>2. CASE S # {}
  <2>1. S \in SUBSET Iface
    BY DEF Solves
  <2>2. PICK j \in S : master[j] \notin S
    BY <1>2, <2>1 DEF Chains
  <2> QED BY <2>2 DEF Solves
<1> QED BY <1>1, <1>2

LEMMA SomeSolution ==
    ASSUME Chains, NEW i \in Iface
    PROVE  \E D \in SUBSET Iface : \E f \in [D -> Iface] : Solves(f, D) /\ i \in D
<1> DEFINE Has(j) == \E D \in SUBSET Iface : \E f \in [D -> Iface] : Solves(f, D) /\ j \in D
           S == {j \in Iface : ~Has(j)}
<1>1. CASE S = {}
  BY <1>1
<1>2. CASE S # {}
  <2>1. PICK j \in S : master[j] \notin S
    BY <1>2 DEF Chains
  <2>2. CASE master[j] = None
    <3>1. Solves([k \in {j} |-> j], {j})
      BY <2>2 DEF Solves
    <3>2. {j} \in SUBSET Iface /\ [k \in {j} |-> j] \in [{j} -> Iface]
      OBVIOUS
    <3> QED BY <2>1, <3>1, <3>2
  <2>3. CASE master[j] # None
    <3>0. master[j] \in Iface
      BY <2>3 DEF Chains
    <3>1. PICK D \in SUBSET Iface : \E f \in [D -> Iface] : Solves(f, D) /\ master[j] \in D
      BY <2>1, <3>0
    <3>2. PICK f \in [D -> Iface] : Solves(f, D) /\ master[j] \in D
      BY <3>1
    <3>3. j \notin D
      BY <2>1, <3>2
    <3> DEFINE E == D \cup {j}
               g == [k \in E |-> IF k = j THEN f[master[j]] ELSE f[k]]
    <3>4. Solves(g, E)
      BY <2>3, <3>2, <3>3 DEF Solves
    <3>5. E \in SUBSET Iface /\ g \in [E -> Iface] /\ j \in E
      BY <3>2
    <3> HIDE DEF E, g
    <3> QED BY <2>1, <3>4, <3>5
  <2> QED BY <2>2, <2>3
<1> QED BY <1>1, <1>2

\* Top is what its equation says: the chain of masters of every interface ends.
LEMMA TopIs ==
    ASSUME Chains
    PROVE  /\ Top = [i \in Iface |-> IF master[i] = None THEN i ELSE Top[master[i]]]
           /\ Top \in [Iface -> Iface]
<1> DEFINE Sol(i, x) == \E D \in SUBSET Iface : \E f \in [D -> Iface] : Solves(f, D) /\ i \in D /\ f[i] = x
           T == [i \in Iface |-> CHOOSE x \in Iface : Sol(i, x)]
<1>1. ASSUME NEW i \in Iface PROVE T[i] \in Iface /\ Sol(i, T[i])
  <2>1. \E x \in Iface : Sol(i, x)
    BY SomeSolution
  <2> HIDE DEF Sol
  <2> QED BY <2>1
<1>2. T = [i \in Iface |-> T[i]] /\ T \in [Iface -> Iface]
  BY <1>1
<1> HIDE DEF T
<1>3. ASSUME NEW D \in SUBSET Iface, NEW f \in [D -> Iface], Solves(f, D), NEW i \in D
      PROVE  T[i] = f[i]
  <2>1. PICK E \in SUBSET Iface : \E g \in [E -> Iface] : Solves(g, E) /\ i \in E /\ g[i] = T[i]
    BY <1>1
  <2>2. PICK g \in [E -> Iface] : Solves(g, E) /\ i \in E /\ g[i] = T[i]
    BY <2>1
  <2> QED BY <1>3, <2>2, OneSolution
<1>4. ASSUME NEW i \in Iface PROVE T[i] = IF master[i] = None THEN i ELSE T[master[i]]
  <2>1. PICK D \in SUBSET Iface : \E f \in [D -> Iface] : Solves(f, D) /\ i \in D
    BY SomeSolution
  <2>2. PICK f \in [D -> Iface] : Solves(f, D) /\ i \in D
    BY <2>1
  <2>3. T[i] = f[i]
    BY <1>3, <2>2
  <2>4. CASE master[i] = None
    BY <2>2, <2>3, <2>4 DEF Solves
  <2>5. CASE master[i] # None
    <3>1. master[i] \in D /\ f[i] = f[master[i]]
      BY <2>2, <2>5 DEF Solves
    <3>2. T[master[i]] = f[master[i]]
      BY <1>3, <2>2, <3>1
    <3> QED BY <2>3, <2>5, <3>1, <3>2
  <2> QED BY <2>4, <2>5
<1>5. T = [i \in Iface |-> IF master[i] = None THEN i ELSE T[master[i]]]
  BY <1>4, <1>2
<1>6. Top = [i \in Iface |-> IF master[i] = None THEN i ELSE Top[master[i]]]
  BY <1>5 DEF Top
<1>7. Solves(Top, Iface)
  BY <1>6 DEF Solves, Chains
<1>8. \A i \in Iface : Top[i] \in Iface
  <2>1. ASSUME NEW i \in Iface PROVE T[i] = Top[i]
    <3>1. Solves(T, Iface)
      BY <1>5 DEF Solves, Chains
    <3> QED BY <1>7, <3>1, OneSolution
  <2> QED BY <1>1, <2>1
<1> QED BY <1>6, <1>8

\* Top depends on the masters alone.
LEMMA TopStays == ASSUME master' = master PROVE Top' = Top
BY DEF Top

-----------------------------------------------------------------------------
(* While sysfs and the tools stay as they are, the caches cannot be told from  *)
(* none.                                                                    *)

\* sysfs and the tools have been as they were at the start.
Quiet == changes = 0 /\ ~host.fails

SlotOf(i) == SlotOfAddr(link[Top[i]])

\* What the caches have is what would be found without them.
CachesQuiet == \A i \in Iface : /\ slotCache[i] \in {None, SlotOf(i)}
                                /\ pciCache[i] \in {None, link[i]}

EmittedQuiet == \A e \in emitted : e.ip = Top[e.iface] /\ e.slot = SlotOf(e.iface)

\* All frames of a scrape, and the addresses it reports, have the same interface
\* at the end of the chain of masters.
RootQuiet(s) ==
    /\ pc[s] \in Inside =>
          /\ Top[ipFrom[s]] = Top[base(s)]
          /\ \A k \in 1 .. Len(stack[s]) : Top[stack[s][k]] = Top[base(s)]
    /\ pc[s] \in Inside \ {"ips"} => ipFrom[s] = Top[base(s)]

\* The search for a slot is at that end, has come past the sources that know
\* nothing of its address, and what it found is the slot.
Searching == {"pci", "storePci", "source", "dmiLock", "dmiRun"}
SearchQuiet(s) ==
    /\ pc[s] \in Searching \cup {"ethtool"} => Top[top(s)] = top(s)
    /\ pc[s] \in Searching /\ link[top(s)] # None =>
          /\ stage[s] # "sysfs" => SysfsSlot[link[top(s)]] = None
          /\ stage[s] = "lspci" => DmiSlot[link[top(s)]] = None
    /\ pc[s] \in Searching \ {"pci"} => addr[s] = link[top(s)]
    /\ pc[s] \in {"store", "return"} => slot[s] = SlotOf(base(s))

QInv ==
    /\ changes \in Nat
    /\ changes = 0 => master = host.master
    /\ Quiet => CachesQuiet /\ EmittedQuiet /\ \A s \in Scrape : RootQuiet(s) /\ SearchQuiet(s)

LEMMA QuietChains == ASSUME SInv, QInv, Quiet PROVE Chains
BY HostAssumption, ChainAssumption, NoneAssumption
DEF SInv, SlotTypeOK, QInv, Quiet, Chains, HostAssumption, ChainAssumption, NoneAssumption

\* A search within a frame ends with the slot of its address.
LEMMA SlotOfCases ==
    /\ SlotOfAddr(None) = NoSlot
    /\ \A a \in Addr :
          /\ SysfsSlot[a] # None => SlotOfAddr(a) = SysfsSlot[a]
          /\ SysfsSlot[a] = None /\ DmiSlot[a] # None => SlotOfAddr(a) = DmiSlot[a]
          /\ SysfsSlot[a] = None /\ DmiSlot[a] = None =>
                SlotOfAddr(a) = IF LspciSlot[a] = None THEN a ELSE LspciSlot[a]
<1>1. None \notin Addr
  BY NoneAssumption DEF NoneAssumption
<1> QED BY <1>1 DEF SlotOfAddr

\* A scrape that is left alone stays as it was.
LEMMA QuietFrame ==
    ASSUME NEW u \in Scrape, RootQuiet(u), SearchQuiet(u), Top' = Top, link' = link,
           pc'[u] = pc[u], stack'[u] = stack[u], stage'[u] = stage[u], addr'[u] = addr[u],
           slot'[u] = slot[u], ipFrom'[u] = ipFrom[u]
    PROVE  RootQuiet(u)' /\ SearchQuiet(u)'
<1>1. top(u)' = top(u) /\ base(u)' = base(u) /\ SlotOf(base(u))' = SlotOf(base(u))
  BY DEF top, base, SlotOf, SlotOfAddr
<1> QED BY <1>1 DEF RootQuiet, SearchQuiet

\* What holds of a scrape within getInterfaceSlot.
LEMMA QuietFacts ==
    ASSUME SInv, RestInv, QInv, Quiet, NEW s \in Scrape, pc[s] \in Inside
    PROVE  /\ Top \in [Iface -> Iface]
           /\ \A i \in Iface : Top[i] = IF master[i] = None THEN i ELSE Top[master[i]]
           /\ stack[s] \in Seq(Iface) /\ stack[s] # <<>> /\ Len(stack[s]) \in Nat \ {0}
           /\ top(s) \in Iface /\ base(s) \in Iface /\ ipFrom[s] \in Iface
           /\ Top[top(s)] = Top[base(s)] /\ SlotOf(top(s)) = SlotOf(base(s))
           /\ RootQuiet(s) /\ SearchQuiet(s)
<1>1. Chains
  BY QuietChains
<1>2. SlotTypeOK /\ FrameOK(s) /\ RootQuiet(s) /\ SearchQuiet(s)
  BY DEF SInv, QInv
<1>3. stack[s] \in Seq(Iface) /\ stack[s] # <<>> /\ top(s) \in Iface /\ Len(stack[s]) \in Nat \ {0}
  BY <1>2, TopTyped DEF SlotTypeOK, FrameOK
<1>4. base(s) \in Iface
  BY <1>3 DEF base
<1>5. Top[top(s)] = Top[base(s)]
  <2>1. Len(stack[s]) \in 1 .. Len(stack[s])
    BY <1>3
  <2> QED BY <1>2, <2>1 DEF RootQuiet, top
<1>6. ipFrom[s] \in Iface
  BY DEF RestInv
<1>7. Top \in [Iface -> Iface]
      /\ \A i \in Iface : Top[i] = IF master[i] = None THEN i ELSE Top[master[i]]
  <2>1. Top = [i \in Iface |-> IF master[i] = None THEN i ELSE Top[master[i]]]
        /\ Top \in [Iface -> Iface]
    BY <1>1, TopIs
  <2> QED BY <2>1
<1> QED BY <1>2, <1>3, <1>4, <1>5, <1>6, <1>7 DEF SlotOf

\* The steps within getInterfaceSlot that stay in a frame.
LEMMA RootStays ==
    ASSUME SInv, RestInv, QInv, Quiet, NEW s \in Scrape, Step(s), ~Emit(s),
           pc[s] \in Inside \ {"ips"}, Top' = Top,
           \A k \in 1 .. Len(stack'[s]) : Top[stack'[s][k]] = Top[base(s)]
    PROVE  RootQuiet(s)'
<1>1. ipFrom' = ipFrom /\ base(s)' = base(s) /\ pc'[s] \in Inside \ {"ips"}
  BY BaseStays
<1>2. ipFrom[s] = Top[base(s)] /\ Top[ipFrom[s]] = Top[base(s)]
  BY QuietFacts DEF RootQuiet
<1> QED BY <1>1, <1>2 DEF RootQuiet

\* What every step of a scrape may use.
QuietStep(s) ==
    /\ CachesQuiet' /\ EmittedQuiet'
    /\ RootQuiet(s)' /\ SearchQuiet(s)'

LEMMA QuietSame ==
    ASSUME UNCHANGED <<master, link>>
    PROVE  Top' = Top /\ link' = link /\ \A i \in Iface : SlotOf(i)' = SlotOf(i)
BY TopStays DEF SlotOf, SlotOfAddr

LEMMA CollectQuiet ==
    ASSUME SInv, RestInv, QInv, Quiet, NEW s \in Scrape, UNCHANGED <<master, link>>,
           \/ LldpFails(s) \/ LldpAnswers(s) \/ EndOfLoop(s) \/ InterfaceIPs(s) \/ Emit(s)
           \/ \E i \in host.lldp : NextInterface(s, i)
    PROVE  QuietStep(s)
<1>t. SlotTypeOK /\ CachesQuiet /\ EmittedQuiet /\ RestInv
  BY DEF SInv, QInv
<1>h. host.lldp \subseteq Iface
  BY <1>t, HostAssumption DEF SlotTypeOK, HostAssumption
<1>f. Top' = Top /\ link' = link /\ \A i \in Iface : SlotOf(i)' = SlotOf(i)
  BY QuietSame
<1>c. CachesQuiet'
  <2>1. UNCHANGED <<slotCache, pciCache>>
    BY DEF LldpFails, LldpAnswers, EndOfLoop, InterfaceIPs, Emit, NextInterface, cacheVars
  <2> QED BY <1>t, <1>f, <2>1 DEF CachesQuiet
<1>k. \A e \in emitted : e.iface \in Iface
  BY <1>t, <1>h DEF RestInv
<1>1. CASE Emit(s)
  <2>1. /\ pc[s] = "return" /\ pc'[s] = "next"
        /\ emitted' = emitted \cup {[iface |-> base(s), ip |-> ipFrom[s], slot |-> slot[s]]}
    BY <1>t, <1>1 DEF Emit, Go, SlotTypeOK
  <2>2. /\ ipFrom[s] = Top[base(s)] /\ slot[s] = SlotOf(base(s)) /\ base(s) \in Iface
    BY <2>1, QuietFacts DEF RootQuiet, SearchQuiet, Inside
  <2>3. \A e \in emitted' : e.iface \in Iface /\ e.ip = Top[e.iface] /\ e.slot = SlotOf(e.iface)
    BY <1>t, <1>k, <2>1, <2>2 DEF EmittedQuiet
  <2>4. EmittedQuiet'
    BY <1>f, <2>3 DEF EmittedQuiet
  <2>5. RootQuiet(s)' /\ SearchQuiet(s)'
    BY <2>1 DEF RootQuiet, SearchQuiet, Searching, Inside
  <2> QED BY <1>c, <2>4, <2>5 DEF QuietStep
<1>e. ASSUME emitted' = emitted PROVE EmittedQuiet'
  BY <1>t, <1>f, <1>k, <1>e DEF EmittedQuiet
<1>2. CASE LldpFails(s) \/ LldpAnswers(s) \/ EndOfLoop(s)
  <2>1. emitted' = emitted /\ pc'[s] \in {"next", "done"}
    BY <1>t, <1>2 DEF LldpFails, LldpAnswers, EndOfLoop, Go, SlotTypeOK
  <2>2. RootQuiet(s)' /\ SearchQuiet(s)'
    BY <2>1 DEF RootQuiet, SearchQuiet, Searching, Inside
  <2> QED BY <1>c, <1>e, <2>1, <2>2 DEF QuietStep
<1>3. CASE InterfaceIPs(s)
  <2>1. pc[s] = "ips" /\ emitted' = emitted /\ stack' = stack
    BY <1>3 DEF InterfaceIPs, frameVars
  <2>2. /\ ipFrom[s] \in Iface /\ Top[ipFrom[s]] = Top[base(s)]
        /\ \A i \in Iface : Top[i] = IF master[i] = None THEN i ELSE Top[master[i]]
        /\ \A k \in 1 .. Len(stack[s]) : Top[stack[s][k]] = Top[base(s)]
    BY <2>1, QuietFacts DEF RootQuiet, Inside
  <2>3. CASE master[ipFrom[s]] # None
    <3>1. ipFrom'[s] = master[ipFrom[s]] /\ pc'[s] = "ips"
      BY <1>t, <1>3, <2>1, <2>3 DEF InterfaceIPs, RestInv
    <3>2. Top[ipFrom'[s]] = Top[base(s)]
      BY <2>2, <2>3, <3>1
    <3>3. RootQuiet(s)'
      BY <1>f, <2>1, <2>2, <3>1, <3>2 DEF RootQuiet, base
    <3> QED BY <1>c, <1>e, <2>1, <3>1, <3>3 DEF QuietStep, SearchQuiet, Searching
  <2>4. CASE master[ipFrom[s]] = None
    <3>1. ipFrom'[s] = ipFrom[s] /\ pc'[s] = "lookup"
      BY <1>t, <1>3, <2>4 DEF InterfaceIPs, Go, SlotTypeOK
    <3>2. ipFrom[s] = Top[base(s)]
      BY <2>2, <2>4
    <3>3. RootQuiet(s)'
      BY <1>f, <2>1, <2>2, <3>1, <3>2 DEF RootQuiet, base
    <3> QED BY <1>c, <1>e, <2>1, <3>1, <3>3 DEF QuietStep, SearchQuiet, Searching
  <2> QED BY <2>3, <2>4
<1>4. ASSUME NEW i \in host.lldp, NextInterface(s, i) PROVE QuietStep(s)
  <2>1. /\ emitted' = emitted /\ pc'[s] = "ips" /\ stack'[s] = <<i>> /\ ipFrom'[s] = i
    BY <1>t, <1>4 DEF NextInterface, Go, SlotTypeOK, RestInv
  <2>2. base(s)' = i /\ Len(stack'[s]) = 1 /\ stack'[s][1] = i
    BY <2>1 DEF base
  <2>3. RootQuiet(s)'
    BY <2>1, <2>2 DEF RootQuiet
  <2> QED BY <1>c, <1>e, <2>1, <2>3 DEF QuietStep, SearchQuiet, Searching
<1> QED BY <1>1, <1>2, <1>3, <1>4

\* The steps that leave stack and caches as they are.
LEMMA SearchStep ==
    ASSUME SInv, RestInv, QInv, Quiet, NEW s \in Scrape, UNCHANGED <<master, link>>,
           Step(s), ~Emit(s), pc[s] \in Inside \ {"ips"},
           UNCHANGED <<stack, slotCache, pciCache>>,
           LET t == top(s)
           IN  /\ pc'[s] \in Searching \cup {"ethtool"} => Top[t] = t
               /\ pc'[s] \in Searching /\ link[t] # None =>
                     /\ stage'[s] # "sysfs" => SysfsSlot[link[t]] = None
                     /\ stage'[s] = "lspci" => DmiSlot[link[t]] = None
               /\ pc'[s] \in Searching \ {"pci"} => addr'[s] = link[t]
               /\ pc'[s] \in {"store", "return"} => slot'[s] = SlotOf(base(s))
    PROVE  QuietStep(s)
<1>f. Top' = Top /\ link' = link /\ \A i \in Iface : SlotOf(i)' = SlotOf(i)
  BY QuietSame
<1>1. emitted' = emitted /\ base(s)' = base(s) /\ base(s) \in Iface
  BY BaseStays, QuietFacts
<1>2. EmittedQuiet'
  <2>1. \A e \in emitted : e.iface \in Iface
    BY HostAssumption DEF RestInv, SInv, SlotTypeOK, HostAssumption
  <2> QED BY <1>1, <1>f, <2>1 DEF QInv, EmittedQuiet
<1>3. CachesQuiet'
  BY <1>f DEF QInv, CachesQuiet
<1>4. RootQuiet(s)'
  <2>1. \A k \in 1 .. Len(stack'[s]) : Top[stack'[s][k]] = Top[base(s)]
    BY QuietFacts DEF RootQuiet
  <2> QED BY <1>f, <2>1, RootStays
<1>5. top(s)' = top(s) /\ SlotOf(base(s))' = SlotOf(base(s))
  BY <1>f, <1>1 DEF top, SlotOf, SlotOfAddr
<1>6. SearchQuiet(s)'
  BY <1>f, <1>5 DEF SearchQuiet
<1> QED BY <1>2, <1>3, <1>4, <1>6 DEF QuietStep

\* getInterfaceSlot: the cache, the master, the recursion.
LEMMA RecursionQuiet ==
    ASSUME SInv, RestInv, QInv, Quiet, NEW s \in Scrape, UNCHANGED <<master, link>>, Step(s),
           CacheHit(s) \/ CacheMiss(s) \/ InterfaceMaster(s) \/ SlotFromEthtool(s) \/ ReturnToSlave(s)
    PROVE  QuietStep(s)
<1>t. SlotTypeOK /\ CachesQuiet /\ QInv
  BY DEF SInv, QInv
<1>p. pc[s] \in {"lookup", "master", "ethtool", "return"} /\ pc[s] \in Inside \ {"ips"}
  BY DEF CacheHit, CacheMiss, InterfaceMaster, SlotFromEthtool, ReturnToSlave, Inside
<1>q. /\ \A i \in Iface : Top[i] = IF master[i] = None THEN i ELSE Top[master[i]]
      /\ stack[s] \in Seq(Iface) /\ stack[s] # <<>> /\ Len(stack[s]) \in Nat \ {0}
      /\ top(s) \in Iface /\ base(s) \in Iface
      /\ Top[top(s)] = Top[base(s)] /\ SlotOf(top(s)) = SlotOf(base(s))
      /\ RootQuiet(s) /\ SearchQuiet(s)
  BY <1>p, QuietFacts
<1>f. Top' = Top /\ link' = link /\ \A i \in Iface : SlotOf(i)' = SlotOf(i)
  BY QuietSame
<1>e. ~Emit(s)
  <2>1. \A l \in Nat : l > 1 => l # 1
    OBVIOUS
  <2> QED BY <1>q, <2>1 DEF Emit, CacheHit, CacheMiss, InterfaceMaster, SlotFromEthtool, ReturnToSlave
<1>1. CASE CacheHit(s)
  <2>1. /\ slot'[s] = slotCache[top(s)] /\ slotCache[top(s)] # None /\ pc'[s] = "return"
        /\ UNCHANGED <<stack, slotCache, pciCache>>
    BY <1>t, <1>1 DEF CacheHit, Go, SlotTypeOK, cacheVars
  <2>2. slot'[s] = SlotOf(base(s))
    BY <1>t, <1>q, <2>1 DEF CachesQuiet
  <2> QED BY <1>p, <1>e, <2>1, <2>2, SearchStep DEF Searching
<1>2. CASE CacheMiss(s)
  <2>1. pc'[s] = "master" /\ UNCHANGED <<stack, slotCache, pciCache>>
    BY <1>t, <1>2 DEF CacheMiss, Go, SlotTypeOK, cacheVars, frameVars
  <2> QED BY <1>p, <1>e, <2>1, SearchStep DEF Searching
<1>3. CASE SlotFromEthtool(s)
  <2>1. /\ pc[s] = "ethtool" /\ pc'[s] = "pci" /\ stage'[s] = "sysfs"
        /\ UNCHANGED <<stack, slotCache, pciCache>>
    BY <1>t, <1>3 DEF SlotFromEthtool, Go, SlotTypeOK, cacheVars
  <2>2. Top[top(s)] = top(s)
    BY <1>q, <2>1 DEF SearchQuiet, Searching
  <2> QED BY <1>p, <1>e, <2>1, <2>2, SearchStep DEF Searching
<1>4. CASE InterfaceMaster(s) /\ master[top(s)] \in {None, top(s)}
  <2>1. /\ pc'[s] = "ethtool" /\ UNCHANGED <<stack, slotCache, pciCache>>
    BY <1>t, <1>4 DEF InterfaceMaster, Go, SlotTypeOK, cacheVars
  <2>2. master[top(s)] # top(s)
    <3>1. Chains
      BY QuietChains
    <3>2. {top(s)} \in SUBSET Iface /\ {top(s)} # {}
      BY <1>q
    <3>3. \E i \in {top(s)} : master[i] \notin {top(s)}
      BY <3>1, <3>2 DEF Chains
    <3> QED BY <3>3
  <2>3. Top[top(s)] = top(s)
    BY <1>q, <1>4, <2>2
  <2> QED BY <1>p, <1>e, <2>1, <2>3, SearchStep DEF Searching
<1>c. ASSUME UNCHANGED <<slotCache, pciCache>> PROVE CachesQuiet' /\ EmittedQuiet'
  <2>1. \A e \in emitted : e.iface \in Iface
    BY HostAssumption DEF RestInv, SInv, SlotTypeOK, HostAssumption
  <2>2. emitted' = emitted
    BY <1>p, <1>e, BaseStays
  <2> QED BY <1>t, <1>f, <1>c, <2>1, <2>2 DEF QInv, EmittedQuiet, CachesQuiet
<1>5. CASE InterfaceMaster(s) /\ master[top(s)] \notin {None, top(s)}
  <2>1. master[top(s)] \in Iface /\ Top[master[top(s)]] = Top[base(s)]
    BY <1>t, <1>q, <1>5 DEF SlotTypeOK
  <2>2. /\ pc'[s] = "lookup" /\ stack'[s] = Append(stack[s], master[top(s)])
        /\ UNCHANGED <<slotCache, pciCache>>
    BY <1>t, <1>5 DEF InterfaceMaster, Go, SlotTypeOK, cacheVars
  <2>3. \A k \in 1 .. Len(stack[s]) : Top[stack[s][k]] = Top[base(s)]
    BY <1>p, <1>q DEF RootQuiet
  <2>4. \A k \in 1 .. Len(stack'[s]) : Top[stack'[s][k]] = Top[base(s)]
    <3> DEFINE m == master[top(s)]
               T == Top
               b == Top[base(s)]
               q == stack[s]
    <3>1. stack'[s] = Append(q, m) /\ m \in Iface /\ T[m] = b /\ q \in Seq(Iface)
          /\ \A k \in 1 .. Len(q) : T[q[k]] = b
      BY <1>q, <2>1, <2>2, <2>3
    <3> HIDE DEF m, T, b, q
    <3>2. /\ Len(stack'[s]) = Len(q) + 1 /\ stack'[s][Len(q) + 1] = m
          /\ \A k \in 1 .. Len(q) : stack'[s][k] = q[k]
      BY <3>1
    <3>3. \A k \in 1 .. Len(stack'[s]) : T[stack'[s][k]] = b
      BY <3>1, <3>2
    <3> QED BY <3>3 DEF T, b
  <2>5. RootQuiet(s)'
    BY <1>p, <1>e, <1>f, <2>4, RootStays
  <2> QED BY <1>c, <2>2, <2>5 DEF QuietStep, SearchQuiet, Searching
<1>6. CASE ReturnToSlave(s)
  <2> DEFINE n == Len(stack[s]) - 1
  <2>0. n \in Nat /\ n >= 1 /\ n <= Len(stack[s])
    <3>1. \A l \in Nat : l > 1 => l - 1 \in Nat /\ l - 1 >= 1 /\ l - 1 <= l
      OBVIOUS
    <3>2. Len(stack[s]) > 1 /\ Len(stack[s]) \in Nat
      BY <1>q, <1>6 DEF ReturnToSlave
    <3> QED BY ONLY <3>1, <3>2
  <2>1. /\ pc[s] = "return" /\ pc'[s] = "store" /\ stack'[s] = SubSeq(stack[s], 1, n)
        /\ slot'[s] = slot[s] /\ UNCHANGED <<slotCache, pciCache>>
    BY <1>t, <1>6 DEF ReturnToSlave, Go, SlotTypeOK, cacheVars
  <2>2. \A k \in 1 .. Len(stack[s]) : Top[stack[s][k]] = Top[base(s)]
    BY <1>p, <1>q DEF RootQuiet
  <2>3. Len(stack'[s]) = n /\ \A k \in 1 .. n : stack'[s][k] = stack[s][k]
    BY <1>q, <2>0, <2>1, SubSeqProperties
  <2>4. \A k \in 1 .. n : k \in 1 .. Len(stack[s])
    BY <1>q, <2>0
  <2> HIDE DEF n
  <2>5. \A k \in 1 .. Len(stack'[s]) : Top[stack'[s][k]] = Top[base(s)]
    BY <2>2, <2>3, <2>4
  <2>6. RootQuiet(s)'
    BY <1>p, <1>e, <1>f, <2>5, RootStays
  <2>7. slot'[s] = SlotOf(base(s))' 
    <3>1. slot[s] = SlotOf(base(s))
      BY <1>q, <2>1 DEF SearchQuiet
    <3>2. base(s)' = base(s)
      BY <1>p, BaseStays
    <3> QED BY <1>f, <2>1, <3>1, <3>2 DEF SlotOf, SlotOfAddr
  <2> QED BY <1>c, <2>1, <2>6, <2>7 DEF QuietStep, SearchQuiet, Searching
<1> QED BY <1>1, <1>2, <1>3, <1>4, <1>5, <1>6

\* The sources of slots: the first that knows one has the slot of the address.
LEMMA SourcesQuiet ==
    ASSUME SInv, RestInv, QInv, Quiet, NEW s \in Scrape, UNCHANGED <<master, link>>, Step(s),
           \/ SlotFromSysfs(s) \/ SlotFromLspci(s) \/ NoAddress(s) \/ SearchTable(s)
           \/ TableMissing(s) \/ DmiLock(s) \/ DmiSucceeds(s) \/ DmiFails(s)
    PROVE  QuietStep(s)
<1>t. SlotTypeOK
  BY DEF SInv
<1>p. pc[s] \in {"source", "dmiLock", "dmiRun"}
  BY DEF SlotFromSysfs, SlotFromLspci, NoAddress, SearchTable, TableMissing, DmiLock,
         DmiSucceeds, DmiFails, DmiStage
<1>i. pc[s] \in Inside \ {"ips"} /\ pc[s] \in Searching /\ ~Emit(s)
  BY <1>p DEF Inside, Searching, Emit
<1> DEFINE t == top(s)
           a == addr[s]
<1>q. /\ Top[t] = t /\ a = link[t] /\ a \in Addr \cup {None}
      /\ a # None /\ stage[s] # "sysfs" => SysfsSlot[a] = None
      /\ a # None /\ stage[s] = "lspci" => DmiSlot[a] = None
      /\ SlotOf(base(s)) = SlotOfAddr(a)
  <2>1. Top[t] = t /\ a = link[t] /\ SlotOf(t) = SlotOf(base(s))
    BY <1>p, <1>i, QuietFacts DEF SearchQuiet, Searching
  <2>2. SearchQuiet(s)
    BY <1>i, QuietFacts
  <2>3. a \in Addr \cup {None}
    BY <1>t DEF SlotTypeOK
  <2> QED BY <1>i, <2>1, <2>2, <2>3 DEF SearchQuiet, SlotOf
<1>h. ~host.fails
  BY DEF Quiet
<1>u. UNCHANGED <<stack, addr, slotCache, pciCache>>
  BY DEF SlotFromSysfs, SlotFromLspci, NoAddress, SearchTable, TableMissing, DmiLock,
         DmiSucceeds, DmiFails, cacheVars, frameVars
\* What is left to show of each: the sources passed, or the slot found.
<1>0. ASSUME \/ pc'[s] = "pci" /\ stage'[s] = "dmi" /\ (a # None => SysfsSlot[a] = None)
             \/ pc'[s] = "pci" /\ stage'[s] = "lspci"
                /\ (a # None => SysfsSlot[a] = None /\ DmiSlot[a] = None)
             \/ pc'[s] \in {"source", "dmiLock", "dmiRun"} /\ stage'[s] = stage[s]
             \/ pc'[s] = "store" /\ slot'[s] = SlotOfAddr(a)
      PROVE  QuietStep(s)
  <2> HIDE DEF t, a
  <2>1. /\ pc'[s] \in Searching \cup {"ethtool"} => Top[t] = t
        /\ pc'[s] \in Searching /\ link[t] # None =>
              /\ stage'[s] # "sysfs" => SysfsSlot[link[t]] = None
              /\ stage'[s] = "lspci" => DmiSlot[link[t]] = None
        /\ pc'[s] \in {"store", "return"} => slot'[s] = SlotOf(base(s))
    BY <1>0, <1>q DEF Searching
  <2>2. addr'[s] = link[t]
    BY <1>u, <1>q DEF a
  <2> QED BY <1>i, <1>u, <2>1, <2>2, SearchStep DEF t
<1>1. CASE SlotFromSysfs(s)
  <2> DEFINE x == IF a = None THEN None ELSE SysfsSlot[a]
  <2>1. IF x # None THEN pc'[s] = "store" /\ slot'[s] = x
                    ELSE pc'[s] = "pci" /\ stage'[s] = "dmi"
    BY <1>t, <1>1 DEF SlotFromSysfs, Found, Go, SlotTypeOK
  <2>2. x # None => a # None /\ SysfsSlot[a] = x
    OBVIOUS
  <2>3. x = None /\ a # None => SysfsSlot[a] = None
    OBVIOUS
  <2> HIDE DEF x, t, a
  <2> QED BY <1>q, <1>0, <2>1, <2>2, <2>3, SlotOfCases
<1>2. CASE NoAddress(s)
  <2>1. a = None /\ pc'[s] = "pci" /\ stage'[s] = "lspci"
    BY <1>t, <1>2 DEF NoAddress, Found, Go, SlotTypeOK
  <2> HIDE DEF t, a
  <2> QED BY <1>0, <2>1
<1>3. CASE SearchTable(s)
  <2>1. a # None /\ stage[s] = "dmi"
        /\ IF DmiSlot[a] # None THEN pc'[s] = "store" /\ slot'[s] = DmiSlot[a]
                                ELSE pc'[s] = "pci" /\ stage'[s] = "lspci"
    BY <1>t, <1>3 DEF SearchTable, DmiStage, Found, Go, SlotTypeOK
  <2> HIDE DEF t, a
  <2> QED BY <1>q, <1>0, <2>1, SlotOfCases
<1>4. CASE SlotFromLspci(s)
  <2>1. stage[s] = "lspci" /\ pc'[s] = "store"
        /\ slot'[s] = IF a = None THEN NoSlot
                      ELSE IF LspciSlot[a] = None THEN a ELSE LspciSlot[a]
    BY <1>t, <1>h, <1>4 DEF SlotFromLspci, Go, SlotTypeOK
  <2> HIDE DEF t, a
  <2>2. slot'[s] = SlotOfAddr(a)
    BY <1>q, <2>1, SlotOfCases
  <2> QED BY <1>0, <2>1, <2>2
<1>5. CASE TableMissing(s) \/ DmiLock(s) \/ DmiSucceeds(s)
  <2>1. pc'[s] \in {"source", "dmiLock", "dmiRun"} /\ stage'[s] = stage[s]
    BY <1>t, <1>5 DEF TableMissing, DmiLock, DmiSucceeds, Go, SlotTypeOK, frameVars
  <2> HIDE DEF t, a
  <2> QED BY <1>0, <2>1
<1>6. CASE DmiFails(s)
  BY <1>h, <1>6 DEF DmiFails
<1> QED BY <1>1, <1>2, <1>3, <1>4, <1>5, <1>6

\* getPciAddr, and the writes of the caches.
LEMMA StoresQuiet ==
    ASSUME SInv, RestInv, QInv, Quiet, NEW s \in Scrape, UNCHANGED <<master, link>>, Step(s),
           StoreSlot(s) \/ PciAddr(s) \/ StorePci(s)
    PROVE  QuietStep(s)
<1>t. SlotTypeOK /\ CachesQuiet
  BY DEF SInv, QInv
<1>p. pc[s] \in {"store", "pci", "storePci"} /\ pc[s] \in Inside \ {"ips"} /\ ~Emit(s)
  BY DEF StoreSlot, PciAddr, StorePci, Emit, Inside
<1>q. /\ top(s) \in Iface /\ SlotOf(top(s)) = SlotOf(base(s))
      /\ RootQuiet(s) /\ SearchQuiet(s)
  BY <1>p, QuietFacts
<1>f. Top' = Top /\ link' = link /\ \A i \in Iface : SlotOf(i)' = SlotOf(i)
  BY QuietSame
<1>1. CASE PciAddr(s)
  <2>1. /\ pc[s] = "pci" /\ pc'[s] \in {"storePci", "source"} /\ stage' = stage
        /\ addr'[s] = link[top(s)] /\ UNCHANGED <<stack, slotCache, pciCache>>
    BY <1>t, <1>q, <1>1 DEF PciAddr, Go, SlotTypeOK, CachesQuiet, cacheVars
  <2> QED BY <1>p, <1>q, <2>1, SearchStep DEF SearchQuiet, Searching
\* The two that write a cache.
<1>w. ASSUME CachesQuiet', stack' = stack PROVE CachesQuiet' /\ EmittedQuiet' /\ RootQuiet(s)'
  <2>1. \A e \in emitted : e.iface \in Iface
    BY HostAssumption DEF RestInv, SInv, SlotTypeOK, HostAssumption
  <2>2. emitted' = emitted
    BY <1>p, BaseStays
  <2>3. EmittedQuiet'
    BY <1>f, <2>1, <2>2 DEF QInv, EmittedQuiet
  <2>4. \A k \in 1 .. Len(stack'[s]) : Top[stack'[s][k]] = Top[base(s)]
    BY <1>p, <1>q, <1>w DEF RootQuiet
  <2> QED BY <1>p, <1>f, <1>w, <2>3, <2>4, RootStays
<1>2. CASE StoreSlot(s)
  <2>1. /\ pc[s] = "store" /\ pc'[s] = "return" /\ UNCHANGED <<stack, slot, pciCache>>
        /\ slotCache' = [slotCache EXCEPT ![top(s)] = slot[s]]
    BY <1>t, <1>2 DEF StoreSlot, Go, SlotTypeOK, frameVars
  <2>2. slot[s] = SlotOf(base(s))
    BY <1>q, <2>1 DEF SearchQuiet
  <2>3. \A i \in Iface : slotCache'[i] \in {None, SlotOf(i)}
    BY <1>t, <1>q, <2>1, <2>2 DEF CachesQuiet, SlotTypeOK
  <2>4. CachesQuiet'
    BY <1>t, <1>f, <2>1, <2>3 DEF CachesQuiet
  <2>5. slot'[s] = SlotOf(base(s))'
    <3>1. base(s)' = base(s)
      BY <2>1 DEF base
    <3> QED BY <1>f, <2>1, <2>2, <3>1 DEF SlotOf, SlotOfAddr
  <2>6. SearchQuiet(s)'
    BY <2>1, <2>5 DEF SearchQuiet, Searching
  <2> QED BY <1>w, <2>1, <2>4, <2>6 DEF QuietStep
<1>3. CASE StorePci(s)
  <2>1. /\ pc[s] = "storePci" /\ pc'[s] = "source" /\ UNCHANGED <<stack, stage, addr, slot, slotCache>>
        /\ pciCache' = [pciCache EXCEPT ![top(s)] = addr[s]]
    BY <1>t, <1>3 DEF StorePci, Go, SlotTypeOK, frameVars
  <2>2. addr[s] = link[top(s)]
    BY <1>q, <2>1 DEF SearchQuiet, Searching
  <2>3. \A i \in Iface : pciCache'[i] \in {None, link[i]}
    BY <1>t, <1>q, <2>1, <2>2 DEF CachesQuiet, SlotTypeOK
  <2>4. CachesQuiet'
    BY <1>t, <1>f, <2>1, <2>3 DEF CachesQuiet
  <2>5. SearchQuiet(s)'
    <3>1. top(s)' = top(s)
      BY <2>1 DEF top
    <3> QED BY <1>q, <1>f, <2>1, <3>1 DEF SearchQuiet, Searching
  <2> QED BY <1>w, <2>1, <2>4, <2>5 DEF QuietStep
<1> QED BY <1>1, <1>2, <1>3

LEMMA QuietInit == Init => QInv
<1> SUFFICES ASSUME Init PROVE QInv
  OBVIOUS
<1>1. changes = 0 /\ master = host.master /\ emitted = {} /\ \A s \in Scrape : pc[s] = "start"
  BY DEF Init
<1>2. CachesQuiet
  BY DEF Init, CachesQuiet
<1>3. \A s \in Scrape : RootQuiet(s) /\ SearchQuiet(s)
  BY <1>1 DEF RootQuiet, SearchQuiet, Searching, Inside
<1> QED BY <1>1, <1>2, <1>3 DEF QInv, EmittedQuiet

LEMMA QuietKeeps == ASSUME SInv, RestInv, QInv, [Next]_vars PROVE QInv'
<1>1. ASSUME NEW s \in Scrape, Step(s) PROVE QInv'
  <2>1. UNCHANGED <<master, link, changes, host>>
    BY <1>1, StepFrame DEF sysfsVars
  <2>2. ASSUME Quiet PROVE CachesQuiet' /\ EmittedQuiet' /\ \A u \in Scrape : RootQuiet(u)' /\ SearchQuiet(u)'
    <3>1. QuietStep(s)
      BY <1>1, <2>1, <2>2, CollectQuiet, RecursionQuiet, SourcesQuiet, StoresQuiet DEF Step
    <3>2. ASSUME NEW u \in Scrape \ {s} PROVE RootQuiet(u)' /\ SearchQuiet(u)'
      <4>1. Top' = Top
        BY <2>1, TopStays
      <4>2. RootQuiet(u) /\ SearchQuiet(u)
        BY <2>2 DEF QInv
      <4> QED BY <1>1, <2>1, <4>1, <4>2, StepFrame, QuietFrame
    <3> QED BY <3>1, <3>2 DEF QuietStep
  <2> QED BY <2>1, <2>2 DEF QInv, Quiet
<1>2. CASE Relink
  <2>1. changes' \in Nat /\ changes' # 0
    BY <1>2 DEF Relink, QInv
  <2> QED BY <2>1 DEF QInv, Quiet
<1>3. CASE UNCHANGED vars
  <2> USE <1>3 DEF vars, frameVars, cacheVars, sysfsVars
  <2>1. UNCHANGED <<master, link, changes, host>>
    OBVIOUS
  <2>2. ASSUME Quiet PROVE CachesQuiet' /\ EmittedQuiet' /\ \A u \in Scrape : RootQuiet(u)' /\ SearchQuiet(u)'
    <3>1. Top' = Top /\ link' = link /\ \A i \in Iface : SlotOf(i)' = SlotOf(i)
      BY QuietSame
    <3>2. \A u \in Scrape : RootQuiet(u)' /\ SearchQuiet(u)'
      BY <2>2, <3>1, QuietFrame DEF QInv
    <3>3. CachesQuiet'
      BY <2>2, <3>1 DEF QInv, CachesQuiet
    <3>4. \A e \in emitted : e.iface \in Iface
      BY HostAssumption DEF RestInv, SInv, SlotTypeOK, HostAssumption
    <3>5. EmittedQuiet'
      BY <2>2, <3>1, <3>4 DEF QInv, EmittedQuiet
    <3> QED BY <3>2, <3>3, <3>5
  <2> QED BY <2>1, <2>2 DEF QInv, Quiet
<1> QED BY <1>1, <1>2, <1>3 DEF Next

\* While sysfs and the tools stay as they are, every scrape reports what it would
\* without the caches.
THEOREM Transparent == Spec => []CacheTransparent
<1>1. QInv => CacheTransparent
  BY DEF QInv, Quiet, EmittedQuiet, SlotOf, CacheTransparent
<1> QED BY <1>1, QuietInit, QuietKeeps, Caches, Reported, PTL DEF Spec
=============================================================================
