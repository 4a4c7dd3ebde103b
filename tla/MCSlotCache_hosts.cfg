\* Two scrapes of a host where nothing changes, or of one where all does.
SPECIFICATION FairSpec
CONSTANTS
    eth0 = eth0
    eth1 = eth1
    eth2 = eth2
    bond0 = bond0
    a0 = a0
    a1 = a1
    a2 = a2
    Scrape = {s1, s2}
    Iface = {eth0, eth1, eth2, bond0}
    Addr = {a0, a1, a2}
    None = None
    NoSlot = NoSlot
    SysfsSlot <- MCSysfsSlot
    DmiSlot <- MCDmiSlot
    LspciSlot <- MCLspciSlot
    Host <- MCHost
CHECK_DEADLOCK FALSE
INVARIANTS TypeOK CacheTransparent NeverForeign DmiSingleFlight
PROPERTY EveryScrapeEnds
