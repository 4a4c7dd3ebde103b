\* Every host of two ports and two bonds, one of each with an unreadable file, and
\* one change anywhere in the scrape.
SPECIFICATION FairSpec
CONSTANTS
    Iface = {eth0, eth1, bond0, bond1}
    Bond = {bond0, bond1}
    Field = {rx_bytes, tx_bytes}
    Faulty = {eth1, bond1}
    None = None
    BondingMasters = bonding_masters
    MaxChanges = 1
CHECK_DEADLOCK FALSE
INVARIANTS TypeOK QuietScrapeExact BondsAllOrNothing
PROPERTY ScrapeEnds
