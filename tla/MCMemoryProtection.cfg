CONSTANTS
    Pages = {0, 1, 2, 3}
    Contents = {c1, c2}
    Threads = {t1, t2}
    MaxRegions = 3
    Flash <- FlashPage
    Sram <- RamPages
    Peripherals <- PeripheralPage
    PairSizes = {1}
    Writable = {2}
    MaxFaults = 1
    MaxCalls = 2
SPECIFICATION FairSpec
INVARIANTS
    TypeOK
    RegionsWellFormed
PROPERTIES
    DamageIsRepaired
CHECK_DEADLOCK FALSE
