CONSTANTS
    W <- MC_W
    PMM_RAM_BASE <- MC_RamBase
    HighestRam <- MC_Highest
    DefaultLength <- MC_DefaultLength
    Addrs <- MC_Addrs
    Lengths <- MC_Lengths
    SizeArgs <- MC_SizeArgs
    Absent = Absent
SPECIFICATION Spec
INVARIANTS
    AccessInRamUnlessWrapped
    DumpReadsPrefix
