CONSTANTS
    PMM_RAM_BASE <- MC_RAM_BASE
    PAGE_SIZE <- MC_PAGE_SIZE
    NFrames <- MC_NFrames
    KernelStart <- MC_KernelStart
    KernelEnd <- MC_KernelEnd
    BitmapStart <- MC_BitmapStart
    BitmapSize <- MC_BitmapSize
    StrayFrees = FALSE

SPECIFICATION Spec

INVARIANTS
    TypeOK
    FreeCount
    TotalAccount
    KernelReserved

PROPERTIES
    AllocatorRefined
