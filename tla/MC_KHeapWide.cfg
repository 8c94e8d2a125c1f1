CONSTANTS
    PMM_RAM_BASE <- MC_RAM_BASE
    PAGE_SIZE <- MC_PAGE_SIZE
    NFrames <- MC_NFrames
    KernelStart <- MC_KernelStart
    KernelEnd <- MC_KernelEnd
    BitmapStart <- MC_BitmapStart
    BitmapSize <- MC_BitmapSize
    StrayFrees = FALSE
    HEAP_HEADER_SIZE <- MC_HEADER
    ALIGNMENT <- MC_ALIGN
    Requests <- MC_Requests
    DoubleFrees = FALSE
    MaxCalls <- MC_MaxCalls

SPECIFICATION HeapSpec

PROPERTY KmallocServes
CHECK_DEADLOCK FALSE
