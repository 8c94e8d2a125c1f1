CONSTANTS
    PRINTF_BUFFER_SIZE <- MC_PRINTF_BUFFER_SIZE
    Calls <- MC_Calls
    Junk <- MC_Junk
    Garbage <- MC_Garbage
SPECIFICATION Spec
\* kprintf returns after one call.
CHECK_DEADLOCK FALSE
INVARIANT
    ArgumentsBound
