CONSTANTS
    CodeBase <- MC_CodeBase
    Programs <- MC_Programs
    MaxAsync <- MC_MaxAsync
SPECIFICATION Spec
\* A run stops at the end of its program or in panic's wfi loop.
CHECK_DEADLOCK FALSE
INVARIANT ExcTypeOK
PROPERTY
    ResumesAfterTrap
