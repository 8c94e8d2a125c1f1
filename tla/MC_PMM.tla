------------------------------- MODULE MC_PMM -------------------------------
(***************************************************************************)
(* PMM on a 8-frame window of 4-byte pages starting at address 8.  The     *)
(* kernel image [13, 19) covers frames 1 and 2 and ends inside frame 2;    *)
(* the one-byte bitmap at 14 lies inside the kernel image, as the linker   *)
(* script places it.                                                       *)
(***************************************************************************)
EXTENDS PMM

MC_RAM_BASE == 8
MC_PAGE_SIZE == 4
MC_NFrames == 8
MC_KernelStart == 13
MC_KernelEnd == 19
MC_BitmapStart == 14
MC_BitmapSize == 1
=============================================================================
