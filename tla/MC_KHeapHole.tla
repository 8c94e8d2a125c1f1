---------------------------- MODULE MC_KHeapHole ----------------------------
(***************************************************************************)
(* The heap of MC_KHeap with the kernel image and the bitmap in frame 5,   *)
(* between the five frames kheap_init takes and the frames later           *)
(* expansions take, as on QEMU virt where the kernel at 0x40080000 sits    *)
(* above 128 free frames: the frames the heap obtains are not contiguous.  *)
(***************************************************************************)
EXTENDS KHeap

MC_RAM_BASE == 8
MC_PAGE_SIZE == 8
MC_HEADER == 2
MC_ALIGN == 2
MC_Requests == {1, 3, 7}
MC_MaxCalls == 6
MC_NFrames == 10
MC_KernelStart == 48
MC_KernelEnd == 53
MC_BitmapStart == 50
MC_BitmapSize == 2
=============================================================================
