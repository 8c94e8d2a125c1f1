---------------------------- MODULE MC_KHeapWide ----------------------------
(***************************************************************************)
(* The heap of MC_KHeap on ten frames, with the kernel image and the       *)
(* bitmap in frame 0: after kheap_init's five frames four more remain,     *)
(* enough for every expansion a request of at most 21 bytes asks for.     *)
(* Requests above PAGE_SIZE - 2 * HEAP_HEADER_SIZE (4 bytes rounded) need  *)
(* a block made of more than one page.                                     *)
(***************************************************************************)
EXTENDS KHeap

MC_RAM_BASE == 8
MC_PAGE_SIZE == 8
MC_HEADER == 2
MC_ALIGN == 2
MC_Requests == {1, 7, 13}
MC_MaxCalls == 5
MC_NFrames == 10
MC_KernelStart == 8
MC_KernelEnd == 13
MC_BitmapStart == 10
MC_BitmapSize == 2
=============================================================================
