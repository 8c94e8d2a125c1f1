------------------------------ MODULE MC_KHeap ------------------------------
(***************************************************************************)
(* The heap on 8-byte pages with a 2-byte header and 2-byte alignment      *)
(* (kheap.c: 4096, 48 and 8).  kheap_init's expand_heap(4 pages) takes 5   *)
(* frames as in the code; a 6-byte page block splits for a request of 1    *)
(* (rounded to 2, leaving a 2-byte block) but not for 3 (rounded to 4),    *)
(* and a request of 7 (rounded to 8) fits no single page block, which      *)
(* makes kmalloc expand by two pages.                                      *)
(***************************************************************************)
EXTENDS KHeap

MC_RAM_BASE == 8
MC_PAGE_SIZE == 8
MC_HEADER == 2
MC_ALIGN == 2
MC_Requests == {1, 3, 7}
MC_MaxCalls == 10
\* The kernel image and the bitmap in frame 0, below every heap frame: the
\* frames the heap obtains are contiguous.
MC_NFrames == 8
MC_KernelStart == 8
MC_KernelEnd == 13
MC_BitmapStart == 10
MC_BitmapSize == 1
=============================================================================
