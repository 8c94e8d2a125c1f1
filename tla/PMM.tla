-------------------------------- MODULE PMM --------------------------------
(***************************************************************************)
(* The physical frame allocator of src/memory/frame_alloc.c.              *)
(*                                                                         *)
(* Frames are numbered 0 .. NFrames-1; frame i covers the physical bytes   *)
(* [PMM_RAM_BASE + i*PAGE_SIZE, PMM_RAM_BASE + (i+1)*PAGE_SIZE).  The      *)
(* bitmap is modelled by the set of frames whose bit is set (used).  The   *)
(* state of the allocator is a record with the four statics of the file,   *)
(* so that the helpers mark_range_used/mark_range_free/alloc_frame can be  *)
(* composed the way frame_alloc_init and the heap's expand_heap compose    *)
(* them.  Addresses are physical addresses (natural numbers); NULL is 0.   *)
(***************************************************************************)
EXTENDS Naturals, FiniteSets

CONSTANTS
    PMM_RAM_BASE,      \* first byte of RAM (frame_alloc.h)
    PAGE_SIZE,         \* frame size in bytes (frame_alloc.h)
    NFrames,           \* PMM_TOTAL_FRAMES = PMM_MANAGEABLE_SIZE / PAGE_SIZE
    KernelStart,       \* params->kernel_phys_start (or &_kernel_start)
    KernelEnd,         \* params->kernel_phys_end   (or &_kernel_end)
    BitmapStart,       \* &_pmm_bitmap_start
    BitmapSize,        \* &_pmm_bitmap_end - &_pmm_bitmap_start, in bytes
    StrayFrees         \* may a client pass free_frame a frame it does not own?

ASSUME PageAssumption == PAGE_SIZE \in Nat \ {0}
ASSUME FramesAssumption == NFrames \in Nat \ {0}
\* RAM starts above NULL and on a page boundary.
ASSUME BaseAssumption == PMM_RAM_BASE \in Nat \ {0} /\ PMM_RAM_BASE % PAGE_SIZE = 0
\* The boot parameters describe a well-formed range (end not below start).
ASSUME KernelAssumption == KernelStart \in Nat /\ KernelEnd \in Nat /\ KernelStart <= KernelEnd
\* The linker reserves one bit per managed frame (spec section 3).
ASSUME BitmapAssumption == BitmapStart \in Nat /\ BitmapSize \in Nat /\ BitmapSize * 8 >= NFrames
ASSUME StrayAssumption == StrayFrees \in BOOLEAN

NULL == 0
Frames == 0 .. NFrames - 1
PMM_MAX_ADDRESS == PMM_RAM_BASE + NFrames * PAGE_SIZE
FrameAddr(i) == PMM_RAM_BASE + i * PAGE_SIZE

\* start_frame is UINT64_MAX for a base below RAM; the value is only ever
\* compared with PMM_TOTAL_FRAMES, so any value >= NFrames stands for it.
UINT64_MAX_FRAME == NFrames

MinOf(a, b) == IF a <= b THEN a ELSE b
MaxOf(a, b) == IF a >= b THEN a ELSE b

(***************************************************************************)
(* The frames a mark_range_* call visits: the base rounds down, the end     *)
(* (base+size) rounds up, a range starting below RAM is ignored as a whole  *)
(* and the end is capped at the last frame.                                 *)
(***************************************************************************)
\* Variant: the end frame rounded down instead of up (a kernel that ends
\* inside a frame leaves that frame unreserved).
FrameRangeEndDown(base_addr, size) ==
    LET start_frame == IF base_addr >= PMM_RAM_BASE
                       THEN (base_addr - PMM_RAM_BASE) \div PAGE_SIZE
                       ELSE UINT64_MAX_FRAME
        end_frame == IF base_addr + size > PMM_RAM_BASE
                     THEN (base_addr + size - PMM_RAM_BASE) \div PAGE_SIZE - 1
                     ELSE 0
    IN  IF start_frame >= NFrames THEN {}
        ELSE start_frame .. MinOf(end_frame, NFrames - 1)

FrameRange(base_addr, size) ==
    LET start_frame == IF base_addr >= PMM_RAM_BASE
                       THEN (base_addr - PMM_RAM_BASE) \div PAGE_SIZE
                       ELSE UINT64_MAX_FRAME
        end_addr == base_addr + size
        end_frame == IF end_addr > PMM_RAM_BASE
                     THEN (end_addr - 1 - PMM_RAM_BASE) \div PAGE_SIZE
                     ELSE 0
    IN  IF start_frame >= NFrames THEN {}
        ELSE start_frame .. MinOf(end_frame, NFrames - 1)

\* k times "if (x >= PAGE_SIZE) x -= PAGE_SIZE;"
SatSub(x, k) == x - PAGE_SIZE * MinOf(k, x \div PAGE_SIZE)

\* A PMM state: the bitmap and the three counters of frame_alloc.c.
PState == [bitmap : SUBSET Frames, total : Nat, free : Nat, highest : Nat]

\* Variant: mark_range_used forgetting "total_memory -= PAGE_SIZE".
MarkRangeUsedKeepsTotal(s, base_addr, size) ==
    LET flips == FrameRange(base_addr, size) \ s.bitmap
    IN  [s EXCEPT !.bitmap = @ \cup FrameRange(base_addr, size),
                  !.free   = SatSub(@, Cardinality(flips))]

\* Variant: mark_range_used without the test_bit guard, so a frame that is
\* used already is paid for twice.
MarkRangeUsedNoTest(s, base_addr, size) ==
    LET n == Cardinality(FrameRange(base_addr, size))
    IN  [s EXCEPT !.bitmap = @ \cup FrameRange(base_addr, size),
                  !.total  = SatSub(@, n),
                  !.free   = SatSub(@, n)]

mark_range_used(s, base_addr, size) ==
    LET flips == FrameRange(base_addr, size) \ s.bitmap
    IN  [s EXCEPT !.bitmap = @ \cup FrameRange(base_addr, size),
                  !.total  = SatSub(@, Cardinality(flips)),
                  !.free   = SatSub(@, Cardinality(flips))]

\* Each frame flipped used->free counts once; the highest usable address is
\* raised to the end of the highest flipped frame.
mark_range_free(s, base_addr, size) ==
    LET flips == FrameRange(base_addr, size) \cap s.bitmap
        top   == CHOOSE f \in flips : \A g \in flips : g <= f
    IN  [s EXCEPT !.bitmap  = @ \ FrameRange(base_addr, size),
                  !.total   = @ + PAGE_SIZE * Cardinality(flips),
                  !.free    = @ + PAGE_SIZE * Cardinality(flips),
                  !.highest = IF flips = {} THEN @
                              ELSE MaxOf(@, PMM_RAM_BASE + (top + 1) * PAGE_SIZE)]

\* The whole of frame_alloc_init: memset the bitmap to 0xFF, reset the
\* counters, free the manageable window, reserve the kernel and the bitmap.
FrameAllocInitState ==
    LET s0 == [bitmap |-> Frames, total |-> 0, free |-> 0, highest |-> PMM_RAM_BASE]
        s1 == mark_range_free(s0, PMM_RAM_BASE, NFrames * PAGE_SIZE)
        s2 == mark_range_used(s1, KernelStart, KernelEnd - KernelStart)
    IN  mark_range_used(s2, BitmapStart, BitmapSize)

\* Variant: the scan stops one frame short ("i < PMM_TOTAL_FRAMES - 1"), so
\* the last frame is never handed out.
LowestFreeSkipLast(s, k) ==
    {f \in (Frames \ {NFrames - 1}) \ s.bitmap :
        Cardinality({g \in (Frames \ {NFrames - 1}) \ s.bitmap : g < f}) < k}

\* The k lowest clear frames: what k successive alloc_frame calls take
\* (each scans from bit 0 for the first clear bit).
LowestFree(s, k) ==
    {f \in Frames \ s.bitmap :
        Cardinality({g \in Frames \ s.bitmap : g < f}) < k}

\* The state after k successive alloc_frame calls (the ones that find no
\* frame change nothing).
\* Variant: free_memory decremented before the scan, also when it finds
\* no clear bit.
AllocFramesPayFirst(s, k) ==
    [s EXCEPT !.bitmap = @ \cup LowestFree(s, k),
              !.free   = @ - PAGE_SIZE * k]

alloc_frames(s, k) ==
    [s EXCEPT !.bitmap = @ \cup LowestFree(s, k),
              !.free   = @ - PAGE_SIZE * Cardinality(LowestFree(s, k))]

\* free_frame: the four validation checks, then clear the bit.
FreeFrameValid(s, addr) ==
    /\ addr # NULL
    /\ addr >= PMM_RAM_BASE /\ addr < PMM_MAX_ADDRESS
    /\ addr % PAGE_SIZE = 0
    /\ (addr - PMM_RAM_BASE) \div PAGE_SIZE \in s.bitmap

free_frame(s, addr) ==
    IF FreeFrameValid(s, addr)
    THEN [s EXCEPT !.bitmap = @ \ {(addr - PMM_RAM_BASE) \div PAGE_SIZE},
                   !.free   = @ + PAGE_SIZE]
    ELSE s

-----------------------------------------------------------------------------
VARIABLES
    frame_bitmap,           \* set of frames whose bit is set
    total_memory,
    free_memory,
    highest_usable_address,
    pmm_ready,              \* frame_alloc_init has run (kernel_main order)
    allocated,              \* ghost: frames alloc_frame handed to clients
    alloc_result            \* ghost: what the last alloc_frame call returned

pmm_vars == <<frame_bitmap, total_memory, free_memory, highest_usable_address>>
vars == <<frame_bitmap, total_memory, free_memory, highest_usable_address,
          pmm_ready, allocated, alloc_result>>

pmm == [bitmap |-> frame_bitmap, total |-> total_memory,
        free |-> free_memory, highest |-> highest_usable_address]

SetPMM(s) ==
    /\ frame_bitmap' = s.bitmap
    /\ total_memory' = s.total
    /\ free_memory' = s.free
    /\ highest_usable_address' = s.highest

\* Before boot the bitmap region holds whatever the loader left there; the
\* counters are zero-initialised statics.
Init ==
    /\ frame_bitmap \in SUBSET Frames
    /\ total_memory = 0
    /\ free_memory = 0
    /\ highest_usable_address = 0
    /\ pmm_ready = FALSE
    /\ allocated = {}
    /\ alloc_result = NULL

FrameAllocInit ==
    /\ ~pmm_ready
    /\ SetPMM(FrameAllocInitState)
    /\ pmm_ready' = TRUE
    /\ UNCHANGED <<allocated, alloc_result>>

\* A client calls alloc_frame(); a returned frame becomes the client's.
\* It returns the address of the first clear frame, or NULL.
AllocFrame ==
    /\ pmm_ready
    /\ SetPMM(alloc_frames(pmm, 1))
    /\ allocated' = allocated \cup LowestFree(pmm, 1)
    /\ alloc_result' = IF LowestFree(pmm, 1) = {} THEN NULL
                        ELSE FrameAddr(CHOOSE f \in LowestFree(pmm, 1) : TRUE)
    /\ UNCHANGED pmm_ready

\* The addresses a client passes to free_frame: its own frames, frames that
\* are free already (double free), NULL, addresses outside RAM and an
\* unaligned one; with StrayFrees, any frame address at all.
FreeArgs ==
    {FrameAddr(f) : f \in allocated \cup (Frames \ frame_bitmap)}
    \cup {NULL, PMM_RAM_BASE - PAGE_SIZE, PMM_MAX_ADDRESS, PMM_RAM_BASE + 1}
    \cup (IF StrayFrees THEN {FrameAddr(f) : f \in Frames} ELSE {})

FreeFrame(addr) ==
    /\ pmm_ready
    /\ SetPMM(free_frame(pmm, addr))
    /\ allocated' = IF FreeFrameValid(pmm, addr)
                    THEN allocated \ {(addr - PMM_RAM_BASE) \div PAGE_SIZE}
                    ELSE allocated
    /\ UNCHANGED <<pmm_ready, alloc_result>>

Next ==
    \/ FrameAllocInit
    \/ AllocFrame
    \/ \E addr \in FreeArgs : FreeFrame(addr)

Spec == Init /\ [][Next]_vars

-----------------------------------------------------------------------------
\* The frames holding a byte of the kernel image or of the bitmap.
Overlaps(f, lo, hi) == lo < FrameAddr(f) + PAGE_SIZE /\ FrameAddr(f) < hi
ReservedFrames ==
    {f \in Frames : \/ Overlaps(f, KernelStart, KernelEnd)
                   \/ Overlaps(f, BitmapStart, BitmapStart + BitmapSize)}

TypeOK ==
    /\ frame_bitmap \subseteq Frames
    /\ total_memory \in Nat
    /\ free_memory \in Nat
    /\ highest_usable_address \in Nat
    /\ pmm_ready \in BOOLEAN
    /\ allocated \subseteq Frames

(***************************************************************************)
(* P1: once frame_alloc_init has run, free_memory is PAGE_SIZE times the    *)
(* number of clear bits, whatever sequence of mark_range_*, alloc_frame     *)
(* and free_frame calls (including rejected ones) got there.                *)
(***************************************************************************)
FreeCount ==
    pmm_ready => free_memory = PAGE_SIZE * Cardinality(Frames \ frame_bitmap)

(***************************************************************************)
(* I2: total_memory, fixed by frame_alloc_init, is what is free plus what   *)
(* alloc_frame has handed out and not had back: frames are neither lost     *)
(* nor created by alloc_frame/free_frame.                                   *)
(***************************************************************************)
TotalAccount ==
    pmm_ready => total_memory = free_memory + PAGE_SIZE * Cardinality(allocated)

(***************************************************************************)
(* I4/I5: the frames of the kernel image and of the bitmap stay marked     *)
(* used and alloc_frame never hands one of them to a client.                *)
(***************************************************************************)
KernelReserved ==
    pmm_ready => /\ ReservedFrames \subseteq frame_bitmap
                 /\ ReservedFrames \cap allocated = {}

-----------------------------------------------------------------------------
(***************************************************************************)
(* Refinement: frame_alloc.c implements FrameAllocator.  The pool is the    *)
(* frames whose bit is clear once frame_alloc_init has run, the owned      *)
(* frames are the ones alloc_frame handed out, and the result is the frame *)
(* of the address alloc_frame last returned (NFrames standing for NULL).   *)
(***************************************************************************)
FreePool == IF pmm_ready THEN Frames \ frame_bitmap ELSE {}

ResultFrame == IF alloc_result = NULL THEN NFrames
               ELSE (alloc_result - PMM_RAM_BASE) \div PAGE_SIZE

FA == INSTANCE FrameAllocator
        WITH Reserved <- ReservedFrames, NoFrame <- NFrames,
             ready <- pmm_ready, pool <- FreePool, owned <- allocated,
             result <- ResultFrame

(***************************************************************************)
(* C1/C2 as a whole: every step of frame_alloc_init, alloc_frame and        *)
(* free_frame is a step of the abstract allocator or leaves its state      *)
(* alone.  In particular alloc_frame returns NULL only when no frame is    *)
(* free, hands out only a free frame, and free_frame takes back only       *)
(* frames a client owns.                                                   *)
(***************************************************************************)
AllocatorRefined == FA!Spec

=============================================================================
