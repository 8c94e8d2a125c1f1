------------------------------ MODULE PMMProofs ------------------------------
(***************************************************************************)
(* Proofs about the frame allocator of PMM.tla, for every value of the      *)
(* constants that satisfies the assumptions of PMM.                         *)
(*                                                                         *)
(* The helpers of frame_alloc.c are operators on a PMM state record, so     *)
(* each gets a lemma of its own: it maps a well-typed state to a            *)
(* well-typed state and preserves PInv, "free is PAGE_SIZE times the number *)
(* of clear bits".  The invariant theorems then only have to match the      *)
(* actions to these lemmas.                                                 *)
(***************************************************************************)
EXTENDS PMM, TLAPS, FiniteSetTheorems, WellFoundedInduction

USE PageAssumption, FramesAssumption, BaseAssumption, KernelAssumption,
    BitmapAssumption

\* free_memory of a state record is PAGE_SIZE times its clear bits.
PInv(s) == s.free = PAGE_SIZE * Cardinality(Frames \ s.bitmap)

\* Every set of frames is finite, with a natural cardinality.
LEMMA SubsetFinite ==
    ASSUME NEW S \in SUBSET Frames
    PROVE  IsFiniteSet(S) /\ Cardinality(S) \in Nat
<1>1. IsFiniteSet(Frames) BY FS_Interval DEF Frames
<1> QED BY <1>1, FS_Subset, FS_CardinalityType

\* The frames a mark_range_* call visits are managed frames.
LEMMA FrameRangeType ==
    ASSUME NEW b \in Nat, NEW z \in Nat
    PROVE  FrameRange(b, z) \subseteq Frames
BY DEF FrameRange, Frames, UINT64_MAX_FRAME, MinOf

\* A non-empty set of frames has a highest frame (the `top' that
\* mark_range_free raises highest_usable_address to).
LEMMA MaxExists ==
    ASSUME NEW T \in SUBSET Frames, T # {}
    PROVE  \E f \in T : \A g \in T : g <= f
<1> DEFINE U == {NFrames - t : t \in T}
<1>1. U \subseteq Nat /\ U # {} BY DEF Frames
<1>2. PICK x \in U : \A y \in U : ~(<<y, x>> \in OpToRel(<, Nat))
    BY <1>1, WFMin, NatLessThanWellFounded
<1>3. PICK t0 \in T : x = NFrames - t0 BY <1>2
<1>4. \A g \in T : g <= t0
    <2> TAKE g \in T
    <2>1. NFrames - g \in U OBVIOUS
    <2>2. ~(<<NFrames - g, x>> \in OpToRel(<, Nat)) BY <1>2, <2>1
    <2> QED BY <2>2, <1>3, <1>1 DEF OpToRel, Frames
<1> QED BY <1>4

\* The saturating decrement of mark_range_used never goes below zero ...
LEMMA SatSubType ==
    ASSUME NEW x \in Nat, NEW k \in Nat
    PROVE  SatSub(x, k) \in Nat
<1>1. PAGE_SIZE * (x \div PAGE_SIZE) <= x BY SMT
<1>2. MinOf(k, x \div PAGE_SIZE) \in 0 .. (x \div PAGE_SIZE) BY DEF MinOf
<1>3. PAGE_SIZE * MinOf(k, x \div PAGE_SIZE) <= PAGE_SIZE * (x \div PAGE_SIZE)
    BY <1>2, SMT
<1> QED BY <1>1, <1>2, <1>3 DEF SatSub

\* ... and, on a multiple of PAGE_SIZE with enough pages, is exact.
LEMMA SatSubExact ==
    ASSUME NEW c \in Nat, NEW k \in Nat, k <= c
    PROVE  SatSub(PAGE_SIZE * c, k) = PAGE_SIZE * (c - k)
<1>1. (PAGE_SIZE * c) \div PAGE_SIZE = c BY SMT
<1> QED BY <1>1 DEF SatSub, MinOf

\* mark_range_used keeps the type, and free stays PAGE_SIZE times the clear
\* bits: each frame it flips is one the saturating decrement can pay for.
LEMMA MarkUsed ==
    ASSUME NEW s \in PState, NEW b \in Nat, NEW z \in Nat
    PROVE  /\ mark_range_used(s, b, z) \in PState
           /\ PInv(s) => PInv(mark_range_used(s, b, z))
<1> DEFINE R  == FrameRange(b, z)
           fl == R \ s.bitmap
           C  == Frames \ s.bitmap
<1>1. R \subseteq Frames BY FrameRangeType
<1>2. /\ IsFiniteSet(fl) /\ Cardinality(fl) \in Nat
      /\ IsFiniteSet(C) /\ Cardinality(C) \in Nat
    BY <1>1, SubsetFinite
<1>3. mark_range_used(s, b, z) =
        [s EXCEPT !.bitmap = @ \cup R,
                  !.total  = SatSub(@, Cardinality(fl)),
                  !.free   = SatSub(@, Cardinality(fl))]
    BY DEF mark_range_used
<1>4. mark_range_used(s, b, z) \in PState
    <2>1. /\ SatSub(s.total, Cardinality(fl)) \in Nat
          /\ SatSub(s.free, Cardinality(fl)) \in Nat
        BY <1>2, SatSubType DEF PState
    <2>2. s.bitmap \cup R \in SUBSET Frames BY <1>1 DEF PState
    <2> QED BY <1>3, <2>1, <2>2 DEF PState
<1>5. ASSUME PInv(s) PROVE PInv(mark_range_used(s, b, z))
    <2>1. Frames \ (s.bitmap \cup R) = C \ fl OBVIOUS
    <2>2. fl \subseteq C /\ C \cap fl = fl BY <1>1
    <2>3. Cardinality(C \ fl) = Cardinality(C) - Cardinality(fl)
        BY <1>2, <2>2, FS_Difference
    <2>4. Cardinality(fl) <= Cardinality(C) BY <1>2, <2>2, FS_Subset
    <2>5. SatSub(s.free, Cardinality(fl))
            = PAGE_SIZE * (Cardinality(C) - Cardinality(fl))
        BY <1>2, <1>5, <2>4, SatSubExact DEF PInv
    <2> QED BY <1>3, <2>1, <2>3, <2>5 DEF PInv, PState
<1> QED BY <1>4, <1>5

\* mark_range_free keeps the type (highest_usable_address is raised to the
\* end of a managed frame) and adds one page per frame it flips.
LEMMA MarkFree ==
    ASSUME NEW s \in PState, NEW b \in Nat, NEW z \in Nat
    PROVE  /\ mark_range_free(s, b, z) \in PState
           /\ PInv(s) => PInv(mark_range_free(s, b, z))
<1> DEFINE R   == FrameRange(b, z)
           fl  == R \cap s.bitmap
           top == CHOOSE f \in fl : \A g \in fl : g <= f
           C   == Frames \ s.bitmap
<1>1. R \subseteq Frames BY FrameRangeType
<1>2. /\ IsFiniteSet(fl) /\ Cardinality(fl) \in Nat
      /\ IsFiniteSet(C) /\ Cardinality(C) \in Nat
    BY <1>1, SubsetFinite
<1>3. fl # {} => top \in Frames
    <2> HAVE fl # {}
    <2>1. \E f \in fl : \A g \in fl : g <= f BY <1>1, MaxExists
    <2> QED BY <2>1, <1>1
<1>4. mark_range_free(s, b, z) =
        [s EXCEPT !.bitmap  = @ \ R,
                  !.total   = @ + PAGE_SIZE * Cardinality(fl),
                  !.free    = @ + PAGE_SIZE * Cardinality(fl),
                  !.highest = IF fl = {} THEN @
                              ELSE MaxOf(@, PMM_RAM_BASE + (top + 1) * PAGE_SIZE)]
    BY DEF mark_range_free
<1>5. mark_range_free(s, b, z) \in PState
    <2>1. (IF fl = {} THEN s.highest
           ELSE MaxOf(s.highest, PMM_RAM_BASE + (top + 1) * PAGE_SIZE)) \in Nat
        BY <1>3 DEF PState, MaxOf, Frames
    <2>2. /\ s.total + PAGE_SIZE * Cardinality(fl) \in Nat
          /\ s.free + PAGE_SIZE * Cardinality(fl) \in Nat
        BY <1>2 DEF PState
    <2>3. s.bitmap \ R \in SUBSET Frames BY DEF PState
    <2> QED BY <1>4, <2>1, <2>2, <2>3 DEF PState
<1>6. ASSUME PInv(s) PROVE PInv(mark_range_free(s, b, z))
    <2>1. Frames \ (s.bitmap \ R) = C \cup fl BY <1>1
    <2>2. Cardinality(C \cap fl) = 0
        <3>1. C \cap fl = {} OBVIOUS
        <3> QED BY <3>1, FS_EmptySet
    <2>3. Cardinality(C \cup fl) = Cardinality(C) + Cardinality(fl)
        <3>1. Cardinality(C \cup fl)
                = Cardinality(C) + Cardinality(fl) - Cardinality(C \cap fl)
            BY <1>2, FS_Union
        <3> QED BY <3>1, <2>2, <1>2
    <2>4. mark_range_free(s, b, z).free = s.free + PAGE_SIZE * Cardinality(fl)
        BY <1>4 DEF PState
    <2>5. mark_range_free(s, b, z).bitmap = s.bitmap \ R
        BY <1>4 DEF PState
    <2>6. s.free + PAGE_SIZE * Cardinality(fl)
            = PAGE_SIZE * (Cardinality(C) + Cardinality(fl))
        BY <1>2, <1>6 DEF PInv, PState
    <2> QED BY <2>1, <2>3, <2>4, <2>5, <2>6 DEF PInv
<1> QED BY <1>5, <1>6

\* frame_alloc_init ends in a well-typed state whose free count matches
\* its bitmap, whatever the kernel and bitmap ranges are.
LEMMA InitState ==
    FrameAllocInitState \in PState /\ PInv(FrameAllocInitState)
<1> DEFINE s0 == [bitmap |-> Frames, total |-> 0, free |-> 0,
                  highest |-> PMM_RAM_BASE]
           s1 == mark_range_free(s0, PMM_RAM_BASE, NFrames * PAGE_SIZE)
           s2 == mark_range_used(s1, KernelStart, KernelEnd - KernelStart)
<1>1. s0 \in PState /\ PInv(s0)
    <2>1. Cardinality(Frames \ Frames) = 0 BY FS_EmptySet
    <2> QED BY <2>1 DEF PState, PInv
<1>2. s1 \in PState /\ PInv(s1) BY <1>1, MarkFree
<1>3. s2 \in PState /\ PInv(s2) BY <1>2, MarkUsed
<1>4. FrameAllocInitState = mark_range_used(s2, BitmapStart, BitmapSize)
    BY DEF FrameAllocInitState
<1> QED BY <1>3, <1>4, MarkUsed

\* alloc_frame (k times) keeps the type: it only takes clear frames, so it
\* never pays more pages than are free.
LEMMA Alloc ==
    ASSUME NEW s \in PState, PInv(s), NEW k \in Nat
    PROVE  alloc_frames(s, k) \in PState /\ PInv(alloc_frames(s, k))
<1> DEFINE L == LowestFree(s, k)
           C == Frames \ s.bitmap
<1>1. L \subseteq C BY DEF LowestFree
<1>2. /\ IsFiniteSet(C) /\ Cardinality(C) \in Nat
      /\ IsFiniteSet(L) /\ Cardinality(L) \in Nat
      /\ Cardinality(L) <= Cardinality(C)
    BY <1>1, SubsetFinite, FS_Subset
<1>3. Cardinality(C \ L) = Cardinality(C) - Cardinality(L)
    <2>1. C \cap L = L BY <1>1
    <2> QED BY <1>2, <2>1, FS_Difference
<1>4. alloc_frames(s, k) =
        [s EXCEPT !.bitmap = @ \cup L, !.free = @ - PAGE_SIZE * Cardinality(L)]
    BY DEF alloc_frames
<1>5. s.free - PAGE_SIZE * Cardinality(L)
        = PAGE_SIZE * (Cardinality(C) - Cardinality(L))
    BY <1>2 DEF PInv
<1>6. PAGE_SIZE * (Cardinality(C) - Cardinality(L)) \in Nat BY <1>2
<1>7. Frames \ (s.bitmap \cup L) = C \ L OBVIOUS
<1> QED BY <1>1, <1>3, <1>4, <1>5, <1>6, <1>7 DEF PState, PInv

\* free_frame keeps the type, and only a valid call (a set bit) adds a page.
LEMMA Free ==
    ASSUME NEW s \in PState, PInv(s), NEW addr
    PROVE  free_frame(s, addr) \in PState /\ PInv(free_frame(s, addr))
<1> DEFINE i == (addr - PMM_RAM_BASE) \div PAGE_SIZE
           C == Frames \ s.bitmap
<1>1. CASE FreeFrameValid(s, addr)
    <2>1. i \in s.bitmap /\ i \in Frames /\ i \notin C
        BY <1>1 DEF FreeFrameValid, PState
    <2>2. IsFiniteSet(C) /\ Cardinality(C) \in Nat BY SubsetFinite
    <2>3. Cardinality(C \cup {i}) = Cardinality(C) + 1
        BY <2>1, <2>2, FS_AddElement
    <2>4. Frames \ (s.bitmap \ {i}) = C \cup {i} BY <2>1
    <2>5. free_frame(s, addr) =
            [s EXCEPT !.bitmap = @ \ {i}, !.free = @ + PAGE_SIZE]
        BY <1>1 DEF free_frame
    <2>6. s.free + PAGE_SIZE = PAGE_SIZE * (Cardinality(C) + 1)
        BY <2>2 DEF PInv
    <2>7. /\ free_frame(s, addr).bitmap = s.bitmap \ {i}
          /\ free_frame(s, addr).free = s.free + PAGE_SIZE
        BY <2>5 DEF PState
    <2>8. free_frame(s, addr) \in PState
        <3>1. s.free + PAGE_SIZE \in Nat /\ s.bitmap \ {i} \in SUBSET Frames
            BY DEF PState
        <3> QED BY <2>5, <3>1 DEF PState
    <2> QED BY <2>3, <2>4, <2>6, <2>7, <2>8 DEF PInv
<1>2. CASE ~FreeFrameValid(s, addr) BY <1>2 DEF free_frame
<1> QED BY <1>1, <1>2

\* SetPMM writes a state record into the four statics.
LEMMA SetPMMFacts ==
    ASSUME NEW s \in PState, SetPMM(s)
    PROVE  /\ frame_bitmap' \subseteq Frames
           /\ total_memory' \in Nat
           /\ free_memory' \in Nat
           /\ highest_usable_address' \in Nat
           /\ PInv(s) => free_memory' = PAGE_SIZE * Cardinality(Frames \ frame_bitmap')
BY DEF SetPMM, PState, PInv

-----------------------------------------------------------------------------
(***************************************************************************)
(* FreeCount is not inductive alone (a step of alloc_frame keeps            *)
(* free_memory natural only because free_memory counts the clear bits),    *)
(* and TypeOK is not inductive alone for the same reason: the inductive     *)
(* invariant is their conjunction.                                          *)
(***************************************************************************)
IInv == TypeOK /\ FreeCount

\* Before boot the counters are zero and frame_alloc_init has not run.
LEMMA IInvInit == Init => IInv
<1> SUFFICES ASSUME Init PROVE IInv
    OBVIOUS
<1>1. TypeOK BY DEF Init, TypeOK
<1>2. FreeCount BY DEF Init, FreeCount
<1> QED BY <1>1, <1>2 DEF IInv

\* Every step of frame_alloc_init, alloc_frame and free_frame keeps IInv.
LEMMA IInvStep == IInv /\ [Next]_vars => IInv'
<1> SUFFICES ASSUME IInv, [Next]_vars PROVE IInv'
    OBVIOUS
<1>0. /\ pmm \in PState
      /\ pmm_ready => PInv(pmm)
    BY DEF IInv, TypeOK, FreeCount, pmm, PState, PInv
<1>1. CASE FrameAllocInit
    <2>1. FrameAllocInitState \in PState /\ PInv(FrameAllocInitState)
        BY InitState
    <2> QED BY <1>1, <2>1, SetPMMFacts
            DEF FrameAllocInit, IInv, TypeOK, FreeCount
<1>2. CASE AllocFrame
    <2>1. alloc_frames(pmm, 1) \in PState /\ PInv(alloc_frames(pmm, 1))
        BY <1>0, <1>2, Alloc DEF AllocFrame
    <2>2. allocated' \subseteq Frames
        BY <1>2 DEF AllocFrame, LowestFree, IInv, TypeOK
    <2> QED BY <1>2, <2>1, <2>2, SetPMMFacts
            DEF AllocFrame, IInv, TypeOK, FreeCount
<1>3. ASSUME NEW addr \in FreeArgs, FreeFrame(addr) PROVE IInv'
    <2>1. free_frame(pmm, addr) \in PState /\ PInv(free_frame(pmm, addr))
        BY <1>0, <1>3, Free DEF FreeFrame
    <2>2. allocated' \subseteq Frames
        BY <1>3 DEF FreeFrame, IInv, TypeOK
    <2> QED BY <1>3, <2>1, <2>2, SetPMMFacts
            DEF FreeFrame, IInv, TypeOK, FreeCount
<1>4. CASE UNCHANGED vars
    BY <1>4 DEF vars, IInv, TypeOK, FreeCount
<1> QED BY <1>1, <1>2, <1>3, <1>4 DEF Next

(***************************************************************************)
(* Type correctness of the frame allocator: whatever the constants, the     *)
(* bitmap only ever holds managed frames and the counters of               *)
(* frame_alloc.c never wrap below zero (alloc_frame's unguarded             *)
(* free_memory -= PAGE_SIZE included).                                      *)
(***************************************************************************)
THEOREM TypeCorrect == Spec => []TypeOK
<1>1. IInv => TypeOK BY DEF IInv
<1> QED BY <1>1, IInvInit, IInvStep, PTL DEF Spec

(***************************************************************************)
(* P1 for every configuration: once frame_alloc_init has run, free_memory   *)
(* is PAGE_SIZE times the number of clear bits after any sequence of        *)
(* alloc_frame and free_frame calls, rejected ones included.                *)
(***************************************************************************)
THEOREM FreeCountInvariant == Spec => []FreeCount
<1>1. IInv => FreeCount BY DEF IInv
<1> QED BY <1>1, IInvInit, IInvStep, PTL DEF Spec
-----------------------------------------------------------------------------
(***************************************************************************)
(* Accounting: total_memory against free_memory and the frames handed out. *)
(***************************************************************************)

\* mark_range_used and mark_range_free change total_memory and free_memory
\* by the same amount, so frame_alloc_init leaves them equal.
LEMMA InitTotal ==
    FrameAllocInitState.total = FrameAllocInitState.free
<1> DEFINE s0 == [bitmap |-> Frames, total |-> 0, free |-> 0,
                  highest |-> PMM_RAM_BASE]
           s1 == mark_range_free(s0, PMM_RAM_BASE, NFrames * PAGE_SIZE)
           s2 == mark_range_used(s1, KernelStart, KernelEnd - KernelStart)
           s3 == mark_range_used(s2, BitmapStart, BitmapSize)
<1>1. s0 \in PState /\ s1 \in PState /\ s2 \in PState
    <2>1. s0 \in PState BY DEF PState
    <2>2. s1 \in PState BY <2>1, MarkFree
    <2>3. KernelEnd - KernelStart \in Nat OBVIOUS
    <2> QED BY <2>1, <2>2, <2>3, MarkUsed
<1>2. s1.total = s1.free BY DEF mark_range_free
<1>3. s2.total = s2.free BY <1>1, <1>2 DEF mark_range_used, PState
<1>4. s3.total = s3.free BY <1>1, <1>3 DEF mark_range_used, PState
<1> QED BY <1>4 DEF FrameAllocInitState

\* The frame number of a frame's address is the frame.
LEMMA FrameIndex ==
    ASSUME NEW f \in Nat
    PROVE  (FrameAddr(f) - PMM_RAM_BASE) \div PAGE_SIZE = f
<1>1. FrameAddr(f) - PMM_RAM_BASE = f * PAGE_SIZE BY DEF FrameAddr
<1> QED BY <1>1

\* RAM_BASE + 1 is not page aligned when a page is more than a byte.
LEMMA UnalignedProbe ==
    ASSUME PAGE_SIZE > 1 PROVE (PMM_RAM_BASE + 1) % PAGE_SIZE = 1
<1> DEFINE q == PMM_RAM_BASE \div PAGE_SIZE
           d == (PMM_RAM_BASE + 1) \div PAGE_SIZE
           r == (PMM_RAM_BASE + 1) % PAGE_SIZE
<1>1. PMM_RAM_BASE = PAGE_SIZE * q /\ q \in Nat BY SMT
<1>2. PMM_RAM_BASE + 1 = PAGE_SIZE * d + r /\ 0 <= r /\ r < PAGE_SIZE /\ d \in Nat
    BY SMT
<1>3. ~(d >= q + 1)
    <2>1. SUFFICES ASSUME d >= q + 1 PROVE FALSE OBVIOUS
    <2>2. PAGE_SIZE * d >= PAGE_SIZE * (q + 1) BY <2>1, <1>1, <1>2, SMT
    <2> QED BY <2>2, <1>1, <1>2, SMT
<1>4. ~(d <= q - 1)
    <2>1. SUFFICES ASSUME d <= q - 1 PROVE FALSE OBVIOUS
    <2>2. PAGE_SIZE * d <= PAGE_SIZE * (q - 1) BY <2>1, <1>1, <1>2, SMT
    <2> QED BY <2>2, <1>1, <1>2, SMT
<1> QED BY <1>1, <1>2, <1>3, <1>4, SMT

\* Under the client contract, a free_frame call that passes the four checks
\* names a frame the client owns.
LEMMA ValidFreeOwned ==
    ASSUME ~StrayFrees, PAGE_SIZE > 1, allocated \subseteq Frames,
           NEW addr \in FreeArgs, FreeFrameValid(pmm, addr)
    PROVE  (addr - PMM_RAM_BASE) \div PAGE_SIZE \in allocated
<1> DEFINE i == (addr - PMM_RAM_BASE) \div PAGE_SIZE
<1>1. i \in frame_bitmap BY DEF FreeFrameValid, pmm
<1>2. CASE \E f \in allocated \cup (Frames \ frame_bitmap) : addr = FrameAddr(f)
    <2>1. PICK f \in allocated \cup (Frames \ frame_bitmap) : addr = FrameAddr(f)
        BY <1>2
    <2>2. f \in Nat BY DEF Frames
    <2>3. i = f BY <2>1, <2>2, FrameIndex
    <2> QED BY <1>1, <2>1, <2>3
<1>3. CASE addr \in {NULL, PMM_RAM_BASE - PAGE_SIZE, PMM_MAX_ADDRESS}
    BY <1>3 DEF FreeFrameValid, NULL
<1>4. CASE addr = PMM_RAM_BASE + 1
    <2>1. (PMM_RAM_BASE + 1) % PAGE_SIZE = 1 BY UnalignedProbe
    <2> QED BY <1>4, <2>1 DEF FreeFrameValid, pmm
<1> QED BY <1>2, <1>3, <1>4 DEF FreeArgs

\* Frames are handed out only after boot, and only used frames are owned.
Owned ==
    /\ ~pmm_ready => allocated = {}
    /\ pmm_ready => allocated \subseteq frame_bitmap

\* TotalAccount needs FreeCount (alloc_frame pays exactly the frames it
\* takes) and Owned (a frame handed out is not handed out again, and
\* free_frame only takes back owned frames).
AInv == IInv /\ Owned /\ TotalAccount

LEMMA AInvInit == Init => AInv
<1> SUFFICES ASSUME Init PROVE AInv
    OBVIOUS
<1>1. IInv BY IInvInit
<1>2. Owned BY DEF Init, Owned
<1>3. TotalAccount BY DEF Init, TotalAccount
<1> QED BY <1>1, <1>2, <1>3 DEF AInv

\* Every step keeps AInv, for a client that frees only frames it owns.
LEMMA AInvStep ==
    ASSUME ~StrayFrees, PAGE_SIZE > 1
    PROVE  AInv /\ [Next]_vars => AInv'
<1> SUFFICES ASSUME AInv, [Next]_vars PROVE AInv'
    OBVIOUS
<1>0. /\ IInv'
      /\ IsFiniteSet(allocated) /\ Cardinality(allocated) \in Nat
      /\ total_memory \in Nat /\ free_memory \in Nat
    BY IInvStep, SubsetFinite DEF AInv, IInv, TypeOK
<1>1. CASE FrameAllocInit
    <2>1. allocated = {} /\ allocated' = {}
        BY <1>1 DEF FrameAllocInit, AInv, Owned
    <2>2. total_memory' = free_memory'
        BY <1>1, InitTotal DEF FrameAllocInit, SetPMM
    <2>3. Cardinality(allocated') = 0 BY <2>1, FS_EmptySet
    <2>4. Owned' BY <2>1 DEF Owned
    <2>5. TotalAccount'
        <3>1. free_memory' \in Nat BY <1>0 DEF IInv, TypeOK
        <3>2. PAGE_SIZE * Cardinality(allocated') = 0 BY <2>3
        <3>3. total_memory' = free_memory' + PAGE_SIZE * Cardinality(allocated')
            BY <2>2, <3>1, <3>2
        <3> QED BY <3>3 DEF TotalAccount
    <2> QED BY <1>0, <2>4, <2>5 DEF AInv
<1>2. CASE AllocFrame
    <2> DEFINE L == LowestFree(pmm, 1)
    <2>1. pmm_ready /\ pmm_ready' BY <1>2 DEF AllocFrame
    <2>2. /\ frame_bitmap' = frame_bitmap \cup L
          /\ total_memory' = total_memory
          /\ free_memory' = free_memory - PAGE_SIZE * Cardinality(L)
          /\ allocated' = allocated \cup L
        BY <1>2 DEF AllocFrame, alloc_frames, SetPMM, pmm
    <2>3. L \subseteq Frames \ frame_bitmap BY DEF LowestFree, pmm
    <2>4. allocated \subseteq frame_bitmap BY <2>1 DEF AInv, Owned
    <2>5. allocated \cap L = {} BY <2>3, <2>4
    <2>6. IsFiniteSet(L) /\ Cardinality(L) \in Nat BY <2>3, SubsetFinite
    <2>7. Cardinality(allocated \cup L) = Cardinality(allocated) + Cardinality(L)
        <3>1. Cardinality(allocated \cap L) = 0 BY <2>5, FS_EmptySet
        <3>2. Cardinality(allocated \cup L)
                = Cardinality(allocated) + Cardinality(L) - Cardinality(allocated \cap L)
            BY <1>0, <2>6, FS_Union
        <3> QED BY <1>0, <2>6, <3>1, <3>2
    <2>8. Owned' BY <2>1, <2>2, <2>4 DEF Owned
    <2>9. TotalAccount'
        <3>1. total_memory = free_memory + PAGE_SIZE * Cardinality(allocated)
            BY <2>1 DEF AInv, TotalAccount
        <3> QED BY <1>0, <2>2, <2>6, <2>7, <3>1 DEF TotalAccount
    <2> QED BY <1>0, <2>8, <2>9 DEF AInv
<1>3. ASSUME NEW addr \in FreeArgs, FreeFrame(addr) PROVE AInv'
    <2>1. pmm_ready /\ pmm_ready' BY <1>3 DEF FreeFrame
    <2>2. allocated \subseteq frame_bitmap BY <2>1 DEF AInv, Owned
    <2>3. CASE FreeFrameValid(pmm, addr)
        <3> DEFINE i == (addr - PMM_RAM_BASE) \div PAGE_SIZE
        <3>1. i \in allocated
            BY <2>3, ValidFreeOwned DEF AInv, IInv, TypeOK
        <3>2. /\ frame_bitmap' = frame_bitmap \ {i}
              /\ total_memory' = total_memory
              /\ free_memory' = free_memory + PAGE_SIZE
              /\ allocated' = allocated \ {i}
            BY <1>3, <2>3 DEF FreeFrame, free_frame, SetPMM, pmm
        <3>3. Cardinality(allocated \ {i}) = Cardinality(allocated) - 1
            BY <1>0, <3>1, FS_RemoveElement
        <3>4. Owned' BY <2>1, <2>2, <3>2 DEF Owned
        <3>5. TotalAccount'
            <4>1. total_memory = free_memory + PAGE_SIZE * Cardinality(allocated)
                BY <2>1 DEF AInv, TotalAccount
            <4>2. Cardinality(allocated) >= 1
                BY <1>0, <3>1, FS_EmptySet, FS_CardinalityType
            <4> QED BY <1>0, <3>2, <3>3, <4>1, <4>2 DEF TotalAccount
        <3> QED BY <1>0, <3>4, <3>5 DEF AInv
    <2>4. CASE ~FreeFrameValid(pmm, addr)
        <3>1. UNCHANGED <<frame_bitmap, total_memory, free_memory, allocated>>
            BY <1>3, <2>4 DEF FreeFrame, free_frame, SetPMM, pmm
        <3> QED BY <1>0, <2>1, <3>1 DEF AInv, Owned, TotalAccount
    <2> QED BY <2>3, <2>4
<1>4. CASE UNCHANGED vars
    BY <1>0, <1>4 DEF vars, AInv, Owned, TotalAccount
<1> QED BY <1>1, <1>2, <1>3, <1>4 DEF Next

(***************************************************************************)
(* frames alloc_frame gave it (the contract StrayFrees = FALSE) and        *)
(* frames alloc_frame gave it (the contract StrayFrees = FALSE) and  *)
(* pages of more than one byte: after frame_alloc_init, total_memory is     *)
(* free_memory plus the pages handed out and not returned.                  *)
(***************************************************************************)
THEOREM TotalAccountInvariant ==
    ASSUME ~StrayFrees, PAGE_SIZE > 1
    PROVE  Spec => []TotalAccount
<1>1. AInv => TotalAccount BY DEF AInv
<1>2. AInv /\ [Next]_vars => AInv' BY AInvStep
<1> QED BY <1>1, <1>2, AInvInit, PTL DEF Spec

-----------------------------------------------------------------------------
(***************************************************************************)
(* Reservation: the kernel's and the bitmap's frames.                       *)
(***************************************************************************)

\* Bounds on the frame number x \div PAGE_SIZE of an offset x.
LEMMA DivBounds ==
    ASSUME NEW x \in Nat, NEW f \in Nat
    PROVE  /\ x < (f + 1) * PAGE_SIZE => x \div PAGE_SIZE <= f
           /\ f * PAGE_SIZE <= x => f <= x \div PAGE_SIZE
<1> DEFINE d == x \div PAGE_SIZE
           r == x % PAGE_SIZE
<1>1. x = PAGE_SIZE * d + r /\ 0 <= r /\ r < PAGE_SIZE /\ d \in Nat BY SMT
<1>2. ASSUME x < (f + 1) * PAGE_SIZE PROVE d <= f
    <2>1. SUFFICES ASSUME d >= f + 1 PROVE FALSE BY <1>1
    <2>2. PAGE_SIZE * d >= PAGE_SIZE * (f + 1) BY <2>1, <1>1, SMT
    <2> QED BY <1>1, <1>2, <2>2, SMT
<1>3. ASSUME f * PAGE_SIZE <= x PROVE f <= d
    <2>1. SUFFICES ASSUME d <= f - 1 PROVE FALSE BY <1>1
    <2>2. PAGE_SIZE * d <= PAGE_SIZE * (f - 1) BY <2>1, <1>1, SMT
    <2> QED BY <1>1, <1>3, <2>2, SMT
<1> QED BY <1>2, <1>3

\* mark_range_used(lo, hi - lo) marks every frame holding a byte of
\* [lo, hi), when the range starts in RAM: the start rounds down and the
\* end rounds up.
LEMMA CoverFrame ==
    ASSUME NEW lo \in Nat, NEW hi \in Nat, PMM_RAM_BASE <= lo, lo <= hi,
           NEW f \in Frames, Overlaps(f, lo, hi)
    PROVE  f \in FrameRange(lo, hi - lo)
<1> DEFINE s == (lo - PMM_RAM_BASE) \div PAGE_SIZE
           e == (hi - 1 - PMM_RAM_BASE) \div PAGE_SIZE
<1>1. f \in Nat /\ f <= NFrames - 1 BY DEF Frames
<1>2. lo - PMM_RAM_BASE < (f + 1) * PAGE_SIZE BY <1>1 DEF Overlaps, FrameAddr
<1>3. s <= f BY <1>1, <1>2, DivBounds
<1>4. hi > PMM_RAM_BASE /\ f * PAGE_SIZE <= hi - 1 - PMM_RAM_BASE
    BY <1>1 DEF Overlaps, FrameAddr
<1>5. f <= e BY <1>1, <1>4, DivBounds
<1>6. FrameRange(lo, hi - lo) = s .. MinOf(e, NFrames - 1)
    BY <1>1, <1>3, <1>4 DEF FrameRange
<1> QED BY <1>1, <1>3, <1>5, <1>6 DEF MinOf

\* frame_alloc_init leaves the kernel's and the bitmap's frames used.
LEMMA InitReserved ==
    ASSUME PMM_RAM_BASE <= KernelStart, PMM_RAM_BASE <= BitmapStart
    PROVE  ReservedFrames \subseteq FrameAllocInitState.bitmap
<1> DEFINE s0 == [bitmap |-> Frames, total |-> 0, free |-> 0,
                  highest |-> PMM_RAM_BASE]
           s1 == mark_range_free(s0, PMM_RAM_BASE, NFrames * PAGE_SIZE)
           s2 == mark_range_used(s1, KernelStart, KernelEnd - KernelStart)
<1>1. s1 \in PState /\ s2 \in PState
    <2>1. s0 \in PState BY DEF PState
    <2>2. s1 \in PState BY <2>1, MarkFree
    <2>3. KernelEnd - KernelStart \in Nat OBVIOUS
    <2> QED BY <2>1, <2>2, <2>3, MarkUsed
<1>2. FrameAllocInitState.bitmap
        = (s1.bitmap \cup FrameRange(KernelStart, KernelEnd - KernelStart))
          \cup FrameRange(BitmapStart, BitmapSize)
    BY <1>1 DEF FrameAllocInitState, mark_range_used, PState
<1>3. ASSUME NEW f \in Frames, Overlaps(f, KernelStart, KernelEnd)
      PROVE  f \in FrameRange(KernelStart, KernelEnd - KernelStart)
    BY <1>3, CoverFrame
<1>4. ASSUME NEW f \in Frames, Overlaps(f, BitmapStart, BitmapStart + BitmapSize)
      PROVE  f \in FrameRange(BitmapStart, BitmapSize)
    <2>1. (BitmapStart + BitmapSize) - BitmapStart = BitmapSize OBVIOUS
    <2> QED BY <1>4, <2>1, CoverFrame
<1> QED BY <1>2, <1>3, <1>4 DEF ReservedFrames

\* KernelReserved rests on AInv: only owned frames are freed, and an owned
\* frame was clear when alloc_frame took it.
RInv == AInv /\ KernelReserved

LEMMA RInvInit == Init => RInv
<1> SUFFICES ASSUME Init PROVE RInv
    OBVIOUS
<1>1. AInv BY AInvInit
<1>2. KernelReserved BY DEF Init, KernelReserved
<1> QED BY <1>1, <1>2 DEF RInv

LEMMA RInvStep ==
    ASSUME ~StrayFrees, PAGE_SIZE > 1,
           PMM_RAM_BASE <= KernelStart, PMM_RAM_BASE <= BitmapStart
    PROVE  RInv /\ [Next]_vars => RInv'
<1> SUFFICES ASSUME RInv, [Next]_vars PROVE RInv'
    OBVIOUS
<1>0. AInv' BY AInvStep DEF RInv
<1>1. CASE FrameAllocInit
    <2>1. frame_bitmap' = FrameAllocInitState.bitmap
        BY <1>1 DEF FrameAllocInit, SetPMM
    <2>2. allocated' = {} BY <1>1 DEF FrameAllocInit, RInv, AInv, Owned
    <2>3. KernelReserved' BY <2>1, <2>2, InitReserved DEF KernelReserved
    <2> QED BY <1>0, <2>3 DEF RInv
<1>2. CASE AllocFrame
    <2> DEFINE L == LowestFree(pmm, 1)
    <2>1. pmm_ready
          /\ frame_bitmap' = frame_bitmap \cup L
          /\ allocated' = allocated \cup L
        BY <1>2 DEF AllocFrame, alloc_frames, SetPMM, pmm
    <2>2. L \cap frame_bitmap = {} BY DEF LowestFree, pmm
    <2>3. ReservedFrames \subseteq frame_bitmap
          /\ ReservedFrames \cap allocated = {}
        BY <2>1 DEF RInv, KernelReserved
    <2>4. KernelReserved' BY <2>1, <2>2, <2>3 DEF KernelReserved
    <2> QED BY <1>0, <2>4 DEF RInv
<1>3. ASSUME NEW addr \in FreeArgs, FreeFrame(addr) PROVE RInv'
    <2>1. pmm_ready BY <1>3 DEF FreeFrame
    <2>2. ReservedFrames \subseteq frame_bitmap
          /\ ReservedFrames \cap allocated = {}
        BY <2>1 DEF RInv, KernelReserved
    <2>3. CASE FreeFrameValid(pmm, addr)
        <3> DEFINE i == (addr - PMM_RAM_BASE) \div PAGE_SIZE
        <3>1. i \in allocated
            BY <2>3, ValidFreeOwned DEF RInv, AInv, IInv, TypeOK
        <3>2. frame_bitmap' = frame_bitmap \ {i} /\ allocated' = allocated \ {i}
            BY <1>3, <2>3 DEF FreeFrame, free_frame, SetPMM, pmm
        <3>3. KernelReserved' BY <2>2, <3>1, <3>2 DEF KernelReserved
        <3> QED BY <1>0, <3>3 DEF RInv
    <2>4. CASE ~FreeFrameValid(pmm, addr)
        <3>1. UNCHANGED <<frame_bitmap, allocated, pmm_ready>>
            BY <1>3, <2>4 DEF FreeFrame, free_frame, SetPMM, pmm
        <3> QED BY <1>0, <3>1 DEF RInv, KernelReserved
    <2> QED BY <2>3, <2>4
<1>4. CASE UNCHANGED vars
    BY <1>0, <1>4 DEF vars, RInv, KernelReserved
<1> QED BY <1>1, <1>2, <1>3, <1>4 DEF Next

(***************************************************************************)
(* I4/I5 for every configuration whose kernel image and bitmap lie in RAM,  *)
(* for a client that frees only its own frames: the frames of the kernel   *)
(* and of the bitmap stay marked used and alloc_frame never returns one.    *)
(***************************************************************************)
THEOREM KernelReservedInvariant ==
    ASSUME ~StrayFrees, PAGE_SIZE > 1,
           PMM_RAM_BASE <= KernelStart, PMM_RAM_BASE <= BitmapStart
    PROVE  Spec => []KernelReserved
<1>1. RInv => KernelReserved BY DEF RInv
<1>2. RInv /\ [Next]_vars => RInv' BY RInvStep
<1> QED BY <1>1, <1>2, RInvInit, PTL DEF Spec

=============================================================================
