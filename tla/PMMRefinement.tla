---------------------------- MODULE PMMRefinement ----------------------------
(***************************************************************************)
(* The frame allocator of frame_alloc.c implements the abstract allocator  *)
(* FrameAllocator under the mapping of PMM.tla (pool = clear bits after    *)
(* boot, owned = frames handed out, result = frame of alloc_frame's last   *)
(* return value).  The proof rests on RInv of PMMProofs: only owned frames *)
(* are freed, owned frames are marked used, and boot reserves the kernel   *)
(* and the bitmap.                                                          *)
(***************************************************************************)
EXTENDS PMMProofs

USE PageAssumption, FramesAssumption, BaseAssumption, KernelAssumption,
    BitmapAssumption

\* A non-empty set of frames has a lowest frame.
LEMMA MinFrame ==
    ASSUME NEW T \in SUBSET Frames, T # {}
    PROVE  \E f \in T : \A g \in T : ~(g < f)
<1>1. T \subseteq Nat BY DEF Frames
<1>2. PICK x \in T : \A y \in T : ~(<<y, x>> \in OpToRel(<, Nat))
    BY <1>1, WFMin, NatLessThanWellFounded
<1> QED BY <1>1, <1>2 DEF OpToRel

(***************************************************************************)
(* alloc_frame's scan: the frames LowestFree(s, 1) are the clear frames    *)
(* with no clear frame below them.  There is one exactly when some frame   *)
(* is clear, and never two.                                                 *)
(***************************************************************************)
LEMMA FirstClear ==
    ASSUME NEW s \in PState
    PROVE  /\ LowestFree(s, 1) \subseteq Frames \ s.bitmap
           /\ LowestFree(s, 1) = {} <=> Frames \ s.bitmap = {}
           /\ \A f, g \in LowestFree(s, 1) : f = g
<1> DEFINE C == Frames \ s.bitmap
           Below(f) == {g \in C : g < f}
<1>1. ASSUME NEW f \in C PROVE f \in LowestFree(s, 1) <=> Below(f) = {}
    <2>1. IsFiniteSet(Below(f)) /\ Cardinality(Below(f)) \in Nat
        BY SubsetFinite DEF PState
    <2>2. f \in LowestFree(s, 1) <=> Cardinality(Below(f)) < 1
        BY DEF LowestFree
    <2>3. Cardinality(Below(f)) = 0 <=> Below(f) = {} BY <2>1, FS_EmptySet
    <2> QED BY <2>1, <2>2, <2>3
<1>2. LowestFree(s, 1) \subseteq C BY DEF LowestFree
<1>3. C # {} => LowestFree(s, 1) # {}
    <2>1. SUFFICES ASSUME C # {} PROVE LowestFree(s, 1) # {} OBVIOUS
    <2>2. PICK m \in C : \A g \in C : ~(g < m) BY <2>1, MinFrame
    <2>3. Below(m) = {} BY <2>2
    <2> QED BY <1>1, <2>3
<1>4. ASSUME NEW f \in LowestFree(s, 1), NEW g \in LowestFree(s, 1) PROVE f = g
    <2>1. Below(f) = {} /\ Below(g) = {} BY <1>1, <1>2
    <2>2. f \in Nat /\ g \in Nat /\ f \in C /\ g \in C BY <1>2 DEF Frames
    <2>3. ~(f < g) /\ ~(g < f) BY <2>1, <2>2
    <2> QED BY <2>2, <2>3
<1> QED BY <1>2, <1>3, <1>4

-----------------------------------------------------------------------------
(***************************************************************************)
(* Every step of frame_alloc.c, from a state satisfying RInv, is a step of *)
(* FrameAllocator or leaves its mapped state alone.                         *)
(***************************************************************************)
LEMMA RefinementStep ==
    ASSUME ~StrayFrees, PAGE_SIZE > 1,
           PMM_RAM_BASE <= KernelStart, PMM_RAM_BASE <= BitmapStart
    PROVE  RInv /\ [Next]_vars => [FA!Next]_FA!avars
<1> SUFFICES ASSUME RInv, [Next]_vars PROVE [FA!Next]_FA!avars
    OBVIOUS
<1>0. /\ pmm \in PState
      /\ allocated \subseteq Frames
      /\ pmm_ready => allocated \subseteq frame_bitmap
    BY DEF RInv, AInv, IInv, TypeOK, Owned, pmm, PState
<1>1. CASE FrameAllocInit
    <2>1. /\ ~pmm_ready /\ pmm_ready'
          /\ frame_bitmap' = FrameAllocInitState.bitmap
          /\ UNCHANGED <<allocated, alloc_result>>
        BY <1>1 DEF FrameAllocInit, SetPMM
    <2>2. FreePool' \in SUBSET (Frames \ ReservedFrames)
        BY <2>1, InitReserved DEF FreePool
    <2>3. UNCHANGED ResultFrame BY <2>1 DEF ResultFrame
    <2>4. FA!Boot BY <2>1, <2>2, <2>3 DEF FA!Boot
    <2> QED BY <2>4 DEF FA!Next
<1>2. CASE AllocFrame
    <2> DEFINE L == LowestFree(pmm, 1)
    <2>1. /\ pmm_ready /\ pmm_ready'
          /\ frame_bitmap' = frame_bitmap \cup L
          /\ allocated' = allocated \cup L
          /\ alloc_result' = IF L = {} THEN NULL
                             ELSE FrameAddr(CHOOSE f \in L : TRUE)
        BY <1>2 DEF AllocFrame, alloc_frames, SetPMM, pmm
    <2>2. /\ L \subseteq Frames \ frame_bitmap
          /\ L = {} <=> Frames \ frame_bitmap = {}
          /\ \A f, g \in L : f = g
        BY <1>0, FirstClear DEF pmm
    <2>3. CASE L = {}
        <3>1. FreePool = {} /\ UNCHANGED <<FreePool, allocated, pmm_ready>>
            BY <2>1, <2>2, <2>3 DEF FreePool
        <3>2. ResultFrame' = NFrames BY <2>1, <2>3 DEF ResultFrame
        <3>3. FA!AllocFails BY <2>1, <3>1, <3>2 DEF FA!AllocFails
        <3> QED BY <3>3 DEF FA!Next
    <2>4. CASE L # {}
        <3> DEFINE m == CHOOSE f \in L : TRUE
        <3>1. m \in L /\ L = {m} BY <2>2, <2>4
        <3>2. m \in Frames /\ m \in FreePool BY <2>1, <2>2, <3>1 DEF FreePool
        <3>3. FreePool' = FreePool \ {m} BY <2>1, <3>1 DEF FreePool
        <3>4. allocated' = allocated \cup {m} BY <2>1, <3>1
        <3>5. ResultFrame' = m
            <4>1. m \in Nat BY <3>2 DEF Frames
            <4>2. alloc_result' = FrameAddr(m) BY <2>1, <2>4
            <4>3. FrameAddr(m) # NULL BY <4>1 DEF FrameAddr, NULL
            <4>4. (FrameAddr(m) - PMM_RAM_BASE) \div PAGE_SIZE = m
                BY <4>1, FrameIndex
            <4> QED BY <4>2, <4>3, <4>4 DEF ResultFrame
        <3>6. FA!Alloc BY <2>1, <3>2, <3>3, <3>4, <3>5 DEF FA!Alloc
        <3> QED BY <3>6 DEF FA!Next
    <2> QED BY <2>3, <2>4
<1>3. ASSUME NEW addr \in FreeArgs, FreeFrame(addr) PROVE [FA!Next]_FA!avars
    <2>1. pmm_ready /\ pmm_ready' /\ UNCHANGED alloc_result
        BY <1>3 DEF FreeFrame
    <2>2. UNCHANGED ResultFrame BY <2>1 DEF ResultFrame
    <2>3. CASE FreeFrameValid(pmm, addr)
        <3> DEFINE i == (addr - PMM_RAM_BASE) \div PAGE_SIZE
        <3>1. i \in allocated BY <1>0, <2>3, ValidFreeOwned
        <3>2. frame_bitmap' = frame_bitmap \ {i} /\ allocated' = allocated \ {i}
            BY <1>3, <2>3 DEF FreeFrame, free_frame, SetPMM, pmm
        <3>3. FreePool' = FreePool \cup {i} BY <1>0, <2>1, <3>1, <3>2 DEF FreePool
        <3>4. FA!Free(i) BY <2>1, <2>2, <3>1, <3>2, <3>3 DEF FA!Free
        <3> QED BY <3>1, <3>4 DEF FA!Next
    <2>4. CASE ~FreeFrameValid(pmm, addr)
        <3>1. UNCHANGED <<frame_bitmap, allocated>>
            BY <1>3, <2>4 DEF FreeFrame, free_frame, SetPMM, pmm
        <3> QED BY <2>1, <2>2, <3>1 DEF FreePool, FA!avars
    <2> QED BY <2>3, <2>4
<1>4. CASE UNCHANGED vars
    BY <1>4 DEF vars, FA!avars, FreePool, ResultFrame
<1> QED BY <1>1, <1>2, <1>3, <1>4 DEF Next

(***************************************************************************)
(* For every configuration whose kernel image and bitmap lie in RAM, and   *)
(* for clients that free only frames they were given: frame_alloc_init,    *)
(* alloc_frame and free_frame implement the abstract allocator (boot never *)
(* pools a reserved frame, alloc_frame returns NULL only when every frame  *)
(* is used and otherwise a free frame, free_frame takes back owned frames).*)
(***************************************************************************)
THEOREM Refinement ==
    ASSUME ~StrayFrees, PAGE_SIZE > 1,
           PMM_RAM_BASE <= KernelStart, PMM_RAM_BASE <= BitmapStart
    PROVE  Spec => AllocatorRefined
<1>1. Init => FA!Init BY DEF Init, FA!Init, FreePool, ResultFrame
<1>2. RInv /\ [Next]_vars => [FA!Next]_FA!avars BY RefinementStep
<1>3. RInv /\ [Next]_vars => RInv' BY RInvStep
<1> QED BY <1>1, <1>2, <1>3, RInvInit, PTL DEF Spec, AllocatorRefined, FA!Spec

=============================================================================
