------------------------------- MODULE KHeap -------------------------------
(***************************************************************************)
(* The kernel heap of src/memory/kheap.c, over the frame allocator.        *)
(*                                                                         *)
(* Memory is modelled where the heap keeps its state: the block headers.   *)
(* hdr[a] is the heap_block_t that a header at address a holds (all-zero   *)
(* where none was written, or where memset cleared it).  Addresses are the *)
(* ALIGNMENT-aligned physical addresses of the managed window; a header    *)
(* is destroyed when a memset covers its first byte.  Payload bytes are    *)
(* not modelled.  Every operation is one step: the kernel is single-       *)
(* threaded, and kmalloc/kfree/expand_heap run to completion.             *)
(*                                                                         *)
(* The operators below work on a heap record h = [hdr, head, start, end]   *)
(* (hdr and the statics free_list_head, heap_start, heap_end) and a PMM   *)
(* record s, and follow the C statement by statement: every read is from  *)
(* the state the preceding writes left, as the pointer code reads memory.  *)
(***************************************************************************)
EXTENDS PMM, Sequences

CONSTANTS
    HEAP_HEADER_SIZE,  \* sizeof(heap_block_t)
    ALIGNMENT,         \* sizeof(void*): kmalloc's rounding
    Requests,          \* sizes the shell's "alloc <size>" passes to kmalloc
    DoubleFrees,       \* may the shell's "free <addr>" repeat an address?
    MaxCalls           \* bound on the shell commands of a run

ASSUME AlignAssumption == ALIGNMENT \in Nat \ {0} /\ PAGE_SIZE % ALIGNMENT = 0
                          /\ PMM_RAM_BASE % ALIGNMENT = 0
ASSUME HeaderAssumption == HEAP_HEADER_SIZE \in Nat \ {0}
                           /\ HEAP_HEADER_SIZE % ALIGNMENT = 0
                           /\ HEAP_HEADER_SIZE < PAGE_SIZE
\* cmd_alloc rejects size 0 before calling kmalloc.
ASSUME RequestAssumption == Requests \subseteq Nat \ {0}
ASSUME DoubleFreeAssumption == DoubleFrees \in BOOLEAN
ASSUME CallsAssumption == MaxCalls \in Nat

HEAP_MIN_BLOCK_SIZE == 2 * HEAP_HEADER_SIZE

Addr == {a \in PMM_RAM_BASE .. PMM_MAX_ADDRESS - 1 : a % ALIGNMENT = 0}
Ptr == Addr \cup {NULL}

\* The first-fit walk of a free list that never reaches NULL: kmalloc spins.
HANG == NFrames * PAGE_SIZE + PMM_RAM_BASE + 1

Header == [size : Nat, is_free : BOOLEAN, next : Ptr, prev : Ptr,
           next_free : Ptr, prev_free : Ptr]
ZeroHeader == [size |-> 0, is_free |-> FALSE, next |-> NULL, prev |-> NULL,
               next_free |-> NULL, prev_free |-> NULL]

\* memset(lo, 0, n) as far as headers are concerned.
ZeroRange(h, lo, n) ==
    [h EXCEPT !.hdr = [a \in Addr |-> IF lo <= a /\ a < lo + n
                                      THEN ZeroHeader ELSE h.hdr[a]]]

-----------------------------------------------------------------------------
(* Free list management *)

\* Variant: the old head's prev_free is not pointed back at the new head.
AddToFreeListNoBackLink(h, b) ==
    [h EXCEPT !.hdr[b].is_free = TRUE,
              !.hdr[b].next_free = h.head,
              !.hdr[b].prev_free = NULL,
              !.head = b]

\* The old head (if any) points back at b, and b becomes the head.
LinkAtHead(h, b) ==
    [IF h.head # NULL THEN [h EXCEPT !.hdr[h.head].prev_free = b] ELSE h
     EXCEPT !.head = b]

add_to_free_list(h, b) ==
    LinkAtHead([h EXCEPT !.hdr[b].is_free = TRUE,
                         !.hdr[b].next_free = h.head,
                         !.hdr[b].prev_free = NULL], b)

\* The neighbours pf and nf of a block on the free list skip it.
SkipBack(h, pf, nf) ==
    IF nf # NULL THEN [h EXCEPT !.hdr[nf].prev_free = pf] ELSE h

UnlinkFree(h, pf, nf) ==
    SkipBack(IF pf # NULL THEN [h EXCEPT !.hdr[pf].next_free = nf]
                          ELSE [h EXCEPT !.head = nf], pf, nf)

remove_from_free_list(h, b) ==
    [UnlinkFree(h, h.hdr[b].prev_free, h.hdr[b].next_free)
        EXCEPT !.hdr[b].is_free = FALSE,
               !.hdr[b].next_free = NULL,
               !.hdr[b].prev_free = NULL]

-----------------------------------------------------------------------------
(* Merging two neighbours of the chain; shared by expand_heap and coalesce *)

Grow(h, into, gone) ==
    [h EXCEPT !.hdr[into].size = @ + h.hdr[gone].size + HEAP_HEADER_SIZE,
              !.hdr[into].next = h.hdr[gone].next]

LinkNextBack(h, into) ==
    IF h.hdr[into].next # NULL
    THEN [h EXCEPT !.hdr[h.hdr[into].next].prev = into] ELSE h

MoveEnd(h, gone, into) ==
    IF h.end = gone THEN [h EXCEPT !.end = into] ELSE h

\* Block into takes over its chain successor gone.
Absorb(h, into, gone) == MoveEnd(LinkNextBack(Grow(h, into, gone), into), gone, into)

-----------------------------------------------------------------------------
(* Heap expansion *)

pages_needed(min_expand_size) ==
    LET p == (min_expand_size + HEAP_HEADER_SIZE + PAGE_SIZE - 1) \div PAGE_SIZE
    IN  IF p = 0 THEN 1 ELSE p

\* The frames of a set of frame numbers in ascending order, the order in
\* which successive alloc_frame calls return them.
FrameSeq(got) ==
    [i \in 1 .. Cardinality(got) |->
        FrameAddr(CHOOSE f \in got : Cardinality({g \in got : g < f}) = i - 1)]

NewFrames(s, k) == FrameSeq(LowestFree(s, k))

\* Each frame, zeroed by alloc_frame, becomes a free block of one page, linked
\* to its neighbours in F (next_free/prev_free stay zero).
FrameHeaders(h, F) ==
    LET m == Len(F)
        NewHeader(i) ==
            [ZeroHeader EXCEPT !.size = PAGE_SIZE - HEAP_HEADER_SIZE,
                               !.is_free = TRUE,
                               !.next = IF i < m THEN F[i + 1] ELSE NULL,
                               !.prev = IF i = 1 THEN h.end ELSE F[i - 1]]
        InNew(a) == \E i \in 1 .. m : F[i] <= a /\ a < F[i] + PAGE_SIZE
    IN  [h EXCEPT !.hdr = [a \in Addr |->
            IF \E i \in 1 .. m : F[i] = a
            THEN NewHeader(CHOOSE i \in 1 .. m : F[i] = a)
            ELSE IF InNew(a) THEN ZeroHeader ELSE h.hdr[a]]]

\* The run F follows heap_end (or starts the heap) and ends it.
AppendRun(h, F) ==
    [IF h.end # NULL THEN [h EXCEPT !.hdr[h.end].next = F[1]] ELSE h
     EXCEPT !.start = IF h.end = NULL THEN F[1] ELSE @,
            !.end = F[Len(F)]]

\* The loop of expand_heap over the frames it obtained.
LinkFrames(h, F) == IF Len(F) = 0 THEN h ELSE AppendRun(FrameHeaders(h, F), F)

\* Merge the first new block into a free predecessor, then put the result
\* on the free list.
ExpandCoalesce(h, nb) ==
    LET pb == h.hdr[nb].prev
    IN  IF pb # NULL /\ h.hdr[pb].is_free
        THEN add_to_free_list(Absorb(remove_from_free_list(h, pb), pb, nb), pb)
        ELSE add_to_free_list(h, nb)

\* k pages wanted, F obtained: the heap, the PMM after the calls, the result.
ExpandFrames(h, s, k, F) ==
    [heap |-> IF Len(F) < k THEN LinkFrames(h, F)
              ELSE ExpandCoalesce(LinkFrames(h, F), F[1]),
     pmm  |-> alloc_frames(s, k),
     ok   |-> Len(F) = k]

expand_heap(h, s, min_expand_size) ==
    LET k == pages_needed(min_expand_size)
    IN  ExpandFrames(h, s, k, NewFrames(s, k))

-----------------------------------------------------------------------------
(* Coalescing and kfree *)

\* Variant: forward coalescing without the next->is_free test.
CoalesceForwardNoFreeTest(h, cur) ==
    LET nb == h.hdr[cur].next
    IN  IF nb # NULL
        THEN ZeroRange(Absorb(remove_from_free_list(h, nb), cur, nb), nb, HEAP_HEADER_SIZE)
        ELSE h

CoalesceForward(h, cur) ==
    LET nb == h.hdr[cur].next
    IN  IF nb # NULL /\ h.hdr[nb].is_free
        THEN ZeroRange(Absorb(remove_from_free_list(h, nb), cur, nb), nb, HEAP_HEADER_SIZE)
        ELSE h

CoalesceBackward(h, cur) ==
    LET pb == h.hdr[cur].prev
    IN  IF pb # NULL /\ h.hdr[pb].is_free
        THEN [heap  |-> ZeroRange(Absorb(remove_from_free_list(h, pb), pb, cur),
                                  cur, HEAP_HEADER_SIZE),
              block |-> pb]
        ELSE [heap |-> h, block |-> cur]

\* Both branches of kfree's last if put the coalesced block on the list.
Relist(c) == add_to_free_list(c.heap, c.block)

\* kfree(block + HEADER): the double-free check, then coalesce and re-list.
kfree(h, b) ==
    IF h.hdr[b].is_free THEN h
    ELSE Relist(CoalesceBackward(CoalesceForward([h EXCEPT !.hdr[b].is_free = TRUE], b), b))

-----------------------------------------------------------------------------
(* kmalloc *)

AlignUp(size) == ((size + ALIGNMENT - 1) \div ALIGNMENT) * ALIGNMENT

\* At most this many steps along a list of headers: a walk that has not
\* met NULL by then has met a header twice, and cycles.
WalkBound == Cardinality(Addr) + 1

\* The pointers met from p0 along field fld: the sequence ends with NULL when
\* the walk ends, and is WalkBound + 1 headers long when it cycles.
Path(h, p0, fld) ==
    LET w[k \in 0 .. WalkBound, a \in Ptr] ==
            IF a = NULL THEN <<NULL>>
            ELSE IF k = 0 THEN <<a>>
            ELSE <<a>> \o w[k - 1, h.hdr[a][fld]]
    IN  w[WalkBound, p0]

Ends(p) == p[Len(p)] = NULL
SeqRange(p) == {p[i] : i \in 1 .. Len(p)}
Nodes(p) == IF Ends(p) THEN SubSeq(p, 1, Len(p) - 1) ELSE p

\* The first block of walk p with room for size: the block, NULL when the
\* walk reaches the end, HANG when it cycles without a fit.
FitOn(h, size, p) ==
    LET n == Len(Nodes(p))
        Fits(i) == h.hdr[p[i]].size >= size
    IN  IF \E i \in 1 .. n : Fits(i)
        THEN p[CHOOSE i \in 1 .. n : Fits(i) /\ \A j \in 1 .. i - 1 : ~Fits(j)]
        ELSE IF Ends(p) THEN NULL ELSE HANG

\* First fit along next_free from free_list_head.
FirstFit(h, size) ==
    IF h.head = NULL THEN NULL ELSE FitOn(h, size, Path(h, h.head, "next_free"))

\* The new block n at b + HEADER + size takes b's tail and successor.
SplitOff(h, b, n, size) ==
    [h EXCEPT !.hdr[n].size = h.hdr[b].size - size - HEAP_HEADER_SIZE,
              !.hdr[n].is_free = TRUE,
              !.hdr[n].next = h.hdr[b].next,
              !.hdr[n].prev = b]

\* Variant: the split leaves the old successor's prev pointing at b.
SplitNoPrevFix(h, b, size) ==
    LET n  == b + HEAP_HEADER_SIZE + size
        h1 == SplitOff(h, b, n, size)
    IN  add_to_free_list([IF h1.hdr[n].next # NULL THEN h1 ELSE [h1 EXCEPT !.end = n]
                          EXCEPT !.hdr[b].size = size, !.hdr[b].next = n], n)

LinkSuccessor(h, n) ==
    IF h.hdr[n].next # NULL
    THEN [h EXCEPT !.hdr[h.hdr[n].next].prev = n]
    ELSE [h EXCEPT !.end = n]

Split(h, b, size) ==
    LET n == b + HEAP_HEADER_SIZE + size
    IN  add_to_free_list([LinkSuccessor(SplitOff(h, b, n, size), n)
                          EXCEPT !.hdr[b].size = size, !.hdr[b].next = n], n)

\* b is allocated: is_free cleared and its payload zeroed.
Finish(h, b) ==
    ZeroRange([h EXCEPT !.hdr[b].is_free = FALSE], b + HEAP_HEADER_SIZE, h.hdr[b].size)

\* From "remove_from_free_list(best_fit)" to the memset of the payload.
TakeBlock(h, b, size) ==
    LET Taken(h1) == Finish(IF h1.hdr[b].size >= size + HEAP_MIN_BLOCK_SIZE
                            THEN Split(h1, b, size) ELSE h1, b)
    IN  Taken(remove_from_free_list(h, b))

\* The retry after expand_heap returned e, fit2 the second first fit.
Retry(e, size, fit2) ==
    CASE ~e.ok \/ fit2 = NULL -> [heap |-> e.heap, pmm |-> e.pmm, ret |-> NULL]
      [] fit2 = HANG -> [heap |-> e.heap, pmm |-> e.pmm, ret |-> HANG]
      [] OTHER -> [heap |-> TakeBlock(e.heap, fit2, size), pmm |-> e.pmm, ret |-> fit2]

\* kmalloc with the aligned size and the first fit found.
KmallocFit(h, s, size, fit) ==
    CASE fit = HANG -> [heap |-> h, pmm |-> s, ret |-> HANG]
      [] fit # NULL -> [heap |-> TakeBlock(h, fit, size), pmm |-> s, ret |-> fit]
      [] OTHER -> LET Retried(e) == Retry(e, size, FirstFit(e.heap, size))
                  IN  Retried(expand_heap(h, s, size + HEAP_HEADER_SIZE))

\* kmalloc(req): the heap, the PMM, and the block returned (NULL or HANG).
kmalloc(h, s, req) == KmallocFit(h, s, AlignUp(req), FirstFit(h, AlignUp(req)))

-----------------------------------------------------------------------------
VARIABLES
    hdr, free_list_head, heap_start, heap_end,
    heap_ready,     \* kheap_init has run
    hung,           \* a kmalloc is spinning on a cyclic free list
    live,           \* ghost: block -> rounded size, for pointers the shell holds
    issued,         \* ghost: every block kmalloc returned (kept with DoubleFrees)
    calls           \* shell commands issued so far (bounded by MaxCalls)

heap_vars == <<hdr, free_list_head, heap_start, heap_end>>
all_vars == <<frame_bitmap, total_memory, free_memory, highest_usable_address,
              pmm_ready, allocated, alloc_result, hdr, free_list_head, heap_start, heap_end,
              heap_ready, hung, live, issued, calls>>

heap == [hdr |-> hdr, head |-> free_list_head, start |-> heap_start, end |-> heap_end]

SetHeap(h) ==
    /\ hdr' = h.hdr
    /\ free_list_head' = h.head
    /\ heap_start' = h.start
    /\ heap_end' = h.end

\* The heap takes its frames from the PMM; they count as allocated.  The
\* ghost alloc_result records direct calls of alloc_frame only.
SetPMMFor(s) ==
    /\ SetPMM(s)
    /\ allocated' = allocated \cup (s.bitmap \ frame_bitmap)
    /\ UNCHANGED alloc_result

HeapInit ==
    /\ Init
    /\ hdr = [a \in Addr |-> ZeroHeader]
    /\ free_list_head = NULL /\ heap_start = NULL /\ heap_end = NULL
    /\ heap_ready = FALSE
    /\ hung = FALSE
    /\ live = [x \in {} |-> 0]
    /\ issued = {}
    /\ calls = 0

\* kernel_main: frame_alloc_init(params)
BootPMM ==
    /\ FrameAllocInit
    /\ UNCHANGED <<hdr, free_list_head, heap_start, heap_end, heap_ready, hung,
                   live, issued, calls>>

\* The heap and the PMM a call of expand_heap or kmalloc leaves behind.
SetResult(r) == SetHeap(r.heap) /\ SetPMMFor(r.pmm)

\* kernel_main: kheap_init()
KheapInit ==
    /\ pmm_ready /\ ~heap_ready
    /\ SetResult(expand_heap([hdr |-> hdr, head |-> NULL, start |-> NULL, end |-> NULL],
                             pmm, PAGE_SIZE * 4))
    /\ heap_ready' = TRUE
    /\ UNCHANGED <<pmm_ready, hung, live, issued, calls>>

\* What the shell keeps of kmalloc's result r for "alloc <req>".
KmallocDone(r, req) ==
    /\ SetResult(r)
    /\ hung' = (r.ret = HANG)
    /\ live' = IF r.ret \in Addr
               THEN [x \in DOMAIN live \cup {r.ret} |->
                        IF x = r.ret THEN AlignUp(req) ELSE live[x]]
               ELSE live
    /\ issued' = IF r.ret \in Addr /\ DoubleFrees THEN issued \cup {r.ret} ELSE issued

\* The shell's "alloc <size>".
Kmalloc(req) ==
    /\ heap_ready /\ ~hung /\ calls < MaxCalls
    /\ calls' = calls + 1
    /\ KmallocDone(kmalloc(heap, pmm, req), req)
    /\ UNCHANGED <<pmm_ready, heap_ready>>

\* The shell's "free <addr>" on a pointer kmalloc returned.
FreeTargets == IF DoubleFrees THEN issued ELSE DOMAIN live

Kfree(b) ==
    /\ heap_ready /\ ~hung /\ calls < MaxCalls
    /\ calls' = calls + 1
    /\ SetHeap(kfree(heap, b))
    /\ live' = [x \in DOMAIN live \ {b} |-> live[x]]
    /\ UNCHANGED <<frame_bitmap, total_memory, free_memory, highest_usable_address,
                   pmm_ready, allocated, alloc_result, heap_ready, hung, issued>>

HeapNext ==
    \/ BootPMM
    \/ KheapInit
    \/ \E req \in Requests : Kmalloc(req)
    \/ \E b \in FreeTargets : Kfree(b)

HeapSpec == HeapInit /\ [][HeapNext]_all_vars

-----------------------------------------------------------------------------
\* The physical chain from heap_start and the free list from free_list_head.
ChainPath == Path(heap, heap_start, "next")
FreePath == Path(heap, free_list_head, "next_free")
ChainBlocks == SeqRange(Nodes(ChainPath))
FreeListBlocks == SeqRange(Nodes(FreePath))
\* The bytes (aligned addresses) a block's header and payload occupy.
Extent(b) == {a \in Addr : b <= a /\ a < b + HEAP_HEADER_SIZE + hdr[b].size}
FrameOf(a) == (a - PMM_RAM_BASE) \div PAGE_SIZE

HeapTypeOK ==
    /\ TypeOK
    /\ hdr \in [Addr -> Header]
    /\ free_list_head \in Ptr /\ heap_start \in Ptr /\ heap_end \in Ptr
    /\ heap_ready \in BOOLEAN /\ hung \in BOOLEAN
    /\ calls \in 0 .. MaxCalls
    /\ DOMAIN live \subseteq Addr /\ issued \subseteq Addr
    /\ \A b \in DOMAIN live : live[b] \in Nat

(***************************************************************************)
(* H1/H2/P6: the physical chain from heap_start ends at heap_end, prev is  *)
(* the inverse of next, each block starts where its predecessor's payload   *)
(* ends, and the blocks tile exactly the frames the heap took from the PMM. *)
(* Split, both coalesce directions and expand_heap's relinking all rewrite *)
(* these links.                                                             *)
(***************************************************************************)
ChainIntact ==
    heap_ready =>
    LET c == Nodes(ChainPath)
        n == Len(c)
    IN
    /\ Ends(ChainPath)
    /\ n > 0 => /\ hdr[heap_start].prev = NULL
                /\ c[n] = heap_end
    /\ \A i \in 2 .. n :
          /\ hdr[c[i]].prev = c[i - 1]
          /\ c[i] = c[i - 1] + HEAP_HEADER_SIZE + hdr[c[i - 1]].size
    \* with the adjacency above: the extents are one run of bytes from the
    \* lowest heap frame to the end of the highest, and no frame is missing
    /\ n > 0 =>
        LET lo == CHOOSE f \in allocated : \A g \in allocated : f <= g
            hi == CHOOSE f \in allocated : \A g \in allocated : g <= f
        IN  /\ allocated = lo .. hi
            /\ heap_start = FrameAddr(lo)
            /\ heap_end + HEAP_HEADER_SIZE + hdr[heap_end].size = FrameAddr(hi + 1)

(***************************************************************************)
(* The free list is a proper doubly linked list of free chain blocks: the  *)
(* walk from free_list_head ends (so kmalloc's first-fit loop terminates),  *)
(* every node is a block of the chain marked free, and prev_free mirrors    *)
(* next_free.                                                               *)
(***************************************************************************)
FreeListSound ==
    heap_ready =>
    LET f  == Nodes(FreePath)
        cb == ChainBlocks
    IN
    /\ Ends(FreePath)
    /\ \A i \in 1 .. Len(f) :
          /\ f[i] \in cb
          /\ hdr[f[i]].is_free
          /\ hdr[f[i]].prev_free = IF i = 1 THEN NULL ELSE f[i - 1]

(***************************************************************************)
(* Every pointer the shell holds is an allocated block of the chain, not   *)
(* free, with at least the (rounded) size it asked for; with ChainIntact    *)
(* this makes live allocations pairwise disjoint.                           *)
(***************************************************************************)
LiveBlocks ==
    LET cb == ChainBlocks IN
    \A b \in DOMAIN live :
        /\ b \in cb
        /\ ~hdr[b].is_free
        /\ hdr[b].size >= live[b]

(***************************************************************************)
(* A live allocation lies inside frames the heap obtained from alloc_frame: *)
(* kmalloc never hands out (and memset never clears) the kernel image or    *)
(* any other frame the PMM did not give the heap.                           *)
(***************************************************************************)
LiveInHeapFrames ==
    \A b \in DOMAIN live : \A a \in Extent(b) : FrameOf(a) \in allocated

(***************************************************************************)
(* H3: is_free is the sole truth for free-list membership: every block of  *)
(* the chain marked free is reachable from free_list_head.                  *)
(***************************************************************************)
FreeListComplete ==
    heap_ready => LET fb == FreeListBlocks IN
                  \A b \in ChainBlocks : hdr[b].is_free => b \in fb

(***************************************************************************)
(* kmalloc(req) succeeds whenever the PMM has the frames the expansion it   *)
(* would make needs (the comment at kheap.c:219: after a successful        *)
(* expansion the re-walk "should not" fail).                                *)
(***************************************************************************)
KmallocServes ==
    [][\A req \in Requests :
          (/\ Kmalloc(req)
           /\ Cardinality(Frames \ frame_bitmap)
                >= pages_needed(AlignUp(req) + HEAP_HEADER_SIZE))
          => DOMAIN live' # DOMAIN live]_all_vars

=============================================================================
