--------------------------- MODULE FrameAllocator ---------------------------
(***************************************************************************)
(* What the physical frame allocator promises its clients (spec, C1/C2),   *)
(* with no bitmap, counters or addresses: a pool of free frames that       *)
(* boot fills with frames outside the reserved ones, an allocation that    *)
(* hands out a frame of the pool and fails only when the pool is empty,    *)
(* and a free that takes back a frame the clients own.                     *)
(***************************************************************************)
CONSTANTS
    Frames,     \* the managed frames
    Reserved,   \* the frames of the kernel image and of the bitmap
    NoFrame     \* the result of a failed allocation, a value outside Frames

VARIABLES
    ready,      \* the allocator has been initialised
    pool,       \* frames free for allocation
    owned,      \* frames handed out and not given back
    result      \* the frame the last allocation returned, or NoFrame

avars == <<ready, pool, owned, result>>

Init ==
    /\ ready = FALSE
    /\ pool = {}
    /\ owned = {}
    /\ result = NoFrame

\* Initialisation fills the pool, never with a reserved frame.
Boot ==
    /\ ~ready
    /\ ready' = TRUE
    /\ pool' \in SUBSET (Frames \ Reserved)
    /\ UNCHANGED <<owned, result>>

\* An allocation takes some frame of the pool.
Alloc ==
    /\ ready
    /\ \E f \in pool : /\ pool' = pool \ {f}
                       /\ owned' = owned \cup {f}
                       /\ result' = f
    /\ UNCHANGED ready

\* An allocation fails only when no frame is free.
AllocFails ==
    /\ ready
    /\ pool = {}
    /\ result' = NoFrame
    /\ UNCHANGED <<ready, pool, owned>>

\* A frame a client owns goes back to the pool.
Free(f) ==
    /\ ready
    /\ f \in owned
    /\ owned' = owned \ {f}
    /\ pool' = pool \cup {f}
    /\ UNCHANGED <<ready, result>>

Next ==
    \/ Boot
    \/ Alloc
    \/ AllocFails
    \/ \E f \in owned : Free(f)

Spec == Init /\ [][Next]_avars

=============================================================================
