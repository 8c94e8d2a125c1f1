------------------------------- MODULE ShellMem -------------------------------
(***************************************************************************)
(* The shell's raw-memory commands (src/src/shell/shell.c): memdump, peek  *)
(* and poke, and the range check is_address_valid they rely on.  Addresses *)
(* and lengths are W-bit unsigned integers (uint64_t and size_t, W = 64 in  *)
(* the build), so every sum wraps modulo 2^W, as pointer arithmetic does    *)
(* on the target.  An argument token is abstracted to what the handler's   *)
(* parse gives: rejected, or accepted with a value (StrToULL models the    *)
(* parse itself).  memdump's loop runs one 16-byte line per step.          *)
(***************************************************************************)
EXTENDS Integers, Sequences, FiniteSets

CONSTANTS W,              \* bit width of uint64_t / size_t
          PMM_RAM_BASE,   \* lowest RAM address
          HighestRam,     \* pmm_get_highest_usable_address()
          DefaultLength,  \* memdump's default length (256)
          Addrs,          \* values an address argument may parse to
          Lengths,        \* values a length argument may parse to
          SizeArgs,       \* size tokens of peek/poke (sequences of characters)
          Absent          \* an optional argument that was not given

M == 2^W

\* The highest usable address lies at least 8 bytes below 2^W: frame_alloc.c
\* raises it only to PMM_RAM_BASE + (i + 1) * PAGE_SIZE for a managed frame
\* i, at most PMM_MAX_ADDRESS = 0x40000000 + 1 GiB (frame_alloc.c:11-13, 85).
ASSUME ShellAssumption ==
    /\ W \in Nat \ {0}
    /\ PMM_RAM_BASE \in 1 .. M - 1 /\ HighestRam \in PMM_RAM_BASE .. M - 8
    /\ DefaultLength \in 0 .. M - 1
    /\ Addrs \subseteq 0 .. M - 1 /\ Lengths \subseteq 0 .. M - 1

\* A parsed argument: accepted with a value, or rejected (*endptr != '\0').
Arg(V) == [ok : {TRUE}, value : V] \cup [ok : {FALSE}, value : {0}]

LINE == 16   \* bytes per memdump line

\* Bytes [addr, addr + len) as the CPU addresses them.
Span(addr, len) == {(addr + k) % M : k \in 0 .. len - 1}

\* Mutant: the end test lets the range end on the highest address.
IsAddressValidEndOff(addr, len) ==
    /\ ~(addr < PMM_RAM_BASE \/ addr >= HighestRam)
    /\ ~(len > 0 /\ (addr + len - 1) % M > HighestRam)

\* Whether [addr, addr + len) lies in RAM.  addr + len - 1 is computed in
\* 64 bits; the nested "addr + len < addr" test returns false like the
\* branch it sits in, so it is folded into that branch.
is_address_valid(addr, len) ==
    /\ ~(addr < PMM_RAM_BASE \/ addr >= HighestRam)
    /\ ~(len > 0 /\ (addr + len - 1) % M >= HighestRam)

\* peek/poke size: 'b', 'h', 'w' or 'd' (default 'd'); a token of another
\* length or letter is an error (0).
SizeBytes(sz) ==
    IF sz = Absent THEN 8
    ELSE IF Len(sz) # 1 THEN 0
    ELSE CASE sz[1] = "b" -> 1
           [] sz[1] = "h" -> 2
           [] sz[1] = "w" -> 4
           [] sz[1] = "d" -> 8
           [] OTHER       -> 0

VARIABLES pc,       \* "prompt", or "dump" while memdump's loop runs
          dump,     \* memdump's addr, length and loop counter i
          dumped,   \* bytes the running (or last) memdump has read
          touched   \* bytes read or written by the last step

vars == <<pc, dump, dumped, touched>>

Init ==
    /\ pc = "prompt"
    /\ dump = [addr |-> 0, length |-> 0, i |-> 0]
    /\ dumped = {}
    /\ touched = {}

\* A command that returns at an error or usage check touches nothing.
Refuse == touched' = {} /\ UNCHANGED <<pc, dump, dumped>>

\* cmd_memdump up to its loop: parse address and optional length, return on
\* a bad token, a zero length or an invalid range, else start the loop.
Memdump(a, l) ==
    LET length == IF l = Absent THEN DefaultLength ELSE l.value
    IN  /\ pc = "prompt"
        /\ IF ~a.ok \/ (l # Absent /\ ~l.ok) \/ length = 0
              \/ ~is_address_valid(a.value, length)
           THEN Refuse
           ELSE /\ pc' = "dump"
                /\ dump' = [addr |-> a.value, length |-> length, i |-> 0]
                /\ dumped' = {}
                /\ touched' = {}

\* Mutant: the inner test reads "i + j <= length".
DumpLineInclusive ==
    /\ pc = "dump"
    /\ dump.i < dump.length
    /\ LET line == {(dump.addr + dump.i + j) % M :
                        j \in {j \in 0 .. LINE - 1 : dump.i + j <= dump.length}}
       IN  /\ touched' = line
           /\ dumped' = dumped \cup line
    /\ dump' = [dump EXCEPT !.i = (@ + LINE) % M]
    /\ pc' = pc

\* One pass of "for (i = 0; i < length; i += 16)": the hex and the ASCII
\* columns read ptr[i + j] for each j < 16 with i + j < length.
DumpLine ==
    /\ pc = "dump"
    /\ dump.i < dump.length
    /\ LET line == {(dump.addr + dump.i + j) % M :
                        j \in {j \in 0 .. LINE - 1 : dump.i + j < dump.length}}
       IN  /\ touched' = line
           /\ dumped' = dumped \cup line
    /\ dump' = [dump EXCEPT !.i = (@ + LINE) % M]
    /\ pc' = pc

\* The loop test fails: memdump returns to the prompt.
DumpEnd ==
    /\ pc = "dump"
    /\ dump.i >= dump.length
    /\ pc' = "prompt"
    /\ touched' = {}
    /\ UNCHANGED <<dump, dumped>>

\* cmd_peek: parse, size, range check; an unaligned address only warns.
Peek(a, sz) ==
    /\ pc = "prompt"
    /\ IF ~a.ok \/ SizeBytes(sz) = 0 \/ ~is_address_valid(a.value, SizeBytes(sz))
       THEN Refuse
       ELSE /\ touched' = Span(a.value, SizeBytes(sz))
            /\ UNCHANGED <<pc, dump, dumped>>

\* cmd_poke: as peek, with a value token parsed before the size.
Poke(a, v, sz) ==
    /\ pc = "prompt"
    /\ IF ~a.ok \/ ~v \/ SizeBytes(sz) = 0
          \/ ~is_address_valid(a.value, SizeBytes(sz))
       THEN Refuse
       ELSE /\ touched' = Span(a.value, SizeBytes(sz))
            /\ UNCHANGED <<pc, dump, dumped>>

Next ==
    \/ \E a \in Arg(Addrs), l \in Arg(Lengths) \cup {Absent} : Memdump(a, l)
    \/ DumpLine
    \/ DumpEnd
    \/ \E a \in Arg(Addrs), sz \in SizeArgs \cup {Absent} : Peek(a, sz)
    \/ \E a \in Arg(Addrs), v \in BOOLEAN, sz \in SizeArgs \cup {Absent} :
          Poke(a, v, sz)

Spec == Init /\ [][Next]_vars

-----------------------------------------------------------------------------
(***************************************************************************)
(* Every byte memdump, peek or poke reads or writes lies in RAM,           *)
(* [PMM_RAM_BASE, highest usable address): is_address_valid's check,       *)
(* made before the access, covers every address the access then forms.    *)
(***************************************************************************)
AccessInRam == touched \subseteq PMM_RAM_BASE .. HighestRam - 1

(***************************************************************************)
(* is_address_valid fails only where the range wraps: every byte memdump,  *)
(* peek or poke touches lies in RAM unless it is read by a memdump whose   *)
(* range [addr, addr + length) runs past 2^W, the case shell.c's comment  *)
(* says the check rules out.                                               *)
(***************************************************************************)
AccessInRamUnlessWrapped ==
    \/ touched \subseteq PMM_RAM_BASE .. HighestRam - 1
    \/ pc = "dump" /\ dump.addr + dump.length > M

(***************************************************************************)
(* memdump reads the requested bytes and no other: while its loop runs,    *)
(* it has read every byte of the first min(i, length) of [addr, addr +     *)
(* length), and nothing outside that range.  It holds whether or not i +=  *)
(* 16 wraps; once the loop test fails, the bytes read are the whole range. *)
(***************************************************************************)
DumpReadsPrefix ==
    pc = "dump" =>
        /\ Span(dump.addr, IF dump.i < dump.length THEN dump.i
                           ELSE dump.length) \subseteq dumped
        /\ dumped \subseteq Span(dump.addr, dump.length)

=============================================================================
