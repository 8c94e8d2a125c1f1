------------------------------ MODULE Exceptions ------------------------------
(***************************************************************************)
(* The AArch64 exception dispatcher (src/src/exceptions/exceptions.c) with *)
(* the CPU around it.  A straight-line program of instructions runs at EL1 *)
(* from CodeBase; an instruction may trap.  The vector entry (save_context)*)
(* and return (restore_context, eret) are assembly outside src/ and follow *)
(* the spec (section 4.2); what the CPU writes to ELR_EL1 and ESR_EL1 on    *)
(* an exception follows the architecture: the preferred return address is  *)
(* the trapping instruction, except for SVC, where it is the next one.     *)
(***************************************************************************)
EXTENDS Integers, Sequences

CONSTANTS CodeBase,   \* address of the first instruction
          Programs,   \* programs the CPU may run (sequences of Instr)
          MaxAsync    \* bound on IRQ, FIQ and SError events in a run

\* nop: executes; brk: BRK #0; svc: SVC #0; ldr0: a load from address 0
\* (data abort at the current EL); udf: an undefined instruction.
Instr == {"nop", "brk", "svc", "ldr0", "udf"}

ASSUME ExcAssumption ==
    CodeBase \in Nat /\ MaxAsync \in Nat /\ Programs \subseteq Seq(Instr)

\* The exception class the CPU reports for a trapping instruction.
ECOf == [brk |-> 60, svc |-> 21, ldr0 |-> 37, udf |-> 0]   \* 0x3C, 0x15, 0x25, 0x00

Trapping == DOMAIN ECOf

\* ESR_EL1 as its 32 bits: EC in bits 31:26, IL in bit 25, ISS in bits 24:0.
ESRBits(ec, il, iss) ==
    [b \in 0 .. 31 |-> IF b >= 26 THEN (ec \div 2^(b - 26)) % 2
                       ELSE IF b = 25 THEN il
                       ELSE (iss \div 2^b) % 2]

\* (r >> lo) & (2^n - 1) for a register given as its bits: the n-bit number
\* whose bit k is bit lo + k of r.
Field(r, lo, n) ==
    CHOOSE v \in 0 .. 2^n - 1 : \A k \in 0 .. n - 1 : (v \div 2^k) % 2 = r[lo + k]

VARIABLES prog,     \* the program being run
          pc,       \* address of the next instruction
          mode,     \* "run", "handler" (a C dispatcher runs), "return", "halted"
          vector,   \* which dispatcher: "sync", "irq", "fiq", "serror", "none"
          esr,      \* ESR_EL1
          frame,    \* the saved frame's ELR_EL1 and SPSR mask bits
          daif,     \* PSTATE interrupt mask
          trapAt,   \* (ghost) address of the instruction that trapped
          async     \* asynchronous exceptions taken so far

vars == <<prog, pc, mode, vector, esr, frame, daif, trapAt, async>>

CodeEnd == CodeBase + 4 * Len(prog)

\* The instruction at pc, or "end" past the program.
InstrAt(a) ==
    IF a \in {CodeBase + 4 * k : k \in 0 .. Len(prog) - 1}
    THEN prog[(a - CodeBase) \div 4 + 1] ELSE "end"

Init ==
    /\ prog \in Programs
    /\ pc = CodeBase
    /\ mode = "run"
    /\ vector = "none"
    /\ esr = ESRBits(0, 0, 0)
    /\ frame = [elr |-> 0, masked |-> FALSE]
    /\ daif = FALSE
    /\ trapAt = CodeBase
    /\ async = 0

Execute ==
    /\ mode = "run"
    /\ InstrAt(pc) = "nop"
    /\ pc' = pc + 4
    /\ UNCHANGED <<prog, mode, vector, esr, frame, daif, trapAt, async>>

\* Exception entry for a trapping instruction: ESR holds EC, IL = 1 and
\* ISS = 0 (the immediate of BRK #0 and SVC #0); ELR is the preferred return address; interrupts masked;
\* the vector saves the frame and calls handle_sync_exception.
TakeSync ==
    /\ mode = "run"
    /\ InstrAt(pc) \in Trapping
    /\ esr' = ESRBits(ECOf[InstrAt(pc)], 1, 0)
    /\ frame' = [elr |-> IF InstrAt(pc) = "svc" THEN pc + 4 ELSE pc, masked |-> daif]
    /\ trapAt' = pc
    /\ mode' = "handler" /\ vector' = "sync" /\ daif' = TRUE
    /\ UNCHANGED <<prog, pc, async>>

\* An IRQ, FIQ or SError while unmasked; the return address is pc.
TakeAsync(v) ==
    /\ mode = "run" /\ ~daif /\ async < MaxAsync
    /\ frame' = [elr |-> pc, masked |-> daif]
    /\ mode' = "handler" /\ vector' = v /\ daif' = TRUE
    /\ async' = async + 1
    /\ UNCHANGED <<prog, pc, esr, trapAt>>

\* panic: prints, masks DAIF, and loops on wfi for ever.
Panic ==
    /\ daif' = TRUE
    /\ mode' = "halted"
    /\ UNCHANGED <<prog, pc, vector, esr, frame, trapAt, async>>

\* Mutants of handle_sync_exception: an 8-byte advance, and the else
\* branch returning instead of panicking.
HandleSyncSkipTwo ==
    /\ mode = "handler" /\ vector = "sync"
    /\ LET ec == Field(esr, 26, 6)
       IN  IF ec = 60 \/ ec = 21
           THEN /\ frame' = [frame EXCEPT !.elr = @ + 8]
                /\ mode' = "return"
                /\ UNCHANGED <<prog, pc, vector, esr, daif, trapAt, async>>
           ELSE Panic

HandleSyncNoPanic ==
    /\ mode = "handler" /\ vector = "sync"
    /\ frame' = [frame EXCEPT !.elr = @ + 4]
    /\ mode' = "return"
    /\ UNCHANGED <<prog, pc, vector, esr, daif, trapAt, async>>

\* handle_sync_exception: EC = (esr >> 26) & 0x3F; BRK (0x3C) and SVC
\* (0x15) advance the saved ELR by 4 and return; any other class panics.
HandleSync ==
    /\ mode = "handler" /\ vector = "sync"
    /\ LET ec == Field(esr, 26, 6)
       IN  IF ec = 60 \/ ec = 21
           THEN /\ frame' = [frame EXCEPT !.elr = @ + 4]
                /\ mode' = "return"
                /\ UNCHANGED <<prog, pc, vector, esr, daif, trapAt, async>>
           ELSE Panic

\* handle_irq logs and returns (no GIC driver).
HandleIrq ==
    /\ mode = "handler" /\ vector = "irq"
    /\ mode' = "return"
    /\ UNCHANGED <<prog, pc, vector, esr, frame, daif, trapAt, async>>

\* handle_fiq and handle_serror panic.
HandleFatalAsync ==
    /\ mode = "handler" /\ vector \in {"fiq", "serror"}
    /\ Panic

\* restore_context and eret: resume at the saved ELR with the saved mask.
Eret ==
    /\ mode = "return"
    /\ pc' = frame.elr
    /\ daif' = frame.masked
    /\ mode' = "run" /\ vector' = "none"
    /\ UNCHANGED <<prog, esr, frame, trapAt, async>>

Next ==
    \/ Execute \/ TakeSync \/ HandleSync \/ HandleIrq \/ HandleFatalAsync \/ Eret
    \/ \E v \in {"irq", "fiq", "serror"} : TakeAsync(v)

Spec == Init /\ [][Next]_vars

-----------------------------------------------------------------------------
\* Type invariant: pc stays on an instruction of the program or its end.
ExcTypeOK ==
    /\ pc \in {CodeBase + 4 * k : k \in 0 .. Len(prog)}
    /\ mode \in {"run", "handler", "return", "halted"}
    /\ vector \in {"none", "sync", "irq", "fiq", "serror"}
    /\ frame \in [elr : Nat, masked : BOOLEAN]
    /\ daif \in BOOLEAN
    /\ async \in 0 .. MaxAsync

(***************************************************************************)
(* A synchronous exception returns only for BRK and SVC, and it resumes at *)
(* the instruction after the one that trapped (spec: "BRK pass-through ... *)
(* next instruction executes normally"); every other class panics.        *)
(***************************************************************************)
ResumesAfterTrap ==
    [][(mode = "return" /\ vector = "sync" /\ mode' = "run") =>
          /\ InstrAt(trapAt) \in {"brk", "svc"}
          /\ pc' = trapAt + 4]_vars

=============================================================================
