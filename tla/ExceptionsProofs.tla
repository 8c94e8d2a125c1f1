--------------------------- MODULE ExceptionsProofs ---------------------------
(***************************************************************************)
(* Proofs about the exception dispatcher (Exceptions): the type invariant *)
(* and the action property ResumesAfterTrap, for every code base, every    *)
(* bound on asynchronous exceptions and every set of programs that has no  *)
(* SVC instruction.  With an SVC both fail: handle_sync_exception adds 4   *)
(* to an ELR that already points past the SVC.                             *)
(***************************************************************************)
EXTENDS Exceptions, TLAPS

\* No program executes SVC: no code of the kernel contains one.
NoSvc == \A p \in Programs : \A i \in DOMAIN p : p[i] # "svc"

\* The addresses of the program's instructions, and those and its end.
InstrAddrs == {CodeBase + 4 * k : k \in 0 .. Len(prog) - 1}
PcAddrs == {CodeBase + 4 * k : k \in 0 .. Len(prog)}

(***************************************************************************)
(* The inductive invariant.  While a synchronous exception is handled or  *)
(* returning, trapAt is a trapping instruction of the program and ESR      *)
(* holds its class; the saved ELR is trapAt in the handler and trapAt + 4  *)
(* on the way back, which is possible only for BRK.  Around an             *)
(* asynchronous exception the saved ELR is an address of the program.      *)
(***************************************************************************)
EInv ==
    /\ ExcTypeOK
    /\ prog \in Programs
    /\ mode \in {"handler", "return"} /\ vector = "sync" =>
          /\ trapAt \in InstrAddrs
          /\ InstrAt(trapAt) \in Trapping \ {"svc"}
          /\ esr = ESRBits(ECOf[InstrAt(trapAt)], 1, 0)
    /\ mode = "handler" /\ vector = "sync" => frame.elr = trapAt
    /\ mode = "return" /\ vector = "sync" =>
          /\ InstrAt(trapAt) = "brk"
          /\ frame.elr = trapAt + 4
    /\ mode \in {"handler", "return"} /\ vector # "sync" =>
          /\ vector \in {"irq", "fiq", "serror"}
          /\ frame.elr \in PcAddrs
-----------------------------------------------------------------------------
\* The powers of two up to the width of the EC field.
LEMMA Pow2 == 2^0 = 1 /\ 2^1 = 2 /\ 2^2 = 4 /\ 2^3 = 8 /\ 2^4 = 16 /\ 2^5 = 32 /\ 2^6 = 64
BY SMT

\* A number below 64 is determined by its six low bits.
LEMMA SixBitsUnique ==
    ASSUME NEW v \in 0 .. 63, NEW w \in 0 .. 63,
           \A k \in 0 .. 5 : (v \div 2^k) % 2 = (w \div 2^k) % 2
    PROVE  v = w
<1>1. /\ v % 2 = w % 2 /\ (v \div 2) % 2 = (w \div 2) % 2
      /\ (v \div 4) % 2 = (w \div 4) % 2 /\ (v \div 8) % 2 = (w \div 8) % 2
      /\ (v \div 16) % 2 = (w \div 16) % 2 /\ (v \div 32) % 2 = (w \div 32) % 2
  BY Pow2
<1>. QED BY <1>1

(***************************************************************************)
(* handle_sync_exception reads back the class the CPU wrote: the field     *)
(* (esr >> 26) & 0x3F of the ESR of class ec, IL = 1 and ISS = 0 is ec.    *)
(***************************************************************************)
LEMMA DecodeEC ==
    ASSUME NEW ec \in 0 .. 63
    PROVE  Field(ESRBits(ec, 1, 0), 26, 6) = ec
<1>. DEFINE r == ESRBits(ec, 1, 0)
            P(v) == \A k \in 0 .. 6 - 1 : (v \div 2^k) % 2 = r[26 + k]
<1>1. \A k \in 0 .. 5 : r[26 + k] = (ec \div 2^k) % 2
  BY DEF ESRBits
<1>2. ec \in 0 .. 2^6 - 1 /\ P(ec)
  BY <1>1, Pow2
<1>3. \A v \in 0 .. 2^6 - 1 : P(v) => v = ec
  BY <1>1, Pow2, SixBitsUnique
<1>. QED BY <1>2, <1>3 DEF Field
\* An address holding an instruction is one of the program's instructions,
\* and InstrAt reads the program's entry for it.
LEMMA InstrAtFacts ==
    ASSUME prog \in Seq(Instr), NEW a, InstrAt(a) # "end"
    PROVE  /\ a \in InstrAddrs
           /\ \E k \in 0 .. Len(prog) - 1 :
                 /\ a = CodeBase + 4 * k
                 /\ InstrAt(a) = prog[k + 1]
           /\ InstrAt(a) \in Instr
<1>1. a \in InstrAddrs
  BY DEF InstrAt, InstrAddrs
<1>2. PICK k \in 0 .. Len(prog) - 1 : a = CodeBase + 4 * k
  BY <1>1 DEF InstrAddrs
<1>3. (a - CodeBase) \div 4 + 1 = k + 1
  BY <1>2, ExcAssumption
<1>4. InstrAt(a) = prog[k + 1]
  BY <1>1, <1>3 DEF InstrAt, InstrAddrs
<1>5. prog[k + 1] \in Instr
  BY <1>2
<1>. QED BY <1>1, <1>2, <1>4, <1>5

\* Under NoSvc the program being run has no SVC.
LEMMA NoSvcAt ==
    ASSUME NoSvc, prog \in Programs, NEW a, InstrAt(a) # "end"
    PROVE  InstrAt(a) # "svc"
<1>1. prog \in Seq(Instr)
  BY ExcAssumption
<1>2. PICK k \in 0 .. Len(prog) - 1 : InstrAt(a) = prog[k + 1]
  BY <1>1, InstrAtFacts
<1>3. k + 1 \in DOMAIN prog
  BY <1>1
<1>. QED BY <1>2, <1>3 DEF NoSvc

LEMMA EInvInit == Init => EInv
<1>. SUFFICES ASSUME Init PROVE EInv
  OBVIOUS
<1>1. prog \in Seq(Instr)
  BY ExcAssumption DEF Init
<1>2. pc \in {CodeBase + 4 * k : k \in 0 .. Len(prog)}
  <2>1. 0 \in 0 .. Len(prog) /\ pc = CodeBase + 4 * 0
    BY <1>1, ExcAssumption DEF Init
  <2>. QED BY <2>1
<1>3. async \in 0 .. MaxAsync
  BY ExcAssumption DEF Init
<1>. QED BY <1>2, <1>3 DEF Init, EInv, ExcTypeOK
\* An instruction's address, and the one after it, are addresses pc may hold.
LEMMA AddrStep ==
    ASSUME prog \in Seq(Instr), NEW a \in InstrAddrs
    PROVE  a \in PcAddrs /\ a + 4 \in PcAddrs /\ a \in Nat
<1>1. PICK k \in 0 .. Len(prog) - 1 : a = CodeBase + 4 * k
  BY DEF InstrAddrs
<1>2. k + 1 \in 0 .. Len(prog) /\ a + 4 = CodeBase + 4 * (k + 1)
  BY <1>1, ExcAssumption
<1>3. k \in 0 .. Len(prog) /\ a \in Nat
  BY <1>1, ExcAssumption
<1>. QED BY <1>1, <1>2, <1>3 DEF PcAddrs

\* pc stays on the program or its end, so it is a natural number.
LEMMA PcNat ==
    ASSUME prog \in Seq(Instr), pc \in PcAddrs
    PROVE  pc \in Nat
BY ExcAssumption DEF PcAddrs

LEMMA EInvStep == NoSvc /\ EInv /\ [Next]_vars => EInv'
<1>. SUFFICES ASSUME NoSvc, EInv, [Next]_vars PROVE EInv'
  OBVIOUS
<1>0. /\ prog \in Seq(Instr)
      /\ pc \in PcAddrs /\ pc \in Nat
      /\ prog' = prog
      /\ InstrAddrs' = InstrAddrs /\ PcAddrs' = PcAddrs
      /\ \A a : InstrAt(a)' = InstrAt(a)
  <2>1. prog \in Seq(Instr) /\ pc \in PcAddrs
    BY ExcAssumption DEF EInv, ExcTypeOK, PcAddrs
  <2>2. prog' = prog
    BY DEF Next, vars, Execute, TakeSync, TakeAsync, HandleSync, Panic,
           HandleIrq, HandleFatalAsync, Eret
  <2>. QED BY <2>1, <2>2, PcNat DEF InstrAddrs, PcAddrs, InstrAt
<1>1. CASE Execute
  <2>1. pc \in InstrAddrs
    BY <1>0, <1>1, InstrAtFacts DEF Execute
  <2>2. pc' \in PcAddrs
    BY <1>0, <1>1, <2>1, AddrStep DEF Execute
  <2>. QED BY <1>0, <1>1, <2>2 DEF Execute, EInv, ExcTypeOK, PcAddrs
<1>2. CASE TakeSync
  <2>1. InstrAt(pc) \in Trapping \ {"svc"}
    <3>1. InstrAt(pc) \in Trapping
      BY <1>2 DEF TakeSync
    <3>2. InstrAt(pc) # "end"
      BY <3>1 DEF Trapping, ECOf
    <3>. QED BY <1>0, <3>1, <3>2, NoSvcAt DEF EInv
  <2>2. pc \in InstrAddrs
    <3>1. InstrAt(pc) # "end"
      BY <2>1 DEF Trapping, ECOf
    <3>. QED BY <1>0, <3>1, InstrAtFacts
  <2>3. frame' = [elr |-> pc, masked |-> daif] /\ frame' \in [elr : Nat, masked : BOOLEAN]
    BY <1>0, <1>2, <2>1 DEF TakeSync, EInv, ExcTypeOK
  <2>4. trapAt' = pc /\ (InstrAt(trapAt))' = InstrAt(pc)
    BY <1>0, <1>2 DEF TakeSync
  <2>. QED BY <1>0, <1>2, <2>1, <2>2, <2>3, <2>4 DEF TakeSync, EInv, ExcTypeOK
<1>3. CASE HandleSync
  <2>. DEFINE I == InstrAt(trapAt)
  <2>1. /\ trapAt \in InstrAddrs
        /\ I \in {"brk", "ldr0", "udf"}
        /\ esr = ESRBits(ECOf[I], 1, 0)
        /\ frame.elr = trapAt
    BY <1>3 DEF HandleSync, EInv, Trapping, ECOf
  <2>2. Field(esr, 26, 6) = ECOf[I]
    <3>1. ECOf[I] \in 0 .. 63
      BY <2>1 DEF ECOf
    <3>. QED BY <2>1, <3>1, DecodeEC
  <2>3. CASE I = "brk"
    <3>1. Field(esr, 26, 6) = 60
      BY <2>2, <2>3 DEF ECOf
    <3>2. /\ frame' = [frame EXCEPT !.elr = @ + 4]
          /\ mode' = "return"
          /\ UNCHANGED <<prog, pc, vector, esr, daif, trapAt, async>>
      BY <1>3, <3>1 DEF HandleSync
    <3>3. frame'.elr = trapAt + 4 /\ frame' \in [elr : Nat, masked : BOOLEAN]
      BY <1>0, <2>1, <3>2, AddrStep DEF EInv, ExcTypeOK
    <3>4. (InstrAt(trapAt))' = "brk"
      BY <1>0, <2>3, <3>2
    <3>. QED BY <1>0, <1>3, <2>1, <3>2, <3>3, <3>4 DEF HandleSync, EInv, ExcTypeOK
  <2>4. CASE I # "brk"
    <3>1. Field(esr, 26, 6) \in {37, 0}
      BY <2>1, <2>2, <2>4 DEF ECOf
    <3>2. Panic
      BY <1>3, <3>1 DEF HandleSync
    <3>. QED BY <1>0, <3>2 DEF Panic, EInv, ExcTypeOK
  <2>. QED BY <2>3, <2>4
<1>4. CASE HandleIrq
  BY <1>0, <1>4 DEF HandleIrq, EInv, ExcTypeOK
<1>5. CASE HandleFatalAsync
  BY <1>0, <1>5 DEF HandleFatalAsync, Panic, EInv, ExcTypeOK
<1>6. CASE Eret
  <2>1. frame.elr \in PcAddrs
    <3>1. CASE vector = "sync"
      BY <1>0, <1>6, <3>1, AddrStep DEF Eret, EInv
    <3>2. CASE vector # "sync"
      BY <1>6, <3>2 DEF Eret, EInv
    <3>. QED BY <3>1, <3>2
  <2>. QED BY <1>0, <1>6, <2>1 DEF Eret, EInv, ExcTypeOK, PcAddrs
<1>7. CASE \E v \in {"irq", "fiq", "serror"} : TakeAsync(v)
  <2>1. PICK v \in {"irq", "fiq", "serror"} : TakeAsync(v)
    BY <1>7
  <2>2. async' \in 0 .. MaxAsync
    BY <2>1, ExcAssumption DEF TakeAsync, EInv, ExcTypeOK
  <2>. QED BY <1>0, <2>1, <2>2 DEF TakeAsync, EInv, ExcTypeOK
<1>8. CASE UNCHANGED vars
  BY <1>0, <1>8 DEF vars, EInv, ExcTypeOK
<1>. QED BY <1>1, <1>2, <1>3, <1>4, <1>5, <1>6, <1>7, <1>8 DEF Next
(***************************************************************************)
(* Type correctness: pc never leaves the program and its end, whatever     *)
(* the code base, the bound on asynchronous exceptions and the programs,   *)
(* as long as none has an SVC.  With one, eret after handle_sync_exception *)
(* resumes 8 bytes past the SVC, past the end of a program ending in it.   *)
(***************************************************************************)
THEOREM ExcTypeCorrect == NoSvc => (Spec => []ExcTypeOK)
<1>. SUFFICES ASSUME NoSvc PROVE Spec => []ExcTypeOK
  OBVIOUS
<1>1. EInv /\ [Next]_vars => EInv'
  BY EInvStep
<1>2. EInv => ExcTypeOK
  BY DEF EInv
<1>. QED BY <1>1, <1>2, EInvInit, PTL DEF Spec

\* Every step from "return" with the synchronous vector to "run" is the eret
\* of a BRK, to the instruction after it.
LEMMA ResumeStep ==
    EInv /\ [Next]_vars =>
        [(mode = "return" /\ vector = "sync" /\ mode' = "run") =>
            /\ InstrAt(trapAt) \in {"brk", "svc"}
            /\ pc' = trapAt + 4]_vars
<1>. SUFFICES ASSUME EInv, [Next]_vars,
                     mode = "return", vector = "sync", mode' = "run"
              PROVE  InstrAt(trapAt) \in {"brk", "svc"} /\ pc' = trapAt + 4
  OBVIOUS
<1>1. Eret
  BY DEF Next, vars, Execute, TakeSync, TakeAsync, HandleSync, Panic,
         HandleIrq, HandleFatalAsync
<1>. QED BY <1>1 DEF Eret, EInv

(***************************************************************************)
(* handle_sync_exception returns only from a BRK and resumes at the        *)
(* instruction after it (ResumesAfterTrap), for every code base, every     *)
(* bound on asynchronous exceptions and every set of programs without SVC: *)
(* the class it decodes from ESR is the class the CPU wrote, so a data     *)
(* abort or an undefined instruction panics and never returns.             *)
(***************************************************************************)
THEOREM ResumesAfterTrapHolds == NoSvc => (Spec => ResumesAfterTrap)
<1>. SUFFICES ASSUME NoSvc PROVE Spec => ResumesAfterTrap
  OBVIOUS
<1>1. EInv /\ [Next]_vars => EInv'
  BY EInvStep
<1>. QED BY <1>1, EInvInit, ResumeStep, PTL DEF Spec, ResumesAfterTrap
=============================================================================
