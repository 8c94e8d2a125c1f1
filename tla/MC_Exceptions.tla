----------------------------- MODULE MC_Exceptions ----------------------------
(* Every program of up to three instructions over the given instruction    *)
(* kinds, with up to one IRQ, FIQ or SError while a program runs.           *)
EXTENDS Exceptions, SequencesExt

MC_CodeBase == 64

\* Programs of the instruction kinds the kernel executes (no SVC).
MC_Programs == SeqOf({"nop", "brk", "ldr0", "udf"}, 3)

MC_MaxAsync == 1
=============================================================================
