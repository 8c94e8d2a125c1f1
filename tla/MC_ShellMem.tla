------------------------------- MODULE MC_ShellMem ----------------------------
(* A 7-bit address space: RAM is [32, 80), 48 bytes past the end of RAM    *)
(* are left before the top of the space.  Addresses sit on both sides of   *)
(* each RAM boundary and inside RAM; the lengths a token can parse to    *)
(* are every W-bit value, so ranges end on, before and after the highest  *)
(* address, wrap past 2^W, and span one to eight memdump lines, with i +=  *)
(* 16 wrapping for the lengths above 112.                                  *)
EXTENDS ShellMem

MC_W == 7
MC_RamBase == 32
MC_Highest == 80
MC_DefaultLength == 16
MC_Addrs == {0, 31, 32, 33, 47, 63, 64, 72, 78, 79, 80, 127}

\* Every length a token can parse to.
MC_Lengths == 0 .. 2^MC_W - 1

\* Lengths whose range end wraps past the top of the address space for some
\* RAM address (127 also makes i += 16 wrap).
MC_WrapLengths == {1, 8, 100, 127}

MC_SizeArgs == {<<"b">>, <<"h">>, <<"w">>, <<"d">>, <<"q">>, <<"b", "b">>}
=============================================================================
