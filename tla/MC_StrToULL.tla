----------------------------- MODULE MC_StrToULL ------------------------------
(* simple_strtoull at width 6, over every token of up to 4 characters drawn *)
(* from an alphabet that reaches both cutoffs: for base 10, cutoff = 6 and  *)
(* cutlim = 3; for base 16, cutoff = 3 and cutlim = 15.                    *)
EXTENDS StrToULL

MC_W == 6

MC_Alphabet == {"+", "-", "0", "3", "4", "6", "x", "f", "F"}

MC_MaxToken == 4
=============================================================================
