------------------------------ MODULE MC_Console ------------------------------
(***************************************************************************)
(* A 4-byte cmd_buffer (a line is full at 3 bytes), one argv slot, a       *)
(* 2-deep receive FIFO and up to 5 typed bytes: enough for an Enter after  *)
(* a full line, a backspace on an empty line, a NUL byte between two keys, *)
(* a second word dropped by MAX_ARGS and a blocked typist.                 *)
(***************************************************************************)
EXTENDS Console

MC_MAX_CMD_LEN == 4
MC_MAX_ARGS == 1
MC_FIFO_DEPTH == 2
MC_Printable == {"a", " "}
MC_CommandNames == {<<"a">>}
MC_MaxInput == 5
=============================================================================
