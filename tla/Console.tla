------------------------------- MODULE Console -------------------------------
(***************************************************************************)
(* Console input: the PL011 receive FIFO (uart.c), the polling read of      *)
(* kgetc_blocking (stdio.c) and the line reader and dispatcher of           *)
(* shell_loop (shell.c).                                                    *)
(*                                                                         *)
(* The user types bytes into the receive FIFO; the CPU, which runs nothing  *)
(* but the shell loop, polls it.  A byte is a printable character of        *)
(* Printable or one of the control bytes below.  The command table,         *)
(* formatting and echo are output only and left out; a command is its argv *)
(* and whether its name is in the table.                                    *)
(***************************************************************************)
EXTENDS Naturals, Sequences, SequencesExt

CONSTANTS
    MAX_CMD_LEN,    \* size of cmd_buffer, terminator included (shell.c)
    MAX_ARGS,       \* size of argv (shell.c)
    FIFO_DEPTH,     \* depth of the PL011 receive FIFO
    Printable,      \* the bytes 32 .. 126 the user types (" " among them)
    CommandNames,   \* the names in the command table, as byte sequences
    MaxInput        \* bound on the number of bytes the user types

\* Control bytes: '\r', '\n', '\b', 127, the NUL byte, and one standing for
\* every other non-printable byte.
CR == "CR"
LF == "LF"
BS == "BS"
DEL == "DEL"
NUL == "NUL"
ESC == "ESC"
Keys == Printable \cup {CR, LF, BS, DEL, NUL, ESC}

\* A printable byte (32 .. 126) is none of the control bytes.
ASSUME ConsoleAssumption ==
    /\ MAX_CMD_LEN \in Nat /\ MAX_CMD_LEN >= 2
    /\ MAX_ARGS \in Nat \ {0}
    /\ FIFO_DEPTH \in Nat \ {0}
    /\ " " \in Printable
    /\ Printable \cap {CR, LF, BS, DEL, NUL, ESC} = {}
    /\ MaxInput \in Nat

\* kgetc_blocking: a NUL byte reads as "no data" and is polled past; CR
\* is handed to the caller as LF.
KgetcResult(c) == IF c = CR THEN LF ELSE c

(***************************************************************************)
(* strtok(cmd_buffer, " ") until NULL or MAX_ARGS tokens: the maximal runs *)
(* of non-space bytes, in order, the first MAX_ARGS of them.                *)
(***************************************************************************)
WordStarts(s) ==
    {i \in 1 .. Len(s) : s[i] # " " /\ (i = 1 \/ s[i - 1] = " ")}
WordAt(s, i) ==
    LET j == CHOOSE j \in i .. Len(s) :
                /\ \A k \in i .. j : s[k] # " "
                /\ (j = Len(s) \/ s[j + 1] = " ")
    IN  SubSeq(s, i, j)
Strtok(s) ==
    LET words == [n \in 1 .. Cardinality(WordStarts(s)) |->
                    WordAt(s, SetToSortSeq(WordStarts(s), <)[n])]
    IN  SubSeq(words, 1, IF Len(words) < MAX_ARGS THEN Len(words) ELSE MAX_ARGS)

-----------------------------------------------------------------------------
VARIABLES
    rx,         \* the receive FIFO, oldest byte first
    cmd_buffer, \* cmd_buffer[0 .. i-1] of the line being read
    reading,    \* in the read loop (FALSE: the line is complete)
    executed,   \* the commands run so far: [argv, found]
    ntyped,     \* bytes the user has typed
    enters,     \* Enter keys (CR or LF) the user has typed
    answered    \* Enter keys the shell loop has acted on

vars == <<rx, cmd_buffer, reading, executed, ntyped, enters, answered>>

Init ==
    /\ rx = <<>>
    /\ cmd_buffer = <<>>
    /\ reading = TRUE
    /\ executed = <<>>
    /\ ntyped = 0 /\ enters = 0 /\ answered = 0

\* The user types byte k; the host's PL011 model does not accept a byte
\* while the FIFO is full.
Type(k) ==
    /\ ntyped < MaxInput
    /\ Len(rx) < FIFO_DEPTH
    /\ rx' = Append(rx, k)
    /\ ntyped' = ntyped + 1
    /\ enters' = IF k \in {CR, LF} THEN enters + 1 ELSE enters
    /\ UNCHANGED <<cmd_buffer, reading, executed, answered>>

(***************************************************************************)
(* After the read loop: cmd_buffer[i] = '\0'.  An empty line, or one of    *)
(* spaces only, runs nothing; otherwise argv[0] is looked up in the table  *)
(* and the command runs (or "Unknown command").  memset clears the buffer  *)
(* for the next prompt.                                                     *)
(***************************************************************************)
RunLine ==
    /\ ~reading
    /\ reading' = TRUE
    /\ cmd_buffer' = <<>>
    /\ executed' = IF cmd_buffer = <<>> \/ Strtok(cmd_buffer) = <<>> THEN executed
                   ELSE Append(executed,
                               [argv  |-> Strtok(cmd_buffer),
                                found |-> Strtok(cmd_buffer)[1] \in CommandNames])
    /\ UNCHANGED <<rx, ntyped, enters, answered>>

\* Variant: the loop runs while i < MAX_CMD_LEN, so a full line puts its
\* terminator one past the end of cmd_buffer.
LineFullPastEnd(line) == Len(line) = MAX_CMD_LEN

\* The read loop stops when i reaches MAX_CMD_LEN - 1.
LineFull(line) == Len(line) = MAX_CMD_LEN - 1

\* Variant: only '\r' ends a line; kgetc_blocking has turned it into '\n'.
IsEnterCROnly(c) == c = CR

IsEnter(c) == c \in {CR, LF}

(***************************************************************************)
(* One pass of the read loop of shell_loop with the byte c that            *)
(* kgetc_blocking returned: Enter ends the line, backspace or DEL drops    *)
(* the last byte, a printable byte is stored and ends the loop when the    *)
(* line is full, any other byte is ignored.                                 *)
(***************************************************************************)
LineStep(c) ==
    \/ /\ IsEnter(c)
       /\ reading' = FALSE
       /\ answered' = answered + 1
       /\ UNCHANGED cmd_buffer
    \/ /\ c \in {BS, DEL}
       /\ cmd_buffer' = IF cmd_buffer = <<>> THEN <<>>
                        ELSE SubSeq(cmd_buffer, 1, Len(cmd_buffer) - 1)
       /\ UNCHANGED <<reading, answered>>
    \/ /\ c \in Printable
       /\ cmd_buffer' = Append(cmd_buffer, c)
       /\ reading' = ~LineFull(Append(cmd_buffer, c))
       /\ UNCHANGED answered
    \/ /\ c \notin Printable \cup {CR, LF, BS, DEL}
       /\ UNCHANGED <<cmd_buffer, reading, answered>>

\* kgetc_blocking polls uart_getc: RXFE clear, so DR is read and the byte
\* leaves the FIFO.  A NUL byte is polled past; any other byte goes to the
\* shell loop.
ReadNul ==
    /\ rx # <<>>
    /\ Head(rx) = NUL
    /\ rx' = Tail(rx)
    /\ reading
    /\ UNCHANGED <<cmd_buffer, reading, executed, ntyped, enters, answered>>

ReadKey ==
    /\ reading
    /\ rx # <<>>
    /\ Head(rx) # NUL
    /\ rx' = Tail(rx)
    /\ LineStep(KgetcResult(Head(rx)))
    /\ UNCHANGED <<executed, ntyped, enters>>

\* The steps of the shell loop.
ShellStep == ReadNul \/ ReadKey \/ RunLine

Next ==
    \/ \E k \in Keys : Type(k)
    \/ ShellStep

(***************************************************************************)
(* The shell loop is the only thing the CPU runs (no interrupt is wired)   *)
(* and kgetc_blocking polls without end, so a byte in the FIFO is read and *)
(* a complete line is run: weak fairness of the loop.  The user owes       *)
(* nothing.                                                                 *)
(***************************************************************************)
Spec == Init /\ [][Next]_vars /\ WF_vars(ShellStep)

-----------------------------------------------------------------------------
(***************************************************************************)
(* Type invariant.  It includes that the line never outgrows cmd_buffer:   *)
(* i stays below MAX_CMD_LEN, so cmd_buffer[i] = '\0' is in the array.      *)
(***************************************************************************)
ConsoleTypeOK ==
    /\ rx \in Seq(Keys) /\ Len(rx) <= FIFO_DEPTH
    /\ cmd_buffer \in Seq(Printable) /\ Len(cmd_buffer) <= MAX_CMD_LEN - 1
    /\ ntyped \in 0 .. MaxInput
    /\ answered <= enters

(***************************************************************************)
(* Every Enter the user types is eventually acted on by the shell loop:    *)
(* the line it ends is run (or dropped, if empty), whatever bytes came     *)
(* before it, NUL bytes and full lines included.                            *)
(***************************************************************************)
EnterAnswered ==
    \A n \in 1 .. MaxInput : (enters >= n) ~> (answered >= n)

=============================================================================
