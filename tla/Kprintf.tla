------------------------------- MODULE Kprintf -------------------------------
(***************************************************************************)
(* One call of kprintf (stdio.c): the loop that walks the format and fills *)
(* a buffer of PRINTF_BUFFER_SIZE bytes, then the terminator and the copy  *)
(* of the buffer to the UART by uart_putc (uart.c), which sends '\r' after *)
(* every '\n'.                                                              *)
(*                                                                         *)
(* A byte is a one-character string; "t" stands for any byte of plain     *)
(* text, "NL" for '\n', "CR" for '\r' and NUL for '\0'.  An argument is a  *)
(* natural number below 2^31, so reading it as int, long or long long      *)
(* gives the same value and never a negative one; a %s argument is the     *)
(* length of its string, a %c argument any byte.                           *)
(***************************************************************************)
EXTENDS Naturals, Sequences, SequencesExt

CONSTANTS
    PRINTF_BUFFER_SIZE, \* the size of kprintf's buffer
    Calls,      \* the calls: [fmt |-> a byte sequence, args |-> the values]
    Junk,       \* the bytes that may follow a format's terminator in memory
    Garbage     \* the values va_arg may read past the caller's arguments

NUL == "NUL"
NL == "NL"
CR == "CR"

DecChars == <<"0", "1", "2", "3", "4", "5", "6", "7", "8", "9">>
HexLower == DecChars \o <<"a", "b", "c", "d", "e", "f">>
HexUpper == DecChars \o <<"A", "B", "C", "D", "E", "F">>

\* The do-while loops of the %d, %u, %x and %p cases: the digits of v in
\* base, most significant first, at least one.
RECURSIVE Digits(_, _, _)
Digits(v, base, chars) ==
    (IF v >= base THEN Digits(v \div base, base, chars) ELSE <<>>)
        \o <<chars[(v % base) + 1]>>

\* %p: "Always print full pointer width": zeros up to 16 digits.
PointerDigits(v) ==
    LET d == Digits(v, 16, HexLower)
    IN  [i \in 1 .. 16 - Len(d) |-> "0"] \o d

\* The conversions that call va_arg.
ArgConvs == {"c", "s", "d", "i", "u", "x", "X", "p"}

(***************************************************************************)
(* The text a conversion produces for the value v ('c' and 's' abstract    *)
(* the bytes to "t").                                                       *)
(***************************************************************************)
Render(conv, v) ==
    CASE conv = "c"               -> <<"t">>
      [] conv = "s"               -> [k \in 1 .. v |-> "t"]
      [] conv \in {"d", "i", "u"} -> Digits(v, 10, DecChars)
      [] conv = "x"               -> Digits(v, 16, HexLower)
      [] conv = "X"               -> Digits(v, 16, HexUpper)
      [] conv = "p"               -> PointerDigits(v)

\* len is cut to what is left before the buffer's last byte.
Clip(s, buf) ==
    SubSeq(s, 1, IF Len(s) < PRINTF_BUFFER_SIZE - Len(buf) - 1
                 THEN Len(s) ELSE PRINTF_BUFFER_SIZE - Len(buf) - 1)

-----------------------------------------------------------------------------
VARIABLES
    call,       \* the call: its format and its arguments
    junk,       \* the byte after the format's terminator
    fi,         \* the format pointer, an index into the format
    buf,        \* buffer[0 .. buf_ptr - buffer - 1]
    consumed,   \* the format index of the '%' at each va_arg, in order
    tx,         \* the bytes sent to the UART data register
    done        \* kprintf has returned

vars == <<call, junk, fi, buf, consumed, tx, done>>

\* The bytes at and after the format pointer: the format, its terminator,
\* then whatever the image holds next.
At(i) ==
    LET mem == call.fmt \o <<NUL, junk>>
    IN  IF i <= Len(mem) THEN mem[i] ELSE NUL

\* The value the next va_arg reads.
NextArg ==
    IF Len(consumed) < Len(call.args) THEN {call.args[Len(consumed) + 1]}
    ELSE Garbage

(***************************************************************************)
(* A '%' at format index i: an 'l' sets is_long, a second 'l' is_longlong; *)
(* conv is the byte after them and the loop resumes after conv.            *)
(***************************************************************************)
Directive(i) ==
    LET k == IF At(i + 1) = "l"
             THEN IF At(i + 2) = "l" THEN i + 3 ELSE i + 2
             ELSE i + 1
    IN  [conv |-> At(k), next |-> k + 1]

Init ==
    /\ call \in Calls
    /\ junk \in Junk
    /\ fi = 1
    /\ buf = <<>>
    /\ consumed = <<>>
    /\ tx = <<>>
    /\ done = FALSE

\* The loop runs while the format has a byte and the buffer has room.
LoopGuard ==
    /\ ~done
    /\ At(fi) # NUL
    /\ Len(buf) < PRINTF_BUFFER_SIZE - 1

\* A byte other than '%' is copied.
Literal ==
    /\ LoopGuard
    /\ At(fi) # "%"
    /\ buf' = Append(buf, At(fi))
    /\ fi' = fi + 1
    /\ UNCHANGED <<call, junk, consumed, tx, done>>

(***************************************************************************)
(* A supported conversion takes the next argument.  %c stores its byte;    *)
(* the others copy their text, cut to the room left; %p first writes "0x"  *)
(* when buf_ptr + 2 is below the last byte.                                *)
(***************************************************************************)
Conversion ==
    /\ LoopGuard
    /\ At(fi) = "%"
    /\ Directive(fi).conv \in ArgConvs
    /\ \E v \in NextArg :
         LET conv == Directive(fi).conv
             pre  == IF conv = "p" /\ Len(buf) + 2 < PRINTF_BUFFER_SIZE - 1
                     THEN buf \o <<"0", "x">> ELSE buf
         IN  buf' = IF conv = "c" THEN Append(buf, "t")
                    ELSE pre \o Clip(Render(conv, v), pre)
    /\ consumed' = Append(consumed, fi)
    /\ fi' = Directive(fi).next
    /\ UNCHANGED <<call, junk, tx, done>>

\* "%%" writes one '%'.
Percent ==
    /\ LoopGuard
    /\ At(fi) = "%"
    /\ Directive(fi).conv = "%"
    /\ buf' = Append(buf, "%")
    /\ fi' = Directive(fi).next
    /\ UNCHANGED <<call, junk, consumed, tx, done>>

(***************************************************************************)
(* Any other conversion byte (flags, widths, 'z', the terminator after a   *)
(* trailing '%') is copied after a '%' and takes no argument; the 'l's     *)
(* before it are lost.                                                      *)
(***************************************************************************)
Unsupported ==
    /\ LoopGuard
    /\ At(fi) = "%"
    /\ Directive(fi).conv \notin ArgConvs \cup {"%"}
    /\ buf' = buf \o <<"%", Directive(fi).conv>>
    /\ fi' = Directive(fi).next
    /\ UNCHANGED <<call, junk, consumed, tx, done>>

\* uart_putc of every byte up to the terminator; '\n' is followed by '\r'.
UartOut(s) ==
    LET n    == SelectInSeq(s, LAMBDA b : b = NUL)
        text == IF n = 0 THEN s ELSE SubSeq(s, 1, n - 1)
    IN  FlattenSeq([j \in DOMAIN text |->
                      IF text[j] = NL THEN <<NL, CR>> ELSE <<text[j]>>])

\* The loop ends: the buffer is terminated and sent to the UART.
Finish ==
    /\ ~done
    /\ ~LoopGuard
    /\ tx' = UartOut(buf)
    /\ done' = TRUE
    /\ UNCHANGED <<call, junk, fi, buf, consumed>>

Next == Literal \/ Conversion \/ Percent \/ Unsupported \/ Finish

Spec == Init /\ [][Next]_vars

-----------------------------------------------------------------------------
(***************************************************************************)
(* The caller's view (C11 7.21.6.1): a conversion specification is '%',    *)
(* flags and a field width, a length modifier and a conversion byte; each *)
(* one but "%%" takes one argument.  CDirectives(f) are the format indices *)
(* of the specifications that take one.                                    *)
(***************************************************************************)
FlagsWidth == {"-", "+", " ", "#", "0", "1", "2", "3", "4", "5", "6", "7", "8", "9"}
LengthMods == {"h", "l", "j", "z", "t", "L"}

RECURSIVE SkipIn(_, _, _)
SkipIn(f, i, S) == IF i <= Len(f) /\ f[i] \in S THEN SkipIn(f, i + 1, S) ELSE i

RECURSIVE CDirsFrom(_, _)
CDirsFrom(f, i) ==
    IF i > Len(f) THEN <<>>
    ELSE IF f[i] # "%" THEN CDirsFrom(f, i + 1)
    ELSE LET e == SkipIn(f, SkipIn(f, i + 1, FlagsWidth), LengthMods)
         IN  IF e > Len(f) THEN <<>>
             ELSE IF f[e] = "%" THEN CDirsFrom(f, e + 1)
             ELSE <<i>> \o CDirsFrom(f, e + 1)

CDirectives(f) == CDirsFrom(f, 1)

(***************************************************************************)
(* Each argument a caller passes is formatted by the conversion            *)
(* specification it was passed for: when kprintf returns, the k-th va_arg  *)
(* was taken at the k-th specification of the format, and there was one    *)
(* va_arg per specification.  This is what every call site of kprintf      *)
(* (shell.c, kheap.c, frame_alloc.c, exceptions.c) relies on.              *)
(***************************************************************************)
ArgumentsBound == done => consumed = CDirectives(call.fmt)

=============================================================================
