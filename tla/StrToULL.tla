------------------------------- MODULE StrToULL -------------------------------
(***************************************************************************)
(* simple_strtoull (src/src/lib/stdlib_stubs.c), the routine every shell   *)
(* command uses to turn an argument token into a number.  A token is a     *)
(* sequence of one-character strings; reading past its end reads NUL.      *)
(* Positions are 1-based, so the returned "end" is the index endptr points *)
(* at and Len(s) + 1 is the terminating NUL.  unsigned long long is W bits *)
(* wide (64 in the build).                                                  *)
(***************************************************************************)
EXTENDS Integers, Sequences, SequencesExt

CONSTANT W   \* bit width of unsigned long long

ASSUME WidthAssumption == W \in Nat \ {0}

UINT_MAX == 2^W - 1

\* A fact of arithmetic that the provers have no axiom for: 2^W >= 1.
ASSUME UintMaxAssumption == UINT_MAX \in Nat

NUL == "NUL"

DecimalDigits == <<"0","1","2","3","4","5","6","7","8","9">>
LowerLetters  == <<"a","b","c","d","e","f","g","h","i","j","k","l","m",
                   "n","o","p","q","r","s","t","u","v","w","x","y","z">>
UpperLetters  == <<"A","B","C","D","E","F","G","H","I","J","K","L","M",
                   "N","O","P","Q","R","S","T","U","V","W","X","Y","Z">>

\* The character at position i, NUL past the end.
CharAt(s, i) == IF i \in 1 .. Len(s) THEN s[i] ELSE NUL

\* The index of character c in a table of characters.
IndexIn(c, table) == CHOOSE k \in DOMAIN table : table[k] = c

\* digit = c - '0', c - 'a' + 10 or c - 'A' + 10; -1 for any other character.
DigitOf(c) ==
    CASE c \in Range(DecimalDigits) -> IndexIn(c, DecimalDigits) - 1
      [] c \in Range(LowerLetters)  -> IndexIn(c, LowerLetters) + 9
      [] c \in Range(UpperLetters)  -> IndexIn(c, UpperLetters) + 9
      [] OTHER                      -> -1

\* A character that continues a numeral of the given base.
IsDigit(c, base) == DigitOf(c) \in 0 .. base - 1

\* ' ', '\t', '\n', '\r', '\f', '\v' (the control characters by name).
WhiteSpace == {" ", "TAB", "LF", "CR", "FF", "VT"}

\* The first position that is not whitespace.
SkipSpace(s) ==
    CHOOSE i \in 1 .. Len(s) + 1 :
        /\ CharAt(s, i) \notin WhiteSpace
        /\ \A j \in 1 .. i - 1 : CharAt(s, j) \in WhiteSpace

\* An optional '+' or '-' is stepped over; the sign is dropped.
SkipSign(s, i) == IF CharAt(s, i) \in {"+", "-"} THEN i + 1 ELSE i

\* A "0x"/"0X" prefix selects base 16 when base is 0 or 16; base 0 is
\* otherwise 10.
HasHexPrefix(s, i, base) ==
    base \in {0, 16} /\ CharAt(s, i) = "0" /\ CharAt(s, i + 1) \in {"x", "X"}

\* Mutants of the overflow test: without the tie case, and with the tie
\* case taken for every digit.
OverflowsNoTie(r, d, base) == r > UINT_MAX \div base

OverflowsNoCutlim(r, d, base) == r >= UINT_MAX \div base

\* r * base + d would exceed UINT_MAX: result > cutoff, or result = cutoff
\* and digit > cutlim, where cutoff = UINT_MAX / base, cutlim = UINT_MAX % base.
Overflows(r, d, base) ==
    LET cutoff == UINT_MAX \div base
        cutlim == UINT_MAX % base
    IN  r > cutoff \/ (r = cutoff /\ d > cutlim)

\* One pass of the loop body (lines 45-77) on st = [value, at, mode]: mode
\* "digits" is the main loop, "rest" the inner loop that consumes the
\* remaining digits after an overflow, "done" follows a break.  A non-digit
\* of the base breaks either loop; an overflowing digit saturates the result
\* to UINT_MAX and enters the inner loop at the next character.
LoopStep(s, base, st) ==
    LET d == DigitOf(CharAt(s, st.at))
    IN  IF st.mode = "done" \/ ~IsDigit(CharAt(s, st.at), base)
        THEN [st EXCEPT !.mode = "done"]
        ELSE IF st.mode = "rest" THEN [st EXCEPT !.at = st.at + 1]
        ELSE IF Overflows(st.value, d, base)
             THEN [value |-> UINT_MAX, at |-> st.at + 1, mode |-> "rest"]
             ELSE [value |-> st.value * base + d, at |-> st.at + 1,
                   mode |-> "digits"]

\* The loop state after k passes, from position p with result 0.
LoopRun(s, p, base) ==
    LET run[k \in Nat] ==
            IF k = 0 THEN [value |-> 0, at |-> p, mode |-> "digits"]
                     ELSE LoopStep(s, base, run[k - 1])
    IN  run

\* The loop from position p: each pass that does not break reads one
\* character of s, so Len(s) + 1 passes reach the break; nptr is then
\* *endptr.
Accumulate(s, p, base) ==
    LET st == LoopRun(s, p, base)[Len(s) + 1]
    IN  [value |-> st.value, end |-> st.at]

\* The whole routine: returns the value and the position of *endptr.
simple_strtoull(s, base) ==
    LET i == SkipSign(s, SkipSpace(s))
        b == IF HasHexPrefix(s, i, base) THEN 16
             ELSE IF base = 0 THEN 10 ELSE base
        p == IF HasHexPrefix(s, i, base) THEN i + 2 ELSE i
    IN  IF b < 2 \/ b > 16 THEN [value |-> 0, end |-> 1]
        ELSE Accumulate(s, p, b)

-----------------------------------------------------------------------------
(***************************************************************************)
(* A command handler parses one argument token: simple_strtoull(argv[k],   *)
(* &endptr, 0), then rejects the token unless *endptr is the NUL.  The     *)
(* token is typed at the shell prompt (shell_loop stores printable         *)
(* characters and erases one on backspace) and split off by strtok on ' ', *)
(* so it is non-empty and holds no whitespace.  The state is the token     *)
(* typed so far and what the handler's parse of it would return.          *)
(***************************************************************************)
CONSTANTS Alphabet,  \* printable non-space characters that may be typed
          MaxToken   \* longest token considered (the line holds 127)

ASSUME TokenAssumption == MaxToken \in Nat \ {0} /\ " " \notin Alphabet

VARIABLES tok,   \* the token typed so far
          res    \* [value, end]: what simple_strtoull returns for it

vars == <<tok, res>>

\* The handler's test *endptr != '\0': the token is taken as a number.
Accepted(t, r) == r.end = Len(t) + 1

ParseInit ==
    /\ tok \in {<<c>> : c \in Alphabet}
    /\ res = simple_strtoull(tok, 0)

\* A printable character is stored (cmd_buffer[i++] = c), and the token is
\* what the handler would parse.
TypeChar(c) ==
    /\ Len(tok) < MaxToken
    /\ tok' = Append(tok, c)
    /\ res' = simple_strtoull(tok', 0)

\* Backspace removes the last character (i--); the token stays non-empty.
Erase ==
    /\ Len(tok) > 1
    /\ tok' = Front(tok)
    /\ res' = simple_strtoull(tok', 0)

ParseNext == (\E c \in Alphabet : TypeChar(c)) \/ Erase

ParseSpec == ParseInit /\ [][ParseNext]_vars

-----------------------------------------------------------------------------
(***************************************************************************)
(* Reference definitions, written from what a numeral denotes rather than  *)
(* from the loop.                                                          *)
(***************************************************************************)

\* Where the digits start and in which base, after space, sign and prefix.
DigitsStart(s) ==
    LET i == SkipSign(s, SkipSpace(s))
    IN  IF HasHexPrefix(s, i, 0) THEN [at |-> i + 2, base |-> 16]
                                 ELSE [at |-> i, base |-> 10]

\* The longest run of digits of the base starting at position p.
DigitRun(s, p, base) ==
    LET n == CHOOSE n \in 0 .. Len(s) + 1 - p :
                 /\ \A k \in p .. p + n - 1 : IsDigit(CharAt(s, k), base)
                 /\ ~IsDigit(CharAt(s, p + n), base)
    IN  [k \in 1 .. n |-> DigitOf(s[p + k - 1])]

\* The exact (unbounded) value of a digit sequence, most significant digit
\* first: the value of its first k digits, times the base, plus digit k + 1.
NumeralValue(ds, base) ==
    LET v[k \in Nat] == IF k = 0 THEN 0 ELSE v[k - 1] * base + ds[k]
    IN  v[Len(ds)]

\* strtoull's result: the numeral's value, saturated at UINT_MAX, and the
\* position just after its last digit.
ReferenceParse(s) ==
    LET st == DigitsStart(s)
        ds == DigitRun(s, st.at, st.base)
        v  == NumeralValue(ds, st.base)
    IN  [value |-> IF v > UINT_MAX THEN UINT_MAX ELSE v,
         end   |-> st.at + Len(ds)]

\* A token of unsigned numeral form: an optional '+', then decimal digits,
\* or "0x"/"0X" and hexadecimal digits; at least one digit.
IsNumeral(t) ==
    LET st == DigitsStart(t)
    IN  /\ CharAt(t, 1) # "-"
        /\ Len(DigitRun(t, st.at, st.base)) > 0

-----------------------------------------------------------------------------
\* Type invariant.
ParseTypeOK ==
    /\ tok \in Seq(Alphabet) /\ Len(tok) \in 1 .. MaxToken
    /\ res \in [value : 0 .. UINT_MAX, end : 1 .. Len(tok) + 1]

(***************************************************************************)
(* The loop of simple_strtoull (cutoff/cutlim test, saturation, the inner  *)
(* loop that consumes the rest of an overflowing numeral) computes what a  *)
(* numeral denotes: its value saturated at UINT_MAX, and an endptr just    *)
(* after its last digit.                                                    *)
(***************************************************************************)
ParseMatchesReference == res = ReferenceParse(tok)

(***************************************************************************)
(* The shell takes a token as a number only if it is an unsigned numeral:  *)
(* a usage line "<address>" or "<value>" is not met by "-5", "+" or "0x".  *)
(***************************************************************************)
AcceptsOnlyNumerals == Accepted(tok, res) => IsNumeral(tok)
=============================================================================
