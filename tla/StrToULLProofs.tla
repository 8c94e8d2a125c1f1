---------------------------- MODULE StrToULLProofs ----------------------------
(***************************************************************************)
(* Proofs about simple_strtoull (StrToULL): whatever the token, the value *)
(* it returns fits in W bits and *endptr lies within the token or on its   *)
(* terminating NUL.                                                         *)
(***************************************************************************)
EXTENDS StrToULL, NaturalsInduction, WellFoundedInduction, SequenceTheorems, TLAPS

\* The states of the accumulation loop that stay within the width and the
\* token: a result of W bits and nptr at most at the terminating NUL.
LoopStates(s) ==
    [value : 0 .. UINT_MAX, at : 1 .. Len(s) + 1,
     mode : {"digits", "rest", "done"}]

\* The exact value of the m characters of s from position p, read as digits
\* of the base.
PV(s, p, base) ==
    LET v[m \in Nat] ==
            IF m = 0 THEN 0 ELSE v[m - 1] * base + DigitOf(CharAt(s, p + m - 1))
    IN  v

\* strtoull's saturation at UINT_MAX.
Sat(v) == IF v > UINT_MAX THEN UINT_MAX ELSE v

(***************************************************************************)
(* The loop state st after k passes from position p: the characters read  *)
(* so far are digits; the main loop holds their exact value, the inner    *)
(* loop knows it passed UINT_MAX, and after the break the result is the    *)
(* saturated value and nptr is on a non-digit.  Until the break every pass *)
(* reads one character.                                                     *)
(***************************************************************************)
LoopInv(s, p, base, k, st) ==
    LET v == PV(s, p, base)[st.at - p]
    IN  /\ st \in LoopStates(s)
        /\ st.at \in p .. Len(s) + 1
        /\ \A j \in p .. st.at - 1 : IsDigit(CharAt(s, j), base)
        /\ v \in Nat
        /\ st.mode = "digits" => v <= UINT_MAX /\ st.value = v
        /\ st.mode = "rest" => v > UINT_MAX /\ st.value = UINT_MAX
        /\ st.mode = "done" => /\ st.value = Sat(v)
                               /\ ~IsDigit(CharAt(s, st.at), base)
        /\ st.mode = "done" \/ st.at = p + k

\* The terminating NUL is not a digit of any base: the loop stops on it.
LEMMA NulNotDigit == DigitOf(NUL) = -1
<1>1. NUL \notin Range(DecimalDigits)
    BY DEF NUL, Range, DecimalDigits
<1>2. NUL \notin Range(LowerLetters)
    BY DEF NUL, Range, LowerLetters
<1>3. NUL \notin Range(UpperLetters)
    BY DEF NUL, Range, UpperLetters
<1> QED BY <1>1, <1>2, <1>3 DEF DigitOf

(***************************************************************************)
(* The overflow test is exact in one direction: when result is at most     *)
(* cutoff, and at most cutlim over it when equal, result * base + digit    *)
(* still fits (UINT_MAX = cutoff * base + cutlim).                          *)
(***************************************************************************)
LEMMA NoOverflowFits ==
    ASSUME NEW base \in 2 .. 16, NEW r \in 0 .. UINT_MAX,
           NEW d \in 0 .. base - 1, ~Overflows(r, d, base)
    PROVE  r * base + d \in 0 .. UINT_MAX
<1> DEFINE q == UINT_MAX \div base
           m == UINT_MAX % base
<1>1. UINT_MAX = q * base + m /\ q \in Nat /\ m \in 0 .. base - 1
    BY UintMaxAssumption, SMT
<1>2. r <= q /\ (r = q => d <= m)
    BY <1>1, SMT DEF Overflows
<1> HIDE DEF q, m
<1>0. r * base \in Nat
    BY UintMaxAssumption, SMT
<1>3. CASE r = q
    <2>1. r * base = q * base
        BY <1>3
    <2> QED BY <1>0, <1>1, <1>2, <1>3, <2>1, SMT
<1>4. CASE r < q
    <2>1. r * base <= (q - 1) * base
        BY <1>1, <1>4, SMT
    <2>2. (q - 1) * base + d <= q * base - 1
        BY <1>1, SMT
    <2> QED BY <1>0, <1>1, <2>1, <2>2, SMT
<1> QED BY <1>1, <1>2, <1>3, <1>4, SMT

\* A pass of the loop that does not break reads a character of the token.
LEMMA DigitInToken ==
    ASSUME NEW Chars, NEW s \in Seq(Chars), NEW i \in Int, NEW base \in Nat,
           IsDigit(CharAt(s, i), base)
    PROVE  i \in 1 .. Len(s) /\ DigitOf(s[i]) \in 0 .. base - 1
BY NulNotDigit DEF IsDigit, CharAt

(***************************************************************************)
(* One pass of the loop body keeps the result within W bits and nptr at    *)
(* most at the terminating NUL: the main loop by the cutoff test, the     *)
(* saturation by UINT_MAX itself, both loops because NUL breaks them.     *)
(***************************************************************************)
LEMMA LoopStepType ==
    ASSUME NEW Chars, NEW s \in Seq(Chars), NEW base \in 2 .. 16,
           NEW st \in LoopStates(s)
    PROVE  LoopStep(s, base, st) \in LoopStates(s)
<1> DEFINE d == DigitOf(CharAt(s, st.at))
<1>1. CASE st.mode = "done" \/ ~IsDigit(CharAt(s, st.at), base)
    BY <1>1 DEF LoopStep, LoopStates
<1>2. CASE ~(st.mode = "done" \/ ~IsDigit(CharAt(s, st.at), base))
    <2>1. st.at \in 1 .. Len(s) /\ d \in 0 .. base - 1
        BY <1>2, DigitInToken DEF LoopStates, CharAt
    <2>2. CASE st.mode = "rest"
        BY <1>2, <2>1, <2>2 DEF LoopStep, LoopStates
    <2>3. CASE st.mode # "rest" /\ Overflows(st.value, d, base)
        BY <1>2, <2>1, <2>3, UintMaxAssumption DEF LoopStep, LoopStates
    <2>4. CASE st.mode # "rest" /\ ~Overflows(st.value, d, base)
        <3>1. st.value * base + d \in 0 .. UINT_MAX
            BY <2>1, <2>4, NoOverflowFits DEF LoopStates
        <3> QED BY <1>2, <2>1, <2>4, <3>1 DEF LoopStep, LoopStates
    <2> QED BY <2>2, <2>3, <2>4
<1> QED BY <1>1, <1>2

\* The loop starts at position p with result 0 in the main loop.
LEMMA LoopRunZero ==
    ASSUME NEW s, NEW p, NEW base
    PROVE  LoopRun(s, p, base)[0] = [value |-> 0, at |-> p, mode |-> "digits"]
<1> DEFINE run == LoopRun(s, p, base)
           st0 == [value |-> 0, at |-> p, mode |-> "digits"]
<1>1. NatInductiveDefHypothesis(run, st0, LAMBDA v, k : LoopStep(s, base, v))
    BY DEF NatInductiveDefHypothesis, LoopRun
<1>2. NatInductiveDefConclusion(run, st0, LAMBDA v, k : LoopStep(s, base, v))
    BY <1>1, NatInductiveDef
<1> QED BY <1>2 DEF NatInductiveDefConclusion

\* The recursion equation of the loop: pass k is one LoopStep after pass k - 1.
LEMMA LoopRunRec ==
    ASSUME NEW s, NEW p, NEW base, NEW k \in Nat \ {0}
    PROVE  LoopRun(s, p, base)[k] = LoopStep(s, base, LoopRun(s, p, base)[k - 1])
<1> DEFINE run == LoopRun(s, p, base)
           st0 == [value |-> 0, at |-> p, mode |-> "digits"]
<1>1. NatInductiveDefHypothesis(run, st0, LAMBDA v, j : LoopStep(s, base, v))
    BY DEF NatInductiveDefHypothesis, LoopRun
<1>2. NatInductiveDefConclusion(run, st0, LAMBDA v, j : LoopStep(s, base, v))
    BY <1>1, NatInductiveDef
<1> QED BY <1>2 DEF NatInductiveDefConclusion

\* The recursion equation of PV: one more character is one more digit.
LEMMA PVRec ==
    ASSUME NEW s, NEW p, NEW base
    PROVE  /\ PV(s, p, base)[0] = 0
           /\ \A m \in Nat : PV(s, p, base)[m + 1]
                  = PV(s, p, base)[m] * base + DigitOf(CharAt(s, p + m))
<1> DEFINE v == PV(s, p, base)
<1>1. NatInductiveDefHypothesis(v, 0, LAMBDA w, m : w * base + DigitOf(CharAt(s, p + m - 1)))
    BY DEF NatInductiveDefHypothesis, PV
<1>2. NatInductiveDefConclusion(v, 0, LAMBDA w, m : w * base + DigitOf(CharAt(s, p + m - 1)))
    BY <1>1, NatInductiveDef
<1>3. \A m \in Nat : v[m + 1] = v[m] * base + DigitOf(CharAt(s, p + (m + 1) - 1))
    BY <1>2 DEF NatInductiveDefConclusion
<1>4. \A m \in Nat : p + (m + 1) - 1 = p + m
    OBVIOUS
<1> QED BY <1>2, <1>3, <1>4 DEF NatInductiveDefConclusion

\* The overflow test is exact in the other direction: an overflowing digit
\* would take result * base + digit past UINT_MAX.
LEMMA OverflowExceeds ==
    ASSUME NEW base \in 2 .. 16, NEW r \in 0 .. UINT_MAX,
           NEW d \in 0 .. base - 1, Overflows(r, d, base)
    PROVE  r * base + d > UINT_MAX
<1> DEFINE q == UINT_MAX \div base
           m == UINT_MAX % base
<1>1. UINT_MAX = q * base + m /\ q \in Nat /\ m \in 0 .. base - 1
    BY UintMaxAssumption, SMT
<1>2. r > q \/ (r = q /\ d > m)
    BY DEF Overflows
<1> HIDE DEF q, m
<1>3. CASE r > q
    <2>1. r * base >= (q + 1) * base
        BY <1>1, <1>3, SMT
    <2> QED BY <1>1, <2>1, SMT
<1>4. CASE r = q /\ d > m
    <2>1. r * base = q * base
        BY <1>4
    <2> QED BY <1>1, <1>4, <2>1, SMT
<1> QED BY <1>2, <1>3, <1>4

\* Once past UINT_MAX, the exact value stays past it as digits are added.
LEMMA PastStaysPast ==
    ASSUME NEW base \in 2 .. 16, NEW v \in Nat, v > UINT_MAX,
           NEW d \in 0 .. base - 1
    PROVE  v * base + d > UINT_MAX /\ v * base + d \in Nat
<1>1. v * base >= v
    BY SMT
<1> QED BY <1>1, UintMaxAssumption, SMT

(***************************************************************************)
(* One pass keeps LoopInv: a break keeps the value and position; the inner *)
(* loop and an overflowing digit leave the exact value past UINT_MAX; any *)
(* other digit extends the exact value, which the cutoff test keeps within  *)
(* UINT_MAX.                                                                *)
(***************************************************************************)
LEMMA LoopInvStep ==
    ASSUME NEW Chars, NEW s \in Seq(Chars), NEW p \in 1 .. Len(s) + 1,
           NEW base \in 2 .. 16, NEW k \in Nat, NEW st,
           LoopInv(s, p, base, k, st)
    PROVE  LoopInv(s, p, base, k + 1, LoopStep(s, base, st))
<1> DEFINE v == PV(s, p, base)
           m == st.at - p
           d == DigitOf(CharAt(s, st.at))
           nx == LoopStep(s, base, st)
<1>1. /\ st \in LoopStates(s)
      /\ st.at \in p .. Len(s) + 1
      /\ \A j \in p .. st.at - 1 : IsDigit(CharAt(s, j), base)
      /\ v[m] \in Nat
      /\ st.mode = "digits" => v[m] <= UINT_MAX /\ st.value = v[m]
      /\ st.mode = "rest" => v[m] > UINT_MAX /\ st.value = UINT_MAX
      /\ st.mode = "done" => /\ st.value = Sat(v[m])
                             /\ ~IsDigit(CharAt(s, st.at), base)
      /\ st.mode = "done" \/ st.at = p + k
    BY DEF LoopInv
<1>2. nx \in LoopStates(s)
    BY <1>1, LoopStepType
<1>3. CASE st.mode = "done" \/ ~IsDigit(CharAt(s, st.at), base)
    <2>1. nx.value = st.value /\ nx.at = st.at /\ nx.mode = "done"
        BY <1>1, <1>3 DEF LoopStep, LoopStates
    <2>2. nx.value = Sat(v[m])
        <3>1. st.mode \in {"digits", "rest", "done"}
            BY <1>1 DEF LoopStates
        <3>2. CASE st.mode = "done"
            BY <1>1, <2>1, <3>2
        <3>3. CASE st.mode = "digits"
            BY <1>1, <2>1, <3>3, UintMaxAssumption DEF Sat
        <3>4. CASE st.mode = "rest"
            BY <1>1, <2>1, <3>4 DEF Sat
        <3> QED BY <3>1, <3>2, <3>3, <3>4
    <2> QED BY <1>1, <1>2, <1>3, <2>1, <2>2 DEF LoopInv
<1>4. CASE st.mode # "done" /\ IsDigit(CharAt(s, st.at), base)
    <2>0. st.at \in Int
        BY <1>1 DEF LoopStates
    <2>1. st.at \in 1 .. Len(s) /\ d \in 0 .. base - 1
        <3>1. st.at \in 1 .. Len(s) /\ DigitOf(s[st.at]) \in 0 .. base - 1
            BY <1>4, <2>0, DigitInToken
        <3> QED BY <3>1 DEF CharAt
    <2>2. st.at = p + k /\ m \in Nat /\ st.at = p + m
        BY <1>1, <1>4
    <2>3. v[m + 1] = v[m] * base + d
        BY <2>2, PVRec
    <2>4. nx.at = st.at + 1 /\ nx.at - p = m + 1
        BY <1>1, <1>4, <2>2 DEF LoopStep, LoopStates
    <2>5. /\ nx.at \in p .. Len(s) + 1
          /\ \A j \in p .. nx.at - 1 : IsDigit(CharAt(s, j), base)
          /\ nx.at = p + (k + 1)
        BY <1>1, <1>4, <2>1, <2>2, <2>4
    <2>6. CASE st.mode = "rest"
        <3>1. nx.value = UINT_MAX /\ nx.mode = "rest"
            BY <1>1, <1>4, <2>6 DEF LoopStep, LoopStates
        <3>2. v[m + 1] > UINT_MAX /\ v[m + 1] \in Nat
            BY <1>1, <2>1, <2>3, <2>6, PastStaysPast
        <3> QED BY <1>2, <2>4, <2>5, <3>1, <3>2 DEF LoopInv
    <2>7. CASE st.mode = "digits" /\ Overflows(st.value, d, base)
        <3>1. nx.value = UINT_MAX /\ nx.mode = "rest"
            BY <1>4, <2>7 DEF LoopStep
        <3>2. st.value \in 0 .. UINT_MAX /\ st.value = v[m]
            BY <1>1, <2>7 DEF LoopStates
        <3>3. v[m] * base + d > UINT_MAX
            BY <2>1, <2>7, <3>2, OverflowExceeds
        <3>4. v[m + 1] > UINT_MAX /\ v[m + 1] \in Nat
            BY <1>1, <2>1, <2>3, <3>3
        <3> QED BY <1>2, <2>4, <2>5, <3>1, <3>4 DEF LoopInv
    <2>8. CASE st.mode = "digits" /\ ~Overflows(st.value, d, base)
        <3>1. nx.value = st.value * base + d /\ nx.mode = "digits"
            BY <1>4, <2>8 DEF LoopStep
        <3>2. st.value \in 0 .. UINT_MAX /\ st.value = v[m]
            BY <1>1, <2>8 DEF LoopStates
        <3>3. v[m] * base + d \in 0 .. UINT_MAX
            BY <2>1, <2>8, <3>2, NoOverflowFits
        <3>4. nx.value = v[m + 1] /\ v[m + 1] \in 0 .. UINT_MAX
            BY <2>3, <3>1, <3>2, <3>3
        <3>5. v[m + 1] \in Nat /\ v[m + 1] <= UINT_MAX
            BY <3>4, UintMaxAssumption
        <3> QED BY <1>2, <2>4, <2>5, <3>1, <3>4, <3>5 DEF LoopInv
    <2> QED BY <1>1, <1>4, <2>6, <2>7, <2>8 DEF LoopStates
<1> QED BY <1>3, <1>4

\* LoopInv holds after every number of passes: the least pass count where
\* it failed would follow a pass count where it held.
LEMMA LoopInvAll ==
    ASSUME NEW Chars, NEW s \in Seq(Chars), NEW p \in 1 .. Len(s) + 1,
           NEW base \in 2 .. 16
    PROVE  \A k \in Nat : LoopInv(s, p, base, k, LoopRun(s, p, base)[k])
<1> DEFINE run == LoopRun(s, p, base)
<1>1. LoopInv(s, p, base, 0, run[0])
    <2>1. run[0] = [value |-> 0, at |-> p, mode |-> "digits"]
        BY LoopRunZero
    <2>2. PV(s, p, base)[0] = 0
        BY PVRec
    <2> QED BY <2>1, <2>2, UintMaxAssumption DEF LoopInv, LoopStates
<1> HIDE DEF run
<1> SUFFICES ASSUME \E k \in Nat : ~LoopInv(s, p, base, k, run[k])
             PROVE  FALSE
    BY DEF run
<1> DEFINE T == {k \in Nat : ~LoopInv(s, p, base, k, run[k])}
<1>2. T \subseteq Nat /\ T # {}
    OBVIOUS
<1>3. PICK k0 \in T : \A j \in T : ~(<<j, k0>> \in OpToRel(<, Nat))
    BY <1>2, WFMin, NatLessThanWellFounded
<1>4. k0 \in Nat /\ k0 # 0
    BY <1>1, <1>3
<1>5. LoopInv(s, p, base, k0 - 1, run[k0 - 1])
    <2>1. k0 - 1 \in Nat /\ k0 - 1 < k0
        BY <1>4
    <2> QED BY <1>3, <2>1 DEF OpToRel
<1>6. run[k0] = LoopStep(s, base, run[k0 - 1])
    BY <1>4, LoopRunRec DEF run
<1>7. LoopInv(s, p, base, (k0 - 1) + 1, LoopStep(s, base, run[k0 - 1]))
    <2>1. k0 - 1 \in Nat
        BY <1>4
    <2> QED BY <1>5, <2>1, LoopInvStep
<1>8. (k0 - 1) + 1 = k0
    BY <1>4
<1> QED BY <1>3, <1>6, <1>7, <1>8

(***************************************************************************)
(* After Len(s) + 1 passes the loop has broken (each earlier pass read one *)
(* character, and there are at most Len(s) before the NUL).  It returns the *)
(* saturated value of the n digits from p, and endptr just after them, on  *)
(* a character that is not a digit.                                         *)
(***************************************************************************)
LEMMA LoopEnd ==
    ASSUME NEW Chars, NEW s \in Seq(Chars), NEW p \in 1 .. Len(s) + 1,
           NEW base \in 2 .. 16
    PROVE  \E n \in 0 .. Len(s) + 1 - p :
              /\ \A j \in p .. p + n - 1 : IsDigit(CharAt(s, j), base)
              /\ ~IsDigit(CharAt(s, p + n), base)
              /\ Accumulate(s, p, base)
                   = [value |-> Sat(PV(s, p, base)[n]), end |-> p + n]
<1> DEFINE st == LoopRun(s, p, base)[Len(s) + 1]
<1>1. LoopInv(s, p, base, Len(s) + 1, st)
    BY LoopInvAll
<1>2. /\ st.at \in p .. Len(s) + 1
      /\ \A j \in p .. st.at - 1 : IsDigit(CharAt(s, j), base)
      /\ st.mode = "done" => /\ st.value = Sat(PV(s, p, base)[st.at - p])
                             /\ ~IsDigit(CharAt(s, st.at), base)
      /\ st.mode = "done" \/ st.at = p + (Len(s) + 1)
    BY <1>1 DEF LoopInv
<1>3. st.mode = "done"
    BY <1>2
<1>4. Accumulate(s, p, base) = [value |-> st.value, end |-> st.at]
    BY DEF Accumulate
<1>5. st.at - p \in 0 .. Len(s) + 1 - p /\ p + (st.at - p) = st.at
    BY <1>2
<1>6. /\ \A j \in p .. p + (st.at - p) - 1 : IsDigit(CharAt(s, j), base)
      /\ ~IsDigit(CharAt(s, p + (st.at - p)), base)
      /\ Accumulate(s, p, base)
           = [value |-> Sat(PV(s, p, base)[st.at - p]), end |-> p + (st.at - p)]
    BY <1>2, <1>3, <1>4, <1>5
<1> QED BY <1>5, <1>6

\* A maximal run of digits from p is unique, so the reference's CHOOSE
\* picks the run the loop read.
LEMMA DigitRunIs ==
    ASSUME NEW Chars, NEW s \in Seq(Chars), NEW p \in 1 .. Len(s) + 1,
           NEW base \in Nat, NEW n \in 0 .. Len(s) + 1 - p,
           \A j \in p .. p + n - 1 : IsDigit(CharAt(s, j), base),
           ~IsDigit(CharAt(s, p + n), base)
    PROVE  DigitRun(s, p, base) = [k \in 1 .. n |-> DigitOf(s[p + k - 1])]
<1> DEFINE IsRun(x) == /\ \A k \in p .. p + x - 1 : IsDigit(CharAt(s, k), base)
                       /\ ~IsDigit(CharAt(s, p + x), base)
<1>1. \A x \in 0 .. Len(s) + 1 - p : IsRun(x) => x = n
    <2> SUFFICES ASSUME NEW x \in 0 .. Len(s) + 1 - p, IsRun(x), x # n
                 PROVE  FALSE
        OBVIOUS
    <2>1. CASE x < n
        <3>1. p + x \in p .. p + n - 1
            BY <2>1
        <3> QED BY <3>1
    <2>2. CASE x > n
        <3>1. p + n \in p .. p + x - 1
            BY <2>2
        <3> QED BY <3>1
    <2> QED BY <2>1, <2>2
<1>2. (CHOOSE x \in 0 .. Len(s) + 1 - p : IsRun(x)) = n
    BY <1>1
<1> QED BY <1>2 DEF DigitRun

\* The reference's value of the digit run is PV: both add one digit at a
\* time, most significant first.
LEMMA NumeralValueIs ==
    ASSUME NEW Chars, NEW s \in Seq(Chars), NEW p \in 1 .. Len(s) + 1,
           NEW base \in Nat, NEW n \in 0 .. Len(s) + 1 - p,
           \A j \in p .. p + n - 1 : IsDigit(CharAt(s, j), base)
    PROVE  NumeralValue([k \in 1 .. n |-> DigitOf(s[p + k - 1])], base)
             = PV(s, p, base)[n]
<1> DEFINE ds == [k \in 1 .. n |-> DigitOf(s[p + k - 1])]
           w == CHOOSE g : g = [k \in Nat |-> IF k = 0 THEN 0 ELSE g[k - 1] * base + ds[k]]
           v == PV(s, p, base)
<1>1. NumeralValue(ds, base) = w[n]
    <2>1. Len(ds) = n
        OBVIOUS
    <2> QED BY <2>1 DEF NumeralValue
<1>2. NatInductiveDefConclusion(w, 0, LAMBDA a, k : a * base + ds[k])
    <2>1. NatInductiveDefHypothesis(w, 0, LAMBDA a, k : a * base + ds[k])
        BY DEF NatInductiveDefHypothesis
    <2> QED BY <2>1, NatInductiveDef
<1>3. w[0] = 0 /\ \A k \in Nat \ {0} : w[k] = w[k - 1] * base + ds[k]
    BY <1>2 DEF NatInductiveDefConclusion
<1>4. \A k \in 1 .. n : v[k] = v[k - 1] * base + ds[k]
    <2> TAKE k \in 1 .. n
    <2>1. p + (k - 1) \in p .. p + n - 1 /\ k - 1 \in Nat
        OBVIOUS
    <2>2. IsDigit(CharAt(s, p + (k - 1)), base)
        BY <2>1
    <2>3. p + (k - 1) \in 1 .. Len(s)
        BY <2>1, <2>2, DigitInToken
    <2>4. CharAt(s, p + (k - 1)) = s[p + k - 1] /\ ds[k] = DigitOf(s[p + k - 1])
        BY <2>3 DEF CharAt
    <2>5. v[(k - 1) + 1] = v[k - 1] * base + DigitOf(CharAt(s, p + (k - 1)))
        BY <2>1, PVRec
    <2> QED BY <2>4, <2>5
<1>5. v[0] = 0
    BY PVRec
<1> HIDE DEF w, v, ds
<1>6. \A k \in 0 .. n : w[k] = v[k]
    <2> SUFFICES ASSUME \E k \in 0 .. n : w[k] # v[k]
                 PROVE  FALSE
        OBVIOUS
    <2> DEFINE T == {k \in 0 .. n : w[k] # v[k]}
    <2>1. T \subseteq Nat /\ T # {}
        OBVIOUS
    <2>2. PICK k0 \in T : \A j \in T : ~(<<j, k0>> \in OpToRel(<, Nat))
        BY <2>1, WFMin, NatLessThanWellFounded
    <2>3. k0 \in 1 .. n
        <3>1. k0 \in 0 .. n /\ w[k0] # v[k0]
            BY <2>2
        <3> QED BY <1>3, <1>5, <3>1
    <2>4. w[k0 - 1] = v[k0 - 1]
        <3>1. k0 - 1 \in 0 .. n /\ k0 - 1 < k0 /\ k0 - 1 \in Nat /\ k0 \in Nat
            BY <2>3
        <3>2. k0 - 1 \notin T
            BY <2>2, <3>1 DEF OpToRel
        <3> QED BY <3>1, <3>2
    <2>5. w[k0] = v[k0]
        BY <1>3, <1>4, <2>3, <2>4
    <2> QED BY <2>2, <2>5
<1>7. n \in 0 .. n
    OBVIOUS
<1> QED BY <1>1, <1>6, <1>7 DEF ds, v

(***************************************************************************)
(* Every pass of the loop, from any starting position in the token, stays *)
(* within the width and the token.                                          *)
(***************************************************************************)
LEMMA LoopRunType ==
    ASSUME NEW Chars, NEW s \in Seq(Chars), NEW p \in 1 .. Len(s) + 1,
           NEW base \in 2 .. 16
    PROVE  LoopRun(s, p, base) \in [Nat -> LoopStates(s)]
<1> DEFINE run == LoopRun(s, p, base)
           st0 == [value |-> 0, at |-> p, mode |-> "digits"]
<1>3. /\ run = [k \in Nat |-> IF k = 0 THEN st0 ELSE LoopStep(s, base, run[k - 1])]
      /\ \A k \in Nat \ {0} : run[k] = LoopStep(s, base, run[k - 1])
    <2>1. NatInductiveDefHypothesis(run, st0, LAMBDA v, k : LoopStep(s, base, v))
        BY DEF NatInductiveDefHypothesis, LoopRun
    <2>2. NatInductiveDefConclusion(run, st0, LAMBDA v, k : LoopStep(s, base, v))
        BY <2>1, NatInductiveDef
    <2> QED BY <2>2 DEF NatInductiveDefConclusion
<1>4. run[0] \in LoopStates(s)
    BY <1>3, UintMaxAssumption DEF LoopStates
<1> HIDE DEF run
<1>5. \A k \in Nat : run[k] \in LoopStates(s)
    <2> SUFFICES ASSUME \E k \in Nat : run[k] \notin LoopStates(s)
                 PROVE  FALSE
        OBVIOUS
    <2> DEFINE T == {k \in Nat : run[k] \notin LoopStates(s)}
    <2>1. T \subseteq Nat /\ T # {}
        OBVIOUS
    <2>2. PICK k0 \in T : \A j \in T : ~(<<j, k0>> \in OpToRel(<, Nat))
        BY <2>1, WFMin, NatLessThanWellFounded
    <2>3. k0 # 0
        BY <1>4, <2>2
    <2>4. run[k0 - 1] \in LoopStates(s)
        <3>0. k0 \in Nat
            BY <2>2
        <3>1. k0 - 1 \in Nat /\ k0 - 1 < k0
            BY <3>0, <2>3
        <3> QED BY <3>1, <2>2 DEF OpToRel
    <2>5. run[k0] \in LoopStates(s)
        BY <1>3, <2>2, <2>3, <2>4, LoopStepType
    <2> QED BY <2>2, <2>5
<1> QED BY <1>3, <1>5 DEF run

\* The whitespace loop stops at the latest on the terminating NUL.
LEMMA SkipSpaceType ==
    ASSUME NEW Chars, NEW s \in Seq(Chars)
    PROVE  SkipSpace(s) \in 1 .. Len(s) + 1
<1> DEFINE T == {i \in 1 .. Len(s) + 1 : CharAt(s, i) \notin WhiteSpace}
<1>1. Len(s) + 1 \in T
    <2>1. Len(s) \in Nat
        OBVIOUS
    <2>2. CharAt(s, Len(s) + 1) = NUL
        BY <2>1 DEF CharAt
    <2>3. NUL \notin WhiteSpace
        BY DEF NUL, WhiteSpace
    <2>4. Len(s) + 1 \in 1 .. Len(s) + 1
        BY <2>1
    <2> QED BY <2>2, <2>3, <2>4
<1>2. T \subseteq Nat /\ T # {}
    BY <1>1
<1>3. PICK i0 \in T : \A j \in T : ~(<<j, i0>> \in OpToRel(<, Nat))
    BY <1>2, WFMin, NatLessThanWellFounded
<1>4. \A j \in 1 .. i0 - 1 : CharAt(s, j) \in WhiteSpace
    <2> TAKE j \in 1 .. i0 - 1
    <2>1. i0 \in 1 .. Len(s) + 1
        BY <1>3
    <2>2. j \in 1 .. Len(s) + 1 /\ j < i0 /\ j \in Nat /\ i0 \in Nat
        BY <2>1, SMT
    <2>3. j \notin T
        BY <1>3, <2>2 DEF OpToRel
    <2> QED BY <2>2, <2>3
<1>5. /\ i0 \in 1 .. Len(s) + 1
      /\ CharAt(s, i0) \notin WhiteSpace
      /\ \A j \in 1 .. i0 - 1 : CharAt(s, j) \in WhiteSpace
    BY <1>3, <1>4
<1> QED BY <1>5 DEF SkipSpace

(***************************************************************************)
(* The whole routine: for any token and any base, the value returned fits *)
(* in W bits and *endptr points into the token or at its NUL.  A sign or a *)
(* "0x" is only stepped over when it is there, so the digits start at most *)
(* at the NUL; an invalid base returns the start of the token.             *)
(***************************************************************************)
LEMMA StrToULLType ==
    ASSUME NEW Chars, NEW s \in Seq(Chars), NEW base \in Nat
    PROVE  simple_strtoull(s, base) \in [value : 0 .. UINT_MAX, end : 1 .. Len(s) + 1]
<1> DEFINE i == SkipSign(s, SkipSpace(s))
           b == IF HasHexPrefix(s, i, base) THEN 16
                ELSE IF base = 0 THEN 10 ELSE base
           p == IF HasHexPrefix(s, i, base) THEN i + 2 ELSE i
<1>1. i \in 1 .. Len(s) + 1
    <2>1. SkipSpace(s) \in 1 .. Len(s) + 1
        BY SkipSpaceType
    <2>2. CharAt(s, SkipSpace(s)) \in {"+", "-"} => SkipSpace(s) \in 1 .. Len(s)
        BY <2>1 DEF CharAt, NUL
    <2> QED BY <2>1, <2>2 DEF SkipSign
<1>2. p \in 1 .. Len(s) + 1
    <2>1. HasHexPrefix(s, i, base) => i + 1 \in 1 .. Len(s)
        BY <1>1 DEF HasHexPrefix, CharAt, NUL
    <2> QED BY <1>1, <2>1
<1>3. b \in Nat
    OBVIOUS
<1>4. CASE b \in 2 .. 16
    <2>0. LoopRun(s, p, b) \in [Nat -> LoopStates(s)]
        BY <1>2, <1>4, LoopRunType
    <2>1. LoopRun(s, p, b)[Len(s) + 1] \in LoopStates(s)
        BY <2>0
    <2>2. Accumulate(s, p, b) \in [value : 0 .. UINT_MAX, end : 1 .. Len(s) + 1]
        BY <2>1 DEF Accumulate, LoopStates
    <2> QED BY <1>4, <2>2 DEF simple_strtoull
<1>5. CASE b \notin 2 .. 16
    BY <1>3, <1>5, UintMaxAssumption DEF simple_strtoull
<1> QED BY <1>4, <1>5

\* After the whitespace and an optional sign, nptr is at most at the NUL.
LEMMA SignStart ==
    ASSUME NEW Chars, NEW s \in Seq(Chars)
    PROVE  SkipSign(s, SkipSpace(s)) \in 1 .. Len(s) + 1
<1>1. SkipSpace(s) \in 1 .. Len(s) + 1
    BY SkipSpaceType
<1>2. CharAt(s, SkipSpace(s)) \in {"+", "-"} => SkipSpace(s) \in 1 .. Len(s)
    BY <1>1 DEF CharAt, NUL
<1> QED BY <1>1, <1>2 DEF SkipSign

\* A "0x" prefix is stepped over only when both characters are in the token.
LEMMA PrefixStart ==
    ASSUME NEW Chars, NEW s \in Seq(Chars), NEW i \in 1 .. Len(s) + 1,
           NEW base, HasHexPrefix(s, i, base)
    PROVE  i + 2 \in 1 .. Len(s) + 1
<1>1. i + 1 \in 1 .. Len(s)
    BY DEF HasHexPrefix, CharAt, NUL
<1> QED BY <1>1

(***************************************************************************)
(* simple_strtoull(s, &endptr, 0), as every shell handler calls it, returns *)
(* for any token what the reference says a numeral denotes: the exact      *)
(* value of the longest digit run after space, sign and prefix, saturated  *)
(* at UINT_MAX, and endptr just after that run.                            *)
(***************************************************************************)
LEMMA MatchesReference ==
    ASSUME NEW Chars, NEW s \in Seq(Chars)
    PROVE  simple_strtoull(s, 0) = ReferenceParse(s)
<1> DEFINE i == SkipSign(s, SkipSpace(s))
           hex == HasHexPrefix(s, i, 0)
           b == IF hex THEN 16 ELSE 10
           p == IF hex THEN i + 2 ELSE i
<1>1. i \in 1 .. Len(s) + 1
    BY SignStart
<1>2. p \in 1 .. Len(s) + 1 /\ b \in 2 .. 16
    BY <1>1, PrefixStart
<1>3. simple_strtoull(s, 0) = Accumulate(s, p, b)
    BY <1>2 DEF simple_strtoull
<1>4. DigitsStart(s) = [at |-> p, base |-> b]
    BY DEF DigitsStart
<1> HIDE DEF i, hex, b, p
<1>5. PICK n \in 0 .. Len(s) + 1 - p :
          /\ \A j \in p .. p + n - 1 : IsDigit(CharAt(s, j), b)
          /\ ~IsDigit(CharAt(s, p + n), b)
          /\ Accumulate(s, p, b) = [value |-> Sat(PV(s, p, b)[n]), end |-> p + n]
    BY <1>2, LoopEnd
<1> DEFINE ds == [k \in 1 .. n |-> DigitOf(s[p + k - 1])]
<1>6. DigitRun(s, p, b) = ds
    BY <1>2, <1>5, DigitRunIs
<1>7. NumeralValue(ds, b) = PV(s, p, b)[n] /\ Len(ds) = n
    BY <1>2, <1>5, NumeralValueIs
<1> HIDE DEF ds
<1> QED BY <1>3, <1>4, <1>5, <1>6, <1>7 DEF ReferenceParse, Sat

\* The token holds at least one character.
LEMMA MaxTokenPos == MaxToken \in Nat \ {0}
BY TokenAssumption

\* Typing and erasing keep a non-empty token of at most MaxToken characters.
LEMMA TokenStep ==
    ASSUME ParseTypeOK, [ParseNext]_vars
    PROVE  tok' \in Seq(Alphabet) /\ Len(tok') \in 1 .. MaxToken
<1>1. CASE \E c \in Alphabet : TypeChar(c)
    <2>1. PICK c \in Alphabet : TypeChar(c)
        BY <1>1
    <2>2. tok' = Append(tok, c) /\ Len(tok) < MaxToken
        BY <2>1 DEF TypeChar
    <2>3. Append(tok, c) \in Seq(Alphabet) /\ Len(Append(tok, c)) = Len(tok) + 1
        BY AppendProperties DEF ParseTypeOK
    <2>4. Len(tok) + 1 \in 1 .. MaxToken
        BY <2>2, MaxTokenPos DEF ParseTypeOK
    <2> QED BY <2>2, <2>3, <2>4
<1>2. CASE Erase
    <2>1. tok' = SubSeq(tok, 1, Len(tok) - 1) /\ Len(tok) > 1
        BY <1>2 DEF Erase, Front
    <2>2. \A i \in 1 .. Len(tok) - 1 : tok[i] \in Alphabet
        BY DEF ParseTypeOK
    <2>3. /\ SubSeq(tok, 1, Len(tok) - 1) \in Seq(Alphabet)
          /\ Len(SubSeq(tok, 1, Len(tok) - 1)) = Len(tok) - 1
        BY <2>1, <2>2, SubSeqProperties DEF ParseTypeOK
    <2>4. Len(tok) - 1 \in 1 .. MaxToken
        BY <2>1, MaxTokenPos DEF ParseTypeOK
    <2> QED BY <2>1, <2>3, <2>4
<1>3. CASE UNCHANGED vars
    BY <1>3 DEF vars, ParseTypeOK
<1> QED BY <1>1, <1>2, <1>3 DEF ParseNext

(***************************************************************************)
(* For every width W and every alphabet, the number a shell handler parses *)
(* from the token typed so far fits in W bits and its *endptr lies within *)
(* the token or on its NUL, so the handler's test *endptr != '\0' reads   *)
(* inside the command buffer (shell_loop, simple_strtoull).                *)
(***************************************************************************)
THEOREM ParseTypeCorrect == ParseSpec => []ParseTypeOK
<1>1. ParseInit => ParseTypeOK
    <2> SUFFICES ASSUME ParseInit PROVE ParseTypeOK
        OBVIOUS
    <2>1. PICK c \in Alphabet : tok = <<c>>
        BY DEF ParseInit
    <2>2. tok \in Seq(Alphabet) /\ Len(tok) = 1
        BY <2>1
    <2>3. res = simple_strtoull(tok, 0)
        BY DEF ParseInit
    <2>4. simple_strtoull(tok, 0) \in [value : 0 .. UINT_MAX, end : 1 .. Len(tok) + 1]
        BY <2>2, StrToULLType
    <2>5. Len(tok) \in 1 .. MaxToken
        BY <2>2, MaxTokenPos
    <2> QED BY <2>2, <2>3, <2>4, <2>5 DEF ParseTypeOK
<1>2. ParseTypeOK /\ [ParseNext]_vars => ParseTypeOK'
    <2> SUFFICES ASSUME ParseTypeOK, [ParseNext]_vars PROVE ParseTypeOK'
        OBVIOUS
    <2>1. tok' \in Seq(Alphabet) /\ Len(tok') \in 1 .. MaxToken
        BY TokenStep
    <2>2. CASE UNCHANGED vars
        BY <2>2 DEF vars, ParseTypeOK
    <2>3. CASE ParseNext
        <3>1. res' = simple_strtoull(tok', 0)
            BY <2>3 DEF ParseNext, TypeChar, Erase
        <3>2. simple_strtoull(tok', 0) \in [value : 0 .. UINT_MAX, end : 1 .. Len(tok') + 1]
            BY <2>1, StrToULLType
        <3> QED BY <2>1, <3>1, <3>2 DEF ParseTypeOK
    <2> QED BY <2>2, <2>3
<1> QED BY <1>1, <1>2, PTL DEF ParseSpec

\* The handler's result is the parse of the token typed so far.
ResIsParse == res = simple_strtoull(tok, 0)

(***************************************************************************)
(* For every width W, alphabet and token bound, what a shell handler gets  *)
(* from simple_strtoull for the token typed so far is the numeral's value  *)
(* saturated at UINT_MAX, with endptr just after its last digit: the      *)
(* cutoff/cutlim test, the saturation and the inner loop that consumes an  *)
(* overflowing numeral compute what the numeral denotes.                  *)
(***************************************************************************)
THEOREM ParseMatchesReferenceHolds == ParseSpec => []ParseMatchesReference
<1>1. ParseInit => ResIsParse
    BY DEF ParseInit, ResIsParse
<1>2. ResIsParse /\ [ParseNext]_vars => ResIsParse'
    BY DEF ResIsParse, ParseNext, TypeChar, Erase, vars
<1>3. ParseTypeOK /\ ResIsParse => ParseMatchesReference
    BY MatchesReference DEF ParseTypeOK, ResIsParse, ParseMatchesReference
<1> QED BY <1>1, <1>2, <1>3, ParseTypeCorrect, PTL DEF ParseSpec
====
