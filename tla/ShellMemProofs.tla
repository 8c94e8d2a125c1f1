---------------------------- MODULE ShellMemProofs ----------------------------
(***************************************************************************)
(* Proofs about ShellMem, for every width, RAM layout and set of arguments: *)
(* memdump, peek and poke stay inside RAM except in a memdump whose range  *)
(* wraps past 2^W, and memdump reads the requested bytes and no other.     *)
(***************************************************************************)
EXTENDS ShellMem, TLAPS

\* M is an integer above the highest RAM address, and RAM is not empty
\* below it.
LEMMA WidthFacts ==
    /\ M \in Nat /\ PMM_RAM_BASE \in Nat /\ HighestRam \in Nat
    /\ 1 <= PMM_RAM_BASE /\ PMM_RAM_BASE <= HighestRam /\ HighestRam <= M - 8
PROOF
<1>1. M \in Nat
  BY ShellAssumption DEF M
<1>. QED
  BY <1>1, ShellAssumption

\* The shell's state is well formed: memdump's address, length and counter
\* are W-bit values, a running loop has a non-zero length, and every byte
\* touched is a W-bit address.
ShellTypeOK ==
    /\ pc \in {"prompt", "dump"}
    /\ dump \in [addr : 0 .. M - 1, length : 0 .. M - 1, i : 0 .. M - 1]
    /\ pc = "dump" => dump.length \in 1 .. M - 1
    /\ dumped \subseteq 0 .. M - 1
    /\ touched \subseteq 0 .. M - 1

\* The strengthening of AccessInRamUnlessWrapped: a running dump was
\* validated, so it starts in RAM and its range either ends at or below the
\* highest address or wraps past 2^W.
IInv ==
    /\ ShellTypeOK
    /\ AccessInRamUnlessWrapped
    /\ pc = "dump" =>
          /\ dump.addr \in PMM_RAM_BASE .. HighestRam - 1
          /\ \/ dump.addr + dump.length <= HighestRam
             \/ dump.addr + dump.length > M

\* Reduction modulo 2^W leaves a value below 2^W alone.
LEMMA ModSmall ==
    ASSUME NEW x \in Nat, x < M
    PROVE  x % M = x
BY WidthFacts

(***************************************************************************)
(* A range of non-zero length that is_address_valid accepts starts in RAM, *)
(* and it either ends at or below the highest address or wraps past 2^W.  *)
(***************************************************************************)
LEMMA ValidRange ==
    ASSUME NEW a \in 0 .. M - 1, NEW len \in 1 .. M - 1,
           is_address_valid(a, len)
    PROVE  /\ a \in PMM_RAM_BASE .. HighestRam - 1
           /\ a + len <= HighestRam \/ a + len > M
<1>1. a \in PMM_RAM_BASE .. HighestRam - 1
  BY WidthFacts DEF is_address_valid
<1>2. CASE a + len <= M
  <2>1. (a + len - 1) % M = a + len - 1
    BY <1>1, <1>2, WidthFacts, ModSmall
  <2>. QED
    BY <1>1, <2>1, WidthFacts DEF is_address_valid
<1>3. CASE a + len > M
  BY <1>1, <1>3
<1>. QED
  BY <1>2, <1>3, WidthFacts

\* The bytes of a range that lies in RAM are RAM addresses.
LEMMA SpanInRam ==
    ASSUME NEW a \in PMM_RAM_BASE .. HighestRam - 1, NEW len \in Nat,
           a + len <= HighestRam
    PROVE  Span(a, len) \subseteq PMM_RAM_BASE .. HighestRam - 1
<1>1. \A k \in 0 .. len - 1 : (a + k) % M = a + k
  BY WidthFacts, ModSmall
<1>. QED
  BY <1>1, WidthFacts DEF Span

(***************************************************************************)
(* A peek or poke access of at most 8 bytes that is_address_valid accepts  *)
(* lies in RAM: the highest address sits 8 bytes below 2^W, so it cannot   *)
(* wrap.                                                                    *)
(***************************************************************************)
LEMMA ValidSmall ==
    ASSUME NEW a \in 0 .. M - 1, NEW len \in 1 .. 8, is_address_valid(a, len)
    PROVE  Span(a, len) \subseteq PMM_RAM_BASE .. HighestRam - 1
<1>1. len \in 1 .. M - 1
  BY WidthFacts
<1>2. a \in PMM_RAM_BASE .. HighestRam - 1 /\ a + len <= HighestRam
  BY <1>1, ValidRange, WidthFacts
<1>. QED
  BY <1>2, SpanInRam

\* An accepted argument carries a value of its set.
LEMMA ArgValue ==
    ASSUME NEW V, NEW a \in Arg(V), a.ok
    PROVE  a.value \in V
BY DEF Arg

\* The peek/poke size is 0 (an error) or one of 1, 2, 4, 8.
LEMMA SizeRange == \A sz : SizeBytes(sz) \in {0, 1, 2, 4, 8}
BY DEF SizeBytes

\* A range's bytes are addresses of the W-bit space.
LEMMA SpanType ==
    ASSUME NEW a \in Int, NEW len \in Nat
    PROVE  Span(a, len) \subseteq 0 .. M - 1
BY WidthFacts DEF Span

\* Every step keeps the type invariant, whatever the arguments.
LEMMA TypeStep == ShellTypeOK /\ [Next]_vars => ShellTypeOK'
<1> SUFFICES ASSUME ShellTypeOK, [Next]_vars PROVE ShellTypeOK'
  OBVIOUS
<1>0. M \in Nat /\ M > 0 BY WidthFacts
<1>1. ASSUME NEW a \in Arg(Addrs), NEW l \in Arg(Lengths) \cup {Absent},
             Memdump(a, l)
      PROVE  ShellTypeOK'
  <2> DEFINE length == IF l = Absent THEN DefaultLength ELSE l.value
  <2>1. CASE ~a.ok \/ (l # Absent /\ ~l.ok) \/ length = 0
                \/ ~is_address_valid(a.value, length)
    BY <1>1, <2>1 DEF Memdump, Refuse, ShellTypeOK
  <2>2. CASE ~(~a.ok \/ (l # Absent /\ ~l.ok) \/ length = 0
                 \/ ~is_address_valid(a.value, length))
    <3>1. a.value \in 0 .. M - 1 BY <2>2, ArgValue, ShellAssumption
    <3>2. length \in 1 .. M - 1
      <4>1. CASE l = Absent BY <2>2, <4>1, ShellAssumption, WidthFacts
      <4>2. CASE l # Absent
        <5>1. l \in [ok : {TRUE}, value : Lengths] BY <2>2, <4>2 DEF Arg
        <5>2. length = l.value /\ l.value \in Lengths /\ length # 0
          BY <2>2, <4>2, <5>1
        <5>3. Lengths \subseteq 0 .. M - 1 BY ShellAssumption
        <5>4. l.value \in 0 .. M - 1 BY <5>2, <5>3
        <5>5. l.value # 0 BY <4>2, <5>2
        <5>6. l.value \in 1 .. M - 1 BY <5>4, <5>5, WidthFacts
        <5>. QED BY <4>2, <5>2, <5>6
      <4>. QED BY <4>1, <4>2
    <3>3. /\ pc' = "dump"
          /\ dump' = [addr |-> a.value, length |-> length, i |-> 0]
          /\ dumped' = {} /\ touched' = {}
      BY <1>1, <2>2, Zenon DEF Memdump
    <3>. QED BY <3>1, <3>2, <3>3, <1>0 DEF ShellTypeOK
  <2>. QED BY <2>1, <2>2
<1>2. CASE DumpLine
  <2>1. /\ dump.addr \in 0 .. M - 1 /\ dump.i \in 0 .. M - 1
        /\ dump.length \in 0 .. M - 1
    BY DEF ShellTypeOK
  <2>2. {(dump.addr + dump.i + j) % M :
            j \in {j \in 0 .. LINE - 1 : dump.i + j < dump.length}}
          \subseteq 0 .. M - 1
    BY <2>1, <1>0 DEF LINE
  <2>3. (dump.i + LINE) % M \in 0 .. M - 1 BY <2>1, <1>0 DEF LINE
  <2>. QED BY <1>2, <2>1, <2>2, <2>3 DEF DumpLine, ShellTypeOK
<1>3. CASE DumpEnd
  BY <1>3 DEF DumpEnd, ShellTypeOK
<1>4. ASSUME NEW a \in Arg(Addrs), NEW sz \in SizeArgs \cup {Absent}, Peek(a, sz)
      PROVE  ShellTypeOK'
  <2>1. CASE ~a.ok \/ SizeBytes(sz) = 0 \/ ~is_address_valid(a.value, SizeBytes(sz))
    BY <1>4, <2>1 DEF Peek, Refuse, ShellTypeOK
  <2>2. CASE ~(~a.ok \/ SizeBytes(sz) = 0 \/ ~is_address_valid(a.value, SizeBytes(sz)))
    <3>1. a.value \in Int /\ SizeBytes(sz) \in Nat
      <4>1. a.value \in 0 .. M - 1 BY <2>2, ArgValue, ShellAssumption
      <4>2. SizeBytes(sz) \in {0, 1, 2, 4, 8} BY SizeRange
      <4>. QED BY <4>1, <4>2, WidthFacts
    <3>2. Span(a.value, SizeBytes(sz)) \subseteq 0 .. M - 1 BY <3>1, SpanType
    <3>. QED BY <1>4, <2>2, <3>2 DEF Peek, ShellTypeOK
  <2>. QED BY <2>1, <2>2
<1>5. ASSUME NEW a \in Arg(Addrs), NEW v \in BOOLEAN,
             NEW sz \in SizeArgs \cup {Absent}, Poke(a, v, sz)
      PROVE  ShellTypeOK'
  <2>1. CASE ~a.ok \/ ~v \/ SizeBytes(sz) = 0
             \/ ~is_address_valid(a.value, SizeBytes(sz))
    BY <1>5, <2>1 DEF Poke, Refuse, ShellTypeOK
  <2>2. CASE ~(~a.ok \/ ~v \/ SizeBytes(sz) = 0
               \/ ~is_address_valid(a.value, SizeBytes(sz)))
    <3>1. a.value \in Int /\ SizeBytes(sz) \in Nat
      <4>1. a.value \in 0 .. M - 1 BY <2>2, ArgValue, ShellAssumption
      <4>2. SizeBytes(sz) \in {0, 1, 2, 4, 8} BY SizeRange
      <4>. QED BY <4>1, <4>2, WidthFacts
    <3>2. Span(a.value, SizeBytes(sz)) \subseteq 0 .. M - 1 BY <3>1, SpanType
    <3>. QED BY <1>5, <2>2, <3>2 DEF Poke, ShellTypeOK
  <2>. QED BY <2>1, <2>2
<1>6. CASE UNCHANGED vars
  BY <1>6 DEF vars, ShellTypeOK
<1>. QED
  BY <1>1, <1>2, <1>3, <1>4, <1>5, <1>6 DEF Next

\* A longer prefix of a range holds the bytes of a shorter one.
LEMMA SpanMono ==
    ASSUME NEW a \in Int, NEW n \in Nat, NEW m \in Nat, n <= m
    PROVE  Span(a, n) \subseteq Span(a, m)
BY DEF Span

\* The length memdump forms from an accepted optional argument is one of the
\* parsed lengths or the default, a W-bit value.
LEMMA LengthValue ==
    ASSUME NEW l \in Arg(Lengths) \cup {Absent}, l # Absent => l.ok
    PROVE  (IF l = Absent THEN DefaultLength ELSE l.value) \in 0 .. M - 1
<1>1. CASE l = Absent
  BY <1>1, ShellAssumption
<1>2. CASE l # Absent
  <2>1. l \in [ok : {TRUE}, value : Lengths]
    BY <1>2 DEF Arg
  <2>. QED
    BY <1>2, <2>1, ShellAssumption
<1>. QED
  BY <1>1, <1>2

THEOREM IInvInit == Init => IInv
BY WidthFacts DEF Init, IInv, ShellTypeOK, AccessInRamUnlessWrapped

(***************************************************************************)
(* Every step keeps IInv, for every width, layout and argument set.        *)
(***************************************************************************)
THEOREM IInvStep == IInv /\ [Next]_vars => IInv'
<1> SUFFICES ASSUME IInv, [Next]_vars PROVE IInv'
  OBVIOUS
<1>0. /\ M \in Nat /\ PMM_RAM_BASE \in Nat /\ HighestRam \in Nat
      /\ 1 <= PMM_RAM_BASE /\ PMM_RAM_BASE <= HighestRam /\ HighestRam <= M - 8
      /\ ShellTypeOK'
  BY WidthFacts, TypeStep DEF IInv
<1>1. ASSUME NEW a \in Arg(Addrs), NEW l \in Arg(Lengths) \cup {Absent},
             Memdump(a, l)
      PROVE  IInv'
  <2> DEFINE length == IF l = Absent THEN DefaultLength ELSE l.value
  <2>1. CASE ~a.ok \/ (l # Absent /\ ~l.ok) \/ length = 0
                \/ ~is_address_valid(a.value, length)
    BY <1>0, <1>1, <2>1 DEF Memdump, Refuse, IInv, AccessInRamUnlessWrapped
  <2>2. CASE ~(~a.ok \/ (l # Absent /\ ~l.ok) \/ length = 0
                 \/ ~is_address_valid(a.value, length))
    <3>1. a.value \in 0 .. M - 1
      BY <2>2, ArgValue, ShellAssumption
    <3>2. length \in 1 .. M - 1
      BY <2>2, LengthValue, <1>0
    <3>3. /\ a.value \in PMM_RAM_BASE .. HighestRam - 1
          /\ a.value + length <= HighestRam \/ a.value + length > M
      BY <2>2, <3>1, <3>2, ValidRange
    <3>4. /\ pc' = "dump"
          /\ dump' = [addr |-> a.value, length |-> length, i |-> 0]
          /\ touched' = {}
      BY <1>1, <2>2, Zenon DEF Memdump
    <3>. QED
      BY <1>0, <3>3, <3>4 DEF IInv, AccessInRamUnlessWrapped
  <2>. QED
    BY <2>1, <2>2
<1>2. CASE DumpLine
  <2> DEFINE line == {(dump.addr + dump.i + j) % M :
                          j \in {j \in 0 .. LINE - 1 : dump.i + j < dump.length}}
  <2>1. /\ pc = "dump"
        /\ dump.addr \in PMM_RAM_BASE .. HighestRam - 1
        /\ dump.addr + dump.length <= HighestRam \/ dump.addr + dump.length > M
        /\ dump.i \in 0 .. M - 1 /\ dump.length \in 0 .. M - 1
    BY <1>2 DEF DumpLine, IInv, ShellTypeOK
  <2>2. /\ touched' = line /\ pc' = pc
        /\ dump'.addr = dump.addr /\ dump'.length = dump.length
    BY <1>2, <2>1 DEF DumpLine, IInv, ShellTypeOK
  <2>3. CASE dump.addr + dump.length <= HighestRam
    <3>1. ASSUME NEW j \in {j \in 0 .. LINE - 1 : dump.i + j < dump.length}
          PROVE  (dump.addr + dump.i + j) % M \in PMM_RAM_BASE .. HighestRam - 1
      <4>0. j \in Nat /\ dump.i + j < dump.length
        BY DEF LINE
      <4>1. dump.addr + dump.i + j \in Nat /\ dump.addr + dump.i + j < HighestRam
        BY <4>0, <2>1, <2>3, <1>0
      <4>2. (dump.addr + dump.i + j) % M = dump.addr + dump.i + j
        BY <4>1, <1>0, ModSmall
      <4>. QED
        BY <4>1, <4>2, <2>1, <1>0
    <3>2. line \subseteq PMM_RAM_BASE .. HighestRam - 1
      BY <3>1
    <3>. QED
      BY <1>0, <2>1, <2>2, <2>3, <3>2 DEF IInv, AccessInRamUnlessWrapped
  <2>4. CASE dump.addr + dump.length > M
    BY <1>0, <2>1, <2>2, <2>4 DEF IInv, AccessInRamUnlessWrapped
  <2>. QED
    BY <2>1, <2>3, <2>4
<1>3. CASE DumpEnd
  BY <1>0, <1>3 DEF DumpEnd, IInv, AccessInRamUnlessWrapped
<1>4. ASSUME NEW a \in Arg(Addrs), NEW sz \in SizeArgs \cup {Absent}, Peek(a, sz)
      PROVE  IInv'
  <2>1. CASE ~a.ok \/ SizeBytes(sz) = 0 \/ ~is_address_valid(a.value, SizeBytes(sz))
    BY <1>0, <1>4, <2>1 DEF Peek, Refuse, IInv, AccessInRamUnlessWrapped
  <2>2. CASE ~(~a.ok \/ SizeBytes(sz) = 0 \/ ~is_address_valid(a.value, SizeBytes(sz)))
    <3>1. a.value \in 0 .. M - 1 /\ SizeBytes(sz) \in 1 .. 8
      <4>1. a.value \in 0 .. M - 1
        BY <2>2, ArgValue, ShellAssumption
      <4>2. SizeBytes(sz) \in {1, 2, 4, 8}
        BY <2>2, SizeRange
      <4>. QED
        BY <4>1, <4>2
    <3>2. Span(a.value, SizeBytes(sz)) \subseteq PMM_RAM_BASE .. HighestRam - 1
      BY <2>2, <3>1, ValidSmall
    <3>. QED
      BY <1>0, <1>4, <2>2, <3>2 DEF Peek, IInv, AccessInRamUnlessWrapped
  <2>. QED
    BY <2>1, <2>2
<1>5. ASSUME NEW a \in Arg(Addrs), NEW v \in BOOLEAN,
             NEW sz \in SizeArgs \cup {Absent}, Poke(a, v, sz)
      PROVE  IInv'
  <2>1. CASE ~a.ok \/ ~v \/ SizeBytes(sz) = 0
             \/ ~is_address_valid(a.value, SizeBytes(sz))
    BY <1>0, <1>5, <2>1 DEF Poke, Refuse, IInv, AccessInRamUnlessWrapped
  <2>2. CASE ~(~a.ok \/ ~v \/ SizeBytes(sz) = 0
               \/ ~is_address_valid(a.value, SizeBytes(sz)))
    <3>1. a.value \in 0 .. M - 1 /\ SizeBytes(sz) \in 1 .. 8
      <4>1. a.value \in 0 .. M - 1
        BY <2>2, ArgValue, ShellAssumption
      <4>2. SizeBytes(sz) \in {1, 2, 4, 8}
        BY <2>2, SizeRange
      <4>. QED
        BY <4>1, <4>2
    <3>2. Span(a.value, SizeBytes(sz)) \subseteq PMM_RAM_BASE .. HighestRam - 1
      BY <2>2, <3>1, ValidSmall
    <3>. QED
      BY <1>0, <1>5, <2>2, <3>2 DEF Poke, IInv, AccessInRamUnlessWrapped
  <2>. QED
    BY <2>1, <2>2
<1>6. CASE UNCHANGED vars
  BY <1>0, <1>6 DEF vars, IInv, AccessInRamUnlessWrapped
<1>. QED
  BY <1>1, <1>2, <1>3, <1>4, <1>5, <1>6 DEF Next

(***************************************************************************)
(* memdump, peek and poke touch only RAM, for every width, RAM layout and  *)
(* argument set, except while a memdump whose range [addr, addr + length)  *)
(* wraps past 2^W runs: is_address_valid is sound exactly where            *)
(* addr + len - 1 does not wrap.                                           *)
(***************************************************************************)
THEOREM AccessInRamUnlessWrappedInvariant == Spec => []AccessInRamUnlessWrapped
<1>1. IInv => AccessInRamUnlessWrapped
  BY DEF IInv
<1>. QED
  BY <1>1, IInvInit, IInvStep, PTL DEF Spec
-----------------------------------------------------------------------------
\* The strengthening of DumpReadsPrefix: the types.
DInv == ShellTypeOK /\ DumpReadsPrefix

(***************************************************************************)
(* One memdump line extends the bytes read so far: the first n bytes of    *)
(* the range and the bytes n + j, j < 16, below the length are the first  *)
(* min(n + 16, len) bytes.                                                 *)
(***************************************************************************)
LEMMA SpanExtend ==
    ASSUME NEW a \in Int, NEW n \in Nat, NEW len \in Nat, n < len
    PROVE  Span(a, n) \cup {(a + n + j) % M : j \in {j \in 0 .. LINE - 1 : n + j < len}}
             = Span(a, IF n + LINE < len THEN n + LINE ELSE len)
<1> DEFINE e == IF n + LINE < len THEN n + LINE ELSE len
           Line == {(a + n + j) % M : j \in {j \in 0 .. LINE - 1 : n + j < len}}
<1>0. e \in Nat /\ n <= e BY DEF LINE
<1>1. Span(a, n) \subseteq Span(a, e) BY <1>0 DEF Span
<1>2. Line \subseteq Span(a, e)
  <2> SUFFICES ASSUME NEW j \in {j \in 0 .. LINE - 1 : n + j < len}
               PROVE  (a + n + j) % M \in Span(a, e)
    BY DEF Span
  <2>1. n + j \in 0 .. e - 1 /\ a + n + j = a + (n + j) BY DEF LINE
  <2>. QED BY <2>1 DEF Span
<1>3. Span(a, e) \subseteq Span(a, n) \cup Line
  <2> SUFFICES ASSUME NEW k \in 0 .. e - 1
               PROVE  (a + k) % M \in Span(a, n) \cup Line
    BY DEF Span
  <2>1. CASE k < n BY <2>1 DEF Span
  <2>2. CASE k >= n
    <3>1. k - n \in {j \in 0 .. LINE - 1 : n + j < len} BY <2>2 DEF LINE
    <3>2. a + k = a + n + (k - n) BY <2>2
    <3>. QED BY <3>1, <3>2
  <2>. QED BY <2>1, <2>2
<1>. QED BY <1>1, <1>2, <1>3

(***************************************************************************)
(* Every step keeps DInv, for every width, layout and argument set.        *)
(***************************************************************************)
LEMMA DInvStep == DInv /\ [Next]_vars => DInv'
<1> SUFFICES ASSUME DInv, [Next]_vars PROVE DInv'
  OBVIOUS
<1>0. /\ M \in Nat /\ M > 0
      /\ ShellTypeOK'
  BY WidthFacts, TypeStep DEF DInv
<1>1. ASSUME NEW a \in Arg(Addrs), NEW l \in Arg(Lengths) \cup {Absent},
             Memdump(a, l)
      PROVE  DInv'
  <2> DEFINE length == IF l = Absent THEN DefaultLength ELSE l.value
  <2>1. CASE ~a.ok \/ (l # Absent /\ ~l.ok) \/ length = 0
                \/ ~is_address_valid(a.value, length)
    BY <1>0, <1>1, <2>1 DEF Memdump, Refuse, DInv, DumpReadsPrefix
  <2>2. CASE ~(~a.ok \/ (l # Absent /\ ~l.ok) \/ length = 0
                 \/ ~is_address_valid(a.value, length))
    <3>1. /\ pc' = "dump"
          /\ dump' = [addr |-> a.value, length |-> length, i |-> 0]
          /\ dumped' = {}
      BY <1>1, <2>2, Zenon DEF Memdump
    <3>2. length \in 0 .. M - 1
      BY <2>2, LengthValue
    <3>3. Span(a.value, IF 0 < length THEN 0 ELSE length) = {}
      BY <3>2 DEF Span
    <3>. QED
      BY <1>0, <3>1, <3>3 DEF DInv, DumpReadsPrefix
  <2>. QED
    BY <2>1, <2>2
<1>2. CASE DumpLine
  <2> DEFINE a == dump.addr
             n == dump.i
             len == dump.length
             line == {(a + n + j) % M : j \in {j \in 0 .. LINE - 1 : n + j < len}}
             e == IF n + LINE < len THEN n + LINE ELSE len
  <2>1. /\ a \in 0 .. M - 1 /\ n \in 0 .. M - 1 /\ len \in 0 .. M - 1
        /\ pc = "dump" /\ n < len
        /\ Span(a, n) \subseteq dumped /\ dumped \subseteq Span(a, len)
    BY <1>2 DEF DumpLine, DInv, ShellTypeOK, DumpReadsPrefix
  <2>2. /\ pc' = "dump"
        /\ dump' = [dump EXCEPT !.i = (n + LINE) % M]
        /\ dumped' = dumped \cup line
    BY <1>2, <2>1 DEF DumpLine
  <2>3. dump'.addr = a /\ dump'.length = len /\ dump'.i = (n + LINE) % M
    BY <2>2, <2>1 DEF DInv, ShellTypeOK
  <2>4. Span(a, n) \cup line = Span(a, e)
    <3>1. a \in Int /\ n \in Nat /\ len \in Nat /\ n < len
      BY <2>1, <1>0
    <3>. QED
      BY <3>1, SpanExtend DEF line, e
  <2>5. line \subseteq Span(a, len)
    <3>1. a \in Int /\ e \in Nat /\ len \in Nat /\ e <= len
      BY <2>1, <1>0 DEF LINE
    <3>2. Span(a, e) \subseteq Span(a, len)
      BY <3>1, SpanMono
    <3>. QED
      BY <2>4, <3>2
  <2>6. Span(a, IF dump'.i < dump'.length THEN dump'.i ELSE dump'.length)
          \subseteq Span(a, e)
    <3>1. (n + LINE) % M \in Nat /\ (n + LINE) % M <= n + LINE
      BY <2>1, <1>0 DEF LINE
    <3>2. e \in Nat /\ a \in Int /\ len \in Nat
      BY <2>1, <1>0 DEF LINE
    <3>3. (IF (n + LINE) % M < len THEN (n + LINE) % M ELSE len) \in Nat
          /\ (IF (n + LINE) % M < len THEN (n + LINE) % M ELSE len) <= e
      BY <3>1, <2>1, <1>0 DEF LINE
    <3>. QED
      BY <2>3, <3>2, <3>3, SpanMono
  <2>. QED
    <3>1. dumped' \subseteq Span(a, len)
      BY <2>1, <2>2, <2>5
    <3>. QED
      BY <1>0, <2>1, <2>2, <2>3, <2>4, <2>6, <3>1 DEF DInv, DumpReadsPrefix
<1>3. CASE DumpEnd
  BY <1>0, <1>3 DEF DumpEnd, DInv, DumpReadsPrefix
<1>4. ASSUME NEW a \in Arg(Addrs), NEW sz \in SizeArgs \cup {Absent}, Peek(a, sz)
      PROVE  DInv'
  <2>1. pc = "prompt" /\ pc' = pc
    BY <1>4 DEF Peek, Refuse
  <2>. QED
    BY <1>0, <2>1 DEF DInv, DumpReadsPrefix
<1>5. ASSUME NEW a \in Arg(Addrs), NEW v \in BOOLEAN,
             NEW sz \in SizeArgs \cup {Absent}, Poke(a, v, sz)
      PROVE  DInv'
  <2>1. pc = "prompt" /\ pc' = pc
    BY <1>5 DEF Poke, Refuse
  <2>. QED
    BY <1>0, <2>1 DEF DInv, DumpReadsPrefix
<1>6. CASE UNCHANGED vars
  BY <1>0, <1>6 DEF vars, DInv, DumpReadsPrefix
<1>. QED
  BY <1>1, <1>2, <1>3, <1>4, <1>5, <1>6 DEF Next

(***************************************************************************)
(* memdump reads the bytes of its range and no other, for every width,     *)
(* layout and argument set: while its loop runs it has read at least the   *)
(* first min(i, length) bytes of [addr, addr + length) and nothing outside *)
(* it, even when a length within 15 of 2^W makes i += 16 wrap.             *)
(***************************************************************************)
THEOREM DumpReadsPrefixInvariant == Spec => []DumpReadsPrefix
<1>1. Init => DInv
  BY WidthFacts DEF Init, DInv, ShellTypeOK, DumpReadsPrefix
<1>2. DInv => DumpReadsPrefix
  BY DEF DInv
<1>. QED
  BY <1>1, <1>2, DInvStep, PTL DEF Spec

=============================================================================
