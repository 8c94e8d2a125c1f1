---------------------------- MODULE ConsoleProofs ----------------------------
(***************************************************************************)
(* Proofs about the shell's console input (Console): the type invariant,   *)
(* with the two facts it hides, for every size of cmd_buffer, of argv and  *)
(* of the receive FIFO.                                                     *)
(***************************************************************************)
EXTENDS Console, FiniteSetTheorems, SequenceTheorems, TLAPS

\* The positions of the Enter bytes (CR or LF) waiting in a FIFO.
PendingEnters(s) == {i \in 1 .. Len(s) : IsEnter(s[i])}

(***************************************************************************)
(* The inductive invariant.  While the read loop runs, the line has room   *)
(* for one more byte: the loop stops as soon as the line is full.  Every   *)
(* Enter typed is either acted on or still in the FIFO: kgetc_blocking     *)
(* hands each one, CR turned to LF, to the read loop, which ends the line. *)
(***************************************************************************)
CInv ==
    /\ ConsoleTypeOK
    /\ enters \in Nat /\ answered \in Nat
    /\ reading => Len(cmd_buffer) < MAX_CMD_LEN - 1
    /\ enters = answered + Cardinality(PendingEnters(rx))
-----------------------------------------------------------------------------
\* The sizes of cmd_buffer, of the FIFO and of the input are numbers.
LEMMA SizeFacts ==
    /\ MAX_CMD_LEN \in Nat /\ MAX_CMD_LEN >= 2
    /\ FIFO_DEPTH \in Nat /\ MaxInput \in Nat
BY ConsoleAssumption

\* A printable byte is neither an Enter nor a backspace.
LEMMA PrintableNotControl ==
    \A c \in Printable : ~IsEnter(c) /\ c \notin {BS, DEL}
BY ConsoleAssumption, Zenon DEF IsEnter

\* The Enter positions of a FIFO are a finite set of positions.
LEMMA PendingFinite ==
    ASSUME NEW s \in Seq(Keys)
    PROVE  /\ IsFiniteSet(PendingEnters(s))
           /\ Cardinality(PendingEnters(s)) \in Nat
<1>1. PendingEnters(s) \in SUBSET (1 .. Len(s))
  BY DEF PendingEnters
<1>2. IsFiniteSet(PendingEnters(s))
  BY <1>1, FS_Interval, FS_Subset
<1>. QED BY <1>2, FS_CardinalityType

\* A byte typed into the FIFO adds one Enter if it is one.
LEMMA PendingAppend ==
    ASSUME NEW s \in Seq(Keys), NEW k \in Keys
    PROVE  Cardinality(PendingEnters(Append(s, k)))
             = Cardinality(PendingEnters(s)) + (IF IsEnter(k) THEN 1 ELSE 0)
<1>1. /\ IsFiniteSet(PendingEnters(s))
      /\ Cardinality(PendingEnters(s)) \in Nat
  BY PendingFinite
<1>2. Len(s) + 1 \notin PendingEnters(s)
  BY DEF PendingEnters
<1>3. CASE IsEnter(k)
  <2>1. PendingEnters(Append(s, k)) = PendingEnters(s) \cup {Len(s) + 1}
    BY <1>3 DEF PendingEnters
  <2>. QED BY <1>1, <1>2, <1>3, <2>1, FS_AddElement
<1>4. CASE ~IsEnter(k)
  <2>1. PendingEnters(Append(s, k)) = PendingEnters(s)
    BY <1>4 DEF PendingEnters
  <2>. QED BY <1>1, <1>4, <2>1
<1>. QED BY <1>3, <1>4

\* Reading the oldest byte removes one Enter if it is one: the positions
\* after the first shift down by one.
LEMMA PendingTail ==
    ASSUME NEW s \in Seq(Keys), s # <<>>
    PROVE  Cardinality(PendingEnters(s))
             = Cardinality(PendingEnters(Tail(s))) + (IF IsEnter(Head(s)) THEN 1 ELSE 0)
<1>. DEFINE P == PendingEnters(s)
            Q == PendingEnters(Tail(s))
            R == P \ {1}
            f == [i \in Q |-> i + 1]
<1>1. Tail(s) \in Seq(Keys)
  OBVIOUS
<1>2. /\ IsFiniteSet(P) /\ Cardinality(P) \in Nat
      /\ IsFiniteSet(Q) /\ Cardinality(Q) \in Nat
  BY <1>1, PendingFinite
<1>3. f \in Bijection(Q, R)
  <2>1. f \in [Q -> R]
    BY DEF PendingEnters
  <2>2. \A r \in R : \E q \in Q : f[q] = r
    <3>. TAKE r \in R
    <3>1. r - 1 \in Q /\ f[r - 1] = r
      BY DEF PendingEnters
    <3>. QED BY <3>1
  <2>3. IsInjective(f)
    <3>1. Q \subseteq Nat
      BY DEF PendingEnters
    <3>. QED BY <3>1 DEF IsInjective
  <2>4. f \in Injection(Q, R) /\ f \in Surjection(Q, R)
    BY <2>1, <2>2, <2>3 DEF Injection, Surjection
  <2>. QED BY <2>4 DEF Bijection
<1>4. Cardinality(R) = Cardinality(Q)
  BY <1>2, <1>3, FS_Bijection DEF ExistsBijection
<1>5. Cardinality(R) = IF 1 \in P THEN Cardinality(P) - 1 ELSE Cardinality(P)
  BY <1>2, FS_RemoveElement
<1>6. 1 \in P <=> IsEnter(Head(s))
  BY DEF PendingEnters
<1>. QED BY <1>2, <1>4, <1>5, <1>6
\* kgetc_blocking hands on a byte other than NUL, CR as LF: an Enter stays
\* an Enter and any other byte stays what it was.
LEMMA KgetcEnter ==
    ASSUME NEW c \in Keys
    PROVE  /\ KgetcResult(c) \in Keys
           /\ IsEnter(KgetcResult(c)) <=> IsEnter(c)
           /\ ~IsEnter(c) => KgetcResult(c) = c
BY DEF KgetcResult, IsEnter, Keys

LEMMA CInvInit == Init => CInv
<1>. SUFFICES ASSUME Init PROVE CInv
  OBVIOUS
<1>1. PendingEnters(rx) = {}
  BY DEF Init, PendingEnters
<1>. QED BY <1>1, SizeFacts, FS_EmptySet DEF Init, CInv, ConsoleTypeOK

LEMMA CInvStep == CInv /\ [Next]_vars => CInv'
<1>. SUFFICES ASSUME CInv, [Next]_vars PROVE CInv'
  OBVIOUS
<1>. DEFINE n == Cardinality(PendingEnters(rx))
<1>0. /\ rx \in Seq(Keys) /\ Len(rx) <= FIFO_DEPTH
      /\ cmd_buffer \in Seq(Printable) /\ Len(cmd_buffer) <= MAX_CMD_LEN - 1
      /\ ntyped \in 0 .. MaxInput /\ answered \in Nat /\ n \in Nat
      /\ reading => Len(cmd_buffer) < MAX_CMD_LEN - 1
      /\ enters = answered + n
  BY PendingFinite DEF CInv, ConsoleTypeOK
<1>1. CASE \E k \in Keys : Type(k)
  <2>1. PICK k \in Keys : Type(k)
    BY <1>1
  <2>. DEFINE m == n + (IF IsEnter(k) THEN 1 ELSE 0)
  <2>2. Cardinality(PendingEnters(Append(rx, k))) = m /\ m \in Nat
    BY <1>0, PendingAppend
  <2>3. enters' = answered + m
    BY <1>0, <2>1 DEF Type, IsEnter
  <2>4. Append(rx, k) \in Seq(Keys) /\ Len(Append(rx, k)) <= FIFO_DEPTH
    BY <1>0, <2>1, SizeFacts DEF Type
  <2>5. ntyped + 1 \in 0 .. MaxInput
    BY <1>0, <2>1, SizeFacts DEF Type
  <2>. QED BY <1>0, <2>1, <2>2, <2>3, <2>4, <2>5, SizeFacts DEF Type, CInv, ConsoleTypeOK
<1>2. CASE ReadNul
  <2>. DEFINE m == Cardinality(PendingEnters(Tail(rx)))
  <2>0. rx # <<>>
    BY <1>2 DEF ReadNul
  <2>1. Tail(rx) \in Seq(Keys) /\ Len(Tail(rx)) <= FIFO_DEPTH
    BY <1>0, <2>0, SizeFacts
  <2>2. m \in Nat
    BY <2>1, PendingFinite
  <2>3. ~IsEnter(Head(rx))
    BY <1>2 DEF ReadNul, IsEnter, CR, LF, NUL
  <2>4. n = m + (IF IsEnter(Head(rx)) THEN 1 ELSE 0)
    BY <1>0, <1>2, PendingTail DEF ReadNul
  <2>5. enters' = answered + m
    BY <1>0, <1>2, <2>2, <2>3, <2>4 DEF ReadNul
  <2>. QED BY <1>0, <1>2, <2>1, <2>2, <2>5, SizeFacts DEF ReadNul, CInv, ConsoleTypeOK
<1>3. CASE ReadKey
  <2>. DEFINE c == KgetcResult(Head(rx))
              m == Cardinality(PendingEnters(Tail(rx)))
  <2>1. /\ Head(rx) \in Keys /\ c \in Keys
        /\ IsEnter(c) <=> IsEnter(Head(rx))
    BY <1>0, <1>3, KgetcEnter DEF ReadKey
  <2>2. Tail(rx) \in Seq(Keys) /\ Len(Tail(rx)) <= FIFO_DEPTH /\ m \in Nat
    <3>0. rx # <<>>
      BY <1>3 DEF ReadKey
    <3>1. Tail(rx) \in Seq(Keys) /\ Len(Tail(rx)) <= FIFO_DEPTH
      BY <1>0, <3>0, SizeFacts
    <3>. QED BY <3>1, PendingFinite
  <2>3. n = m + (IF IsEnter(c) THEN 1 ELSE 0)
    <3>1. n = m + (IF IsEnter(Head(rx)) THEN 1 ELSE 0)
      BY <1>0, <1>3, PendingTail DEF ReadKey
    <3>. QED BY <2>1, <3>1
  <2>4. /\ rx' = Tail(rx) /\ ntyped' = ntyped /\ enters' = enters
        /\ Len(cmd_buffer) < MAX_CMD_LEN - 1
    <3>1. reading
      BY <1>3 DEF ReadKey
    <3>2. Len(cmd_buffer) < MAX_CMD_LEN - 1
      BY <1>0, <3>1
    <3>. QED BY <1>3, <3>2 DEF ReadKey
  <2>5. CASE IsEnter(c) /\ reading' = FALSE /\ answered' = answered + 1
             /\ UNCHANGED cmd_buffer
    <3>1. enters' = (answered + 1) + m
      BY <1>0, <2>3, <2>4, <2>5, <2>2
    <3>. QED BY <1>0, <2>2, <2>4, <2>5, <3>1, SizeFacts DEF CInv, ConsoleTypeOK
  <2>6. CASE c \in {BS, DEL} /\ UNCHANGED <<reading, answered>>
             /\ cmd_buffer' = IF cmd_buffer = <<>> THEN <<>>
                              ELSE SubSeq(cmd_buffer, 1, Len(cmd_buffer) - 1)
    <3>. DEFINE cb == IF cmd_buffer = <<>> THEN <<>>
                      ELSE SubSeq(cmd_buffer, 1, Len(cmd_buffer) - 1)
    <3>1. ~IsEnter(c)
      BY <2>6 DEF IsEnter, CR, LF, BS, DEL
    <3>2. cb \in Seq(Printable) /\ Len(cb) <= Len(cmd_buffer)
      BY <1>0
    <3>3. enters' = answered + m
      BY <1>0, <2>2, <2>3, <2>4, <3>1
    <3>. QED BY <1>0, <2>2, <2>4, <2>6, <3>2, <3>3, SizeFacts DEF CInv, ConsoleTypeOK
  <2>7. CASE c \in Printable /\ UNCHANGED answered
             /\ cmd_buffer' = Append(cmd_buffer, c)
             /\ reading' = ~LineFull(Append(cmd_buffer, c))
    <3>1. ~IsEnter(c)
      BY <2>7, PrintableNotControl
    <3>2. /\ Append(cmd_buffer, c) \in Seq(Printable)
          /\ Len(Append(cmd_buffer, c)) <= MAX_CMD_LEN - 1
          /\ reading' => Len(Append(cmd_buffer, c)) < MAX_CMD_LEN - 1
      <4>1. Append(cmd_buffer, c) \in Seq(Printable)
            /\ Len(Append(cmd_buffer, c)) = Len(cmd_buffer) + 1
        BY <1>0, <2>7, AppendProperties
      <4>2. reading' <=> Len(cmd_buffer) + 1 # MAX_CMD_LEN - 1
        BY <2>7, <4>1 DEF LineFull
      <4>. QED BY <1>0, <2>4, <4>1, <4>2, SizeFacts
    <3>3. enters' = answered + m
      BY <1>0, <2>2, <2>3, <2>4, <3>1
    <3>. QED BY <1>0, <2>2, <2>4, <2>7, <3>2, <3>3, SizeFacts DEF CInv, ConsoleTypeOK
  <2>8. CASE c \notin Printable \cup {CR, LF, BS, DEL}
             /\ UNCHANGED <<cmd_buffer, reading, answered>>
    <3>1. ~IsEnter(c)
      BY <2>8 DEF IsEnter
    <3>2. enters' = answered + m
      BY <1>0, <2>2, <2>3, <2>4, <3>1
    <3>. QED BY <1>0, <2>2, <2>4, <2>8, <3>2, SizeFacts DEF CInv, ConsoleTypeOK
  <2>. QED BY <1>3, <2>5, <2>6, <2>7, <2>8 DEF ReadKey, LineStep
<1>4. CASE RunLine
  <2>1. /\ rx' = rx /\ cmd_buffer' = <<>> /\ ntyped' = ntyped
        /\ answered' = answered /\ enters' = answered + n
    BY <1>0, <1>4 DEF RunLine
  <2>2. Len(<<>>) < MAX_CMD_LEN - 1 /\ <<>> \in Seq(Printable)
    BY SizeFacts
  <2>. QED BY <1>0, <2>1, <2>2, SizeFacts DEF CInv, ConsoleTypeOK
<1>5. CASE UNCHANGED vars
  <2>1. /\ rx' = rx /\ cmd_buffer' = cmd_buffer /\ ntyped' = ntyped
        /\ answered' = answered /\ enters' = answered + n /\ reading' = reading
    BY <1>0, <1>5 DEF vars
  <2>. QED BY <1>0, <2>1, SizeFacts DEF CInv, ConsoleTypeOK
<1>. QED BY <1>1, <1>2, <1>3, <1>4, <1>5 DEF Next, ShellStep

(***************************************************************************)
(* Type correctness of the console input, for every size of cmd_buffer     *)
(* (at least 2), of argv and of the receive FIFO: the read loop of          *)
(* shell_loop never writes past cmd_buffer (the index stays below          *)
(* MAX_CMD_LEN, so the terminator lands inside the array), and the shell   *)
(* never acts on more Enter keys than the user typed.                       *)
(***************************************************************************)
THEOREM ConsoleTypeCorrect == Spec => []ConsoleTypeOK
<1>1. CInv => ConsoleTypeOK
  BY DEF CInv
<1>. QED BY <1>1, CInvInit, CInvStep, PTL DEF Spec

(***************************************************************************)
(* No Enter is lost between the keyboard and the shell loop: every Enter   *)
(* typed has been acted on by shell_loop or is still in the receive FIFO,  *)
(* whatever kgetc_blocking and the read loop did with the bytes around it   *)
(* (a full line, a NUL, a CR turned to LF).  This is the safety half of     *)
(* EnterAnswered; the progress half is checked by TLC.                     *)
(***************************************************************************)
NoEnterLost == enters = answered + Cardinality(PendingEnters(rx))

THEOREM NoEnterLostInvariant == Spec => []NoEnterLost
<1>1. CInv => NoEnterLost
  BY DEF CInv, NoEnterLost
<1>. QED BY <1>1, CInvInit, CInvStep, PTL DEF Spec
=============================================================================
