------------------------ MODULE BytecodeModuleProofs ------------------------
(***************************************************************************)
(* What is proved of a bytecode module on its way to the interpreter, for   *)
(* every module and every file: a function that passed both loops of        *)
(* validate_bytecode is executed only where the validator has been, the     *)
(* scan of the AOT gate has seen every call that can be executed, and       *)
(* read_binary gives back what to_binary_vec was given.                     *)
(***************************************************************************)
EXTENDS BytecodeModule, SequenceTheorems, WellFoundedInduction, TLAPS

-----------------------------------------------------------------------------
(* The validator                                                            *)

\* starts cuts the first bytes of the code into instructions without a gap
\* and without an overlap: this is what pass 1 establishes.
Decoded(end) ==
    /\ 0 \in starts \/ end = 0
    /\ \A s \in starts :
          /\ s \in Nat /\ s < end /\ Complete(s) /\ OperandsFit(s)
          /\ Following(s) \in starts \/ Following(s) = end
    /\ \A s, t \in starts : s < t => Following(s) <= t

\* What holds in each phase.
InPass1 == phase = "pass1" => Decoded(pos) /\ pos <= Size /\ exits = {}
InPass2 ==
    phase = "pass2" =>
        /\ exits = {}
        /\ \A s \in starts : s < pos => TargetsFit(s)
AfterPass1 ==
    phase \in {"pass2", "valid", "run"} =>
        /\ Decoded(Size)
        /\ pos \in starts \/ pos = Size
AfterPass2 ==
    phase \in {"valid", "run"} =>
        /\ \A s \in starts : TargetsFit(s)
        /\ exits \subseteq starts
IInv ==
    /\ Size \in Nat /\ pos \in Nat
    /\ phase \in {"pass1", "pass2", "valid", "run", "rejected"}
    /\ InPass1 /\ InPass2 /\ AfterPass1 /\ AfterPass2

-----------------------------------------------------------------------------

\* An instruction has at most four bytes of operands.
LEMMA OperandLenType == ASSUME NEW op \in OpCodes PROVE OperandLen(op) \in 0..4
BY DEF OpCodes, OperandLen, NoOperand, OneByte, TwoBytes, ThreeBytes, Tries

\* The next instruction begins behind this one and not behind the code.
LEMMA FollowingType ==
    ASSUME NEW p \in Nat, Complete(p)
    PROVE  Following(p) \in Nat /\ p < Following(p) /\ Following(p) <= Size
<1>1. OperandLen(At(p)) \in Nat
  BY OperandLenType DEF Complete
<1>2. QED
  BY <1>1 DEF Complete, Following

\* None of the checks depends on anything but the function and the offset.
LEMMA SameFunction ==
    ASSUME fn' = fn, NEW p
    PROVE  /\ Complete(p)' = Complete(p)
           /\ OperandsFit(p)' = OperandsFit(p)
           /\ Following(p)' = Following(p)
           /\ Size' = Size
<1>1. At(p)' = At(p) /\ Following(p)' = Following(p) /\ Size' = Size
  BY DEF At, Following, Size
<1>2. Complete(p)' = Complete(p)
  BY <1>1 DEF Complete
<1>3. OperandsFit(p)' = OperandsFit(p)
  <2>1. \A q : At(q)' = At(q) /\ U16(q)' = U16(q)
    BY DEF At, U16
  <2>2. \A i : StringAt(i)' = StringAt(i) /\ NamedCount(i)' = NamedCount(i)
    BY DEF StringAt, NamedCount
  <2>3. QED
    BY <2>1, <2>2 DEF OperandsFit
<1>4. QED
  BY <1>1, <1>2, <1>3

\* Nor do the checks of the offsets, once the starts are known.
LEMMA SameTargets ==
    ASSUME fn' = fn, starts' = starts, NEW p
    PROVE  TargetsFit(p)' = TargetsFit(p)
<1>1. \A q : At(q)' = At(q) /\ U16(q)' = U16(q)
  BY DEF At, U16
<1>2. Size' = Size
  BY DEF Size
<1>3. QED
  BY <1>1, <1>2 DEF TargetsFit

\* So the code stays decoded as it was.
LEMMA SameDecoding ==
    ASSUME fn' = fn, starts' = starts, NEW e, NEW d, d = e, Decoded(e)
    PROVE  /\ 0 \in starts' \/ d = 0
           /\ \A s \in starts' :
                 /\ s \in Nat /\ s < d /\ Complete(s)' /\ OperandsFit(s)'
                 /\ Following(s)' \in starts' \/ Following(s)' = d
           /\ \A s, t \in starts' : s < t => Following(s)' <= t
BY SameFunction DEF Decoded

-----------------------------------------------------------------------------

\* Before the first step nothing is decoded.
LEMMA EnterIInv == ValidatorInit => IInv
<1> SUFFICES ASSUME NEW f \in Functions, Enter(f) PROVE IInv
  BY DEF ValidatorInit
<1>1. Size \in Nat
  BY ValidatorAssumption DEF Enter, Size, IsFunction
<1>2. QED
  BY <1>1 DEF Enter, FirstPhase, IInv, InPass1, InPass2, AfterPass1, AfterPass2, Decoded

\* A rejected function is never executed, so nothing is claimed of it.
LEMMA RejectIInv == IInv /\ Reject => IInv'
BY DEF IInv, Reject, InPass1, InPass2, AfterPass1, AfterPass2, Size

\* Pass 1 decodes one more instruction, right behind the last one.
LEMMA Pass1IInv == IInv /\ Pass1 => IInv'
<1> SUFFICES ASSUME IInv, Pass1, ~Reject PROVE IInv'
  BY RejectIInv
<1> USE DEF IInv
<1>1. /\ fn' = fn /\ phase = "pass1" /\ phase' = "pass1" /\ exits' = exits
      /\ starts' = starts \cup {pos} /\ pos' = Following(pos)
      /\ Complete(pos) /\ OperandsFit(pos) /\ pos < Size
  BY DEF Pass1, Advance
<1>2. Decoded(pos) /\ exits = {}
  BY <1>1 DEF InPass1
<1>3. Following(pos) \in Nat /\ pos < Following(pos) /\ Following(pos) <= Size
  BY <1>1, FollowingType
<1>4. \A s \in starts : Following(s) \in Nat
  BY <1>2, FollowingType DEF Decoded
<1>5. Decoded(pos)'
  <2>1. 0 \in starts' \/ pos' = 0
    BY <1>1, <1>2 DEF Decoded
  <2>2. ASSUME NEW s \in starts'
        PROVE  /\ s \in Nat /\ s < pos' /\ Complete(s)' /\ OperandsFit(s)'
               /\ Following(s)' \in starts' \/ Following(s)' = pos'
    <3>1. CASE s = pos
      BY <3>1, <1>1, <1>3, SameFunction
    <3>2. CASE s \in starts
      <4>1. /\ s \in Nat /\ s < pos /\ Complete(s) /\ OperandsFit(s)
            /\ Following(s) \in starts \/ Following(s) = pos
        BY <3>2, <1>2 DEF Decoded
      <4>2. QED
        BY <4>1, <1>1, <1>3, SameFunction
    <3>3. QED
      BY <3>1, <3>2, <1>1
  <2>3. ASSUME NEW s \in starts', NEW t \in starts', s < t
        PROVE  Following(s)' <= t
    <3>0. Following(s)' = Following(s)
      BY <1>1, SameFunction
    <3>1. CASE s \in starts /\ t \in starts
      BY <3>0, <3>1, <2>3, <1>2 DEF Decoded
    <3>2. CASE s \in starts /\ t = pos
      <4>1. Following(s) \in starts \/ Following(s) = pos
        BY <3>2, <1>2 DEF Decoded
      <4>2. Following(s) <= pos
        BY <4>1, <1>2, <1>4 DEF Decoded
      <4>3. QED
        BY <4>2, <3>0, <3>2
    <3>3. CASE s = pos /\ t \in starts
      BY <3>3, <2>3, <1>2 DEF Decoded
    <3>4. QED
      BY <3>1, <3>2, <3>3, <1>1, <2>3
  <2>4. QED
    BY <2>1, <2>2, <2>3 DEF Decoded
<1>6. Size' = Size
  BY <1>1, SameFunction
<1>7. QED
  BY <1>1, <1>2, <1>3, <1>5, <1>6 DEF InPass1, InPass2, AfterPass1, AfterPass2

\* When pass 1 is through, the instructions reach to the end of the code.
LEMMA Pass1EndsIInv == IInv /\ Pass1Ends => IInv'
<1> SUFFICES ASSUME IInv, Pass1Ends, ~Reject PROVE IInv'
  BY RejectIInv
<1> USE DEF IInv
<1>1. /\ fn' = fn /\ phase = "pass1" /\ phase' = "pass2" /\ exits' = exits
      /\ starts' = starts /\ pos' = 0 /\ pos >= Size /\ Size # 0
  BY DEF Pass1Ends
<1>2. Decoded(pos) /\ exits = {} /\ pos = Size
  BY <1>1 DEF InPass1
<1>3. Size' = Size
  BY <1>1, SameFunction
<1>4. Decoded(Size)'
  BY <1>1, <1>2, <1>3, SameDecoding DEF Decoded
<1>5. pos' \in starts'
  BY <1>1, <1>2 DEF Decoded
<1>6. \A s \in starts' : ~(s < pos')
  BY <1>1, <1>2 DEF Decoded
<1>7. QED
  BY <1>1, <1>2, <1>3, <1>4, <1>5, <1>6 DEF InPass1, InPass2, AfterPass1, AfterPass2

\* Steps that leave the function and the offsets alone keep what pass 1 found.
LEMMA DecodedStays ==
    ASSUME fn' = fn, starts' = starts, Decoded(Size)
    PROVE  Decoded(Size)' /\ Size' = Size
<1>1. Size' = Size
  BY SameFunction
<1>2. QED
  BY <1>1, SameDecoding DEF Decoded

\* Pass 2 checks the offsets of one more instruction.
LEMMA Pass2IInv == IInv /\ Pass2 => IInv'
<1> SUFFICES ASSUME IInv, Pass2, ~Reject PROVE IInv'
  BY RejectIInv
<1> USE DEF IInv
<1>1. /\ fn' = fn /\ phase = "pass2" /\ phase' = "pass2" /\ exits' = exits
      /\ starts' = starts /\ pos' = Following(pos) /\ TargetsFit(pos) /\ pos < Size
  BY DEF Pass2, Advance
<1>2. /\ Decoded(Size) /\ pos \in starts /\ exits = {}
      /\ \A s \in starts : s < pos => TargetsFit(s)
  BY <1>1 DEF InPass2, AfterPass1
<1>3. Complete(pos) /\ (Following(pos) \in starts \/ Following(pos) = Size)
  BY <1>2 DEF Decoded
<1>4. Following(pos) \in Nat
  BY <1>3, FollowingType
<1>5. ASSUME NEW s \in starts, s < Following(pos)
      PROVE  TargetsFit(s)
  <2>1. s \in Nat /\ (pos < s => Following(pos) <= s)
    BY <1>2 DEF Decoded
  <2>2. s < pos \/ s = pos
    BY <2>1, <1>4, <1>5
  <2>3. QED
    BY <2>2, <1>1, <1>2
<1>6. \A s \in starts' : s < pos' => TargetsFit(s)'
  BY <1>1, <1>5, SameTargets
<1>7. Decoded(Size)' /\ Size' = Size
  BY <1>1, <1>2, DecodedStays
<1>8. QED
  BY <1>1, <1>2, <1>3, <1>4, <1>6, <1>7 DEF InPass1, InPass2, AfterPass1, AfterPass2

\* When pass 2 is through, the offsets of all instructions are checked.
LEMMA Pass2EndsIInv == IInv /\ Pass2Ends => IInv'
<1> SUFFICES ASSUME IInv, Pass2Ends PROVE IInv'
  OBVIOUS
<1> USE DEF IInv
<1>1. /\ fn' = fn /\ phase = "pass2" /\ phase' = "valid" /\ exits' = exits
      /\ starts' = starts /\ pos' = pos /\ pos >= Size
  BY DEF Pass2Ends
<1>2. /\ Decoded(Size) /\ exits = {} /\ (pos \in starts \/ pos = Size)
      /\ \A s \in starts : s < pos => TargetsFit(s)
  BY <1>1 DEF InPass2, AfterPass1
<1>3. \A s \in starts : s < pos
  BY <1>1, <1>2 DEF Decoded
<1>4. \A s \in starts' : TargetsFit(s)'
  BY <1>1, <1>2, <1>3, SameTargets
<1>5. Decoded(Size)' /\ Size' = Size
  BY <1>1, <1>2, DecodedStays
<1>6. QED
  BY <1>1, <1>2, <1>4, <1>5 DEF InPass1, InPass2, AfterPass1, AfterPass2

\* The interpreter goes from an instruction to one that was checked.
LEMMA RunIInv == IInv /\ (Call \/ Exec) => IInv'
<1> SUFFICES ASSUME IInv, Call \/ Exec PROVE IInv'
  OBVIOUS
<1> USE DEF IInv
<1>1. fn' = fn /\ starts' = starts /\ phase \in {"valid", "run"} /\ phase' = "run"
  BY DEF Call, Exec
<1>2. /\ Decoded(Size) /\ (pos \in starts \/ pos = Size) /\ exits \subseteq starts
      /\ \A s \in starts : TargetsFit(s)
  BY <1>1 DEF AfterPass1, AfterPass2
<1>3. Decoded(Size)' /\ Size' = Size
  BY <1>1, <1>2, DecodedStays
<1>4. \A s \in starts' : TargetsFit(s)'
  BY <1>1, <1>2, SameTargets
<1>5. Size \in Nat
  OBVIOUS
<1>6. exits' \subseteq starts /\ (pos' \in starts \/ pos' = Size)
  <2>1. CASE Call
    BY <2>1, <1>2, <1>5 DEF Call, Decoded
  <2>2. CASE Exec
    <3>1. pos \in starts
      BY <2>2, <1>2, <1>5 DEF Exec
    <3>2. TargetsFit(pos) /\ (Following(pos) \in starts \/ Following(pos) = Size)
      BY <3>1, <1>2 DEF Decoded
    <3>3. At(pos) \in Tries => U16(pos + 1) \in starts /\ U16(pos + 3) \in starts
      BY <3>2 DEF TargetsFit
    <3>4. exits' \subseteq starts
      BY <2>2, <3>3, <1>2 DEF Exec
    <3>5. At(pos) \in Jumps => U16(pos + 1) \in starts
      BY <3>2 DEF TargetsFit
    <3>6. \/ pos' = Following(pos)
          \/ At(pos) \in Jumps /\ pos' = U16(pos + 1)
          \/ pos' \in exits
      BY <2>2 DEF Exec
    <3>7. QED
      BY <3>2, <3>4, <3>5, <3>6, <1>2
  <2>3. QED
    BY <2>1, <2>2
<1>7. pos' \in Nat
  BY <1>2, <1>5, <1>6 DEF Decoded
<1>8. QED
  BY <1>1, <1>3, <1>4, <1>6, <1>7 DEF InPass1, InPass2, AfterPass1, AfterPass2

\* A step that leaves the function in the validator alone.
LEMMA SameIInv == IInv /\ UNCHANGED validatorVars => IInv'
<1> SUFFICES ASSUME IInv, UNCHANGED validatorVars PROVE IInv'
  OBVIOUS
<1>1. fn' = fn /\ starts' = starts /\ pos' = pos /\ phase' = phase /\ exits' = exits
  BY DEF validatorVars
<1>2. Size' = Size
  BY <1>1, SameFunction
<1>3. InPass1'
  BY <1>1, <1>2, SameDecoding DEF IInv, InPass1, Decoded
<1>4. InPass2' /\ AfterPass2'
  BY <1>1, SameTargets DEF IInv, InPass2, AfterPass2
<1>5. AfterPass1'
  BY <1>1, <1>2, DecodedStays DEF IInv, AfterPass1
<1>6. QED
  BY <1>1, <1>2, <1>3, <1>4, <1>5 DEF IInv

-----------------------------------------------------------------------------

\* Whatever function validate_bytecode accepts, the interpreter is always at a
\* complete instruction with fitting operands or behind the last one, through
\* every jump, fall-through and exception.
THEOREM ValidatedIsSafe == ValidatorSpec => []ExecSafe
<1>1. ValidatorInit => IInv
  BY EnterIInv
<1>2. IInv /\ [ValidatorNext]_validatorVars => IInv'
  BY SameIInv, Pass1IInv, Pass1EndsIInv, Pass2IInv, Pass2EndsIInv, RunIInv
     DEF ValidatorNext
<1>3. IInv => ExecSafe
  BY DEF IInv, AfterPass1, Decoded, ExecSafe
<1>4. QED
  BY <1>1, <1>2, <1>3, PTL DEF ValidatorSpec


-----------------------------------------------------------------------------
(* Induction: every set of numbers has a least one, so that a least number  *)
(* without a property is a contradiction                                    *)

\* The natural numbers are well ordered.
LEMMA LeastNumber ==
    ASSUME NEW T, T \subseteq Nat, T # {}
    PROVE  \E x \in T : \A y \in T : x <= y
<1>1. PICK x \in T : \A y \in T : ~(<<y, x>> \in OpToRel(<, Nat))
  BY NatLessThanWellFounded, WFMin
<1>2. \A y \in T : ~(y < x)
  BY <1>1 DEF OpToRel
<1>3. \A y \in T : x <= y
  BY <1>2
<1>4. QED
  BY <1>3

\* A set with 0 and with the successors of its elements has all numbers.
LEMMA NumberInduction ==
    ASSUME NEW S, 0 \in S, \A n \in Nat : n \in S => n + 1 \in S
    PROVE  \A n \in Nat : n \in S
<1> DEFINE T == Nat \ S
<1> SUFFICES ASSUME T # {} PROVE FALSE
  OBVIOUS
<1>1. T \subseteq Nat
  OBVIOUS
<1>2. PICK x \in T : \A y \in T : x <= y
  <2> HIDE DEF T
  <2>1. QED
    BY <1>1, LeastNumber
<1>3. x \in Nat /\ x # 0 /\ x - 1 \in Nat /\ x - 1 \notin T
  BY <1>2
<1>4. QED
  BY <1>2, <1>3

-----------------------------------------------------------------------------
(* The writer makes tokens                                                  *)

\* g is what the recursion of FlattenSeq computes up to n.
Flat(ss, g, n) ==
    g = [i \in 1..n |-> IF i = 1 THEN ss[i] ELSE g[i - 1] \o ss[i]]

\* The recursion of FlattenSeq has a solution.
LEMMA FlatExists ==
    ASSUME NEW X, NEW ss \in Seq(Seq(X))
    PROVE  \A n \in Nat : n <= Len(ss) => \E g \in [1..n -> Seq(X)] : Flat(ss, g, n)
<1> DEFINE S == {n \in Nat : n <= Len(ss) => \E g \in [1..n -> Seq(X)] : Flat(ss, g, n)}
<1>1. 0 \in S
  <2> DEFINE g == [i \in 1..0 |-> <<>>]
  <2>1. g \in [1..0 -> Seq(X)] /\ Flat(ss, g, 0)
    BY DEF Flat
  <2>2. QED
    BY <2>1
<1>2. ASSUME NEW n \in Nat, n \in S PROVE n + 1 \in S
  <2> SUFFICES ASSUME n + 1 <= Len(ss)
               PROVE  \E g \in [1..(n + 1) -> Seq(X)] : Flat(ss, g, n + 1)
    OBVIOUS
  <2>1. PICK g \in [1..n -> Seq(X)] : Flat(ss, g, n)
    BY <1>2
  <2> DEFINE v == IF n = 0 THEN ss[1] ELSE g[n] \o ss[n + 1]
             h == [i \in 1..(n + 1) |-> IF i = n + 1 THEN v ELSE g[i]]
  <2>2. v \in Seq(X)
    BY <2>1
  <2>3. h \in [1..(n + 1) -> Seq(X)]
    <3> HIDE DEF v
    <3>1. QED
      BY <2>1, <2>2
  <2>4. ASSUME NEW i \in 1..(n + 1)
        PROVE  h[i] = IF i = 1 THEN ss[i] ELSE h[i - 1] \o ss[i]
    <3>1. CASE i = n + 1
      <4>1. h[i] = v
        BY <3>1
      <4>2. n # 0 => n \in 1..(n + 1) /\ h[n] = g[n]
        OBVIOUS
      <4> HIDE DEF h
      <4>3. CASE n = 0
        BY <3>1, <4>1, <4>3
      <4>4. CASE n # 0
        <5>1. v = g[n] \o ss[n + 1]
          BY <4>4, Zenon
        <5> HIDE DEF v
        <5>2. i # 1 /\ i - 1 = n
          BY <3>1, <4>4
        <5>3. QED
          BY <3>1, <4>1, <4>2, <4>4, <5>1, <5>2
      <4>5. QED
        BY <4>3, <4>4
    <3>2. CASE i # n + 1
      <4>1. i \in 1..n /\ h[i] = g[i] /\ (i # 1 => i - 1 \in 1..n /\ h[i - 1] = g[i - 1])
        BY <3>2
      <4>2. g[i] = IF i = 1 THEN ss[i] ELSE g[i - 1] \o ss[i]
        BY <2>1, <4>1 DEF Flat
      <4>3. QED
        BY <4>1, <4>2
    <3>3. QED
      BY <3>1, <3>2
  <2>5. Flat(ss, h, n + 1)
    <3> HIDE DEF h
    <3>1. QED
      BY <2>3, <2>4 DEF Flat
  <2>6. QED
    BY <2>3, <2>5
<1> HIDE DEF S
<1>3. \A n \in Nat : n \in S
  BY <1>1, <1>2, NumberInduction
<1>4. QED
  BY <1>3 DEF S

\* Every solution is made of sequences.
LEMMA FlatTypes ==
    ASSUME NEW X, NEW ss \in Seq(Seq(X)), NEW g, Flat(ss, g, Len(ss))
    PROVE  \A n \in 1..Len(ss) : g[n] \in Seq(X)
<1> DEFINE S == {n \in Nat : n + 1 \in 1..Len(ss) => g[n + 1] \in Seq(X)}
<1>0. \A i \in 1..Len(ss) : g[i] = IF i = 1 THEN ss[i] ELSE g[i - 1] \o ss[i]
  BY DEF Flat
<1>1. 0 \in S
  BY <1>0
<1>2. ASSUME NEW n \in Nat, n \in S PROVE n + 1 \in S
  <2> SUFFICES ASSUME (n + 1) + 1 \in 1..Len(ss) PROVE g[(n + 1) + 1] \in Seq(X)
    OBVIOUS
  <2>1. n + 1 \in 1..Len(ss) /\ g[n + 1] \in Seq(X)
    BY <1>2
  <2>2. g[(n + 1) + 1] = g[n + 1] \o ss[(n + 1) + 1]
    <3> DEFINE i == (n + 1) + 1
    <3>1. i \in 1..Len(ss) /\ i # 1 /\ i - 1 = n + 1
      OBVIOUS
    <3> HIDE DEF i
    <3>2. g[i] = g[n + 1] \o ss[i]
      BY <1>0, <3>1
    <3>3. QED
      BY <3>2 DEF i
  <2>3. QED
    BY <2>1, <2>2
<1> HIDE DEF S
<1>3. \A n \in Nat : n \in S
  BY <1>1, <1>2, NumberInduction
<1>4. ASSUME NEW n \in 1..Len(ss) PROVE g[n] \in Seq(X)
  <2>1. n - 1 \in S /\ (n - 1) + 1 = n
    BY <1>3
  <2>2. QED
    BY <2>1 DEF S
<1>5. QED
  BY <1>4

\* Flattening sequences of tokens gives tokens.
LEMMA FlattenSeqType ==
    ASSUME NEW X, NEW ss \in Seq(Seq(X))
    PROVE  FlattenSeq(ss) \in Seq(X)
<1>1. CASE Len(ss) = 0
  <2>1. FlattenSeq(ss) = ss /\ ss = <<>>
    BY <1>1 DEF FlattenSeq
  <2>2. QED
    BY <2>1
<1>2. CASE Len(ss) # 0
  <2> DEFINE fl == CHOOSE g : Flat(ss, g, Len(ss))
  <2>1. FlattenSeq(ss) = fl[Len(ss)]
    BY <1>2 DEF FlattenSeq, Flat
  <2>2. \E g : Flat(ss, g, Len(ss))
    BY FlatExists
  <2>3. Flat(ss, fl, Len(ss))
    BY <2>2
  <2> HIDE DEF fl
  <2>4. QED
    BY <1>2, <2>1, <2>3, FlatTypes
<1>3. QED
  BY <1>1, <1>2


\* Two sequences one behind the other.
LEMMA ConcatType == ASSUME NEW X, NEW a \in Seq(X), NEW b \in Seq(X) PROVE a \o b \in Seq(X)
OBVIOUS

\* A sequence over a set is one over any larger set.
LEMMA WiderSeq == ASSUME NEW X, NEW Y, X \subseteq Y, NEW s \in Seq(X) PROVE s \in Seq(Y)
<1>1. Len(s) \in Nat /\ s \in [1..Len(s) -> Y]
  OBVIOUS
<1>2. QED
  BY <1>1

\* One element in front of a sequence.
LEMMA OneMore ==
    ASSUME NEW X, NEW a \in X, NEW s \in Seq(X)
    PROVE  /\ <<a>> \o s \in Seq(X) /\ <<a>> \o s # <<>>
           /\ Head(<<a>> \o s) = a /\ Tail(<<a>> \o s) = s
           /\ (<<a>> \o s)[1] = a
           /\ Len(<<a>> \o s) = Len(s) + 1
OBVIOUS

\* A file is a sequence of tokens.
Token == Seq(Nat) \ {<<>>}
Tokens == Seq(Token)

\* A number is a token of its own.
LEMMA NumberToken == ASSUME NEW n \in Nat PROVE <<n>> \in Token
BY DEF Token

Numbers == {"name", "conv", "async", "params", "locals"}
Fields == Numbers \cup {"consts", "code", "smap", "debug", "extra"}

\* The fields of the file are the ones above.
LEMMA LayoutType == ASSUME NEW v \in Nat PROVE WriterLayout(v) \in Seq(Fields)
<1>1. /\ <<"name", "conv">> \in Seq(Fields) /\ <<"async">> \in Seq(Fields)
      /\ <<"params", "locals", "consts", "code", "smap">> \in Seq(Fields)
      /\ <<"debug">> \in Seq(Fields) /\ <<"extra">> \in Seq(Fields) /\ <<>> \in Seq(Fields)
  BY DEF Fields, Numbers
<1>2. Layout(v) \in Seq(Fields)
  <2> DEFINE a == IF v >= 3 THEN <<"async">> ELSE <<>>
             d == IF v >= 2 THEN <<"debug">> ELSE <<>>
  <2>1. a \in Seq(Fields) /\ d \in Seq(Fields)
    BY <1>1
  <2> HIDE DEF a, d
  <2>2. Layout(v) = <<"name", "conv">> \o a
                    \o <<"params", "locals", "consts", "code", "smap">> \o d
    BY DEF Layout, a, d
  <2>3. QED
    BY <1>1, <2>1, <2>2, ConcatType
<1>3. (IF v > FORMAT_VERSION THEN <<"extra">> ELSE <<>>) \in Seq(Fields)
  BY <1>1
<1>4. QED
  BY <1>2, <1>3, ConcatType DEF WriterLayout

\* A list is written as its length and its parts.
LEMMA CountedType == ASSUME NEW parts \in Seq(Tokens) PROVE Counted(parts) \in Tokens
<1>1. FlattenSeq(parts) \in Tokens
  BY FlattenSeqType DEF Tokens
<1>2. <<<<Len(parts)>>>> \in Tokens
  BY NumberToken DEF Tokens
<1>3. QED
  BY <1>1, <1>2, ConcatType DEF Counted, Tokens

\* Every field is written as tokens.
LEMMA FieldTokensType ==
    ASSUME NEW f \in Function, NEW field \in Fields
    PROVE  FieldTokens(f, field) \in Tokens
<1>1. CASE field \in Numbers
  <2>1. f[field] \in Nat
    BY <1>1 DEF Function, Numbers
  <2>2. FieldTokens(f, field) = <<<<f[field]>>>>
    BY <1>1 DEF FieldTokens, Numbers
  <2>3. QED
    BY <2>1, <2>2, NumberToken DEF Tokens
<1>2. CASE field = "consts"
  <2> DEFINE parts == [i \in 1..Len(f.consts) |-> ConstantTokens(f.consts[i])]
  <2>1. f.consts \in Seq(Constant)
    <3>1. f.consts \in Seq(Literal) /\ Literal \subseteq Constant
      BY DEF Function, Literal
    <3>2. QED
      BY <3>1, WiderSeq, Zenon
  <2>2. ASSUME NEW c \in Constant PROVE ConstantTokens(c) \in Tokens
    <3>1. c.tag \in Nat /\ c.val \in Nat
      BY DEF Constant
    <3>2. QED
      BY <3>1, NumberToken DEF ConstantTokens, Tokens
  <2>3. parts \in Seq(Tokens)
    BY <2>1, <2>2
  <2>4. FieldTokens(f, field) = Counted(parts)
    BY <1>2 DEF FieldTokens
  <2> HIDE DEF parts
  <2>5. QED
    BY <2>3, <2>4, CountedType
<1>3. CASE field \in {"smap", "debug"}
  <2> DEFINE parts == [i \in 1..Len(f[field]) |-> EntryTokens(f[field][i])]
  <2>1. f[field] \in Seq(Entry)
    BY <1>3 DEF Function
  <2>2. ASSUME NEW e \in Entry PROVE EntryTokens(e) \in Tokens
    BY NumberToken DEF Entry, EntryTokens, Tokens
  <2>3. parts \in Seq(Tokens)
    BY <2>1, <2>2
  <2>4. FieldTokens(f, field) = Counted(parts)
    BY <1>3 DEF FieldTokens, Entries
  <2> HIDE DEF parts
  <2>5. QED
    BY <2>3, <2>4, CountedType
<1>4. CASE field = "code"
  <2>1. f.code \in Seq(Nat)
    <3>1. f.code \in Seq(0..255)
      BY DEF Function
    <3>2. 0..255 \subseteq Nat
      OBVIOUS
    <3>3. QED
      BY <3>1, <3>2, WiderSeq, Zenon
  <2>2. FieldTokens(f, field) = <<<<Len(f.code)>> \o f.code>>
    BY <1>4 DEF FieldTokens
  <2>3. <<Len(f.code)>> \o f.code \in Token
    BY <2>1, OneMore DEF Token
  <2>4. QED
    BY <2>2, <2>3 DEF Tokens
<1>5. CASE field = "extra"
  BY <1>5, NumberToken DEF FieldTokens, Tokens
<1>6. QED
  BY <1>1, <1>2, <1>3, <1>4, <1>5 DEF Fields

\* A function is written as tokens.
LEMMA FunctionTokensType ==
    ASSUME NEW v \in Nat, NEW f \in Function
    PROVE  FunctionTokens(f, v) \in Tokens
<1> DEFINE lay == WriterLayout(v)
           parts == [i \in 1..Len(lay) |-> FieldTokens(f, lay[i])]
<1>1. lay \in Seq(Fields)
  BY LayoutType
<1> HIDE DEF lay
<1>2. parts \in Seq(Tokens)
  BY <1>1, FieldTokensType
<1>3. FunctionTokens(f, v) = FlattenSeq(parts)
  BY DEF FunctionTokens, lay
<1> HIDE DEF parts
<1>4. QED
  BY <1>2, <1>3, FlattenSeqType DEF Tokens

\* What a writer makes of a module is a file.
LEMMA WrittenType ==
    ASSUME NEW s \in Sources
    PROVE  Written(s.version, s.functions) \in Tokens
<1> DEFINE v == s.version
           m == s.functions
<1>1. v \in Nat /\ m \in Seq(Function)
  BY ModuleAssumption
<1> HIDE DEF v, m
<1>2. \A f \in Function : FunctionTokens(f, v) \in Tokens
  BY <1>1, FunctionTokensType
<1> DEFINE all == [i \in 1..Len(m) |-> FunctionTokens(m[i], v)]
<1>3. all \in Seq(Tokens)
  BY <1>1, <1>2
<1>4. Written(v, m) = <<<<0>>, <<v>>, <<Len(m)>>>> \o FlattenSeq(all)
  BY DEF Written
<1> HIDE DEF all
<1>5. FlattenSeq(all) \in Tokens
  BY <1>3, FlattenSeqType DEF Tokens
<1>6. <<<<0>>, <<v>>, <<Len(m)>>>> \in Tokens
  BY <1>1, NumberToken DEF Tokens
<1>7. QED
  BY <1>4, <1>5, <1>6, ConcatType DEF v, m, Tokens


-----------------------------------------------------------------------------
(* The scan of the AOT gate                                                 *)

\* What the scan finds at p, and g is what it finds from each offset on.
Index(f, p) == f.code[p + 2] * 256 + f.code[p + 3]
Found(f, ops, p) ==
    IF /\ f.code[p + 1] \in ops /\ p + 3 <= Len(f.code)
       /\ Index(f, p) < Len(f.consts) /\ f.consts[Index(f, p) + 1].tag = 4
    THEN {f.consts[Index(f, p) + 1].val} ELSE {}
ScanStops(f, p) == p >= Len(f.code) \/ f.code[p + 1] \notin OpCodes
Scan(f, ops, g, low) ==
    g = [p \in low..(Len(f.code) + 4) |->
            IF ScanStops(f, p) THEN {}
            ELSE Found(f, ops, p) \cup g[p + 1 + OperandLen(f.code[p + 1])]]

\* The recursion of targets_for has a solution: every offset is behind the
\* one before.
LEMMA ScanExists ==
    ASSUME NEW f, NEW ops, Len(f.code) \in Nat
    PROVE  \E g : Scan(f, ops, g, 0)
<1> DEFINE L == Len(f.code)
           S == {n \in Nat : n <= L + 5 => \E g : Scan(f, ops, g, (L + 5) - n)}
<1>1. 0 \in S
  <2> DEFINE g == [p \in ((L + 5) - 0)..(L + 4) |-> {}]
  <2>1. ((L + 5) - 0)..(L + 4) = {}
    OBVIOUS
  <2>2. Scan(f, ops, g, (L + 5) - 0)
    BY <2>1 DEF Scan
  <2>3. QED
    BY <2>2
<1>2. ASSUME NEW n \in Nat, n \in S PROVE n + 1 \in S
  <2> SUFFICES ASSUME n + 1 <= L + 5 PROVE \E g : Scan(f, ops, g, (L + 5) - (n + 1))
    OBVIOUS
  <2> DEFINE low == (L + 5) - (n + 1)
  <2>1. low \in Nat /\ (L + 5) - n = low + 1
    OBVIOUS
  <2>2. PICK g : Scan(f, ops, g, low + 1)
    BY <1>2, <2>1
  <2> HIDE DEF low
  <2> DEFINE next(p) == p + 1 + OperandLen(f.code[p + 1])
             val(p) == IF ScanStops(f, p) THEN {} ELSE Found(f, ops, p) \cup g[next(p)]
             h == [p \in low..(L + 4) |-> val(p)]
  <2>3. ASSUME NEW p \in low..(L + 4), ~ScanStops(f, p) PROVE h[next(p)] = g[next(p)]
    <3>1. p \in Nat /\ p < L /\ OperandLen(f.code[p + 1]) \in 0..4
      BY <2>1, <2>3, OperandLenType DEF ScanStops
    <3>2. next(p) \in (low + 1)..(L + 4) /\ next(p) \in low..(L + 4)
      BY <2>1, <2>3, <3>1
    <3> DEFINE q == next(p)
    <3> HIDE DEF q
    <3>3. q \in (low + 1)..(L + 4) /\ q \in low..(L + 4)
      BY <3>2 DEF q
    <3>4. h[q] = val(q)
      BY <3>3
    <3>5. g[q] = val(q)
      BY <2>2, <3>3 DEF Scan
    <3>6. QED
      BY <3>4, <3>5 DEF q
  <2>4. Scan(f, ops, h, low)
    <3>1. ASSUME NEW p \in low..(L + 4)
          PROVE  val(p) = IF ScanStops(f, p) THEN {} ELSE Found(f, ops, p) \cup h[next(p)]
      BY <2>3, <3>1
    <3>2. h = [p \in low..(L + 4) |->
                 IF ScanStops(f, p) THEN {} ELSE Found(f, ops, p) \cup h[next(p)]]
      BY <3>1
    <3>3. QED
      BY <3>2 DEF Scan
  <2>5. QED
    BY <2>4 DEF low
<1>3. \A n \in Nat : n \in S
  <2> HIDE DEF S
  <2>1. QED
    BY <1>1, <1>2, NumberInduction
<1>4. L + 5 \in S /\ (L + 5) - (L + 5) = 0
  BY <1>3
<1>5. QED
  BY <1>4


\* From an instruction that pass 1 met the scan goes on to the next one, so
\* that it comes to every one of them.
LEMMA ScanMeetsStarts ==
    ASSUME Size \in Nat, Decoded(Size), NEW ops, NEW g, Scan(fn, ops, g, 0),
           NEW s \in starts
    PROVE  Found(fn, ops, s) \subseteq g[0]
<1> DEFINE C == {c \in starts : g[c] \subseteq g[0]}
<1>1. \A c \in starts : c \in Nat /\ c < Size /\ At(c) \in OpCodes
  BY DEF Decoded, Complete
<1>2. ASSUME NEW c \in starts
      PROVE  g[c] = Found(fn, ops, c) \cup g[Following(c)]
  <2>1. c \in 0..(Len(fn.code) + 4) /\ ~ScanStops(fn, c)
    BY <1>1 DEF ScanStops, Size, At
  <2>2. QED
    BY <2>1 DEF Scan, Following, At
<1>3. ASSUME NEW c \in C, Following(c) \in starts PROVE Following(c) \in C
  BY <1>2, <1>3
<1>4. 0 \in C
  <2>1. 0 \in starts
    BY <1>1 DEF Decoded
  <2>2. QED
    BY <2>1
<1>5. \A c \in starts : c \in C
  <2> DEFINE T == {c \in starts : c \notin C}
  <2> SUFFICES ASSUME T # {} PROVE FALSE
    OBVIOUS
  <2>1. T \subseteq Nat
    BY <1>1
  <2>2. PICK x \in T : x \in starts /\ x \notin C
    OBVIOUS
  <2> HIDE DEF T
  <2> DEFINE D == {x - c : c \in {c \in C : c < x}}
  <2>3. \A c \in C : c \in starts /\ c \in Nat
    BY <1>1
  <2> HIDE DEF C
  <2>4. x \in Nat /\ 0 < x
    BY <1>1, <1>4, <2>2
  <2>5. D \subseteq Nat
    BY <2>3, <2>4
  <2>6. x - 0 \in D
    BY <1>4, <2>4
  <2>7. PICK d \in D : \A e \in D : d <= e
    <3>1. D # {}
      BY <2>6
    <3> HIDE DEF D
    <3>2. QED
      BY <2>5, <3>1, LeastNumber
  <2>8. PICK c \in C : c < x /\ d = x - c
    BY <2>7
  <2>9. /\ Following(c) \in Nat /\ c < Following(c) /\ Following(c) <= x
        /\ Following(c) \in starts
    <3>1. /\ c \in starts /\ c \in Nat /\ Complete(c) /\ x < Size
          /\ Following(c) \in starts \/ Following(c) = Size
          /\ Following(c) <= x
      BY <1>1, <2>2, <2>3, <2>8 DEF Decoded
    <3>2. Following(c) \in Nat /\ c < Following(c)
      BY <3>1, FollowingType
    <3>3. QED
      BY <2>4, <3>1, <3>2
  <2>10. Following(c) \in C
    BY <1>3, <2>9
  <2>11. Following(c) < x
    BY <2>2, <2>4, <2>9, <2>10
  <2>12. x - Following(c) \in D /\ x - Following(c) < d
    <3>1. c \in Nat
      BY <2>3
    <3>2. QED
      BY <2>4, <2>8, <2>9, <2>10, <2>11, <3>1
  <2> HIDE DEF D
  <2>13. d \in Nat /\ x - Following(c) \in Nat /\ d <= x - Following(c)
    BY <2>5, <2>7, <2>12
  <2>14. QED
    BY <2>12, <2>13
<1>6. QED
  BY <1>2, <1>5

\* The gate knows every call that a validated function can make.
LEMMA TargetsSeen ==
    ASSUME Size \in Nat, Decoded(Size), NEW s \in starts,
           NEW ops, ops \subseteq {CallStatic, CallOriginal}, At(s) \in ops
    PROVE  fn.consts[U16(s + 1) + 1].val \in TargetsFor(fn, ops)
<1> DEFINE scan == CHOOSE g : Scan(fn, ops, g, 0)
<1>1. TargetsFor(fn, ops) = scan[0]
  BY DEF TargetsFor, Scan, ScanStops, Found, Index
<1>2. Scan(fn, ops, scan, 0)
  <2>1. \E g : Scan(fn, ops, g, 0)
    BY ScanExists DEF Size
  <2>2. QED
    BY <2>1
<1> HIDE DEF scan
<1>3. Found(fn, ops, s) \subseteq scan[0]
  BY <1>2, ScanMeetsStarts
<1>4. s \in Nat /\ Complete(s) /\ OperandsFit(s)
  BY DEF Decoded
<1>5. At(s) \in ByName /\ OperandLen(At(s)) = 3
  <2>1. /\ CallStatic \in ByName /\ OperandLen(CallStatic) = 3
        /\ CallOriginal \in ByName /\ OperandLen(CallOriginal) = 3
    BY DEF ByName, OperandLen, CallStatic, CallOriginal, CallDynamic, CallClosure, NewObject,
           NoOperand, OneByte, TwoBytes, ThreeBytes, Leaves, EndFinally, LoadArg, Locals,
           LoadConst, Jumps, Tries
  <2>2. At(s) = CallStatic \/ At(s) = CallOriginal
    OBVIOUS
  <2>3. QED
    BY <2>1, <2>2
<1>6. s + 3 <= Len(fn.code)
  BY <1>4, <1>5 DEF Complete, Following, Size
<1>7. StringAt(U16(s + 1))
  BY <1>4, <1>5 DEF OperandsFit
<1>8. U16(s + 1) = Index(fn, s)
  <2>1. (s + 1) + 1 = s + 2 /\ ((s + 1) + 1) + 1 = s + 3
    BY <1>4
  <2>2. QED
    BY <2>1 DEF U16, Index, At
<1>9. fn.consts[U16(s + 1) + 1].val \in Found(fn, ops, s)
  BY <1>6, <1>7, <1>8 DEF Found, StringAt, At
<1>10. QED
  BY <1>1, <1>3, <1>9


-----------------------------------------------------------------------------
(* The container                                                            *)

\* Whatever bytes a file is made of, the code of a function that was read is
\* a sequence of them.
HasCode(f) == "code" \in DOMAIN f /\ Len(f.code) \in Nat
Readings(m) == (\E X : m \in Seq(X)) /\ \A i \in 1..Len(m) : HasCode(m[i])

\* One more function.
LEMMA ReadingsAppend ==
    ASSUME NEW m, Readings(m), NEW f, HasCode(f)
    PROVE  Readings(Append(m, f))
<1>1. PICK X : m \in Seq(X)
  BY DEF Readings
<1>2. m \in Seq(X \cup {f}) /\ f \in X \cup {f}
  BY <1>1, WiderSeq
<1>3. Append(m, f) \in Seq(X \cup {f})
  BY <1>2
<1>4. ASSUME NEW i \in 1..Len(Append(m, f)) PROVE HasCode(Append(m, f)[i])
  <2>1. Len(Append(m, f)) = Len(m) + 1 /\ Len(m) \in Nat
    BY <1>2
  <2>2. CASE i = Len(m) + 1
    BY <1>2, <2>2
  <2>3. CASE i # Len(m) + 1
    <3>1. i \in 1..Len(m) /\ Append(m, f)[i] = m[i]
      BY <1>2, <2>1, <2>3
    <3>2. QED
      BY <3>1 DEF Readings
  <2>4. QED
    BY <2>2, <2>3
<1>5. QED
  BY <1>3, <1>4 DEF Readings

\* One more field of the last function.
LEMMA ReadingsExcept ==
    ASSUME NEW m, Readings(m), NEW f, Len(m) # 0 => HasCode(f)
    PROVE  Readings([m EXCEPT ![Len(m)] = f])
<1>1. PICK X : m \in Seq(X)
  BY DEF Readings
<1> DEFINE n == [m EXCEPT ![Len(m)] = f]
<1>2. m \in Seq(X \cup {f}) /\ f \in X \cup {f}
  BY <1>1, WiderSeq
<1>3. n \in Seq(X \cup {f}) /\ Len(n) = Len(m) /\ Len(m) \in Nat
  <2> DEFINE Y == X \cup {f}
  <2>1. m \in Seq(Y) /\ f \in Y
    BY <1>2
  <2> HIDE DEF Y
  <2>2. Len(m) \in Nat /\ m \in [1..Len(m) -> Y]
    BY <2>1
  <2>3. n \in [1..Len(m) -> Y]
    BY <2>1, <2>2
  <2> HIDE DEF n
  <2>4. n \in Seq(Y) /\ Len(n) = Len(m)
    BY <2>2, <2>3
  <2>5. QED
    BY <2>2, <2>4 DEF Y
<1>4. ASSUME NEW i \in 1..Len(m) PROVE HasCode(n[i])
  <2>1. n[i] = IF i = Len(m) THEN f ELSE m[i]
    BY <1>2
  <2> HIDE DEF n
  <2>2. Len(m) # 0
    BY <1>3, <1>4
  <2>3. QED
    BY <2>1, <2>2 DEF Readings
<1> HIDE DEF n
<1>5. QED
  BY <1>3, <1>4 DEF Readings, n

\* Every token that is read leaves the functions so.
LEMMA WithTokenReadings ==
    ASSUME Readings(got), NEW role, NEW tok \in Token
    PROVE  Readings(WithToken(role, tok))
<1> DEFINE k == Len(got)
<1>1. Len(got) # 0 => HasCode(got[k])
  BY DEF Readings
<1>2. CASE role = "name"
  <2> DEFINE f == [Blank EXCEPT !.name = tok[1]]
  <2>1. HasCode(f)
    BY DEF HasCode, Blank
  <2>2. WithToken(role, tok) = Append(got, f)
    BY <1>2 DEF WithToken
  <2> HIDE DEF f
  <2>3. QED
    BY <2>1, <2>2, ReadingsAppend
<1>3. ASSUME NEW f, WithToken(role, tok) = [got EXCEPT ![k] = f], Len(got) # 0 => HasCode(f)
      PROVE  Readings(WithToken(role, tok))
  BY <1>3, ReadingsExcept
<1>4. ASSUME NEW field, field # "code", NEW v, Len(got) # 0
      PROVE  HasCode([got[k] EXCEPT ![field] = v])
  BY <1>1, <1>4 DEF HasCode
<1>5. CASE role \in {"conv", "async", "params", "locals"}
  <2>1. WithToken(role, tok) = [got EXCEPT ![k] = [got[k] EXCEPT ![role] = tok[1]]]
    BY <1>5 DEF WithToken
  <2>2. QED
    BY <1>3, <1>4, <1>5, <2>1
<1>6. CASE role = "code"
  <2>1. WithToken(role, tok) = [got EXCEPT ![k] = [got[k] EXCEPT !.code = Tail(tok)]]
    BY <1>6 DEF WithToken
  <2>2. Len(Tail(tok)) \in Nat
    BY DEF Token
  <2>3. Len(got) # 0 => HasCode([got[k] EXCEPT !.code = Tail(tok)])
    BY <1>1, <2>2 DEF HasCode
  <2>4. QED
    BY <1>3, <2>1, <2>3
<1>7. CASE role \in {"tag", "val", "bool"}
  <2>1. \E v : WithToken(role, tok) = [got EXCEPT ![k] = [got[k] EXCEPT !["consts"] = v]]
    BY <1>7 DEF WithToken
  <2>2. QED
    BY <1>3, <1>4, <2>1
<1>8. CASE role \in {"smap.key", "smap.text"}
  <2>1. \E v : WithToken(role, tok) = [got EXCEPT ![k] = [got[k] EXCEPT !["smap"] = v]]
    BY <1>8 DEF WithToken
  <2>2. QED
    BY <1>3, <1>4, <2>1
<1>9. CASE role \in {"debug.key", "debug.text"}
  <2>1. \E v : WithToken(role, tok) = [got EXCEPT ![k] = [got[k] EXCEPT !["debug"] = v]]
    BY <1>9 DEF WithToken
  <2>2. QED
    BY <1>3, <1>4, <2>1
<1>10. CASE role \notin {"name", "conv", "async", "params", "locals", "code", "tag", "val",
                         "bool", "smap.key", "smap.text", "debug.key", "debug.text"}
  <2>1. WithToken(role, tok) = got
    BY <1>10 DEF WithToken
  <2>2. QED
    BY <2>1
<1>11. QED
  BY <1>2, <1>5, <1>6, <1>7, <1>8, <1>9, <1>10


\* The file and what was read of it are sequences; the validator's invariant
\* holds of every function that passes through it; the function that runs is
\* one of a module whose calls are all present.
ModuleInv ==
    /\ file \in Tokens /\ at \in Nat \ {0} /\ Readings(got)
    /\ IInv
    /\ stage \in {"validate", "accepted"} => at \in 1..Len(got) /\ fn = got[at]
    /\ stage = "accepted" => AotTargets \subseteq AotPresent
    /\ phase = "run" => stage = "accepted"

\* The file is what a writer made, a part of it or more than it.
LEMMA InitModuleInv == Init => ModuleInv
<1> SUFFICES ASSUME Init PROVE ModuleInv
  OBVIOUS
<1> DEFINE w == Written(source.version, source.functions)
<1>1. w \in Tokens
  BY WrittenType DEF Init
<1>2. file = w \/ (\E n \in 0..(Len(w) - 1) : file = SubSeq(w, 1, n)) \/ file = Append(w, <<0>>)
  <2> HIDE DEF w
  <2>1. file = w \/ \E d \in Damaged(w) : file = d.file
    BY DEF Init, w
  <2>2. QED
    BY <2>1 DEF Damaged
<1> HIDE DEF w
<1>3. file \in Tokens
  <2>1. ASSUME NEW n \in 0..(Len(w) - 1) PROVE SubSeq(w, 1, n) \in Tokens
    BY <1>1, NumberToken DEF Tokens
  <2>2. Append(w, <<0>>) \in Tokens
    BY <1>1, NumberToken DEF Tokens
  <2>3. QED
    BY <1>1, <1>2, <2>1, <2>2
<1>4. Readings(got)
  <2>1. got = <<>> /\ <<>> \in Seq({})
    BY DEF Init
  <2>2. QED
    BY <2>1 DEF Readings
<1>5. IInv /\ phase = "pass1"
  <2>1. /\ fn = Blank /\ phase = "pass1" /\ pos = 0 /\ starts = {} /\ exits = {}
        /\ Size = 0
    BY DEF Init, Enter, FirstPhase, Blank, Size
  <2>2. QED
    BY <2>1 DEF IInv, InPass1, InPass2, AfterPass1, AfterPass2, Decoded
<1>6. QED
  BY <1>3, <1>4, <1>5 DEF Init, ModuleInv

\* A refusal ends it.
LEMMA RefuseModuleInv == ASSUME ModuleInv, Refuse, stage # "accepted" PROVE ModuleInv'
<1>1. IInv'
  BY SameIInv DEF ModuleInv, Refuse
<1>2. Readings(got)'
  BY DEF ModuleInv, Refuse, Readings
<1>3. QED
  BY <1>1, <1>2 DEF ModuleInv, Refuse, validatorVars

\* The next function enters the validator.
LEMMA LoadModuleInv ==
    ASSUME ModuleInv, NEW i \in 1..Len(got), ValidateFunction(i)
    PROVE  ModuleInv'
<1>1. HasCode(got[i]) /\ Len(got) \in Nat
  BY DEF ModuleInv, Readings
<1>2. /\ fn' = got[i] /\ phase' \in {"pass1", "rejected"} /\ pos' = 0
      /\ starts' = {} /\ exits' = {} /\ got' = got /\ at' = i /\ file' = file
      /\ stage' = "validate"
  BY DEF ValidateFunction, Load, FirstPhase
<1>3. Size' \in Nat
  BY <1>1, <1>2 DEF Size, HasCode
<1>4. IInv'
  BY <1>2, <1>3 DEF IInv, InPass1, InPass2, AfterPass1, AfterPass2, Decoded
<1>5. Readings(got)'
  BY <1>2 DEF ModuleInv, Readings
<1>6. QED
  BY <1>1, <1>2, <1>4, <1>5 DEF ModuleInv

\* Reading.
LEMMA ReadModuleInv == ASSUME ModuleInv, ReadToken \/ Truncated \/ ReadEnds PROVE ModuleInv'
<1> SUFFICES ASSUME ~Refuse PROVE ModuleInv'
  BY RefuseModuleInv DEF ReadToken, Truncated, ReadEnds
<1>1. stage = "read" /\ stage' # "accepted" /\ stage' # "validate" /\ UNCHANGED validatorVars
  BY DEF ReadToken, Truncated, ReadEnds
<1>2. IInv' /\ phase' # "run"
  BY <1>1, SameIInv DEF ModuleInv, validatorVars
<1>3. CASE ReadToken
  <2>1. at \in 1..Len(file) /\ file' = file /\ at' = at + 1
    BY <1>3 DEF ReadToken, ModuleInv, Tokens
  <2>2. file[at] \in Token
    BY <2>1 DEF ModuleInv, Tokens
  <2>3. got' = WithToken(Head(todo), file[at])
    BY <1>3 DEF ReadToken
  <2>4. Readings(WithToken(Head(todo), file[at]))
    BY <2>2, WithTokenReadings DEF ModuleInv
  <2>5. Readings(got)'
    BY <2>3, <2>4 DEF Readings
  <2>6. QED
    BY <1>1, <1>2, <2>1, <2>5 DEF ModuleInv
<1>4. CASE ReadEnds
  <2>1. UNCHANGED <<file, at, got>>
    BY <1>4 DEF ReadEnds
  <2>2. Readings(got)'
    BY <2>1 DEF ModuleInv, Readings
  <2>3. QED
    BY <1>1, <1>2, <2>1, <2>2 DEF ModuleInv
<1>5. QED
  BY <1>3, <1>4 DEF Truncated

\* A step that leaves the container alone.
LEMMA ContainerStays ==
    ASSUME ModuleInv, IInv', fn' = fn, UNCHANGED containerVars,
           phase' = "run" => stage = "accepted"
    PROVE  ModuleInv'
<1>1. Readings(got)' /\ AotTargets' = AotTargets
  BY DEF ModuleInv, Readings, containerVars, AotTargets
<1>2. QED
  BY <1>1 DEF ModuleInv, containerVars

\* Every step of the container.
LEMMA NextModuleInv == ModuleInv /\ [Next]_vars => ModuleInv'
<1> SUFFICES ASSUME ModuleInv, [Next]_vars PROVE ModuleInv'
  OBVIOUS
<1>1. CASE CheckEnvelope
  <2>1. CASE Refuse
    BY <1>1, <2>1, RefuseModuleInv DEF CheckEnvelope
  <2>2. CASE Envelope /\ ValidateFunction(1)
    <3>1. 1 \in 1..Len(got)
      BY <2>2 DEF Envelope, ModuleInv, Readings
    <3>2. QED
      BY <2>2, <3>1, LoadModuleInv
  <2>3. QED
    BY <1>1, <2>1, <2>2 DEF CheckEnvelope
<1>2. CASE ValidationStep
  <2>1. IInv' /\ fn' = fn /\ phase' # "run" /\ UNCHANGED containerVars
    <3>1. IInv'
      BY <1>2, Pass1IInv, Pass1EndsIInv, Pass2IInv, Pass2EndsIInv DEF ValidationStep, ModuleInv
    <3>2. fn' = fn /\ phase' # "run"
      BY <1>2 DEF ValidationStep, Pass1, Pass1Ends, Pass2, Pass2Ends, Reject
    <3>3. QED
      BY <1>2, <3>1, <3>2 DEF ValidationStep
  <2>2. QED
    BY <2>1, ContainerStays
<1>3. CASE FunctionRejected
  BY <1>3, RefuseModuleInv DEF FunctionRejected
<1>4. CASE NextFunction
  <2>1. at + 1 \in 1..Len(got)
    BY <1>4 DEF NextFunction, ModuleInv
  <2>2. QED
    BY <1>4, <2>1, LoadModuleInv DEF NextFunction
<1>5. CASE Gate
  <2>1. CASE Refuse
    BY <1>5, <2>1, RefuseModuleInv DEF Gate
  <2>2. CASE ~Refuse
    <3>1. /\ stage = "validate" /\ stage' = "accepted" /\ AotTargets \subseteq AotPresent
          /\ UNCHANGED <<file, at, got, validatorVars>>
      BY <1>5, <2>2 DEF Gate
    <3>2. IInv' /\ phase' = phase /\ fn' = fn
      BY <3>1, SameIInv DEF ModuleInv, validatorVars
    <3>3. Readings(got)' /\ AotTargets' = AotTargets
      BY <3>1 DEF ModuleInv, Readings, AotTargets
    <3>4. QED
      BY <3>1, <3>2, <3>3 DEF ModuleInv
  <2>3. QED
    BY <2>1, <2>2
<1>6. CASE Execute
  <2>1. IInv' /\ fn' = fn /\ stage = "accepted" /\ UNCHANGED containerVars
    BY <1>6, RunIInv DEF Execute, ModuleInv, Call, Exec
  <2>2. QED
    BY <2>1, ContainerStays
<1>7. CASE UNCHANGED vars
  <2>1. IInv' /\ fn' = fn /\ phase' = phase /\ UNCHANGED containerVars
    BY <1>7, SameIInv DEF ModuleInv, vars, validatorVars
  <2>2. QED
    BY <2>1, ContainerStays DEF ModuleInv
<1>8. QED
  BY <1>1, <1>2, <1>3, <1>4, <1>5, <1>6, <1>7, ReadModuleInv DEF Next, Decide

\* The invariant of the container.
THEOREM ModuleInvariant == Spec => []ModuleInv
BY InitModuleInv, NextModuleInv, PTL DEF Spec

\* The interpreter of a module that was read from any file stays on the
\* instructions that the validator has checked.
THEOREM ModulesAreSafe == Spec => []ExecSafe
<1>1. ModuleInv => ExecSafe
  BY DEF ModuleInv, IInv, AfterPass1, Decoded, ExecSafe
<1>2. QED
  BY <1>1, ModuleInvariant, PTL

\* No call by name into the AOT snapshot is without an entry point, whatever
\* the code of the accepted module is and however it is executed.
THEOREM CallsHaveEntryPoints == Spec => []AotCallsPresent
<1>1. ModuleInv => AotCallsPresent
  <2> SUFFICES ASSUME ModuleInv, phase = "run", pos < Size,
                      At(pos) \in {CallStatic, CallOriginal}
               PROVE  fn.consts[U16(pos + 1) + 1].val \in AotPresent
    BY DEF AotCallsPresent
  <2> DEFINE ops == {CallStatic, CallOriginal}
  <2>1. Size \in Nat /\ Decoded(Size) /\ pos \in starts
    BY DEF ModuleInv, IInv, AfterPass1
  <2>2. fn.consts[U16(pos + 1) + 1].val \in TargetsFor(fn, ops)
    BY <2>1, TargetsSeen
  <2>3. at \in 1..Len(got) /\ fn = got[at] /\ AotTargets \subseteq AotPresent
    BY DEF ModuleInv
  <2>4. TargetsFor(fn, ops) \subseteq AotTargets
    BY <2>3 DEF AotTargets
  <2>5. QED
    BY <2>2, <2>3, <2>4
<1>2. QED
  BY <1>1, ModuleInvariant, PTL

-----------------------------------------------------------------------------
(* Sequences of sequences                                                   *)

\* Three sequences one behind the other.
LEMMA Regroup ==
    ASSUME NEW E, NEW one \in Seq(E), NEW two \in Seq(E), NEW three \in Seq(E)
    PROVE  (one \o two) \o three = one \o (two \o three)
BY ConcatAssociative

\* The same of tokens.
LEMMA RegroupTokens ==
    \A p, q, u \in Seq(Token) : (p \o q) \o u = p \o (q \o u) /\ q \o u \in Seq(Token)
<1> DEFINE X == Token
<1> HIDE DEF X
<1>1. \A p, q, u \in Seq(X) : (p \o q) \o u = p \o (q \o u) /\ q \o u \in Seq(X)
  BY Regroup, ConcatType
<1> QED BY <1>1 DEF X

\* What FlattenSeq makes of a list of sequences is its first one and what it
\* makes of the others.
LEMMA FlattenCons ==
    ASSUME NEW X, NEW ss \in Seq(Seq(X)), ss # <<>>
    PROVE  FlattenSeq(ss) = ss[1] \o FlattenSeq(Tail(ss))
<1> DEFINE tt == Tail(ss)
           n == Len(tt)
           fl(u) == CHOOSE g : Flat(u, g, Len(u))
<1>1. /\ tt \in Seq(Seq(X)) /\ n \in Nat /\ Len(ss) = n + 1
      /\ \A i \in 1..n : tt[i] = ss[i + 1]
      /\ ss[1] \in Seq(X)
  BY HeadTailProperties
<1>2. ASSUME NEW u \in Seq(Seq(X)), Len(u) # 0
      PROVE  /\ FlattenSeq(u) = fl(u)[Len(u)] /\ Flat(u, fl(u), Len(u))
             /\ \A i \in 1..Len(u) : fl(u)[i] \in Seq(X)
  <2>1. FlattenSeq(u) = fl(u)[Len(u)]
    BY <1>2 DEF FlattenSeq, Flat
  <2>2. \E g : Flat(u, g, Len(u))
    BY FlatExists
  <2>3. Flat(u, fl(u), Len(u))
    BY <2>2
  <2> HIDE DEF fl
  <2>4. QED
    BY <2>1, <2>3, FlatTypes
<1> DEFINE g == fl(ss)
           h == fl(tt)
<1>3. /\ FlattenSeq(ss) = g[n + 1] /\ Flat(ss, g, n + 1)
  <2> HIDE DEF fl, tt
  <2>1. QED
    BY <1>1, <1>2
<1>4. n # 0 => /\ FlattenSeq(tt) = h[n] /\ Flat(tt, h, n)
               /\ \A i \in 1..n : h[i] \in Seq(X)
  <2> HIDE DEF fl, tt
  <2>1. QED
    BY <1>1, <1>2
<1> HIDE DEF fl, g, h, tt, n
<1>5. \A i \in 1..(n + 1) : g[i] = IF i = 1 THEN ss[i] ELSE g[i - 1] \o ss[i]
  BY <1>3 DEF Flat
<1>6. n # 0 => \A i \in 1..n : h[i] = IF i = 1 THEN tt[i] ELSE h[i - 1] \o tt[i]
  BY <1>4 DEF Flat
<1>7. CASE n = 0
  <2>1. FlattenSeq(ss) = ss[1]
    BY <1>3, <1>5, <1>7
  <2>2. tt = <<>> /\ FlattenSeq(tt) = <<>>
    BY <1>1, <1>7 DEF FlattenSeq, n
  <2>3. QED
    BY <1>1, <2>1, <2>2, ConcatEmptySeq DEF tt
<1>8. CASE n # 0
  <2> DEFINE Eq(a, b) == g[b] = ss[1] \o h[a]
             S == {i \in Nat : i + 1 <= n => Eq(i + 1, i + 2)}
  <2>1. 0 \in S
    <3>1. 1 \in 1..(n + 1) /\ 2 \in 1..(n + 1) /\ 1 \in 1..n
      BY <1>1, <1>8
    <3>2. g[1] = ss[1]
      BY <1>5, <3>1
    <3>3. g[2] = g[1] \o ss[2]
      <4>1. 2 # 1 /\ 2 - 1 = 1
        OBVIOUS
      <4>2. QED
        BY <1>5, <3>1, <4>1
    <3>4. h[1] = ss[2]
      BY <1>1, <1>6, <1>8, <3>1
    <3>5. Eq(1, 2)
      BY <3>2, <3>3, <3>4
    <3> HIDE DEF Eq
    <3>6. QED
      BY <3>5
  <2>2. ASSUME NEW i \in Nat, i \in S PROVE i + 1 \in S
    <3> SUFFICES ASSUME (i + 1) + 1 <= n
                 PROVE  Eq((i + 1) + 1, (i + 1) + 2)
      <4> HIDE DEF Eq
      <4>1. QED
        OBVIOUS
    <3> DEFINE a == i + 1
               b == i + 2
               c == i + 3
    <3>1. /\ a \in 1..n /\ b \in 1..n /\ b \in 1..(n + 1) /\ c \in 1..(n + 1)
          /\ b # 1 /\ c # 1 /\ c - 1 = b /\ b - 1 = a /\ b + 1 = c
          /\ (i + 1) + 2 = c /\ (i + 1) + 1 = b
      BY <1>1
    <3>2. Eq(a, b)
      <4> HIDE DEF Eq
      <4>1. QED
        BY <1>1, <2>2
    <3> HIDE DEF a, b, c
    <3>3. g[c] = g[b] \o ss[c]
      BY <1>5, <3>1
    <3>4. h[b] = h[a] \o tt[b] /\ tt[b] = ss[c]
      BY <1>1, <1>6, <1>8, <3>1
    <3>5. h[a] \in Seq(X) /\ tt[b] \in Seq(X)
      <4>1. \A j \in 1..n : h[j] \in Seq(X)
        BY <1>4, <1>8, Zenon
      <4>2. h[a] \in Seq(X)
        BY <3>1, <4>1, Zenon
      <4>3. \A j \in 1..Len(tt) : tt[j] \in Seq(X)
        BY <1>1
      <4>4. tt[b] \in Seq(X)
        BY <3>1, <4>3, Zenon DEF n
      <4>5. QED
        BY <4>2, <4>4, Zenon
    <3>6. (ss[1] \o h[a]) \o tt[b] = ss[1] \o (h[a] \o tt[b])
      <4> DEFINE x == ss[1]
                 y == h[a]
                 z == tt[b]
      <4>1. x \in Seq(X) /\ y \in Seq(X) /\ z \in Seq(X)
        BY <1>1, <3>5
      <4> HIDE DEF x, y, z
      <4>2. (x \o y) \o z = x \o (y \o z)
        BY <4>1, ConcatAssociative
      <4>3. QED
        BY <4>2 DEF x, y, z
    <3>7. g[c] = (ss[1] \o h[a]) \o tt[b]
      BY <3>2, <3>3, <3>4, Zenon
    <3>8. Eq(b, c)
      BY <3>4, <3>6, <3>7, Zenon
    <3> HIDE DEF Eq
    <3>9. QED
      BY <3>1, <3>8, Zenon
  <2> HIDE DEF S, Eq
  <2>3. \A i \in Nat : i \in S
    BY <2>1, <2>2, NumberInduction
  <2>4. n - 1 \in S /\ n - 1 \in Nat /\ (n - 1) + 1 = n /\ (n - 1) + 2 = n + 1
    BY <1>1, <1>8, <2>3
  <2>5. Eq(n, n + 1)
    <3>1. Eq((n - 1) + 1, (n - 1) + 2)
      BY <1>1, <2>4 DEF S
    <3>2. QED
      BY <2>4, <3>1, Zenon
  <2>6. g[n + 1] = ss[1] \o h[n]
    BY <2>5 DEF Eq
  <2>7. QED
    BY <1>3, <1>4, <1>8, <2>6 DEF tt
<1>9. QED
  BY <1>7, <1>8

\* What is left of a list of sequences from the i-th on.
From(ss, i) == FlattenSeq(SubSeq(ss, i, Len(ss)))

\* A part of a list.
LEMMA SuffixType ==
    ASSUME NEW X, NEW ss \in Seq(X), NEW i \in Nat \ {0}
    PROVE  SubSeq(ss, i, Len(ss)) \in Seq(X)
<1>1. \A j \in i..Len(ss) : ss[j] \in X
  OBVIOUS
<1>2. QED
  BY <1>1, SubSeqProperties

\* The rest is the next sequence and the rest behind it.
LEMMA FromStep ==
    ASSUME NEW X, NEW ss \in Seq(Seq(X)), NEW i \in 1..Len(ss)
    PROVE  From(ss, i) = ss[i] \o From(ss, i + 1)
<1> DEFINE a == SubSeq(ss, i, Len(ss))
           b == SubSeq(ss, i + 1, Len(ss))
<1>1. a \in Seq(Seq(X)) /\ b \in Seq(Seq(X))
  <2>1. i \in Nat \ {0} /\ i + 1 \in Nat \ {0}
    OBVIOUS
  <2>2. QED
    BY <2>1, SuffixType
<1>2. a = <<ss[i]>> \o b
  BY SubSeqRecursiveFirst
<1> HIDE DEF a, b
<1>3. a # <<>> /\ a[1] = ss[i] /\ Tail(a) = b
  <2> DEFINE e == ss[i]
  <2>1. e \in Seq(X) /\ a = <<e>> \o b
    BY <1>2
  <2> HIDE DEF e
  <2>2. a # <<>> /\ a[1] = e /\ Tail(a) = b
    BY <1>1, <2>1, OneMore
  <2>3. QED
    BY <2>2 DEF e
<1>4. QED
  BY <1>1, <1>3, FlattenCons DEF From, a, b

\* Nothing is left at the end, everything at the beginning.
LEMMA FromEnds ==
    ASSUME NEW X, NEW ss \in Seq(Seq(X))
    PROVE  From(ss, Len(ss) + 1) = <<>> /\ From(ss, 1) = FlattenSeq(ss)
<1>1. SubSeq(ss, Len(ss) + 1, Len(ss)) = <<>>
  BY SubSeqEmpty
<1>2. FlattenSeq(<<>>) = <<>>
  BY DEF FlattenSeq
<1>3. QED
  BY <1>1, <1>2, SubSeqFull, Zenon DEF From

\* The rest is a sequence.
LEMMA FromType ==
    ASSUME NEW X, NEW ss \in Seq(Seq(X)), NEW i \in Nat \ {0}
    PROVE  From(ss, i) \in Seq(X)
BY SuffixType, FlattenSeqType DEF From

\* So many times the same.
LEMMA CopiesLaws ==
    ASSUME NEW X, NEW seq \in Seq(X), NEW n \in Nat
    PROVE  /\ Copies(n, seq) \in Seq(X) /\ Copies(0, seq) = <<>>
           /\ Copies(n + 1, seq) = seq \o Copies(n, seq)
<1> DEFINE c(k) == [i \in 1..k |-> seq]
<1>1. \A k \in Nat : c(k) \in Seq(Seq(X)) /\ Len(c(k)) = k
  OBVIOUS
<1>2. Copies(n, seq) \in Seq(X)
  <2>1. c(n) \in Seq(Seq(X)) /\ Copies(n, seq) = FlattenSeq(c(n))
    BY <1>1 DEF Copies
  <2> HIDE DEF c
  <2>2. QED
    BY <2>1, FlattenSeqType
<1>3. Copies(0, seq) = <<>>
  <2>1. c(0) = <<>> /\ Copies(0, seq) = FlattenSeq(c(0))
    BY <1>1 DEF Copies
  <2> HIDE DEF c
  <2>2. QED
    BY <2>1 DEF FlattenSeq
<1>4. Copies(n + 1, seq) = seq \o Copies(n, seq)
  <2>1. c(n + 1)[1] = seq
    OBVIOUS
  <2>2. \A i \in 1..n : c(n)[i] = seq /\ c(n + 1)[i + 1] = seq
    OBVIOUS
  <2>3. Copies(n + 1, seq) = FlattenSeq(c(n + 1)) /\ Copies(n, seq) = FlattenSeq(c(n))
    BY DEF Copies
  <2> HIDE DEF c
  <2>4. c(n + 1) \in Seq(Seq(X)) /\ Len(c(n + 1)) = n + 1 /\ c(n) \in Seq(Seq(X)) /\ Len(c(n)) = n
    BY <1>1
  <2>5. c(n + 1) # <<>>
    BY <2>4
  <2>6. Tail(c(n + 1)) \in Seq(Seq(X)) /\ Len(Tail(c(n + 1))) = n
        /\ \A i \in 1..n : Tail(c(n + 1))[i] = c(n + 1)[i + 1]
    BY <2>4, <2>5, HeadTailProperties
  <2>7. Tail(c(n + 1)) = c(n)
    BY <2>2, <2>4, <2>6, SeqEqual
  <2>8. QED
    BY <2>1, <2>3, <2>4, <2>5, <2>7, FlattenCons
<1>5. QED
  BY <1>2, <1>3, <1>4

-----------------------------------------------------------------------------
(* The layouts and the functions that have been read in part                *)

\* The three layouts of the versions that this build reads.
Layout1 == <<"name", "conv", "params", "locals", "consts", "code", "smap">>
Layout2 == <<"name", "conv", "params", "locals", "consts", "code", "smap", "debug">>
Layout3 == <<"name", "conv", "async", "params", "locals", "consts", "code", "smap", "debug">>

\* Two tuples one behind the other.
LEMMA Joined ==
    ASSUME NEW X, NEW a \in Seq(X), NEW b \in Seq(X), NEW c \in Seq(X),
           Len(c) = Len(a) + Len(b),
           \A i \in 1..Len(a) : c[i] = a[i],
           \A i \in 1..Len(b) : c[Len(a) + i] = b[i]
    PROVE  a \o b = c
<1>1. a \o b \in Seq(X) /\ Len(a \o b) = Len(c)
  BY ConcatProperties
<1>2. ASSUME NEW i \in 1..Len(c) PROVE (a \o b)[i] = c[i]
  <2>1. Len(a) \in Nat /\ Len(b) \in Nat
    OBVIOUS
  <2>2. (a \o b)[i] = IF i <= Len(a) THEN a[i] ELSE b[i - Len(a)]
    BY ConcatProperties
  <2>3. CASE i <= Len(a)
    BY <2>1, <2>2, <2>3
  <2>4. CASE ~(i <= Len(a))
    <3>1. i - Len(a) \in 1..Len(b) /\ Len(a) + (i - Len(a)) = i
      BY <2>1, <2>4
    <3>2. c[Len(a) + (i - Len(a))] = b[i - Len(a)]
      BY <3>1
    <3>3. QED
      BY <2>2, <2>4, <3>1, <3>2, Zenon
  <2>5. QED
    BY <2>3, <2>4
<1>3. QED
  BY <1>1, <1>2, SeqEqual

\* The same of lists of fields.
LEMMA JoinedFields ==
    ASSUME NEW a \in Seq(Fields), NEW b \in Seq(Fields), NEW c \in Seq(Fields),
           Len(c) = Len(a) + Len(b),
           \A i \in 1..Len(a) : c[i] = a[i],
           \A i \in 1..Len(b) : c[Len(a) + i] = b[i]
    PROVE  a \o b = c
BY Joined

\* Layout spells them.
LEMMA LayoutIs ==
    ASSUME NEW v \in 0..3
    PROVE  /\ v < 2 => Layout(v) = Layout1
           /\ v = 2 => Layout(v) = Layout2
           /\ v = 3 => Layout(v) = Layout3
           /\ WriterLayout(v) = Layout(v)
<1> DEFINE a == <<"name", "conv">>
           aa == <<"name", "conv", "async">>
           b == <<"params", "locals", "consts", "code", "smap">>
           c == <<"name", "conv", "async", "params", "locals", "consts", "code", "smap">>
           y == <<"async">>
           d == <<"debug">>
<1>1. /\ a \in Seq(Fields) /\ b \in Seq(Fields) /\ aa \in Seq(Fields) /\ c \in Seq(Fields)
      /\ y \in Seq(Fields) /\ d \in Seq(Fields)
      /\ Layout1 \in Seq(Fields) /\ Layout2 \in Seq(Fields) /\ Layout3 \in Seq(Fields)
  BY DEF Fields, Numbers, Layout1, Layout2, Layout3
<1>2. ASSUME v < 2 PROVE Layout(v) = Layout1
  <2>1. Layout(v) = ((a \o <<>>) \o b) \o <<>>
    BY <1>2 DEF Layout
  <2>2. a \o b = Layout1
    <3>1. /\ Len(Layout1) = Len(a) + Len(b)
          /\ \A i \in 1..Len(a) : Layout1[i] = a[i]
          /\ \A i \in 1..Len(b) : Layout1[Len(a) + i] = b[i]
      BY DEF Layout1
    <3> HIDE DEF a, b
    <3>2. QED
      BY <1>1, <3>1, Joined
  <2> HIDE DEF a, b
  <2>3. a \o <<>> = a /\ (a \o b) \o <<>> = a \o b
    BY <1>1, ConcatEmptySeq, ConcatType
  <2>4. QED
    BY <1>2, <2>1, <2>2, <2>3
<1>3. ASSUME v = 2 PROVE Layout(v) = Layout2
  <2>1. Layout(v) = ((a \o <<>>) \o b) \o d
    BY <1>3 DEF Layout
  <2>2. a \o b = Layout1
    <3>1. /\ Len(Layout1) = Len(a) + Len(b)
          /\ \A i \in 1..Len(a) : Layout1[i] = a[i]
          /\ \A i \in 1..Len(b) : Layout1[Len(a) + i] = b[i]
      BY DEF Layout1
    <3> HIDE DEF a, b
    <3>2. QED
      BY <1>1, <3>1, Joined
  <2>3. Layout1 \o d = Layout2
    <3>1. /\ Len(Layout2) = Len(Layout1) + Len(d)
          /\ \A i \in 1..Len(Layout1) : Layout2[i] = Layout1[i]
          /\ \A i \in 1..Len(d) : Layout2[Len(Layout1) + i] = d[i]
      BY DEF Layout1, Layout2
    <3> HIDE DEF d
    <3>2. QED
      BY <1>1, <3>1, JoinedFields
  <2> HIDE DEF a, b, d
  <2>4. a \o <<>> = a
    BY <1>1, ConcatEmptySeq
  <2>5. QED
    BY <1>3, <2>1, <2>2, <2>3, <2>4
<1>4. ASSUME v = 3 PROVE Layout(v) = Layout3
  <2>1. Layout(v) = ((a \o y) \o b) \o d
    BY <1>4 DEF Layout
  <2>2. a \o y = aa
    <3>1. /\ Len(aa) = Len(a) + Len(y)
          /\ \A i \in 1..Len(a) : aa[i] = a[i]
          /\ \A i \in 1..Len(y) : aa[Len(a) + i] = y[i]
      OBVIOUS
    <3> HIDE DEF a, y, aa
    <3>2. QED
      BY <1>1, <3>1, Joined
  <2>3. aa \o b = c
    <3>1. /\ Len(c) = Len(aa) + Len(b)
          /\ \A i \in 1..Len(aa) : c[i] = aa[i]
          /\ \A i \in 1..Len(b) : c[Len(aa) + i] = b[i]
      OBVIOUS
    <3> HIDE DEF aa, b, c
    <3>2. QED
      BY <1>1, <3>1, Joined
  <2>4. c \o d = Layout3
    <3>1. /\ Len(Layout3) = Len(c) + Len(d)
          /\ \A i \in 1..Len(c) : Layout3[i] = c[i]
          /\ \A i \in 1..Len(d) : Layout3[Len(c) + i] = d[i]
      BY DEF Layout3
    <3> HIDE DEF c, d
    <3>2. QED
      BY <1>1, <3>1, Joined
  <2> HIDE DEF a, aa, b, c, d, y
  <2>5. QED
    BY <1>4, <2>1, <2>2, <2>3, <2>4
<1>5. WriterLayout(v) = Layout(v)
  <2>1. Layout(v) \in Seq(Fields)
    <3>1. v < 2 \/ v = 2 \/ v = 3
      OBVIOUS
    <3>2. QED
      BY <1>1, <1>2, <1>3, <1>4, <3>1
  <2>2. ~(v > FORMAT_VERSION)
    BY DEF FORMAT_VERSION
  <2>3. WriterLayout(v) = Layout(v) \o <<>>
    BY <2>2 DEF WriterLayout
  <2>4. QED
    BY <2>1, <2>3, ConcatEmptySeq
<1>6. QED
  BY <1>2, <1>3, <1>4, <1>5

\* The fields of a function that has been read.
Names == {"name", "conv", "async", "params", "locals", "consts", "code", "smap", "debug"}
Known(v, x) == (x = "async" => v >= 3) /\ (x = "debug" => v >= 2)

\* A layout begins with the name and has every field that the version knows
\* once.
LEMMA LayoutFacts ==
    ASSUME NEW v \in 0..3
    PROVE  /\ Layout(v) \in Seq(Names) /\ Layout(v) \in Seq(Fields)
           /\ Len(Layout(v)) \in Nat \ {0} /\ Layout(v)[1] = "name"
           /\ \A i, j \in 1..Len(Layout(v)) : Layout(v)[i] = Layout(v)[j] => i = j
           /\ \A x \in Names : Known(v, x) => \E i \in 1..Len(Layout(v)) : Layout(v)[i] = x
           /\ \A i \in 1..Len(Layout(v)) : Known(v, Layout(v)[i])
<1> DEFINE Good(lay) ==
             /\ lay \in Seq(Names) /\ lay \in Seq(Fields)
             /\ Len(lay) \in Nat \ {0} /\ lay[1] = "name"
             /\ \A i, j \in 1..Len(lay) : lay[i] = lay[j] => i = j
             /\ \A x \in Names : Known(v, x) => \E i \in 1..Len(lay) : lay[i] = x
             /\ \A i \in 1..Len(lay) : Known(v, lay[i])
<1>1. CASE v < 2
  <2>1. Good(Layout1)
    BY <1>1 DEF Layout1, Names, Fields, Numbers, Known
  <2>2. Layout(v) = Layout1
    BY <1>1, LayoutIs
  <2>3. QED
    BY <2>1, <2>2
<1>2. CASE v = 2
  <2>1. Good(Layout2)
    BY <1>2 DEF Layout2, Names, Fields, Numbers, Known
  <2>2. Layout(v) = Layout2
    BY <1>2, LayoutIs
  <2>3. QED
    BY <2>1, <2>2
<1>3. CASE v = 3
  <2>1. Good(Layout3)
    BY <1>3 DEF Layout3, Names, Fields, Numbers, Known
  <2>2. Layout(v) = Layout3
    BY <1>3, LayoutIs
  <2>3. QED
    BY <2>1, <2>2
<1>4. QED
  BY <1>1, <1>2, <1>3

\* A function of which the fields before the j-th have been read.
Partial(v, f, j) ==
    [x \in Names |-> IF \E i \in 1..(j - 1) : Layout(v)[i] = x THEN f[x] ELSE Blank[x]]

\* Reading a field.
LEMMA PartialStep ==
    ASSUME NEW v \in 0..3, NEW f \in Function, NEW j \in 1..Len(Layout(v))
    PROVE  /\ Partial(v, f, j + 1) = [Partial(v, f, j) EXCEPT ![Layout(v)[j]] = f[Layout(v)[j]]]
           /\ Partial(v, f, j)[Layout(v)[j]] = Blank[Layout(v)[j]]
<1> DEFINE lay == Layout(v)
           n == Len(lay)
<1>1. /\ lay \in Seq(Names) /\ n \in Nat /\ j \in 1..n
      /\ \A i, k \in 1..n : lay[i] = lay[k] => i = k
  BY LayoutFacts
<1> HIDE DEF lay, n
<1>2. lay[j] \in Names
  BY <1>1 DEF n
<1> DEFINE Read(k, x) == \E i \in 1..(k - 1) : lay[i] = x
<1>3. ~Read(j, lay[j])
  BY <1>1
<1>4. \A x \in Names : Read(j + 1, x) <=> Read(j, x) \/ x = lay[j]
  <2>1. 1..((j + 1) - 1) = 1..(j - 1) \cup {j}
    BY <1>1
  <2>2. QED
    BY <2>1, Zenon
<1>5. \A k : Partial(v, f, k) = [x \in Names |-> IF Read(k, x) THEN f[x] ELSE Blank[x]]
  BY DEF Partial, lay
<1> HIDE DEF Read
<1>6. QED
  BY <1>2, <1>3, <1>4, <1>5 DEF lay

\* Before the first field nothing is known, and the name is the first.
LEMMA PartialFirst ==
    ASSUME NEW v \in 0..3, NEW f
    PROVE  Partial(v, f, 2) = [Blank EXCEPT !.name = f.name]
<1>1. Layout(v)[1] = "name" /\ 1..(2 - 1) = {1}
  BY LayoutFacts
<1>2. \A x : (\E i \in 1..(2 - 1) : Layout(v)[i] = x) <=> x = "name"
  BY <1>1
<1>3. Partial(v, f, 2) = [x \in Names |-> IF x = "name" THEN f[x] ELSE Blank[x]]
  BY <1>2 DEF Partial
<1>4. QED
  BY <1>3 DEF Names, Blank

\* After the last field the function is what the version can say of it.
LEMMA PartialLast ==
    ASSUME NEW v \in 0..3, NEW f \in Function
    PROVE  Partial(v, f, Len(Layout(v)) + 1) = Expressed(f, v)
<1> DEFINE lay == Layout(v)
<1>1. \A x \in Names : (\E i \in 1..((Len(lay) + 1) - 1) : lay[i] = x) <=> Known(v, x)
  <2>1. Len(lay) \in Nat /\ (Len(lay) + 1) - 1 = Len(lay)
    BY LayoutFacts
  <2>2. \A x \in Names : (\E i \in 1..Len(lay) : lay[i] = x) <=> Known(v, x)
    <3>1. \A x \in Names : Known(v, x) => \E i \in 1..Len(lay) : lay[i] = x
      BY LayoutFacts
    <3>2. \A i \in 1..Len(lay) : Known(v, lay[i])
      BY LayoutFacts
    <3>3. QED
      BY <3>1, <3>2, Zenon
  <2>3. QED
    BY <2>1, <2>2, Zenon
<1>2. Partial(v, f, Len(lay) + 1) = [x \in Names |-> IF Known(v, x) THEN f[x] ELSE Blank[x]]
  BY <1>1 DEF Partial
<1>3. [x \in Names |-> IF Known(v, x) THEN f[x] ELSE Blank[x]] = Expressed(f, v)
  <2>1. DOMAIN f = Names
    BY DEF Function, Names
  <2>2. DOMAIN Expressed(f, v) = Names
    BY <2>1 DEF Expressed
  <2>3. \A x \in Names : x # "async" /\ x # "debug" => Expressed(f, v)[x] = f[x] /\ Known(v, x)
    BY <2>1 DEF Expressed, Known
  <2>4. Expressed(f, v)["async"] = IF Known(v, "async") THEN f.async ELSE 0
    BY <2>1 DEF Expressed, Known, Names
  <2>5. Expressed(f, v)["debug"] = IF Known(v, "debug") THEN f.debug ELSE <<>>
    BY <2>1 DEF Expressed, Known, Names
  <2>6. Blank["async"] = 0 /\ Blank["debug"] = <<>>
    BY DEF Blank
  <2>7. \A x \in Names : Expressed(f, v)[x] = IF Known(v, x) THEN f[x] ELSE Blank[x]
    BY <2>3, <2>4, <2>5, <2>6
  <2>8. Expressed(f, v) = [x \in DOMAIN Expressed(f, v) |-> Expressed(f, v)[x]]
    BY DEF Expressed
  <2>9. QED
    BY <2>2, <2>7, <2>8
<1>4. QED
  BY <1>2, <1>3

-----------------------------------------------------------------------------
(* What the writer makes, from any field on                                 *)

\* What the writer makes of the fields of a function, and of the functions.
FieldsOf(v, f) == [j \in 1..Len(Layout(v)) |-> FieldTokens(f, Layout(v)[j])]
Bodies(v, m) == [i \in 1..Len(m) |-> FunctionTokens(m[i], v)]

\* What the reader expects, and what the file still holds, where field j of
\* the function behind the first k ones begins.
TodoFrom(v, m, k, j) ==
    SubSeq(Layout(v), j, Len(Layout(v))) \o Copies(Len(m) - (k + 1), Layout(v))
RestFrom(v, m, k, j) == From(FieldsOf(v, m[k + 1]), j) \o From(Bodies(v, m), k + 2)

\* Both are lists of tokens.
LEMMA WriterTypes ==
    ASSUME NEW v \in 0..3, NEW m \in Seq(Function)
    PROVE  /\ \A f \in Function : FieldsOf(v, f) \in Seq(Tokens)
                                  /\ Len(FieldsOf(v, f)) = Len(Layout(v))
                                  /\ FunctionTokens(f, v) = FlattenSeq(FieldsOf(v, f))
           /\ Bodies(v, m) \in Seq(Tokens) /\ Len(Bodies(v, m)) = Len(m)
<1>1. ASSUME NEW f \in Function
      PROVE  /\ FieldsOf(v, f) \in Seq(Tokens) /\ Len(FieldsOf(v, f)) = Len(Layout(v))
             /\ FunctionTokens(f, v) = FlattenSeq(FieldsOf(v, f))
             /\ FunctionTokens(f, v) \in Tokens
  <2>1. Layout(v) \in Seq(Fields) /\ WriterLayout(v) = Layout(v)
    BY LayoutFacts, LayoutIs
  <2>2. \A j \in 1..Len(Layout(v)) : FieldTokens(f, Layout(v)[j]) \in Tokens
    BY <2>1, FieldTokensType
  <2>3. FieldsOf(v, f) \in Seq(Tokens) /\ Len(FieldsOf(v, f)) = Len(Layout(v))
    BY <2>1, <2>2 DEF FieldsOf
  <2>4. FunctionTokens(f, v) = FlattenSeq(FieldsOf(v, f))
    BY <2>1 DEF FunctionTokens, FieldsOf
  <2>5. QED
    BY <2>3, <2>4, FlattenSeqType DEF Tokens
<1>2. \A i \in 1..Len(m) : FunctionTokens(m[i], v) \in Tokens
  BY <1>1
<1>3. Bodies(v, m) \in Seq(Tokens) /\ Len(Bodies(v, m)) = Len(m)
  BY <1>2 DEF Bodies
<1>4. QED
  BY <1>1, <1>3

\* The reader expects the field that comes next, and the file holds it.
LEMMA FieldStep ==
    ASSUME NEW v \in 0..3, NEW m \in Seq(Function), NEW k \in 0..(Len(m) - 1),
           NEW j \in 1..Len(Layout(v))
    PROVE  /\ TodoFrom(v, m, k, j + 1) \in Seq(Names)
           /\ RestFrom(v, m, k, j + 1) \in Tokens
           /\ TodoFrom(v, m, k, j) = <<Layout(v)[j]>> \o TodoFrom(v, m, k, j + 1)
           /\ RestFrom(v, m, k, j) = FieldTokens(m[k + 1], Layout(v)[j]) \o RestFrom(v, m, k, j + 1)
<1> DEFINE lay == Layout(v)
           f == m[k + 1]
<1>1. /\ lay \in Seq(Names) /\ j \in 1..Len(lay) /\ Len(lay) \in Nat /\ j + 1 \in Nat \ {0}
      /\ Len(m) - (k + 1) \in Nat /\ f \in Function /\ k + 2 \in Nat \ {0}
  BY LayoutFacts
<1> HIDE DEF f
<1>2. /\ FieldsOf(v, f) \in Seq(Tokens) /\ Len(FieldsOf(v, f)) = Len(lay)
      /\ Bodies(v, m) \in Seq(Tokens)
  BY <1>1, WriterTypes
<1>3. FieldsOf(v, f)[j] = FieldTokens(f, lay[j])
  BY <1>1 DEF FieldsOf
<1> DEFINE a == SubSeq(lay, j + 1, Len(lay))
           b == Copies(Len(m) - (k + 1), lay)
<1>4. /\ SubSeq(lay, j, Len(lay)) = <<lay[j]>> \o a
      /\ a \in Seq(Names) /\ b \in Seq(Names) /\ <<lay[j]>> \in Seq(Names)
  <2>1. SubSeq(lay, j, Len(lay)) = <<lay[j]>> \o a
    <3> HIDE DEF lay
    <3>1. QED
      BY <1>1, SubSeqRecursiveFirst
  <2>2. a \in Seq(Names)
    <3> HIDE DEF lay
    <3>1. QED
      BY <1>1, SuffixType
  <2>3. b \in Seq(Names)
    <3> HIDE DEF lay
    <3>1. QED
      BY <1>1, CopiesLaws
  <2>4. QED
    BY <1>1, <2>1, <2>2, <2>3
<1>5. /\ TodoFrom(v, m, k, j + 1) = a \o b
      /\ TodoFrom(v, m, k, j) = (<<lay[j]>> \o a) \o b
  BY <1>4 DEF TodoFrom
<1>6. (<<lay[j]>> \o a) \o b = <<lay[j]>> \o (a \o b) /\ a \o b \in Seq(Names)
  <2> DEFINE h == <<lay[j]>>
  <2>1. h \in Seq(Names) /\ a \in Seq(Names) /\ b \in Seq(Names)
    BY <1>4
  <2> HIDE DEF a, b, h
  <2>2. (h \o a) \o b = h \o (a \o b)
    BY <2>1, ConcatAssociative
  <2>3. a \o b \in Seq(Names)
    BY <2>1, ConcatType
  <2>4. QED
    BY <2>2, <2>3 DEF h
<1> DEFINE c == FieldTokens(f, lay[j])
           d == From(FieldsOf(v, f), j + 1)
           e == From(Bodies(v, m), k + 2)
<1>7. c \in Tokens /\ d \in Tokens /\ e \in Tokens /\ From(FieldsOf(v, f), j) = c \o d
  <2>1. c \in Tokens
    BY <1>1, <1>2, <1>3
  <2>2. d \in Tokens /\ e \in Tokens
    BY <1>1, <1>2, FromType DEF Tokens
  <2>3. From(FieldsOf(v, f), j) = FieldsOf(v, f)[j] \o d
    <3>1. j \in 1..Len(FieldsOf(v, f))
      BY <1>1, <1>2
    <3>2. QED
      BY <1>2, <3>1, FromStep DEF Tokens
  <2>4. QED
    BY <1>3, <2>1, <2>2, <2>3
<1>8. /\ RestFrom(v, m, k, j + 1) = d \o e
      /\ RestFrom(v, m, k, j) = (c \o d) \o e
  BY <1>7 DEF RestFrom, f
<1>9. (c \o d) \o e = c \o (d \o e) /\ d \o e \in Tokens
  <2> HIDE DEF c, d, e
  <2>1. c \in Seq(Token) /\ d \in Seq(Token) /\ e \in Seq(Token)
    BY <1>7 DEF Tokens
  <2>2. (c \o d) \o e = c \o (d \o e) /\ d \o e \in Seq(Token)
    BY <2>1, RegroupTokens
  <2>3. QED
    BY <2>2 DEF Tokens
<1>10. QED
  BY <1>5, <1>6, <1>8, <1>9 DEF f

\* Where the fields of a function end, those of the next one begin.
LEMMA FunctionStep ==
    ASSUME NEW v \in 0..3, NEW m \in Seq(Function), NEW k \in 0..(Len(m) - 1)
    PROVE  /\ TodoFrom(v, m, k, Len(Layout(v)) + 1) = Copies(Len(m) - (k + 1), Layout(v))
           /\ RestFrom(v, m, k, Len(Layout(v)) + 1) = From(Bodies(v, m), (k + 1) + 1)
<1> DEFINE lay == Layout(v)
           f == m[k + 1]
           b == Copies(Len(m) - (k + 1), lay)
           e == From(Bodies(v, m), k + 2)
<1>1. /\ lay \in Seq(Names) /\ Len(lay) \in Nat
      /\ Len(m) - (k + 1) \in Nat /\ f \in Function /\ k + 2 \in Nat \ {0}
  BY LayoutFacts
<1> HIDE DEF f
<1>2. /\ FieldsOf(v, f) \in Seq(Tokens) /\ Len(FieldsOf(v, f)) = Len(lay)
      /\ Bodies(v, m) \in Seq(Tokens)
  BY <1>1, WriterTypes
<1>3. SubSeq(lay, Len(lay) + 1, Len(lay)) = <<>> /\ b \in Seq(Names)
  <2>1. b \in Seq(Names)
    <3> HIDE DEF lay
    <3>1. QED
      BY <1>1, CopiesLaws
  <2>2. QED
    BY <1>1, <2>1, SubSeqEmpty
<1>4. From(FieldsOf(v, f), Len(lay) + 1) = <<>> /\ e \in Tokens
  BY <1>1, <1>2, FromEnds, FromType DEF Tokens
<1>5. TodoFrom(v, m, k, Len(lay) + 1) = <<>> \o b /\ <<>> \o b = b
  BY <1>3, ConcatEmptySeq DEF TodoFrom
<1>6. RestFrom(v, m, k, Len(lay) + 1) = <<>> \o e /\ <<>> \o e = e
  BY <1>4, ConcatEmptySeq DEF RestFrom, f, Tokens
<1>7. (k + 1) + 1 = k + 2
  OBVIOUS
<1>8. QED
  BY <1>5, <1>6, <1>7

\* So many functions are left, or none.
LEMMA FunctionsLeft ==
    ASSUME NEW v \in 0..3, NEW m \in Seq(Function), NEW k \in 0..Len(m)
    PROVE  /\ Copies(Len(m) - k, Layout(v))
                = IF k < Len(m) THEN TodoFrom(v, m, k, 1) ELSE <<>>
           /\ From(Bodies(v, m), k + 1)
                = IF k < Len(m) THEN RestFrom(v, m, k, 1) ELSE <<>>
<1> DEFINE lay == Layout(v)
<1>1. /\ lay \in Seq(Names) /\ Len(m) \in Nat
      /\ Bodies(v, m) \in Seq(Tokens) /\ Len(Bodies(v, m)) = Len(m)
  BY LayoutFacts, WriterTypes
<1>2. CASE k < Len(m)
  <2>1. k + 1 \in 1..Len(m) /\ m[k + 1] \in Function /\ (k + 1) + 1 = k + 2
        /\ Len(m) - (k + 1) \in Nat /\ (Len(m) - (k + 1)) + 1 = Len(m) - k
    BY <1>1, <1>2
  <2>2. Copies(Len(m) - k, lay) = lay \o Copies(Len(m) - (k + 1), lay)
    <3> HIDE DEF lay
    <3>1. Copies((Len(m) - (k + 1)) + 1, lay) = lay \o Copies(Len(m) - (k + 1), lay)
      BY <1>1, <2>1, CopiesLaws
    <3>2. QED
      BY <2>1, <3>1, Zenon
  <2>3. SubSeq(lay, 1, Len(lay)) = lay
    <3> HIDE DEF lay
    <3>1. QED
      BY <1>1, SubSeqFull
  <2>4. From(Bodies(v, m), k + 1) = Bodies(v, m)[k + 1] \o From(Bodies(v, m), k + 2)
    <3>1. From(Bodies(v, m), k + 1) = Bodies(v, m)[k + 1] \o From(Bodies(v, m), (k + 1) + 1)
      BY <1>1, <2>1, FromStep DEF Tokens
    <3>2. QED
      BY <2>1, <3>1, Zenon
  <2>5. Bodies(v, m)[k + 1] = From(FieldsOf(v, m[k + 1]), 1)
    <3>1. Bodies(v, m)[k + 1] = FunctionTokens(m[k + 1], v)
      BY <2>1 DEF Bodies
    <3>2. QED
      BY <2>1, <3>1, WriterTypes, FromEnds DEF Tokens
  <2>6. QED
    BY <1>2, <2>2, <2>3, <2>4, <2>5, Zenon DEF TodoFrom, RestFrom
<1>3. CASE ~(k < Len(m))
  <2>1. k = Len(m) /\ Len(m) - k = 0
    BY <1>1, <1>3
  <2>2. Copies(0, lay) = <<>>
    <3> HIDE DEF lay
    <3>1. QED
      BY <1>1, CopiesLaws
  <2>3. From(Bodies(v, m), k + 1) = <<>>
    BY <1>1, <2>1, FromEnds DEF Tokens
  <2>4. QED
    BY <1>3, <2>1, <2>2, <2>3
<1>4. QED
  BY <1>2, <1>3

\* The functions that have been read to their end.
Done(v, m, k) == [i \in 1..k |-> Expressed(m[i], v)]

\* The last of a sequence replaced.
LEMMA LastExcept ==
    ASSUME NEW X, NEW d \in Seq(X), NEW p, NEW q
    PROVE  /\ Len(Append(d, p)) = Len(d) + 1 /\ Append(d, p)[Len(d) + 1] = p
           /\ [Append(d, p) EXCEPT ![Len(d) + 1] = q] = Append(d, q)
<1> DEFINE Y == X \cup {p, q}
<1>1. d \in Seq(Y) /\ p \in Y /\ q \in Y
  <2>1. X \subseteq Y
    OBVIOUS
  <2>2. d \in Seq(Y)
    <3> HIDE DEF Y
    <3>1. QED
      BY <2>1, WiderSeq
  <2>3. QED
    BY <2>2
<1> HIDE DEF Y
<1> DEFINE a == Append(d, p)
           b == Append(d, q)
           c == [a EXCEPT ![Len(d) + 1] = q]
<1>2. /\ a \in Seq(Y) /\ Len(a) = Len(d) + 1 /\ a[Len(d) + 1] = p
      /\ b \in Seq(Y) /\ Len(b) = Len(d) + 1 /\ b[Len(d) + 1] = q
      /\ \A i \in 1..Len(d) : a[i] = d[i] /\ b[i] = d[i]
      /\ Len(d) \in Nat
  BY <1>1, AppendProperties
<1> HIDE DEF a, b
<1>3. a \in [1..(Len(d) + 1) -> Y]
  BY <1>2
<1>4. c \in [1..(Len(d) + 1) -> Y]
  BY <1>1, <1>3
<1>5. c \in Seq(Y) /\ Len(c) = Len(d) + 1
  <2> HIDE DEF c
  <2>1. QED
    BY <1>2, <1>4
<1>6. \A i \in 1..(Len(d) + 1) : c[i] = b[i]
  <2> SUFFICES ASSUME NEW i \in 1..(Len(d) + 1) PROVE c[i] = b[i]
    OBVIOUS
  <2>1. c[i] = IF i = Len(d) + 1 THEN q ELSE a[i]
    BY <1>3
  <2>2. QED
    BY <1>2, <2>1
<1>7. c = b
  <2> HIDE DEF c
  <2>1. QED
    BY <1>2, <1>5, <1>6, SeqEqual
<1>8. QED
  BY <1>2, <1>7 DEF a, b

\* One more function has been read.
LEMMA DoneStep ==
    ASSUME NEW v, NEW m, NEW k \in Nat
    PROVE  /\ \E X : Done(v, m, k) \in Seq(X)
           /\ Len(Done(v, m, k)) = k
           /\ Append(Done(v, m, k), Expressed(m[k + 1], v)) = Done(v, m, k + 1)
<1> DEFINE e(i) == Expressed(m[i], v)
           X == {e(i) : i \in 1..(k + 1)}
           d == Done(v, m, k)
           c == Done(v, m, k + 1)
<1>1. /\ d \in Seq(X) /\ Len(d) = k /\ c \in Seq(X) /\ Len(c) = k + 1
      /\ \A i \in 1..k : d[i] = e(i)
      /\ \A i \in 1..(k + 1) : c[i] = e(i)
      /\ e(k + 1) \in X
  <2> HIDE DEF e
  <2>1. d = [i \in 1..k |-> e(i)] /\ c = [i \in 1..(k + 1) |-> e(i)]
    BY DEF Done, e
  <2> HIDE DEF d, c
  <2>2. QED
    BY <2>1
<1> HIDE DEF e, X, d, c
<1>2. /\ Append(d, e(k + 1)) \in Seq(X) /\ Len(Append(d, e(k + 1))) = k + 1
      /\ \A i \in 1..(k + 1) : Append(d, e(k + 1))[i] = e(i)
  BY <1>1, AppendProperties
<1>3. Append(d, e(k + 1)) = c
  BY <1>1, <1>2, SeqEqual
<1>4. QED
  BY <1>1, <1>3 DEF d, c, e

-----------------------------------------------------------------------------
(* Where the reader can be: at a field, in a list between two entries or    *)
(* within one, or at the end                                                *)

Lists == {"consts", "smap", "debug"}
Roles(x) ==
    IF x = "consts" THEN <<"tag">>
    ELSE IF x = "smap" THEN <<"smap.key", "smap.text">> ELSE <<"debug.key", "debug.text">>
RoleNames ==
    Names \cup {"tag", "val", "bool", "smap.key", "smap.text", "debug.key", "debug.text"}
Second(x, c) ==
    IF x = "consts" THEN IF c.tag = 3 THEN "bool" ELSE "val"
    ELSE IF x = "smap" THEN "smap.text" ELSE "debug.text"
Half(x, c) == IF x = "consts" THEN [tag |-> c.tag, val |-> 0] ELSE [key |-> c.key, text |-> 0]
Value(x, c) == IF x = "consts" THEN c.val ELSE c.text
EntryPart(x, c) == IF x = "consts" THEN ConstantTokens(c) ELSE EntryTokens(c)
Parts(f, x) == [i \in 1..Len(f[x]) |-> EntryPart(x, f[x][i])]

\* Three lists of roles one behind the other.
LEMMA RegroupRoles == \A p, q, u \in Seq(RoleNames) : (p \o q) \o u = p \o (q \o u)
<1> DEFINE X == RoleNames
<1> HIDE DEF X
<1>1. \A p, q, u \in Seq(X) : (p \o q) \o u = p \o (q \o u)
  BY Regroup
<1> QED BY <1>1 DEF X

\* They are roles of tokens.
LEMMA RolesType == ASSUME NEW x PROVE Roles(x) \in Seq(RoleNames)
<1>1. /\ <<"tag">> \in Seq(RoleNames) /\ <<"smap.key", "smap.text">> \in Seq(RoleNames)
      /\ <<"debug.key", "debug.text">> \in Seq(RoleNames)
  BY DEF RoleNames
<1>2. QED
  BY <1>1 DEF Roles

\* What remains of a list and behind it.
Behind(v, m, k, j, x, e) == Copies(Len(m[k + 1][x]) - e, Roles(x)) \o TodoFrom(v, m, k, j + 1)
RestBehind(v, m, k, j, x, e) == From(Parts(m[k + 1], x), e + 1) \o RestFrom(v, m, k, j + 1)

\* How many entries have been read while one is left.
Unread(m, k, x) == 0..(Len(m[k + 1][x]) - 1)

AtField(v, m, k, j, t, r, g) ==
    /\ t = TodoFrom(v, m, k, j) /\ r = RestFrom(v, m, k, j)
    /\ g = IF j = 1 THEN Done(v, m, k) ELSE Append(Done(v, m, k), Partial(v, m[k + 1], j))
InList(v, m, k, j, x, e, t, r, g) ==
    LET f == m[k + 1] IN
    /\ t = Behind(v, m, k, j, x, e) /\ r = RestBehind(v, m, k, j, x, e)
    /\ g = Append(Done(v, m, k), [Partial(v, f, j) EXCEPT ![x] = SubSeq(f[x], 1, e)])
InEntry(v, m, k, j, x, e, t, r, g) ==
    LET f == m[k + 1]
        c == f[x][e + 1]
    IN  /\ x = "consts" => c.tag # 0
        /\ t = <<Second(x, c)>> \o Behind(v, m, k, j, x, e + 1)
        /\ r = <<<<Value(x, c)>>>> \o RestBehind(v, m, k, j, x, e + 1)
        /\ g = Append(Done(v, m, k),
                      [Partial(v, f, j) EXCEPT ![x] = Append(SubSeq(f[x], 1, e), Half(x, c))])
AtEnd(v, m, t, r, g) == t = <<>> /\ r = <<>> /\ g = Done(v, m, Len(m))

Spot(v, m, t, r, g) ==
    \/ AtEnd(v, m, t, r, g)
    \/ \E k \in 0..(Len(m) - 1), j \in 1..Len(Layout(v)) :
          \/ AtField(v, m, k, j, t, r, g)
          \/ /\ Layout(v)[j] \in Lists
             /\ \E e \in Unread(m, k, Layout(v)[j]) :
                   \/ InList(v, m, k, j, Layout(v)[j], e, t, r, g)
                   \/ InEntry(v, m, k, j, Layout(v)[j], e, t, r, g)

\* The next function, or the end.
LEMMA FunctionSpot ==
    ASSUME NEW v \in 0..3, NEW m \in Seq(Function), NEW k \in 0..Len(m)
    PROVE  Spot(v, m, Copies(Len(m) - k, Layout(v)), From(Bodies(v, m), k + 1), Done(v, m, k))
<1> DEFINE t == Copies(Len(m) - k, Layout(v))
           r == From(Bodies(v, m), k + 1)
           g == Done(v, m, k)
<1>1. /\ t = IF k < Len(m) THEN TodoFrom(v, m, k, 1) ELSE <<>>
      /\ r = IF k < Len(m) THEN RestFrom(v, m, k, 1) ELSE <<>>
  BY FunctionsLeft
<1> HIDE DEF t, r
<1>2. CASE k < Len(m)
  <2>1. AtField(v, m, k, 1, t, r, g)
    BY <1>1, <1>2 DEF AtField
  <2>2. k \in 0..(Len(m) - 1) /\ 1 \in 1..Len(Layout(v))
    BY <1>2, LayoutFacts
  <2>3. QED
    BY <2>1, <2>2 DEF Spot, t, r
<1>3. CASE ~(k < Len(m))
  <2>1. k = Len(m)
    BY <1>3
  <2>2. AtEnd(v, m, t, r, g)
    BY <1>1, <1>3, <2>1 DEF AtEnd
  <2>3. QED
    BY <2>2 DEF Spot, t, r
<1>4. QED
  BY <1>2, <1>3

\* A field has been read.
LEMMA FieldSpot ==
    ASSUME NEW v \in 0..3, NEW m \in Seq(Function), NEW k \in 0..(Len(m) - 1),
           NEW j \in 1..Len(Layout(v))
    PROVE  Spot(v, m, TodoFrom(v, m, k, j + 1), RestFrom(v, m, k, j + 1),
                Append(Done(v, m, k), Partial(v, m[k + 1], j + 1)))
<1> DEFINE t == TodoFrom(v, m, k, j + 1)
           r == RestFrom(v, m, k, j + 1)
           g == Append(Done(v, m, k), Partial(v, m[k + 1], j + 1))
<1>1. Len(Layout(v)) \in Nat /\ Len(m) \in Nat
  BY LayoutFacts
<1>2. CASE j < Len(Layout(v))
  <2>1. j + 1 \in 1..Len(Layout(v)) /\ j + 1 # 1
    BY <1>1, <1>2
  <2>2. AtField(v, m, k, j + 1, t, r, g)
    BY <2>1 DEF AtField
  <2> HIDE DEF t, r, g
  <2>3. Spot(v, m, t, r, g)
    BY <2>1, <2>2 DEF Spot
  <2>4. QED
    BY <2>3 DEF t, r, g
<1>3. CASE ~(j < Len(Layout(v)))
  <2>1. j + 1 = Len(Layout(v)) + 1 /\ k + 1 \in 0..Len(m) /\ k \in Nat
        /\ m[k + 1] \in Function
    BY <1>1, <1>3
  <2>2. /\ t = Copies(Len(m) - (k + 1), Layout(v))
        /\ r = From(Bodies(v, m), (k + 1) + 1)
    BY <2>1, FunctionStep
  <2>3. g = Append(Done(v, m, k), Expressed(m[k + 1], v))
    BY <2>1, PartialLast
  <2>4. g = Done(v, m, k + 1)
    BY <2>1, <2>3, DoneStep
  <2>5. Spot(v, m, Copies(Len(m) - (k + 1), Layout(v)), From(Bodies(v, m), (k + 1) + 1),
             Done(v, m, k + 1))
    BY <2>1, FunctionSpot
  <2>6. QED
    BY <2>2, <2>4, <2>5
<1>4. QED
  BY <1>2, <1>3

\* What a list holds.
LEMMA ListType ==
    ASSUME NEW f \in Function, NEW x \in Lists
    PROVE  /\ f[x] \in Seq(Literal) \/ f[x] \in Seq(Entry)
           /\ x = "consts" => f[x] \in Seq(Literal)
           /\ x # "consts" => f[x] \in Seq(Entry)
           /\ Len(f[x]) \in Nat /\ Parts(f, x) \in Seq(Tokens) /\ Len(Parts(f, x)) = Len(f[x])
           /\ \A i \in 1..Len(f[x]) : Parts(f, x)[i] = EntryPart(x, f[x][i])
           /\ FieldTokens(f, x) = <<<<Len(f[x])>>>> \o From(Parts(f, x), 1)
<1>1. x = "consts" => f[x] \in Seq(Literal)
  BY DEF Function
<1>2. x # "consts" => f[x] \in Seq(Entry)
  BY DEF Function, Lists
<1>3. Len(f[x]) \in Nat
  BY <1>1, <1>2
<1>4. \A i \in 1..Len(f[x]) : EntryPart(x, f[x][i]) \in Tokens
  <2>1. ASSUME NEW c \in Literal PROVE ConstantTokens(c) \in Tokens
    <3>1. c.tag \in Nat /\ c.val \in Nat
      BY DEF Literal, Constant
    <3>2. QED
      BY <3>1, NumberToken DEF ConstantTokens, Tokens
  <2>2. ASSUME NEW c \in Entry PROVE EntryTokens(c) \in Tokens
    BY NumberToken DEF Entry, EntryTokens, Tokens
  <2>3. QED
    BY <1>1, <1>2, <2>1, <2>2 DEF EntryPart
<1>5. /\ Parts(f, x) \in Seq(Tokens) /\ Len(Parts(f, x)) = Len(f[x])
      /\ \A i \in 1..Len(f[x]) : Parts(f, x)[i] = EntryPart(x, f[x][i])
  BY <1>3, <1>4 DEF Parts
<1>6. FieldTokens(f, x) = Counted(Parts(f, x))
  <2>1. CASE x = "consts"
    BY <2>1 DEF FieldTokens, Parts, EntryPart
  <2>2. CASE x \in {"smap", "debug"}
    BY <2>2 DEF FieldTokens, Entries, Parts, EntryPart
  <2>3. QED
    BY <2>1, <2>2 DEF Lists
<1>7. FlattenSeq(Parts(f, x)) = From(Parts(f, x), 1)
  BY <1>5, FromEnds DEF Tokens
<1>8. QED
  BY <1>1, <1>2, <1>3, <1>5, <1>6, <1>7 DEF Counted

\* Some entries of a list have been read, perhaps all.
LEMMA ListSpot ==
    ASSUME NEW v \in 0..3, NEW m \in Seq(Function), NEW k \in 0..(Len(m) - 1),
           NEW j \in 1..Len(Layout(v)), NEW x \in Lists, Layout(v)[j] = x,
           NEW e \in 0..Len(m[k + 1][x]),
           NEW t, NEW r, NEW g, InList(v, m, k, j, x, e, t, r, g)
    PROVE  Spot(v, m, t, r, g)
<1> DEFINE f == m[k + 1]
<1>1. f \in Function
  OBVIOUS
<1> HIDE DEF f
<1>2. /\ Len(f[x]) \in Nat /\ Parts(f, x) \in Seq(Tokens) /\ Len(Parts(f, x)) = Len(f[x])
      /\ (f[x] \in Seq(Literal) \/ f[x] \in Seq(Entry)) /\ e \in 0..Len(f[x])
  BY <1>1, ListType DEF f
<1>3. CASE e < Len(f[x])
  <2>1. e \in Unread(m, k, x)
    BY <1>2, <1>3 DEF Unread, f
  <2>2. QED
    BY <2>1 DEF Spot, f
<1>4. CASE ~(e < Len(f[x]))
  <2>1. e = Len(f[x]) /\ Len(f[x]) - e = 0
    BY <1>2, <1>4
  <2>2. Roles(x) \in Seq(RoleNames)
    BY RolesType
  <2>3. Copies(0, Roles(x)) = <<>>
    BY <2>2, CopiesLaws
  <2>4. From(Parts(f, x), e + 1) = <<>>
    BY <1>2, <2>1, FromEnds DEF Tokens
  <2>5. SubSeq(f[x], 1, e) = f[x]
    BY <1>2, <2>1, SubSeqFull
  <2>6. t = TodoFrom(v, m, k, j + 1)
    <3>1. t = <<>> \o TodoFrom(v, m, k, j + 1)
      BY <2>1, <2>3 DEF InList, Behind, f
    <3>2. TodoFrom(v, m, k, j + 1) \in Seq(Names)
      BY FieldStep
    <3>3. QED
      BY <3>1, <3>2, ConcatEmptySeq
  <2>7. r = RestFrom(v, m, k, j + 1)
    <3>1. r = <<>> \o RestFrom(v, m, k, j + 1)
      BY <2>4 DEF InList, RestBehind, f
    <3>2. RestFrom(v, m, k, j + 1) \in Tokens
      BY FieldStep
    <3>3. QED
      BY <3>1, <3>2, ConcatEmptySeq DEF Tokens
  <2>8. g = Append(Done(v, m, k), Partial(v, f, j + 1))
    <3>1. g = Append(Done(v, m, k), [Partial(v, f, j) EXCEPT ![x] = f[x]])
      BY <2>5 DEF InList, f
    <3>2. Partial(v, f, j + 1) = [Partial(v, f, j) EXCEPT ![x] = f[x]]
      <4>1. Partial(v, f, j + 1) = [Partial(v, f, j) EXCEPT ![Layout(v)[j]] = f[Layout(v)[j]]]
        BY <1>1, PartialStep
      <4>2. QED
        BY <4>1
    <3>3. QED
      BY <3>1, <3>2
  <2>9. QED
    BY <2>6, <2>7, <2>8, FieldSpot DEF f
<1>5. QED
  BY <1>3, <1>4

-----------------------------------------------------------------------------
(* The reader takes the next token wherever it is                           *)

\* The reader takes a token, accepts it and is again at such a place.
After(role, tok) == IF role = "code" THEN <<>> ELSE Expected(role, tok[1])
Taken(v, m, r) ==
    \E role \in RoleNames, tok \in Token, t \in Seq(RoleNames), s \in Tokens :
       /\ todo = <<role>> \o t /\ r = <<tok>> \o s
       /\ role # "code" => Readable(role, tok[1])
       /\ Spot(v, m, After(role, tok) \o t, s, WithToken(role, tok))

\* The function that is being read is the last one.
LEMMA GotLast ==
    ASSUME NEW X, NEW d \in Seq(X), NEW p, got = Append(d, p), NEW q
    PROVE  /\ got[Len(got)] = p
           /\ [got EXCEPT ![Len(got)] = q] = Append(d, q)
<1>1. Len(got) = Len(d) + 1
  BY LastExcept
<1>2. QED
  BY <1>1, LastExcept

\* The fields that are one number.
LEMMA NumberFields == ASSUME NEW f \in Function, NEW x \in Numbers PROVE f[x] \in Nat
BY DEF Function, Numbers

\* A field that is one number, or the code.
LEMMA PlainTaken ==
    ASSUME NEW v \in 0..3, NEW m \in Seq(Function), NEW k \in 0..(Len(m) - 1),
           NEW j \in 1..Len(Layout(v)), NEW r, AtField(v, m, k, j, todo, r, got),
           Layout(v)[j] \notin Lists
    PROVE  Taken(v, m, r)
<1> DEFINE f == m[k + 1]
           x == Layout(v)[j]
           t == TodoFrom(v, m, k, j + 1)
           s == RestFrom(v, m, k, j + 1)
           d == Done(v, m, k)
           tok == IF x = "code" THEN <<Len(f.code)>> \o f.code ELSE <<f[x]>>
<1>1. /\ f \in Function /\ x \in Names \ Lists /\ t \in Seq(Names) /\ s \in Tokens
      /\ todo = <<x>> \o t /\ r = FieldTokens(f, x) \o s
  <2>1. f \in Function
    OBVIOUS
  <2>2. x \in Names \ Lists
    BY LayoutFacts
  <2>3. todo = TodoFrom(v, m, k, j) /\ r = RestFrom(v, m, k, j)
    BY DEF AtField
  <2>4. QED
    BY <2>1, <2>2, <2>3, FieldStep
<1>2. t \in Seq(RoleNames) /\ x \in RoleNames
  <2>1. Names \subseteq RoleNames
    BY DEF RoleNames
  <2> HIDE DEF t
  <2>2. QED
    BY <1>1, <2>1, WiderSeq
<1>3. tok \in Token /\ FieldTokens(f, x) = <<tok>>
  <2> HIDE DEF f, x
  <2>1. CASE x = "code"
    <3>1. f.code \in Seq(Nat)
      <4>1. f.code \in Seq(0..255)
        BY <1>1 DEF Function
      <4>2. 0..255 \subseteq Nat
        OBVIOUS
      <4>3. QED
        BY <4>1, <4>2, WiderSeq, Zenon
    <3>2. <<Len(f.code)>> \o f.code \in Token
      BY <3>1, OneMore DEF Token
    <3>3. QED
      BY <2>1, <3>2 DEF FieldTokens
  <2>2. CASE x # "code"
    <3>1. x \in Numbers
      BY <1>1, <2>2 DEF Names, Lists, Numbers
    <3>2. f[x] \in Nat
      BY <1>1, <3>1, NumberFields
    <3>3. FieldTokens(f, x) = <<<<f[x]>>>>
      BY <1>1, <2>2 DEF FieldTokens, Names, Lists
    <3>4. QED
      BY <2>2, <3>2, <3>3, NumberToken
  <2>3. QED
    BY <2>1, <2>2
<1>4. x # "code" => tok[1] = f[x] /\ Readable(x, tok[1])
  <2> HIDE DEF f, x
  <2> SUFFICES ASSUME x # "code" PROVE f[x] = tok[1] /\ Readable(x, f[x])
    BY Zenon
  <2>1. tok[1] = f[x]
    OBVIOUS
  <2>2. x = "conv" => f[x] \in 0..1
    BY <1>1 DEF Function
  <2>3. x = "async" => f[x] \in 0..3
    BY <1>1 DEF Function
  <2>4. x \notin {"bool", "tag"}
    BY <1>1 DEF Names
  <2>5. QED
    BY <2>1, <2>2, <2>3, <2>4 DEF Readable
<1>5. After(x, tok) = <<>>
  <2> HIDE DEF f, x, tok
  <2>1. QED
    BY <1>1 DEF After, Expected, Names, Lists
<1>6. WithToken(x, tok) = Append(d, Partial(v, f, j + 1))
  <2>0. PICK X : d \in Seq(X)
    BY DoneStep
  <2>1. CASE j = 1
    <3>1. x = "name" /\ got = d /\ j + 1 = 2
      BY <2>1, LayoutFacts DEF AtField
    <3>2. tok[1] = f.name
      BY <1>4, <3>1
    <3>3. WithToken(x, tok) = Append(d, [Blank EXCEPT !.name = f.name])
      <4> HIDE DEF d, f, x, tok
      <4>1. QED
        BY <3>1, <3>2 DEF WithToken
    <3>4. QED
      BY <1>1, <3>1, <3>3, PartialFirst
  <2>2. CASE j # 1
    <3>1. got = Append(d, Partial(v, f, j))
      BY <2>2 DEF AtField
    <3>2. x # "name"
      <4>1. 1 \in 1..Len(Layout(v)) /\ Layout(v)[1] = "name"
        BY LayoutFacts
      <4>2. Layout(v)[j] = Layout(v)[1] => j = 1
        BY <4>1, LayoutFacts
      <4>3. QED
        BY <2>2, <4>1, <4>2
    <3>3. Partial(v, f, j + 1) = [Partial(v, f, j) EXCEPT ![x] = f[x]]
      BY <1>1, PartialStep
    <3>4. /\ got[Len(got)] = Partial(v, f, j)
          /\ [got EXCEPT ![Len(got)] = Partial(v, f, j + 1)] = Append(d, Partial(v, f, j + 1))
      BY <2>0, <3>1, GotLast
    <3>5. WithToken(x, tok) = [got EXCEPT ![Len(got)] = [got[Len(got)] EXCEPT ![x] = f[x]]]
      <4>1. CASE x = "code"
        <5>1. Tail(tok) = f.code
          <6>1. f.code \in Seq(0..255)
            BY <1>1 DEF Function
          <6> DEFINE y == f.code
          <6> HIDE DEF y
          <6>2. Tail(<<Len(y)>> \o y) = y
            BY <6>1 DEF y
          <6>3. QED
            BY <4>1, <6>2, Zenon DEF y
        <5> HIDE DEF f, x, tok
        <5>2. QED
          BY <4>1, <5>1 DEF WithToken
      <4>2. CASE x # "code"
        <5> HIDE DEF f, x, tok
        <5>1. x \in {"conv", "async", "params", "locals"}
          BY <1>1, <3>2, <4>2 DEF Names, Lists
        <5>2. QED
          BY <1>4, <4>2, <5>1 DEF WithToken
      <4>3. QED
        BY <4>1, <4>2
    <3>6. QED
      BY <3>3, <3>4, <3>5
  <2>3. QED
    BY <2>1, <2>2
<1>7. Spot(v, m, t, s, WithToken(x, tok))
  BY <1>6, FieldSpot
<1>8. <<>> \o t = t
  BY <1>1, ConcatEmptySeq
<1> HIDE DEF f, x, t, s, d, tok
<1>9. Spot(v, m, After(x, tok) \o t, s, WithToken(x, tok))
  BY <1>5, <1>7, <1>8
<1>10. r = <<tok>> \o s
  BY <1>1, <1>3
<1>11. QED
  BY <1>1, <1>2, <1>3, <1>4, <1>9, <1>10 DEF Taken

\* The number of entries of a list.
LEMMA CountTaken ==
    ASSUME NEW v \in 0..3, NEW m \in Seq(Function), NEW k \in 0..(Len(m) - 1),
           NEW j \in 1..Len(Layout(v)), NEW r, AtField(v, m, k, j, todo, r, got),
           NEW x \in Lists, Layout(v)[j] = x
    PROVE  Taken(v, m, r)
<1> DEFINE f == m[k + 1]
           n == Len(f[x])
           t == TodoFrom(v, m, k, j + 1)
           s == RestFrom(v, m, k, j + 1)
           d == Done(v, m, k)
           parts == From(Parts(f, x), 1)
<1>1. f \in Function
  OBVIOUS
<1>2. /\ n \in Nat /\ Parts(f, x) \in Seq(Tokens)
      /\ FieldTokens(f, x) = <<<<n>>>> \o parts /\ parts \in Tokens
      /\ (f[x] \in Seq(Literal) \/ f[x] \in Seq(Entry))
  <2> HIDE DEF f
  <2>1. QED
    BY <1>1, ListType, FromType DEF Tokens
<1>3. /\ t \in Seq(Names) /\ s \in Tokens
      /\ todo = <<x>> \o t /\ r = FieldTokens(f, x) \o s
  <2>1. todo = TodoFrom(v, m, k, j) /\ r = RestFrom(v, m, k, j)
    BY DEF AtField
  <2>2. QED
    BY <2>1, FieldStep
<1>4. t \in Seq(RoleNames) /\ x \in RoleNames /\ x \in Names
  <2>1. Names \subseteq RoleNames
    BY DEF RoleNames
  <2> HIDE DEF t
  <2>2. QED
    BY <1>3, <2>1, WiderSeq DEF Lists, Names
<1>5. r = <<<<n>>>> \o (parts \o s) /\ parts \o s \in Tokens
  <2> DEFINE h == <<<<n>>>>
  <2>1. h \in Tokens
    BY <1>2, NumberToken DEF Tokens
  <2>2. r = (h \o parts) \o s
    BY <1>2, <1>3
  <2> HIDE DEF h, parts, s
  <2>3. (h \o parts) \o s = h \o (parts \o s)
    <3>1. h \in Seq(Token) /\ parts \in Seq(Token) /\ s \in Seq(Token)
      BY <1>2, <1>3, <2>1 DEF Tokens
    <3>2. QED
      BY <3>1, RegroupTokens, Zenon
  <2>4. parts \o s \in Tokens
    BY <1>2, <1>3, ConcatType DEF Tokens
  <2>5. QED
    BY <2>2, <2>3, <2>4 DEF h
<1>6. <<n>> \in Token /\ <<n>>[1] = n
  BY <1>2, NumberToken
<1>7. x # "code" /\ Readable(x, n) /\ After(x, <<n>>) = Copies(n, Roles(x))
  <2> HIDE DEF n
  <2>1. x # "code" /\ Readable(x, n)
    BY DEF Lists, Readable
  <2>2. After(x, <<n>>) = Expected(x, n)
    BY <1>6, <2>1 DEF After
  <2>3. Expected(x, n) = Copies(n, Roles(x))
    BY DEF Expected, Roles, Lists
  <2>4. QED
    BY <2>1, <2>2, <2>3
<1>8. WithToken(x, <<n>>) = got
  BY DEF WithToken, Lists
<1>9. got = Append(d, [Partial(v, f, j) EXCEPT ![x] = SubSeq(f[x], 1, 0)])
  <2>1. j # 1
    BY LayoutFacts DEF Lists
  <2>2. got = Append(d, Partial(v, f, j))
    BY <2>1 DEF AtField
  <2>3. Partial(v, f, j)[x] = <<>>
    <3>1. Partial(v, f, j)[x] = Blank[x]
      BY <1>1, PartialStep
    <3>2. Blank[x] = <<>>
      BY DEF Blank, Lists
    <3>3. QED
      BY <3>1, <3>2
  <2>4. SubSeq(f[x], 1, 0) = <<>>
    BY SubSeqEmpty
  <2>5. [Partial(v, f, j) EXCEPT ![x] = <<>>] = Partial(v, f, j)
    BY <1>4, <2>3 DEF Partial
  <2>6. QED
    BY <2>2, <2>4, <2>5
<1>10. InList(v, m, k, j, x, 0, Copies(n, Roles(x)) \o t, parts \o s, got)
  <2>1. n - 0 = n /\ 0 + 1 = 1
    BY <1>2
  <2>2. QED
    BY <1>9, <2>1 DEF InList, Behind, RestBehind
<1>11. Spot(v, m, Copies(n, Roles(x)) \o t, parts \o s, got)
  <2>1. 0 \in 0..n
    BY <1>2
  <2>2. QED
    BY <1>10, <2>1, ListSpot
<1> HIDE DEF f, n, t, s, d, parts
<1>12. Spot(v, m, After(x, <<n>>) \o t, parts \o s, WithToken(x, <<n>>))
  BY <1>7, <1>8, <1>11
<1>13. QED
  BY <1>3, <1>4, <1>5, <1>6, <1>7, <1>12 DEF Taken

\* The next entry.
LEMMA EntryStep ==
    ASSUME NEW v \in 0..3, NEW m \in Seq(Function), NEW k \in 0..(Len(m) - 1),
           NEW j \in 1..Len(Layout(v)), NEW x \in Lists,
           NEW e \in Unread(m, k, x)
    PROVE  /\ Behind(v, m, k, j, x, e + 1) \in Seq(RoleNames)
           /\ RestBehind(v, m, k, j, x, e + 1) \in Tokens
           /\ Behind(v, m, k, j, x, e) = Roles(x) \o Behind(v, m, k, j, x, e + 1)
           /\ RestBehind(v, m, k, j, x, e)
                = EntryPart(x, m[k + 1][x][e + 1]) \o RestBehind(v, m, k, j, x, e + 1)
           /\ EntryPart(x, m[k + 1][x][e + 1]) \in Tokens
<1> DEFINE f == m[k + 1]
           n == Len(f[x])
           t == TodoFrom(v, m, k, j + 1)
           s == RestFrom(v, m, k, j + 1)
           a == Roles(x)
           b == Copies(n - (e + 1), a)
           c == EntryPart(x, f[x][e + 1])
           d == From(Parts(f, x), (e + 1) + 1)
<1>1. f \in Function
  OBVIOUS
<1>2. /\ n \in Nat /\ Parts(f, x) \in Seq(Tokens) /\ Len(Parts(f, x)) = n
      /\ e + 1 \in 1..n /\ n - (e + 1) \in Nat /\ (n - (e + 1)) + 1 = n - e
      /\ Parts(f, x)[e + 1] = c /\ c \in Tokens /\ (e + 1) + 1 \in Nat \ {0}
  <2> HIDE DEF f
  <2>1. /\ n \in Nat /\ Parts(f, x) \in Seq(Tokens) /\ Len(Parts(f, x)) = n
        /\ \A i \in 1..n : Parts(f, x)[i] = EntryPart(x, f[x][i])
    BY <1>1, ListType
  <2>2. e \in 0..(n - 1)
    BY DEF f, Unread
  <2> HIDE DEF n
  <2>3. /\ e + 1 \in 1..n /\ n - (e + 1) \in Nat /\ (n - (e + 1)) + 1 = n - e
        /\ (e + 1) + 1 \in Nat \ {0}
    BY <2>1, <2>2
  <2>4. QED
    BY <2>1, <2>3
<1> HIDE DEF n
<1>3. t \in Seq(RoleNames) /\ s \in Tokens
  <2>1. Names \subseteq RoleNames
    BY DEF RoleNames
  <2>2. t \in Seq(Names) /\ s \in Tokens
    BY FieldStep
  <2> HIDE DEF t
  <2>3. QED
    BY <2>1, <2>2, WiderSeq
<1>4. a \in Seq(RoleNames)
  BY RolesType
<1> HIDE DEF a
<1>5. b \in Seq(RoleNames) /\ Copies(n - e, a) = a \o b
  <2>1. b \in Seq(RoleNames) /\ Copies((n - (e + 1)) + 1, a) = a \o b
    BY <1>2, <1>4, CopiesLaws
  <2>2. QED
    BY <1>2, <2>1, Zenon
<1>6. d \in Tokens /\ From(Parts(f, x), e + 1) = c \o d
  <2> HIDE DEF f
  <2>1. d \in Tokens
    BY <1>2, FromType DEF Tokens
  <2>2. From(Parts(f, x), e + 1) = Parts(f, x)[e + 1] \o d
    BY <1>2, FromStep DEF Tokens
  <2>3. QED
    BY <1>2, <2>1, <2>2
<1>7. /\ Behind(v, m, k, j, x, e + 1) = b \o t
      /\ Behind(v, m, k, j, x, e) = (a \o b) \o t
  BY <1>5 DEF Behind, a, n
<1>8. /\ RestBehind(v, m, k, j, x, e + 1) = d \o s
      /\ RestBehind(v, m, k, j, x, e) = (c \o d) \o s
  BY <1>6 DEF RestBehind
<1> HIDE DEF b, c, d, s, t
<1>9. (a \o b) \o t = a \o (b \o t)
  <2>1. a \in Seq(RoleNames) /\ b \in Seq(RoleNames) /\ t \in Seq(RoleNames)
    BY <1>3, <1>4, <1>5
  <2>2. QED
    BY <2>1, RegroupRoles, Zenon
<1>10. b \o t \in Seq(RoleNames)
  BY <1>3, <1>5, ConcatType
<1>11. (c \o d) \o s = c \o (d \o s)
  <2>1. c \in Seq(Token) /\ d \in Seq(Token) /\ s \in Seq(Token)
    BY <1>2, <1>3, <1>6 DEF Tokens
  <2>2. QED
    BY <2>1, RegroupTokens, Zenon
<1>12. d \o s \in Tokens
  BY <1>3, <1>6, ConcatType DEF Tokens
<1>13. QED
  BY <1>2, <1>7, <1>8, <1>9, <1>10, <1>11, <1>12 DEF a, c

\* One more entry.
LEMMA PrefixStep ==
    ASSUME NEW X, NEW list \in Seq(X), NEW e \in 0..(Len(list) - 1)
    PROVE  /\ Append(SubSeq(list, 1, e), list[e + 1]) = SubSeq(list, 1, e + 1)
           /\ SubSeq(list, 1, e) \in Seq(X) /\ list[e + 1] \in X
<1>1. /\ e + 1 \in 1..Len(list) /\ 1 \in 1..Len(list) /\ (e + 1) - 1 = e
      /\ list[e + 1] \in X /\ e \in Nat
  OBVIOUS
<1>2. SubSeq(list, 1, e) \in Seq(X)
  <2>1. \A i \in 1..e : list[i] \in X
    OBVIOUS
  <2>2. QED
    BY <1>1, <2>1, SubSeqProperties
<1>3. SubSeq(list, 1, e + 1) = SubSeq(list, 1, (e + 1) - 1) \o <<list[e + 1]>>
  BY <1>1, SubSeqRecursiveSecond
<1> DEFINE a == SubSeq(list, 1, e)
           b == list[e + 1]
<1>4. SubSeq(list, 1, e + 1) = a \o <<b>>
  BY <1>1, <1>3
<1> HIDE DEF a
<1>5. a \o <<b>> = Append(a, b)
  <2>1. a \in Seq(X) /\ b \in X
    BY <1>1, <1>2 DEF a
  <2> HIDE DEF b
  <2>2. QED
    BY <2>1, AppendIsConcat
<1>6. QED
  BY <1>1, <1>2, <1>4, <1>5 DEF a

\* A list is of literals or of entries.
First(x) == IF x = "consts" THEN "tag" ELSE IF x = "smap" THEN "smap.key" ELSE "debug.key"
Key(x, c) == IF x = "consts" THEN c.tag ELSE c.key
Item(x) == IF x = "consts" THEN Literal ELSE Entry

\* What the reader makes of the two tokens of an entry.
LEMMA EntryTokensRead ==
    ASSUME NEW x \in Lists, NEW c \in Item(x)
    PROVE  /\ <<Key(x, c)>> \in Token /\ <<Value(x, c)>> \in Token
           /\ First(x) \in RoleNames \ {"code"} /\ Second(x, c) \in RoleNames \ {"code"}
           /\ Readable(First(x), Key(x, c)) /\ Readable(Second(x, c), Value(x, c))
           /\ After(Second(x, c), <<Value(x, c)>>) = <<>>
           /\ After(First(x), <<Key(x, c)>>)
                = IF x # "consts" THEN <<>> ELSE IF c.tag = 0 THEN <<>> ELSE <<Second(x, c)>>
           /\ x # "consts" => Roles(x) = <<First(x), Second(x, c)>>
           /\ x = "consts" => Roles(x) = <<First(x)>>
           /\ EntryPart(x, c) = IF x = "consts" /\ c.tag = 0 THEN <<<<Key(x, c)>>>>
                                ELSE <<<<Key(x, c)>>, <<Value(x, c)>>>>
           /\ x = "consts" /\ c.tag = 0 => Half(x, c) = c
<1>1. CASE x = "consts"
  <2>1. /\ c \in Constant /\ c.tag \in 0..4 /\ c.val \in Nat
        /\ c.tag = 0 => c.val = 0
        /\ c.tag = 3 => c.val <= 1
    BY <1>1 DEF Item, Literal, Constant
  <2>2. /\ Key(x, c) = c.tag /\ Value(x, c) = c.val /\ First(x) = "tag"
        /\ Second(x, c) = IF c.tag = 3 THEN "bool" ELSE "val"
        /\ Roles(x) = <<"tag">> /\ EntryPart(x, c) = ConstantTokens(c)
        /\ Half(x, c) = [tag |-> c.tag, val |-> 0]
    BY <1>1 DEF Key, Value, First, Second, Roles, EntryPart, Half
  <2>3. <<c.tag>> \in Token /\ <<c.val>> \in Token /\ <<c.tag>>[1] = c.tag /\ <<c.val>>[1] = c.val
    BY <2>1, NumberToken
  <2>4. First(x) \in RoleNames \ {"code"} /\ Second(x, c) \in RoleNames \ {"code"}
    BY <2>2 DEF RoleNames, Names
  <2>5. Readable(First(x), Key(x, c)) /\ Readable(Second(x, c), Value(x, c))
    BY <2>1, <2>2 DEF Readable
  <2>6. After(Second(x, c), <<Value(x, c)>>) = <<>>
    BY <2>2, <2>4 DEF After, Expected
  <2>7. After(First(x), <<Key(x, c)>>) = IF c.tag = 0 THEN <<>> ELSE <<Second(x, c)>>
    BY <2>2, <2>3 DEF After, Expected
  <2>8. EntryPart(x, c)
          = IF c.tag = 0 THEN <<<<Key(x, c)>>>> ELSE <<<<Key(x, c)>>, <<Value(x, c)>>>>
    BY <2>2 DEF ConstantTokens
  <2>9. c.tag = 0 => Half(x, c) = c
    BY <2>1, <2>2 DEF Constant
  <2>10. QED
    BY <1>1, <2>2, <2>3, <2>4, <2>5, <2>6, <2>7, <2>8, <2>9
<1>2. CASE x # "consts"
  <2>1. c.key \in Nat /\ c.text \in Nat
    BY <1>2 DEF Item, Entry
  <2>2. /\ Key(x, c) = c.key /\ Value(x, c) = c.text
        /\ First(x) = (IF x = "smap" THEN "smap.key" ELSE "debug.key")
        /\ Second(x, c) = (IF x = "smap" THEN "smap.text" ELSE "debug.text")
        /\ Roles(x) = (IF x = "smap" THEN <<"smap.key", "smap.text">>
                        ELSE <<"debug.key", "debug.text">>)
        /\ EntryPart(x, c) = <<<<c.key>>, <<c.text>>>>
    BY <1>2 DEF Key, Value, First, Second, Roles, EntryPart, EntryTokens
  <2>3. <<c.key>> \in Token /\ <<c.text>> \in Token
    BY <2>1, NumberToken
  <2>4. First(x) \in RoleNames \ {"code"} /\ Second(x, c) \in RoleNames \ {"code"}
    BY <2>2 DEF RoleNames, Names
  <2>5. Readable(First(x), Key(x, c)) /\ Readable(Second(x, c), Value(x, c))
    BY <2>2 DEF Readable
  <2>6. After(Second(x, c), <<Value(x, c)>>) = <<>> /\ After(First(x), <<Key(x, c)>>) = <<>>
    BY <2>2, <2>4 DEF After, Expected
  <2>7. Roles(x) = <<First(x), Second(x, c)>>
    BY <2>2
  <2>8. QED
    BY <1>2, <2>2, <2>3, <2>4, <2>5, <2>6, <2>7
<1>3. QED
  BY <1>1, <1>2

\* The functions with a new value in a field of the last one.
LastWith(x, w) == [got EXCEPT ![Len(got)] = [got[Len(got)] EXCEPT ![x] = w]]

\* The first token of an entry adds it to its list.
LEMMA FirstWith ==
    ASSUME NEW x \in Lists, NEW c
    PROVE  WithToken(First(x), <<Key(x, c)>>)
             = LastWith(x, Append(got[Len(got)][x], Half(x, c)))
<1>1. CASE x = "consts"
  <2>1. First(x) = "tag" /\ <<Key(x, c)>>[1] = c.tag /\ Half(x, c) = [tag |-> c.tag, val |-> 0]
    BY <1>1 DEF First, Key, Half
  <2>2. QED
    BY <1>1, <2>1 DEF WithToken, LastWith
<1>2. CASE x = "smap"
  <2>1. /\ First(x) = "smap.key" /\ <<Key(x, c)>>[1] = c.key
        /\ Half(x, c) = [key |-> c.key, text |-> 0]
    BY <1>2 DEF First, Key, Half
  <2>2. QED
    BY <1>2, <2>1 DEF WithToken, LastWith
<1>3. CASE x = "debug"
  <2>1. /\ First(x) = "debug.key" /\ <<Key(x, c)>>[1] = c.key
        /\ Half(x, c) = [key |-> c.key, text |-> 0]
    BY <1>3 DEF First, Key, Half
  <2>2. QED
    BY <1>3, <2>1 DEF WithToken, LastWith
<1>4. QED
  BY <1>1, <1>2, <1>3 DEF Lists

\* The second token completes it.
LEMMA SecondWith ==
    ASSUME NEW x \in Lists, NEW c \in Item(x), NEW l \in Seq(Item(x)),
           got[Len(got)][x] = Append(l, Half(x, c))
    PROVE  WithToken(Second(x, c), <<Value(x, c)>>)
             = LastWith(x, Append(l, c))
<1> DEFINE g == got[Len(got)][x]
           n == Len(g)
<1>1. /\ n = Len(l) + 1 /\ g[n] = Half(x, c) /\ \A b : [g EXCEPT ![n] = b] = Append(l, b)
  <2> DEFINE h == Half(x, c)
  <2>1. g = Append(l, h)
    OBVIOUS
  <2> HIDE DEF g, h
  <2>2. n = Len(l) + 1 /\ g[n] = h
    BY <2>1, LastExcept
  <2>3. ASSUME NEW b PROVE [g EXCEPT ![n] = b] = Append(l, b)
    BY <2>1, <2>2, LastExcept
  <2>4. QED
    BY <2>2, <2>3 DEF h
<1>2. CASE x = "consts"
  <2>1. Second(x, c) \in {"bool", "val"} /\ <<Value(x, c)>>[1] = c.val
    BY <1>2 DEF Second, Value
  <2>2. [Half(x, c) EXCEPT !.val = c.val] = c
    BY <1>2 DEF Half, Item, Literal, Constant
  <2>3. WithToken(Second(x, c), <<Value(x, c)>>)
          = LastWith(x, [g EXCEPT ![n] = [g[n] EXCEPT !.val = c.val]])
    BY <1>2, <2>1 DEF WithToken, LastWith
  <2>4. [g EXCEPT ![n] = [g[n] EXCEPT !.val = c.val]] = Append(l, c)
    <3> HIDE DEF g, n
    <3>1. QED
      BY <1>1, <2>2
  <2>5. QED
    <3> HIDE DEF g, n
    <3>1. QED
      BY <2>3, <2>4
<1>3. CASE x \in {"smap", "debug"}
  <2>1. /\ Second(x, c) = (IF x = "smap" THEN "smap.text" ELSE "debug.text")
        /\ <<Value(x, c)>>[1] = c.text
    BY <1>3 DEF Second, Value
  <2>2. [Half(x, c) EXCEPT !.text = c.text] = c
    BY <1>3 DEF Half, Item, Entry
  <2>3. WithToken(Second(x, c), <<Value(x, c)>>)
          = LastWith(x, [g EXCEPT ![n] = [g[n] EXCEPT !.text = c.text]])
    <3>1. CASE x = "smap"
      BY <2>1, <3>1 DEF WithToken, LastWith
    <3>2. CASE x = "debug"
      BY <2>1, <3>2 DEF WithToken, LastWith
    <3>3. QED
      BY <1>3, <3>1, <3>2
  <2>4. [g EXCEPT ![n] = [g[n] EXCEPT !.text = c.text]] = Append(l, c)
    <3> HIDE DEF g, n
    <3>1. QED
      BY <1>1, <2>2
  <2>5. QED
    <3> HIDE DEF g, n
    <3>1. QED
      BY <2>3, <2>4
<1>4. QED
  BY <1>2, <1>3 DEF Lists

\* The entries of a list of a function.
LEMMA ItemType ==
    ASSUME NEW v \in 0..3, NEW m \in Seq(Function), NEW k \in 0..(Len(m) - 1), NEW x \in Lists,
           NEW e \in Unread(m, k, x)
    PROVE  /\ m[k + 1] \in Function /\ m[k + 1][x] \in Seq(Item(x))
           /\ m[k + 1][x][e + 1] \in Item(x) /\ x \in Names
           /\ SubSeq(m[k + 1][x], 1, e) \in Seq(Item(x))
           /\ Append(SubSeq(m[k + 1][x], 1, e), m[k + 1][x][e + 1]) = SubSeq(m[k + 1][x], 1, e + 1)
<1> DEFINE f == m[k + 1]
           l == f[x]
<1>1. f \in Function
  OBVIOUS
<1>2. l \in Seq(Item(x)) /\ x \in Names
  <2> HIDE DEF f
  <2>1. QED
    BY <1>1, ListType DEF Item, Lists, Names
<1>3. e \in 0..(Len(l) - 1)
  BY DEF Unread
<1> HIDE DEF l
<1>4. /\ Append(SubSeq(l, 1, e), l[e + 1]) = SubSeq(l, 1, e + 1)
      /\ SubSeq(l, 1, e) \in Seq(Item(x)) /\ l[e + 1] \in Item(x)
  BY <1>2, <1>3, PrefixStep
<1>5. QED
  BY <1>1, <1>2, <1>4 DEF l

\* The first token of an entry.
LEMMA EntryTaken ==
    ASSUME NEW v \in 0..3, NEW m \in Seq(Function), NEW k \in 0..(Len(m) - 1),
           NEW j \in 1..Len(Layout(v)), NEW x \in Lists, Layout(v)[j] = x,
           NEW e \in Unread(m, k, x), NEW r, InList(v, m, k, j, x, e, todo, r, got)
    PROVE  Taken(v, m, r)
<1> DEFINE f == m[k + 1]
           c == f[x][e + 1]
           t == Behind(v, m, k, j, x, e + 1)
           s == RestBehind(v, m, k, j, x, e + 1)
           d == Done(v, m, k)
           l == SubSeq(f[x], 1, e)
           role == First(x)
           tok == <<Key(x, c)>>
           vals == <<<<Value(x, c)>>>>
<1>1. /\ f \in Function /\ f[x] \in Seq(Item(x)) /\ c \in Item(x) /\ x \in Names
      /\ l \in Seq(Item(x)) /\ Append(l, c) = SubSeq(f[x], 1, e + 1)
  BY ItemType
<1>2. /\ t \in Seq(RoleNames) /\ s \in Tokens
      /\ todo = Roles(x) \o t /\ r = EntryPart(x, c) \o s
  BY EntryStep DEF InList
<1>3. got = Append(d, [Partial(v, f, j) EXCEPT ![x] = l])
  BY DEF InList
<1> HIDE DEF f, t, s, l, d
<1>4. /\ tok \in Token /\ <<Value(x, c)>> \in Token /\ tok[1] = Key(x, c)
      /\ role \in RoleNames \ {"code"} /\ Second(x, c) \in RoleNames
      /\ Readable(role, tok[1])
  BY <1>1, EntryTokensRead
<1>5. WithToken(role, tok) = Append(d, [Partial(v, f, j) EXCEPT ![x] = Append(l, Half(x, c))])
  <2>1. WithToken(role, tok) = LastWith(x, Append(got[Len(got)][x], Half(x, c)))
    BY FirstWith
  <2>2. PICK X : d \in Seq(X)
    BY DoneStep DEF d
  <2> DEFINE p == [Partial(v, f, j) EXCEPT ![x] = l]
             b == Append(l, Half(x, c))
             q == [Partial(v, f, j) EXCEPT ![x] = b]
  <2>3. p[x] = l /\ [p EXCEPT ![x] = b] = q
    <3> HIDE DEF b
    <3>1. QED
      BY <1>1 DEF Partial
  <2>4. got = Append(d, p)
    BY <1>3
  <2> HIDE DEF p, b, q, role, tok
  <2>5. got[Len(got)] = p /\ [got EXCEPT ![Len(got)] = q] = Append(d, q)
    BY <2>2, <2>4, GotLast
  <2>6. WithToken(role, tok) = Append(d, q)
    BY <2>1, <2>3, <2>5 DEF b, LastWith
  <2>7. QED
    BY <2>6 DEF q, b
<1>6. CASE x = "consts" /\ c.tag = 0
  <2>1. /\ Roles(x) = <<role>> /\ EntryPart(x, c) = <<tok>> /\ After(role, tok) = <<>>
        /\ Half(x, c) = c
    BY <1>1, <1>6, EntryTokensRead
  <2>2. InList(v, m, k, j, x, e + 1, t, s, WithToken(role, tok))
    BY <1>1, <1>5, <2>1 DEF InList, t, s, d, f
  <2>3. e + 1 \in 0..Len(m[k + 1][x])
    BY <1>1 DEF f, Unread
  <2>4. Spot(v, m, t, s, WithToken(role, tok))
    BY <2>2, <2>3, ListSpot
  <2>5. <<>> \o t = t
    BY <1>2, ConcatEmptySeq
  <2> HIDE DEF role, tok
  <2>6. Spot(v, m, After(role, tok) \o t, s, WithToken(role, tok))
    BY <2>1, <2>4, <2>5
  <2>7. todo = <<role>> \o t /\ r = <<tok>> \o s
    BY <1>2, <2>1
  <2>8. QED
    BY <1>2, <1>4, <2>6, <2>7 DEF Taken
<1>7. CASE ~(x = "consts" /\ c.tag = 0)
  <2> DEFINE u == (IF x = "consts" THEN <<>> ELSE <<Second(x, c)>>) \o t
             w == vals \o s
  <2>1. w \in Tokens /\ vals \in Tokens
    <3>1. vals \in Seq(Token)
      BY <1>4
    <3>2. s \in Seq(Token)
      BY <1>2 DEF Tokens
    <3> HIDE DEF vals
    <3>3. QED
      BY <3>1, <3>2, ConcatType DEF Tokens
  <2>2. r = <<tok>> \o w
    <3>1. EntryPart(x, c) = <<tok, <<Value(x, c)>>>>
      BY <1>1, <1>7, EntryTokensRead
    <3>2. EntryPart(x, c) = <<tok>> \o vals
      BY <1>4, <3>1
    <3>3. <<tok>> \in Seq(Token) /\ vals \in Seq(Token) /\ s \in Seq(Token)
      BY <1>2, <1>4, <2>1 DEF Tokens
    <3> HIDE DEF tok, vals
    <3>4. (<<tok>> \o vals) \o s = <<tok>> \o (vals \o s)
      BY <3>3, RegroupTokens, Zenon
    <3>5. QED
      BY <1>2, <3>2, <3>4
  <2>3. /\ u \in Seq(RoleNames) /\ todo = <<role>> \o u
        /\ After(role, tok) \o u = <<Second(x, c)>> \o t
    <3> DEFINE h == <<Second(x, c)>>
    <3>1. h \in Seq(RoleNames) /\ <<role>> \in Seq(RoleNames) /\ h \o t \in Seq(RoleNames)
      <4>1. h \in Seq(RoleNames) /\ <<role>> \in Seq(RoleNames)
        BY <1>4
      <4> HIDE DEF h
      <4>2. QED
        BY <1>2, <4>1, ConcatType
    <3>2. \A p \in Seq(RoleNames) : <<>> \o p = p
      BY ConcatEmptySeq
    <3>3. CASE x = "consts"
      <4>1. Roles(x) = <<role>> /\ After(role, tok) = h
        BY <1>1, <1>7, <3>3, EntryTokensRead
      <4>2. u = t
        BY <1>2, <3>2, <3>3
      <4> HIDE DEF h, u, role, tok
      <4>3. QED
        BY <1>2, <4>1, <4>2 DEF h
    <3>4. CASE x # "consts"
      <4>1. Roles(x) = <<role, Second(x, c)>> /\ After(role, tok) = <<>>
        BY <1>1, <3>4, EntryTokensRead
      <4>2. Roles(x) = <<role>> \o h
        BY <1>4, <4>1
      <4>3. u = h \o t
        BY <3>4
      <4> HIDE DEF h, u, role, tok
      <4>4. (<<role>> \o h) \o t = <<role>> \o (h \o t)
        BY <1>2, <3>1, RegroupRoles, Zenon
      <4>5. QED
        BY <1>2, <3>1, <3>2, <4>1, <4>2, <4>3, <4>4 DEF h
    <3>5. QED
      BY <3>3, <3>4
  <2>4. InEntry(v, m, k, j, x, e, <<Second(x, c)>> \o t, w, WithToken(role, tok))
    BY <1>5, <1>7 DEF InEntry, t, s, d, f, l
  <2>5. Spot(v, m, <<Second(x, c)>> \o t, w, WithToken(role, tok))
    <3> HIDE DEF w, role, tok
    <3>1. QED
      BY <2>4 DEF Spot
  <2> HIDE DEF u, w, role, tok
  <2>6. Spot(v, m, After(role, tok) \o u, w, WithToken(role, tok))
    BY <2>3, <2>5
  <2>7. QED
    BY <1>4, <2>1, <2>2, <2>3, <2>6 DEF Taken
<1>8. QED
  BY <1>6, <1>7

\* The second token of an entry.
LEMMA HalfTaken ==
    ASSUME NEW v \in 0..3, NEW m \in Seq(Function), NEW k \in 0..(Len(m) - 1),
           NEW j \in 1..Len(Layout(v)), NEW x \in Lists, Layout(v)[j] = x,
           NEW e \in Unread(m, k, x), NEW r, InEntry(v, m, k, j, x, e, todo, r, got)
    PROVE  Taken(v, m, r)
<1> DEFINE f == m[k + 1]
           c == f[x][e + 1]
           t == Behind(v, m, k, j, x, e + 1)
           s == RestBehind(v, m, k, j, x, e + 1)
           d == Done(v, m, k)
           l == SubSeq(f[x], 1, e)
           role == Second(x, c)
           tok == <<Value(x, c)>>
<1>1. /\ f \in Function /\ f[x] \in Seq(Item(x)) /\ c \in Item(x) /\ x \in Names
      /\ l \in Seq(Item(x)) /\ Append(l, c) = SubSeq(f[x], 1, e + 1)
  BY ItemType
<1>2. t \in Seq(RoleNames) /\ s \in Tokens
  BY EntryStep
<1>3. /\ todo = <<role>> \o t /\ r = <<tok>> \o s
      /\ got = Append(d, [Partial(v, f, j) EXCEPT ![x] = Append(l, Half(x, c))])
  BY DEF InEntry
<1> HIDE DEF f, t, s, l, d
<1>4. /\ tok \in Token /\ tok[1] = Value(x, c) /\ role \in RoleNames \ {"code"}
      /\ Readable(role, tok[1]) /\ After(role, tok) = <<>>
  BY <1>1, EntryTokensRead
<1>5. WithToken(role, tok) = Append(d, [Partial(v, f, j) EXCEPT ![x] = SubSeq(f[x], 1, e + 1)])
  <2>1. PICK X : d \in Seq(X)
    BY DoneStep DEF d
  <2> DEFINE a == Append(l, Half(x, c))
             b == Append(l, c)
             p == [Partial(v, f, j) EXCEPT ![x] = a]
             q == [Partial(v, f, j) EXCEPT ![x] = b]
  <2>2. p[x] = a /\ [p EXCEPT ![x] = b] = q
    <3> HIDE DEF a, b
    <3>1. QED
      BY <1>1 DEF Partial
  <2>3. got = Append(d, p)
    BY <1>3
  <2> HIDE DEF p, q
  <2>4. got[Len(got)] = p /\ [got EXCEPT ![Len(got)] = q] = Append(d, q)
    BY <2>1, <2>3, GotLast
  <2>5. WithToken(role, tok) = LastWith(x, b)
    <3>1. got[Len(got)][x] = Append(l, Half(x, c))
      BY <2>2, <2>4
    <3>2. c \in Item(x) /\ l \in Seq(Item(x))
      BY <1>1
    <3> HIDE DEF c
    <3>3. WithToken(Second(x, c), <<Value(x, c)>>) = LastWith(x, Append(l, c))
      BY <3>1, <3>2, SecondWith
    <3>4. QED
      BY <3>3
  <2> HIDE DEF a, b, role, tok
  <2>6. WithToken(role, tok) = Append(d, q)
    BY <2>2, <2>4, <2>5 DEF LastWith
  <2>7. QED
    BY <1>1, <2>6 DEF q, b
<1>6. InList(v, m, k, j, x, e + 1, t, s, WithToken(role, tok))
  BY <1>5 DEF InList, t, s, d, f
<1>7. e + 1 \in 0..Len(m[k + 1][x])
  BY <1>1 DEF f, Unread
<1> HIDE DEF role, tok
<1>8. Spot(v, m, t, s, WithToken(role, tok))
  BY <1>6, <1>7, ListSpot
<1>9. <<>> \o t = t
  BY <1>2, ConcatEmptySeq
<1>10. Spot(v, m, After(role, tok) \o t, s, WithToken(role, tok))
  BY <1>4, <1>8, <1>9
<1>11. QED
  BY <1>2, <1>3, <1>4, <1>10 DEF Taken

\* Wherever the reader is, it takes the next token or is at the end.
LEMMA SpotTaken ==
    ASSUME NEW v \in 0..3, NEW m \in Seq(Function), NEW r, Spot(v, m, todo, r, got)
    PROVE  AtEnd(v, m, todo, r, got) \/ Taken(v, m, r)
<1> SUFFICES ASSUME ~AtEnd(v, m, todo, r, got) PROVE Taken(v, m, r)
  OBVIOUS
<1>1. PICK k \in 0..(Len(m) - 1), j \in 1..Len(Layout(v)) :
          \/ AtField(v, m, k, j, todo, r, got)
          \/ /\ Layout(v)[j] \in Lists
             /\ \E e \in Unread(m, k, Layout(v)[j]) :
                   \/ InList(v, m, k, j, Layout(v)[j], e, todo, r, got)
                   \/ InEntry(v, m, k, j, Layout(v)[j], e, todo, r, got)
  BY DEF Spot
<1>2. CASE AtField(v, m, k, j, todo, r, got)
  BY <1>2, PlainTaken, CountTaken
<1>3. ASSUME Layout(v)[j] \in Lists, NEW e \in Unread(m, k, Layout(v)[j]),
             \/ InList(v, m, k, j, Layout(v)[j], e, todo, r, got)
             \/ InEntry(v, m, k, j, Layout(v)[j], e, todo, r, got)
      PROVE  Taken(v, m, r)
  BY <1>3, EntryTaken, HalfTaken
<1>4. QED
  BY <1>1, <1>2, <1>3

-----------------------------------------------------------------------------
(* The reader                                                               *)

\* Every version lays out known fields.
LEMMA LayoutNames == ASSUME NEW v \in Nat PROVE Layout(v) \in Seq(Names)
<1>1. CASE v \in 0..3
  BY <1>1, LayoutFacts
<1>2. CASE v \notin 0..3
  <2>1. v >= 3 /\ v >= 2 /\ 3 >= 3 /\ 3 >= 2
    BY <1>2
  <2>2. Layout(v) = Layout(3)
    BY <2>1 DEF Layout
  <2>3. 3 \in 0..3
    OBVIOUS
  <2>4. QED
    BY <2>2, <2>3, LayoutFacts
<1>3. QED
  BY <1>1, <1>2

\* The reader never expects the version again.
LEMMA ExpectedType ==
    ASSUME NEW role \in RoleNames, NEW n \in Nat
    PROVE  Expected(role, n) \in Seq(RoleNames)
<1>1. \A x : Copies(n, Roles(x)) \in Seq(RoleNames)
  BY RolesType, CopiesLaws
<1>2. role \in Lists => Expected(role, n) = Copies(n, Roles(role))
  BY DEF Expected, Lists, Roles
<1>3. /\ <<>> \in Seq(RoleNames) /\ <<"bool">> \in Seq(RoleNames) /\ <<"val">> \in Seq(RoleNames)
  BY DEF RoleNames
<1>4. role = "tag" => Expected(role, n) \in Seq(RoleNames)
  BY <1>3 DEF Expected
<1>5. role \notin Lists /\ role # "tag" => Expected(role, n) = <<>>
  BY DEF Expected, RoleNames, Names, Lists
<1>6. QED
  BY <1>1, <1>2, <1>3, <1>4, <1>5

\* What a writer makes begins with the header; the functions follow.
LEMMA HeaderTokens ==
    ASSUME NEW v \in Nat, NEW m \in Seq(Function), Written(v, m) \in Tokens,
           Bodies(v, m) \in Seq(Tokens)
    PROVE  /\ Len(Written(v, m)) >= 3
           /\ Written(v, m)[1] = <<0>> /\ Written(v, m)[2] = <<v>> /\ Written(v, m)[3] = <<Len(m)>>
           /\ SubSeq(Written(v, m), 4, Len(Written(v, m))) = From(Bodies(v, m), 1)
<1> DEFINE a == <<<<0>>, <<v>>, <<Len(m)>>>>
           b == FlattenSeq(Bodies(v, m))
           w == Written(v, m)
<1>1. w = a \o b
  BY DEF Written, Bodies
<1>2. a \in Seq(Token) /\ b \in Seq(Token) /\ Len(a) = 3
  <2>1. a \in Seq(Token)
    BY NumberToken
  <2>2. b \in Seq(Token)
    BY FlattenSeqType DEF Tokens
  <2>3. QED
    BY <2>1, <2>2
<1>3. a[1] = <<0>> /\ a[2] = <<v>> /\ a[3] = <<Len(m)>>
  OBVIOUS
<1>4. b = From(Bodies(v, m), 1)
  BY FromEnds DEF Tokens
<1> HIDE DEF a, b, w
<1>5. /\ Len(w) = 3 + Len(b) /\ Len(b) \in Nat
      /\ \A i \in 1..(3 + Len(b)) : w[i] = IF i <= 3 THEN a[i] ELSE b[i - 3]
  <2>1. /\ Len(a \o b) = Len(a) + Len(b)
        /\ \A i \in 1..(Len(a) + Len(b)) :
              (a \o b)[i] = IF i <= Len(a) THEN a[i] ELSE b[i - Len(a)]
    BY <1>2, ConcatProperties
  <2>2. Len(b) \in Nat
    BY <1>2
  <2>3. QED
    BY <1>1, <1>2, <2>1, <2>2
<1>6. SubSeq(w, 4, Len(w)) = b
  <2> DEFINE c == SubSeq(w, 4, Len(w))
  <2>1. \A i \in 4..Len(w) : w[i] \in Token
    BY <1>2, <1>5
  <2>2. 4 \in Int /\ Len(w) \in Int /\ Len(w) - 4 + 1 = Len(b)
    BY <1>5
  <2>3. /\ c \in Seq(Token) /\ Len(c) = (IF 4 <= Len(w) THEN Len(w) - 4 + 1 ELSE 0)
        /\ \A i \in 1..(Len(w) - 4 + 1) : c[i] = w[4 + i - 1]
    BY <2>1, <2>2, SubSeqProperties
  <2>4. Len(c) = Len(b)
    BY <1>5, <2>3
  <2> HIDE DEF c
  <2>5. ASSUME NEW i \in 1..Len(b) PROVE c[i] = b[i]
    <3>1. 4 + i - 1 = i + 3 /\ i + 3 \in 1..(3 + Len(b)) /\ ~(i + 3 <= 3) /\ (i + 3) - 3 = i
      BY <1>5
    <3>2. c[i] = w[4 + i - 1]
      BY <2>2, <2>3
    <3>3. w[i + 3] = b[(i + 3) - 3]
      BY <1>5, <3>1
    <3>4. QED
      BY <3>1, <3>2, <3>3
  <2>6. QED
    BY <1>2, <2>3, <2>4, <2>5, SeqEqual DEF c
<1>7. w[1] = a[1] /\ w[2] = a[2] /\ w[3] = a[3]
  BY <1>5
<1>8. QED
  BY <1>3, <1>4, <1>5, <1>6, <1>7 DEF w

\* The next token of a file.
LEMMA RestStep ==
    ASSUME NEW w \in Tokens, NEW i \in Nat \ {0}, NEW tok \in Token, NEW s \in Tokens,
           SubSeq(w, i, Len(w)) = <<tok>> \o s
    PROVE  i <= Len(w) /\ w[i] = tok /\ SubSeq(w, i + 1, Len(w)) = s
<1>1. <<tok>> \o s # <<>> /\ Head(<<tok>> \o s) = tok /\ Tail(<<tok>> \o s) = s
  BY OneMore DEF Tokens
<1>2. Len(w) \in Nat
  BY DEF Tokens
<1>3. i <= Len(w)
  <2> SUFFICES ASSUME i > Len(w) PROVE FALSE
    BY <1>2
  <2>1. SubSeq(w, i, Len(w)) = <<>>
    BY <1>2, SubSeqEmpty
  <2>2. QED
    BY <1>1, <2>1
<1> DEFINE e == w[i]
           r == SubSeq(w, i + 1, Len(w))
<1>4. SubSeq(w, i, Len(w)) = <<e>> \o r
  <2>1. i \in 1..Len(w) /\ Len(w) \in i..Len(w)
    BY <1>2, <1>3
  <2>2. QED
    BY <2>1, SubSeqRecursiveFirst DEF Tokens
<1>5. e \in Token /\ r \in Seq(Token)
  <2>1. i + 1 \in Nat \ {0}
    OBVIOUS
  <2>2. QED
    BY <1>2, <1>3, <2>1, SuffixType DEF Tokens
<1> HIDE DEF e, r
<1>6. Head(<<e>> \o r) = e /\ Tail(<<e>> \o r) = r
  BY <1>5, OneMore
<1>7. QED
  BY <1>1, <1>3, <1>4, <1>6 DEF e, r

\* The file that was written, and what of it is left.
Original == Written(source.version, source.functions)
Rest == SubSeq(Original, at, Len(Original))

Header ==
    /\ got = <<>>
    /\ \/ at = 1 /\ todo = <<"magic", "version", "functions">>
       \/ at = 2 /\ todo = <<"version", "functions">>
       \/ at = 3 /\ todo = <<"functions">> /\ version = source.version
Body ==
    /\ version = source.version /\ todo \in Seq(RoleNames)
    /\ source.version <= FORMAT_VERSION =>
          /\ at <= Len(Original) + 1
          /\ Spot(source.version, source.functions, todo, Rest, got)
AllRead == got = Done(source.version, source.functions, Len(source.functions))

\* The file is the original as far as both go, and it is whole when they are
\* of one length and nothing is torn. While it is read, the reader is in the
\* header or at one of the places above; afterwards it has read everything. A
\* later format version does not pass the envelope.
FileInv ==
    /\ source \in Sources
    /\ \A i \in 1..Len(file) : i <= Len(Original) => file[i] = Original[i]
    /\ whole <=> Len(file) = Len(Original) /\ ~torn
ReadInv ==
    /\ FileInv
    /\ stage \in {"read", "envelope", "validate", "accepted", "refused"}
    /\ stage = "read" => Header \/ Body
    /\ stage \in {"envelope", "validate", "accepted"} =>
          /\ version = source.version
          /\ source.version <= FORMAT_VERSION => whole /\ AllRead
    /\ stage \in {"validate", "accepted"} => source.version <= FORMAT_VERSION
    /\ stage = "refused" /\ whole /\ source.version <= FORMAT_VERSION => AllRead

\* What is known of the original.
LEMMA OriginalType ==
    ASSUME NEW s \in Sources
    PROVE  /\ s.version \in Nat /\ s.functions \in Seq(Function)
           /\ Written(s.version, s.functions) \in Tokens
           /\ Len(Written(s.version, s.functions)) \in Nat
           /\ Bodies(s.version, s.functions) \in Seq(Tokens)
<1>1. s.version \in Nat /\ s.functions \in Seq(Function)
  BY ModuleAssumption
<1>2. Written(s.version, s.functions) \in Tokens
  BY WrittenType
<1> DEFINE v == s.version
           m == s.functions
<1> HIDE DEF v, m
<1>3. v \in Nat /\ m \in Seq(Function)
  BY <1>1 DEF v, m
<1>4. Bodies(v, m) \in Seq(Tokens)
  <2>1. \A i \in 1..Len(m) : FunctionTokens(m[i], v) \in Tokens
    BY <1>3, FunctionTokensType
  <2>2. QED
    BY <1>3, <2>1 DEF Bodies
<1>5. QED
  BY <1>1, <1>2, <1>4 DEF v, m, Tokens

\* The reader begins with the header of a file that is whole, cut or too long.
LEMMA InitReadInv == Init => ReadInv
<1> SUFFICES ASSUME Init PROVE ReadInv
  OBVIOUS
<1> DEFINE w == Original
<1>1. source \in Sources /\ w \in Tokens /\ Len(w) \in Nat
  BY OriginalType DEF Init, Original
<1>2. /\ whole \in BOOLEAN
      /\ whole = TRUE => file = w /\ ~torn
      /\ whole = FALSE => \/ \E n \in 0..(Len(w) - 1) : file = SubSeq(w, 1, n)
                          \/ file = Append(w, <<0>>)
                          \/ file = w /\ torn
  <2> HIDE DEF w
  <2>1. whole \in BOOLEAN /\ (whole = TRUE => file = w /\ ~torn)
    BY DEF Init, Original, w
  <2>2. whole = FALSE => \E d \in Damaged(w) : file = d.file /\ torn = d.torn
    BY DEF Init, Original, w
  <2>3. QED
    BY <2>1, <2>2 DEF Damaged
<1> HIDE DEF w
<1>3. /\ \A i \in 1..Len(file) : i <= Len(w) => file[i] = w[i]
      /\ whole <=> Len(file) = Len(w) /\ ~torn
  <2>1. CASE whole = TRUE
    BY <1>2, <2>1
  <2>2. ASSUME whole = FALSE, NEW n \in 0..(Len(w) - 1), file = SubSeq(w, 1, n)
        PROVE  /\ \A i \in 1..Len(file) : i <= Len(w) => file[i] = w[i]
               /\ whole <=> Len(file) = Len(w) /\ ~torn
    <3>1. \A i \in 1..n : w[i] \in Token
      BY <1>1 DEF Tokens
    <3>2. n \in Nat /\ n < Len(w) /\ n - 1 + 1 = n
      BY <1>1
    <3>3. Len(file) = n /\ \A i \in 1..n : file[i] = w[i]
      <4>1. /\ Len(file) = (IF 1 <= n THEN n - 1 + 1 ELSE 0)
            /\ \A i \in 1..(n - 1 + 1) : file[i] = w[1 + i - 1]
        BY <2>2, <3>1, <3>2, SubSeqProperties
      <4>2. Len(file) = n
        BY <3>2, <4>1
      <4>3. ASSUME NEW i \in 1..n PROVE file[i] = w[i]
        <5>1. i \in 1..(n - 1 + 1) /\ 1 + i - 1 = i
          BY <3>2
        <5>2. QED
          BY <4>1, <5>1
      <4>4. QED
        BY <4>2, <4>3
    <3>4. QED
      BY <1>1, <2>2, <3>2, <3>3
  <2>3. CASE whole = FALSE /\ file = Append(w, <<0>>)
    <3>1. <<0>> \in Token /\ w \in Seq(Token)
      BY <1>1, NumberToken DEF Tokens
    <3>2. Len(file) = Len(w) + 1 /\ \A i \in 1..Len(w) : file[i] = w[i]
      BY <2>3, <3>1, AppendProperties
    <3>3. QED
      BY <1>1, <2>3, <3>2
  <2>4. CASE whole = FALSE /\ file = w /\ torn
    BY <2>4
  <2>5. QED
    BY <1>2, <2>1, <2>2, <2>3, <2>4
<1>4. stage = "read" /\ Header
  BY DEF Init, Header
<1>5. QED
  BY <1>1, <1>3, <1>4 DEF ReadInv, FileInv, w

\* The file does not change.
LEMMA FileStays == ASSUME FileInv, UNCHANGED <<source, whole, torn, file>> PROVE FileInv'
BY DEF FileInv, Original

\* What the reader finds in the header.
LEMMA HeaderToken ==
    ASSUME FileInv, Len(file) \in Nat, at \in 1..3, at <= Len(file)
    PROVE  /\ Len(Original) >= 3 /\ Len(Original) \in Nat
           /\ at = 2 => file[at] = <<source.version>>
           /\ at = 3 => file[at] = <<Len(source.functions)>>
<1>1. source \in Sources
  BY DEF FileInv
<1>2. /\ Len(Original) >= 3 /\ Len(Original) \in Nat
      /\ Original[2] = <<source.version>> /\ Original[3] = <<Len(source.functions)>>
  BY <1>1, OriginalType, HeaderTokens DEF Original
<1>3. file[at] = Original[at]
  BY <1>2 DEF FileInv
<1>4. QED
  BY <1>2, <1>3

\* A step that reads a token, at the place where it is read.
LEMMA TokenRead ==
    ASSUME ReadToken, ~Refuse
    PROVE  /\ at' = at + 1 /\ got' = WithToken(Head(todo), file[at])
           /\ todo' = After(Head(todo), file[at]) \o Tail(todo)
           /\ version' = (IF Head(todo) = "version" THEN file[at][1] ELSE version)
           /\ UNCHANGED <<source, whole, torn, file, stage>>
BY DEF ReadToken, After

\* A token of the header.
LEMMA HeaderRead ==
    ASSUME FileInv, file \in Tokens, Header, stage = "read", ReadToken
    PROVE  ~Refuse /\ (Header \/ Body)'
<1>1. at \in 1..3 /\ at <= Len(file) /\ Len(file) \in Nat /\ todo # <<>>
  BY DEF Header, ReadToken, Tokens
<1>2. /\ Len(Original) >= 3 /\ Len(Original) \in Nat
      /\ at = 2 => file[at] = <<source.version>>
      /\ at = 3 => file[at] = <<Len(source.functions)>>
  BY <1>1, HeaderToken
<1>3. Head(todo) \in {"magic", "version", "functions"}
  BY DEF Header
<1>4. Readable(Head(todo), file[at][1])
  BY <1>3 DEF Readable
<1>5. ~Refuse
  <2>1. at' = at + 1
    BY <1>3, <1>4 DEF ReadToken
  <2>2. QED
    BY <1>1, <2>1 DEF Refuse
<1>6. WithToken(Head(todo), file[at]) = <<>>
  BY <1>3 DEF WithToken, Header
<1>7. CASE at = 1
  <2>1. Head(todo) = "magic" /\ Tail(todo) = <<"version", "functions">>
    <3>1. todo = <<"magic", "version", "functions">>
      BY <1>7 DEF Header
    <3>2. QED
      BY <3>1
  <2>2. After(Head(todo), file[at]) = <<>>
    BY <2>1 DEF After, Expected
  <2>3. todo' = <<>> \o <<"version", "functions">>
    BY <1>5, <2>1, <2>2, TokenRead
  <2>4. todo' = <<"version", "functions">>
    BY <2>3
  <2>5. Header'
    BY <1>5, <1>6, <1>7, <2>4, TokenRead DEF Header
  <2>6. QED
    BY <1>5, <2>5
<1>8. CASE at = 2
  <2>1. Head(todo) = "version" /\ Tail(todo) = <<"functions">>
    <3>1. todo = <<"version", "functions">>
      BY <1>8 DEF Header
    <3>2. QED
      BY <3>1
  <2>2. After(Head(todo), file[at]) = <<>>
    BY <2>1 DEF After, Expected
  <2>3. todo' = <<>> \o <<"functions">>
    BY <1>5, <2>1, <2>2, TokenRead
  <2>4. todo' = <<"functions">>
    BY <2>3
  <2>5. version' = source.version /\ source' = source /\ at' = 3
    BY <1>2, <1>5, <1>8, <2>1, TokenRead
  <2>6. Header'
    BY <1>5, <1>6, <2>4, <2>5, TokenRead DEF Header
  <2>7. QED
    BY <1>5, <2>6
<1>9. CASE at = 3
  <2> DEFINE v == source.version
             m == source.functions
  <2>1. Head(todo) = "functions" /\ Tail(todo) = <<>> /\ version = v
    <3>1. todo = <<"functions">> /\ version = v
      BY <1>9 DEF Header
    <3>2. QED
      BY <3>1
  <2>2. /\ v \in Nat /\ m \in Seq(Function) /\ Written(v, m) \in Tokens
        /\ Bodies(v, m) \in Seq(Tokens) /\ Len(m) \in Nat
    BY OriginalType DEF FileInv
  <2> DEFINE c == Copies(Len(m), Layout(v))
  <2>3. After(Head(todo), file[at]) = c
    BY <1>2, <1>9, <2>1 DEF After, Expected
  <2>4. c \in Seq(RoleNames)
    <3>1. Names \subseteq RoleNames
      BY DEF RoleNames
    <3>2. Layout(v) \in Seq(Names)
      BY <2>2, LayoutNames
    <3>3. Layout(v) \in Seq(RoleNames)
      <4> DEFINE lay == Layout(v)
      <4>1. lay \in Seq(Names)
        BY <3>2
      <4> HIDE DEF lay
      <4>2. lay \in Seq(RoleNames)
        BY <3>1, <4>1, WiderSeq
      <4>3. QED
        BY <4>2 DEF lay
    <3>4. QED
      BY <2>2, <3>3, CopiesLaws
  <2>5. todo' = c \o <<>> /\ at' = 4 /\ version' = v /\ source' = source /\ got' = <<>>
    <3>1. todo' = After(Head(todo), file[at]) \o Tail(todo) /\ got' = <<>> /\ source' = source
      BY <1>5, <1>6, TokenRead
    <3>2. at' = 4
      BY <1>5, <1>9, TokenRead
    <3>3. version' = v
      BY <1>5, <2>1, TokenRead
    <3> HIDE DEF c
    <3>4. QED
      BY <2>1, <2>3, <3>1, <3>2, <3>3
  <2>6. todo' = c
    <3> HIDE DEF c
    <3>1. QED
      BY <2>4, <2>5, ConcatEmptySeq
  <2>7. ASSUME v <= FORMAT_VERSION
        PROVE  /\ 4 <= Len(Original) + 1
               /\ Spot(v, m, c, SubSeq(Original, 4, Len(Original)), <<>>)
    <3>1. v \in 0..3
      BY <2>2, <2>7 DEF FORMAT_VERSION
    <3>2. SubSeq(Original, 4, Len(Original)) = From(Bodies(v, m), 1)
      BY <2>2, HeaderTokens DEF Original
    <3>3. 0 \in 0..Len(m) /\ Len(m) - 0 = Len(m) /\ 0 + 1 = 1
      BY <2>2
    <3>4. Spot(v, m, Copies(Len(m) - 0, Layout(v)), From(Bodies(v, m), 0 + 1), Done(v, m, 0))
      BY <2>2, <3>1, <3>3, FunctionSpot
    <3>5. Done(v, m, 0) = <<>>
      BY DEF Done
    <3>6. 4 <= Len(Original) + 1
      BY <1>2
    <3>7. QED
      BY <3>2, <3>3, <3>4, <3>5, <3>6, Zenon
  <2>8. Original' = Original
    BY <2>5 DEF Original
  <2>9. Body'
    <3> HIDE DEF c
    <3>1. QED
      BY <2>4, <2>5, <2>6, <2>7, <2>8 DEF Body, Rest
  <2>10. QED
    BY <1>5, <2>9
<1>10. QED
  BY <1>1, <1>7, <1>8, <1>9

\* A token of a function.
LEMMA BodyRead ==
    ASSUME FileInv, file \in Tokens, at \in Nat \ {0}, Body, stage = "read", ReadToken, ~Refuse
    PROVE  Body'
<1> DEFINE role == Head(todo)
           tok == file[at]
           v == source.version
           m == source.functions
<1>1. /\ at \in 1..Len(file) /\ Len(file) \in Nat /\ tok \in Token /\ todo # <<>>
  BY DEF ReadToken, Tokens
<1>2. tok[1] \in Nat
  BY <1>1 DEF Token
<1>3. role \in RoleNames /\ Tail(todo) \in Seq(RoleNames)
  BY <1>1, HeadTailProperties DEF Body
<1>4. /\ at' = at + 1 /\ got' = WithToken(role, tok) /\ todo' = After(role, tok) \o Tail(todo)
      /\ version' = version /\ source' = source
  <2>1. role # "version"
    BY <1>3 DEF RoleNames, Names
  <2>2. QED
    BY <2>1, TokenRead
<1>5. todo' \in Seq(RoleNames)
  <2>1. After(role, tok) \in Seq(RoleNames)
    <3> DEFINE n == tok[1]
    <3>1. n \in Nat /\ role \in RoleNames
      BY <1>2, <1>3
    <3> HIDE DEF role, tok, n
    <3>2. Expected(role, n) \in Seq(RoleNames)
      BY <3>1, ExpectedType
    <3>3. QED
      BY <3>2 DEF After, n
  <2> HIDE DEF role, tok
  <2>2. After(role, tok) \o Tail(todo) \in Seq(RoleNames)
    BY <1>3, <2>1, ConcatType
  <2>3. QED
    BY <1>4, <2>2
<1>6. ASSUME v <= FORMAT_VERSION
      PROVE  /\ at + 1 <= Len(Original) + 1
             /\ Spot(v, m, todo', SubSeq(Original, at + 1, Len(Original)), got')
  <2>1. /\ v \in 0..3 /\ m \in Seq(Function) /\ Original \in Tokens /\ Len(Original) \in Nat
    BY <1>6, OriginalType DEF FileInv, FORMAT_VERSION, Original
  <2>2. Spot(v, m, todo, Rest, got)
    BY <1>6 DEF Body
  <2>3. Taken(v, m, Rest)
    BY <1>1, <2>1, <2>2, SpotTaken DEF AtEnd
  <2>4. PICK one \in RoleNames, new \in Token, t \in Seq(RoleNames), s \in Tokens :
           /\ todo = <<one>> \o t /\ Rest = <<new>> \o s
           /\ Spot(v, m, After(one, new) \o t, s, WithToken(one, new))
    BY <2>3 DEF Taken
  <2>5. one = role /\ t = Tail(todo)
    BY <2>4, OneMore
  <2>6. at <= Len(Original) /\ Original[at] = new /\ SubSeq(Original, at + 1, Len(Original)) = s
    BY <2>1, <2>4, RestStep DEF Rest
  <2>7. tok = new
    BY <1>1, <2>1, <2>6 DEF FileInv
  <2>8. at + 1 <= Len(Original) + 1
    BY <2>1, <2>6
  <2>9. todo' = After(one, new) \o t /\ got' = WithToken(one, new)
    BY <1>4, <2>5, <2>7
  <2>10. QED
    BY <2>4, <2>6, <2>8, <2>9
<1>7. Original' = Original
  BY <1>4 DEF Original
<1>8. QED
  BY <1>4, <1>5, <1>6, <1>7 DEF Body, Rest

\* The reader does not refuse a token of a file of a version that it knows.
LEMMA BodyAccepts ==
    ASSUME FileInv, file \in Tokens, at \in Nat \ {0}, Body, stage = "read",
           source.version <= FORMAT_VERSION, todo # <<>>
    PROVE  /\ at <= Len(Original)
           /\ ~(ReadToken /\ Refuse)
<1> DEFINE v == source.version
           m == source.functions
<1>1. /\ v \in 0..3 /\ m \in Seq(Function) /\ Original \in Tokens /\ Len(Original) \in Nat
      /\ Len(file) \in Nat
  <2>1. /\ v \in Nat /\ m \in Seq(Function) /\ Original \in Tokens /\ Len(Original) \in Nat
    BY OriginalType DEF FileInv, Original
  <2>2. Len(file) \in Nat
    BY DEF Tokens
  <2>3. QED
    BY <2>1, <2>2 DEF FORMAT_VERSION
<1>2. Spot(v, m, todo, Rest, got)
  BY DEF Body
<1>3. Taken(v, m, Rest)
  BY <1>1, <1>2, SpotTaken DEF AtEnd
<1>4. PICK one \in RoleNames, new \in Token, t \in Seq(RoleNames), s \in Tokens :
         /\ todo = <<one>> \o t /\ Rest = <<new>> \o s
         /\ one # "code" => Readable(one, new[1])
  BY <1>3 DEF Taken
<1>5. one = Head(todo)
  BY <1>4, OneMore
<1>6. at <= Len(Original) /\ Original[at] = new
  BY <1>1, <1>4, RestStep DEF Rest
<1>7. ASSUME ReadToken PROVE at' = at + 1
  <2>1. file[at] = new
    BY <1>1, <1>6, <1>7 DEF FileInv, ReadToken
  <2>2. QED
    BY <1>4, <1>5, <1>7, <2>1 DEF ReadToken
<1>8. QED
  BY <1>6, <1>7 DEF Refuse

\* Behind the last function nothing is left.
LEMMA BodyEnds ==
    ASSUME FileInv, at \in Nat \ {0}, Body, source.version <= FORMAT_VERSION, todo = <<>>
    PROVE  AllRead /\ at = Len(Original) + 1
<1> DEFINE v == source.version
           m == source.functions
<1>1. /\ v \in 0..3 /\ m \in Seq(Function) /\ Original \in Tokens /\ Len(Original) \in Nat
  BY OriginalType DEF FileInv, FORMAT_VERSION, Original
<1>2. Spot(v, m, todo, Rest, got) /\ at <= Len(Original) + 1
  BY DEF Body
<1>3. ~Taken(v, m, Rest)
  <2> SUFFICES ASSUME NEW one \in RoleNames, NEW t \in Seq(RoleNames), todo = <<one>> \o t
               PROVE  FALSE
    BY DEF Taken
  <2>1. QED
    BY OneMore
<1>4. AtEnd(v, m, todo, Rest, got)
  BY <1>1, <1>2, <1>3, SpotTaken
<1>5. Rest = <<>> /\ AllRead
  BY <1>4 DEF AtEnd, AllRead
<1>6. at > Len(Original)
  <2> SUFFICES ASSUME at <= Len(Original) PROVE FALSE
    BY <1>1
  <2>1. at \in 1..Len(Original) /\ Len(Original) \in at..Len(Original)
    BY <1>1
  <2> DEFINE a == Original[at]
             b == SubSeq(Original, at + 1, Len(Original))
  <2>2. Rest = <<a>> \o b
    BY <1>1, <2>1, SubSeqRecursiveFirst DEF Rest, Tokens
  <2>3. a \in Token /\ b \in Seq(Token)
    <3>1. at + 1 \in Nat \ {0}
      OBVIOUS
    <3>2. QED
      BY <1>1, <2>1, <3>1, SuffixType DEF Tokens
  <2> HIDE DEF a, b
  <2>4. <<a>> \o b # <<>>
    BY <2>3, OneMore
  <2>5. QED
    BY <1>5, <2>2, <2>4
<1>7. QED
  BY <1>1, <1>2, <1>5, <1>6

\* What the reader has read does not change any more.
LEMMA LaterReadInv ==
    ASSUME ReadInv, UNCHANGED <<source, whole, torn, file, version, got>>,
           \/ stage = "envelope" /\ stage' = "validate" /\ source.version <= FORMAT_VERSION
           \/ stage \in {"validate", "accepted"} /\ stage' \in {"validate", "accepted"}
           \/ stage \in {"envelope", "validate"} /\ stage' = "refused"
    PROVE  ReadInv'
<1>1. FileInv'
  BY FileStays DEF ReadInv
<1>2. AllRead' <=> AllRead
  BY DEF AllRead
<1>3. QED
  BY <1>1, <1>2 DEF ReadInv

\* A refusal while reading.
LEMMA ReadRefused ==
    ASSUME ReadInv, Refuse, stage = "read", ~(whole /\ source.version <= FORMAT_VERSION)
    PROVE  ReadInv'
<1>1. FileInv' /\ stage' = "refused" /\ UNCHANGED <<source, whole>>
  BY FileStays DEF ReadInv, Refuse
<1>2. QED
  BY <1>1 DEF ReadInv

\* Reading.
LEMMA ReaderReadInv ==
    ASSUME ReadInv, ModuleInv, ReadToken \/ Truncated \/ ReadEnds
    PROVE  ReadInv'
<1>1. /\ FileInv /\ file \in Tokens /\ at \in Nat \ {0} /\ stage = "read" /\ (Header \/ Body)
      /\ Len(file) \in Nat
  <2>1. stage = "read"
    BY DEF ReadToken, Truncated, ReadEnds
  <2>2. file \in Tokens /\ at \in Nat \ {0}
    BY DEF ModuleInv
  <2>3. QED
    BY <2>1, <2>2 DEF ReadInv, Tokens
<1>2. CASE ReadToken /\ ~Refuse
  <2>1. UNCHANGED <<source, whole, torn, file, stage>>
    BY <1>2, TokenRead
  <2>2. (Header \/ Body)'
    BY <1>1, <1>2, HeaderRead, BodyRead
  <2>3. FileInv'
    BY <1>1, <2>1, FileStays
  <2>4. QED
    BY <1>1, <2>1, <2>2, <2>3 DEF ReadInv
<1>3. CASE ReadToken /\ Refuse
  <2>1. Body
    BY <1>1, <1>3, HeaderRead
  <2>2. ~(source.version <= FORMAT_VERSION)
    BY <1>1, <1>3, <2>1, BodyAccepts DEF ReadToken
  <2>3. QED
    BY <1>1, <1>3, <2>2, ReadRefused
<1>4. CASE Truncated
  <2>1. ASSUME whole, source.version <= FORMAT_VERSION PROVE FALSE
    <3>1. todo # <<>> /\ at > Len(file) /\ Len(file) = Len(Original)
      BY <1>1, <1>4, <2>1 DEF Truncated, FileInv
    <3>2. CASE Header
      <4>1. at <= 3
        BY <3>2 DEF Header
      <4>2. Len(Original) >= 3
        BY <1>1, OriginalType, HeaderTokens DEF FileInv, Original
      <4>3. QED
        BY <1>1, <3>1, <4>1, <4>2
    <3>3. CASE Body
      BY <1>1, <2>1, <3>1, <3>3, BodyAccepts
    <3>4. QED
      BY <1>1, <3>2, <3>3
  <2>2. QED
    BY <1>1, <1>4, <2>1, ReadRefused DEF Truncated
<1>5. CASE ReadEnds
  <2>1. Body /\ todo = <<>>
    <3>1. todo = <<>>
      BY <1>5 DEF ReadEnds
    <3>2. ~Header
      BY <3>1 DEF Header
    <3>3. QED
      BY <1>1, <3>1, <3>2
  <2>2. source.version <= FORMAT_VERSION => AllRead /\ at = Len(Original) + 1
    BY <1>1, <2>1, BodyEnds
  <2>3. Len(Original) \in Nat
    BY <1>1, OriginalType DEF FileInv, Original
  <2>4. source.version <= FORMAT_VERSION => (whole <=> Finish)
    BY <1>1, <2>2, <2>3 DEF FileInv, Finish
  <2>5. CASE Finish
    <3>1. stage' = "envelope" /\ UNCHANGED <<source, whole, torn, file, version, got>>
      BY <1>5, <2>5 DEF ReadEnds
    <3>2. FileInv' /\ (AllRead' <=> AllRead)
      BY <1>1, <3>1, FileStays DEF AllRead
    <3>3. QED
      BY <2>1, <2>2, <2>4, <2>5, <3>1, <3>2 DEF ReadInv, Body
  <2>6. CASE ~Finish
    BY <1>1, <1>5, <2>4, <2>6, ReadRefused DEF ReadEnds
  <2>7. QED
    BY <2>5, <2>6
<1>6. QED
  BY <1>2, <1>3, <1>4, <1>5

\* Every step of the container.
LEMMA NextReadInv == ReadInv /\ ModuleInv /\ [Next]_vars => ReadInv'
<1> SUFFICES ASSUME ReadInv, ModuleInv, [Next]_vars PROVE ReadInv'
  OBVIOUS
<1>1. CASE CheckEnvelope
  <2>1. CASE Envelope /\ ValidateFunction(1)
    <3>1. source.version <= FORMAT_VERSION
      <4>1. source.version \in MIN_SUPPORTED_MODULE_VERSION..FORMAT_VERSION
        BY <1>1, <2>1 DEF Envelope, CheckEnvelope, ReadInv
      <4>2. QED
        BY <4>1 DEF FORMAT_VERSION, MIN_SUPPORTED_MODULE_VERSION
    <3>2. QED
      BY <1>1, <2>1, <3>1, LaterReadInv DEF CheckEnvelope, ValidateFunction
  <2>2. CASE Refuse
    BY <1>1, <2>2, LaterReadInv DEF CheckEnvelope, Refuse
  <2>3. QED
    BY <1>1, <2>1, <2>2 DEF CheckEnvelope
<1>2. CASE ValidationStep \/ Execute
  BY <1>2, LaterReadInv DEF ValidationStep, Execute, containerVars
<1>3. CASE FunctionRejected
  BY <1>3, LaterReadInv DEF FunctionRejected, Refuse
<1>4. CASE NextFunction
  BY <1>4, LaterReadInv DEF NextFunction, ValidateFunction
<1>5. CASE Gate
  BY <1>5, LaterReadInv DEF Gate, Refuse
<1>6. CASE UNCHANGED vars
  <2>1. UNCHANGED <<source, whole, torn, file, stage, at, todo, version, got>>
    BY <1>6 DEF vars, containerVars
  <2>2. FileInv' /\ Original' = Original
    BY <2>1, FileStays DEF ReadInv, Original
  <2>3. (Header <=> Header') /\ (Body <=> Body') /\ (AllRead <=> AllRead')
    BY <2>1, <2>2 DEF Header, Body, AllRead, Rest
  <2>4. QED
    BY <2>1, <2>2, <2>3 DEF ReadInv
<1>7. QED
  BY <1>1, <1>2, <1>3, <1>4, <1>5, <1>6, ReaderReadInv DEF Next, Decide

\* Whatever was written and whatever became of the file, what is accepted is a
\* whole file of a version that this build knows, and what was read of such a
\* file is what the writer was given.
THEOREM FilesReadBack == Spec => []ReadsBack
<1>1. ReadInv => ReadsBack
  BY DEF ReadInv, ReadsBack, AllRead, Done
<1>2. Init => ReadInv
  BY InitReadInv
<1>3. ReadInv /\ ModuleInv /\ [Next]_vars => ReadInv'
  BY NextReadInv
<1>4. QED
  BY <1>1, <1>2, <1>3, ModuleInvariant, PTL DEF Spec
=============================================================================
