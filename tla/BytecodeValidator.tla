-------------------------- MODULE BytecodeValidator --------------------------
(***************************************************************************)
(* validate_bytecode of crates/fcb_core/src/bytecode.rs, the last check of  *)
(* a bytecode patch before it is signed, and what the interpreter may do    *)
(* with a function that passed it.  The two loops of the validator are      *)
(* steps, so that what it promises is an invariant.  The interpreter is     *)
(* part of the engine and not of this repository: Exec allows it every move *)
(* that the instruction set suggests.                                       *)
(***************************************************************************)
EXTENDS Naturals, Sequences

CONSTANTS Functions,     \* the functions that may be given to the validator
          Strings,       \* the string constants, as numbers
          Named,         \* how many names follow the marker in a string
          Marked         \* the strings that begin with the marker ";named:"

\* A constant is a tag (4: string) and a value; code is a sequence of bytes.
Constant == [tag : 0..4, val : Nat]
IsFunction(f) ==
    /\ f.params \in Nat /\ f.locals \in Nat
    /\ f.consts \in Seq(Constant)
    /\ f.code \in Seq(0..255)
ASSUME ValidatorAssumption ==
    /\ \A f \in Functions : IsFunction(f)
    /\ Named \in [Strings -> Nat]
    /\ Marked \subseteq Strings
    /\ \A f \in Functions : \A i \in 1..Len(f.consts) :
          f.consts[i].tag = 4 => f.consts[i].val \in Strings

VARIABLES fn,            \* the function
          phase,         \* "pass1", "pass2", "valid", "run", "rejected"
          pos,           \* the offset the validator or the interpreter is at
          starts,        \* the offsets at which pass 1 met an instruction
          exits          \* the offsets that executed Try instructions named
validatorVars == <<fn, phase, pos, starts, exits>>

-----------------------------------------------------------------------------
(* The instruction set: OpCode, from_byte and operand_len                   *)

LoadConst == 1
LoadArg == 2
Locals == {3, 4}                        \* LoadLocal, StoreLocal
Jumps == {48, 49, 50}                   \* Jump, JumpIfFalse, JumpIfTrue
CallStatic == 80
CallDynamic == 81
CallOriginal == 82
CallClosure == 83
NewObject == 85
Tries == {97, 101}                      \* TryBegin, TryFinally
Leaves == {96, 99, 103, 255}            \* Throw, AsyncReturn, Rethrow, Return
EndFinally == 102

\* The instructions whose operand is the index of a string constant.
ByName == {67, 68, 69, 70, 84, CallStatic, CallDynamic, CallOriginal, NewObject}
WithNamedArguments == {CallDynamic, CallOriginal, NewObject}

NoOperand == {5, 16, 17, 18, 19, 32, 33, 98, 100, EndFinally} \cup Leaves
OneByte == {LoadArg} \cup Locals
TwoBytes == {LoadConst, 64, 65, 66, 67, 68, 69, 70, 84} \cup Jumps
ThreeBytes == {CallStatic, CallDynamic, CallOriginal, CallClosure, NewObject}
OpCodes == NoOperand \cup OneByte \cup TwoBytes \cup ThreeBytes \cup Tries

OperandLen(op) ==
    CASE op \in NoOperand -> 0
      [] op \in OneByte -> 1
      [] op \in TwoBytes -> 2
      [] op \in ThreeBytes -> 3
      [] op \in Tries -> 4

\* Offsets count from 0; read_u16 is big-endian.
At(p) == fn.code[p + 1]
U16(p) == At(p) * 256 + At(p + 1)
Size == Len(fn.code)
Following(p) == p + 1 + OperandLen(At(p))

-----------------------------------------------------------------------------
(* The checks of one instruction                                            *)

\* constants.get(i) is a string.
StringAt(i) == i < Len(fn.consts) /\ fn.consts[i + 1].tag = 4

\* count_named_arguments: all names after the marker, or none unless the
\* marker comes first.
NamedCount(i) == Named[fn.consts[i + 1].val]

\* The operands of pass 1.
OperandsFit(p) ==
    /\ At(p) = LoadConst => U16(p + 1) < Len(fn.consts)
    /\ At(p) = LoadArg => At(p + 1) < fn.params
    /\ At(p) \in Locals => At(p + 1) < fn.locals
    /\ At(p) = CallClosure /\ U16(p + 1) # 0 =>
         /\ StringAt(U16(p + 1) - 1)
         /\ fn.consts[U16(p + 1)].val \in Marked
         /\ NamedCount(U16(p + 1) - 1) <= At(p + 3)
    /\ At(p) \in ByName => StringAt(U16(p + 1))
    /\ At(p) \in WithNamedArguments => NamedCount(U16(p + 1)) <= At(p + 3)

\* The opcode is known and its operands lie inside the code.
Complete(p) == At(p) \in OpCodes /\ Following(p) <= Size

\* Fault: a target only has to lie inside the code.
TargetsFitInside(p) ==
    /\ At(p) \in Jumps \cup Tries => U16(p + 1) < Size
    /\ At(p) \in Tries => U16(p + 3) < Size /\ p < U16(p + 1) /\ U16(p + 1) < U16(p + 3)

\* The targets of pass 2.
TargetsFit(p) ==
    /\ At(p) \in Jumps \cup Tries => U16(p + 1) < Size /\ U16(p + 1) \in starts
    /\ At(p) \in Tries => /\ U16(p + 3) < Size /\ U16(p + 3) \in starts
                          /\ p < U16(p + 1) /\ U16(p + 1) < U16(p + 3)

-----------------------------------------------------------------------------
(* The validator                                                            *)

\* A function enters the validator, at first and later.
FirstPhase(f) == IF f.locals < f.params THEN "rejected" ELSE "pass1"
Enter(f) ==
    /\ fn = f /\ phase = FirstPhase(f)
    /\ pos = 0 /\ starts = {} /\ exits = {}
Load(f) ==
    /\ fn' = f /\ phase' = FirstPhase(f)
    /\ pos' = 0 /\ starts' = {} /\ exits' = {}

Reject ==
    /\ phase' = "rejected"
    /\ UNCHANGED <<fn, pos, starts, exits>>

\* Fault: the offset of the next instruction forgets the opcode byte.
AdvanceShort == pos' = pos + OperandLen(At(pos))

Advance == pos' = Following(pos)

Pass1 ==
    /\ phase = "pass1" /\ pos < Size
    /\ IF Complete(pos) /\ OperandsFit(pos)
       THEN /\ starts' = starts \cup {pos}
            /\ Advance
            /\ UNCHANGED <<fn, phase, exits>>
       ELSE Reject

Pass1Ends ==
    /\ phase = "pass1" /\ pos >= Size
    /\ IF Size = 0
       THEN Reject
       ELSE /\ phase' = "pass2"
            /\ pos' = 0
            /\ UNCHANGED <<fn, starts, exits>>

Pass2 ==
    /\ phase = "pass2" /\ pos < Size
    /\ IF TargetsFit(pos)
       THEN Advance /\ UNCHANGED <<fn, phase, starts, exits>>
       ELSE Reject

Pass2Ends ==
    /\ phase = "pass2" /\ pos >= Size
    /\ phase' = "valid"
    /\ UNCHANGED <<fn, pos, starts, exits>>

-----------------------------------------------------------------------------
(* The interpreter (external)                                               *)

Call ==
    /\ phase = "valid"
    /\ phase' = "run"
    /\ pos' = 0
    /\ UNCHANGED <<fn, starts, exits>>

\* One instruction; an exception, the end of a finally block or the end of
\* a try block may continue at any offset that a Try has named.
Exec ==
    /\ phase = "run" /\ pos < Size
    /\ exits' = IF At(pos) \in Tries
                THEN exits \cup {U16(pos + 1), U16(pos + 3)} ELSE exits
    /\ \/ At(pos) \notin Leaves \cup {48} /\ pos' = Following(pos)
       \/ At(pos) \in Jumps /\ pos' = U16(pos + 1)
       \/ pos' \in exits
    /\ UNCHANGED <<fn, phase, starts>>

-----------------------------------------------------------------------------

ValidatorNext ==
    Pass1 \/ Pass1Ends \/ Pass2 \/ Pass2Ends \/ Call \/ Exec
ValidatorInit == \E f \in Functions : Enter(f)
ValidatorSpec == ValidatorInit /\ [][ValidatorNext]_validatorVars

\* However an accepted function is executed, the interpreter is at an
\* instruction the validator has seen or behind the last one (nothing forces
\* the code to end in a return), and that instruction is complete, its
\* constants, arguments and locals exist and its calls have arguments for all
\* the names they pass.  validate_bytecode is what the signed patch rests on.
ExecSafe ==
    phase = "run" =>
        \/ pos = Size
        \/ pos \in starts /\ pos < Size /\ Complete(pos) /\ OperandsFit(pos)
=============================================================================
