--------------------------- MODULE BytecodeModule ---------------------------
(***************************************************************************)
(* A bytecode module on its way from the compiler to the interpreter: the   *)
(* binary container of crates/fcb_core/src/bytecode.rs is written, perhaps  *)
(* by a build with another format version, perhaps cut short or run on; it  *)
(* is read back, its envelope and every function are validated, and a       *)
(* function of an accepted module is executed.                              *)
(*                                                                          *)
(* A token of the file is a sequence of numbers: one number for an integer  *)
(* or a string (0 is a blank one), the length and the bytes for the code of *)
(* a function. Bytes behind the last token that are not a token any more,   *)
(* because the file was cut inside it, are torn.                            *)
(***************************************************************************)
EXTENDS BytecodeValidator, SequencesExt

CONSTANTS Sources,       \* [version, functions]: what writers may be given
          Fragile,       \* bound: those whose file is also cut and extended
          AotPresent     \* the functions that have an entry point in the AOT

\* What a build can hold of a function: its name and the texts are strings,
\* a null constant has no value and a bool one of two.
Entry == [key : Nat, text : Nat]
Literal == {c \in Constant : /\ c.tag = 0 => c.val = 0
                             /\ c.tag = 3 => c.val <= 1}
Function == [name : Nat, conv : 0..1, async : 0..3, params : Nat, locals : Nat,
             consts : Seq(Literal), code : Seq(0..255), smap : Seq(Entry),
             debug : Seq(Entry)]
ASSUME ModuleAssumption ==
    /\ Fragile \subseteq Sources
    /\ \A s \in Sources : s.version \in Nat /\ s.functions \in Seq(Function)

FORMAT_VERSION == 3
MIN_SUPPORTED_MODULE_VERSION == 1

VARIABLES source,        \* what the writer was given
          whole,         \* whether the file is as it was written
          torn,          \* whether bytes follow the tokens that make none
          file,          \* the tokens
          stage,         \* "read", "envelope", "validate", "accepted", "refused"
          at,            \* the next token, later the function in the validator
          todo,          \* what the reader expects, in order
          version,       \* what the file says
          got            \* the functions read so far
containerVars == <<source, whole, torn, file, stage, at, todo, version, got>>
vars == <<validatorVars, containerVars>>

-----------------------------------------------------------------------------
(* Writing                                                                  *)

\* The fields of a function in the order of the file; debug locals came with
\* version 2 and async kinds with version 3.
Layout(v) ==
    <<"name", "conv">> \o (IF v >= 3 THEN <<"async">> ELSE <<>>)
    \o <<"params", "locals", "consts", "code", "smap">>
    \o (IF v >= 2 THEN <<"debug">> ELSE <<>>)

\* A later build may write fields that this one does not know.
WriterLayout(v) == Layout(v) \o (IF v > FORMAT_VERSION THEN <<"extra">> ELSE <<>>)

\* write_constant: a null has no value.
ConstantTokens(c) == IF c.tag = 0 THEN <<<<0>>>> ELSE <<<<c.tag>>, <<c.val>>>>
EntryTokens(e) == <<<<e.key>>, <<e.text>>>>
\* A list that is too long for the u16 or u32 of its count makes the writer fail
\* and there is no file.
Counted(parts) == <<<<Len(parts)>>>> \o FlattenSeq(parts)
Entries(list) == Counted([i \in 1..Len(list) |-> EntryTokens(list[i])])

FieldTokens(f, field) ==
    CASE field = "consts" ->
           Counted([i \in 1..Len(f.consts) |-> ConstantTokens(f.consts[i])])
      [] field \in {"smap", "debug"} -> Entries(f[field])
      [] field = "code" -> <<<<Len(f.code)>> \o f.code>>
      [] field = "extra" -> <<<<0>>>>
      [] OTHER -> <<<<f[field]>>>>

FunctionTokens(f, v) ==
    FlattenSeq([i \in 1..Len(WriterLayout(v)) |-> FieldTokens(f, WriterLayout(v)[i])])

\* to_binary_vec of a build with format version v.
Written(v, m) ==
    <<<<0>>, <<v>>, <<Len(m)>>>>
    \o FlattenSeq([i \in 1..Len(m) |-> FunctionTokens(m[i], v)])

\* What a build of version v can say of a function.
Expressed(f, v) ==
    [f EXCEPT !.async = IF v >= 3 THEN @ ELSE 0,
              !.debug = IF v >= 2 THEN @ ELSE <<>>]

\* The file cut between two tokens or inside one, or with something behind it.
Damaged(tokens) ==
    [file : {SubSeq(tokens, 1, n) : n \in 0..(Len(tokens) - 1)}, torn : BOOLEAN]
    \cup {[file |-> Append(tokens, <<0>>), torn |-> FALSE], [file |-> tokens, torn |-> TRUE]}

Blank == [name |-> 0, conv |-> 0, async |-> 0, params |-> 0, locals |-> 0,
          consts |-> <<>>, code |-> <<>>, smap |-> <<>>, debug |-> <<>>]

Init ==
    /\ source \in Sources
    /\ LET tokens == Written(source.version, source.functions)
       IN  \/ whole = TRUE /\ file = tokens /\ torn = FALSE
           \/ /\ whole = FALSE /\ source \in Fragile
              /\ \E d \in Damaged(tokens) : file = d.file /\ torn = d.torn
    /\ stage = "read" /\ at = 1 /\ version = 0 /\ got = <<>>
    /\ todo = <<"magic", "version", "functions">>
    /\ Enter(Blank)

-----------------------------------------------------------------------------
(* Reading: read_binary and BinaryReader                                    *)

Copies(n, seq) == FlattenSeq([i \in 1..n |-> seq])

\* What a token tells the reader to expect next.
Expected(role, n) ==
    CASE role = "functions" -> Copies(n, Layout(version))
      [] role = "consts" -> Copies(n, <<"tag">>)
      [] role = "tag" -> IF n = 0 THEN <<>> ELSE IF n = 3 THEN <<"bool">> ELSE <<"val">>
      [] role = "smap" -> Copies(n, <<"smap.key", "smap.text">>)
      [] role = "debug" -> Copies(n, <<"debug.key", "debug.text">>)
      [] OTHER -> <<>>

\* The values that are refused where they are read.
Readable(role, n) ==
    /\ role \in {"conv", "bool"} => n <= 1
    /\ role = "async" => n <= 3
    /\ role = "tag" => n <= 4

\* The functions after one more token; k is the one being read.
WithToken(role, tok) ==
    LET k == Len(got) IN
    CASE role = "name" -> Append(got, [Blank EXCEPT !.name = tok[1]])
      [] role \in {"conv", "async", "params", "locals"} ->
           [got EXCEPT ![k][role] = tok[1]]
      [] role = "code" -> [got EXCEPT ![k].code = Tail(tok)]
      [] role = "tag" ->
           [got EXCEPT ![k].consts = Append(@, [tag |-> tok[1], val |-> 0])]
      [] role \in {"val", "bool"} ->
           [got EXCEPT ![k].consts[Len(got[k].consts)].val = tok[1]]
      [] role = "smap.key" ->
           [got EXCEPT ![k].smap = Append(@, [key |-> tok[1], text |-> 0])]
      [] role = "smap.text" ->
           [got EXCEPT ![k].smap[Len(got[k].smap)].text = tok[1]]
      [] role = "debug.key" ->
           [got EXCEPT ![k].debug = Append(@, [key |-> tok[1], text |-> 0])]
      [] role = "debug.text" ->
           [got EXCEPT ![k].debug[Len(got[k].debug)].text = tok[1]]
      [] OTHER -> got

Refuse ==
    /\ stage' = "refused"
    /\ UNCHANGED <<source, whole, torn, file, at, todo, version, got, validatorVars>>

ReadToken ==
    /\ stage = "read" /\ todo # <<>> /\ at <= Len(file)
    /\ LET role == Head(todo)
           tok == file[at]
       IN  IF role # "code" /\ ~Readable(role, tok[1])
           THEN Refuse
           ELSE /\ at' = at + 1
                /\ todo' = (IF role = "code" THEN <<>> ELSE Expected(role, tok[1]))
                             \o Tail(todo)
                /\ version' = IF role = "version" THEN tok[1] ELSE version
                /\ got' = WithToken(role, tok)
                /\ UNCHANGED <<source, whole, torn, file, stage, validatorVars>>

\* BinaryReader::bytes: there are not as many bytes as the next token has.
Truncated ==
    /\ stage = "read" /\ todo # <<>> /\ at > Len(file)
    /\ Refuse

\* Fault: what follows the last function is ignored.
FinishLenient == TRUE

\* BinaryReader::finish.
Finish == at = Len(file) + 1 /\ ~torn

ReadEnds ==
    /\ stage = "read" /\ todo = <<>>
    /\ IF Finish
       THEN /\ stage' = "envelope"
            /\ UNCHANGED <<source, whole, torn, file, at, todo, version, got, validatorVars>>
       ELSE Refuse

-----------------------------------------------------------------------------
(* Validation: BytecodeModule::validate, then the AOT gate of the CLI       *)

FunctionEnvelope(f) ==
    /\ f.name # 0
    /\ f.locals >= f.params
    /\ f.code # <<>>
    /\ \A i \in 1..Len(f.smap) : f.smap[i].key < Len(f.code) /\ f.smap[i].text # 0
    /\ \A i \in 1..Len(f.debug) :
          f.debug[i].key < f.params + f.locals /\ f.debug[i].text # 0

\* validate_envelope.
Envelope ==
    /\ version \in MIN_SUPPORTED_MODULE_VERSION..FORMAT_VERSION
    /\ got # <<>>
    /\ \A i, j \in 1..Len(got) : i # j => got[i].name # got[j].name
    /\ \A i \in 1..Len(got) : FunctionEnvelope(got[i])

ValidateFunction(i) ==
    /\ at' = i
    /\ Load(got[i])
    /\ stage' = "validate"
    /\ UNCHANGED <<source, whole, torn, file, todo, version, got>>

CheckEnvelope ==
    /\ stage = "envelope"
    /\ IF Envelope THEN ValidateFunction(1) ELSE Refuse

ValidationStep ==
    /\ stage = "validate"
    /\ Pass1 \/ Pass1Ends \/ Pass2 \/ Pass2Ends
    /\ UNCHANGED containerVars

FunctionRejected ==
    /\ stage = "validate" /\ phase = "rejected"
    /\ Refuse

NextFunction ==
    /\ stage = "validate" /\ phase = "valid" /\ at < Len(got)
    /\ ValidateFunction(at + 1)

\* targets_for: the strings that the given instructions name.
TargetsFor(f, ops) ==
    LET named(p) == f.code[p + 2] * 256 + f.code[p + 3]
        scan[p \in 0..(Len(f.code) + 4)] ==
            IF p >= Len(f.code) \/ f.code[p + 1] \notin OpCodes
            THEN {}
            ELSE (IF /\ f.code[p + 1] \in ops /\ p + 3 <= Len(f.code)
                     /\ named(p) < Len(f.consts) /\ f.consts[named(p) + 1].tag = 4
                  THEN {f.consts[named(p) + 1].val} ELSE {})
                 \cup scan[p + 1 + OperandLen(f.code[p + 1])]
    IN  scan[0]

\* Fault: only calls of the original function are gated.
AotTargetsOriginal == UNION {TargetsFor(got[i], {CallOriginal}) : i \in 1..Len(got)}

\* aot_referenced_targets.
AotTargets == UNION {TargetsFor(got[i], {CallStatic, CallOriginal}) : i \in 1..Len(got)}

\* missing_aot_targets is empty. This is the gate of a release whose AOT entry
\* points were captured; the CLI has none for a release without that file.
Gate ==
    /\ stage = "validate" /\ phase = "valid" /\ at = Len(got)
    /\ IF AotTargets \subseteq AotPresent
       THEN /\ stage' = "accepted"
            /\ UNCHANGED <<source, whole, torn, file, at, todo, version, got, validatorVars>>
       ELSE Refuse

\* The interpreter runs the function that was validated last; any function
\* can be that one.
Execute ==
    /\ stage = "accepted"
    /\ Call \/ Exec
    /\ UNCHANGED containerVars

-----------------------------------------------------------------------------

Decide ==
    \/ ReadToken \/ Truncated \/ ReadEnds \/ CheckEnvelope
    \/ ValidationStep \/ FunctionRejected \/ NextFunction \/ Gate
Next == Decide \/ Execute
\* The reader and the validator are loops of one thread: they go on.
Spec == Init /\ [][Next]_vars /\ WF_vars(Decide)

-----------------------------------------------------------------------------
(* Properties                                                               *)

\* A file that was cut short at any byte, that goes on behind its end, or that a later
\* format version wrote is never accepted, and what read_binary makes of any
\* other file is what the writer was given, as far as its version can say it.
ReadsBack ==
    \/ stage \in {"validate", "accepted"}
    \/ stage = "refused" /\ whole /\ source.version <= FORMAT_VERSION
    => /\ whole /\ source.version <= FORMAT_VERSION
       /\ got = [i \in 1..Len(source.functions) |->
                    Expressed(source.functions[i], source.version)]

\* The interpreter of an accepted module never calls a static or original
\* function by a name that has no entry point in the AOT snapshot: the scan
\* of missing_aot_targets sees every instruction that can be reached. Nothing
\* is promised of a release without captured entry points, which has no gate.
AotCallsPresent ==
    phase = "run" /\ pos < Size /\ At(pos) \in {CallStatic, CallOriginal}
    => fn.consts[U16(pos + 1) + 1].val \in AotPresent

\* Reading and validating end with a verdict, whatever the bytes are.
Decides == <>(stage \in {"accepted", "refused"})
=============================================================================
