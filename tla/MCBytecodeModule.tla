-------------------------- MODULE MCBytecodeModule --------------------------
(* BytecodeModule for TLC: codes of up to three instructions in a module of *)
(* the current version, and modules of other shapes in every version.       *)
EXTENDS BytecodeModule

\* Strings: 1 is ";named:a", 2 a function in the AOT, 3 "f;named:a", absent
\* from the AOT.
MCNamed == (0 :> 0) @@ (1 :> 1) @@ (2 :> 0) @@ (3 :> 1)
MCConsts == << [tag |-> 1, val |-> 7], [tag |-> 4, val |-> 1],
               [tag |-> 4, val |-> 2], [tag |-> 4, val |-> 3] >>

Instructions ==
    { <<5>>, <<255>>, <<7>>, <<2, 0>>, <<2, 1>>, <<4, 2>>, <<1, 0, 3>>, <<1, 0, 4>>,
      <<48, 0, 0>>, <<48, 0, 1>>, <<49, 0, 4>>, <<50, 0, 3>>, <<67, 0, 2>>,
      <<67, 0, 0>>, <<80, 0, 2, 0>>, <<80, 0, 3, 0>>, <<82, 0, 2, 0>>,
      <<82, 0, 3, 0>>, <<82, 0, 3, 1>>, <<83, 0, 0, 0>>, <<83, 0, 2, 1>>,
      <<83, 0, 2, 0>>, <<83, 0, 3, 0>>, <<97, 0, 6, 0, 8>>, <<101, 0, 5, 0, 6>>,
      <<101, 0, 5, 0, 5>>, <<97, 0>> }
Codes == { <<>> } \cup Instructions
         \cup { a \o b : a, b \in Instructions }
         \cup { a \o b \o c : a, b, c \in Instructions }

F(code) == [Blank EXCEPT !.name = 1, !.params = 1, !.locals = 2,
                         !.consts = MCConsts, !.code = code]
Constants == <<[tag |-> 0, val |-> 0], [tag |-> 3, val |-> 1]>>
Plain == { F(<<5>>), [F(<<5>>) EXCEPT !.name = 2, !.async = 3, !.consts = Constants] }
Shapes == Plain \cup
          { [F(<<5, 255>>) EXCEPT !.async = 2, !.conv = 1],
            [F(<<5>>) EXCEPT !.smap = <<[key |-> 0, text |-> 1]>>,
                             !.debug = <<[key |-> 2, text |-> 1]>>],
            [F(<<5>>) EXCEPT !.smap = <<[key |-> 1, text |-> 1]>>],
            [F(<<5>>) EXCEPT !.debug = <<[key |-> 3, text |-> 1]>>],
            [F(<<5>>) EXCEPT !.params = 3] }
MCFragile == [version : 1..4,
              functions : { <<f>> : f \in Shapes }
                          \cup { <<f, g>> : f \in Plain, g \in Plain } \cup { <<>> }]
MCSources == MCFragile \cup [version : {3}, functions : { <<F(c)>> : c \in Codes }]
MCFunctions == UNION { ToSet(s.functions) : s \in MCSources }
=============================================================================
