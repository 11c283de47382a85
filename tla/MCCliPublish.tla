---------------------------- MODULE MCCliPublish ----------------------------
(* CliPublish for TLC: three states of a project with two functions.         *)
EXTENDS CliPublish, TLC

Fn(body) == [sig |-> 1, body |-> body, source |-> TRUE, unsupported |-> FALSE]
Program(fns) == [fns |-> fns, classes |-> [c \in {"C"} |-> 1], fields |-> [v \in {} |-> 1]]

\* b is a with another body of f, which calls g; c has a new function, new
\* assets and native libraries, and other revisions.  Only b's snapshot has
\* lost g.
MCInventory ==
    ("a" :> Program(("f" :> Fn(1)) @@ ("g" :> Fn(1)))) @@
    ("b" :> Program(("f" :> Fn(2)) @@ ("g" :> Fn(1)))) @@
    ("c" :> Program(("f" :> Fn(2)) @@ ("g" :> Fn(1)) @@ ("h" :> Fn(1))))
MCPin == ("a" :> "p") @@ ("b" :> "p") @@ ("c" :> "q")
MCPlugins == [s \in {"a", "b", "c"} |-> "plugins"]
MCManifest == ("a" :> "x") @@ ("b" :> "x") @@ ("c" :> "y")
MCNative == ("a" :> "m") @@ ("b" :> "m") @@ ("c" :> "n")
MCEntry == ("a" :> {"f", "g"}) @@ ("b" :> {"f"}) @@ ("c" :> {"f", "g", "h"})
MCCalls == [s \in {"a", "b", "c"} |->
              [f \in DOMAIN MCInventory[s].fns |-> IF f = "f" /\ s # "a" THEN {"g"} ELSE {}]]
Symmetry == Permutations(KeyFiles) \cup Permutations(Ids)
=============================================================================
