---------------------------- MODULE BytecodeLink ----------------------------
(***************************************************************************)
(* plan_bytecode_link of crates/fcb_core/src/linker.rs and the comparison   *)
(* of build_info.rs: which changes of a program a bytecode patch can carry. *)
(*                                                                          *)
(* An inventory has three functions: fns from function ids to records with  *)
(* the hashes of signature and body, whether the body has unsupported nodes *)
(* and whether it has bytecode source; classes and fields from ids to the   *)
(* hash of the shape or the signature.  That ids are unique, which validate *)
(* and function_map demand, is thereby given.                               *)
(***************************************************************************)

\* What both sides have and disagree on; what only one side has is ignored.
Changed(release, patch) ==
    { k \in DOMAIN release \cap DOMAIN patch : release[k] # patch[k] }

\* The four ways a function of the patch can fall out of the plan.
MissingBaselineFunction(release, patch) == DOMAIN patch.fns \ DOMAIN release.fns
SignatureChanged(release, patch) ==
    { f \in DOMAIN patch.fns \cap DOMAIN release.fns :
        release.fns[f].sig # patch.fns[f].sig }
BodyChanged(release, patch) ==
    { f \in DOMAIN patch.fns \cap DOMAIN release.fns :
        /\ release.fns[f].sig = patch.fns[f].sig
        /\ release.fns[f].body # patch.fns[f].body }
NotLinkable(release, patch) ==
    { f \in BodyChanged(release, patch) :
        patch.fns[f].unsupported \/ ~patch.fns[f].source }

\* has_rejects.
HasRejects(release, patch) ==
    \/ Changed(release.classes, patch.classes) # {}
    \/ Changed(release.fields, patch.fields) # {}
    \/ MissingBaselineFunction(release, patch) # {}
    \/ SignatureChanged(release, patch) # {}
    \/ NotLinkable(release, patch) # {}

\* plan.interpret.
Interpret(release, patch) ==
    BodyChanged(release, patch) \ NotLinkable(release, patch)

\* What the kernel compiler makes of the plan: the new bodies.
Compiled(release, patch) ==
    [f \in Interpret(release, patch) |-> patch.fns[f].body]

\* What the engine executes for each function of the release once the module
\* is loaded.
Patched(release, module) ==
    [f \in DOMAIN release.fns |->
        IF f \in DOMAIN module THEN module[f] ELSE release.fns[f].body]

\* The release with the module behaves as the patched program was written:
\* each function of that program exists, is called as it is declared and runs
\* the body it was given, and no class or field that both know has changed.
Reproduces(release, module, patch) ==
    /\ \A f \in DOMAIN patch.fns :
          /\ f \in DOMAIN release.fns
          /\ release.fns[f].sig = patch.fns[f].sig
          /\ Patched(release, module)[f] = patch.fns[f].body
    /\ Changed(release.classes, patch.classes) = {}
    /\ Changed(release.fields, patch.fields) = {}

\* compare_for_patch without hard failures.  pin stands for the options and the
\* revisions of the SDK and for pubspec.lock, plugins for the list of plugins,
\* hashed for what is hashed from the output of the build.  Different
\* dart_defines are warnings.
IsOk(release, patch) ==
    /\ release.pin = patch.pin /\ release.plugins = patch.plugins
    /\ release.hashed = patch.hashed
=============================================================================
