---------------------------- MODULE MCPatchState ----------------------------
(* Instance of PatchState for TLC.  Three patches are the fewest with which  *)
(* an install has to prune; MaxEvents = 1 makes the log overflow at once.    *)
EXTENDS PatchState
=============================================================================
