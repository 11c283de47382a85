-------------------------- MODULE PatchStateClaims --------------------------
(***************************************************************************)
(* A sentence of PLAN.md about the on-device state machine that the code of *)
(* crates/fcb_core/src/state.rs does not keep; the run that checks it ends  *)
(* in the counterexample that the finding describes.                        *)
(***************************************************************************)
EXTENDS PatchState

-----------------------------------------------------------------------------
(* An environment that makes the counterexample speak for itself            *)

\* A device without a cache directory, on which nothing goes wrong except that
\* the app may die between two operations: no I/O error, no corrupt file, one
\* launch per process, failures are reported for the running patch only, and
\* the server offers only patches newer than the current one.
OrderlyNext ==
    \/ Start
    \/ op = Idle /\ Crash
    \/ phase = "booting" /\ LaunchPatch
    \/ \E p \in Patches : p > LoadState(disk).current /\ InstallUnpack(p)
    \/ InstallStage
    \/ MarkSuccess
    \/ launched # None /\ MarkFailure(launched)
    \/ Commit
OrderlySpec == Init /\ disk.file = "missing" /\ [][OrderlyNext]_vars

-----------------------------------------------------------------------------

\* PLAN.md:477: the directory of the last known good patch must not be
\* cleaned up.
LastKnownGoodHasFiles ==
    LoadState(disk).lkg # None => LoadState(disk).lkg \in dirs
=============================================================================
