------------------------------ MODULE CrashLoop ------------------------------
(***************************************************************************)
(* Crash-loop protection: PatchState with patches that can never reach the  *)
(* first frame.  A process that runs a broken patch dies before it installs *)
(* or confirms anything; every other process behaves as it likes.           *)
(***************************************************************************)
EXTENDS PatchState

CONSTANT Broken   \* the patches whose process always dies early
ASSUME BrokenAssumption == Broken \subseteq Patches

\* Only a process that does not run a broken patch gets to call the updater
\* after the launch.
Alive == launched \notin Broken

BootLaunch == phase = "booting" /\ LaunchPatch
ProcessEnds == phase = "running" /\ op = Idle /\ Crash

LoopNext ==
    \/ Start
    \/ LaunchPatch
    \/ Crash
    \/ \E p \in Patches : Alive /\ InstallUnpack(p)
    \/ InstallStage
    \/ Alive /\ MarkSuccess
    \/ Alive /\ launched # None /\ MarkFailure(launched)
    \/ Commit

\* The user opens the app again and every process ends some day, an install
\* that has begun goes on, and the process does not die every single time
\* before launch_patch has saved its choice.
LoopFairness ==
    /\ WF_vars(Start)
    /\ WF_vars(InstallStage)
    /\ SF_vars(ProcessEnds)
    /\ SF_vars(BootLaunch)
    /\ SF_vars(Commit)

LoopSpec == Init /\ [][LoopNext]_vars /\ LoopFairness

\* However often a broken patch is offered and installed again, there is a
\* point after which launch_patch never returns it.
CrashLoopEnds == \A p \in Broken : <>[](launched # p)

\* While a broken patch is pending over a good current patch, the crash loop
\* comes to an end on the good patch, not on the baseline.
GoodPatchComesBack ==
    \A g \in Patches \ Broken :
        (LoadState(disk).current = g /\ g \in LoadState(disk).installed)
            ~> (launched = g \/ LoadState(disk).current # g)
=============================================================================
