--------------------------- MODULE LaunchPromise ----------------------------
(***************************************************************************)
(* What the updater promises about the patch a device runs, without files,  *)
(* operations in progress or crashes inside of them: a new patch is given   *)
(* a chance before the confirmed one, it is confirmed only by the launch    *)
(* that tried it, it is blocked when Limit launches in a row would be       *)
(* without a confirmation, and then the device falls back to the confirmed  *)
(* patch or the baseline.  PatchState implements this.                      *)
(***************************************************************************)
EXTENDS Naturals

CONSTANTS Patches,     \* patch numbers, all above 0
          Limit        \* MAX_BOOT_ATTEMPTS

VARIABLES confirmed,   \* the patch to fall back to
          candidate,   \* the installed patch that waits for its confirmation
          blocked,     \* the patches that are not launched any more
          trial,       \* the patch of the last launch, if nobody confirmed it
          tries,       \* launches of it in a row
          running      \* what the process was told to run

promiseVars == <<confirmed, candidate, blocked, trial, tries, running>>

None == 0            \* no patch, or the baseline

Init ==
    /\ confirmed \in Patches \cup {None}
    /\ candidate \in Patches \cup {None}
    /\ trial \in {confirmed, candidate, None}
    /\ blocked = {} /\ tries = 0 /\ running = None

\* The candidate, unless it is blocked; then the confirmed patch, or the
\* baseline when its files are gone.
Choices(cand, conf, block) ==
    IF cand \notin block \cup {None} THEN {cand} ELSE {conf, None}

\* A patch that is blocked is neither confirmed nor a candidate.
Block(p) ==
    /\ blocked' = blocked \cup {p}
    /\ confirmed' = IF confirmed = p THEN None ELSE confirmed
    /\ candidate' = IF candidate = p THEN None ELSE candidate

\* Launches of one patch are counted; the baseline needs no confirmation.
Try(p, n) ==
    /\ running' = p
    /\ trial' = p
    /\ tries' = IF p = None THEN 0 ELSE n

Launch ==
    /\ trial = None \/ tries + 1 < Limit
    /\ \E p \in Choices(candidate, confirmed, blocked) :
          Try(p, IF p = trial THEN tries + 1 ELSE 1)
    /\ UNCHANGED <<confirmed, candidate, blocked>>

\* The last launch was one too many: its patch is blocked and another, or
\* the baseline, is launched.
RollBack ==
    /\ trial # None /\ tries + 1 >= Limit
    /\ Block(trial)
    /\ \E p \in Choices(candidate', confirmed', blocked') : Try(p, 1)

Install ==
    /\ candidate' \in Patches
    /\ tries' = 0
    /\ UNCHANGED <<confirmed, blocked, trial, running>>

\* Only the patch on trial is confirmed.  A candidate that was installed in
\* the meantime is forgotten, the server offers it again.
Confirm ==
    /\ trial \notin blocked \cup {None}
    /\ confirmed' = trial
    /\ candidate' = None /\ trial' = None /\ tries' = 0
    /\ UNCHANGED <<blocked, running>>

\* A second confirmation of the same launch.
ConfirmAgain ==
    /\ trial = None /\ confirmed # None
    /\ candidate' = None
    /\ UNCHANGED <<confirmed, blocked, trial, tries, running>>

\* The app or the engine reports that a patch does not work.
Fail ==
    /\ \E p \in Patches \cup {None} : Block(p)
    /\ trial' = None /\ tries' = 0
    /\ UNCHANGED running

\* What was stored becomes unreadable and is given up.
Reset ==
    /\ confirmed' = None /\ candidate' = None /\ blocked' = {}
    /\ trial' = None /\ tries' = 0
    /\ UNCHANGED running

Exit ==
    /\ running' = None
    /\ UNCHANGED <<confirmed, candidate, blocked, trial, tries>>

Next ==
    \/ Launch \/ RollBack \/ Install \/ Confirm \/ ConfirmAgain \/ Fail
    \/ Reset \/ Exit

Spec == Init /\ [][Next]_promiseVars
=============================================================================
