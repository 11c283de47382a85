----------------------------- MODULE PatchState -----------------------------
(***************************************************************************)
(* The on-device patch state machine of crates/fcb_core/src/state.rs:       *)
(* state.json, the patches/<n> directories and events.log of one cache      *)
(* directory, the operations of `Updater` that change them, and the app     *)
(* process that calls them, crashes and is started again.                   *)
(*                                                                          *)
(* Every operation runs under the updater's runtime mutex, so operations    *)
(* never interleave; what can interleave with an operation is the death of  *)
(* the process, or an I/O error that aborts it.  An operation is therefore  *)
(* split only at its durable effects: everything it does before the final   *)
(* save_state happens in one action that leaves the new state in `op`, and  *)
(* Commit is the atomic rename of save_state.  While `op` is not idle only  *)
(* the rest of the same operation, Crash or Abort can happen.               *)
(***************************************************************************)
EXTENDS Integers, Sequences, FiniteSets

CONSTANTS
    Patches,          \* patch numbers the server may hand out
    MaxBootAttempts,  \* MAX_BOOT_ATTEMPTS (3 in the code)
    MaxInstalled,     \* installed patches kept by an install (2 in the code)
    MaxEvents         \* MAX_ROLLBACK_EVENTS (50 in the code)

ASSUME PatchesAssumption == Patches \subseteq Nat \ {0}
ASSUME BoundsAssumption ==
    /\ MaxBootAttempts \in Nat \ {0, 1}
    /\ MaxInstalled \in Nat \ {0, 1}
    /\ MaxEvents \in Nat \ {0}

VARIABLES
    disk,      \* state.json: missing, corrupt, or holding a State
    dirs,      \* patch numbers whose directory patches/<n> is on disk
    events,    \* events.log, oldest event first
    phase,     \* the app process: "down", "booting" or "running"
    launched,  \* the patch this process was last told to run
    op,        \* the operation in progress and the state it will save
    streak     \* history only: unconfirmed launches in a row of one patch

vars == <<disk, dirs, events, phase, launched, op, streak>>

-----------------------------------------------------------------------------
(* The data.  Option<u32> and the number 0 of "no current patch" are both   *)
(* None: patch numbers start at 1.                                          *)

None == 0
PatchOrNone == Patches \cup {None}
SchemaVersion == 2

LaunchStatus == {"none", "pending_success", "success", "failure"}
LastLaunch == [patch : PatchOrNone, status : LaunchStatus]
NoLaunch == [patch |-> None, status |-> "none"]

\* `installed` is a Vec sorted by patch number without duplicates and
\* `bad_patches` a Vec without duplicates: both are sets here.
State == [schema    : 1..SchemaVersion,
          current   : PatchOrNone,
          pending   : PatchOrNone,
          lkg       : PatchOrNone,
          boot      : 0..MaxBootAttempts,
          bad       : SUBSET PatchOrNone,
          last      : LastLaunch,
          installed : SUBSET Patches]

DefaultState == [schema |-> SchemaVersion, current |-> None, pending |-> None,
                 lkg |-> None, boot |-> 0, bad |-> {}, last |-> NoLaunch,
                 installed |-> {}]

Event == [type : {"state_reset", "crash_rollback"}, patch : PatchOrNone]

Idle == [pc |-> "idle", call |-> "none", patch |-> None, state |-> DefaultState]
Op == [pc : {"idle", "unpacked", "commit"},
       call : {"none", "launch", "install", "success", "failure"},
       patch : PatchOrNone,
       state : State]

-----------------------------------------------------------------------------
(* Loading and migrating state.json                                         *)

\* migrate_state: a version 1 file has no last known good patch; its current
\* patch becomes it.
MigrateState(st) ==
    IF st.schema < SchemaVersion
    THEN [st EXCEPT !.schema = SchemaVersion,
                    !.lkg = IF @ = None THEN st.current ELSE @]
    ELSE st

\* load_state: the state an operation starts from.
LoadState(d) == IF d.file = "ok" THEN MigrateState(d.state) ELSE DefaultState

\* append_rollback_event keeps the newest MaxEvents events.
AppendEvent(log, e) ==
    LET all == Append(log, e)
    IN  IF Len(all) > MaxEvents
        THEN SubSeq(all, Len(all) - MaxEvents + 1, Len(all))
        ELSE all

\* What load_state does to the disk: a corrupt file is moved out of the way
\* and the reset is logged.
DiskAfterLoad ==
    IF disk.file = "corrupt" THEN [disk EXCEPT !.file = "missing"] ELSE disk
EventsAfterLoad ==
    IF disk.file = "corrupt"
    THEN AppendEvent(events, [type |-> "state_reset", patch |-> None])
    ELSE events

-----------------------------------------------------------------------------
(* The state transformers                                                   *)

\* Fault: the last known good patch keeps its rank when it turns bad.
MarkPatchBadKeepsLkg(st, p) ==
    [st EXCEPT !.bad = @ \cup {p},
               !.current = IF @ = p THEN None ELSE @,
               !.pending = IF @ = p THEN None ELSE @,
               !.boot = 0]

\* Fault: the attempts of the blocked patch stay on the counter.
MarkPatchBadKeepsBoot(st, p) ==
    [st EXCEPT !.bad = @ \cup {p},
               !.current = IF @ # p THEN @
                           ELSE IF st.lkg # p THEN st.lkg ELSE None,
               !.pending = IF @ = p THEN None ELSE @,
               !.lkg = IF @ = p THEN None ELSE @]

\* mark_patch_bad
MarkPatchBad(st, p) ==
    [st EXCEPT !.bad = @ \cup {p},
               !.current = IF @ # p THEN @
                           ELSE IF st.lkg # p THEN st.lkg ELSE None,
               !.pending = IF @ = p THEN None ELSE @,
               !.lkg = IF @ = p THEN None ELSE @,
               !.boot = 0]

\* Fault: the block list is not consulted when a patch is selected.
LaunchableIgnoresBad(st, p) == p \in st.installed

\* select_launch_patch_number: a candidate must be installed and not bad.
Launchable(st, p) == p \notin st.bad /\ p \in st.installed

\* Fault: when the pending patch cannot be launched the baseline is.
SelectLaunchPatchOrBaseline(st) ==
    IF Launchable(st, st.pending) THEN st.pending ELSE None

\* Fault: the confirmed patch is preferred to one that was installed since.
SelectLaunchPatchConfirmedFirst(st) ==
    CASE Launchable(st, st.current) -> st.current
      [] ~Launchable(st, st.current) /\ Launchable(st, st.pending) -> st.pending
      [] OTHER -> None

\* select_launch_patch_number: pending, then current, then last known good,
\* then the baseline (None).
SelectLaunchPatch(st) ==
    CASE Launchable(st, st.pending) -> st.pending
      [] ~Launchable(st, st.pending) /\ Launchable(st, st.current) -> st.current
      [] ~Launchable(st, st.pending) /\ ~Launchable(st, st.current)
           /\ Launchable(st, st.lkg) -> st.lkg
      [] OTHER -> None

\* Fault: pruning stops one patch late.
PruneVictimsKeepsOneMore(st) ==
    LET removable == st.installed \ {st.current, st.pending, st.lkg}
    IN  {p \in removable :
            Cardinality({q \in removable : q < p})
                < Cardinality(st.installed) - MaxInstalled - 1}

\* The pruning loop of install: while more than MaxInstalled patches are
\* installed, the lowest one that is not current, pending or last known good
\* is removed; the loop stops early when there is none.
PruneVictims(st) ==
    LET removable == st.installed \ {st.current, st.pending, st.lkg}
    IN  {p \in removable :
            Cardinality({q \in removable : q < p})
                < Cardinality(st.installed) - MaxInstalled}

\* Fault: a new pending patch inherits the boot attempts of the old one.
WithInstalledKeepsBoot(st, p) ==
    [st EXCEPT !.schema = SchemaVersion, !.pending = p,
               !.installed = @ \cup {p}]

\* install_payload_with_baseline: the state before the pruning loop.
WithInstalled(st, p) ==
    [st EXCEPT !.schema = SchemaVersion, !.pending = p, !.boot = 0,
               !.installed = @ \cup {p}]

-----------------------------------------------------------------------------
(* The process                                                              *)

\* The app process starts; the engine calls fcb_get_launch_patch before it
\* creates the root isolate, so nothing else is called in "booting".
Start ==
    /\ phase = "down"
    /\ phase' = "booting"
    /\ UNCHANGED <<disk, dirs, events, launched, op, streak>>

\* The process dies at any point: what it had not written is lost.
Crash ==
    /\ phase # "down"
    /\ phase' = "down"
    /\ launched' = None
    /\ op' = Idle
    /\ UNCHANGED <<disk, dirs, events, streak>>

\* The process dies in load_state after the corrupt file was renamed and
\* before the reset was logged.
CrashInReset ==
    /\ phase # "down"
    /\ op = Idle
    /\ disk.file = "corrupt"
    /\ disk' = DiskAfterLoad
    /\ phase' = "down"
    /\ launched' = None
    /\ UNCHANGED <<dirs, events, op, streak>>

\* An I/O or patch-apply error: the operation returns Err and leaves behind
\* whatever it had written.
Abort ==
    /\ op.pc # "idle"
    /\ op' = Idle
    /\ phase' = "running"
    /\ UNCHANGED <<disk, dirs, events, launched, streak>>

\* state.json becomes unreadable between two operations (the code itself
\* never writes one that is).
CorruptFile ==
    /\ op = Idle
    /\ disk.file = "ok"
    /\ disk' = [file |-> "corrupt", state |-> DefaultState]
    /\ UNCHANGED <<dirs, events, phase, launched, op, streak>>

-----------------------------------------------------------------------------
(* The operations                                                           *)

\* The last launch was never confirmed, and it was one too many.
Unconfirmed(st) == st.last.status = "pending_success"
CrashLoop(st) == Unconfirmed(st) /\ st.boot + 1 >= MaxBootAttempts

\* Fault: any unconfirmed launch is blamed, whatever the boot attempts say.
LaunchStateBlamesFirst(st) ==
    IF Unconfirmed(st)
    THEN [MarkPatchBad(st, st.last.patch) EXCEPT !.last = NoLaunch]
    ELSE st

\* launch_patch up to the selection: an unconfirmed launch is forgotten, and
\* its patch is marked bad when it was the last attempt.
LaunchState(st) ==
    IF Unconfirmed(st)
    THEN [(IF CrashLoop(st) THEN MarkPatchBad(st, st.last.patch) ELSE st)
            EXCEPT !.last = NoLaunch]
    ELSE st

\* Fault: the rollback is not logged before the state is saved.
RollbackLogForgets(st) == EventsAfterLoad

\* launch_patch logs a crash rollback before it saves anything.
RollbackLog(st) ==
    IF CrashLoop(st)
    THEN AppendEvent(EventsAfterLoad,
                     [type |-> "crash_rollback", patch |-> st.last.patch])
    ELSE EventsAfterLoad

\* launch_patch.  Without a patch to launch and without a change there is
\* nothing to save.
LaunchPatch ==
    /\ phase # "down"
    /\ op = Idle
    /\ LET st  == LoadState(disk)
           st1 == LaunchState(st)
           sel == SelectLaunchPatch(st1)
       IN  /\ events' = RollbackLog(st)
           /\ disk' = DiskAfterLoad
           /\ IF sel = None /\ ~Unconfirmed(st)
              THEN phase' = "running" /\ launched' = None /\ UNCHANGED op
              ELSE /\ op' = [pc |-> "commit", call |-> "launch", patch |-> sel,
                             state |-> IF sel = None THEN st1
                                       ELSE [st1 EXCEPT
                                              !.boot = @ + 1,
                                              !.last = [patch |-> sel,
                                                        status |-> "pending_success"]]]
                   /\ UNCHANGED <<phase, launched>>
    /\ UNCHANGED <<dirs, streak>>

\* install_payload_with_baseline, the part before load_state: the manifest
\* and the payload were verified and are written to patches/<p>.
InstallUnpack(p) ==
    /\ phase = "running"
    /\ op = Idle
    /\ dirs' = dirs \cup {p}
    /\ op' = [Idle EXCEPT !.pc = "unpacked", !.call = "install", !.patch = p]
    /\ UNCHANGED <<disk, events, phase, launched, streak>>

\* The rest of install up to save_state: p becomes the pending patch and the
\* directories of the pruned patches are deleted, before the state that no
\* longer lists them is saved.
InstallStage ==
    /\ op.pc = "unpacked"
    /\ LET st == WithInstalled(LoadState(disk), op.patch)
           victims == PruneVictims(st)
       IN  /\ dirs' = dirs \ victims
           /\ op' = [op EXCEPT !.pc = "commit",
                               !.state = [st EXCEPT !.installed = @ \ victims]]
    /\ disk' = DiskAfterLoad
    /\ events' = EventsAfterLoad
    /\ UNCHANGED <<phase, launched, streak>>

\* mark_success refuses without a launch, for a bad patch and for a failure.
SuccessAccepted(st) ==
    /\ st.last.status # "none"
    /\ st.last.patch \notin st.bad
    /\ st.last.status # "failure"

\* mark_success
MarkSuccess ==
    /\ phase = "running"
    /\ op = Idle
    /\ LET st == LoadState(disk)
       IN  op' = IF SuccessAccepted(st)
                 THEN [pc |-> "commit", call |-> "success", patch |-> st.last.patch,
                       state |-> [st EXCEPT !.current = st.last.patch,
                                            !.lkg = st.last.patch,
                                            !.pending = None,
                                            !.boot = 0,
                                            !.last.status = "success"]]
                 ELSE Idle
    /\ disk' = DiskAfterLoad
    /\ events' = EventsAfterLoad
    /\ UNCHANGED <<dirs, phase, launched, streak>>

\* mark_failure, called by fcb_mark_launch_failure and by
\* fcb_report_interpret_failure with any non-negative number.
MarkFailure(p) ==
    /\ phase = "running"
    /\ op = Idle
    /\ op' = [pc |-> "commit", call |-> "failure", patch |-> p,
              state |-> [MarkPatchBad(LoadState(disk), p)
                           EXCEPT !.last = [patch |-> p, status |-> "failure"]]]
    /\ disk' = DiskAfterLoad
    /\ events' = EventsAfterLoad
    /\ UNCHANGED <<dirs, phase, launched, streak>>

\* ready_patch and the other readers only load the state.
ReadState ==
    /\ phase = "running"
    /\ op = Idle
    /\ disk' = DiskAfterLoad
    /\ events' = EventsAfterLoad
    /\ UNCHANGED <<dirs, phase, launched, op, streak>>

\* clear_rollback_events, after every event was posted or drained.
ClearRollbackEvents ==
    /\ phase = "running"
    /\ op = Idle
    /\ events # <<>>
    /\ events' = <<>>
    /\ UNCHANGED <<disk, dirs, phase, launched, op, streak>>

\* History: the run of launches of one patch with no confirmation between.
NextStreak ==
    CASE op.call = "launch" /\ op.patch # None ->
            [patch |-> op.patch,
             n |-> IF streak.patch = op.patch
                   THEN IF streak.n < MaxBootAttempts THEN streak.n + 1 ELSE streak.n
                   ELSE 1]
      [] op.call = "success" -> [patch |-> None, n |-> 0]
      [] OTHER -> streak

\* save_state: the temporary file is renamed over state.json, and the
\* operation returns to its caller.
Commit ==
    /\ op.pc = "commit"
    /\ disk' = [file |-> "ok", state |-> op.state]
    /\ op' = Idle
    /\ phase' = "running"
    /\ launched' = IF op.call = "launch" THEN op.patch ELSE launched
    /\ streak' = NextStreak
    /\ UNCHANGED <<dirs, events>>

-----------------------------------------------------------------------------

\* The state.json of an app that ran the version 1 updater: no last known good
\* patch and no count of attempts, the current patch with or without its entry
\* in the list, perhaps a patch that waits for its first or its next launch,
\* and a last launch of either that was confirmed, was not, or is not recorded.
LegacyStates ==
    {st \in [schema : {1}, current : PatchOrNone, pending : PatchOrNone, lkg : {None},
             boot : {0}, bad : {{}}, last : LastLaunch, installed : SUBSET Patches] :
        /\ st.installed \subseteq {st.current, st.pending}
        /\ st.pending # None => st.pending \in st.installed
        /\ \/ st.last = NoLaunch
           \/ /\ st.last.status = "pending_success"
              /\ st.last.patch \in {st.current, st.pending} \ {None}
           \/ /\ st.last.status = "success"
              /\ st.last.patch = st.current /\ st.current # None}

Init ==
    /\ \/ disk = [file |-> "missing", state |-> DefaultState]
       \/ \E st \in LegacyStates : disk = [file |-> "ok", state |-> st]
    /\ dirs = IF disk.file = "ok" THEN disk.state.installed ELSE {}
    /\ events = <<>>
    /\ phase = "down"
    /\ launched = None
    /\ op = Idle
    /\ streak = [patch |-> None, n |-> 0]

Next ==
    \/ Start
    \/ Crash
    \/ CrashInReset
    \/ Abort
    \/ CorruptFile
    \/ LaunchPatch
    \/ \E p \in Patches : InstallUnpack(p)
    \/ InstallStage
    \/ MarkSuccess
    \/ \E p \in PatchOrNone : MarkFailure(p)
    \/ ReadState
    \/ ClearRollbackEvents
    \/ Commit

Spec == Init /\ [][Next]_vars

-----------------------------------------------------------------------------
(* What the state machine promises                                          *)

\* Type invariant.
TypeOK ==
    /\ disk \in [file : {"missing", "corrupt", "ok"}, state : State]
    /\ dirs \in SUBSET Patches
    /\ events \in Seq(Event)
    /\ phase \in {"down", "booting", "running"}
    /\ launched \in PatchOrNone
    /\ op \in Op
    /\ streak \in [patch : PatchOrNone, n : 0..MaxBootAttempts]

\* The state the next operation will start from, and the one an operation in
\* progress is about to save.
Durable == {LoadState(disk)} \cup (IF op.pc = "commit" THEN {op.state} ELSE {})

\* Whatever sequence of installs, launches, confirmations, failure reports,
\* crashes and resets led here, the current patch is exactly the last known
\* good patch, and it is not on the block list: a patch that was blocked is
\* never the one mark_success promoted, in either field.
ConfirmedIsSound ==
    \A st \in Durable :
        /\ st.current = st.lkg
        /\ st.current # None => st.current \notin st.bad

\* boot_attempts is a counter of one launch target: when it is not zero, the
\* last launch is unconfirmed and launch_patch will select the same patch
\* again, so an attempt of one patch is never charged to another; and it
\* stays below the threshold at which a launch would roll back.
BootAttemptsBelongToSelection ==
    \A st \in Durable :
        st.boot > 0 =>
            /\ st.boot < MaxBootAttempts
            /\ st.last.status = "pending_success"
            /\ st.last.patch = SelectLaunchPatch(st)

\* An install never leaves more than MaxInstalled patches in state.json: the
\* early exit of the pruning loop is never taken.
InstalledBounded == \A st \in Durable : Cardinality(st.installed) <= MaxInstalled

\* A crash rollback is only ever logged for a patch that was launched
\* MaxBootAttempts - 1 times in a row without a confirmation, crashes in the
\* middle of launch_patch included.  This is PLAN.md:475; PLAN.md:474 asks for
\* the block after one unconfirmed launch, which the code does not do.
BlamedWasRepeatedlyUnconfirmed ==
    [][\A p \in Patches :
        (op.pc = "idle" /\ op'.pc = "commit" /\ op'.call = "launch"
            /\ p \in op'.state.bad \ LoadState(disk).bad)
          => streak.patch = p /\ streak.n >= MaxBootAttempts - 1]_vars

\* A patch that launch_patch put on the block list has its crash_rollback
\* event in events.log by the time the list is saved: a crash between the
\* two writes can repeat the event but never lose it.
RollbackIsLoggedFirst ==
    [][\A p \in Patches :
        (op.call = "launch" /\ op'.pc = "idle" /\ disk' # disk
            /\ p \in disk'.state.bad \ LoadState(disk).bad)
          => \E i \in DOMAIN events :
                events[i] = [type |-> "crash_rollback", patch |-> p]]_vars

-----------------------------------------------------------------------------
(* The promise that this implements, read off the state that the next       *)
(* operation will load.                                                     *)

Promise == INSTANCE LaunchPromise WITH
    Limit <- MaxBootAttempts,
    confirmed <- LoadState(disk).current,
    candidate <- LoadState(disk).pending,
    blocked <- LoadState(disk).bad,
    trial <- IF Unconfirmed(LoadState(disk)) THEN LoadState(disk).last.patch ELSE None,
    tries <- LoadState(disk).boot,
    running <- launched

\* Through deaths between the writes of an operation, aborted operations, files
\* of an old version and files that were lost, the device keeps the promise
\* of LaunchPromise: each operation of Updater takes effect as a whole or not
\* at all, a new patch is tried before the confirmed one, only a patch on
\* trial is confirmed, and a rollback is due exactly when the launches of one
\* patch are used up: MAX_BOOT_ATTEMPTS of them as in the code and PLAN.md:475,
\* not one as in PLAN.md:474.
KeepsLaunchPromise == Promise!Spec
=============================================================================
