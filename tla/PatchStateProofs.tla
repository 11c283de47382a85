-------------------------- MODULE PatchStateProofs --------------------------
(***************************************************************************)
(* Proofs about PatchState for every set of patch numbers and every value   *)
(* of the bounds.                                                           *)
(***************************************************************************)
EXTENDS PatchState, SequenceTheorems, FiniteSetTheorems, WellFoundedInduction,
        TLAPS

-----------------------------------------------------------------------------
(* The inductive invariant.  The operations only ever look at               *)
(* LoadState(disk), so everything is said of that state and of the state an *)
(* operation is about to save.                                              *)

\* A state between two operations: typed, migrated, current and last known
\* good agree and are not blocked, and the boot counter belongs to a real
\* patch that would be selected again.
Good(st) ==
    /\ st \in State
    /\ st.schema = SchemaVersion
    /\ st.current = st.lkg
    /\ st.current # None => st.current \notin st.bad
    /\ st.boot > 0 => /\ st.boot < MaxBootAttempts
                      /\ st.last.status = "pending_success"
                      /\ st.last.patch # None
                      /\ st.last.patch = SelectLaunchPatch(st)

GoodInv ==
    /\ TypeOK
    /\ Good(LoadState(disk))
    /\ op.pc = "commit" => Good(op.state)
    /\ op.pc = "unpacked" => op.patch \in Patches /\ op.call = "install"

-----------------------------------------------------------------------------
(* Lemmas about the operators                                               *)

\* Counters that are cleared stay in range.
LEMMA ZeroBoot == 0 \in 0..MaxBootAttempts /\ 1 \in 0..MaxBootAttempts
  BY BoundsAssumption

\* The empty state is a good state.
LEMMA DefaultGood == Good(DefaultState)
  BY BoundsAssumption
     DEF Good, DefaultState, State, SchemaVersion, PatchOrNone, None,
         LastLaunch, NoLaunch, LaunchStatus

\* Migration gives a version 1 file its last known good patch and leaves the
\* rest of it alone.
LEMMA LegacyFields ==
  ASSUME NEW d \in LegacyStates
  PROVE  LET m == MigrateState(d)
         IN  /\ d \in State /\ m \in State
             /\ m.schema = SchemaVersion /\ m.lkg = m.current
             /\ m.current = d.current /\ m.pending = d.pending
             /\ m.boot = 0 /\ m.bad = {} /\ m.last = d.last /\ m.installed = d.installed
  <1>1. d \in State
    BY BoundsAssumption DEF LegacyStates, State, SchemaVersion, PatchOrNone
  <1>2. d.schema = 1 /\ d.lkg = None /\ d.boot = 0 /\ d.bad = {}
    BY DEF LegacyStates
  <1>3. MigrateState(d) = [d EXCEPT !.schema = 2, !.lkg = d.current]
    BY <1>1, <1>2 DEF MigrateState, SchemaVersion, State
  <1>4. MigrateState(d) \in State
    <2>1. 2 \in 1..SchemaVersion /\ d.current \in PatchOrNone
      BY <1>1 DEF SchemaVersion, State
    <2>2. QED
      BY <1>1, <1>3, <2>1 DEF State
  <1>5. QED
    BY <1>1, <1>2, <1>3, <1>4 DEF State, SchemaVersion

\* Migration turns a version 1 file of Init into a good state.
LEMMA LegacyGood ==
  ASSUME NEW d \in LegacyStates
  PROVE  d \in State /\ Good(MigrateState(d))
  BY LegacyFields DEF Good

\* select_launch_patch_number returns a patch number or nothing.
LEMMA SelectType ==
  ASSUME NEW st \in State
  PROVE  SelectLaunchPatch(st) \in PatchOrNone
  BY DEF SelectLaunchPatch, State, PatchOrNone, None

\* What is selected is installed and not blocked.
LEMMA SelectLaunchable ==
  ASSUME NEW st \in State, SelectLaunchPatch(st) # None
  PROVE  Launchable(st, SelectLaunchPatch(st))
  BY DEF SelectLaunchPatch

\* mark_patch_bad keeps a state good, whatever number it is given.
LEMMA MarkBadGood ==
  ASSUME NEW st, Good(st), NEW p \in PatchOrNone
  PROVE  /\ Good(MarkPatchBad(st, p))
         /\ MarkPatchBad(st, p).boot = 0
         /\ MarkPatchBad(st, p).bad = st.bad \cup {p}
         /\ MarkPatchBad(st, p).last = st.last
         /\ MarkPatchBad(st, p).installed = st.installed
  <1> DEFINE m == MarkPatchBad(st, p)
  <1>1. st \in State
    BY DEF Good
  <1>2. /\ m.schema = st.schema
        /\ m.current = IF st.current # p THEN st.current
                       ELSE IF st.lkg # p THEN st.lkg ELSE None
        /\ m.lkg = IF st.lkg = p THEN None ELSE st.lkg
        /\ m.boot = 0
        /\ m.bad = st.bad \cup {p}
        /\ m.last = st.last
        /\ m.installed = st.installed
    BY <1>1 DEF MarkPatchBad, State
  <1>3. m \in State
    <2>1. /\ st.bad \cup {p} \in SUBSET PatchOrNone
          /\ None \in PatchOrNone
          /\ st.current \in PatchOrNone /\ st.pending \in PatchOrNone
          /\ st.lkg \in PatchOrNone
      BY <1>1 DEF State, PatchOrNone
    <2>2. QED
      BY <1>1, <2>1, ZeroBoot DEF MarkPatchBad, State
  <1>4. m.current = m.lkg /\ (m.current # None => m.current \notin m.bad)
    BY <1>2 DEF Good
  <1>5. QED
    BY <1>2, <1>3, <1>4 DEF Good

\* The selection depends on five fields only.
LEMMA SelectAgrees ==
  ASSUME NEW st \in State, NEW st2 \in State,
         st2.pending = st.pending, st2.current = st.current, st2.lkg = st.lkg,
         st2.bad = st.bad, st2.installed = st.installed
  PROVE  SelectLaunchPatch(st2) = SelectLaunchPatch(st)
  BY DEF SelectLaunchPatch, Launchable

\* The first half of launch_patch: if boot attempts are left on the counter,
\* the patch they belong to is the one that is selected again.
LEMMA LaunchStateSound ==
  ASSUME NEW st, Good(st)
  PROVE  LET st1 == LaunchState(st) IN
         /\ st1 \in State
         /\ st1.schema = SchemaVersion
         /\ st1.current = st1.lkg
         /\ st1.current # None => st1.current \notin st1.bad
         /\ st1.boot > 0 => /\ st1.boot = st.boot
                            /\ st1.boot + 1 < MaxBootAttempts
                            /\ st.last.patch # None
                            /\ SelectLaunchPatch(st1) = st.last.patch
  <1> DEFINE st1 == LaunchState(st)
  <1>1. st \in State /\ NoLaunch \in LastLaunch /\ st.last.patch \in PatchOrNone
    BY DEF Good, State, NoLaunch, LastLaunch, LaunchStatus, PatchOrNone
  <1>2. CASE CrashLoop(st)
    <2> DEFINE m == MarkPatchBad(st, st.last.patch)
    <2>1. Good(m) /\ m.boot = 0
      BY <1>1, MarkBadGood
    <2>2. st1 = [m EXCEPT !.last = NoLaunch]
      BY <1>2 DEF LaunchState, CrashLoop
    <2> HIDE DEF m, st1
    <2>3. st1 \in State
      BY <1>1, <2>1, <2>2 DEF Good, State
    <2>4. /\ st1.schema = m.schema /\ st1.current = m.current /\ st1.lkg = m.lkg
          /\ st1.bad = m.bad /\ st1.boot = 0
      BY <2>1, <2>2 DEF Good, State
    <2>5. QED
      BY <2>1, <2>3, <2>4 DEF Good, st1
  <1>3. CASE Unconfirmed(st) /\ ~CrashLoop(st)
    <2>1. st1 = [st EXCEPT !.last = NoLaunch]
      BY <1>3 DEF LaunchState
    <2> HIDE DEF st1
    <2>2. st1 \in State
      BY <1>1, <2>1 DEF State
    <2>3. /\ st1.schema = st.schema /\ st1.current = st.current /\ st1.lkg = st.lkg
          /\ st1.bad = st.bad /\ st1.boot = st.boot /\ st1.pending = st.pending
          /\ st1.installed = st.installed
      BY <1>1, <2>1 DEF State
    <2>4. SelectLaunchPatch(st1) = SelectLaunchPatch(st)
      BY <1>1, <2>2, <2>3, SelectAgrees
    <2>5. st.boot + 1 < MaxBootAttempts
      BY <1>1, <1>3, BoundsAssumption DEF CrashLoop, State
    <2>6. QED
      BY <2>2, <2>3, <2>4, <2>5 DEF Good, st1
  <1>4. CASE ~Unconfirmed(st)
    <2>1. st1 = st
      BY <1>4 DEF LaunchState
    <2>2. ~(st.boot > 0)
      BY <1>4 DEF Good, Unconfirmed
    <2>3. QED
      BY <2>1, <2>2 DEF Good
  <1>5. QED
    BY <1>2, <1>3, <1>4

\* What launch_patch saves when it selects nothing.
LEMMA LaunchNothingGood ==
  ASSUME NEW st, Good(st), SelectLaunchPatch(LaunchState(st)) = None
  PROVE  Good(LaunchState(st)) /\ LaunchState(st).boot = 0
  <1> DEFINE st1 == LaunchState(st)
  <1>1. ~(st1.boot > 0)
    BY LaunchStateSound
  <1>2. st1.boot = 0
    BY <1>1, LaunchStateSound, BoundsAssumption DEF State
  <1>3. QED
    BY <1>2, LaunchStateSound DEF Good

\* What launch_patch saves when it selects a patch.
LEMMA LaunchSelectedGood ==
  ASSUME NEW st, Good(st), NEW sel,
         sel = SelectLaunchPatch(LaunchState(st)), sel # None
  PROVE  Good([LaunchState(st) EXCEPT
                 !.boot = @ + 1,
                 !.last = [patch |-> sel, status |-> "pending_success"]])
  <1> DEFINE st1 == LaunchState(st)
             new == [st1 EXCEPT !.boot = st1.boot + 1,
                                !.last = [patch |-> sel, status |-> "pending_success"]]
  <1>1. st1 \in State
    BY LaunchStateSound
  <1>2. sel \in PatchOrNone
    BY <1>1, SelectType
  <1>3. [patch |-> sel, status |-> "pending_success"] \in LastLaunch
    BY <1>2 DEF LastLaunch, LaunchStatus
  <1>4. st1.boot \in Nat /\ st1.boot + 1 < MaxBootAttempts
    <2>1. CASE st1.boot > 0
      BY <1>1, <2>1, LaunchStateSound, BoundsAssumption DEF State
    <2>2. CASE ~(st1.boot > 0)
      BY <1>1, <2>2, BoundsAssumption DEF State
    <2>3. QED
      BY <2>1, <2>2
  <1>5. st1.boot + 1 \in 0..MaxBootAttempts
    BY <1>4, BoundsAssumption
  <1>6. st1.schema = SchemaVersion /\ st1.current = st1.lkg
          /\ (st1.current # None => st1.current \notin st1.bad)
    BY LaunchStateSound
  <1> HIDE DEF st1
  <1>7. new \in State
    BY <1>1, <1>3, <1>5 DEF State
  <1>8. /\ new.schema = st1.schema /\ new.current = st1.current /\ new.lkg = st1.lkg
        /\ new.bad = st1.bad /\ new.pending = st1.pending
        /\ new.installed = st1.installed /\ new.boot = st1.boot + 1
        /\ new.last = [patch |-> sel, status |-> "pending_success"]
    BY <1>1 DEF State
  <1>9. SelectLaunchPatch(new) = sel
    BY <1>1, <1>7, <1>8, SelectAgrees DEF st1
  <1> HIDE DEF new
  <1>10. Good(new)
    BY <1>4, <1>6, <1>7, <1>8, <1>9 DEF Good
  <1>11. QED
    BY <1>10 DEF new, st1

\* What install saves: the new patch is pending, the counter is cleared, and
\* what was confirmed stays confirmed.
LEMMA InstallGood ==
  ASSUME NEW st, Good(st), NEW p \in Patches, NEW victims
  PROVE  Good([WithInstalled(st, p) EXCEPT !.installed = @ \ victims])
  <1> DEFINE new == [WithInstalled(st, p) EXCEPT !.installed = @ \ victims]
  <1>1. st \in State
    BY DEF Good
  <1>2. WithInstalled(st, p) = [st EXCEPT !.schema = 2, !.pending = p, !.boot = 0,
                                          !.installed = st.installed \cup {p}]
    BY DEF WithInstalled, SchemaVersion
  <1>3. WithInstalled(st, p) \in State
    <2>1. 2 \in 1..SchemaVersion /\ p \in PatchOrNone
            /\ st.installed \cup {p} \in SUBSET Patches
      BY <1>1 DEF SchemaVersion, PatchOrNone, State
    <2>2. QED
      BY <1>1, <1>2, <2>1, ZeroBoot DEF State
  <1>4. WithInstalled(st, p).installed \ victims \in SUBSET Patches
    BY <1>3 DEF State
  <1>5. new \in State
    BY <1>3, <1>4 DEF State
  <1>6. /\ new.schema = SchemaVersion /\ new.boot = 0 /\ new.current = st.current
        /\ new.lkg = st.lkg /\ new.bad = st.bad
    BY <1>1, <1>2, <1>3 DEF State, SchemaVersion
  <1>7. QED
    BY <1>5, <1>6 DEF Good

\* What mark_success saves.
LEMMA SuccessGood ==
  ASSUME NEW st, Good(st), SuccessAccepted(st)
  PROVE  Good([st EXCEPT !.current = st.last.patch, !.lkg = st.last.patch,
                         !.pending = None, !.boot = 0,
                         !.last.status = "success"])
  <1> DEFINE l == [st.last EXCEPT !.status = "success"]
             new == [st EXCEPT !.current = st.last.patch, !.lkg = st.last.patch,
                               !.pending = None, !.boot = 0, !.last = l]
  <1>1. st \in State /\ st.last.patch \in PatchOrNone /\ None \in PatchOrNone
    BY DEF Good, State, LastLaunch, PatchOrNone
  <1>2. l \in LastLaunch
    BY <1>1 DEF State, LastLaunch, LaunchStatus
  <1> HIDE DEF l
  <1>3. new \in State
    BY <1>1, <1>2, ZeroBoot DEF State
  <1>4. /\ new.schema = st.schema /\ new.current = st.last.patch
        /\ new.lkg = st.last.patch /\ new.boot = 0 /\ new.bad = st.bad
    BY <1>1 DEF State
  <1>5. Good(new)
    BY <1>3, <1>4 DEF Good, SuccessAccepted
  <1>6. QED
    BY <1>5 DEF l

\* What mark_failure saves.
LEMMA FailureGood ==
  ASSUME NEW st, Good(st), NEW p \in PatchOrNone
  PROVE  Good([MarkPatchBad(st, p) EXCEPT !.last = [patch |-> p, status |-> "failure"]])
  <1> DEFINE m == MarkPatchBad(st, p)
             l == [patch |-> p, status |-> "failure"]
             new == [m EXCEPT !.last = l]
  <1>1. Good(m) /\ m.boot = 0
    BY MarkBadGood
  <1>2. l \in LastLaunch
    BY DEF LastLaunch, LaunchStatus
  <1> HIDE DEF m, l
  <1>3. new \in State
    BY <1>1, <1>2 DEF Good, State
  <1>4. /\ new.schema = m.schema /\ new.current = m.current /\ new.lkg = m.lkg
        /\ new.boot = 0 /\ new.bad = m.bad
    BY <1>1 DEF Good, State
  <1>5. Good(new)
    BY <1>1, <1>3, <1>4 DEF Good
  <1>6. QED
    BY <1>5 DEF m, l

\* Appending to the log keeps it a sequence of events.
LEMMA AppendEventType ==
  ASSUME NEW log \in Seq(Event), NEW e \in Event
  PROVE  AppendEvent(log, e) \in Seq(Event)
  <1> DEFINE all == Append(log, e)
  <1>1. all \in Seq(Event) /\ Len(all) \in Nat
    OBVIOUS
  <1>2. CASE Len(all) > MaxEvents
    <2>1. Len(all) - MaxEvents + 1 \in 1..(Len(all) + 1)
      BY <1>1, <1>2, BoundsAssumption
    <2>2. SubSeq(all, Len(all) - MaxEvents + 1, Len(all)) \in Seq(Event)
      BY <1>1, <2>1, SubSeqProperties
    <2>3. QED
      BY <1>2, <2>2 DEF AppendEvent
  <1>3. CASE ~(Len(all) > MaxEvents)
    BY <1>1, <1>3 DEF AppendEvent
  <1>4. QED
    BY <1>2, <1>3

\* load_state leaves the log a sequence of events, the file typed and the
\* loaded state as it is.
LEMMA AfterLoad ==
  ASSUME GoodInv
  PROVE  /\ DiskAfterLoad \in [file : {"missing", "corrupt", "ok"}, state : State]
         /\ LoadState(DiskAfterLoad) = LoadState(disk)
         /\ EventsAfterLoad \in Seq(Event)
  <1>1. [type |-> "state_reset", patch |-> None] \in Event
    BY DEF Event, PatchOrNone
  <1>2. EventsAfterLoad \in Seq(Event)
    BY <1>1, AppendEventType DEF EventsAfterLoad, GoodInv, TypeOK
  <1>3. /\ DiskAfterLoad \in [file : {"missing", "corrupt", "ok"}, state : State]
        /\ LoadState(DiskAfterLoad) = LoadState(disk)
    BY DEF DiskAfterLoad, LoadState, GoodInv, TypeOK
  <1>4. QED
    BY <1>2, <1>3

\* An idle operation is well typed.
LEMMA IdleType == Idle \in Op /\ Idle.pc = "idle" /\ Idle.call = "none"
  BY DefaultGood DEF Idle, Op, Good, PatchOrNone

-----------------------------------------------------------------------------
(* The invariant                                                            *)

\* The invariant holds in the initial states, version 1 files included.
LEMMA GoodInvInit == Init => GoodInv
  <1> SUFFICES ASSUME Init PROVE GoodInv
    OBVIOUS
  <1>1. CASE disk = [file |-> "missing", state |-> DefaultState]
    BY <1>1, DefaultGood, IdleType, BoundsAssumption
       DEF Init, GoodInv, TypeOK, LoadState, Good, PatchOrNone
  <1>2. CASE \E st \in LegacyStates : disk = [file |-> "ok", state |-> st]
    <2>1. PICK d \in LegacyStates : disk = [file |-> "ok", state |-> d]
      BY <1>2
    <2>2. d \in State /\ Good(LoadState(disk))
      BY <2>1, LegacyGood DEF LoadState
    <2>3. QED
      BY <2>1, <2>2, IdleType, BoundsAssumption
         DEF Init, GoodInv, TypeOK, PatchOrNone, State
  <1>3. QED
    BY <1>1, <1>2 DEF Init

\* Every step keeps the invariant.
LEMMA GoodInvNext == GoodInv /\ [Next]_vars => GoodInv'
  <1> SUFFICES ASSUME GoodInv, [Next]_vars PROVE GoodInv'
    OBVIOUS
  <1> DEFINE st == LoadState(disk)
  <1>1. Good(st) /\ st \in State
    BY DEF GoodInv, Good
  <1>2. CASE Start
    BY <1>2 DEF Start, GoodInv, TypeOK
  <1>3. CASE Crash
    BY <1>3, IdleType DEF Crash, GoodInv, TypeOK, PatchOrNone
  <1>4. CASE CrashInReset
    BY <1>4, AfterLoad DEF CrashInReset, GoodInv, TypeOK, PatchOrNone
  <1>5. CASE Abort
    BY <1>5, IdleType DEF Abort, GoodInv, TypeOK
  <1>6. CASE CorruptFile
    BY <1>6, DefaultGood DEF CorruptFile, GoodInv, TypeOK, LoadState, Good
  <1>7. CASE LaunchPatch
    <2> DEFINE st1 == LaunchState(st)
               sel == SelectLaunchPatch(st1)
    <2>1. st1 \in State /\ sel \in PatchOrNone
      BY <1>1, LaunchStateSound, SelectType
    <2>2. RollbackLog(st) \in Seq(Event)
      <3>1. [type |-> "crash_rollback", patch |-> st.last.patch] \in Event
        BY <1>1 DEF Event, State, LastLaunch
      <3>2. QED
        BY <3>1, AfterLoad, AppendEventType DEF RollbackLog
    <2>3. /\ events' = RollbackLog(st) /\ disk' = DiskAfterLoad
          /\ UNCHANGED <<dirs, streak>>
      BY <1>7 DEF LaunchPatch
    <2>4. CASE sel = None /\ ~Unconfirmed(st)
      <3>1. phase' = "running" /\ launched' = None /\ UNCHANGED op
        BY <1>7, <2>4 DEF LaunchPatch
      <3>2. QED
        BY <2>2, <2>3, <3>1, AfterLoad DEF GoodInv, TypeOK, PatchOrNone
    <2>5. CASE ~(sel = None /\ ~Unconfirmed(st))
      <3> DEFINE new == IF sel = None THEN st1
                        ELSE [st1 EXCEPT !.boot = @ + 1,
                                         !.last = [patch |-> sel,
                                                   status |-> "pending_success"]]
      <3>1. op' = [pc |-> "commit", call |-> "launch", patch |-> sel, state |-> new]
              /\ UNCHANGED <<phase, launched>>
        BY <1>7, <2>5 DEF LaunchPatch
      <3>2. Good(new)
        BY <1>1, LaunchNothingGood, LaunchSelectedGood
      <3> HIDE DEF new, sel
      <3>3. op' \in Op /\ op'.state = new /\ op'.pc = "commit"
        BY <2>1, <3>1, <3>2 DEF Op, Good
      <3>4. QED
        BY <2>2, <2>3, <3>1, <3>2, <3>3, AfterLoad DEF GoodInv, TypeOK
    <2>6. QED
      BY <2>4, <2>5
  <1>8. CASE \E p \in Patches : InstallUnpack(p)
    <2>1. PICK p \in Patches : InstallUnpack(p)
      BY <1>8
    <2>2. [Idle EXCEPT !.pc = "unpacked", !.call = "install", !.patch = p] \in Op
      BY IdleType DEF Op, PatchOrNone
    <2>3. op' \in Op /\ op'.pc = "unpacked" /\ op'.patch = p /\ op'.call = "install"
      BY <2>1, <2>2, IdleType DEF InstallUnpack, Op
    <2>4. QED
      BY <2>1, <2>3 DEF InstallUnpack, GoodInv, TypeOK
  <1>9. CASE InstallStage
    <2> DEFINE victims == PruneVictims(WithInstalled(st, op.patch))
               new == [WithInstalled(st, op.patch) EXCEPT !.installed = @ \ victims]
    <2>1. op \in Op /\ op.patch \in PatchOrNone
      BY DEF GoodInv, TypeOK, Op
    <2>2. op.patch \in Patches
      BY <1>9 DEF GoodInv, InstallStage
    <2>3. Good(new)
      BY <1>1, <2>2, InstallGood
    <2>4. op' = [op EXCEPT !.pc = "commit", !.state = new] /\ dirs' = dirs \ victims
            /\ disk' = DiskAfterLoad /\ events' = EventsAfterLoad
            /\ UNCHANGED <<phase, launched, streak>>
      BY <1>9 DEF InstallStage
    <2> HIDE DEF victims, new
    <2>5. op' \in Op /\ op'.state = new /\ op'.pc = "commit"
      BY <2>1, <2>3, <2>4 DEF Op, Good
    <2>6. QED
      BY <2>3, <2>4, <2>5, AfterLoad DEF GoodInv, TypeOK
  <1>10. CASE MarkSuccess
    <2> DEFINE new == [st EXCEPT !.current = st.last.patch, !.lkg = st.last.patch,
                                 !.pending = None, !.boot = 0,
                                 !.last.status = "success"]
    <2>1. /\ op' = IF SuccessAccepted(st)
                   THEN [pc |-> "commit", call |-> "success",
                         patch |-> st.last.patch, state |-> new]
                   ELSE Idle
          /\ disk' = DiskAfterLoad /\ events' = EventsAfterLoad
          /\ UNCHANGED <<dirs, phase, launched, streak>>
      BY <1>10 DEF MarkSuccess
    <2>2. SuccessAccepted(st) => Good(new)
      BY <1>1, SuccessGood
    <2>3. st.last.patch \in PatchOrNone
      BY <1>1 DEF State, LastLaunch
    <2> HIDE DEF new
    <2>4. op' \in Op /\ (op'.pc = "commit" => Good(op'.state)) /\ op'.pc # "unpacked"
      BY <2>1, <2>2, <2>3, IdleType DEF Op, Good
    <2>5. QED
      BY <2>1, <2>4, AfterLoad DEF GoodInv, TypeOK
  <1>11. CASE \E p \in PatchOrNone : MarkFailure(p)
    <2>1. PICK p \in PatchOrNone : MarkFailure(p)
      BY <1>11
    <2> DEFINE new == [MarkPatchBad(st, p)
                         EXCEPT !.last = [patch |-> p, status |-> "failure"]]
    <2>2. Good(new)
      BY <1>1, FailureGood
    <2>3. /\ op' = [pc |-> "commit", call |-> "failure", patch |-> p, state |-> new]
          /\ disk' = DiskAfterLoad /\ events' = EventsAfterLoad
          /\ UNCHANGED <<dirs, phase, launched, streak>>
      BY <2>1 DEF MarkFailure
    <2> HIDE DEF new
    <2>4. op' \in Op /\ op'.state = new /\ op'.pc = "commit"
      BY <2>2, <2>3 DEF Op, Good
    <2>5. QED
      BY <2>2, <2>3, <2>4, AfterLoad DEF GoodInv, TypeOK
  <1>12. CASE ReadState
    BY <1>12, AfterLoad DEF ReadState, GoodInv, TypeOK
  <1>13. CASE ClearRollbackEvents
    BY <1>13 DEF ClearRollbackEvents, GoodInv, TypeOK
  <1>14. CASE Commit
    <2>1. Good(op.state) /\ op \in Op
      BY <1>14 DEF Commit, GoodInv, TypeOK
    <2>2. disk' = [file |-> "ok", state |-> op.state]
      BY <1>14 DEF Commit
    <2>3. LoadState(disk') = op.state
      BY <2>1, <2>2 DEF LoadState, MigrateState, Good, SchemaVersion
    <2>4. NextStreak \in [patch : PatchOrNone, n : 0..MaxBootAttempts]
      BY <2>1, BoundsAssumption DEF NextStreak, GoodInv, TypeOK, Op, PatchOrNone
    <2>5. op.patch \in PatchOrNone /\ op.state \in State
      BY <2>1 DEF Op
    <2>6. QED
      BY <1>14, <2>1, <2>2, <2>3, <2>4, <2>5, IdleType
         DEF Commit, GoodInv, TypeOK
  <1>15. CASE UNCHANGED vars
    BY <1>15 DEF vars, GoodInv, TypeOK
  <1>16. QED
    BY <1>2, <1>3, <1>4, <1>5, <1>6, <1>7, <1>8, <1>9, <1>10, <1>11, <1>12,
       <1>13, <1>14, <1>15 DEF Next

\* The updater's state is well typed, whatever is installed, launched,
\* reported or lost in a crash.
THEOREM TypeCorrect == Spec => []TypeOK
  <1>1. GoodInv => TypeOK
    BY DEF GoodInv
  <1>2. QED
    BY <1>1, GoodInvInit, GoodInvNext, PTL DEF Spec

\* The current patch is always the last known good one and never blocked.
THEOREM ConfirmedSound == Spec => []ConfirmedIsSound
  <1>1. GoodInv => ConfirmedIsSound
    BY DEF GoodInv, ConfirmedIsSound, Durable, Good
  <1>2. QED
    BY <1>1, GoodInvInit, GoodInvNext, PTL DEF Spec

\* Boot attempts are never charged to a patch other than the one launched.
THEOREM BootAttemptsSound == Spec => []BootAttemptsBelongToSelection
  <1>1. GoodInv => BootAttemptsBelongToSelection
    BY DEF GoodInv, BootAttemptsBelongToSelection, Durable, Good
  <1>2. QED
    BY <1>1, GoodInvInit, GoodInvNext, PTL DEF Spec

-----------------------------------------------------------------------------
(* What a step may never do.  These need to know, besides the invariant,    *)
(* how the operation in progress relates to the launches before it.         *)

\* The boot attempts in state.json, and the one about to be saved, are
\* covered by the history of unconfirmed launches.
StreakInv ==
    /\ LoadState(disk).boot > 0 => /\ streak.patch = LoadState(disk).last.patch
                                   /\ streak.n >= LoadState(disk).boot
    /\ op.pc = "commit" =>
         IF op.call = "launch" /\ op.patch # None
         THEN /\ op.state.last.patch = op.patch
              /\ op.patch \notin op.state.bad
              /\ op.state.boot > 1 => /\ streak.patch = op.patch
                                      /\ streak.n >= op.state.boot - 1
         ELSE op.state.boot = 0

\* The state launch_patch saves once it has selected a patch.
Attempted(st1, sel) ==
    [st1 EXCEPT !.boot = @ + 1,
                !.last = [patch |-> sel, status |-> "pending_success"]]

\* What launch_patch is about to save is covered by the launches before.
LEMMA LaunchStreak ==
  ASSUME NEW st, Good(st), NEW sk,
         st.boot > 0 => sk.patch = st.last.patch /\ sk.n >= st.boot,
         NEW sel, sel = SelectLaunchPatch(LaunchState(st)), sel # None,
         NEW new, new = Attempted(LaunchState(st), sel)
  PROVE  /\ new.last.patch = sel
         /\ sel \notin new.bad
         /\ new.boot > 1 => sk.patch = sel /\ sk.n >= new.boot - 1
  <1> DEFINE st1 == LaunchState(st)
  <1>1. st1 \in State
    BY LaunchStateSound
  <1>2. Launchable(st1, sel)
    BY <1>1, SelectLaunchable
  <1>3. st1.boot > 0 => st1.boot = st.boot /\ sel = st.last.patch
    BY LaunchStateSound
  <1>4. st1.boot \in Int
    BY <1>1, BoundsAssumption DEF State
  <1> HIDE DEF st1
  <1>5. new.bad = st1.bad /\ new.boot = st1.boot + 1
           /\ new.last = [patch |-> sel, status |-> "pending_success"]
    BY <1>1 DEF State, st1, Attempted
  <1>6. QED
    BY <1>2, <1>3, <1>4, <1>5 DEF Launchable

\* Every step keeps the history in line with the counter.
LEMMA StreakInvNext == GoodInv /\ StreakInv /\ [Next]_vars => StreakInv'
  <1> SUFFICES ASSUME GoodInv, StreakInv, [Next]_vars PROVE StreakInv'
    OBVIOUS
  <1> DEFINE st == LoadState(disk)
  <1>1. Good(st) /\ st \in State
    BY DEF GoodInv, Good
  <1>2. CASE Start
    BY <1>2 DEF Start, StreakInv
  <1>3. CASE Crash
    BY <1>3, IdleType DEF Crash, StreakInv
  <1>4. CASE CrashInReset
    BY <1>4, AfterLoad DEF CrashInReset, StreakInv
  <1>5. CASE Abort
    BY <1>5, IdleType DEF Abort, StreakInv
  <1>6. CASE CorruptFile
    BY <1>6, IdleType DEF CorruptFile, StreakInv, LoadState, DefaultState
  <1>7. CASE LaunchPatch
    <2> DEFINE st1 == LaunchState(st)
               sel == SelectLaunchPatch(st1)
               new == IF sel = None THEN st1
                      ELSE [st1 EXCEPT !.boot = @ + 1,
                                       !.last = [patch |-> sel,
                                                 status |-> "pending_success"]]
    <2>1. disk' = DiskAfterLoad /\ UNCHANGED streak /\ op = Idle
      BY <1>7 DEF LaunchPatch
    <2>2. \/ UNCHANGED op
          \/ op' = [pc |-> "commit", call |-> "launch", patch |-> sel, state |-> new]
      BY <1>7 DEF LaunchPatch
    <2>3. sel = None => new.boot = 0
      BY <1>1, LaunchNothingGood
    <2>4. sel # None => /\ new.last.patch = sel
                        /\ sel \notin new.bad
                        /\ new.boot > 1 => streak.patch = sel
                                           /\ streak.n >= new.boot - 1
      <3> SUFFICES ASSUME sel # None
                   PROVE  /\ new.last.patch = sel
                          /\ sel \notin new.bad
                          /\ new.boot > 1 => streak.patch = sel
                                             /\ streak.n >= new.boot - 1
        OBVIOUS
      <3>1. st.boot > 0 => streak.patch = st.last.patch /\ streak.n >= st.boot
        BY DEF StreakInv
      <3>2. new = Attempted(LaunchState(st), sel)
        BY DEF Attempted
      <3>3. sel = SelectLaunchPatch(LaunchState(st))
        OBVIOUS
      <3> HIDE DEF new, sel, st1, st
      <3>4. QED
        BY <1>1, <3>1, <3>2, <3>3, LaunchStreak
    <2> HIDE DEF new, sel
    <2>5. QED
      BY <2>1, <2>2, <2>3, <2>4, AfterLoad, IdleType DEF StreakInv
  <1>8. CASE \E p \in Patches : InstallUnpack(p)
    <2>1. PICK p \in Patches : InstallUnpack(p)
      BY <1>8
    <2>2. op'.pc = "unpacked"
      BY <2>1, IdleType DEF InstallUnpack, Op
    <2>3. QED
      BY <2>1, <2>2 DEF InstallUnpack, StreakInv
  <1>9. CASE InstallStage
    <2> DEFINE w == WithInstalled(st, op.patch)
               new == [w EXCEPT !.installed = @ \ PruneVictims(w)]
    <2>1. new.boot = 0
      BY <1>1 DEF WithInstalled, State
    <2>2. op \in Op /\ op' = [op EXCEPT !.pc = "commit", !.state = new]
            /\ disk' = DiskAfterLoad /\ UNCHANGED streak /\ op.pc = "unpacked"
      BY <1>9 DEF InstallStage, GoodInv, TypeOK
    <2>3. op.pc = "unpacked" => op.call # "launch"
      BY DEF GoodInv
    <2> HIDE DEF new
    <2>4. op'.state = new /\ op'.call = op.call
      BY <2>2 DEF Op
    <2>5. QED
      BY <2>1, <2>2, <2>3, <2>4, AfterLoad DEF StreakInv
  <1>10. CASE MarkSuccess
    <2> DEFINE new == [st EXCEPT !.current = st.last.patch, !.lkg = st.last.patch,
                                 !.pending = None, !.boot = 0,
                                 !.last.status = "success"]
    <2>1. /\ op' = IF SuccessAccepted(st)
                   THEN [pc |-> "commit", call |-> "success",
                         patch |-> st.last.patch, state |-> new]
                   ELSE Idle
          /\ disk' = DiskAfterLoad /\ UNCHANGED streak
      BY <1>10 DEF MarkSuccess
    <2>2. new.boot = 0
      BY <1>1 DEF State
    <2> HIDE DEF new
    <2>3. QED
      BY <2>1, <2>2, AfterLoad, IdleType DEF StreakInv
  <1>11. CASE \E p \in PatchOrNone : MarkFailure(p)
    <2>1. PICK p \in PatchOrNone : MarkFailure(p)
      BY <1>11
    <2> DEFINE m == MarkPatchBad(st, p)
               new == [m EXCEPT !.last = [patch |-> p, status |-> "failure"]]
    <2>2. op' = [pc |-> "commit", call |-> "failure", patch |-> p, state |-> new]
          /\ disk' = DiskAfterLoad /\ UNCHANGED streak
      BY <2>1 DEF MarkFailure
    <2>3. m \in State /\ m.boot = 0
      BY <1>1, MarkBadGood DEF Good
    <2> HIDE DEF m
    <2>4. new.boot = 0
      BY <2>3 DEF State
    <2> HIDE DEF new
    <2>5. QED
      BY <2>2, <2>4, AfterLoad DEF StreakInv
  <1>12. CASE ReadState
    BY <1>12, AfterLoad DEF ReadState, StreakInv
  <1>13. CASE ClearRollbackEvents
    BY <1>13 DEF ClearRollbackEvents, StreakInv
  <1>14. CASE Commit
    <2>1. Good(op.state) /\ op.state \in State /\ op.pc = "commit"
      BY <1>14 DEF Commit, GoodInv, Good
    <2>2. LoadState(disk') = op.state
      BY <1>14, <2>1 DEF Commit, LoadState, MigrateState, Good, SchemaVersion
    <2>3. op' = Idle /\ streak' = NextStreak
      BY <1>14 DEF Commit
    <2>4. op.state.boot > 0 => /\ NextStreak.patch = op.state.last.patch
                               /\ NextStreak.n >= op.state.boot
      <3> SUFFICES ASSUME op.state.boot > 0
                   PROVE  /\ NextStreak.patch = op.state.last.patch
                          /\ NextStreak.n >= op.state.boot
        OBVIOUS
      <3>1. op.state.boot \in Nat /\ op.state.boot < MaxBootAttempts
              /\ MaxBootAttempts \in Nat /\ streak.n \in Nat
        BY <2>1, BoundsAssumption DEF Good, State, GoodInv, TypeOK
      <3>2. /\ op.call = "launch" /\ op.patch # None
            /\ op.state.last.patch = op.patch
            /\ op.state.boot > 1 => /\ streak.patch = op.patch
                                    /\ streak.n >= op.state.boot - 1
        BY <2>1, <3>1 DEF StreakInv
      <3>3. NextStreak = [patch |-> op.patch,
                          n |-> IF streak.patch = op.patch
                                THEN IF streak.n < MaxBootAttempts
                                     THEN streak.n + 1 ELSE streak.n
                                ELSE 1]
        BY <3>2 DEF NextStreak
      <3>4. QED
        BY <3>1, <3>2, <3>3
    <2>5. QED
      BY <2>2, <2>3, <2>4, IdleType DEF StreakInv
  <1>15. CASE UNCHANGED vars
    BY <1>15 DEF vars, StreakInv
  <1>16. QED
    BY <1>2, <1>3, <1>4, <1>5, <1>6, <1>7, <1>8, <1>9, <1>10, <1>11, <1>12,
       <1>13, <1>14, <1>15 DEF Next

\* No patch was launched before the first start.
LEMMA StreakInvInit == Init => StreakInv
  <1> SUFFICES ASSUME Init PROVE StreakInv
    OBVIOUS
  <1>1. LoadState(disk).boot = 0
    <2>1. CASE disk = [file |-> "missing", state |-> DefaultState]
      BY <2>1 DEF LoadState, DefaultState
    <2>2. CASE \E st \in LegacyStates : disk = [file |-> "ok", state |-> st]
      BY <2>2, LegacyFields DEF LoadState
    <2>3. QED
      BY <2>1, <2>2 DEF Init
  <1>2. op = Idle
    BY DEF Init
  <1>3. QED
    BY <1>1, <1>2, IdleType DEF StreakInv

\* The two invariants together hold in every reachable state.
LEMMA StreakCorrect == Spec => [](GoodInv /\ StreakInv)
  BY GoodInvInit, GoodInvNext, StreakInvInit, StreakInvNext, PTL DEF Spec

\* The first half of launch_patch blocks at most the patch of the last launch,
\* and only when its attempts are used up.
LEMMA LaunchBlames ==
  ASSUME NEW st, Good(st), NEW p, p \in LaunchState(st).bad, p \notin st.bad
  PROVE  CrashLoop(st) /\ p = st.last.patch
  <1>1. st \in State /\ st.last.patch \in PatchOrNone
    BY DEF Good, State, LastLaunch
  <1>2. CASE CrashLoop(st)
    <2> DEFINE m == MarkPatchBad(st, st.last.patch)
    <2>1. m \in State /\ m.bad = st.bad \cup {st.last.patch}
      BY <1>1, MarkBadGood DEF Good
    <2>2. LaunchState(st) = [m EXCEPT !.last = NoLaunch]
      BY <1>2 DEF LaunchState, CrashLoop
    <2> HIDE DEF m
    <2>3. LaunchState(st).bad = m.bad
      BY <2>1, <2>2 DEF State
    <2>4. QED
      BY <1>2, <2>1, <2>3
  <1>3. CASE ~CrashLoop(st)
    <2>1. LaunchState(st).bad = st.bad
      BY <1>1, <1>3 DEF LaunchState, State
    <2>2. QED
      BY <2>1
  <1>4. QED
    BY <1>2, <1>3

\* The only step that starts saving a launch is launch_patch, and what it
\* blocks it blocks in its first half.
LEMMA LaunchSaves ==
  ASSUME GoodInv, [Next]_vars,
         op.pc = "idle", op'.pc = "commit", op'.call = "launch"
  PROVE  /\ LaunchPatch
         /\ op'.state.bad = LaunchState(LoadState(disk)).bad
         /\ events' = RollbackLog(LoadState(disk))
  <1> DEFINE st == LoadState(disk)
             st1 == LaunchState(st)
             sel == SelectLaunchPatch(st1)
             new == IF sel = None THEN st1 ELSE Attempted(st1, sel)
  <1>1. LaunchPatch
    <2>1. ~Start /\ ~ReadState /\ ~ClearRollbackEvents /\ ~CorruptFile
            /\ ~CrashInReset /\ ~UNCHANGED vars
      BY DEF Start, ReadState, ClearRollbackEvents, CorruptFile, CrashInReset, vars
    <2>2. ~Crash /\ ~Abort /\ ~Commit /\ ~InstallStage
      BY IdleType DEF Crash, Abort, Commit, InstallStage
    <2>3. ~(\E p \in Patches : InstallUnpack(p))
      BY IdleType DEF InstallUnpack, Idle
    <2>4. ~MarkSuccess
      BY IdleType DEF MarkSuccess
    <2>5. ~(\E p \in PatchOrNone : MarkFailure(p))
      BY DEF MarkFailure
    <2>6. QED
      BY <2>1, <2>2, <2>3, <2>4, <2>5 DEF Next
  <1>2. st1 \in State
    BY LaunchStateSound DEF GoodInv
  <1>3. op' = [pc |-> "commit", call |-> "launch", patch |-> sel, state |-> new]
    BY <1>1 DEF LaunchPatch, Attempted
  <1> HIDE DEF st1, sel
  <1>4. Attempted(st1, sel).bad = st1.bad
    BY <1>2 DEF Attempted, State
  <1>5. new.bad = st1.bad
    BY <1>4
  <1> HIDE DEF new
  <1>6. QED
    BY <1>1, <1>3, <1>5 DEF LaunchPatch, st1

\* launch_patch blames only a patch that was launched MaxBootAttempts - 1
\* times in a row without a confirmation.
THEOREM BlameSound == Spec => BlamedWasRepeatedlyUnconfirmed
  <1>1. ASSUME GoodInv, StreakInv, [Next]_vars, NEW p \in Patches,
               op.pc = "idle", op'.pc = "commit", op'.call = "launch",
               p \in op'.state.bad \ LoadState(disk).bad
        PROVE  streak.patch = p /\ streak.n >= MaxBootAttempts - 1
    <2> DEFINE st == LoadState(disk)
    <2>1. Good(st)
      BY <1>1 DEF GoodInv
    <2>2. CrashLoop(st) /\ p = st.last.patch
      BY <1>1, <2>1, LaunchSaves, LaunchBlames
    <2>3. st.boot \in Nat /\ st.boot >= MaxBootAttempts - 1 /\ st.boot > 0
      BY <2>1, <2>2, BoundsAssumption DEF Good, State, CrashLoop
    <2>4. streak.patch = st.last.patch /\ streak.n >= st.boot /\ streak.n \in Nat
      BY <1>1, <2>3, BoundsAssumption DEF StreakInv, GoodInv, TypeOK
    <2> HIDE DEF st
    <2>5. QED
      BY <2>2, <2>3, <2>4, BoundsAssumption
  <1>2. GoodInv /\ StreakInv /\ [Next]_vars =>
          [\A p \in Patches :
            (op.pc = "idle" /\ op'.pc = "commit" /\ op'.call = "launch"
                /\ p \in op'.state.bad \ LoadState(disk).bad)
              => streak.patch = p /\ streak.n >= MaxBootAttempts - 1]_vars
    BY <1>1
  <1>3. QED
    BY <1>2, StreakCorrect, PTL DEF Spec, BlamedWasRepeatedlyUnconfirmed

\* The process is never handed a patch that is on the block list when the
\* call returns, even when the server offered it again and it was installed
\* again after it had failed.
BlockedNeverLaunched ==
    [][launched' # launched /\ launched' # None
          => launched' \notin disk'.state.bad]_vars

\* The process is never handed a patch that is blocked in the state saved
\* with the launch.
THEOREM LaunchSound == Spec => BlockedNeverLaunched
  <1>1. ASSUME GoodInv, StreakInv, [Next]_vars,
               launched' # launched, launched' # None
        PROVE  launched' \notin disk'.state.bad
    <2>1. Commit
      <3>1. ~Start /\ ~Abort /\ ~CorruptFile /\ ~InstallStage /\ ~MarkSuccess
              /\ ~ReadState /\ ~ClearRollbackEvents /\ ~UNCHANGED vars
        BY <1>1 DEF Start, Abort, CorruptFile, InstallStage, MarkSuccess,
                    ReadState, ClearRollbackEvents, vars
      <3>2. ~Crash /\ ~CrashInReset /\ ~LaunchPatch
        BY <1>1 DEF Crash, CrashInReset, LaunchPatch
      <3>3. /\ ~(\E p \in Patches : InstallUnpack(p))
            /\ ~(\E p \in PatchOrNone : MarkFailure(p))
        BY <1>1 DEF InstallUnpack, MarkFailure
      <3>4. QED
        BY <1>1, <3>1, <3>2, <3>3 DEF Next
    <2>2. op.call = "launch" /\ launched' = op.patch /\ disk'.state = op.state
            /\ op.pc = "commit"
      BY <1>1, <2>1 DEF Commit
    <2>3. QED
      BY <1>1, <2>2 DEF StreakInv
  <1>2. GoodInv /\ StreakInv /\ [Next]_vars =>
          [launched' # launched /\ launched' # None
             => launched' \notin disk'.state.bad]_vars
    BY <1>1
  <1>3. QED
    BY <1>2, StreakCorrect, PTL DEF Spec, BlockedNeverLaunched

-----------------------------------------------------------------------------
(* The order of the two writes of a rollback                                *)

\* The event of a patch that is about to be blocked is already in the log.
LogInv ==
    op.pc = "commit" /\ op.call = "launch" =>
        \A p \in op.state.bad \ LoadState(disk).bad :
            \E i \in DOMAIN events :
                events[i] = [type |-> "crash_rollback", patch |-> p]

\* append_rollback_event never drops the event it appends.
LEMMA AppendEventKeepsNewest ==
  ASSUME NEW log \in Seq(Event), NEW e \in Event
  PROVE  \E i \in DOMAIN AppendEvent(log, e) : AppendEvent(log, e)[i] = e
  <1> DEFINE all == Append(log, e)
             m == Len(all) - MaxEvents + 1
  <1>1. all \in Seq(Event) /\ Len(all) \in Nat /\ Len(all) >= 1 /\ all[Len(all)] = e
          /\ DOMAIN all = 1..Len(all) /\ \A i \in 1..Len(all) : all[i] \in Event
    OBVIOUS
  <1> HIDE DEF all
  <1>2. CASE Len(all) > MaxEvents
    <2>1. m \in Int /\ Len(all) \in Int /\ \A i \in m..Len(all) : all[i] \in Event
      BY <1>1, <1>2, BoundsAssumption
    <2> DEFINE kept == SubSeq(all, m, Len(all))
    <2>2. /\ Len(kept) = IF m <= Len(all) THEN Len(all) - m + 1 ELSE 0
          /\ \A i \in 1..(Len(all) - m + 1) : kept[i] = all[m + i - 1]
          /\ kept \in Seq(Event)
      BY <2>1, SubSeqProperties
    <2> HIDE DEF kept
    <2>3. DOMAIN kept = 1..MaxEvents /\ kept[MaxEvents] = e
      BY <1>1, <1>2, <2>2, BoundsAssumption, LenProperties
    <2>4. MaxEvents \in 1..MaxEvents
      BY BoundsAssumption
    <2>5. AppendEvent(log, e) = kept
      BY <1>2 DEF AppendEvent, all, kept
    <2>6. QED
      BY <2>3, <2>4, <2>5
  <1>3. CASE ~(Len(all) > MaxEvents)
    <2>1. AppendEvent(log, e) = all
      BY <1>3 DEF AppendEvent, all
    <2>2. QED
      BY <1>1, <2>1
  <1>4. QED
    BY <1>2, <1>3

\* Every step keeps the event of a block that is not saved yet in the log.
LEMMA LogInvNext == GoodInv /\ LogInv /\ [Next]_vars => LogInv'
  <1> SUFFICES ASSUME GoodInv, LogInv, [Next]_vars,
                      op'.pc = "commit", op'.call = "launch",
                      NEW p \in op'.state.bad \ LoadState(disk').bad
               PROVE  \E i \in DOMAIN events' :
                         events'[i] = [type |-> "crash_rollback", patch |-> p]
    BY DEF LogInv
  <1> DEFINE st == LoadState(disk)
  <1>1. CASE op.pc = "idle"
    <2>1. LaunchPatch /\ op'.state.bad = LaunchState(st).bad
            /\ events' = RollbackLog(st)
      BY <1>1, LaunchSaves
    <2>2. LoadState(disk') = st
      BY <2>1, AfterLoad DEF LaunchPatch
    <2>3. Good(st)
      BY DEF GoodInv
    <2>4. CrashLoop(st) /\ p = st.last.patch
      BY <2>1, <2>2, <2>3, LaunchBlames
    <2>5. [type |-> "crash_rollback", patch |-> p] \in Event
      BY <2>3, <2>4 DEF Good, State, LastLaunch, Event
    <2> HIDE DEF st
    <2>6. events' = AppendEvent(EventsAfterLoad,
                                [type |-> "crash_rollback", patch |-> p])
      BY <2>1, <2>4 DEF RollbackLog
    <2>7. QED
      BY <2>5, <2>6, AfterLoad, AppendEventKeepsNewest
  <1>2. CASE op.pc # "idle"
    <2>1. UNCHANGED <<op, events, disk>> \/ op' = Idle \/ InstallStage
      BY <1>2, IdleType
         DEF Next, Start, Crash, CrashInReset, Abort, CorruptFile, LaunchPatch,
             InstallUnpack, MarkSuccess, MarkFailure, ReadState,
             ClearRollbackEvents, Commit, vars
    <2>2. ~InstallStage
      <3> SUFFICES ASSUME InstallStage PROVE FALSE
        OBVIOUS
      <3>1. op.call = "install" /\ op \in Op
        BY DEF InstallStage, GoodInv, TypeOK
      <3>2. op'.call = op.call
        BY <3>1 DEF InstallStage, Op
      <3>3. QED
        BY <3>1, <3>2
    <2>3. UNCHANGED <<op, events, disk>>
      BY <2>1, <2>2, IdleType
    <2>4. QED
      BY <2>3 DEF LogInv
  <1>3. QED
    BY <1>1, <1>2

\* A crash between the two writes of a rollback can repeat its event, but
\* never lose it.
THEOREM RollbackLogged == Spec => RollbackIsLoggedFirst
  <1>1. Init => LogInv
    BY IdleType DEF Init, LogInv
  <1>2. GoodInv /\ LogInv /\ [Next]_vars =>
          [\A p \in Patches :
            (op.call = "launch" /\ op'.pc = "idle" /\ disk' # disk
                /\ p \in disk'.state.bad \ LoadState(disk).bad)
              => \E i \in DOMAIN events :
                    events[i] = [type |-> "crash_rollback", patch |-> p]]_vars
    <2> SUFFICES ASSUME GoodInv, LogInv, [Next]_vars, NEW p \in Patches,
                        op.call = "launch", op'.pc = "idle", disk' # disk,
                        p \in disk'.state.bad \ LoadState(disk).bad
                 PROVE  \E i \in DOMAIN events :
                           events[i] = [type |-> "crash_rollback", patch |-> p]
      OBVIOUS
    <2>1. op # Idle
      BY IdleType
    <2>2. Commit \/ InstallStage
      BY <2>1 DEF Next, Start, Crash, CrashInReset, Abort, CorruptFile, LaunchPatch,
                  InstallUnpack, MarkSuccess, MarkFailure, ReadState,
                  ClearRollbackEvents, vars
    <2>3. ~InstallStage
      BY DEF InstallStage, GoodInv
    <2>4. op.pc = "commit" /\ disk'.state = op.state
      BY <2>2, <2>3 DEF Commit
    <2>5. QED
      BY <2>4 DEF LogInv
  <1>3. QED
    BY <1>1, <1>2, GoodInvInit, GoodInvNext, LogInvNext, PTL
       DEF Spec, RollbackIsLoggedFirst

-----------------------------------------------------------------------------
(* The limit on installed patches                                           *)

\* A set of installed patches that state.json may hold.
Bounded(st) == IsFiniteSet(st.installed) /\ Cardinality(st.installed) <= MaxInstalled

BoundInv ==
    /\ Bounded(LoadState(disk))
    /\ op.pc = "commit" => Bounded(op.state)

\* A nonempty set of patch numbers has a lowest one.
LEMMA LowestPatch ==
  ASSUME NEW S, S \subseteq Nat, S # {}
  PROVE  \E p \in S : \A q \in S : ~(q < p)
  <1>1. PICK p \in S : \A q \in S : ~(<<q, p>> \in OpToRel(<, Nat))
    BY NatLessThanWellFounded, WFMin
  <1>2. \A q \in S : q < p => <<q, p>> \in OpToRel(<, Nat)
    BY DEF OpToRel
  <1>3. QED
    BY <1>1, <1>2

\* One more element makes a finite set at most one larger.
LEMMA AddOne ==
  ASSUME NEW S, IsFiniteSet(S), NEW x
  PROVE  /\ IsFiniteSet(S \cup {x})
         /\ Cardinality(S) \in Nat /\ Cardinality(S \cup {x}) \in Nat
         /\ Cardinality(S \cup {x}) <= Cardinality(S) + 1
  <1>1. IsFiniteSet(S \cup {x})
          /\ Cardinality(S \cup {x}) = IF x \in S THEN Cardinality(S)
                                       ELSE Cardinality(S) + 1
    BY FS_AddElement
  <1>2. Cardinality(S) \in Nat
    BY FS_CardinalityType
  <1>3. QED
    BY <1>1, <1>2

\* The pruning loop of install always finds enough patches to remove: only
\* two of the protected numbers are different ones.
LEMMA PruneBounded ==
  ASSUME NEW st, st \in State, st.current = st.lkg,
         IsFiniteSet(st.installed), Cardinality(st.installed) <= MaxInstalled + 1
  PROVE  /\ IsFiniteSet(st.installed \ PruneVictims(st))
         /\ Cardinality(st.installed \ PruneVictims(st)) <= MaxInstalled
  <1> DEFINE I == st.installed
             V == PruneVictims(st)
             R == I \ {st.current, st.pending, st.lkg}
  <1>1. IsFiniteSet(I \ V) /\ Cardinality(I \ V) <= Cardinality(I)
          /\ Cardinality(I) \in Nat /\ Cardinality(I \ V) \in Nat
    BY FS_Subset, FS_CardinalityType
  <1>2. CASE Cardinality(I) <= MaxInstalled
    BY <1>1, <1>2, BoundsAssumption
  <1>3. CASE Cardinality(I) = MaxInstalled + 1
    <2>1. R # {}
      <3> SUFFICES ASSUME R = {} PROVE FALSE
        OBVIOUS
      <3>1. I \subseteq {st.current, st.pending}
        OBVIOUS
      <3>2. IsFiniteSet({st.current}) /\ Cardinality({st.current}) = 1
        BY FS_Singleton
      <3>3. IsFiniteSet({st.current} \cup {st.pending})
              /\ Cardinality({st.current} \cup {st.pending}) <= 2
              /\ Cardinality({st.current} \cup {st.pending}) \in Nat
        <4>1. /\ IsFiniteSet({st.current} \cup {st.pending})
              /\ Cardinality({st.current} \cup {st.pending}) \in Nat
              /\ Cardinality({st.current} \cup {st.pending})
                   <= Cardinality({st.current}) + 1
          BY <3>2, AddOne
        <4>2. QED
          BY <3>2, <4>1
      <3>4. Cardinality(I) <= Cardinality({st.current} \cup {st.pending})
        BY <3>1, <3>3, FS_Subset
      <3>5. QED
        BY <1>1, <1>3, <3>3, <3>4, BoundsAssumption
    <2>2. R \subseteq Nat
      BY PatchesAssumption DEF State
    <2>3. PICK p \in R : \A q \in R : ~(q < p)
      BY <2>1, <2>2, LowestPatch
    <2>4. {q \in R : q < p} = {}
      BY <2>3
    <2>5. Cardinality({q \in R : q < p}) = 0
      BY <2>4, FS_EmptySet
    <2>6. p \in V
      BY <1>1, <1>3, <2>3, <2>5, BoundsAssumption DEF PruneVictims
    <2> HIDE DEF V
    <2>7. IsFiniteSet(I \ {p}) /\ Cardinality(I \ {p}) = Cardinality(I) - 1
      BY <2>3, FS_RemoveElement
    <2>8. Cardinality(I \ V) <= Cardinality(I \ {p})
      BY <2>6, <2>7, FS_Subset
    <2>9. QED
      BY <1>1, <1>3, <2>7, <2>8, BoundsAssumption DEF V
  <1>4. QED
    BY <1>1, <1>2, <1>3, BoundsAssumption

\* launch_patch never changes what is installed.
LEMMA LaunchInstalled ==
  ASSUME NEW st, Good(st)
  PROVE  LaunchState(st).installed = st.installed
  <1>1. st \in State /\ st.last.patch \in PatchOrNone
    BY DEF Good, State, LastLaunch
  <1> DEFINE m == MarkPatchBad(st, st.last.patch)
  <1>2. m \in State /\ m.installed = st.installed
    BY <1>1, MarkBadGood DEF Good
  <1> HIDE DEF m
  <1>3. [m EXCEPT !.last = NoLaunch].installed = st.installed
    BY <1>2 DEF State
  <1>4. [st EXCEPT !.last = NoLaunch].installed = st.installed
    BY <1>1 DEF State
  <1>5. QED
    BY <1>3, <1>4 DEF LaunchState, m

\* Every operation saves a bounded set of patches.
LEMMA BoundInvNext == GoodInv /\ BoundInv /\ [Next]_vars => BoundInv'
  <1> SUFFICES ASSUME GoodInv, BoundInv, [Next]_vars PROVE BoundInv'
    OBVIOUS
  <1> DEFINE st == LoadState(disk)
  <1>1. Good(st) /\ st \in State /\ Bounded(st)
    BY DEF GoodInv, Good, BoundInv
  <1>2. CASE UNCHANGED <<disk, op>>
    BY <1>2 DEF BoundInv
  <1>3. CASE LoadState(disk') = st /\ op'.pc # "commit"
    BY <1>1, <1>3 DEF BoundInv
  <1>4. CASE Start \/ ClearRollbackEvents \/ UNCHANGED vars
    BY <1>2, <1>4 DEF Start, ClearRollbackEvents, vars
  <1>5. CASE Crash \/ Abort \/ CrashInReset \/ ReadState
    BY <1>3, <1>5, IdleType, AfterLoad DEF Crash, Abort, CrashInReset, ReadState, BoundInv
  <1>6. CASE CorruptFile
    <2>1. Bounded(DefaultState)
      BY FS_EmptySet, BoundsAssumption DEF Bounded, DefaultState
    <2>2. QED
      BY <1>6, <2>1, IdleType DEF CorruptFile, LoadState, BoundInv
  <1>7. CASE LaunchPatch
    <2> DEFINE st1 == LaunchState(st)
               sel == SelectLaunchPatch(st1)
               new == IF sel = None THEN st1 ELSE Attempted(st1, sel)
    <2>1. disk' = DiskAfterLoad /\ op = Idle
      BY <1>7 DEF LaunchPatch
    <2>2. \/ UNCHANGED op
          \/ op' = [pc |-> "commit", call |-> "launch", patch |-> sel, state |-> new]
      BY <1>7 DEF LaunchPatch, Attempted
    <2>3. st1 \in State /\ st1.installed = st.installed
      BY <1>1, LaunchStateSound, LaunchInstalled
    <2> HIDE DEF st1, sel
    <2>4. new.installed = st.installed
      BY <2>3 DEF Attempted, State
    <2> HIDE DEF new
    <2>5. QED
      BY <1>1, <2>1, <2>2, <2>4, AfterLoad, IdleType DEF BoundInv, Bounded
  <1>8. CASE \E p \in Patches : InstallUnpack(p)
    <2>1. op'.pc = "unpacked" /\ UNCHANGED disk
      BY <1>8, IdleType DEF InstallUnpack, Op
    <2>2. QED
      BY <1>3, <2>1
  <1>9. CASE InstallStage
    <2> DEFINE w == WithInstalled(st, op.patch)
               new == [w EXCEPT !.installed = @ \ PruneVictims(w)]
    <2>1. op' = [op EXCEPT !.pc = "commit", !.state = new] /\ disk' = DiskAfterLoad
            /\ op \in Op /\ op.patch \in Patches
      BY <1>9 DEF InstallStage, GoodInv, TypeOK
    <2>2. w = [st EXCEPT !.schema = 2, !.pending = op.patch, !.boot = 0,
                         !.installed = st.installed \cup {op.patch}]
      BY DEF WithInstalled, SchemaVersion
    <2>3. w.installed = st.installed \cup {op.patch} /\ w.current = w.lkg
      BY <1>1, <2>2 DEF State, Good
    <2>4. w \in State
      <3>1. 2 \in 1..SchemaVersion /\ op.patch \in PatchOrNone
              /\ st.installed \cup {op.patch} \in SUBSET Patches
        BY <1>1, <2>1 DEF SchemaVersion, PatchOrNone, State
      <3>2. QED
        BY <1>1, <2>2, <3>1, ZeroBoot DEF State
    <2> HIDE DEF w
    <2>5. IsFiniteSet(w.installed) /\ Cardinality(w.installed) <= MaxInstalled + 1
      <3>1. IsFiniteSet(st.installed) /\ Cardinality(st.installed) <= MaxInstalled
        BY <1>1 DEF Bounded
      <3> HIDE DEF st
      <3> DEFINE I == st.installed \cup {op.patch}
      <3>2. /\ IsFiniteSet(I)
            /\ Cardinality(st.installed) \in Nat /\ Cardinality(I) \in Nat
            /\ Cardinality(I) <= Cardinality(st.installed) + 1
        BY <3>1, AddOne
      <3> HIDE DEF I
      <3>3. IsFiniteSet(I) /\ Cardinality(I) <= MaxInstalled + 1
        BY <3>1, <3>2, BoundsAssumption
      <3>4. QED
        BY <2>3, <3>3 DEF I
    <2>6. new.installed = w.installed \ PruneVictims(w)
      BY <2>4 DEF State
    <2> HIDE DEF new
    <2>7. Bounded(new)
      BY <2>3, <2>4, <2>5, <2>6, PruneBounded DEF Bounded
    <2>8. op'.state = new
      BY <2>1 DEF Op
    <2>9. QED
      BY <1>1, <2>1, <2>7, <2>8, AfterLoad DEF BoundInv
  <1>10. CASE MarkSuccess
    <2> DEFINE new == [st EXCEPT !.current = st.last.patch, !.lkg = st.last.patch,
                                 !.pending = None, !.boot = 0,
                                 !.last.status = "success"]
    <2>1. /\ op' = IF SuccessAccepted(st)
                   THEN [pc |-> "commit", call |-> "success",
                         patch |-> st.last.patch, state |-> new]
                   ELSE Idle
          /\ disk' = DiskAfterLoad
      BY <1>10 DEF MarkSuccess
    <2>2. new.installed = st.installed
      BY <1>1 DEF State
    <2> HIDE DEF new
    <2>3. QED
      BY <1>1, <2>1, <2>2, AfterLoad, IdleType DEF BoundInv, Bounded
  <1>11. CASE \E p \in PatchOrNone : MarkFailure(p)
    <2>1. PICK p \in PatchOrNone : MarkFailure(p)
      BY <1>11
    <2> DEFINE m == MarkPatchBad(st, p)
               new == [m EXCEPT !.last = [patch |-> p, status |-> "failure"]]
    <2>2. op' = [pc |-> "commit", call |-> "failure", patch |-> p, state |-> new]
          /\ disk' = DiskAfterLoad
      BY <2>1 DEF MarkFailure
    <2>3. m \in State /\ m.installed = st.installed
      BY <1>1, MarkBadGood DEF Good
    <2> HIDE DEF m
    <2>4. new.installed = st.installed
      BY <2>3 DEF State
    <2> HIDE DEF new
    <2>5. QED
      BY <1>1, <2>2, <2>4, AfterLoad DEF BoundInv, Bounded
  <1>12. CASE Commit
    <2>1. Good(op.state) /\ Bounded(op.state)
      BY <1>12 DEF Commit, GoodInv, BoundInv
    <2>2. LoadState(disk') = op.state /\ op' = Idle
      BY <1>12, <2>1 DEF Commit, LoadState, MigrateState, Good, SchemaVersion
    <2>3. QED
      BY <2>1, <2>2, IdleType DEF BoundInv
  <1>13. QED
    BY <1>4, <1>5, <1>6, <1>7, <1>8, <1>9, <1>10, <1>11, <1>12 DEF Next

\* state.json never lists more than MaxInstalled patches, so the early exit
\* of the pruning loop is dead code.
THEOREM InstalledSound == Spec => []InstalledBounded
  <1>1. Init => BoundInv
    <2> SUFFICES ASSUME Init PROVE BoundInv
      OBVIOUS
    <2>1. CASE disk = [file |-> "missing", state |-> DefaultState]
      BY <2>1, FS_EmptySet, IdleType, BoundsAssumption
         DEF Init, BoundInv, Bounded, LoadState, DefaultState
    <2>2. CASE \E st \in LegacyStates : disk = [file |-> "ok", state |-> st]
      <3>1. PICK d \in LegacyStates : disk = [file |-> "ok", state |-> d]
        BY <2>2
      <3> DEFINE two == {d.current} \cup {d.pending}
      <3>2. LoadState(disk).installed \subseteq two
        BY <3>1, LegacyFields DEF LoadState, LegacyStates
      <3>3. IsFiniteSet(two) /\ Cardinality(two) <= 2
        <4>1. IsFiniteSet({d.current}) /\ Cardinality({d.current}) = 1
          BY FS_Singleton
        <4>2. QED
          BY <4>1, FS_AddElement
      <3> HIDE DEF two
      <3>4. Bounded(LoadState(disk))
        <4>1. IsFiniteSet(LoadState(disk).installed)
              /\ Cardinality(LoadState(disk).installed) <= Cardinality(two)
          BY <3>2, <3>3, FS_Subset
        <4>2. Cardinality(LoadState(disk).installed) \in Nat /\ Cardinality(two) \in Nat
          BY <3>3, <4>1, FS_CardinalityType
        <4>3. QED
          BY <3>3, <4>1, <4>2, BoundsAssumption DEF Bounded
      <3>5. QED
        BY <3>4, IdleType DEF Init, BoundInv
    <2>3. QED
      BY <2>1, <2>2 DEF Init
  <1>2. BoundInv => InstalledBounded
    BY DEF BoundInv, Bounded, InstalledBounded, Durable
  <1>3. QED
    BY <1>1, <1>2, GoodInvInit, GoodInvNext, BoundInvNext, PTL DEF Spec
-----------------------------------------------------------------------------
(* The refinement.  A step of the promise is what Commit makes of the state *)
(* on disk, so the invariant says what the operation in progress has        *)
(* prepared: a function of the state that is still there.                   *)

\* What each operation saves.
Launching(st) ==
    LET st1 == LaunchState(st)
        sel == SelectLaunchPatch(st1)
    IN  IF sel = None THEN st1 ELSE Attempted(st1, sel)
Installing(st, p) ==
    [WithInstalled(st, p) EXCEPT !.installed = @ \ PruneVictims(WithInstalled(st, p))]
Confirming(st) ==
    [st EXCEPT !.current = st.last.patch, !.lkg = st.last.patch, !.pending = None,
               !.boot = 0, !.last.status = "success"]
Failing(st, p) ==
    [MarkPatchBad(st, p) EXCEPT !.last = [patch |-> p, status |-> "failure"]]

\* The operation in progress started from the state that is still on disk.
Prepared ==
    op.pc = "commit" =>
        LET st == LoadState(disk) IN
        \/ /\ op.call = "launch"
           /\ op.patch = SelectLaunchPatch(LaunchState(st))
           /\ op.state = Launching(st)
        \/ /\ op.call = "install" /\ op.patch \in Patches
           /\ op.state = Installing(st, op.patch)
        \/ /\ op.call = "success" /\ SuccessAccepted(st)
           /\ op.state = Confirming(st)
        \/ /\ op.call = "failure" /\ op.patch \in PatchOrNone
           /\ op.state = Failing(st, op.patch)

\* The pending patch is installed, only a patch is on trial, and what was
\* confirmed last is the current patch.
Traced(st) ==
    /\ st.pending # None => st.pending \in st.installed
    /\ Unconfirmed(st) => st.last.patch # None
    /\ st.last.status = "success" => st.last.patch = st.current /\ st.current # None

PromiseInv == Prepared /\ Traced(LoadState(disk))

\* The candidate is selected unless it is blocked.
LEMMA SelectIsChoice ==
  ASSUME NEW st \in State, st.current = st.lkg,
         st.pending # None => st.pending \in st.installed
  PROVE  SelectLaunchPatch(st) \in Promise!Choices(st.pending, st.current, st.bad)
  <1>1. None \notin st.installed
    BY PatchesAssumption DEF State, None
  <1>2. st.pending \notin st.bad \cup {None} => SelectLaunchPatch(st) = st.pending
    BY DEF SelectLaunchPatch, Launchable
  <1>3. st.pending \in st.bad \cup {None} => SelectLaunchPatch(st) \in {st.current, None}
    BY <1>1 DEF SelectLaunchPatch, Launchable
  <1>4. QED
    BY <1>2, <1>3 DEF Promise!Choices, Promise!None, None

\* What mark_patch_bad leaves of the candidate and of the confirmed patch.
LEMMA MarkBadFields ==
  ASSUME NEW st, Good(st), NEW p \in PatchOrNone
  PROVE  /\ MarkPatchBad(st, p).pending = IF st.pending = p THEN None ELSE st.pending
         /\ MarkPatchBad(st, p).current = IF st.current = p THEN None ELSE st.current
  <1>1. st \in State /\ st.current = st.lkg
    BY DEF Good
  <1>2. QED
    BY <1>1 DEF MarkPatchBad, State

\* A launch within the limit: the state before the selection differs from the
\* saved one in the last launch only, and the counter is of that launch.
LEMMA LaunchWithinLimit ==
  ASSUME NEW st, Good(st), Traced(st), ~CrashLoop(st), NEW st1, st1 = LaunchState(st)
  PROVE  /\ st1 \in State
         /\ st1.pending = st.pending /\ st1.current = st.current /\ st1.lkg = st.current
         /\ st1.bad = st.bad /\ st1.boot = st.boot /\ st1.installed = st.installed
         /\ st1.boot > 0 => Unconfirmed(st) /\ st.last.patch = SelectLaunchPatch(st1)
         /\ Unconfirmed(st) => st1.last = NoLaunch /\ st.boot + 1 < MaxBootAttempts
         /\ ~Unconfirmed(st) => st1 = st
  <1>1. st \in State /\ st1 \in State /\ st.current = st.lkg
    BY LaunchStateSound DEF Good
  <1>2. Unconfirmed(st) => st1 = [st EXCEPT !.last = NoLaunch]
    BY DEF LaunchState
  <1>3. ~Unconfirmed(st) => st1 = st
    BY DEF LaunchState
  <1>4. /\ st1.pending = st.pending /\ st1.current = st.current /\ st1.lkg = st.lkg
        /\ st1.bad = st.bad /\ st1.boot = st.boot /\ st1.installed = st.installed
    BY <1>1, <1>2, <1>3 DEF State
  <1>5. Unconfirmed(st) => st1.last = NoLaunch
    BY <1>1, <1>2 DEF State
  <1>6. Unconfirmed(st) => st.boot + 1 < MaxBootAttempts
    BY <1>1, BoundsAssumption DEF CrashLoop, State
  <1>7. st1.boot > 0 => st.last.patch = SelectLaunchPatch(st1)
    BY LaunchStateSound
  <1>8. st1.boot > 0 => Unconfirmed(st)
    BY <1>4 DEF Good, Unconfirmed
  <1>9. QED
    BY <1>1, <1>3, <1>4, <1>5, <1>6, <1>7, <1>8

\* A launch over the limit: the last launch's patch is blocked.
LEMMA LaunchOverLimit ==
  ASSUME NEW st, Good(st), Traced(st), CrashLoop(st), NEW st1, st1 = LaunchState(st)
  PROVE  LET t == st.last.patch IN
         /\ st1 \in State /\ t # None /\ st1.lkg = st1.current
         /\ st1.pending = IF st.pending = t THEN None ELSE st.pending
         /\ st1.current = IF st.current = t THEN None ELSE st.current
         /\ st1.bad = st.bad \cup {t} /\ st1.boot = 0
         /\ st1.installed = st.installed /\ st1.last = NoLaunch
  <1> DEFINE t == st.last.patch
             m == MarkPatchBad(st, t)
  <1>1. st \in State /\ st1 \in State /\ t \in PatchOrNone
    BY LaunchStateSound DEF Good, State, LastLaunch
  <1>2. t # None
    BY DEF Traced, CrashLoop
  <1>3. st1 = [m EXCEPT !.last = NoLaunch]
    BY DEF LaunchState, CrashLoop
  <1>4. Good(m) /\ m.boot = 0 /\ m.bad = st.bad \cup {t} /\ m.installed = st.installed
    BY <1>1, MarkBadGood
  <1>5. /\ m.pending = IF st.pending = t THEN None ELSE st.pending
        /\ m.current = IF st.current = t THEN None ELSE st.current
    BY <1>1, MarkBadFields
  <1> HIDE DEF m
  <1>6. /\ st1.pending = m.pending /\ st1.current = m.current /\ st1.lkg = m.lkg
        /\ st1.bad = m.bad /\ st1.boot = m.boot /\ st1.installed = m.installed
        /\ st1.last = NoLaunch /\ m.current = m.lkg
    BY <1>3, <1>4 DEF Good, State
  <1>7. QED
    BY <1>1, <1>2, <1>4, <1>5, <1>6

\* The state that launch_patch saves, field by field.
LEMMA LaunchingFields ==
  ASSUME NEW st, Good(st), NEW st1, st1 = LaunchState(st),
         NEW sel, sel = SelectLaunchPatch(st1)
  PROVE  /\ Launching(st).pending = st1.pending /\ Launching(st).current = st1.current
         /\ Launching(st).bad = st1.bad /\ Launching(st).installed = st1.installed
         /\ sel = None => Launching(st).boot = 0 /\ Launching(st).last = st1.last
         /\ sel # None => /\ Launching(st).boot = st1.boot + 1
                          /\ Launching(st).last = [patch |-> sel,
                                                   status |-> "pending_success"]
  <1>1. st1 \in State
    BY LaunchStateSound
  <1>2. CASE sel = None
    <2>1. Launching(st) = st1
      BY <1>2 DEF Launching
    <2>2. QED
      BY <1>2, <2>1, LaunchNothingGood
  <1>3. CASE sel # None
    <2>1. Launching(st) = Attempted(st1, sel)
      BY <1>3 DEF Launching
    <2>2. QED
      BY <1>1, <1>3, <2>1 DEF Attempted, State
  <1>4. QED
    BY <1>2, <1>3

\* What launch_patch saves is traced.
LEMMA LaunchingTraced ==
  ASSUME NEW st, Good(st), Traced(st)
  PROVE  Traced(Launching(st))
  <1> DEFINE st1 == LaunchState(st)
             sel == SelectLaunchPatch(st1)
             new == Launching(st)
  <1>1. /\ new.pending = st1.pending /\ new.current = st1.current
        /\ new.installed = st1.installed
        /\ sel = None => new.last = st1.last
        /\ sel # None => new.last = [patch |-> sel, status |-> "pending_success"]
    BY LaunchingFields
  <1>2. /\ st1.pending # None => st1.pending \in st1.installed
        /\ Unconfirmed(st1) => st1.last.patch # None
        /\ st1.last.status = "success" => st1.last.patch = st1.current /\ st1.current # None
    <2>1. CASE CrashLoop(st)
      BY <2>1, LaunchOverLimit DEF Traced, NoLaunch, Unconfirmed
    <2>2. CASE ~CrashLoop(st)
      BY <2>2, LaunchWithinLimit DEF Traced, NoLaunch, Unconfirmed
    <2>3. QED
      BY <2>1, <2>2
  <1> HIDE DEF new, sel, st1
  <1>3. QED
    BY <1>1, <1>2 DEF Traced, Unconfirmed, new

\* The state that install saves, field by field; the pending patch is not
\* pruned.
LEMMA InstallingFields ==
  ASSUME NEW st, Good(st), NEW p \in Patches
  PROVE  /\ Installing(st, p).pending = p /\ Installing(st, p).current = st.current
         /\ Installing(st, p).bad = st.bad /\ Installing(st, p).boot = 0
         /\ Installing(st, p).last = st.last
         /\ p \in Installing(st, p).installed
  <1> DEFINE w == WithInstalled(st, p)
  <1>1. w = [st EXCEPT !.schema = SchemaVersion, !.pending = p, !.boot = 0,
                       !.installed = st.installed \cup {p}]
    BY DEF WithInstalled
  <1>2. st \in State
    BY DEF Good
  <1>3. /\ w.pending = p /\ w.current = st.current /\ w.bad = st.bad /\ w.boot = 0
        /\ w.last = st.last /\ w.installed = st.installed \cup {p}
    BY <1>1, <1>2 DEF State
  <1>4. p \notin PruneVictims(w)
    BY <1>3 DEF PruneVictims
  <1>5. Installing(st, p) = [w EXCEPT !.installed = w.installed \ PruneVictims(w)]
    BY DEF Installing
  <1>6. DOMAIN w = DOMAIN st
    BY <1>1
  <1> HIDE DEF w
  <1>7. QED
    BY <1>2, <1>3, <1>4, <1>5, <1>6 DEF State

\* The state that mark_success saves, field by field.
LEMMA ConfirmingFields ==
  ASSUME NEW st, Good(st)
  PROVE  /\ Confirming(st).pending = None /\ Confirming(st).current = st.last.patch
         /\ Confirming(st).bad = st.bad /\ Confirming(st).boot = 0
         /\ Confirming(st).last.patch = st.last.patch
         /\ Confirming(st).last.status = "success"
  <1>1. st \in State
    BY DEF Good
  <1>2. st.last \in LastLaunch
    BY <1>1 DEF State
  <1>3. QED
    BY <1>1, <1>2 DEF Confirming, State, LastLaunch

\* The state that mark_failure saves, field by field.
LEMMA FailingFields ==
  ASSUME NEW st, Good(st), NEW p \in PatchOrNone
  PROVE  /\ Failing(st, p).pending = IF st.pending = p THEN None ELSE st.pending
         /\ Failing(st, p).current = IF st.current = p THEN None ELSE st.current
         /\ Failing(st, p).bad = st.bad \cup {p} /\ Failing(st, p).boot = 0
         /\ Failing(st, p).last.patch = p /\ Failing(st, p).last.status = "failure"
         /\ Failing(st, p).installed = st.installed
  <1> DEFINE m == MarkPatchBad(st, p)
  <1>1. Good(m) /\ m.boot = 0 /\ m.bad = st.bad \cup {p} /\ m.installed = st.installed
    BY MarkBadGood
  <1>2. /\ m.pending = IF st.pending = p THEN None ELSE st.pending
        /\ m.current = IF st.current = p THEN None ELSE st.current
    BY MarkBadFields
  <1>3. Failing(st, p) = [m EXCEPT !.last = [patch |-> p, status |-> "failure"]]
    BY DEF Failing
  <1> HIDE DEF m
  <1>4. QED
    BY <1>1, <1>2, <1>3 DEF Good, State

\* What an operation has prepared is traced.
LEMMA PreparedTraced ==
  ASSUME GoodInv, PromiseInv, op.pc = "commit"
  PROVE  Traced(op.state)
  <1> DEFINE st == LoadState(disk)
  <1>1. Good(st) /\ Traced(st) /\ op.patch \in PatchOrNone
    BY DEF GoodInv, PromiseInv, TypeOK, Op
  <1> HIDE DEF st
  <1>2. CASE op.state = Launching(st)
    BY <1>1, <1>2, LaunchingTraced
  <1>3. CASE op.patch \in Patches /\ op.state = Installing(st, op.patch)
    BY <1>1, <1>3, InstallingFields DEF Traced, Unconfirmed
  <1>4. CASE SuccessAccepted(st) /\ op.state = Confirming(st)
    <2>1. st.last.patch # None
      <3>1. st.last.status \in {"pending_success", "success"}
        BY <1>1, <1>4 DEF SuccessAccepted, Good, State, LastLaunch, LaunchStatus
      <3>2. QED
        BY <1>1, <3>1 DEF Traced, Unconfirmed
    <2>2. QED
      BY <1>1, <1>4, <2>1, ConfirmingFields DEF Traced, Unconfirmed
  <1>5. CASE op.state = Failing(st, op.patch)
    BY <1>1, <1>5, FailingFields DEF Traced, Unconfirmed
  <1>6. QED
    BY <1>2, <1>3, <1>4, <1>5 DEF PromiseInv, Prepared, st

\* At first nothing is prepared, and a version 1 file is traced once migrated.
LEMMA PromiseInvInit == Init => PromiseInv
  <1> SUFFICES ASSUME Init PROVE PromiseInv
    OBVIOUS
  <1>1. Prepared
    BY IdleType DEF Init, Prepared
  <1>2. CASE disk = [file |-> "missing", state |-> DefaultState]
    BY <1>1, <1>2 DEF PromiseInv, Traced, LoadState, DefaultState, NoLaunch, Unconfirmed
  <1>3. CASE \E st \in LegacyStates : disk = [file |-> "ok", state |-> st]
    <2>1. PICK d \in LegacyStates : disk = [file |-> "ok", state |-> d]
      BY <1>3
    <2>2. LoadState(disk) = MigrateState(d)
      BY <2>1 DEF LoadState
    <2>3. /\ d.pending # None => d.pending \in d.installed
          /\ d.last.status = "pending_success" => d.last.patch # None
          /\ d.last.status = "success" => d.last.patch = d.current /\ d.current # None
      BY DEF LegacyStates, NoLaunch
    <2>4. QED
      BY <1>1, <2>2, <2>3, LegacyFields DEF PromiseInv, Traced, Unconfirmed
  <1>4. QED
    BY <1>2, <1>3 DEF Init

\* Every step keeps what the operation in progress has prepared.
LEMMA PromiseInvNext == GoodInv /\ PromiseInv /\ [Next]_vars => PromiseInv'
  <1> SUFFICES ASSUME GoodInv, PromiseInv, [Next]_vars PROVE PromiseInv'
    OBVIOUS
  <1> DEFINE st == LoadState(disk)
  <1>1. LoadState(DiskAfterLoad) = st /\ Good(st) /\ Traced(st)
    BY AfterLoad DEF PromiseInv, GoodInv
  <1>2. CASE Start
    BY <1>2 DEF Start, PromiseInv, Prepared
  <1>3. CASE Crash
    BY <1>3, IdleType DEF Crash, PromiseInv, Prepared
  <1>4. CASE CrashInReset
    BY <1>1, <1>4, IdleType DEF CrashInReset, PromiseInv, Prepared
  <1>5. CASE Abort
    BY <1>5, IdleType DEF Abort, PromiseInv, Prepared
  <1>6. CASE CorruptFile
    BY <1>6, IdleType DEF CorruptFile, PromiseInv, Prepared, LoadState, DefaultState,
                          Traced, NoLaunch, Unconfirmed
  <1>7. CASE LaunchPatch
    <2> DEFINE sel == SelectLaunchPatch(LaunchState(st))
    <2>1. disk' = DiskAfterLoad /\ op = Idle
      BY <1>7 DEF LaunchPatch
    <2>2. \/ UNCHANGED op
          \/ op' = [pc |-> "commit", call |-> "launch", patch |-> sel,
                    state |-> Launching(st)]
      BY <1>7 DEF LaunchPatch, Launching, Attempted
    <2> HIDE DEF st, sel
    <2>3. LoadState(disk') = st
      BY <1>1, <2>1
    <2>4. Prepared'
      BY <2>1, <2>2, <2>3, IdleType DEF Prepared, sel
    <2>5. QED
      BY <1>1, <2>3, <2>4 DEF PromiseInv
  <1>8. CASE \E p \in Patches : InstallUnpack(p)
    <2>1. PICK p \in Patches : InstallUnpack(p)
      BY <1>8
    <2>2. op'.pc = "unpacked"
      BY <2>1, IdleType DEF InstallUnpack, Op
    <2>3. QED
      BY <2>1, <2>2 DEF InstallUnpack, PromiseInv, Prepared
  <1>9. CASE InstallStage
    <2>1. op \in Op /\ op.patch \in Patches /\ op.call = "install"
      BY <1>9 DEF InstallStage, GoodInv, TypeOK
    <2>2. disk' = DiskAfterLoad
            /\ op' = [op EXCEPT !.pc = "commit", !.state = Installing(st, op.patch)]
      BY <1>9 DEF InstallStage, Installing
    <2> HIDE DEF st
    <2>3. LoadState(disk') = st
      BY <1>1, <2>2
    <2>4. op'.call = "install" /\ op'.patch = op.patch
            /\ op'.state = Installing(st, op.patch)
      BY <2>1, <2>2 DEF Op
    <2>5. QED
      BY <1>1, <2>1, <2>3, <2>4 DEF PromiseInv, Prepared
  <1>10. CASE MarkSuccess
    <2>1. disk' = DiskAfterLoad
            /\ op' = IF SuccessAccepted(st)
                     THEN [pc |-> "commit", call |-> "success", patch |-> st.last.patch,
                           state |-> Confirming(st)]
                     ELSE Idle
      BY <1>10 DEF MarkSuccess, Confirming
    <2> HIDE DEF st
    <2>2. LoadState(disk') = st
      BY <1>1, <2>1
    <2>3. QED
      BY <1>1, <2>1, <2>2, IdleType DEF PromiseInv, Prepared
  <1>11. CASE \E p \in PatchOrNone : MarkFailure(p)
    <2>1. PICK p \in PatchOrNone : MarkFailure(p)
      BY <1>11
    <2>2. disk' = DiskAfterLoad
            /\ op' = [pc |-> "commit", call |-> "failure", patch |-> p,
                      state |-> Failing(st, p)]
      BY <2>1 DEF MarkFailure, Failing
    <2> HIDE DEF st
    <2>3. LoadState(disk') = st
      BY <1>1, <2>2
    <2>4. QED
      BY <1>1, <2>2, <2>3 DEF PromiseInv, Prepared
  <1>12. CASE ReadState
    BY <1>1, <1>12, IdleType DEF ReadState, PromiseInv, Prepared
  <1>13. CASE ClearRollbackEvents
    BY <1>13 DEF ClearRollbackEvents, PromiseInv, Prepared
  <1>14. CASE Commit
    <2>1. Good(op.state) /\ Traced(op.state)
      BY <1>14, PreparedTraced DEF Commit, GoodInv
    <2>2. disk' = [file |-> "ok", state |-> op.state] /\ op' = Idle
      BY <1>14 DEF Commit
    <2>3. LoadState(disk') = op.state
      BY <2>1, <2>2 DEF LoadState, MigrateState, Good, SchemaVersion
    <2>4. QED
      BY <2>1, <2>2, <2>3, IdleType DEF PromiseInv, Prepared
  <1>15. CASE UNCHANGED vars
    BY <1>15 DEF vars, PromiseInv, Prepared
  <1>16. QED
    BY <1>2, <1>3, <1>4, <1>5, <1>6, <1>7, <1>8, <1>9, <1>10, <1>11, <1>12,
       <1>13, <1>14, <1>15 DEF Next

\* The initial states map to initial states.
LEMMA PromiseInit == Init => Promise!Init
  <1> SUFFICES ASSUME Init PROVE Promise!Init
    OBVIOUS
  <1>1. CASE disk = [file |-> "missing", state |-> DefaultState]
    BY <1>1 DEF Init, Promise!Init, Promise!None, LoadState, DefaultState, NoLaunch,
                Unconfirmed, None
  <1>2. CASE \E st \in LegacyStates : disk = [file |-> "ok", state |-> st]
    <2>1. PICK d \in LegacyStates : disk = [file |-> "ok", state |-> d]
      BY <1>2
    <2>2. LoadState(disk) = MigrateState(d)
      BY <2>1 DEF LoadState
    <2> DEFINE st == LoadState(disk)
    <2>3. /\ st.current \in PatchOrNone /\ st.pending \in PatchOrNone
          /\ st.bad = {} /\ st.boot = 0
          /\ Unconfirmed(st) => st.last.patch \in {st.current, st.pending}
      <3>1. d.last.status = "pending_success" => d.last.patch \in {d.current, d.pending}
        BY DEF LegacyStates, NoLaunch
      <3>2. QED
        BY <2>2, <3>1, LegacyFields DEF State, Unconfirmed
    <2>4. launched = None
      BY DEF Init
    <2> HIDE DEF st
    <2>5. QED
      BY <2>3, <2>4 DEF Promise!Init, Promise!None, None, PatchOrNone, st
  <1>3. QED
    BY <1>1, <1>2 DEF Init

\* A step that changes neither what is loaded nor what the process runs is a
\* stutter of the promise.
LEMMA PromiseStutters ==
  ASSUME LoadState(disk') = LoadState(disk), launched' = launched
  PROVE  UNCHANGED Promise!promiseVars
  BY DEF Promise!promiseVars

\* Saving a launch is a launch or a rollback of the promise.
LEMMA PromiseLaunch ==
  ASSUME NEW st, st = LoadState(disk), Good(st), Traced(st),
         LoadState(disk') = Launching(st),
         launched' = SelectLaunchPatch(LaunchState(st))
  PROVE  Promise!Launch \/ Promise!RollBack
  <1> DEFINE st1 == LaunchState(st)
             sel == SelectLaunchPatch(st1)
             new == Launching(st)
  <1>1. /\ new.pending = st1.pending /\ new.current = st1.current /\ new.bad = st1.bad
        /\ sel = None => new.boot = 0 /\ new.last = st1.last
        /\ sel # None => /\ new.boot = st1.boot + 1
                         /\ new.last = [patch |-> sel, status |-> "pending_success"]
    BY LaunchingFields
  <1>2. st1 \in State /\ st1.boot \in Nat /\ st.boot \in Nat
    BY LaunchStateSound, BoundsAssumption DEF State, Good
  <1>3. CASE ~CrashLoop(st)
    <2>1. /\ st1.pending = st.pending /\ st1.current = st.current
          /\ st1.lkg = st.current /\ st1.bad = st.bad /\ st1.boot = st.boot
          /\ st1.installed = st.installed
          /\ st1.boot > 0 => Unconfirmed(st) /\ st.last.patch = sel
          /\ Unconfirmed(st) => st1.last = NoLaunch /\ st.boot + 1 < MaxBootAttempts
          /\ ~Unconfirmed(st) => st1 = st
      BY <1>3, LaunchWithinLimit
    <2>2. sel \in Promise!Choices(st.pending, st.current, st.bad)
      <3>1. st1.pending # None => st1.pending \in st1.installed
        BY <2>1 DEF Traced
      <3>2. QED
        BY <1>2, <2>1, <3>1, SelectIsChoice
    <2> DEFINE t == IF Unconfirmed(st) THEN st.last.patch ELSE None
    <2>3. t = None \/ st.boot + 1 < MaxBootAttempts
      BY <2>1
    <2>4. (IF Unconfirmed(new) THEN new.last.patch ELSE None) = sel
      <3>1. CASE sel = None
        BY <1>1, <2>1, <3>1 DEF Unconfirmed, NoLaunch
      <3>2. CASE sel # None
        BY <1>1, <3>2 DEF Unconfirmed
      <3>3. QED
        BY <3>1, <3>2
    <2>5. new.boot = IF sel = None THEN 0
                     ELSE IF sel = t THEN st.boot + 1 ELSE 1
      BY <1>1, <1>2, <2>1
    <2> HIDE DEF t, new, sel, st1
    <2>6. Promise!Launch
      BY <1>1, <2>1, <2>2, <2>3, <2>4, <2>5
         DEF Promise!Launch, Promise!Try, Promise!None, None, t, new, sel, st1
    <2>7. QED
      BY <2>6
  <1>4. CASE CrashLoop(st)
    <2> DEFINE t == st.last.patch
    <2>1. /\ t # None /\ st1.lkg = st1.current
          /\ st1.pending = IF st.pending = t THEN None ELSE st.pending
          /\ st1.current = IF st.current = t THEN None ELSE st.current
          /\ st1.bad = st.bad \cup {t} /\ st1.boot = 0
          /\ st1.installed = st.installed /\ st1.last = NoLaunch
      BY <1>4, LaunchOverLimit
    <2>2. sel \in Promise!Choices(new.pending, new.current, new.bad)
      <3>1. st1.pending # None => st1.pending \in st1.installed
        BY <2>1 DEF Traced
      <3>2. sel \in Promise!Choices(st1.pending, st1.current, st1.bad)
        BY <1>2, <2>1, <3>1, SelectIsChoice
      <3>3. QED
        BY <1>1, <3>2
    <2>3. Unconfirmed(st) /\ st.boot + 1 >= MaxBootAttempts
      BY <1>4 DEF CrashLoop
    <2>4. (IF Unconfirmed(new) THEN new.last.patch ELSE None) = sel
      <3>1. CASE sel = None
        BY <1>1, <2>1, <3>1 DEF Unconfirmed, NoLaunch
      <3>2. CASE sel # None
        BY <1>1, <3>2 DEF Unconfirmed
      <3>3. QED
        BY <3>1, <3>2
    <2>5. new.boot = IF sel = None THEN 0 ELSE 1
      BY <1>1, <2>1
    <2> HIDE DEF t, new, sel, st1
    <2>6. Promise!RollBack
      BY <1>1, <2>1, <2>2, <2>3, <2>4, <2>5
         DEF Promise!RollBack, Promise!Block, Promise!Try, Promise!None, None,
             t, new, sel, st1
    <2>7. QED
      BY <2>6
  <1>5. QED
    BY <1>3, <1>4

\* Saving an install, a confirmation or a failure is the promise's step.
LEMMA PromiseSaves ==
  ASSUME NEW st, st = LoadState(disk), Good(st), Traced(st), UNCHANGED launched,
         NEW p \in PatchOrNone, NEW new, new = LoadState(disk'),
         \/ p \in Patches /\ new = Installing(st, p)
         \/ SuccessAccepted(st) /\ new = Confirming(st)
         \/ new = Failing(st, p)
  PROVE  [Promise!Next]_(Promise!promiseVars)
  <1>1. CASE p \in Patches /\ new = Installing(st, p)
    <2>1. /\ new.pending = p /\ new.current = st.current /\ new.bad = st.bad
          /\ new.boot = 0 /\ new.last = st.last
      BY <1>1, InstallingFields
    <2>2. Promise!Install
      BY <1>1, <2>1 DEF Promise!Install, Unconfirmed
    <2>3. QED
      BY <2>2 DEF Promise!Next
  <1>2. CASE SuccessAccepted(st) /\ new = Confirming(st)
    <2>1. /\ new.pending = None /\ new.current = st.last.patch /\ new.bad = st.bad
          /\ new.boot = 0 /\ new.last.status = "success"
      BY <1>2, ConfirmingFields
    <2>2. CASE Unconfirmed(st)
      <3>1. st.last.patch \notin st.bad \cup {None}
        BY <1>2, <2>2 DEF SuccessAccepted, Traced
      <3>2. Promise!Confirm
        BY <2>1, <2>2, <3>1 DEF Promise!Confirm, Promise!None, None, Unconfirmed
      <3>3. QED
        BY <3>2 DEF Promise!Next
    <2>3. CASE ~Unconfirmed(st)
      <3>1. st.last.status = "success"
        BY <1>2, <2>3 DEF SuccessAccepted, Unconfirmed, Good, State, LastLaunch,
                          LaunchStatus
      <3>2. st.last.patch = st.current /\ st.current # None
        BY <3>1 DEF Traced
      <3>3. st.boot = 0
        BY <2>3, BoundsAssumption DEF Good, State, Unconfirmed
      <3>4. Promise!ConfirmAgain
        BY <2>1, <2>3, <3>2, <3>3 DEF Promise!ConfirmAgain, Promise!None, None, Unconfirmed
      <3>5. QED
        BY <3>4 DEF Promise!Next
    <2>4. QED
      BY <2>2, <2>3
  <1>3. CASE new = Failing(st, p)
    <2>1. /\ new.pending = IF st.pending = p THEN None ELSE st.pending
          /\ new.current = IF st.current = p THEN None ELSE st.current
          /\ new.bad = st.bad \cup {p} /\ new.boot = 0 /\ new.last.status = "failure"
      BY <1>3, FailingFields
    <2>2. Promise!Fail
      BY <2>1 DEF Promise!Fail, Promise!Block, Promise!None, None, Unconfirmed, PatchOrNone
    <2>3. QED
      BY <2>2 DEF Promise!Next
  <1>4. QED
    BY <1>1, <1>2, <1>3

\* A launch that has nothing to save is one of the baseline.
LEMMA PromiseBaseline ==
  ASSUME NEW st, st = LoadState(disk), Good(st), Traced(st),
         LoadState(disk') = st, launched' = None, ~Unconfirmed(st),
         SelectLaunchPatch(LaunchState(st)) = None
  PROVE  Promise!Launch
  <1>1. LaunchState(st) = st /\ ~CrashLoop(st)
    BY DEF LaunchState, CrashLoop
  <1>2. Launching(st) = st
    BY <1>1 DEF Launching
  <1>3. Promise!Launch \/ Promise!RollBack
    BY <1>2, PromiseLaunch
  <1>4. ~Promise!RollBack
    BY DEF Promise!RollBack, Promise!None, None
  <1>5. QED
    BY <1>3, <1>4

\* Every step of the updater is a step of the promise or a stutter.
LEMMA PromiseStep ==
  GoodInv /\ PromiseInv /\ [Next]_vars => [Promise!Next]_(Promise!promiseVars)
  <1> SUFFICES ASSUME GoodInv, PromiseInv, [Next]_vars
               PROVE  [Promise!Next]_(Promise!promiseVars)
    OBVIOUS
  <1> DEFINE st == LoadState(disk)
  <1>1. LoadState(DiskAfterLoad) = st /\ Good(st) /\ Traced(st)
    BY AfterLoad DEF PromiseInv, GoodInv
  <1>2. CASE UNCHANGED launched /\ disk' \in {disk, DiskAfterLoad}
    BY <1>1, <1>2, PromiseStutters
  <1>3. ASSUME launched' = None, disk' \in {disk, DiskAfterLoad}
        PROVE  [Promise!Next]_(Promise!promiseVars)
    <2>1. LoadState(disk') = st
      BY <1>1, <1>3
    <2>2. Promise!Exit
      BY <1>3, <2>1 DEF Promise!Exit, Promise!None, None
    <2>3. QED
      BY <2>2 DEF Promise!Next
  <1>4. CASE Start \/ Abort \/ ReadState \/ ClearRollbackEvents \/ InstallStage
             \/ MarkSuccess \/ UNCHANGED vars
    BY <1>2, <1>4 DEF Start, Abort, ReadState, ClearRollbackEvents, InstallStage,
                      MarkSuccess, vars
  <1>5. CASE \/ \E p \in Patches : InstallUnpack(p)
             \/ \E p \in PatchOrNone : MarkFailure(p)
    BY <1>2, <1>5 DEF InstallUnpack, MarkFailure
  <1>6. CASE Crash \/ CrashInReset
    BY <1>3, <1>6 DEF Crash, CrashInReset
  <1>7. CASE CorruptFile
    <2>1. LoadState(disk') = DefaultState /\ launched' = launched
      BY <1>7 DEF CorruptFile, LoadState
    <2>2. Promise!Reset
      BY <2>1 DEF Promise!Reset, Promise!None, None, DefaultState, NoLaunch, Unconfirmed
    <2>3. QED
      BY <2>2 DEF Promise!Next
  <1>8. CASE LaunchPatch
    <2> DEFINE sel == SelectLaunchPatch(LaunchState(st))
    <2>1. CASE sel = None /\ ~Unconfirmed(st)
      <3>1. disk' = DiskAfterLoad /\ launched' = None
        BY <1>8, <2>1 DEF LaunchPatch
      <3>2. LoadState(disk') = st
        BY <1>1, <3>1
      <3>3. Promise!Launch
        BY <1>1, <2>1, <3>1, <3>2, PromiseBaseline
      <3>4. QED
        BY <3>3 DEF Promise!Next
    <2>2. CASE ~(sel = None /\ ~Unconfirmed(st))
      BY <1>2, <1>8, <2>2 DEF LaunchPatch
    <2>3. QED
      BY <2>1, <2>2
  <1>9. CASE Commit
    <2>1. Good(op.state) /\ op.pc = "commit" /\ op.patch \in PatchOrNone
      BY <1>9 DEF Commit, GoodInv, TypeOK, Op
    <2>2. LoadState(disk') = op.state
      BY <1>9, <2>1 DEF Commit, LoadState, MigrateState, Good, SchemaVersion
    <2>3. CASE op.call = "launch"
      <3>1. op.state = Launching(st) /\ op.patch = SelectLaunchPatch(LaunchState(st))
        BY <2>1, <2>3 DEF PromiseInv, Prepared
      <3>2. launched' = op.patch
        BY <1>9, <2>3 DEF Commit
      <3>3. Promise!Launch \/ Promise!RollBack
        BY <1>1, <2>2, <3>1, <3>2, PromiseLaunch
      <3>4. QED
        BY <3>3 DEF Promise!Next
    <2>4. CASE op.call # "launch"
      <3>1. UNCHANGED launched
        BY <1>9, <2>4 DEF Commit
      <3>2. \/ op.patch \in Patches /\ op.state = Installing(st, op.patch)
            \/ SuccessAccepted(st) /\ op.state = Confirming(st)
            \/ op.state = Failing(st, op.patch)
        BY <2>1, <2>4 DEF PromiseInv, Prepared
      <3> HIDE DEF st
      <3>3. QED
        BY <1>1, <2>1, <2>2, <3>1, <3>2, PromiseSaves DEF st
    <2>5. QED
      BY <2>3, <2>4
  <1>10. QED
    BY <1>4, <1>5, <1>6, <1>7, <1>8, <1>9 DEF Next

\* The updater implements LaunchPromise, for any patches and limits: initial
\* states map to initial states and every step to a step or a stutter,
\* deaths between two writes, resets and migrated files included.
THEOREM UpdaterKeepsPromise == Spec => KeepsLaunchPromise
  <1>1. Spec => [](GoodInv /\ PromiseInv)
    BY GoodInvInit, GoodInvNext, PromiseInvInit, PromiseInvNext, PTL DEF Spec
  <1>2. QED
    BY <1>1, PromiseInit, PromiseStep, PTL DEF Spec, KeepsLaunchPromise, Promise!Spec

=============================================================================
