---------------------------- MODULE EventDelivery ----------------------------
(***************************************************************************)
(* How the events of a device reach the server: events.log and the runtime  *)
(* configuration on the device's disk, flush_rollback_events and the direct *)
(* posts of updater/src/lib.rs with the retry loop of Client::post_json,    *)
(* and a network and a process that fail at any point.  The runtime mutex   *)
(* makes the calls of one process sequential, so pc is a single counter.    *)
(***************************************************************************)
EXTENDS Naturals, Sequences

CONSTANTS MaxLog,        \* MAX_ROLLBACK_EVENTS
          Retries,       \* the length of RETRY_DELAYS
          MaxEvents      \* bound: events logged in one behaviour
ASSUME DeliveryAssumption ==
    MaxLog \in Nat \ {0} /\ Retries \in Nat /\ MaxEvents \in Nat

VARIABLES pc,            \* what the process is doing
          cfg,           \* the Runtime in memory: what it knows of
          file,          \* runtime_config.json
          log,           \* events.log, oldest first
          last,          \* the number of the newest event
          rows,          \* the events in patch_events, the server's table
          taken,         \* the events handed to the app's callback
          at,            \* the event that is being posted
          attempt,       \* failed attempts at it
          calm           \* from some point on nothing fails any more
vars == <<pc, cfg, file, log, last, rows, taken, at, attempt, calm>>

Promise == INSTANCE EventLog WITH received <- rows, handed <- taken

-----------------------------------------------------------------------------
(* State                                                                    *)

\* app_id and release_version come with fcb_init, server_url on its own.
Config == [id : BOOLEAN, server : BOOLEAN]
Unset == [id |-> FALSE, server |-> FALSE]
File == [state : {"missing", "torn", "ok"}, cfg : Config]
Torn == [state |-> "torn", cfg |-> Unset]
NoFile == [state |-> "missing", cfg |-> Unset]

\* The first lines of every function that posts.
Configured(c) == c.server /\ c.id

TypeOK ==
    /\ pc \in {"down", "boot", "idle", "flush", "clear", "report"}
    /\ cfg \in Config
    /\ file \in File
    /\ last \in 0..MaxEvents
    /\ log \in Seq(1..last)
    /\ Len(log) <= MaxLog
    /\ rows \subseteq 1..last /\ taken \subseteq 1..last
    /\ at \in 1..MaxLog
    /\ attempt \in 0..Retries
    /\ calm \in BOOLEAN

Init ==
    /\ pc = "down" /\ cfg = Unset /\ file = NoFile
    /\ log = <<>> /\ last = 0 /\ rows = {} /\ taken = {}
    /\ at = 1 /\ attempt = 0
    /\ calm \in BOOLEAN

-----------------------------------------------------------------------------
(* The process and its configuration                                        *)

Start ==
    /\ pc = "down"
    /\ pc' = "boot"
    /\ UNCHANGED <<cfg, file, log, last, rows, taken, at, attempt, calm>>

\* The process ends, in whatever it was doing.
Ends ==
    /\ pc' = "down"
    /\ cfg' = Unset
    /\ UNCHANGED <<file, log, last, rows, taken, at, attempt, calm>>
Crash == pc # "down" /\ ~calm /\ Ends
Exit == pc = "idle" /\ Configured(cfg) /\ Ends

\* persist_runtime_config: the file is truncated and written in place, and
\* the callers ignore an error.
Persist(c) ==
    \/ file' = [state |-> "ok", cfg |-> c]
    \/ ~calm /\ file' \in {file, Torn}

\* hydrate_runtime_config fills in what is missing; a file that does not
\* parse is ignored by the callers.
Hydrated ==
    IF file.state = "ok"
    THEN [id |-> cfg.id \/ file.cfg.id, server |-> cfg.server \/ file.cfg.server]
    ELSE cfg

\* The engine calls fcb_init before the launch, the app when it configures.
FcbInit ==
    /\ pc \in {"boot", "idle"}
    /\ cfg' = [cfg EXCEPT !.id = TRUE]
    /\ Persist(cfg')
    /\ UNCHANGED <<pc, log, last, rows, taken, at, attempt, calm>>

\* Only the app calls fcb_set_server_url.
SetServerUrl ==
    /\ pc = "idle"
    /\ cfg' = [cfg EXCEPT !.server = TRUE]
    /\ Persist(cfg')
    /\ UNCHANGED <<pc, log, last, rows, taken, at, attempt, calm>>

-----------------------------------------------------------------------------
(* The log                                                                  *)

\* Fault: the log has no cap.
LogEventUncapped ==
    /\ log' = Append(log, last + 1)
    /\ last' = last + 1

\* append_rollback_event.
LogEvent ==
    /\ log' = Promise!Appended
    /\ last' = last + 1

\* A call that finds state.json corrupt logs the reset.
LogReset ==
    /\ pc \in {"boot", "idle"}
    /\ last < MaxEvents
    /\ LogEvent
    /\ UNCHANGED <<pc, cfg, file, rows, taken, at, attempt, calm>>

\* fcb_get_launch_patch: launch_patch may log a crash rollback, and the log
\* is flushed to the server as it then is, if one is configured.
Launch ==
    /\ pc \in {"boot", "idle"}
    /\ \/ UNCHANGED <<log, last>>
       \/ last < MaxEvents /\ LogEvent
    /\ pc' = IF Configured(cfg) /\ log' # <<>> THEN "flush" ELSE "idle"
    /\ at' = 1
    /\ attempt' = 0
    /\ UNCHANGED <<cfg, file, rows, taken, calm>>

\* fcb_get_launch_patch when launch_patch or the reading of the log fails.
LaunchFails ==
    /\ pc \in {"boot", "idle"}
    /\ ~calm
    /\ pc' = "idle"
    /\ UNCHANGED <<cfg, file, log, last, rows, taken, at, attempt, calm>>

\* fcb_drain_rollback_events; a null callback gives the events up.
Drain ==
    /\ pc = "idle"
    /\ taken' = taken \cup {log[i] : i \in 1..Len(log)}
    /\ pc' = "clear"
    /\ UNCHANGED <<cfg, file, log, last, rows, at, attempt, calm>>

\* clear_rollback_events, the end of a flush and of a drain.
Clear ==
    /\ pc = "clear"
    /\ \/ log' = <<>>
       \/ ~calm /\ log' = log
    /\ pc' = "idle"
    /\ UNCHANGED <<cfg, file, last, rows, taken, at, attempt, calm>>

-----------------------------------------------------------------------------
(* Posts                                                                    *)

\* fcb_mark_launch_failure and fcb_report_interpret_failure: hydrate, post.
Report ==
    /\ pc = "idle"
    /\ cfg' = Hydrated
    /\ pc' = IF Configured(Hydrated) THEN "report" ELSE "idle"
    /\ attempt' = 0
    /\ UNCHANGED <<file, log, last, rows, taken, at, calm>>

\* fcb_mark_launch_success and an install: post without hydrating.
Confirm ==
    /\ pc = "idle"
    /\ Configured(cfg)
    /\ pc' = "report"
    /\ attempt' = 0
    /\ UNCHANGED <<cfg, file, log, last, rows, taken, at, calm>>

\* The event of the log that is in flight (a report is not in the log).
InFlight == IF pc = "flush" THEN {log[at]} ELSE {}

\* Fault: the log is removed although events are left to post.
PostedClearsEarly ==
    /\ pc' = IF pc = "flush" THEN "clear" ELSE "idle"
    /\ attempt' = 0
    /\ UNCHANGED at

\* Fault: a flush ends without clearing the log.
PostedKeepsLog ==
    /\ IF pc = "flush" /\ at < Len(log)
       THEN pc' = pc /\ at' = at + 1
       ELSE pc' = "idle" /\ at' = at
    /\ attempt' = 0

\* post_event returned Ok: the next event, or the end of the call.
Posted ==
    /\ IF pc = "flush" /\ at < Len(log)
       THEN pc' = pc /\ at' = at + 1
       ELSE pc' = (IF pc = "flush" THEN "clear" ELSE "idle") /\ at' = at
    /\ attempt' = 0

\* Fault: when the attempts are used up the flush goes on as if it were done.
TryAgainThenClear ==
    /\ IF attempt < Retries
       THEN attempt' = attempt + 1 /\ pc' = pc
       ELSE attempt' = attempt /\ pc' = "clear"
    /\ UNCHANGED at

\* The retry branches of post_json; when the attempts are used up the error
\* ends the flush and the log stays.
TryAgain ==
    /\ IF attempt < Retries
       THEN attempt' = attempt + 1 /\ pc' = pc
       ELSE attempt' = attempt /\ pc' = "idle"
    /\ UNCHANGED at

Posting == pc \in {"flush", "report"}

\* The event handler of the server inserts a row and the answer arrives.
Stored ==
    /\ Posting
    /\ rows' = rows \cup InFlight
    /\ Posted
    /\ UNCHANGED <<cfg, file, log, last, taken, calm>>

\* The row is inserted and the answer is lost.
StoredUnheard ==
    /\ Posting /\ ~calm
    /\ rows' = rows \cup InFlight
    /\ TryAgain
    /\ UNCHANGED <<cfg, file, log, last, taken, calm>>

\* The request is lost or answered with 5xx.
Lost ==
    /\ Posting /\ ~calm
    /\ TryAgain
    /\ UNCHANGED <<cfg, file, log, last, rows, taken, calm>>

\* An answer below 500 that is no success ends the call at once.
Refused ==
    /\ Posting /\ ~calm
    /\ pc' = "idle"
    /\ UNCHANGED <<cfg, file, log, last, rows, taken, at, attempt, calm>>

Settle ==
    /\ ~calm
    /\ calm' = TRUE
    /\ UNCHANGED <<pc, cfg, file, log, last, rows, taken, at, attempt>>

-----------------------------------------------------------------------------

Next ==
    \/ Start \/ Crash \/ Exit \/ FcbInit \/ SetServerUrl
    \/ LogReset \/ Launch \/ LaunchFails \/ Drain \/ Clear
    \/ Report \/ Confirm
    \/ Stored \/ StoredUnheard \/ Lost \/ Refused
    \/ Settle

Spec == Init /\ [][Next]_vars

\* A call that has begun goes on, the user opens the app again, and the
\* engine launches a patch before the root isolate exists.
CallsGoOn ==
    /\ WF_vars(Start)
    /\ WF_vars(pc = "boot" /\ Launch)
    /\ WF_vars(Stored)
    /\ WF_vars(Clear)
    /\ SF_vars(~cfg.id /\ FcbInit)
    /\ SF_vars(~cfg.server /\ SetServerUrl)

\* In addition the app keeps asking for the launch patch once it is
\* configured (launchBytecodePatchPath of the Flutter package does).
FairSpec == Spec /\ CallsGoOn /\ SF_vars(pc = "idle" /\ Configured(cfg) /\ Launch)

\* The process of PLAN.md 9.2: fcb_init and fcb_get_launch_patch once, by the
\* engine; the app then configures itself and ends.  Nothing ever fails.
EngineNext ==
    \/ Start
    \/ FcbInit
    \/ pc = "boot" /\ cfg.id /\ Launch
    \/ SetServerUrl
    \/ Stored
    \/ Clear
    \/ Exit
EngineInit == Init /\ calm
EngineSpec == EngineInit /\ [][EngineNext]_vars /\ CallsGoOn /\ WF_vars(Exit)

-----------------------------------------------------------------------------
(* Properties                                                               *)

\* The posts, the retries, the drains, the crashes and the lost answers
\* together do what EventLog promises: flush_rollback_events and
\* fcb_drain_rollback_events lose no event and reorder none.
KeepsPromise == Promise!Spec

\* While a flush is under way everything before the event in flight is stored,
\* and the log is only cleared when the server or the app has all of it.
ClearIsCovered ==
    /\ pc = "flush" =>
         at \in 1..Len(log) /\ \A j \in 1..(at - 1) : log[j] \in rows
    /\ pc = "clear" =>
         \/ \A i \in 1..Len(log) : log[i] \in rows
         \/ \A i \in 1..Len(log) : log[i] \in taken

InLog(e) == \E i \in 1..Len(log) : log[i] = e

\* Once nothing fails any more, every event in the log leaves it.
LogDrains ==
    \A e \in 1..MaxEvents :
        (calm /\ InLog(e)) ~> ~InLog(e)

\* plans/phase_g_client_resilience.md:113: an event that was not delivered
\* stays in events.log and is reported at a later start.
ReportedAtALaterStart ==
    \A e \in 1..MaxEvents : InLog(e) ~> (e \in rows \/ ~InLog(e))
=============================================================================
