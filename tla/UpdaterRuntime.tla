--------------------------- MODULE UpdaterRuntime ---------------------------
(***************************************************************************)
(* The C ABI of updater/src/lib.rs as it runs on several threads: the       *)
(* global Mutex<Runtime> with its cached check response, the single-flight  *)
(* table of update checks, and the cancellation flag.                       *)
(*                                                                          *)
(* fcb_check_for_update_blocking holds the runtime mutex only to read the   *)
(* request and to store the response; fcb_download_and_install_blocking     *)
(* holds it from beginning to end, a check it may have to make included.    *)
(* Every other function takes the mutex, works and lets go.                 *)
(***************************************************************************)
EXTENDS Integers, FiniteSets

CONSTANTS
    Threads,    \* the threads that call the C ABI
    NoThread,   \* the owner of a mutex nobody holds
    Configs,    \* values of server_url, app, channel, ... that select a server view
    Patches,    \* patch numbers the server may offer
    Running,    \* the patch this process was launched with and has not confirmed
    MaxCalls    \* bound: calls made by all threads together

ASSUME ThreadsAssumption == NoThread \notin Threads
ASSUME PatchesAssumption == Patches \subseteq Nat \ {0} /\ Running \in Patches
ASSUME MaxCallsAssumption == MaxCalls \in Nat

VARIABLES
    lock,       \* the owner of RUNTIME
    config,     \* the configuration in Runtime, or Unset
    lastCheck,  \* Runtime.last_check
    cancel,     \* CANCEL_PENDING
    flights,    \* CHECK_FLIGHTS: request -> flight
    slot,       \* CheckFlight.result of every flight
    current,    \* current_patch_number in state.json
    pending,    \* pending_patch_number in state.json
    kind,       \* the call a thread is in
    pc,         \* where in the call it is
    req,        \* its check request
    flight,     \* the flight it leads or waits for
    resp,       \* the check response it works with
    id,         \* the number of its call, 0 between two calls
    calls,      \* how many calls were begun
    cancelled   \* history: the downloads that were cancelled before their last
                \* checkpoint, until somebody stores FALSE into the flag

local == <<kind, pc, req, flight, resp, id>>
vars == <<lock, config, lastCheck, cancel, flights, slot, current, pending,
          kind, pc, req, flight, resp, id, calls, cancelled>>

-----------------------------------------------------------------------------
(* The data                                                                 *)

None == 0
PatchOrNone == Patches \cup {None}
Unset == "unset"
ASSUME ConfigsAssumption == Unset \notin Configs
Request == [config : Configs, current : PatchOrNone]
NoRequest == [config |-> Unset, current |-> None]

\* A response carries the request it answers.  `patch` None is "no update";
\* a failed request is an error that is handed to every waiter.
Response == [to : Request, patch : PatchOrNone, ok : BOOLEAN]
NoResponse == [to |-> NoRequest, patch |-> None, ok |-> FALSE]

\* An Arc<CheckFlight> is identified by the call that created it.
Flight == 1..MaxCalls
NoFlight == 0

Stages == {"manifest", "fetched", "payload", "verify", "install"}
NextStage(s) == CASE s = "manifest" -> "fetched"
                  [] s = "fetched"  -> "payload"
                  [] s = "payload"  -> "verify"
                  [] s = "verify"   -> "install"
                  [] s = "install"  -> "commit"
PC == {"idle", "request", "join", "http", "publish", "remove", "wait",
       "answered", "lock", "resolve", "commit", "posting"} \cup Stages

Init ==
    /\ lock = NoThread
    /\ config \in Configs \cup {Unset}
    /\ lastCheck = NoResponse
    /\ cancel = FALSE
    /\ flights = [r \in Request |-> NoFlight]
    /\ slot = [f \in Flight |-> NoResponse]
    /\ current = None
    /\ pending = Running
    /\ kind = [t \in Threads |-> "none"]
    /\ pc = [t \in Threads |-> "idle"]
    /\ req = [t \in Threads |-> NoRequest]
    /\ flight = [t \in Threads |-> NoFlight]
    /\ resp = [t \in Threads |-> NoResponse]
    /\ id = [t \in Threads |-> 0]
    /\ calls = 0
    /\ cancelled = {}

-----------------------------------------------------------------------------
(* Calls and returns                                                        *)

\* Thread t begins call k at label l.
Enter(t, k, l) ==
    /\ pc[t] = "idle" /\ calls < MaxCalls
    /\ calls' = calls + 1
    /\ id' = [id EXCEPT ![t] = calls']
    /\ kind' = [kind EXCEPT ![t] = k]
    /\ pc' = [pc EXCEPT ![t] = l]
    /\ UNCHANGED <<req, flight, resp>>

\* Thread t goes on at label l.
Goto(t, l) == pc' = [pc EXCEPT ![t] = l]

\* Thread t returns to its caller and drops its reference to the flight,
\* which is freed with the last one.
Return(t) ==
    /\ slot' = [f \in Flight |-> IF \E u \in Threads \ {t} : flight[u] = f
                                THEN slot[f] ELSE NoResponse]
    /\ id' = [id EXCEPT ![t] = 0]
    /\ kind' = [kind EXCEPT ![t] = "none"]
    /\ pc' = [pc EXCEPT ![t] = "idle"]
    /\ req' = [req EXCEPT ![t] = NoRequest]
    /\ flight' = [flight EXCEPT ![t] = NoFlight]
    /\ resp' = [resp EXCEPT ![t] = NoResponse]
    /\ cancelled' = cancelled \ {t}
    /\ UNCHANGED calls

\* ffi_guard returns and drops the mutex guard.
Unlock(t) == lock' = NoThread /\ Return(t)

-----------------------------------------------------------------------------
(* Functions that take the mutex once                                       *)

\* fcb_init and the fcb_set_* functions: the configuration changes and the
\* cached response is dropped.
Configure(t, c) ==
    /\ pc[t] = "idle" /\ calls < MaxCalls /\ lock = NoThread
    /\ config' = c
    /\ lastCheck' = NoResponse
    /\ calls' = calls + 1
    /\ UNCHANGED <<lock, cancel, flights, slot, current, pending, local, cancelled>>

\* fcb_mark_launch_success: the patch of the last launch is confirmed, the
\* pending one is forgotten, and the event is posted under the mutex.
MarkLaunchSuccess(t) ==
    /\ lock = NoThread
    /\ Enter(t, "guarded", "posting")
    /\ lock' = t
    /\ current' = Running
    /\ pending' = None
    /\ UNCHANGED <<config, lastCheck, cancel, flights, slot, cancelled>>

\* The request for the event ends, with or without an answer.
PostDone(t) ==
    /\ pc[t] = "posting"
    /\ Unlock(t)
    /\ UNCHANGED <<config, lastCheck, cancel, flights, current, pending>>

\* A download that has begun and has a checkpoint ahead of it.
Stoppable(t) == kind[t] = "download" /\ pc[t] \notin {"idle", "commit", "posting"}

\* fcb_cancel_pending_operations takes no mutex.
Cancel(t) ==
    /\ pc[t] = "idle" /\ calls < MaxCalls
    /\ cancel' = TRUE
    /\ cancelled' = cancelled \cup {u \in Threads : Stoppable(u)}
    /\ calls' = calls + 1
    /\ UNCHANGED <<lock, config, lastCheck, flights, slot, current, pending, local>>

-----------------------------------------------------------------------------
(* fcb_check_for_update_blocking                                            *)

CheckBegin(t) ==
    /\ Enter(t, "check", "request")
    /\ cancel' = FALSE
    /\ cancelled' = {}
    /\ UNCHANGED <<lock, config, lastCheck, flights, slot, current, pending>>

\* check_request_from_runtime
RequestFromRuntime == [config |-> config, current |-> current]

\* The request is made under the mutex, which is released again.  Without a
\* configuration, or when load_state fails, the call ends with an error.
CheckRequest(t) ==
    /\ pc[t] = "request" /\ lock = NoThread
    /\ \/ Return(t)
       \/ /\ config # Unset
          /\ req' = [req EXCEPT ![t] = RequestFromRuntime]
          /\ Goto(t, "join")
          /\ UNCHANGED <<slot, kind, flight, resp, id, calls, cancelled>>
    /\ UNCHANGED <<lock, config, lastCheck, cancel, flights, current, pending>>

\* Fault: the outcome of a failed check is cached as well.
CheckStoreKeepsErrors(t) ==
    /\ pc[t] = "answered" /\ kind[t] = "check" /\ lock = NoThread
    /\ lastCheck' = resp[t]
    /\ Return(t)
    /\ UNCHANGED <<lock, config, cancel, flights, current, pending>>

\* The response is stored, or the error is recorded, under the mutex.
CheckStore(t) ==
    /\ pc[t] = "answered" /\ kind[t] = "check" /\ lock = NoThread
    /\ lastCheck' = IF resp[t].ok THEN resp[t] ELSE lastCheck
    /\ Return(t)
    /\ UNCHANGED <<lock, config, cancel, flights, current, pending>>

-----------------------------------------------------------------------------
(* check_for_update_singleflight                                            *)

\* Fault: flights are looked up by configuration only.
JoinIgnoresCurrent(t) ==
    /\ pc[t] = "join"
    /\ LET same == {r \in Request : r.config = req[t].config /\ flights[r] # NoFlight}
       IN  IF same # {}
           THEN /\ \E r \in same : flight' = [flight EXCEPT ![t] = flights[r]]
                /\ Goto(t, "wait")
                /\ UNCHANGED flights
           ELSE /\ flight' = [flight EXCEPT ![t] = id[t]]
                /\ flights' = [flights EXCEPT ![req[t]] = id[t]]
                /\ Goto(t, "http")
    /\ UNCHANGED <<lock, config, lastCheck, cancel, slot, current, pending,
                   kind, req, resp, id, calls, cancelled>>

\* Under the mutex of CHECK_FLIGHTS: follow the flight of this request, or
\* become the leader of a new one.
Join(t) ==
    /\ pc[t] = "join"
    /\ IF flights[req[t]] # NoFlight
       THEN /\ flight' = [flight EXCEPT ![t] = flights[req[t]]]
            /\ Goto(t, "wait")
            /\ UNCHANGED flights
       ELSE /\ flight' = [flight EXCEPT ![t] = id[t]]
            /\ flights' = [flights EXCEPT ![req[t]] = id[t]]
            /\ Goto(t, "http")
    /\ UNCHANGED <<lock, config, lastCheck, cancel, slot, current, pending,
                   kind, req, resp, id, calls, cancelled>>

\* perform_check_request: the server answers with some patch above the
\* reported current one, or with none, or the request fails.
Answer(t) ==
    /\ pc[t] = "http"
    /\ \E p \in {q \in Patches : q > req[t].current} \cup {None}, ok \in BOOLEAN :
         resp' = [resp EXCEPT ![t] = [to |-> req[t], ok |-> ok,
                                      patch |-> IF ok THEN p ELSE None]]
    /\ Goto(t, "publish")
    /\ UNCHANGED <<lock, config, lastCheck, cancel, flights, slot, current, pending,
                   kind, req, flight, id, calls, cancelled>>

\* Fault: a failed request leaves the slot empty.
PublishSuccessOnly(t) ==
    /\ pc[t] = "publish"
    /\ slot' = IF resp[t].ok THEN [slot EXCEPT ![flight[t]] = resp[t]] ELSE slot
    /\ Goto(t, "remove")
    /\ UNCHANGED <<lock, config, lastCheck, cancel, flights, current, pending,
                   kind, req, flight, resp, id, calls, cancelled>>

\* The result goes into the flight's slot and the followers are notified.
Publish(t) ==
    /\ pc[t] = "publish"
    /\ slot' = [slot EXCEPT ![flight[t]] = resp[t]]
    /\ Goto(t, "remove")
    /\ UNCHANGED <<lock, config, lastCheck, cancel, flights, current, pending,
                   kind, req, flight, resp, id, calls, cancelled>>

\* Fault: the leader of a failed request leaves its flight in the table.
RemoveOnSuccessOnly(t) ==
    /\ pc[t] = "remove"
    /\ flights' = IF resp[t].ok THEN [flights EXCEPT ![req[t]] = NoFlight] ELSE flights
    /\ Goto(t, "answered")
    /\ UNCHANGED <<lock, config, lastCheck, cancel, slot, current, pending,
                   kind, req, flight, resp, id, calls, cancelled>>

\* The leader removes the entry of its request and returns its result.
Remove(t) ==
    /\ pc[t] = "remove"
    /\ flights' = [flights EXCEPT ![req[t]] = NoFlight]
    /\ Goto(t, "answered")
    /\ UNCHANGED <<lock, config, lastCheck, cancel, slot, current, pending,
                   kind, req, flight, resp, id, calls, cancelled>>

\* A follower finds the slot filled, at once or when the condition variable
\* wakes it.
Wake(t) ==
    /\ pc[t] = "wait"
    /\ slot[flight[t]] # NoResponse
    /\ resp' = [resp EXCEPT ![t] = slot[flight[t]]]
    /\ Goto(t, "answered")
    /\ UNCHANGED <<lock, config, lastCheck, cancel, flights, slot, current, pending,
                   kind, req, flight, id, calls, cancelled>>

-----------------------------------------------------------------------------
(* fcb_download_and_install_blocking                                        *)

DownloadBegin(t) ==
    /\ Enter(t, "download", "lock")
    /\ cancel' = FALSE
    /\ cancelled' = {}
    /\ UNCHANGED <<lock, config, lastCheck, flights, slot, current, pending>>

\* ffi_guard takes the mutex; ensure_configured and ensure_not_cancelled must
\* pass, and there must be a public key, which the model does not keep: the
\* call may end here under any configuration.
DownloadLock(t) ==
    /\ pc[t] = "lock" /\ lock = NoThread
    /\ \/ Return(t) /\ UNCHANGED lock
       \/ /\ config # Unset /\ ~cancel
          /\ lock' = t
          /\ Goto(t, "resolve")
          /\ UNCHANGED <<slot, kind, req, flight, resp, id, calls, cancelled>>
    /\ UNCHANGED <<config, lastCheck, cancel, flights, current, pending>>

\* The cached response is used if there is one; otherwise check_for_update
\* clears the flag once more, whoever it was set for, and asks the server,
\* still under the mutex.
DownloadResolve(t) ==
    /\ pc[t] = "resolve"
    /\ IF lastCheck # NoResponse
       THEN /\ resp' = [resp EXCEPT ![t] = lastCheck]
            /\ Goto(t, "answered")
            /\ UNCHANGED <<cancel, req, cancelled>>
       ELSE /\ cancel' = FALSE
            /\ cancelled' = {}
            /\ req' = [req EXCEPT ![t] = RequestFromRuntime]
            /\ Goto(t, "join")
            /\ UNCHANGED resp
    /\ UNCHANGED <<lock, config, lastCheck, flights, slot, current, pending,
                   kind, flight, id, calls>>

\* An error or no patch ends the call; otherwise the files are downloaded.
DownloadOffer(t) ==
    /\ pc[t] = "answered" /\ kind[t] = "download"
    /\ IF resp[t].patch = None
       THEN Unlock(t)
       ELSE /\ Goto(t, "manifest")
            /\ UNCHANGED <<lock, slot, kind, req, flight, resp, id, calls, cancelled>>
    /\ UNCHANGED <<config, lastCheck, cancel, flights, current, pending>>

\* Fault: the flag is not read again right before the install.
DownloadCheckpointTooEarly(t) ==
    /\ pc[t] \in Stages
    /\ IF cancel /\ pc[t] # "install"
       THEN Unlock(t)
       ELSE /\ Goto(t, NextStage(pc[t]))
            /\ UNCHANGED <<lock, slot, kind, req, flight, resp, id, calls, cancelled>>
    /\ UNCHANGED <<config, lastCheck, cancel, flights, current, pending>>

\* ensure_not_cancelled before the manifest, after it, during and after the
\* payload, before its hash and before the install.
DownloadCheckpoint(t) ==
    /\ pc[t] \in Stages
    /\ IF cancel
       THEN Unlock(t)
       ELSE /\ Goto(t, NextStage(pc[t]))
            /\ UNCHANGED <<lock, slot, kind, req, flight, resp, id, calls, cancelled>>
    /\ UNCHANGED <<config, lastCheck, cancel, flights, current, pending>>

\* A request fails, or a hash or the signature does not match; or load_state
\* fails before the check of the download asks the server.
DownloadFail(t) ==
    /\ pc[t] \in Stages \cup {"commit"} \/ (kind[t] = "download" /\ pc[t] = "join")
    /\ Unlock(t)
    /\ UNCHANGED <<config, lastCheck, cancel, flights, current, pending>>

\* install_payload_with_baseline, and the event that is posted after it.
Install(t) ==
    /\ pc[t] = "commit"
    /\ pending' = resp[t].patch
    /\ Goto(t, "posting")
    /\ UNCHANGED <<lock, config, lastCheck, cancel, flights, slot, current,
                   kind, req, flight, resp, id, calls, cancelled>>

-----------------------------------------------------------------------------

\* The steps of a call that has begun.
Step(t) ==
    \/ PostDone(t)
    \/ CheckRequest(t)
    \/ CheckStore(t)
    \/ Join(t)
    \/ Answer(t)
    \/ Publish(t)
    \/ Remove(t)
    \/ Wake(t)
    \/ DownloadLock(t)
    \/ DownloadResolve(t)
    \/ DownloadOffer(t)
    \/ DownloadCheckpoint(t)
    \/ DownloadFail(t)
    \/ Install(t)

Call(t) ==
    \/ \E c \in Configs : Configure(t, c)
    \/ MarkLaunchSuccess(t)
    \/ Cancel(t)
    \/ CheckBegin(t)
    \/ DownloadBegin(t)

Next == \E t \in Threads : Call(t) \/ Step(t)

Spec == Init /\ [][Next]_vars

\* Every thread that can take a step of its call takes it some day.  For a
\* request this assumes that the server answers or the connection breaks: the
\* agent of server_api.rs bounds connecting and the bodies, and the retries
\* are bounded, but there is no limit on the wait for the response head.
Fairness == \A t \in Threads : WF_vars(Step(t))

FairSpec == Spec /\ Fairness

-----------------------------------------------------------------------------
(* What the runtime promises                                                *)

\* Type invariant; a failed check is never cached.
TypeOK ==
    /\ lock \in Threads \cup {NoThread}
    /\ config \in Configs \cup {Unset}
    /\ lastCheck \in {r \in Response : r.ok} \cup {NoResponse}
    /\ cancel \in BOOLEAN
    /\ flights \in [Request -> Flight \cup {NoFlight}]
    /\ slot \in [Flight -> Response \cup {NoResponse}]
    /\ current \in PatchOrNone
    /\ pending \in PatchOrNone
    /\ kind \in [Threads -> {"none", "check", "download", "guarded"}]
    /\ pc \in [Threads -> PC]
    /\ req \in [Threads -> Request \cup {NoRequest}]
    /\ flight \in [Threads -> Flight \cup {NoFlight}]
    /\ resp \in [Threads -> Response \cup {NoResponse}]
    /\ id \in [Threads -> 0..MaxCalls]
    /\ calls \in 0..MaxCalls
    /\ cancelled \in SUBSET Threads

Leading(t) == pc[t] \in {"http", "publish", "remove"}

\* The single-flight promise: two threads never have the same check request
\* on the wire at the same time.
OneRequestInFlight ==
    \A t, u \in Threads :
        (pc[t] = "http" /\ pc[u] = "http" /\ req[t] = req[u]) => t = u

\* Nobody waits in vain: the flight a follower waits for is already answered,
\* or its leader is still on its way to answer it, and a leader never waits
\* for the runtime mutex, which the follower may be holding.
WaitersHaveALeader ==
    \A t \in Threads : pc[t] = "wait" =>
        \/ slot[flight[t]] # NoResponse
        \/ \E u \in Threads : /\ pc[u] \in {"http", "publish"}
                              /\ flight[u] = flight[t]

\* No flight is left in the table: an entry always belongs to a leader that
\* is still going to remove it, so a later check is never answered by an
\* abandoned one.
EntriesHaveALeader ==
    \A r \in Request : flights[r] # NoFlight =>
        \E u \in Threads : Leading(u) /\ req[u] = r /\ flight[u] = flights[r]

\* check_for_update_singleflight keeps its promise: one request for all who
\* ask the same, whose outcome reaches every one of them, and which leaves
\* nothing behind for those who ask later.
SingleFlight == OneRequestInFlight /\ WaitersHaveALeader /\ EntriesHaveALeader

\* A check never returns the answer to another question: what a follower
\* gets was asked with the same configuration and the same current patch.
AnswerMatchesRequest ==
    \A t \in Threads :
        (kind[t] = "check" /\ pc[t] = "answered") => resp[t].to = req[t]

\* Every call returns: no deadlock between the runtime mutex, the flight
\* table and the condition variable of a flight, and no lost wake-up.
CallsReturn == \A t \in Threads : pc[t] # "idle" ~> pc[t] = "idle"

\* A download that is cancelled after it began and before its last checkpoint
\* installs nothing, wherever the cancellation met it: waiting for the mutex or
\* for a flight, or at work.  This holds for a cancellation that stands:
\* CANCEL_PENDING is cleared for everybody by a check or a download that begins
\* (lib.rs:461, 498), and by a download that has no cached response and makes
\* its own check (lib.rs:832), the cancelled download itself included.
\* A cancellation that is cleared is lost, and the download goes on to install.
CancelStops ==
    [][\A t \in cancelled : ~(pc[t] = "commit" /\ pc'[t] = "posting")]_vars

=============================================================================
