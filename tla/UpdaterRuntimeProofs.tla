------------------------ MODULE UpdaterRuntimeProofs ------------------------
(***************************************************************************)
(* The single-flight table, the runtime mutex and the cancellation flag for *)
(* any number of threads, calls, configurations and patches.                *)
(***************************************************************************)
EXTENDS UpdaterRuntime, TLAPS

-----------------------------------------------------------------------------
(* The inductive invariant                                                  *)

\* Calls in progress have different numbers, which were given out before.
Ids ==
    /\ \A t \in Threads : id[t] <= calls /\ (pc[t] # "idle" => id[t] # 0)
    /\ \A t, u \in Threads : t # u /\ id[t] = id[u] => id[t] = 0

\* Nobody knows of the flight a call might still create, and a result is kept
\* only as long as somebody refers to its flight.
Before == {"request", "join", "lock", "resolve"}
Fresh ==
    /\ \A u \in Threads : flight[u] <= calls
    /\ \A t, u \in Threads : pc[t] \in Before => flight[u] # id[t]
    /\ \A f \in Flight : slot[f] # NoResponse => \E u \in Threads : flight[u] = f

\* A call that has not joined a flight refers to none.
Unflown == \A t \in Threads : pc[t] \in Before \cup {"idle"} => flight[t] = NoFlight

\* A leader leads the flight of its own call, which is in the table under its
\* request, and which holds the answer to that request or nothing.
Leaders ==
    \A t \in Threads : Leading(t) =>
        /\ req[t] \in Request
        /\ id[t] \in Flight
        /\ flight[t] = id[t]
        /\ flights[req[t]] = id[t]
        /\ slot[id[t]] # NoResponse => slot[id[t]].to = req[t]
        /\ pc[t] = "remove" => slot[id[t]] # NoResponse
        /\ pc[t] # "http" => resp[t] \in Response /\ resp[t].to = req[t]

\* A follower has asked what the leader asks, or asked.
Followers ==
    /\ \A t \in Threads : pc[t] = "wait" =>
          /\ flight[t] \in Flight
          /\ slot[flight[t]] # NoResponse => slot[flight[t]].to = req[t]
    /\ \A t, u \in Threads : pc[t] = "wait" /\ Leading(u) /\ flight[t] = flight[u] =>
          req[t] = req[u]
    /\ WaitersHaveALeader

\* Which calls are where, and which of them hold the mutex.
InCheck == {"join", "http", "publish", "remove", "wait", "answered"}
Locked(t) ==
    \/ pc[t] \in {"resolve", "commit", "posting"} \cup Stages
    \/ kind[t] = "download" /\ pc[t] \in InCheck
Owner ==
    \A t \in Threads :
        /\ Locked(t) => lock = t
        /\ pc[t] = "request" => kind[t] = "check"
        /\ pc[t] \in {"lock", "resolve", "commit"} \cup Stages => kind[t] = "download"
        /\ pc[t] = "resolve" => config # Unset
        /\ pc[t] = "join" => req[t] \in Request

\* A cancelled download has not passed its last checkpoint, and the flag that
\* will stop it there is still set.
Cancels == \A t \in cancelled : cancel /\ Stoppable(t)

Inv ==
    /\ TypeOK
    /\ Ids
    /\ Fresh
    /\ Unflown
    /\ Leaders
    /\ EntriesHaveALeader
    /\ Followers
    /\ AnswerMatchesRequest
    /\ Owner
    /\ Cancels

\* No call has begun.
LEMMA InitInv == Init => Inv
<1> SUFFICES ASSUME Init PROVE Inv
    OBVIOUS
<1> USE DEF Init
<1>1. TypeOK
    <2>1. 0 \in 0..MaxCalls
        BY MaxCallsAssumption
    <2> QED BY <2>1, PatchesAssumption DEF TypeOK, PatchOrNone, NoFlight, PC
<1>2. Ids /\ Fresh /\ Unflown
    BY DEF Ids, Fresh, Unflown, Before, NoFlight
<1>3. Leaders /\ EntriesHaveALeader /\ Followers /\ AnswerMatchesRequest
    BY DEF Leaders, Leading, EntriesHaveALeader, Followers, WaitersHaveALeader,
       AnswerMatchesRequest
<1>4. Owner /\ Cancels
    BY DEF Owner, Locked, InCheck, Stages, Cancels, Stoppable
<1> QED BY <1>1, <1>2, <1>3, <1>4 DEF Inv

-----------------------------------------------------------------------------
(* Calls begin and return                                                   *)

\* A call begins: k is its kind and l its first label.
LEMMA EnterInv ==
    ASSUME Inv, NEW t \in Threads, NEW k, NEW l, Enter(t, k, l),
           \/ k = "check" /\ l = "request" /\ lock' = lock
           \/ k = "download" /\ l = "lock" /\ lock' = lock
           \/ k = "guarded" /\ l = "posting" /\ lock = NoThread /\ lock' = t,
           current' \in PatchOrNone, pending' \in PatchOrNone,
           \/ cancel' = cancel /\ cancelled' = cancelled
           \/ cancel' = FALSE /\ cancelled' = {},
           UNCHANGED <<config, lastCheck, flights, slot>>
    PROVE  Inv'
<1> USE DEF Inv
<1>0. /\ calls' = calls + 1 /\ calls \in Nat /\ calls' \in 0..MaxCalls
      /\ pc[t] = "idle" /\ l # "idle" /\ l \in PC
      /\ k \in {"none", "check", "download", "guarded"}
    BY MaxCallsAssumption DEF Enter, TypeOK, PC
<1>1. \A u \in Threads : /\ pc'[u] = IF u = t THEN l ELSE pc[u]
                         /\ kind'[u] = IF u = t THEN k ELSE kind[u]
                         /\ id'[u] = IF u = t THEN calls + 1 ELSE id[u]
    BY <1>0 DEF Enter, TypeOK
<1>2. req' = req /\ flight' = flight /\ resp' = resp
    BY DEF Enter
<1>3. TypeOK'
    <2>1. /\ pc' \in [Threads -> PC]
          /\ kind' \in [Threads -> {"none", "check", "download", "guarded"}]
          /\ id' \in [Threads -> 0..MaxCalls]
        BY <1>0 DEF Enter, TypeOK
    <2>2. lock' \in Threads \cup {NoThread} /\ cancel' \in BOOLEAN /\ cancelled' \in SUBSET Threads
        BY DEF TypeOK
    <2> QED BY <1>0, <1>2, <2>1, <2>2 DEF TypeOK
<1>4. Ids'
    BY <1>0, <1>1 DEF Ids, TypeOK
<1>5. Fresh'
    <2>0. \A u \in Threads : flight[u] \in Int
        BY MaxCallsAssumption DEF TypeOK, Flight, NoFlight
    <2>1. \A u \in Threads : flight'[u] <= calls'
        BY <1>0, <1>2, <2>0 DEF Fresh
    <2>2. \A u, v \in Threads : pc'[u] \in Before => flight'[v] # id'[u]
        BY <1>0, <1>1, <1>2, <2>0 DEF Fresh
    <2>3. \A f \in Flight : slot'[f] # NoResponse => \E u \in Threads : flight'[u] = f
        BY <1>2 DEF Fresh
    <2> QED BY <2>1, <2>2, <2>3 DEF Fresh
<1>6. ~Leading(t) /\ ~Leading(t)' /\ \A u \in Threads : u # t => (Leading(u)' <=> Leading(u))
    BY <1>0, <1>1 DEF Leading
<1>7. Leaders'
    BY <1>1, <1>2, <1>6 DEF Leaders
<1>8. EntriesHaveALeader'
    BY <1>2, <1>6 DEF EntriesHaveALeader
<1>9. l # "wait" /\ l # "answered" /\ l # "http" /\ l # "publish"
    OBVIOUS
<1>10. Followers'
    BY <1>0, <1>1, <1>2, <1>6, <1>9 DEF Followers, WaitersHaveALeader
<1>11. AnswerMatchesRequest'
    BY <1>1, <1>2, <1>9 DEF AnswerMatchesRequest
<1>12. Owner'
    BY <1>1, <1>2, ThreadsAssumption DEF Owner, Locked, InCheck, Stages
<1>13. Cancels'
    BY <1>0, <1>1 DEF Cancels, Stoppable, TypeOK
<1>14. Unflown'
    BY <1>0, <1>1, <1>2 DEF Unflown
<1> QED BY <1>3, <1>4, <1>5, <1>7, <1>8, <1>10, <1>11, <1>12, <1>13, <1>14

\* A call returns, holding the mutex or not; it is nobody's leader any more.
LEMMA ReturnInv ==
    ASSUME Inv, NEW t \in Threads, Return(t), ~Leading(t),
           (lock' = lock /\ ~Locked(t)) \/ (lock' = NoThread /\ Locked(t)),
           lastCheck' \in {r \in Response : r.ok} \cup {NoResponse},
           UNCHANGED <<config, cancel, flights, current, pending>>
    PROVE  Inv'
<1> USE DEF Inv
<1>1. \A u \in Threads : /\ pc'[u] = IF u = t THEN "idle" ELSE pc[u]
                         /\ kind'[u] = IF u = t THEN "none" ELSE kind[u]
                         /\ id'[u] = IF u = t THEN 0 ELSE id[u]
                         /\ req'[u] = IF u = t THEN NoRequest ELSE req[u]
                         /\ flight'[u] = IF u = t THEN NoFlight ELSE flight[u]
                         /\ resp'[u] = IF u = t THEN NoResponse ELSE resp[u]
    BY DEF Return, TypeOK
<1>2. \A f \in Flight : slot'[f] = IF \E u \in Threads \ {t} : flight[u] = f
                                   THEN slot[f] ELSE NoResponse
    BY DEF Return
<1>3. calls' = calls /\ cancelled' = cancelled \ {t}
    BY DEF Return
<1>4. TypeOK'
    <2>1. /\ pc' \in [Threads -> PC]
          /\ kind' \in [Threads -> {"none", "check", "download", "guarded"}]
          /\ id' \in [Threads -> 0..MaxCalls]
          /\ req' \in [Threads -> Request \cup {NoRequest}]
          /\ flight' \in [Threads -> Flight \cup {NoFlight}]
          /\ resp' \in [Threads -> Response \cup {NoResponse}]
        BY MaxCallsAssumption DEF Return, TypeOK, PC
    <2>2. slot' \in [Flight -> Response \cup {NoResponse}]
        BY DEF Return, TypeOK
    <2>3. lock' \in Threads \cup {NoThread} /\ cancelled' \in SUBSET Threads
        BY <1>3 DEF TypeOK
    <2> QED BY <1>3, <2>1, <2>2, <2>3 DEF TypeOK
<1>5. Ids'
    BY <1>1, <1>3, MaxCallsAssumption DEF Ids, TypeOK
<1>6. Fresh'
    <2>1. \A u \in Threads : flight'[u] <= calls'
        BY <1>1, <1>3 DEF Fresh, TypeOK, NoFlight
    <2>2. \A u, v \in Threads : pc'[u] \in Before => flight'[v] # id'[u]
        BY <1>1 DEF Fresh, Ids, Before, NoFlight
    <2>3. \A f \in Flight : slot'[f] # NoResponse => \E u \in Threads : flight'[u] = f
        BY <1>1, <1>2
    <2> QED BY <2>1, <2>2, <2>3 DEF Fresh
<1>7. ~Leading(t)' /\ \A u \in Threads : u # t => (Leading(u)' <=> Leading(u))
    BY <1>1 DEF Leading
<1>8. \A u \in Threads : u # t /\ flight[u] \in Flight => slot'[flight[u]] = slot[flight[u]]
    BY <1>2
<1>9. Leaders'
    BY <1>1, <1>7, <1>8 DEF Leaders
<1>10. EntriesHaveALeader'
    BY <1>1, <1>7 DEF EntriesHaveALeader
<1>11. Followers'
    <2>1. \A u \in Threads : pc'[u] = "wait" =>
             /\ flight'[u] \in Flight
             /\ slot'[flight'[u]] # NoResponse => slot'[flight'[u]].to = req'[u]
        BY <1>1, <1>8 DEF Followers
    <2>2. \A u, v \in Threads : pc'[u] = "wait" /\ Leading(v)' /\ flight'[u] = flight'[v] =>
             req'[u] = req'[v]
        BY <1>1, <1>7 DEF Followers
    <2>3. WaitersHaveALeader'
        BY <1>1, <1>8 DEF Followers, WaitersHaveALeader, Leading
    <2> QED BY <2>1, <2>2, <2>3 DEF Followers
<1>12. AnswerMatchesRequest'
    BY <1>1 DEF AnswerMatchesRequest
<1>13. Owner'
    BY <1>1, ThreadsAssumption DEF Owner, Locked, InCheck, Stages
<1>14. Cancels'
    BY <1>1, <1>3 DEF Cancels, Stoppable, TypeOK
<1>15. Unflown'
    BY <1>1 DEF Unflown
<1> QED BY <1>4, <1>5, <1>6, <1>9, <1>10, <1>11, <1>12, <1>13, <1>14, <1>15

\* A call goes on at label l, with request q and response z, outside the
\* single-flight table.
LEMMA AdvanceInv ==
    ASSUME Inv, NEW t \in Threads, NEW l \in PC, Goto(t, l),
           NEW q \in Request \cup {NoRequest}, req' = [req EXCEPT ![t] = q],
           NEW z \in Response \cup {NoResponse}, resp' = [resp EXCEPT ![t] = z],
           pc[t] \notin {"idle", "join", "http", "publish", "remove", "wait"},
           l \notin {"idle", "request", "lock", "http", "publish", "remove", "wait"},
           l \in Before => pc[t] \in Before,
           l = "join" => q \in Request,
           l = "answered" => kind[t] = "download",
           lock' = lock \/ (lock = NoThread /\ lock' = t),
           (l \in {"resolve", "commit", "posting"} \cup Stages
               \/ (kind[t] = "download" /\ l \in InCheck)) => lock' = t,
           l \in {"resolve", "commit"} \cup Stages => kind[t] = "download",
           l = "resolve" => config # Unset,
           \/ cancel' = FALSE /\ cancelled' = {}
           \/ /\ cancel' = cancel /\ cancelled' = cancelled
              /\ t \in cancelled => l \notin {"commit", "posting"},
           pending' \in PatchOrNone,
           UNCHANGED <<config, lastCheck, flights, slot, current, kind, flight, id, calls>>
    PROVE  Inv'
<1> USE DEF Inv
<1>1. \A u \in Threads : /\ pc'[u] = IF u = t THEN l ELSE pc[u]
                         /\ req'[u] = IF u = t THEN q ELSE req[u]
                         /\ resp'[u] = IF u = t THEN z ELSE resp[u]
    BY DEF Goto, TypeOK
<1>2. TypeOK'
    <2>1. /\ pc' \in [Threads -> PC]
          /\ req' \in [Threads -> Request \cup {NoRequest}]
          /\ resp' \in [Threads -> Response \cup {NoResponse}]
        BY DEF Goto, TypeOK
    <2>2. lock' \in Threads \cup {NoThread} /\ cancel' \in BOOLEAN /\ cancelled' \in SUBSET Threads
        BY DEF TypeOK
    <2> QED BY <2>1, <2>2 DEF TypeOK
<1>3. Ids' /\ Fresh' /\ Unflown'
    BY <1>1 DEF Ids, Fresh, Unflown
<1>4. ~Leading(t) /\ ~Leading(t)' /\ \A u \in Threads : u # t => (Leading(u)' <=> Leading(u))
    BY <1>1 DEF Leading
<1>5. Leaders' /\ EntriesHaveALeader'
    BY <1>1, <1>4 DEF Leaders, EntriesHaveALeader
<1>6. Followers'
    BY <1>1, <1>4 DEF Followers, WaitersHaveALeader
<1>7. AnswerMatchesRequest'
    BY <1>1 DEF AnswerMatchesRequest
<1>8. Owner'
    BY <1>1, ThreadsAssumption DEF Owner, Locked, InCheck, Stages
<1>9. Cancels'
    BY <1>1 DEF Cancels, Stoppable, TypeOK
<1> QED BY <1>2, <1>3, <1>5, <1>6, <1>7, <1>8, <1>9

\* The request a call may make is typed once the runtime is configured.
LEMMA RequestTyped ==
    ASSUME Inv, config # Unset
    PROVE  RequestFromRuntime \in Request
BY DEF Inv, TypeOK, RequestFromRuntime, Request

-----------------------------------------------------------------------------
(* Functions that take the mutex once                                       *)

\* fcb_init and fcb_set_*.
LEMMA ConfigureInv ==
    ASSUME Inv, NEW t \in Threads, NEW c \in Configs, Configure(t, c)
    PROVE  Inv'
<1> USE DEF Inv
<1>0. /\ calls' = calls + 1 /\ calls \in Nat /\ calls' \in 0..MaxCalls
      /\ config' \in Configs /\ lastCheck' = NoResponse
      /\ UNCHANGED <<lock, cancel, flights, slot, current, pending, kind, pc, req, flight,
                     resp, id, cancelled>>
    BY MaxCallsAssumption DEF Configure, local, TypeOK
<1>1. TypeOK'
    BY <1>0 DEF TypeOK
<1>2. \A u \in Threads : id[u] \in Int /\ flight[u] \in Int
    BY MaxCallsAssumption DEF TypeOK, Flight, NoFlight
<1>3. Ids' /\ Fresh' /\ Unflown'
    BY <1>0, <1>2 DEF Ids, Fresh, Unflown
<1>4. (Leaders /\ EntriesHaveALeader /\ Followers /\ AnswerMatchesRequest)'
    BY <1>0 DEF Leaders, Leading, EntriesHaveALeader, Followers, WaitersHaveALeader,
       AnswerMatchesRequest
<1>5. Owner' /\ Cancels'
    BY <1>0, ConfigsAssumption DEF Owner, Locked, Cancels, Stoppable
<1> QED BY <1>1, <1>3, <1>4, <1>5

\* fcb_cancel_pending_operations.
LEMMA CancelInv == ASSUME Inv, NEW t \in Threads, Cancel(t) PROVE Inv'
<1> USE DEF Inv
<1>0. /\ calls' = calls + 1 /\ calls \in Nat /\ calls' \in 0..MaxCalls
      /\ UNCHANGED <<lock, config, lastCheck, flights, slot, current, pending, kind, pc, req,
                     flight, resp, id>>
    BY MaxCallsAssumption DEF Cancel, local, TypeOK
<1>1. cancel' = TRUE /\ cancelled' = cancelled \cup {u \in Threads : Stoppable(u)}
    BY DEF Cancel
<1>2. TypeOK'
    BY <1>0, <1>1 DEF TypeOK
<1>3. \A u \in Threads : id[u] \in Int /\ flight[u] \in Int
    BY MaxCallsAssumption DEF TypeOK, Flight, NoFlight
<1>4. Ids' /\ Fresh' /\ Unflown'
    BY <1>0, <1>3 DEF Ids, Fresh, Unflown
<1>5. (Leaders /\ EntriesHaveALeader /\ Followers /\ AnswerMatchesRequest)'
    BY <1>0 DEF Leaders, Leading, EntriesHaveALeader, Followers, WaitersHaveALeader,
       AnswerMatchesRequest
<1>6. Owner' /\ Cancels'
    BY <1>0, <1>1 DEF Owner, Locked, Cancels, Stoppable
<1> QED BY <1>2, <1>4, <1>5, <1>6

\* The calls that begin.
LEMMA CallInv == ASSUME Inv, NEW t \in Threads, Call(t) PROVE Inv'
<1>0. current \in PatchOrNone /\ pending \in PatchOrNone /\ Running \in PatchOrNone
      /\ None \in PatchOrNone
    BY PatchesAssumption DEF Inv, TypeOK, PatchOrNone
<1>1. CASE MarkLaunchSuccess(t)
    BY <1>0, <1>1, EnterInv DEF MarkLaunchSuccess
<1>2. CASE CheckBegin(t)
    BY <1>0, <1>2, EnterInv DEF CheckBegin
<1>3. CASE DownloadBegin(t)
    BY <1>0, <1>3, EnterInv DEF DownloadBegin
<1> QED BY <1>1, <1>2, <1>3, ConfigureInv, CancelInv DEF Call

\* fcb_check_for_update_blocking under the mutex, and the ends of calls.
LEMMA CheckRequestInv == ASSUME Inv, NEW t \in Threads, CheckRequest(t) PROVE Inv'
<1>0. /\ lastCheck \in {r \in Response : r.ok} \cup {NoResponse}
      /\ cancel \in BOOLEAN /\ pending \in PatchOrNone
      /\ resp[t] \in Response \cup {NoResponse}
      /\ pc[t] = "request" /\ kind[t] = "check"
    BY DEF CheckRequest, Inv, TypeOK, Owner
<1>1. CASE Return(t)
    <2>1. ~Leading(t) /\ ~Locked(t)
        BY <1>0 DEF Leading, Locked, InCheck, Stages
    <2>2. /\ Return(t)
          /\ (lock' = lock /\ ~Locked(t)) \/ (lock' = NoThread /\ Locked(t))
          /\ lastCheck' \in {r \in Response : r.ok} \cup {NoResponse}
          /\ UNCHANGED <<config, cancel, flights, current, pending>>
        BY <1>0, <1>1, <2>1 DEF CheckRequest
    <2> QED BY <2>1, <2>2, ReturnInv
<1>2. CASE config # Unset /\ Goto(t, "join") /\ req' = [req EXCEPT ![t] = RequestFromRuntime]
           /\ UNCHANGED <<slot, kind, flight, resp, id, calls, cancelled>>
    <2>1. PICK q \in Request : q = RequestFromRuntime
        BY <1>2, RequestTyped
    <2>2. PICK z \in Response \cup {NoResponse} : z = resp[t]
        BY <1>0
    <2>3. resp' = [resp EXCEPT ![t] = z] /\ req' = [req EXCEPT ![t] = q] /\ Goto(t, "join")
        BY <1>2, <2>1, <2>2 DEF CheckRequest, Inv, TypeOK
    <2>5. "join" \in PC /\ "join" \in Before /\ pc[t] \in Before /\ "join" \notin Stages
        BY <1>0 DEF PC, Before, Stages
    <2>6. UNCHANGED <<lock, config, lastCheck, cancel, flights, slot, current, pending, kind,
                      flight, id, calls, cancelled>>
        BY <1>2 DEF CheckRequest
    <2>7. /\ ~(("join" \in {"resolve", "commit", "posting"} \cup Stages)
                \/ (kind[t] = "download" /\ "join" \in InCheck))
          /\ "join" \notin {"resolve", "commit"} \cup Stages
        BY <1>0, <2>5
    <2>8. q \in Request \cup {NoRequest}
        OBVIOUS
    <2>9. pending' \in PatchOrNone /\ cancel' = cancel /\ cancelled' = cancelled
          /\ "join" \notin {"commit", "posting"}
          /\ (lock' = lock \/ (lock = NoThread /\ lock' = t))
        BY <1>0, <2>6
    <2> QED BY <1>0, <2>3, <2>5, <2>6, <2>7, <2>8, <2>9, AdvanceInv
<1> QED BY <1>1, <1>2 DEF CheckRequest

\* PostDone, CheckStore and DownloadFail end a call.
LEMMA EndInv ==
    ASSUME Inv, NEW t \in Threads, PostDone(t) \/ CheckStore(t) \/ DownloadFail(t)
    PROVE  Inv'
<1>0. /\ lastCheck \in {r \in Response : r.ok} \cup {NoResponse}
      /\ resp[t] \in Response \cup {NoResponse} /\ ~NoResponse.ok
    BY DEF Inv, TypeOK, NoResponse
<1>1. CASE PostDone(t)
    BY <1>0, <1>1, ReturnInv DEF PostDone, Unlock, Leading, Locked
<1>2. CASE CheckStore(t)
    <2>1. ~Leading(t) /\ ~Locked(t)
        BY <1>2 DEF CheckStore, Leading, Locked, Stages
    <2>2. lastCheck' \in {r \in Response : r.ok} \cup {NoResponse}
        BY <1>0, <1>2 DEF CheckStore
    <2>3. /\ Return(t)
          /\ (lock' = lock /\ ~Locked(t)) \/ (lock' = NoThread /\ Locked(t))
          /\ UNCHANGED <<config, cancel, flights, current, pending>>
        BY <1>2, <2>1 DEF CheckStore
    <2> QED BY <2>1, <2>2, <2>3, ReturnInv
<1>3. CASE DownloadFail(t)
    BY <1>0, <1>3, ReturnInv DEF DownloadFail, Unlock, Leading, Locked, InCheck, Stages
<1> QED BY <1>1, <1>2, <1>3

-----------------------------------------------------------------------------
(* fcb_download_and_install_blocking                                        *)

\* What a download knows between two steps.
LEMMA DownloadFacts ==
    ASSUME Inv, NEW t \in Threads
    PROVE  /\ lastCheck \in {r \in Response : r.ok} \cup {NoResponse}
           /\ lastCheck \in Response \cup {NoResponse}
           /\ cancel \in BOOLEAN /\ pending \in PatchOrNone
           /\ req[t] \in Request \cup {NoRequest}
           /\ resp[t] \in Response \cup {NoResponse}
           /\ req = [req EXCEPT ![t] = req[t]] /\ resp = [resp EXCEPT ![t] = resp[t]]
           /\ resp[t].patch \in PatchOrNone
<1>1. NoResponse.patch \in PatchOrNone
    BY DEF NoResponse, PatchOrNone
<1>2. resp[t] \in Response \cup {NoResponse}
    BY DEF Inv, TypeOK
<1>3. resp[t].patch \in PatchOrNone
    BY <1>1, <1>2 DEF Response
<1> QED BY <1>3 DEF Inv, TypeOK

\* ffi_guard takes the mutex.
LEMMA DownloadLockInv == ASSUME Inv, NEW t \in Threads, DownloadLock(t) PROVE Inv'
<1>0. pc[t] = "lock" /\ kind[t] = "download" /\ lock = NoThread /\ t # NoThread
    BY ThreadsAssumption DEF DownloadLock, Inv, Owner
<1>1. CASE Return(t) /\ UNCHANGED lock
    <2>1. ~Leading(t) /\ ~Locked(t)
        BY <1>0 DEF Leading, Locked, InCheck, Stages
    <2>2. /\ Return(t)
          /\ (lock' = lock /\ ~Locked(t)) \/ (lock' = NoThread /\ Locked(t))
          /\ lastCheck' \in {r \in Response : r.ok} \cup {NoResponse}
          /\ UNCHANGED <<config, cancel, flights, current, pending>>
        BY <1>1, <2>1, DownloadFacts DEF DownloadLock
    <2> QED BY <2>1, <2>2, ReturnInv
<1>2. CASE config # Unset /\ ~cancel /\ lock' = t /\ Goto(t, "resolve")
           /\ UNCHANGED <<slot, kind, req, flight, resp, id, calls, cancelled>>
    <2>1. /\ lock' = t /\ Goto(t, "resolve")
          /\ UNCHANGED <<config, lastCheck, cancel, flights, slot, current, pending, kind,
                         req, flight, resp, id, calls, cancelled>>
        BY <1>2 DEF DownloadLock
    <2>3. "resolve" \in PC /\ pc[t] \in Before
        BY <1>0 DEF PC, Before
    <2>4. PICK q \in Request \cup {NoRequest} : q = req[t]
        BY DownloadFacts
    <2>5. PICK z \in Response \cup {NoResponse} : z = resp[t]
        BY DownloadFacts
    <2>6. req' = [req EXCEPT ![t] = q] /\ resp' = [resp EXCEPT ![t] = z]
        BY <2>1, <2>4, <2>5, DownloadFacts
    <2>7. pending' \in PatchOrNone
        BY <2>1, DownloadFacts
    <2>8. PICK l \in PC : l = "resolve"
        BY <2>3
    <2>9. /\ Goto(t, l) /\ lock' = t /\ config # Unset
          /\ lock' = lock \/ (lock = NoThread /\ lock' = t)
          /\ cancel' = cancel /\ cancelled' = cancelled /\ l \notin {"commit", "posting"}
          /\ pc[t] \notin {"idle", "join", "http", "publish", "remove", "wait"}
          /\ l \notin {"idle", "request", "lock", "http", "publish", "remove", "wait"}
          /\ l # "join" /\ l # "answered"
        BY <1>0, <1>2, <2>1, <2>8
    <2>10. UNCHANGED <<config, lastCheck, flights, slot, current, kind, flight, id, calls>>
        BY <2>1
    <2>11. kind[t] = "download" /\ pc[t] \in Before
        BY <1>0, <2>3
    <2> QED BY <2>6, <2>7, <2>9, <2>10, <2>11, AdvanceInv
<1> QED BY <1>1, <1>2 DEF DownloadLock

\* The cached response, or a check under the mutex.
LEMMA DownloadResolveInv == ASSUME Inv, NEW t \in Threads, DownloadResolve(t) PROVE Inv'
<1>0. pc[t] = "resolve" /\ kind[t] = "download" /\ lock = t /\ config # Unset
    BY DEF DownloadResolve, Inv, Owner, Locked
<1>1. UNCHANGED <<lock, config, lastCheck, flights, slot, current, pending, kind, flight,
                  id, calls>>
    BY DEF DownloadResolve
<1>3. "answered" \in PC /\ "join" \in PC /\ "answered" \notin Before /\ pc[t] \in Before
      /\ {"answered", "join"} \cap Stages = {}
    BY <1>0 DEF PC, Before, Stages
<1>4. pending' \in PatchOrNone
    BY <1>1, DownloadFacts
<1>5. CASE lastCheck # NoResponse
    <2>1. Goto(t, "answered") /\ cancel' = cancel /\ cancelled' = cancelled /\ req' = req
          /\ resp' = [resp EXCEPT ![t] = lastCheck]
        BY <1>5 DEF DownloadResolve
    <2>2. PICK q \in Request \cup {NoRequest} : q = req[t]
        BY DownloadFacts
    <2>3. PICK z \in Response \cup {NoResponse} : z = lastCheck
        BY DownloadFacts
    <2>4. req' = [req EXCEPT ![t] = q] /\ resp' = [resp EXCEPT ![t] = z]
        BY <2>1, <2>2, <2>3, DownloadFacts
    <2>6. PICK l \in PC : l = "answered"
        BY <1>3
    <2>7. /\ Goto(t, l) /\ lock' = t
          /\ lock' = lock \/ (lock = NoThread /\ lock' = t)
          /\ cancel' = cancel /\ cancelled' = cancelled /\ l \notin {"commit", "posting"}
          /\ pc[t] \notin {"idle", "join", "http", "publish", "remove", "wait"}
          /\ l \notin {"idle", "request", "lock", "http", "publish", "remove", "wait"}
          /\ l # "join" /\ kind[t] = "download"
        BY <1>0, <1>1, <2>1, <2>6
    <2> QED BY <1>0, <1>1, <1>3, <1>4, <2>4, <2>7, AdvanceInv
<1>6. CASE lastCheck = NoResponse
    <2>1. Goto(t, "join") /\ cancel' = FALSE /\ cancelled' = {} /\ resp' = resp
          /\ req' = [req EXCEPT ![t] = RequestFromRuntime]
        BY <1>6 DEF DownloadResolve
    <2>2. PICK q \in Request : q = RequestFromRuntime
        BY <1>0, RequestTyped
    <2>3. PICK z \in Response \cup {NoResponse} : z = resp[t]
        BY DownloadFacts
    <2>4. req' = [req EXCEPT ![t] = q] /\ resp' = [resp EXCEPT ![t] = z]
        BY <2>1, <2>2, <2>3, DownloadFacts
    <2>5. q \in Request \cup {NoRequest}
        OBVIOUS
    <2>6. PICK l \in PC : l = "join"
        BY <1>3
    <2>7. /\ Goto(t, l) /\ lock' = t
          /\ lock' = lock \/ (lock = NoThread /\ lock' = t)
          /\ cancel' = FALSE /\ cancelled' = {}
          /\ pc[t] \notin {"idle", "join", "http", "publish", "remove", "wait"}
          /\ l \notin {"idle", "request", "lock", "http", "publish", "remove", "wait"}
          /\ l # "answered" /\ l # "resolve"
        BY <1>0, <1>1, <2>1, <2>6
    <2> QED BY <1>0, <1>1, <1>3, <1>4, <2>4, <2>5, <2>7, AdvanceInv
<1> QED BY <1>5, <1>6

\* A download goes on to its next stage, to the install or past it.
LEMMA StageInv ==
    ASSUME Inv, NEW t \in Threads, NEW l \in Stages \cup {"commit", "posting"},
           Goto(t, l), Locked(t), kind[t] = "download",
           pc[t] \in Stages \cup {"answered", "commit"},
           pc[t] \in Stages => ~cancel,
           pc[t] = "answered" => l \in Stages,
           pending' \in PatchOrNone,
           UNCHANGED <<lock, config, lastCheck, cancel, flights, slot, current,
                       kind, req, flight, resp, id, calls, cancelled>>
    PROVE  Inv'
<1>1. lock = t
    BY DEF Inv, Owner
<1>2. t \in cancelled => l \notin {"commit", "posting"}
    BY DEF Inv, Cancels, Stoppable, Stages
<1>3. l \in PC /\ l \notin Before
      /\ l \notin {"idle", "request", "lock", "http", "publish", "remove", "wait", "join",
                   "answered", "resolve"}
      /\ pc[t] \notin {"idle", "join", "http", "publish", "remove", "wait"}
    BY DEF PC, Before, Stages
<1>4. PICK q \in Request \cup {NoRequest} : q = req[t]
    BY DownloadFacts
<1>5. PICK z \in Response \cup {NoResponse} : z = resp[t]
    BY DownloadFacts
<1>6. req' = [req EXCEPT ![t] = q] /\ resp' = [resp EXCEPT ![t] = z]
    BY <1>4, <1>5, DownloadFacts
<1> QED BY <1>1, <1>2, <1>3, <1>6, AdvanceInv

\* The offer, the checkpoints and the install.
LEMMA DownloadInv ==
    ASSUME Inv, NEW t \in Threads, DownloadOffer(t) \/ DownloadCheckpoint(t) \/ Install(t)
    PROVE  Inv'
<1>0. pc[t] \in Stages \cup {"commit"} => kind[t] = "download"
    BY DEF Inv, Owner
<1>1. CASE DownloadOffer(t)
    <2>0. pc[t] = "answered" /\ kind[t] = "download" /\ Locked(t) /\ ~Leading(t)
        BY <1>1 DEF DownloadOffer, Locked, InCheck, Leading
    <2>1. CASE resp[t].patch = None
        BY <1>1, <2>0, <2>1, DownloadFacts, ReturnInv DEF DownloadOffer, Unlock
    <2>2. CASE resp[t].patch # None
        <3>1. Goto(t, "manifest") /\ pending' \in PatchOrNone
              /\ UNCHANGED <<lock, config, lastCheck, cancel, flights, slot, current, kind, req,
                             flight, resp, id, calls, cancelled>>
            BY <1>1, <2>2, DownloadFacts DEF DownloadOffer
        <3>2. pc[t] \notin Stages /\ "manifest" \in Stages
            BY <2>0 DEF Stages
        <3> QED BY <2>0, <3>1, <3>2, StageInv
    <2> QED BY <2>1, <2>2
<1>2. CASE DownloadCheckpoint(t)
    <2>0. pc[t] \in Stages /\ pc[t] # "answered" /\ Locked(t) /\ ~Leading(t)
        BY <1>2 DEF DownloadCheckpoint, Locked, Leading, Stages
    <2>1. CASE cancel
        BY <1>2, <2>0, <2>1, DownloadFacts, ReturnInv DEF DownloadCheckpoint, Unlock
    <2>2. CASE ~cancel
        <3>1. PICK l \in Stages \cup {"commit"} : l = NextStage(pc[t])
            BY <2>0 DEF Stages, NextStage
        <3>2. Goto(t, l) /\ pending' \in PatchOrNone
              /\ UNCHANGED <<lock, config, lastCheck, cancel, flights, slot, current, kind, req,
                             flight, resp, id, calls, cancelled>>
            BY <1>2, <2>2, <3>1, DownloadFacts DEF DownloadCheckpoint
        <3> QED BY <1>0, <2>0, <2>2, <3>2, StageInv
    <2> QED BY <2>1, <2>2
<1>3. CASE Install(t)
    <2>0. pc[t] = "commit" /\ Locked(t) /\ pc[t] \notin Stages
        BY <1>3 DEF Install, Locked, Stages
    <2>1. Goto(t, "posting") /\ pending' \in PatchOrNone
          /\ UNCHANGED <<lock, config, lastCheck, cancel, flights, slot, current, kind, req,
                         flight, resp, id, calls, cancelled>>
        BY <1>3, DownloadFacts DEF Install
    <2> QED BY <1>0, <2>0, <2>1, StageInv
<1> QED BY <1>1, <1>2, <1>3

-----------------------------------------------------------------------------
(* check_for_update_singleflight                                            *)

\* Two leaders have different requests.
LEMMA OneLeader ==
    ASSUME Inv, NEW t \in Threads, NEW u \in Threads, Leading(t), Leading(u),
           req[t] = req[u] \/ flight[t] = flight[u]
    PROVE  t = u
<1>1. id[t] = id[u] /\ id[t] # 0
    BY DEF Inv, Leaders, Flight
<1> QED BY <1>1 DEF Inv, Ids

\* A step of t inside the single-flight functions moves nothing but its own
\* label, flight and response.
Within(t, l, f, z) ==
    /\ Goto(t, l)
    /\ flight' = [flight EXCEPT ![t] = f]
    /\ resp' = [resp EXCEPT ![t] = z]
    /\ UNCHANGED <<lock, config, lastCheck, cancel, current, pending, kind, req, id, calls,
                   cancelled>>

\* What such a step leaves of the invariant whatever it does to the table.
LEMMA WithinInv ==
    ASSUME Inv, NEW t \in Threads, NEW l \in InCheck \ {"join"}, pc[t] \in InCheck,
           NEW f \in Flight \cup {NoFlight}, NEW z \in Response \cup {NoResponse},
           Within(t, l, f, z),
           flights' \in [Request -> Flight \cup {NoFlight}],
           slot' \in [Flight -> Response \cup {NoResponse}]
    PROVE  /\ TypeOK' /\ Ids' /\ Unflown' /\ Owner' /\ Cancels'
           /\ \A u \in Threads : /\ pc'[u] = IF u = t THEN l ELSE pc[u]
                                 /\ flight'[u] = IF u = t THEN f ELSE flight[u]
                                 /\ resp'[u] = IF u = t THEN z ELSE resp[u]
           /\ \A u \in Threads : u # t => (Leading(u)' <=> Leading(u))
           /\ id' = id /\ req' = req /\ kind' = kind /\ calls' = calls
<1> USE DEF Inv
<1>1. \A u \in Threads : /\ pc'[u] = IF u = t THEN l ELSE pc[u]
                         /\ flight'[u] = IF u = t THEN f ELSE flight[u]
                         /\ resp'[u] = IF u = t THEN z ELSE resp[u]
    BY DEF Within, Goto, TypeOK
<1>2. UNCHANGED <<lock, config, lastCheck, cancel, current, pending, kind, req, id, calls,
                  cancelled>>
    BY DEF Within
<1>3. l \in PC /\ l # "idle" /\ pc[t] # "idle" /\ l \notin Stages /\ pc[t] \notin Stages
      /\ l \notin {"resolve", "commit", "posting", "request", "lock", "join"}
    BY DEF InCheck, PC, Stages
<1>4. TypeOK'
    <2>1. /\ pc' \in [Threads -> PC]
          /\ flight' \in [Threads -> Flight \cup {NoFlight}]
          /\ resp' \in [Threads -> Response \cup {NoResponse}]
        BY <1>3 DEF Within, Goto, TypeOK
    <2> QED BY <1>2, <2>1 DEF TypeOK
<1>5. Ids'
    BY <1>1, <1>2, <1>3 DEF Ids
<1>6. Owner'
    BY <1>1, <1>2, <1>3 DEF Owner, Locked
<1>7. Cancels'
    BY <1>1, <1>2, <1>3 DEF Cancels, Stoppable, TypeOK
<1>8. \A u \in Threads : u # t => (Leading(u)' <=> Leading(u))
    BY <1>1 DEF Leading
<1>9. Unflown'
    BY <1>1, <1>3 DEF Unflown, Before
<1> QED BY <1>1, <1>2, <1>4, <1>5, <1>6, <1>7, <1>8, <1>9

\* Joining: the flight of the same request is followed, or a new one begins.
LEMMA JoinInv == ASSUME Inv, NEW t \in Threads, Join(t) PROVE Inv'
<1> USE DEF Inv
<1>0. /\ pc[t] = "join" /\ req[t] \in Request /\ flights[req[t]] \in Flight \cup {NoFlight}
      /\ id[t] # 0 /\ id[t] \in Flight /\ ~Leading(t)
      /\ "join" \in InCheck /\ slot \in [Flight -> Response \cup {NoResponse}]
      /\ flights \in [Request -> Flight \cup {NoFlight}]
      /\ slot' = slot
    BY MaxCallsAssumption DEF Join, Owner, Ids, TypeOK, Flight, Leading, InCheck
<1>1. PICK z \in Response \cup {NoResponse} : z = resp[t]
    BY DownloadFacts
<1>2. CASE flights[req[t]] # NoFlight
    <2>1. PICK f \in Flight : f = flights[req[t]]
        BY <1>0, <1>2
    <2>2. f \in Flight \cup {NoFlight} /\ "wait" \in InCheck \ {"join"} /\ flights' = flights
        BY <1>2 DEF InCheck, Join
    <2>3. Within(t, "wait", f, z)
        BY <1>1, <1>2, <2>1, DownloadFacts DEF Join, Within
    <2>4. /\ TypeOK' /\ Ids' /\ Unflown' /\ Owner' /\ Cancels'
          /\ \A u \in Threads : /\ pc'[u] = IF u = t THEN "wait" ELSE pc[u]
                                /\ flight'[u] = IF u = t THEN f ELSE flight[u]
                                /\ resp'[u] = IF u = t THEN z ELSE resp[u]
          /\ \A u \in Threads : u # t => (Leading(u)' <=> Leading(u))
          /\ id' = id /\ req' = req /\ kind' = kind /\ calls' = calls
        BY <1>0, <2>2, <2>3, WithinInv
    <2>5. PICK v \in Threads : Leading(v) /\ req[v] = req[t] /\ flight[v] = f
        BY <1>0, <1>2, <2>1 DEF EntriesHaveALeader
    <2>6. v # t /\ ~Leading(t)' /\ id[v] = f
        BY <1>0, <2>4, <2>5 DEF Leading, Leaders
    <2>7. Fresh'
        <3>1. \A u \in Threads : flight'[u] <= calls'
            BY <2>4, <2>5 DEF Fresh
        <3>2. \A u, w \in Threads : pc'[u] \in Before => flight'[w] # id'[u]
            BY <2>4, <2>5 DEF Fresh, Before
        <3>3. \A g \in Flight : slot'[g] # NoResponse => \E u \in Threads : flight'[u] = g
            <4>1. flight[t] = NoFlight
                BY <1>0 DEF Unflown, Before
            <4> QED BY <1>0, <2>4, <4>1 DEF Fresh, Flight, NoFlight
        <3> QED BY <3>1, <3>2, <3>3 DEF Fresh
    <2>8. Leaders' /\ EntriesHaveALeader'
        BY <1>0, <2>2, <2>4, <2>6 DEF Leaders, EntriesHaveALeader
    <2>9. Followers'
        <3>1. slot[f] # NoResponse => slot[f].to = req[t]
            BY <2>5, <2>6 DEF Leaders
        <3>2. \A u \in Threads : Leading(u) /\ flight[u] = f => req[u] = req[t]
            BY <2>5, OneLeader
        <3>3. slot[f] # NoResponse \/ pc[v] \in {"http", "publish"}
            BY <2>5, <2>6 DEF Leaders, Leading
        <3>4. \A u \in Threads : pc'[u] = "wait" =>
                 /\ flight'[u] \in Flight
                 /\ slot'[flight'[u]] # NoResponse => slot'[flight'[u]].to = req'[u]
            BY <1>0, <2>4, <3>1 DEF Followers
        <3>5. \A u, w \in Threads : pc'[u] = "wait" /\ Leading(w)' /\ flight'[u] = flight'[w] =>
                 req'[u] = req'[w]
            BY <2>4, <2>6, <3>2 DEF Followers
        <3>6. WaitersHaveALeader'
            <4> SUFFICES ASSUME NEW u \in Threads, pc'[u] = "wait", slot'[flight'[u]] = NoResponse
                         PROVE  \E w \in Threads : /\ pc'[w] \in {"http", "publish"}
                                                   /\ flight'[w] = flight'[u]
                BY DEF WaitersHaveALeader
            <4>1. CASE u = t
                BY <1>0, <2>4, <2>5, <2>6, <3>3, <4>1
            <4>2. CASE u # t
                <5>1. PICK w \in Threads : /\ pc[w] \in {"http", "publish"}
                                           /\ flight[w] = flight[u]
                    BY <1>0, <2>4, <4>2 DEF Followers, WaitersHaveALeader
                <5>2. w # t
                    BY <1>0, <5>1
                <5> QED BY <2>4, <4>2, <5>1, <5>2
            <4> QED BY <4>1, <4>2
        <3> QED BY <3>4, <3>5, <3>6 DEF Followers
    <2>10. AnswerMatchesRequest'
        BY <1>1, <2>4 DEF AnswerMatchesRequest
    <2> QED BY <2>4, <2>7, <2>8, <2>9, <2>10
<1>3. CASE flights[req[t]] = NoFlight
    <2>1. PICK f \in Flight : f = id[t]
        BY <1>0
    <2>2. f \in Flight \cup {NoFlight} /\ "http" \in InCheck \ {"join"}
        BY DEF InCheck
    <2>3. /\ flights' \in [Request -> Flight \cup {NoFlight}]
          /\ \A r \in Request : flights'[r] = IF r = req[t] THEN f ELSE flights[r]
        BY <1>0, <1>3, <2>1 DEF Join
    <2>4. Within(t, "http", f, z)
        BY <1>1, <1>3, <2>1, DownloadFacts DEF Join, Within
    <2>5. /\ TypeOK' /\ Ids' /\ Unflown' /\ Owner' /\ Cancels'
          /\ \A u \in Threads : /\ pc'[u] = IF u = t THEN "http" ELSE pc[u]
                                /\ flight'[u] = IF u = t THEN f ELSE flight[u]
                                /\ resp'[u] = IF u = t THEN z ELSE resp[u]
          /\ \A u \in Threads : u # t => (Leading(u)' <=> Leading(u))
          /\ id' = id /\ req' = req /\ kind' = kind /\ calls' = calls
        BY <1>0, <2>2, <2>3, <2>4, WithinInv
    <2>6. Leading(t)' /\ \A u \in Threads : flight[u] # f
        BY <1>0, <2>1, <2>5 DEF Leading, Fresh, Before
    <2>7. slot[f] = NoResponse
        BY <2>6 DEF Fresh
    <2>8. \A u \in Threads : Leading(u) => req[u] # req[t]
        BY <1>3 DEF Leaders, Flight, NoFlight
    <2>9. Fresh'
        <3>1. \A u \in Threads : flight'[u] <= calls'
            BY <2>1, <2>5 DEF Fresh, Ids
        <3>2. \A u, v \in Threads : pc'[u] \in Before => flight'[v] # id'[u]
            BY <1>0, <2>1, <2>5 DEF Fresh, Ids, Before
        <3>3. \A g \in Flight : slot'[g] # NoResponse => \E u \in Threads : flight'[u] = g
            <4>1. flight[t] = NoFlight
                BY <1>0 DEF Unflown, Before
            <4> QED BY <1>0, <2>5, <4>1 DEF Fresh, Flight, NoFlight
        <3> QED BY <3>1, <3>2, <3>3 DEF Fresh
    <2>10. Leaders'
        BY <1>0, <2>1, <2>3, <2>5, <2>7, <2>8 DEF Leaders
    <2>11. EntriesHaveALeader'
        <3> SUFFICES ASSUME NEW r \in Request, flights'[r] # NoFlight
                     PROVE  \E u \in Threads : /\ Leading(u)' /\ req'[u] = r
                                               /\ flight'[u] = flights'[r]
            BY DEF EntriesHaveALeader
        <3>1. CASE r = req[t]
            BY <2>3, <2>5, <2>6, <3>1
        <3>2. CASE r # req[t]
            <4>1. PICK u \in Threads : Leading(u) /\ req[u] = r /\ flight[u] = flights[r]
                BY <2>3, <3>2 DEF EntriesHaveALeader
            <4>2. u # t
                BY <1>0, <4>1
            <4> QED BY <2>3, <2>5, <3>2, <4>1, <4>2
        <3> QED BY <3>1, <3>2
    <2>12. Followers'
        <3>1. \A u \in Threads : pc'[u] = "wait" =>
                 /\ flight'[u] \in Flight
                 /\ slot'[flight'[u]] # NoResponse => slot'[flight'[u]].to = req'[u]
            BY <1>0, <2>5 DEF Followers
        <3>2. \A u, w \in Threads : pc'[u] = "wait" /\ Leading(w)' /\ flight'[u] = flight'[w] =>
                 req'[u] = req'[w]
            BY <2>5, <2>6 DEF Followers
        <3>3. WaitersHaveALeader'
            <4> SUFFICES ASSUME NEW u \in Threads, pc'[u] = "wait", slot'[flight'[u]] = NoResponse
                         PROVE  \E w \in Threads : /\ pc'[w] \in {"http", "publish"}
                                                   /\ flight'[w] = flight'[u]
                BY DEF WaitersHaveALeader
            <4>1. u # t /\ pc[u] = "wait" /\ slot[flight[u]] = NoResponse
                BY <1>0, <2>5
            <4>2. PICK w \in Threads : /\ pc[w] \in {"http", "publish"}
                                       /\ flight[w] = flight[u]
                BY <4>1 DEF Followers, WaitersHaveALeader
            <4>3. w # t
                BY <1>0, <4>2
            <4> QED BY <2>5, <4>1, <4>2, <4>3
        <3> QED BY <3>1, <3>2, <3>3 DEF Followers
    <2>13. AnswerMatchesRequest'
        BY <2>5 DEF AnswerMatchesRequest
    <2> QED BY <2>5, <2>9, <2>10, <2>11, <2>12, <2>13
<1> QED BY <1>2, <1>3

\* The server answers the leader, or the request fails.
LEMMA AnswerInv == ASSUME Inv, NEW t \in Threads, Answer(t) PROVE Inv'
<1> USE DEF Inv
<1>0. pc[t] = "http" /\ pc[t] \in InCheck /\ Leading(t) /\ "publish" \in InCheck \ {"join"}
    BY DEF Answer, Leading, InCheck
<1>1. PICK z \in Response : resp' = [resp EXCEPT ![t] = z] /\ z.to = req[t]
    <2>1. req[t] \in Request
        BY <1>0 DEF Leaders
    <2>2. PICK p \in {q \in Patches : q > req[t].current} \cup {None}, ok \in BOOLEAN :
             resp' = [resp EXCEPT ![t] = [to |-> req[t], ok |-> ok,
                                          patch |-> IF ok THEN p ELSE None]]
        BY DEF Answer
    <2>3. PICK n \in PatchOrNone : n = IF ok THEN p ELSE None
        BY DEF PatchOrNone
    <2>4. [to |-> req[t], ok |-> ok, patch |-> n] \in Response
        BY <2>1 DEF Response
    <2> QED BY <2>2, <2>3, <2>4
<1>2. PICK f \in Flight : f = id[t] /\ flight[t] = f
    BY <1>0 DEF Leaders
<1>3. Within(t, "publish", f, z)
    BY <1>1, <1>2 DEF Answer, Within, TypeOK
<1>4. flights' = flights /\ slot' = slot
    BY DEF Answer
<1>5. /\ TypeOK' /\ Ids' /\ Unflown' /\ Owner' /\ Cancels'
      /\ \A u \in Threads : /\ pc'[u] = IF u = t THEN "publish" ELSE pc[u]
                            /\ flight'[u] = IF u = t THEN f ELSE flight[u]
                            /\ resp'[u] = IF u = t THEN z ELSE resp[u]
      /\ \A u \in Threads : u # t => (Leading(u)' <=> Leading(u))
      /\ id' = id /\ req' = req /\ kind' = kind /\ calls' = calls
    <2>1. /\ flights' \in [Request -> Flight \cup {NoFlight}]
          /\ slot' \in [Flight -> Response \cup {NoResponse}]
          /\ z \in Response \cup {NoResponse} /\ f \in Flight \cup {NoFlight}
        BY <1>4 DEF TypeOK
    <2> QED BY <1>0, <1>3, <2>1, WithinInv
<1>6. flight' = flight /\ \A u \in Threads : Leading(u)' <=> Leading(u)
    <2>1. flight' = flight
        BY <1>2, <1>3 DEF Within, TypeOK
    <2>2. Leading(t)'
        BY <1>5 DEF Leading
    <2> QED BY <1>0, <1>5, <2>1, <2>2
<1>7. Fresh'
    BY <1>4, <1>5, <1>6 DEF Fresh, Before
<1>8. Leaders' /\ EntriesHaveALeader'
    BY <1>0, <1>1, <1>4, <1>5, <1>6 DEF Leaders, EntriesHaveALeader
<1>9. Followers'
    BY <1>0, <1>4, <1>5, <1>6 DEF Followers, WaitersHaveALeader
<1>10. AnswerMatchesRequest'
    BY <1>5 DEF AnswerMatchesRequest
<1> QED BY <1>5, <1>7, <1>8, <1>9, <1>10

\* The leader puts the answer into its flight: its followers asked the same.
LEMMA PublishInv == ASSUME Inv, NEW t \in Threads, Publish(t) PROVE Inv'
<1> USE DEF Inv
<1>0. pc[t] = "publish" /\ pc[t] \in InCheck /\ Leading(t) /\ "remove" \in InCheck \ {"join"}
    BY DEF Publish, Leading, InCheck
<1>1. PICK z \in Response : z = resp[t] /\ z.to = req[t]
    BY <1>0 DEF Leaders
<1>2. PICK f \in Flight : f = id[t] /\ flight[t] = f
    BY <1>0 DEF Leaders
<1>3. Within(t, "remove", f, z)
    BY <1>1, <1>2 DEF Publish, Within, TypeOK
<1>4. /\ flights' = flights
      /\ slot' \in [Flight -> Response \cup {NoResponse}]
      /\ \A g \in Flight : slot'[g] = IF g = f THEN z ELSE slot[g]
    BY <1>1, <1>2 DEF Publish, TypeOK
<1>5. /\ TypeOK' /\ Ids' /\ Unflown' /\ Owner' /\ Cancels'
      /\ \A u \in Threads : /\ pc'[u] = IF u = t THEN "remove" ELSE pc[u]
                            /\ flight'[u] = IF u = t THEN f ELSE flight[u]
                            /\ resp'[u] = IF u = t THEN z ELSE resp[u]
      /\ \A u \in Threads : u # t => (Leading(u)' <=> Leading(u))
      /\ id' = id /\ req' = req /\ kind' = kind /\ calls' = calls
    <2>1. /\ flights' \in [Request -> Flight \cup {NoFlight}]
          /\ z \in Response \cup {NoResponse} /\ f \in Flight \cup {NoFlight}
        BY <1>4 DEF TypeOK
    <2> QED BY <1>0, <1>3, <1>4, <2>1, WithinInv
<1>6. flight' = flight /\ \A u \in Threads : Leading(u)' <=> Leading(u)
    <2>1. flight' = flight
        BY <1>2, <1>3 DEF Within, TypeOK
    <2>2. Leading(t)'
        BY <1>5 DEF Leading
    <2> QED BY <1>0, <1>5, <2>1, <2>2
<1>7. z # NoResponse
    <2>1. z.to \in Request
        BY DEF Response
    <2>2. z.to.config \in Configs
        BY <2>1 DEF Request
    <2> QED BY <2>2, ConfigsAssumption DEF NoResponse, NoRequest
<1>8. Fresh'
    BY <1>2, <1>4, <1>5, <1>6 DEF Fresh, Before
<1>9. \A u \in Threads : Leading(u) /\ u # t => id[u] # f
    BY <1>0, <1>2, OneLeader DEF Leaders
<1>10. Leaders' /\ EntriesHaveALeader'
    <2>1. Leaders'
        BY <1>1, <1>2, <1>4, <1>5, <1>6, <1>7, <1>9 DEF Leaders
    <2>2. EntriesHaveALeader'
        BY <1>4, <1>5, <1>6 DEF EntriesHaveALeader
    <2> QED BY <2>1, <2>2
<1>11. Followers'
    <2>1. \A u \in Threads : pc'[u] = "wait" =>
             /\ flight'[u] \in Flight
             /\ slot'[flight'[u]] # NoResponse => slot'[flight'[u]].to = req'[u]
        <3> SUFFICES ASSUME NEW u \in Threads, pc'[u] = "wait"
                     PROVE  /\ flight[u] \in Flight
                            /\ slot'[flight[u]] # NoResponse => slot'[flight[u]].to = req[u]
            BY <1>5, <1>6
        <3>1. pc[u] = "wait" /\ flight[u] \in Flight
            BY <1>5 DEF Followers
        <3>2. flight[u] = f => req[u] = req[t]
            BY <1>0, <1>2, <3>1 DEF Followers
        <3> QED BY <1>1, <1>4, <3>1, <3>2 DEF Followers
    <2>2. \A u, w \in Threads : pc'[u] = "wait" /\ Leading(w)' /\ flight'[u] = flight'[w] =>
             req'[u] = req'[w]
        BY <1>5, <1>6 DEF Followers
    <2>3. WaitersHaveALeader'
        <3> SUFFICES ASSUME NEW u \in Threads, pc'[u] = "wait", slot'[flight'[u]] = NoResponse
                     PROVE  \E w \in Threads : /\ pc'[w] \in {"http", "publish"}
                                               /\ flight'[w] = flight'[u]
            BY DEF WaitersHaveALeader
        <3>1. pc[u] = "wait" /\ flight[u] \in Flight
            BY <1>5 DEF Followers
        <3>2. flight[u] # f /\ slot[flight[u]] = NoResponse
            BY <1>4, <1>6, <1>7, <3>1
        <3>3. PICK w \in Threads : pc[w] \in {"http", "publish"} /\ flight[w] = flight[u]
            BY <3>1, <3>2 DEF Followers, WaitersHaveALeader
        <3>4. w # t
            BY <1>2, <3>2, <3>3
        <3> QED BY <1>5, <1>6, <3>3, <3>4
    <2> QED BY <2>1, <2>2, <2>3 DEF Followers
<1>12. AnswerMatchesRequest'
    BY <1>5 DEF AnswerMatchesRequest
<1> QED BY <1>5, <1>8, <1>10, <1>11, <1>12

\* The leader takes its flight out of the table.
LEMMA RemoveInv == ASSUME Inv, NEW t \in Threads, Remove(t) PROVE Inv'
<1> USE DEF Inv
<1>0. pc[t] = "remove" /\ pc[t] \in InCheck /\ Leading(t) /\ "answered" \in InCheck \ {"join"}
    BY DEF Remove, Leading, InCheck
<1>1. PICK z \in Response : z = resp[t] /\ z.to = req[t]
    BY <1>0 DEF Leaders
<1>2. PICK f \in Flight : f = id[t] /\ flight[t] = f
    BY <1>0 DEF Leaders
<1>3. Within(t, "answered", f, z)
    BY <1>1, <1>2 DEF Remove, Within, TypeOK
<1>4. /\ slot' = slot
      /\ flights' \in [Request -> Flight \cup {NoFlight}]
      /\ \A r \in Request : flights'[r] = IF r = req[t] THEN NoFlight ELSE flights[r]
    BY DEF Remove, TypeOK
<1>5. /\ TypeOK' /\ Ids' /\ Unflown' /\ Owner' /\ Cancels'
      /\ \A u \in Threads : /\ pc'[u] = IF u = t THEN "answered" ELSE pc[u]
                            /\ flight'[u] = IF u = t THEN f ELSE flight[u]
                            /\ resp'[u] = IF u = t THEN z ELSE resp[u]
      /\ \A u \in Threads : u # t => (Leading(u)' <=> Leading(u))
      /\ id' = id /\ req' = req /\ kind' = kind /\ calls' = calls
    <2>1. /\ slot' \in [Flight -> Response \cup {NoResponse}]
          /\ z \in Response \cup {NoResponse} /\ f \in Flight \cup {NoFlight}
        BY <1>4 DEF TypeOK
    <2> QED BY <1>0, <1>3, <1>4, <2>1, WithinInv
<1>6. flight' = flight /\ ~Leading(t)'
    <2>1. flight' = flight
        BY <1>2, <1>3 DEF Within, TypeOK
    <2> QED BY <1>5, <2>1 DEF Leading
<1>7. Fresh'
    BY <1>4, <1>5, <1>6 DEF Fresh, Before
<1>8. \A u \in Threads : Leading(u) /\ u # t => req[u] # req[t]
    BY <1>0, OneLeader
<1>9. Leaders'
    BY <1>4, <1>5, <1>6, <1>8 DEF Leaders
<1>10. EntriesHaveALeader'
    <2> SUFFICES ASSUME NEW r \in Request, flights'[r] # NoFlight
                 PROVE  \E u \in Threads : /\ Leading(u)' /\ req'[u] = r
                                           /\ flight'[u] = flights'[r]
        BY DEF EntriesHaveALeader
    <2>1. r # req[t] /\ flights'[r] = flights[r]
        BY <1>4
    <2>2. PICK u \in Threads : Leading(u) /\ req[u] = r /\ flight[u] = flights[r]
        BY <2>1 DEF EntriesHaveALeader
    <2> QED BY <1>5, <1>6, <2>1, <2>2
<1>11. Followers'
    <2>1. \A u \in Threads : pc'[u] \in {"wait", "http", "publish"}
                                 <=> pc[u] \in {"wait", "http", "publish"}
        BY <1>0, <1>5
    <2> QED BY <1>0, <1>4, <1>5, <1>6, <2>1 DEF Followers, WaitersHaveALeader
<1>12. AnswerMatchesRequest'
    BY <1>1, <1>5 DEF AnswerMatchesRequest
<1> QED BY <1>5, <1>7, <1>9, <1>10, <1>11, <1>12

\* A follower takes the answer from the flight.
LEMMA WakeInv == ASSUME Inv, NEW t \in Threads, Wake(t) PROVE Inv'
<1> USE DEF Inv
<1>0. pc[t] = "wait" /\ pc[t] \in InCheck /\ ~Leading(t) /\ "answered" \in InCheck \ {"join"}
    BY DEF Wake, Leading, InCheck
<1>1. PICK f \in Flight : f = flight[t]
    BY <1>0 DEF Followers
<1>2. PICK z \in Response \cup {NoResponse} : z = slot[f] /\ z.to = req[t]
    BY <1>0, <1>1 DEF Wake, Followers, TypeOK
<1>3. Within(t, "answered", f, z)
    BY <1>1, <1>2 DEF Wake, Within, TypeOK
<1>4. flights' = flights /\ slot' = slot
    BY DEF Wake
<1>5. /\ TypeOK' /\ Ids' /\ Unflown' /\ Owner' /\ Cancels'
      /\ \A u \in Threads : /\ pc'[u] = IF u = t THEN "answered" ELSE pc[u]
                            /\ flight'[u] = IF u = t THEN f ELSE flight[u]
                            /\ resp'[u] = IF u = t THEN z ELSE resp[u]
      /\ \A u \in Threads : u # t => (Leading(u)' <=> Leading(u))
      /\ id' = id /\ req' = req /\ kind' = kind /\ calls' = calls
    <2>1. /\ flights' \in [Request -> Flight \cup {NoFlight}]
          /\ slot' \in [Flight -> Response \cup {NoResponse}] /\ f \in Flight \cup {NoFlight}
        BY <1>4 DEF TypeOK
    <2> QED BY <1>0, <1>3, <2>1, WithinInv
<1>6. flight' = flight /\ ~Leading(t)'
    <2>1. flight' = flight
        BY <1>1, <1>3 DEF Within, TypeOK
    <2> QED BY <1>5, <2>1 DEF Leading
<1>7. Fresh'
    BY <1>4, <1>5, <1>6 DEF Fresh, Before
<1>8. Leaders' /\ EntriesHaveALeader'
    BY <1>0, <1>4, <1>5, <1>6 DEF Leaders, EntriesHaveALeader
<1>9. Followers'
    <2>1. \A u \in Threads : /\ pc'[u] = "wait" => pc[u] = "wait"
                             /\ pc'[u] \in {"http", "publish"} <=> pc[u] \in {"http", "publish"}
        BY <1>0, <1>5
    <2> QED BY <1>4, <1>5, <1>6, <2>1 DEF Followers, WaitersHaveALeader
<1>10. AnswerMatchesRequest'
    BY <1>2, <1>5 DEF AnswerMatchesRequest
<1> QED BY <1>5, <1>7, <1>8, <1>9, <1>10

-----------------------------------------------------------------------------
(* The theorems                                                             *)

\* Every step of every call keeps the invariant.
LEMMA NextInv == Inv /\ [Next]_vars => Inv'
<1> SUFFICES ASSUME Inv, [Next]_vars PROVE Inv'
    OBVIOUS
<1>1. ASSUME NEW t \in Threads, Step(t) PROVE Inv'
    BY <1>1, EndInv, CheckRequestInv, JoinInv, AnswerInv, PublishInv, RemoveInv, WakeInv,
       DownloadLockInv, DownloadResolveInv, DownloadInv DEF Step
<1>2. CASE UNCHANGED vars
    BY <1>2 DEF vars, Inv, TypeOK, Ids, Fresh, Unflown, Leaders, Leading, EntriesHaveALeader,
       Followers, WaitersHaveALeader, AnswerMatchesRequest, Owner, Locked, Cancels,
       Stoppable
<1> QED BY <1>1, <1>2, CallInv DEF Next

\* The invariant holds whatever the threads do.
LEMMA Invariance == Spec => []Inv
BY InitInv, NextInv, PTL DEF Spec

\* The runtime keeps its types, and a failed check is never cached.
THEOREM RuntimeTyped == Spec => []TypeOK
<1>1. Inv => TypeOK
    BY DEF Inv
<1> QED BY <1>1, Invariance, PTL

\* One request for all threads that ask the same; its outcome reaches every
\* one of them; nothing of it stays in the table.
THEOREM ChecksAreSingleFlight == Spec => []SingleFlight
<1>1. Inv => SingleFlight
    <2> SUFFICES ASSUME Inv PROVE SingleFlight
        OBVIOUS
    <2>1. OneRequestInFlight
        BY OneLeader DEF OneRequestInFlight, Leading
    <2> QED BY <2>1 DEF SingleFlight, Inv, Followers
<1> QED BY <1>1, Invariance, PTL

\* A check returns the answer to its own question, led or followed.
THEOREM AnswersMatch == Spec => []AnswerMatchesRequest
<1>1. Inv => AnswerMatchesRequest
    BY DEF Inv
<1> QED BY <1>1, Invariance, PTL

\* A download that was cancelled after it began and before its last checkpoint
\* does not install as long as nobody has cleared the flag again: no check or
\* download that began later, and no download's own check.
THEOREM CancelledNeverInstalls == Spec => CancelStops
<1>1. Inv => \A t \in cancelled : pc[t] # "commit"
    BY DEF Inv, Cancels, Stoppable
<1>2. Inv /\ [Next]_vars =>
        [\A t \in cancelled : ~(pc[t] = "commit" /\ pc'[t] = "posting")]_vars
    BY <1>1
<1> QED BY <1>2, Invariance, PTL DEF Spec, CancelStops
=============================================================================
