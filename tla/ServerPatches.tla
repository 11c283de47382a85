---------------------------- MODULE ServerPatches ----------------------------
(***************************************************************************)
(* The patches of one release on the server: handlers.go and store.go.      *)
(*                                                                          *)
(* A handler runs several statements against SQLite and the object store    *)
(* without a transaction around them, and handlers run concurrently; a      *)
(* worker is a handler that is being executed.  Clients check for a patch   *)
(* and download it.  Organisation, app, release, platform and arch are the  *)
(* same for all requests.                                                   *)
(***************************************************************************)
EXTENDS Integers, FiniteSets

CONSTANTS
    Workers,        \* handlers that may run at the same time
    Numbers,        \* patch numbers
    Payloads,       \* payloads a developer may upload
    NoPayload,      \* the object does not exist
    Channels,
    Rollouts,       \* percentages a developer may ask for
    Clients,        \* devices
    ClientChannel,  \* the channel of each device
    Cohort,         \* cohort() of each device
    MaxRequests     \* bound: requests of developers

ASSUME NumbersAssumption == Numbers \subseteq Nat \ {0}
ASSUME PayloadAssumption == NoPayload \notin Payloads
ASSUME RolloutAssumption == Rollouts \subseteq Nat
ASSUME ClientAssumption == /\ ClientChannel \in [Clients -> Channels]
                           /\ Cohort \in [Clients -> 0..9999]
ASSUME MaxRequestsAssumption == MaxRequests \in Nat

VARIABLES
    app,        \* whether the app is in table apps
    rows,       \* table patches
    objects,    \* the object store
    work,       \* the handler each worker executes
    offer,      \* the check response each client works with
    current,    \* the patch each client reports
    requests,   \* how many requests developers have made
    granted,    \* history: the exposure the promotes of a patch asked for
    raced       \* history: numbers for which two creates passed the check for
                \* an existing object together

vars == <<app, rows, objects, work, offer, current, requests, granted, raced>>

-----------------------------------------------------------------------------

None == 0
NoChannel == ""     \* a promote may leave the channel out

\* own and payload are in the signed manifest; active, channel and rollout
\* are what a promote or a rollback writes.
Row == [active : BOOLEAN, channel : Channels \cup {NoChannel},
        rollout : Rollouts \cup {0}, own : Channels, payload : Payloads]
NoRow == [active |-> FALSE, channel |-> NoChannel, rollout |-> 0,
          own |-> NoChannel, payload |-> NoPayload]

\* row is what the handler is going to write.
Work == [op : {"create", "promote", "rollback"}, n : Numbers, row : Row,
         stage : {"ensure", "get", "put", "read", "check", "row"}]
Idle == [op |-> "none", n |-> None, row |-> NoRow, stage |-> "idle"]

Offer == [n : Numbers, own : Channels, payload : Payloads]
NoOffer == [n |-> None, own |-> NoChannel, payload |-> NoPayload]

Init ==
    /\ app \in BOOLEAN
    /\ rows = [n \in Numbers |-> NoRow]
    /\ objects = [n \in Numbers |-> NoPayload]
    /\ work = [w \in Workers |-> Idle]
    /\ offer = [c \in Clients |-> NoOffer]
    /\ current = [c \in Clients |-> None]
    /\ requests = 0
    /\ granted = [n \in Numbers |-> {}]
    /\ raced = {}

Goto(w, s) == work' = [work EXCEPT ![w].stage = s]
Respond(w) == work' = [work EXCEPT ![w] = Idle]

-----------------------------------------------------------------------------
(* Requests                                                                 *)

\* A handler starts: req is what it is asked to write, first its first stage.
Begin(w, op, n, row, first) ==
    /\ work[w] = Idle /\ requests < MaxRequests
    /\ requests' = requests + 1
    /\ work' = [work EXCEPT ![w] = [op |-> op, n |-> n, row |-> row, stage |-> first]]
    /\ UNCHANGED <<app, rows, objects, offer, current, raced>>

\* POST /v1/patches: the new patch is inactive until it is promoted.
CreatePatch(w) ==
    /\ \E n \in Numbers, p \in Payloads, ch \in Channels, r \in Rollouts :
         Begin(w, "create", n,
               [active |-> FALSE, channel |-> ch, rollout |-> r, own |-> ch, payload |-> p],
               "ensure")
    /\ UNCHANGED granted

\* POST /v1/patches/promote
PromotePatch(w) ==
    \E n \in Numbers, ch \in Channels \cup {NoChannel}, r \in Rollouts :
        /\ Begin(w, "promote", n,
                 [NoRow EXCEPT !.active = TRUE, !.channel = ch, !.rollout = r], "read")
        /\ granted' = [granted EXCEPT ![n] = @ \cup {<<ch, r>>}]

\* POST /v1/patches/rollback
RollbackPatch(w) ==
    /\ \E n \in Numbers : Begin(w, "rollback", n, NoRow, "read")
    /\ UNCHANGED granted

-----------------------------------------------------------------------------
(* createPatch                                                              *)

\* ensureAppInOrg: an unknown app is created on the way.
EnsureApp(w) ==
    /\ work[w].stage = "ensure"
    /\ app' = TRUE
    /\ Goto(w, "get")
    /\ UNCHANGED <<rows, objects, offer, current, requests, granted, raced>>

\* Another create of the same patch is between its check and its upload.
Racing(w) == \E v \in Workers \ {w} : /\ work[v].n = work[w].n
                                      /\ work[v].stage = "put"

\* Fault: an existing object is overwritten.
GetObjectOverwrites(w) ==
    /\ work[w].stage = "get"
    /\ Goto(w, "put")
    /\ raced' = IF Racing(w) THEN raced \cup {work[w].n} ELSE raced
    /\ UNCHANGED <<app, rows, objects, offer, current, requests, granted>>

\* storage.Get: 409 if the payload object exists.
GetObject(w) ==
    /\ work[w].stage = "get"
    /\ IF objects[work[w].n] # NoPayload
       THEN Respond(w) /\ UNCHANGED raced
       ELSE /\ Goto(w, "put")
            /\ raced' = IF Racing(w) THEN raced \cup {work[w].n} ELSE raced
    /\ UNCHANGED <<app, rows, objects, offer, current, requests, granted>>

PutObject(w) ==
    /\ work[w].stage = "put"
    /\ objects' = [objects EXCEPT ![work[w].n] = work[w].row.payload]
    /\ Goto(w, "check")
    /\ UNCHANGED <<app, rows, offer, current, requests, granted, raced>>

\* Fault: an error of the object store is ignored.
HandlerFailsUnnoticed(w) ==
    /\ work[w].stage = "put"
    /\ Goto(w, "check")
    /\ UNCHANGED <<app, rows, objects, offer, current, requests, granted, raced>>

\* The object store or the database refuses, or the server dies with all its
\* handlers: what the handler has not yet written is never written.
HandlerFails(w) ==
    /\ work[w] # Idle
    /\ Respond(w)
    /\ UNCHANGED <<app, rows, objects, offer, current, requests, granted, raced>>

-----------------------------------------------------------------------------
(* promotePatch and rollbackPatch                                           *)

\* Fault: the channel of a promote is ignored.
UpdatedKeepsChannel(k) ==
    LET old == rows[k.n] IN
    IF k.op = "promote"
    THEN [old EXCEPT !.active = TRUE, !.rollout = k.row.rollout]
    ELSE [old EXCEPT !.active = FALSE, !.rollout = 0]

\* Fault: a live patch is taken from its channel and not put on the new one.
UpdatedTakesOff(k) ==
    LET old == rows[k.n] IN
    IF k.op = "promote"
    THEN [old EXCEPT !.active = ~old.active \/ k.row.channel = old.channel,
                     !.channel = k.row.channel, !.rollout = k.row.rollout]
    ELSE [old EXCEPT !.active = FALSE, !.rollout = 0]

\* The manifest that was read, with the fields the handler changes.
Updated(k) ==
    LET old == rows[k.n] IN
    IF k.op = "promote"
    THEN [old EXCEPT !.active = TRUE, !.channel = k.row.channel, !.rollout = k.row.rollout]
    ELSE [old EXCEPT !.active = FALSE, !.rollout = 0]

\* Fault: a missing row is not noticed.
ReadPatchUnchecked(w) ==
    /\ work[w].stage = "read"
    /\ work' = [work EXCEPT ![w].row = Updated(work[w]), ![w].stage = "check"]
    /\ UNCHANGED <<app, rows, objects, offer, current, requests, granted, raced>>

\* getPatchInOrg: 404 without the app or the row.
ReadPatch(w) ==
    /\ work[w].stage = "read"
    /\ IF app /\ rows[work[w].n] # NoRow
       THEN work' = [work EXCEPT ![w].row = Updated(work[w]), ![w].stage = "check"]
       ELSE Respond(w)
    /\ UNCHANGED <<app, rows, objects, offer, current, requests, granted, raced>>

-----------------------------------------------------------------------------
(* putPatchInOrg: the app is looked up, then the row is inserted or         *)
(* replaced, in two statements                                              *)

CheckApp(w) ==
    /\ work[w].stage = "check"
    /\ IF app THEN Goto(w, "row") ELSE Respond(w)
    /\ UNCHANGED <<app, rows, objects, offer, current, requests, granted, raced>>

WriteRow(w) ==
    /\ work[w].stage = "row"
    /\ rows' = [rows EXCEPT ![work[w].n] = work[w].row]
    /\ Respond(w)
    /\ UNCHANGED <<app, objects, offer, current, requests, granted, raced>>

-----------------------------------------------------------------------------
(* Apps                                                                     *)

CreateApp ==
    /\ ~app /\ requests < MaxRequests
    /\ app' = TRUE
    /\ requests' = requests + 1
    /\ UNCHANGED <<rows, objects, work, offer, current, granted, raced>>

\* deleteAppInOrg is one transaction; objects stay in the store.
DeleteApp ==
    /\ app /\ requests < MaxRequests
    /\ app' = FALSE
    /\ rows' = [n \in Numbers |-> NoRow]
    /\ requests' = requests + 1
    /\ UNCHANGED <<objects, work, offer, current, granted, raced>>

-----------------------------------------------------------------------------
(* checkPatch                                                               *)

Eligible(c, rollout) ==
    \/ rollout >= 100
    \/ rollout > 0 /\ Cohort[c] < rollout * 100

\* Without a channel of its own a promote means that of the manifest.
ActiveChannel(row) == IF row.channel # NoChannel THEN row.channel ELSE row.own

Candidates(c) ==
    {n \in Numbers : /\ app /\ rows[n].active
                     /\ n > current[c]
                     /\ ActiveChannel(rows[n]) = ClientChannel[c]
                     /\ Eligible(c, rows[n].rollout)}

\* Fault: the patch the client has is offered again.
BestPatchAgain(c, n) ==
    /\ app /\ rows[n].active /\ n >= current[c]
    /\ ActiveChannel(rows[n]) = ClientChannel[c]
    /\ Eligible(c, rows[n].rollout)
    /\ \A m \in Candidates(c) : m <= n

\* bestPatchInOrg: the highest number among the candidates.
BestPatch(c, n) == n \in Candidates(c) /\ \A m \in Candidates(c) : m <= n

Check(c) ==
    /\ offer[c] = NoOffer
    /\ \E n \in Numbers :
         /\ BestPatch(c, n)
         /\ offer' = [offer EXCEPT ![c] = [n |-> n, own |-> rows[n].own,
                                         payload |-> rows[n].payload]]
    /\ UNCHANGED <<app, rows, objects, work, current, requests, granted, raced>>

\* The client downloads what it was offered, which fails if the row is gone
\* or another manifest, or if the payload does not have the hash.
Download(c) ==
    /\ offer[c] # NoOffer
    /\ LET o == offer[c] IN
       current' = IF /\ app /\ rows[o.n].payload = o.payload /\ rows[o.n].own = o.own
                     /\ objects[o.n] = o.payload
                  THEN [current EXCEPT ![c] = o.n] ELSE current
    /\ offer' = [offer EXCEPT ![c] = NoOffer]
    /\ UNCHANGED <<app, rows, objects, work, requests, granted, raced>>

-----------------------------------------------------------------------------

Request(w) == CreatePatch(w) \/ PromotePatch(w) \/ RollbackPatch(w)

Handle(w) ==
    \/ EnsureApp(w)
    \/ GetObject(w)
    \/ PutObject(w)
    \/ HandlerFails(w)
    \/ ReadPatch(w)
    \/ CheckApp(w)
    \/ WriteRow(w)

Client(c) == Check(c) \/ Download(c)

Next ==
    \/ \E w \in Workers : Request(w) \/ Handle(w)
    \/ CreateApp
    \/ DeleteApp
    \/ \E c \in Clients : Client(c)

Spec == Init /\ [][Next]_vars

\* Handlers that were started are executed, and clients go on checking.
FairSpec == /\ Spec
            /\ \A w \in Workers : WF_vars(Handle(w))
            /\ \A c \in Clients : WF_vars(Client(c))

-----------------------------------------------------------------------------
(* What the server promises                                                 *)

\* Type invariant; a handler never writes a row it has not got.
TypeOK ==
    /\ app \in BOOLEAN
    /\ rows \in [Numbers -> Row \cup {NoRow}]
    /\ objects \in [Numbers -> Payloads \cup {NoPayload}]
    /\ \A w \in Workers :
         /\ work[w].stage \in {"ensure", "get", "put", "read", "check", "row", "idle"}
         /\ work[w].stage \in {"ensure", "get", "put", "check", "row"} => work[w] \in Work
    /\ offer \in [Clients -> Offer \cup {NoOffer}]
    /\ current \in [Clients -> Numbers \cup {None}]
    /\ requests \in 0..MaxRequests
    /\ granted \in [Numbers -> SUBSET ((Channels \cup {NoChannel}) \X Rollouts)]
    /\ raced \in SUBSET Numbers

\* Whatever handler dies where, a patch that can be found in the table has
\* its payload in the object store: the upload comes first and no handler
\* deletes an object.
RowsHaveObjects == \A n \in Numbers : rows[n] # NoRow => objects[n] # NoPayload

\* A published payload is the one its manifest was signed for, so clients can
\* install it, unless two uploads of the same number overtook each other.
PayloadMatchesManifest ==
    \A n \in Numbers \ raced : rows[n] # NoRow => rows[n].payload = objects[n]

\* A device is offered a patch only on a channel and in a rollout that one
\* promote asked for: concurrent promotes and rollbacks, which read the row
\* and write it back, never mix to an exposure nobody requested.
ExposureWasRequested ==
    \A c \in Clients : offer[c] # NoOffer =>
        \E g \in granted[offer[c].n] :
            /\ ClientChannel[c] = IF g[1] # NoChannel THEN g[1] ELSE offer[c].own
            /\ Eligible(c, g[2])

Live(n) == app /\ rows[n].active

RollsBack(w, n) ==
    /\ work[w].op = "rollback" /\ work[w].stage = "row" /\ work[w].n = n
    /\ work'[w] = Idle

\* A live patch stays live until it is rolled back or its app is deleted; no
\* upload, however late, takes it from the clients.
LiveUntilRolledBack ==
    [][\A n \in Numbers \ raced : (Live(n) /\ ~Live(n)') =>
         ~app' \/ \E w \in Workers : RollsBack(w, n)]_vars

\* When developers are done, every device ends up with the newest patch that
\* is meant for it and stops being offered any.
DevicesConverge == <>[](raced # {} \/ \A c \in Clients : offer[c] = NoOffer)
=============================================================================
