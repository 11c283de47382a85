------------------------- MODULE ServerPatchesProofs -------------------------
(***************************************************************************)
(* The safety properties of ServerPatches for any number of handlers,       *)
(* patches, payloads, channels, devices and requests.                       *)
(***************************************************************************)
EXTENDS ServerPatches, TLAPS

-----------------------------------------------------------------------------
(* The inductive invariant                                                  *)

AnyRow == [active : BOOLEAN, channel : Channels \cup {NoChannel},
           rollout : Rollouts \cup {0}, own : Channels \cup {NoChannel},
           payload : Payloads \cup {NoPayload}]
AnyWork == [op : {"none", "create", "promote", "rollback"},
            n : Numbers \cup {None}, row : AnyRow,
            stage : {"ensure", "get", "put", "read", "check", "row", "idle"}]

\* Which operation is at which stage, and that it has a whole row to write.
GoodWork(k) ==
    /\ k.stage # "idle" => k.n \in Numbers /\ k.op # "none"
    /\ k.stage \in {"ensure", "get", "put"} => k.op = "create"
    /\ k.stage = "read" => k.op \in {"promote", "rollback"}
    /\ k.stage \notin {"idle", "read"} => k.row \in Row
    /\ k.row.active => k.n \in Numbers
    /\ k.op = "promote" => k.row.active
    /\ k.op = "create" => ~k.row.active

Exposures == (Channels \cup {NoChannel}) \X Rollouts
Types ==
    /\ app \in BOOLEAN
    /\ rows \in [Numbers -> Row \cup {NoRow}]
    /\ objects \in [Numbers -> Payloads \cup {NoPayload}]
    /\ work \in [Workers -> AnyWork]
    /\ \A w \in Workers : GoodWork(work[w])
    /\ offer \in [Clients -> Offer \cup {NoOffer}]
    /\ current \in [Clients -> Numbers \cup {None}]
    /\ requests \in 0..MaxRequests
    /\ granted \in [Numbers -> SUBSET Exposures]
    /\ raced \in SUBSET Numbers

\* A handler that is past its upload, or has read a row, has an object.
Uploaded ==
    /\ RowsHaveObjects
    /\ \A w \in Workers : work[w].stage \in {"check", "row"} =>
          objects[work[w].n] # NoPayload

\* Rows, and what is going to be written as one, name the object's payload.
Matching ==
    /\ PayloadMatchesManifest
    /\ \A w \in Workers :
          work[w].stage \in {"check", "row"} /\ work[w].n \notin raced =>
              work[w].row.payload = objects[work[w].n]

\* A create that has passed the check for an existing object is alone with its
\* patch number, until a second one passes it before the first has uploaded.
Creating(k) == k.op = "create" /\ k.stage \in {"put", "check", "row"}
Sole ==
    \A w \in Workers : Creating(work[w]) /\ work[w].n \notin raced =>
        /\ rows[work[w].n] = NoRow
        /\ work[w].stage = "put" => objects[work[w].n] = NoPayload
        /\ \A v \in Workers \ {w} : work[v].n = work[w].n =>
              work[v].stage \notin {"put", "check", "row"}

\* Whatever is active, or is going to be, was asked for by one promote.
Granted(row, n) == row.active => <<row.channel, row.rollout>> \in granted[n]
Asked ==
    /\ \A n \in Numbers : Granted(rows[n], n)
    /\ \A w \in Workers : Granted(work[w].row, work[w].n)
    /\ ExposureWasRequested

Inv == Types /\ Uploaded /\ Matching /\ Sole /\ Asked

\* Nothing is published and nobody works.
LEMMA InitInv == Init => Inv
<1> SUFFICES ASSUME Init PROVE Inv
    OBVIOUS
<1> USE DEF Init
<1>1. NoRow \in AnyRow /\ ~NoRow.active
    BY DEF NoRow, AnyRow
<1>2. Idle \in AnyWork /\ GoodWork(Idle) /\ Idle.stage = "idle"
    BY <1>1 DEF Idle, AnyWork, GoodWork
<1>3. Types
    BY <1>2, MaxRequestsAssumption DEF Types
<1>4. Uploaded
    BY <1>2 DEF Uploaded, RowsHaveObjects
<1>5. Matching /\ Sole
    BY <1>2 DEF Matching, PayloadMatchesManifest, Sole, Creating
<1>6. Asked
    BY <1>1 DEF Asked, Granted, ExposureWasRequested, Idle
<1> QED BY <1>3, <1>4, <1>5, <1>6 DEF Inv

-----------------------------------------------------------------------------
(* The steps of the handlers                                                *)

\* The record of worker w becomes k.
Moves(w, k) == work' = [work EXCEPT ![w] = k]

\* A handler begins, ends, or goes on without touching rows and objects and
\* without passing the check for an existing object.
LEMMA QuietStep ==
    ASSUME Inv, NEW w \in Workers, NEW k \in AnyWork, Moves(w, k), GoodWork(k),
           app' \in BOOLEAN, requests' \in 0..MaxRequests,
           rows' = rows, objects' = objects, raced' = raced,
           offer' = offer, current' = current,
           granted' \in [Numbers -> SUBSET Exposures],
           \A n \in Numbers : granted[n] \subseteq granted'[n],
           Granted(k.row, k.n)',
           \/ k.stage \notin {"put", "check", "row"}
           \/ /\ k.stage = "row" /\ work[w].stage = "check"
              /\ k.n = work[w].n /\ k.op = work[w].op /\ k.row = work[w].row
    PROVE  Inv'
<1> USE DEF Inv
<1>1. /\ work' \in [Workers -> AnyWork]
      /\ \A v \in Workers : work'[v] = IF v = w THEN k ELSE work[v]
    BY DEF Types, Moves
<1>2. Types'
    BY <1>1 DEF Types
<1>3. Uploaded'
    BY <1>1 DEF Uploaded, RowsHaveObjects
<1>4. Matching'
    BY <1>1 DEF Matching, PayloadMatchesManifest
<1>5. Sole'
    BY <1>1 DEF Sole, Creating
<1>6. Asked'
    <2>1. \A n \in Numbers : Granted(rows[n], n)'
        BY DEF Asked, Granted
    <2>2. \A v \in Workers : Granted(work[v].row, work[v].n)'
        <3> SUFFICES ASSUME NEW v \in Workers PROVE Granted(work[v].row, work[v].n)'
            OBVIOUS
        <3>1. CASE v = w
            BY <3>1, <1>1 DEF Granted
        <3>2. CASE v # w
            <4>1. work'[v] = work[v] /\ Granted(work[v].row, work[v].n)
                BY <3>2, <1>1 DEF Asked
            <4>2. work[v].row.active => work[v].n \in Numbers
                BY DEF Types, GoodWork
            <4> QED BY <4>1, <4>2 DEF Granted
        <3> QED BY <3>1, <3>2
    <2>3. ExposureWasRequested'
        BY DEF Asked, ExposureWasRequested, Types, Offer, NoOffer, Eligible
    <2> QED BY <2>1, <2>2, <2>3 DEF Asked
<1> QED BY <1>2, <1>3, <1>4, <1>5, <1>6

\* A handler that begins.
LEMMA BeginQuiet ==
    ASSUME Inv, NEW w \in Workers,
           NEW op \in {"create", "promote", "rollback"}, NEW n \in Numbers,
           NEW row \in AnyRow, NEW first \in {"ensure", "read"},
           Begin(w, op, n, row, first),
           first = "ensure" => op = "create" /\ row \in Row,
           first = "read" => op # "create",
           op = "promote" => row.active,
           op = "create" => ~row.active,
           granted' \in [Numbers -> SUBSET Exposures],
           \A m \in Numbers : granted[m] \subseteq granted'[m],
           Granted(row, n)'
    PROVE  Inv'
<1> DEFINE k == [op |-> op, n |-> n, row |-> row, stage |-> first]
<1>1. k \in AnyWork /\ GoodWork(k) /\ k.stage \notin {"put", "check", "row"}
    BY DEF AnyWork, GoodWork
<1>2. Moves(w, k) /\ Granted(k.row, k.n)'
    BY DEF Begin, Moves
<1>3. requests' \in 0..MaxRequests
    BY MaxRequestsAssumption DEF Begin, Inv, Types
<1>4. app' \in BOOLEAN /\ rows' = rows /\ objects' = objects /\ raced' = raced
      /\ offer' = offer /\ current' = current
    BY DEF Begin, Inv, Types
<1> HIDE DEF k
<1> QED BY <1>1, <1>2, <1>3, <1>4, QuietStep

\* POST /v1/patches, /promote and /rollback.
LEMMA RequestInv == ASSUME Inv, NEW w \in Workers, Request(w) PROVE Inv'
<1>0. granted \in [Numbers -> SUBSET Exposures]
    BY DEF Inv, Types
<1>1. CASE CreatePatch(w)
    <2>1. PICK n \in Numbers, p \in Payloads, ch \in Channels, r \in Rollouts :
             Begin(w, "create", n,
                   [active |-> FALSE, channel |-> ch, rollout |-> r, own |-> ch, payload |-> p],
                   "ensure")
        BY <1>1 DEF CreatePatch
    <2> DEFINE row == [active |-> FALSE, channel |-> ch, rollout |-> r, own |-> ch, payload |-> p]
    <2>2. row \in Row /\ row \in AnyRow /\ ~row.active
        BY DEF Row, AnyRow
    <2>3. granted' = granted /\ Granted(row, n)'
        BY <1>1 DEF CreatePatch, Granted
    <2> HIDE DEF row
    <2>4. Begin(w, "create", n, row, "ensure")
        BY <2>1 DEF row
    <2> QED BY <1>0, <2>2, <2>3, <2>4, BeginQuiet
<1>2. CASE PromotePatch(w)
    <2>1. PICK n \in Numbers, ch \in Channels \cup {NoChannel}, r \in Rollouts :
             /\ Begin(w, "promote", n,
                      [NoRow EXCEPT !.active = TRUE, !.channel = ch, !.rollout = r], "read")
             /\ granted' = [granted EXCEPT ![n] = @ \cup {<<ch, r>>}]
        BY <1>2 DEF PromotePatch
    <2> DEFINE row == [NoRow EXCEPT !.active = TRUE, !.channel = ch, !.rollout = r]
    <2>2. row \in AnyRow /\ row.active /\ row.channel = ch /\ row.rollout = r
        BY DEF NoRow, AnyRow
    <2>3. /\ granted' \in [Numbers -> SUBSET Exposures]
          /\ \A m \in Numbers : granted[m] \subseteq granted'[m]
          /\ <<ch, r>> \in granted'[n]
        BY <1>0, <2>1 DEF Exposures
    <2> HIDE DEF row
    <2>4. Begin(w, "promote", n, row, "read")
        BY <2>1 DEF row
    <2>5. Granted(row, n)'
        BY <2>2, <2>3 DEF Granted
    <2> QED BY <2>2, <2>3, <2>4, <2>5, BeginQuiet
<1>3. CASE RollbackPatch(w)
    <2>1. PICK n \in Numbers : Begin(w, "rollback", n, NoRow, "read")
        BY <1>3 DEF RollbackPatch
    <2>2. NoRow \in AnyRow /\ ~NoRow.active
        BY DEF NoRow, AnyRow
    <2>3. granted' = granted /\ Granted(NoRow, n)'
        BY <1>3, <2>2 DEF RollbackPatch, Granted
    <2> QED BY <1>0, <2>1, <2>2, <2>3, BeginQuiet
<1> QED BY <1>1, <1>2, <1>3 DEF Request

\* A handler that answers its request, with or without an error.
LEMMA RespondQuiet ==
    ASSUME Inv, NEW w \in Workers, Respond(w),
           UNCHANGED <<app, rows, objects, offer, current, requests, granted, raced>>
    PROVE  Inv'
<1>1. Idle \in AnyWork /\ GoodWork(Idle) /\ Idle.stage = "idle" /\ ~Idle.row.active
    BY DEF Idle, NoRow, AnyWork, AnyRow, GoodWork
<1>2. Moves(w, Idle) /\ Granted(Idle.row, Idle.n)'
    BY <1>1 DEF Respond, Moves, Granted
<1>3. app' \in BOOLEAN /\ requests' \in 0..MaxRequests
      /\ granted' \in [Numbers -> SUBSET Exposures] /\ granted' = granted
    BY DEF Inv, Types
<1> HIDE DEF Idle
<1> QED BY <1>1, <1>2, <1>3, QuietStep

\* A handler that goes on to stage s without touching anything else.
LEMMA GotoQuiet ==
    ASSUME Inv, NEW w \in Workers, NEW s, Goto(w, s),
           \/ work[w].stage = "ensure" /\ s = "get"
           \/ work[w].stage = "check" /\ s = "row",
           app' \in BOOLEAN,
           UNCHANGED <<rows, objects, offer, current, requests, granted, raced>>
    PROVE  Inv'
<1>1. work[w] \in AnyWork /\ GoodWork(work[w])
    BY DEF Inv, Types
<1>2. PICK k \in AnyWork : k = [work[w] EXCEPT !.stage = s]
    BY <1>1 DEF AnyWork
<1>3. k.n = work[w].n /\ k.op = work[w].op /\ k.row = work[w].row /\ k.stage = s
    BY <1>1, <1>2 DEF AnyWork
<1>4. GoodWork(k)
    BY <1>1, <1>3 DEF GoodWork
<1>5. Granted(k.row, k.n)'
    BY <1>3 DEF Inv, Asked, Granted
<1>6. Moves(w, k)
    BY <1>2 DEF Goto, Moves
<1>7. requests' \in 0..MaxRequests /\ granted' \in [Numbers -> SUBSET Exposures]
    BY DEF Inv, Types
<1> QED BY <1>3, <1>4, <1>5, <1>6, <1>7, QuietStep

\* ensureAppInOrg.
LEMMA EnsureAppInv == ASSUME Inv, NEW w \in Workers, EnsureApp(w) PROVE Inv'
BY GotoQuiet DEF EnsureApp

\* The look for the app in putPatchInOrg.
LEMMA CheckAppInv == ASSUME Inv, NEW w \in Workers, CheckApp(w) PROVE Inv'
BY GotoQuiet, RespondQuiet DEF CheckApp, Inv, Types

\* An error ends a handler.
LEMMA HandlerFailsInv == ASSUME Inv, NEW w \in Workers, HandlerFails(w) PROVE Inv'
BY RespondQuiet DEF HandlerFails

\* The check for an existing object: who passes it is alone with the number,
\* or the number is raced from now on.
LEMMA GetObjectInv == ASSUME Inv, NEW w \in Workers, GetObject(w) PROVE Inv'
<1>1. CASE objects[work[w].n] # NoPayload
    BY <1>1, RespondQuiet DEF GetObject
<1>2. CASE objects[work[w].n] = NoPayload
    <2>0. work[w] \in AnyWork /\ GoodWork(work[w]) /\ work[w].stage = "get"
        BY DEF Inv, Types, GetObject
    <2>1. PICK k \in AnyWork : k = [work[w] EXCEPT !.stage = "put"]
        BY <2>0 DEF AnyWork
    <2>2. /\ k.n = work[w].n /\ k.op = work[w].op /\ k.row = work[w].row /\ k.stage = "put"
          /\ k.n \in Numbers
        BY <2>0, <2>1 DEF AnyWork, GoodWork
    <2>3. GoodWork(k)
        BY <2>0, <2>2 DEF GoodWork
    <2>4. \A v \in Workers : work'[v] = IF v = w THEN k ELSE work[v]
        BY <1>2, <2>1 DEF GetObject, Goto, Inv, Types
    <2>5. work' \in [Workers -> AnyWork]
        BY <1>2, <2>1 DEF GetObject, Goto, Inv, Types
    <2>6. raced' \in SUBSET Numbers /\ raced \subseteq raced'
        BY <1>2, <2>2 DEF GetObject, Inv, Types
    <2>7. /\ app' = app /\ rows' = rows /\ objects' = objects /\ offer' = offer
          /\ current' = current /\ requests' = requests /\ granted' = granted
        BY DEF GetObject
    <2>8. Types'
        BY <2>3, <2>4, <2>5, <2>6, <2>7 DEF Inv, Types
    <2>9. Uploaded'
        BY <2>2, <2>4, <2>7 DEF Inv, Uploaded, RowsHaveObjects
    <2>10. Matching'
        BY <2>2, <2>4, <2>6, <2>7 DEF Inv, Matching, PayloadMatchesManifest
    <2>11. Sole'
        <3> SUFFICES ASSUME NEW u \in Workers, Creating(work'[u]), work'[u].n \notin raced'
                     PROVE  /\ rows[work'[u].n] = NoRow
                            /\ work'[u].stage = "put" => objects[work'[u].n] = NoPayload
                            /\ \A v \in Workers \ {u} : work'[v].n = work'[u].n =>
                                  work'[v].stage \notin {"put", "check", "row"}
            BY <2>7 DEF Sole
        <3>1. CASE u = w
            <4>1. rows[k.n] = NoRow /\ objects[k.n] = NoPayload
                BY <1>2, <2>2 DEF Inv, Uploaded, RowsHaveObjects
            <4>2. \A v \in Workers \ {w} : work[v].n = k.n => work[v].stage # "put"
                BY <3>1, <1>2, <2>2, <2>4 DEF GetObject, Racing
            <4>3. \A v \in Workers \ {w} : work[v].n = k.n => work[v].stage \notin {"check", "row"}
                BY <4>1 DEF Inv, Uploaded
            <4> QED BY <3>1, <4>1, <4>2, <4>3, <2>2, <2>4
        <3>2. CASE u # w
            <4>1. work'[u] = work[u] /\ work[u].n \notin raced /\ Creating(work[u])
                BY <3>2, <2>4, <2>6
            <4>2. work[u].n # work[w].n
                <5>1. work[u].stage # "put" => objects[work[u].n] # NoPayload
                    BY <4>1 DEF Inv, Uploaded, Creating
                <5>2. work[u].stage = "put" /\ work[u].n = work[w].n => work[w].n \in raced'
                    BY <1>2, <3>2 DEF GetObject, Racing
                <5> QED BY <5>1, <5>2, <1>2, <4>1
            <4> QED BY <4>1, <4>2, <2>2, <2>4 DEF Inv, Sole
        <3> QED BY <3>1, <3>2
    <2>12. Asked'
        <3>1. \A v \in Workers : work'[v].row = work[v].row /\ work'[v].n = work[v].n
            BY <2>2, <2>4
        <3> QED BY <3>1, <2>7 DEF Inv, Asked, Granted, ExposureWasRequested, Eligible
    <2> QED BY <2>8, <2>9, <2>10, <2>11, <2>12 DEF Inv
<1> QED BY <1>1, <1>2

\* The upload: an unraced number has no row and no second handler that could
\* rely on the object that was not there.
LEMMA PutObjectInv == ASSUME Inv, NEW w \in Workers, PutObject(w) PROVE Inv'
<1>0. work[w] \in AnyWork /\ GoodWork(work[w]) /\ work[w].stage = "put"
    BY DEF Inv, Types, PutObject
<1>1. PICK k \in AnyWork : k = [work[w] EXCEPT !.stage = "check"]
    BY <1>0 DEF AnyWork
<1>2. /\ k.n = work[w].n /\ k.op = work[w].op /\ k.row = work[w].row /\ k.stage = "check"
      /\ k.n \in Numbers /\ k.row \in Row
    BY <1>0, <1>1 DEF AnyWork, GoodWork
<1>3. GoodWork(k) /\ Creating(work[w])
    BY <1>0, <1>2 DEF GoodWork, Creating
<1>4. \A v \in Workers : work'[v] = IF v = w THEN k ELSE work[v]
    BY <1>1 DEF PutObject, Goto, Inv, Types
<1>5. work' \in [Workers -> AnyWork]
    BY <1>1 DEF PutObject, Goto, Inv, Types
<1>6. k.row.payload \in Payloads /\ k.row.payload # NoPayload
    BY <1>2, PayloadAssumption DEF Row
<1>7. \A n \in Numbers : objects'[n] = IF n = k.n THEN k.row.payload ELSE objects[n]
    BY <1>2 DEF PutObject, Inv, Types
<1>8. /\ app' = app /\ rows' = rows /\ offer' = offer /\ raced' = raced
      /\ current' = current /\ requests' = requests /\ granted' = granted
    BY DEF PutObject
<1>9. Types'
    <2>1. objects' \in [Numbers -> Payloads \cup {NoPayload}]
        BY <1>2, <1>6 DEF PutObject, Inv, Types
    <2> QED BY <2>1, <1>3, <1>4, <1>5, <1>8 DEF Inv, Types
<1>10. \A v \in Workers : work[v].stage \in {"check", "row"} => work[v].n \in Numbers
    BY DEF Inv, Types, GoodWork
<1>11. Uploaded'
    <2>1. RowsHaveObjects'
        BY <1>6, <1>7, <1>8 DEF Inv, Uploaded, RowsHaveObjects
    <2>2. \A v \in Workers : work'[v].stage \in {"check", "row"} =>
             objects'[work'[v].n] # NoPayload
        BY <1>2, <1>4, <1>6, <1>7, <1>10 DEF Inv, Uploaded
    <2> QED BY <2>1, <2>2 DEF Uploaded
<1>12. k.n \notin raced =>
          /\ rows[k.n] = NoRow
          /\ \A v \in Workers \ {w} : work[v].n = k.n =>
                work[v].stage \notin {"put", "check", "row"}
    BY <1>2, <1>3 DEF Inv, Sole
<1>13. Matching'
    <2>1. PayloadMatchesManifest'
        BY <1>7, <1>8, <1>12 DEF Inv, Matching, PayloadMatchesManifest
    <2>2. \A v \in Workers : work'[v].stage \in {"check", "row"} /\ work'[v].n \notin raced =>
             work'[v].row.payload = objects'[work'[v].n]
        BY <1>2, <1>4, <1>7, <1>10, <1>12 DEF Inv, Matching
    <2> QED BY <2>1, <2>2, <1>8 DEF Matching
<1>14. Sole'
    <2> SUFFICES ASSUME NEW u \in Workers, Creating(work'[u]), work'[u].n \notin raced
                 PROVE  /\ rows[work'[u].n] = NoRow
                        /\ work'[u].stage = "put" => objects'[work'[u].n] = NoPayload
                        /\ \A v \in Workers \ {u} : work'[v].n = work'[u].n =>
                              work'[v].stage \notin {"put", "check", "row"}
        BY <1>8 DEF Sole
    <2>1. CASE u = w
        BY <2>1, <1>2, <1>4, <1>12
    <2>2. CASE u # w
        <3>1. work'[u] = work[u] /\ Creating(work[u]) /\ work[u].n \notin raced
            BY <2>2, <1>4
        <3>2. work[u].n # k.n
            BY <3>1, <2>2, <1>0, <1>2 DEF Inv, Sole
        <3>3. work[u].n \in Numbers
            BY <3>1 DEF Inv, Types, GoodWork, Creating
        <3> QED BY <3>1, <3>2, <3>3, <1>2, <1>4, <1>7 DEF Inv, Sole
    <2> QED BY <2>1, <2>2
<1>15. Asked'
    <2>1. \A v \in Workers : work'[v].row = work[v].row /\ work'[v].n = work[v].n
        BY <1>2, <1>4
    <2> QED BY <2>1, <1>8 DEF Inv, Asked, Granted, ExposureWasRequested, Eligible
<1> QED BY <1>9, <1>11, <1>13, <1>14, <1>15 DEF Inv

\* What a promote or a rollback is going to write: a whole row, for the
\* payload of the row it read, with the exposure of this one promote.
LEMMA UpdatedRow ==
    ASSUME Inv, NEW w \in Workers, work[w].stage = "read", rows[work[w].n] # NoRow
    PROVE  /\ Updated(work[w]) \in Row /\ Updated(work[w]) \in AnyRow
           /\ Updated(work[w]).payload = rows[work[w].n].payload
           /\ Updated(work[w]).active <=> work[w].op = "promote"
           /\ Granted(Updated(work[w]), work[w].n)
<1>0. work[w] \in AnyWork /\ GoodWork(work[w]) /\ work[w].n \in Numbers
    BY DEF Inv, Types, GoodWork
<1>1. rows[work[w].n] \in Row /\ work[w].row \in AnyRow
    BY <1>0 DEF Inv, Types, AnyWork
<1>2. Row \subseteq AnyRow
    BY DEF Row, AnyRow
<1>3. CASE work[w].op = "promote"
    <2>1. PICK row : row = Updated(work[w])
        OBVIOUS
    <2>2. /\ row \in Row /\ row.active /\ row.payload = rows[work[w].n].payload
          /\ row.channel = work[w].row.channel /\ row.rollout = work[w].row.rollout
        BY <1>1, <1>3, <2>1 DEF Updated, Row, AnyRow
    <2>3. work[w].row.active /\ Granted(work[w].row, work[w].n)
        BY <1>0, <1>3 DEF GoodWork, Inv, Asked
    <2>4. Granted(row, work[w].n)
        BY <2>2, <2>3 DEF Granted
    <2> QED BY <1>2, <1>3, <2>1, <2>2, <2>4
<1>4. CASE work[w].op # "promote"
    <2>1. PICK row : row = Updated(work[w])
        OBVIOUS
    <2>2. row \in Row /\ ~row.active /\ row.payload = rows[work[w].n].payload
        BY <1>1, <1>4, <2>1 DEF Updated, Row
    <2>3. Granted(row, work[w].n)
        BY <2>2 DEF Granted
    <2> QED BY <1>2, <1>4, <2>1, <2>2, <2>3
<1> QED BY <1>3, <1>4

\* getPatchInOrg and the change of the manifest it returned.
LEMMA ReadPatchInv == ASSUME Inv, NEW w \in Workers, ReadPatch(w) PROVE Inv'
<1>1. CASE ~(app /\ rows[work[w].n] # NoRow)
    BY <1>1, RespondQuiet DEF ReadPatch
<1>2. CASE app /\ rows[work[w].n] # NoRow
    <2>0. work[w] \in AnyWork /\ GoodWork(work[w]) /\ work[w].stage = "read"
        BY DEF Inv, Types, ReadPatch
    <2>1. PICK row \in Row : row = Updated(work[w])
        BY <2>0, <1>2, UpdatedRow
    <2>2. /\ row \in AnyRow /\ row.payload = rows[work[w].n].payload
          /\ row.active <=> work[w].op = "promote"
          /\ Granted(row, work[w].n)
        BY <2>0, <2>1, <1>2, UpdatedRow
    <2>3. PICK k \in AnyWork : k = [work[w] EXCEPT !.row = row, !.stage = "check"]
        BY <2>0, <2>2 DEF AnyWork
    <2>4. /\ k.n = work[w].n /\ k.op = work[w].op /\ k.row = row /\ k.stage = "check"
          /\ k.n \in Numbers /\ k.op \in {"promote", "rollback"}
        BY <2>0, <2>3 DEF AnyWork, GoodWork
    <2>5. GoodWork(k)
        BY <2>0, <2>1, <2>2, <2>4 DEF GoodWork
    <2>6. work' = [work EXCEPT ![w] = k]
        BY <1>2, <2>1, <2>3 DEF ReadPatch
    <2>7. /\ \A v \in Workers : work'[v] = IF v = w THEN k ELSE work[v]
          /\ work' \in [Workers -> AnyWork]
        BY <2>6 DEF Inv, Types
    <2>8. /\ app' = app /\ rows' = rows /\ objects' = objects /\ offer' = offer
          /\ raced' = raced /\ current' = current /\ requests' = requests
          /\ granted' = granted
        BY DEF ReadPatch
    <2>9. Types'
        BY <2>5, <2>7, <2>8 DEF Inv, Types
    <2>10. Uploaded'
        BY <1>2, <2>4, <2>7, <2>8 DEF Inv, Uploaded, RowsHaveObjects
    <2>11. Matching'
        <3>1. k.n \notin raced => k.row.payload = objects[k.n]
            BY <1>2, <2>2, <2>4 DEF Inv, Matching, PayloadMatchesManifest
        <3> QED BY <3>1, <2>7, <2>8 DEF Inv, Matching, PayloadMatchesManifest
    <2>12. Sole'
        <3>1. \A u \in Workers : Creating(work[u]) /\ work[u].n \notin raced => work[u].n # k.n
            BY <1>2, <2>4 DEF Inv, Sole
        <3> QED BY <3>1, <2>4, <2>7, <2>8 DEF Inv, Sole, Creating
    <2>13. Asked'
        <3>1. \A v \in Workers : Granted(work'[v].row, work'[v].n)
            BY <2>2, <2>4, <2>7 DEF Inv, Asked
        <3> QED BY <3>1, <2>8 DEF Inv, Asked, Granted, ExposureWasRequested, Eligible
    <2> QED BY <2>9, <2>10, <2>11, <2>12, <2>13 DEF Inv
<1> QED BY <1>1, <1>2

\* The row is inserted or replaced.
LEMMA WriteRowInv == ASSUME Inv, NEW w \in Workers, WriteRow(w) PROVE Inv'
<1>0. work[w] \in AnyWork /\ GoodWork(work[w]) /\ work[w].stage = "row"
    BY DEF Inv, Types, WriteRow
<1>1. PICK k \in AnyWork : k = work[w]
    BY <1>0
<1>2. k.n \in Numbers /\ k.row \in Row /\ k.stage = "row"
    BY <1>0, <1>1 DEF GoodWork
<1>3. Idle \in AnyWork /\ GoodWork(Idle) /\ Idle.stage = "idle" /\ ~Idle.row.active
    BY DEF Idle, NoRow, AnyWork, AnyRow, GoodWork
<1>4. /\ \A v \in Workers : work'[v] = IF v = w THEN Idle ELSE work[v]
      /\ work' \in [Workers -> AnyWork]
    BY <1>3 DEF WriteRow, Respond, Inv, Types
<1>5. /\ \A n \in Numbers : rows'[n] = IF n = k.n THEN k.row ELSE rows[n]
      /\ rows' \in [Numbers -> Row \cup {NoRow}]
    BY <1>1, <1>2 DEF WriteRow, Inv, Types
<1>6. /\ app' = app /\ objects' = objects /\ offer' = offer /\ raced' = raced
      /\ current' = current /\ requests' = requests /\ granted' = granted
    BY DEF WriteRow
<1>7. Types'
    BY <1>3, <1>4, <1>5, <1>6 DEF Inv, Types
<1>8. Uploaded'
    BY <1>1, <1>2, <1>3, <1>4, <1>5, <1>6 DEF Inv, Uploaded, RowsHaveObjects
<1>9. Matching'
    <2>1. k.n \notin raced => k.row.payload = objects[k.n]
        BY <1>1, <1>2 DEF Inv, Matching
    <2> QED BY <2>1, <1>3, <1>4, <1>5, <1>6 DEF Inv, Matching, PayloadMatchesManifest
<1>10. Sole'
    <2> SUFFICES ASSUME NEW u \in Workers, Creating(work'[u]), work'[u].n \notin raced
                 PROVE  /\ rows'[work'[u].n] = NoRow
                        /\ work'[u].stage = "put" => objects[work'[u].n] = NoPayload
                        /\ \A v \in Workers \ {u} : work'[v].n = work'[u].n =>
                              work'[v].stage \notin {"put", "check", "row"}
        BY <1>6 DEF Sole
    <2>1. u # w /\ work'[u] = work[u] /\ Creating(work[u])
        BY <1>3, <1>4 DEF Creating
    <2>2. work[u].n # k.n
        BY <2>1, <1>1, <1>2 DEF Inv, Sole
    <2>3. work[u].n \in Numbers
        BY <2>1 DEF Inv, Types, GoodWork, Creating
    <2> QED BY <2>1, <2>2, <2>3, <1>3, <1>4, <1>5 DEF Inv, Sole
<1>11. Asked'
    <2>1. \A v \in Workers : Granted(work'[v].row, work'[v].n)
        BY <1>3, <1>4 DEF Inv, Asked, Granted
    <2>2. \A n \in Numbers : Granted(rows'[n], n)
        BY <1>1, <1>5 DEF Inv, Asked
    <2> QED BY <2>1, <2>2, <1>6 DEF Inv, Asked, Granted, ExposureWasRequested, Eligible
<1> QED BY <1>7, <1>8, <1>9, <1>10, <1>11 DEF Inv

-----------------------------------------------------------------------------
(* Apps and clients                                                         *)

\* The app is created.
LEMMA CreateAppInv == ASSUME Inv, CreateApp PROVE Inv'
<1>1. Types'
    BY MaxRequestsAssumption DEF CreateApp, Inv, Types
<1>2. (Uploaded /\ Matching /\ Sole)'
    BY DEF CreateApp, Inv, Uploaded, RowsHaveObjects, Matching, PayloadMatchesManifest, Sole
<1>3. Asked'
    BY DEF CreateApp, Inv, Asked, Granted, ExposureWasRequested, Eligible
<1> QED BY <1>1, <1>2, <1>3 DEF Inv

\* The app is deleted with its rows; its objects stay.
LEMMA DeleteAppInv == ASSUME Inv, DeleteApp PROVE Inv'
<1>1. \A n \in Numbers : rows'[n] = NoRow
    BY DEF DeleteApp
<1>2. ~NoRow.active
    BY DEF NoRow
<1>3. Types'
    <2>1. rows' \in [Numbers -> Row \cup {NoRow}] /\ app' \in BOOLEAN
        BY DEF DeleteApp
    <2>2. requests' \in 0..MaxRequests
        BY MaxRequestsAssumption DEF DeleteApp, Inv, Types
    <2> QED BY <2>1, <2>2 DEF DeleteApp, Inv, Types
<1>4. \A w \in Workers : Creating(work[w]) => work[w].n \in Numbers
    BY DEF Inv, Types, GoodWork, Creating
<1>5. (Uploaded /\ Matching)'
    BY <1>1 DEF DeleteApp, Inv, Uploaded, RowsHaveObjects, Matching, PayloadMatchesManifest
<1>6. Sole'
    BY <1>1, <1>4 DEF DeleteApp, Inv, Sole, Creating
<1>7. Asked'
    BY <1>1, <1>2 DEF DeleteApp, Inv, Asked, Granted, ExposureWasRequested, Eligible
<1> QED BY <1>3, <1>5, <1>6, <1>7 DEF Inv

\* A check offers an active patch on the channel and in the rollout of its row.
LEMMA CheckInv == ASSUME Inv, NEW c \in Clients, Check(c) PROVE Inv'
<1>0. PICK n \in Numbers :
         /\ BestPatch(c, n)
         /\ offer' = [offer EXCEPT ![c] = [n |-> n, own |-> rows[n].own,
                                           payload |-> rows[n].payload]]
    BY DEF Check
<1>1. /\ rows[n].active /\ ActiveChannel(rows[n]) = ClientChannel[c]
      /\ Eligible(c, rows[n].rollout)
    BY <1>0 DEF BestPatch, Candidates
<1>2. rows[n] \in Row
    BY <1>1 DEF Inv, Types, NoRow
<1>3. PICK o \in Offer : o = [n |-> n, own |-> rows[n].own, payload |-> rows[n].payload]
    BY <1>2 DEF Offer, Row
<1>4. /\ offer' \in [Clients -> Offer \cup {NoOffer}]
      /\ \A d \in Clients : offer'[d] = IF d = c THEN o ELSE offer[d]
    BY <1>0, <1>3 DEF Inv, Types
<1>5. /\ app' = app /\ rows' = rows /\ objects' = objects /\ work' = work
      /\ raced' = raced /\ current' = current /\ requests' = requests
      /\ granted' = granted
    BY DEF Check
<1>6. Types'
    BY <1>4, <1>5 DEF Inv, Types
<1>7. (Uploaded /\ Matching /\ Sole)'
    BY <1>5 DEF Inv, Uploaded, RowsHaveObjects, Matching, PayloadMatchesManifest, Sole
<1>8. \E g \in granted[o.n] :
         /\ ClientChannel[c] = IF g[1] # NoChannel THEN g[1] ELSE o.own
         /\ Eligible(c, g[2])
    <2>1. PICK g : g = <<rows[n].channel, rows[n].rollout>>
        OBVIOUS
    <2>2. g \in granted[n] /\ g[1] = rows[n].channel /\ g[2] = rows[n].rollout
        BY <2>1, <1>1 DEF Inv, Asked, Granted
    <2>3. o.n = n /\ o.own = rows[n].own
        BY <1>3
    <2> QED BY <2>2, <2>3, <1>1 DEF ActiveChannel
<1>9. ExposureWasRequested'
    <2> SUFFICES ASSUME NEW d \in Clients, offer'[d] # NoOffer
                 PROVE  \E g \in granted[offer'[d].n] :
                           /\ ClientChannel[d] = IF g[1] # NoChannel THEN g[1] ELSE offer'[d].own
                           /\ Eligible(d, g[2])
        BY <1>5 DEF ExposureWasRequested, Eligible
    <2>1. CASE d = c
        BY <2>1, <1>4, <1>8
    <2>2. CASE d # c
        BY <2>2, <1>4 DEF Inv, Asked, ExposureWasRequested
    <2> QED BY <2>1, <2>2
<1>10. Asked'
    BY <1>5, <1>9 DEF Inv, Asked, Granted
<1> QED BY <1>6, <1>7, <1>10 DEF Inv

\* A download ends the offer, whether it succeeded or not.
LEMMA DownloadInv == ASSUME Inv, NEW c \in Clients, Download(c) PROVE Inv'
<1>1. offer[c] \in Offer
    BY DEF Download, Inv, Types
<1>2. offer[c].n \in Numbers
    BY <1>1 DEF Offer
<1>3. /\ offer' \in [Clients -> Offer \cup {NoOffer}]
      /\ \A d \in Clients : offer'[d] = IF d = c THEN NoOffer ELSE offer[d]
    BY DEF Download, Inv, Types
<1>4. current' \in [Clients -> Numbers \cup {None}]
    BY <1>2 DEF Download, Inv, Types
<1>5. /\ app' = app /\ rows' = rows /\ objects' = objects /\ work' = work
      /\ raced' = raced /\ requests' = requests /\ granted' = granted
    BY DEF Download
<1>6. Types'
    BY <1>3, <1>4, <1>5 DEF Inv, Types
<1>7. (Uploaded /\ Matching /\ Sole)'
    BY <1>5 DEF Inv, Uploaded, RowsHaveObjects, Matching, PayloadMatchesManifest, Sole
<1>8. Asked'
    BY <1>3, <1>5 DEF Inv, Asked, Granted, ExposureWasRequested, Eligible
<1> QED BY <1>6, <1>7, <1>8 DEF Inv

-----------------------------------------------------------------------------
(* The theorems                                                             *)

\* Every step keeps the invariant.
LEMMA NextInv == Inv /\ [Next]_vars => Inv'
<1> SUFFICES ASSUME Inv, [Next]_vars PROVE Inv'
    OBVIOUS
<1>1. ASSUME NEW w \in Workers, Request(w) PROVE Inv'
    BY <1>1, RequestInv
<1>2. ASSUME NEW w \in Workers, Handle(w) PROVE Inv'
    BY <1>2, EnsureAppInv, GetObjectInv, PutObjectInv, HandlerFailsInv, ReadPatchInv,
       CheckAppInv, WriteRowInv DEF Handle
<1>3. ASSUME NEW c \in Clients, Client(c) PROVE Inv'
    BY <1>3, CheckInv, DownloadInv DEF Client
<1>4. ASSUME UNCHANGED vars PROVE Inv'
    BY <1>4 DEF vars, Inv, Types, Uploaded, RowsHaveObjects, Matching,
       PayloadMatchesManifest, Sole, Asked, Granted, ExposureWasRequested, Eligible
<1> QED BY <1>1, <1>2, <1>3, <1>4, CreateAppInv, DeleteAppInv DEF Next

\* The invariant holds in every state the server can reach.
LEMMA Invariance == Spec => []Inv
BY InitInv, NextInv, PTL DEF Spec

\* What a worker holds is a whole request, what a table holds a whole row.
THEOREM PatchesTyped == Spec => []TypeOK
<1>1. Inv => TypeOK
    <2> SUFFICES ASSUME Inv PROVE TypeOK
        OBVIOUS
    <2>1. ASSUME NEW w \in Workers
          PROVE  /\ work[w].stage \in {"ensure", "get", "put", "read", "check", "row", "idle"}
                 /\ work[w].stage \in {"ensure", "get", "put", "check", "row"} => work[w] \in Work
        <3>1. work[w] \in AnyWork /\ GoodWork(work[w])
            BY DEF Inv, Types
        <3> QED BY <3>1 DEF AnyWork, GoodWork, Work
    <2> QED BY <2>1 DEF Inv, Types, TypeOK, Exposures
<1> QED BY <1>1, Invariance, PTL

\* No row without its object, whichever handler fails at which statement.
THEOREM NoRowWithoutObject == Spec => []RowsHaveObjects
<1>1. Inv => RowsHaveObjects
    BY DEF Inv, Uploaded
<1> QED BY <1>1, Invariance, PTL

\* The payload of a published patch is the one its manifest was signed for,
\* as long as no two uploads of the number overtook each other.
THEOREM PublishedPayload == Spec => []PayloadMatchesManifest
<1>1. Inv => PayloadMatchesManifest
    BY DEF Inv, Matching
<1> QED BY <1>1, Invariance, PTL

\* Nobody is offered a patch in an exposure that no single promote asked for.
THEOREM OffersWereRequested == Spec => []ExposureWasRequested
<1>1. Inv => ExposureWasRequested
    BY DEF Inv, Asked
<1> QED BY <1>1, Invariance, PTL

\* A patch stops being live only by its rollback or with its app: the row a
\* create writes is the first of its number, and a promote writes a live one.
THEOREM LiveStaysLive == Spec => LiveUntilRolledBack
<1>1. Inv /\ [Next]_vars =>
        [\A n \in Numbers \ raced : (Live(n) /\ ~Live(n)') =>
            ~app' \/ \E w \in Workers : RollsBack(w, n)]_vars
    <2> SUFFICES ASSUME Inv, Next, NEW n \in Numbers \ raced, Live(n), ~Live(n)', app'
                 PROVE  \E w \in Workers : RollsBack(w, n)
        OBVIOUS
    <2>0. rows[n].active /\ ~rows'[n].active
        BY DEF Live
    <2>1. PICK w \in Workers : WriteRow(w)
        BY <2>0 DEF Next, Request, Handle, Client, CreatePatch, PromotePatch, RollbackPatch,
           Begin, EnsureApp, GetObject, PutObject, HandlerFails, ReadPatch, CheckApp,
           CreateApp, DeleteApp, Check, Download
    <2>2. work[w] \in AnyWork /\ GoodWork(work[w]) /\ work[w].stage = "row"
        BY <2>1 DEF WriteRow, Inv, Types
    <2>3. work[w].n = n /\ ~work[w].row.active
        BY <2>0, <2>1 DEF WriteRow, Inv, Types
    <2>4. rows[n] # NoRow
        BY <2>0 DEF NoRow
    <2>5. work[w].op = "rollback"
        BY <2>2, <2>3, <2>4 DEF AnyWork, GoodWork, Inv, Sole, Creating
    <2>6. work'[w] = Idle
        BY <2>1 DEF WriteRow, Respond, Inv, Types
    <2> QED BY <2>2, <2>3, <2>5, <2>6 DEF RollsBack
<1> QED BY <1>1, Invariance, PTL DEF Spec, LiveUntilRolledBack
=============================================================================
