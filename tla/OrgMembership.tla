---------------------------- MODULE OrgMembership ----------------------------
(***************************************************************************)
(* The members of one organisation: addOrgMember, updateOrgMemberRole and   *)
(* removeOrgMember of store.go behind requireOrgRole("owner"), and          *)
(* adminCreateOrg, which needs no role.                                     *)
(*                                                                          *)
(* Each handler reads the issuer's role, the member's role and the number   *)
(* of owners, and then writes, in separate statements without a             *)
(* transaction; handlers run concurrently.                                  *)
(***************************************************************************)
EXTENDS Integers, FiniteSets

CONSTANTS
    Users,          \* accounts of the server
    Founder,        \* the user who created the organisation
    Workers,        \* handlers that may run at the same time
    MaxRequests     \* bound: requests

ASSUME FounderAssumption == Founder \in Users
ASSUME UsersAssumption == IsFiniteSet(Users)
ASSUME MaxRequestsAssumption == MaxRequests \in Nat

VARIABLES
    role,       \* table org_memberships
    work,       \* the handler each worker executes
    requests    \* how many requests were made

vars == <<role, work, requests>>

-----------------------------------------------------------------------------

Roles == {"member", "admin", "owner"}
NoRole == "none"

\* What a request may carry as a role.
Inputs == Roles \cup {"", "guest"}

\* stale is a history: the table changed since the handler began to read it.
Work == [op : {"create", "add", "update", "remove"}, by : Users, user : Users,
         role : Inputs \cup {NoRole}, stage : {"auth", "current", "count", "write"},
         stale : BOOLEAN]
Idle == [op |-> "none", by |-> Founder, user |-> Founder, role |-> NoRole,
         stage |-> "idle", stale |-> FALSE]

\* adminCreateOrg makes the session's user the first owner.
Init ==
    /\ role = [u \in Users |-> IF u = Founder THEN "owner" ELSE NoRole]
    /\ work = [w \in Workers |-> Idle]
    /\ requests = 0

Owners == {u \in Users : role[u] = "owner"}

Goto(w, s) == work' = [work EXCEPT ![w].stage = s]
Respond(w) == work' = [work EXCEPT ![w] = Idle]

-----------------------------------------------------------------------------

\* by asks for user to have the role r, NoRole meaning removal.
Request(w) ==
    /\ work[w] = Idle /\ requests < MaxRequests
    /\ \E op \in {"add", "update", "remove"}, by, user \in Users, r \in Inputs \cup {NoRole} :
         /\ (r = NoRole) <=> (op = "remove")
         /\ work' = [work EXCEPT ![w] = [op |-> op, by |-> by, user |-> user, role |-> r,
                                         stage |-> "auth", stale |-> FALSE]]
    /\ requests' = requests + 1
    /\ UNCHANGED role

\* adminCreateOrg for the id of this organisation: putOrganization only
\* renames it, and addOrgMember makes the session's user an owner.
CreateOrg(w) ==
    /\ work[w] = Idle /\ requests < MaxRequests
    /\ \E by \in Users :
         work' = [work EXCEPT ![w] = [op |-> "create", by |-> by, user |-> by,
                                      role |-> "owner", stage |-> "write",
                                      stale |-> FALSE]]
    /\ requests' = requests + 1
    /\ UNCHANGED role

\* Fault: the role is taken as it comes.
NormalizedNot(r) == r

\* normalizeOrgRole: no role means member, an unknown one is an error.
Normalized(r) == CASE r = "" -> "member" [] r \in Roles -> r [] OTHER -> NoRole

\* requireOrgRole("owner"), and the role of an add or an update is normalised.
\* addOrgMember looks only at the organisation, which exists, before it writes.
RequireOwner(w) ==
    /\ work[w].stage = "auth"
    /\ LET k == work[w] IN
       IF role[k.by] # "owner" \/ (k.op # "remove" /\ Normalized(k.role) = NoRole)
       THEN Respond(w)
       ELSE work' = [work EXCEPT ![w].role = IF k.op = "remove" THEN NoRole
                                             ELSE Normalized(@),
                                 ![w].stage = IF k.op = "add" THEN "write" ELSE "current"]
    /\ UNCHANGED <<role, requests>>

\* Fault: only removals are guarded.
LosesOwnerOnRemoval(k) == role[k.user] = "owner" /\ k.op = "remove"

\* The member is an owner and is not going to be one.
LosesOwner(k) == role[k.user] = "owner" /\ k.role # "owner"

\* orgRoleForUser: 404 if there is no such member.
ReadRole(w) ==
    /\ work[w].stage = "current"
    /\ CASE role[work[w].user] = NoRole -> Respond(w)
         [] role[work[w].user] # NoRole /\ LosesOwner(work[w]) -> Goto(w, "count")
         [] OTHER -> Goto(w, "write")
    /\ UNCHANGED <<role, requests>>

\* orgOwnerCount: the last owner is refused.
CountOwners(w) ==
    /\ work[w].stage = "count"
    /\ IF Cardinality(Owners) <= 1 THEN Respond(w) ELSE Goto(w, "write")
    /\ UNCHANGED <<role, requests>>

\* Fault: an update of a member who is gone brings it back.
WrittenUpserts(k) == [role EXCEPT ![k.user] = k.role]

\* The upsert of addOrgMember; update and delete find no row when the member
\* is gone.
Written(k) ==
    IF k.op \in {"update", "remove"} /\ role[k.user] = NoRole THEN role
    ELSE [role EXCEPT ![k.user] = k.role]

Write(w) ==
    /\ work[w].stage = "write"
    /\ role' = Written(work[w])
    /\ work' = [v \in Workers |->
                  IF v = w \/ work[v] = Idle THEN Idle
                  ELSE [work[v] EXCEPT !.stale =
                          @ \/ (work[v].stage # "auth" /\ role' # role)]]
    /\ UNCHANGED requests

\* The server dies and comes back.
Restart ==
    /\ \E w \in Workers : work[w] # Idle
    /\ work' = [w \in Workers |-> Idle]
    /\ UNCHANGED <<role, requests>>

Handle(w) == RequireOwner(w) \/ ReadRole(w) \/ CountOwners(w) \/ Write(w)

Next == (\E w \in Workers : CreateOrg(w) \/ Request(w) \/ Handle(w)) \/ Restart

Spec == Init /\ [][Next]_vars

-----------------------------------------------------------------------------

Writing(w) == work[w].stage = "write" /\ work'[w].stage = "idle"

\* Type invariant; only the three roles ever come into the table.
TypeOK ==
    /\ role \in [Users -> Roles \cup {NoRole}]
    /\ work \in [Workers -> Work \cup {Idle}]
    /\ requests \in 0..MaxRequests

\* The guard in updateOrgMemberRole and removeOrgMember works where it is
\* asked: an update or removal that no other write overtakes between its count
\* and its statement never takes the last owner away.  It is not the promise of
\* docs/operations.md that this cannot happen at all: a stale count and adding
\* the owner again with a lower role do it, which is why AlwaysAnOwner fails.
\* This property says that there is no third way.
LastOwnerGuarded ==
    [][(Owners # {} /\ Owners' = {}) =>
         \E w \in Workers : Writing(w) /\ (work[w].op = "add" \/ work[w].stale)]_vars

\* Only adding a member or creating the organisation lets somebody in: an
\* update that is late never brings back a member who was removed in the
\* meantime.
RemovedStaysOut ==
    [][\A u \in Users : (role[u] = NoRole /\ role'[u] # NoRole) =>
         \E w \in Workers : Writing(w) /\ work[w].op \in {"add", "create"} /\ work[w].user = u]_vars

\* Claim of docs/operations.md:79: the system prevents that the last owner is
\* removed or degraded.  An organisation, which is created with an owner, always
\* has one.  The handlers of server/store.go do not keep it.
AlwaysAnOwner == Owners # {}

=============================================================================
