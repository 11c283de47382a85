------------------------- MODULE OrgMembershipProofs -------------------------
(***************************************************************************)
(* The three properties of OrgMembership for any number of users, of        *)
(* concurrent handlers and of requests.                                     *)
(***************************************************************************)
EXTENDS OrgMembership, FiniteSetTheorems, TLAPS

\* What a handler carries once the role in the request was normalised.
Normal ==
    \A w \in Workers :
        /\ work[w].stage \in {"current", "count", "write"} =>
             work[w].role \in Roles \cup {NoRole}
        /\ work[w].op = "create" => work[w].role = "owner"

\* What a handler that is about to write still knows of the table, unless
\* another write came in between: the guard has passed.
Guarded ==
    \A w \in Workers :
        work[w].stage = "write" /\ work[w].op \in {"update", "remove"} /\ ~work[w].stale =>
            \/ work[w].role = "owner"
            \/ role[work[w].user] # "owner"
            \/ Cardinality(Owners) > 1

Inv == TypeOK /\ Normal /\ Guarded

\* The founder is the only owner and no handler runs.
LEMMA InitInv == Init => Inv
BY FounderAssumption, MaxRequestsAssumption
   DEF Init, Inv, TypeOK, Normal, Guarded, Idle, Work, Roles, NoRole, Inputs

\* Taking away one of two owners leaves one.
LEMMA TwoOwners ==
    ASSUME NEW S, NEW x, Cardinality(S) > 1
    PROVE  S \ {x} # {}
<1>1. SUFFICES ASSUME S \ {x} = {} PROVE FALSE
    OBVIOUS
<1>2. S = {} \/ S = {x}
    BY <1>1
<1>3. Cardinality({}) = 0 /\ Cardinality({x}) = 1
    BY FS_EmptySet, FS_Singleton
<1> QED
    BY <1>2, <1>3

\* A handler begins: what it was asked for is well typed and has not yet
\* touched the table.
LEMMA BeginInv ==
    ASSUME Inv, NEW w \in Workers, NEW k \in Work,
           work' = [work EXCEPT ![w] = k], role' = role,
           requests < MaxRequests, requests' = requests + 1,
           k.stage = "auth" \/ k.op = "create",
           k.op = "create" => k.role = "owner"
    PROVE  Inv'
<1> USE DEF Inv
<1>1. TypeOK'
    BY MaxRequestsAssumption DEF TypeOK
<1>2. \A v \in Workers : work'[v] = IF v = w THEN k ELSE work[v]
    BY DEF TypeOK
<1>3. Normal'
    BY <1>2 DEF Normal, Roles
<1>4. Guarded'
    BY <1>2 DEF Guarded, Owners
<1> QED BY <1>1, <1>3, <1>4

\* A request of a member.
LEMMA RequestInv == ASSUME Inv, NEW w \in Workers, Request(w) PROVE Inv'
<1>1. PICK k \in Work : k.stage = "auth" /\ k.op # "create" /\ work' = [work EXCEPT ![w] = k]
    <2>1. PICK op \in {"add", "update", "remove"}, by \in Users, user \in Users,
               r \in Inputs \cup {NoRole} :
             work' = [work EXCEPT ![w] = [op |-> op, by |-> by, user |-> user, role |-> r,
                                          stage |-> "auth", stale |-> FALSE]]
        BY DEF Request
    <2> DEFINE k == [op |-> op, by |-> by, user |-> user, role |-> r,
                     stage |-> "auth", stale |-> FALSE]
    <2>2. k \in Work
        BY DEF Work
    <2> QED BY <2>1, <2>2
<1> QED BY <1>1, BeginInv DEF Request

\* adminCreateOrg begins.
LEMMA CreateOrgInv == ASSUME Inv, NEW w \in Workers, CreateOrg(w) PROVE Inv'
<1>1. PICK k \in Work : k.op = "create" /\ k.role = "owner" /\ work' = [work EXCEPT ![w] = k]
    <2>1. PICK by \in Users :
             work' = [work EXCEPT ![w] = [op |-> "create", by |-> by, user |-> by,
                                          role |-> "owner", stage |-> "write", stale |-> FALSE]]
        BY DEF CreateOrg
    <2> DEFINE k == [op |-> "create", by |-> by, user |-> by,
                     role |-> "owner", stage |-> "write", stale |-> FALSE]
    <2>2. k \in Work
        BY DEF Work, Inputs, Roles
    <2> QED BY <2>1, <2>2
<1> QED BY <1>1, BeginInv DEF CreateOrg

\* requireOrgRole and normalizeOrgRole.
LEMMA RequireOwnerInv == ASSUME Inv, NEW w \in Workers, RequireOwner(w) PROVE Inv'
<1> USE DEF Inv
<1>0. work[w] \in Work /\ Normalized(work[w].role) \in Roles \cup {NoRole}
    <2>1. work[w] \in Work
        BY DEF RequireOwner, TypeOK, Idle
    <2>2. \A r : Normalized(r) \in Roles \cup {NoRole}
        BY DEF Normalized, Roles, NoRole
    <2> QED BY <2>1, <2>2
<1>a. CASE work' = [work EXCEPT ![w] = Idle]
    BY <1>a DEF RequireOwner, TypeOK, Normal, Guarded, Work, Idle, Owners, Roles, NoRole
<1>b. CASE work' # [work EXCEPT ![w] = Idle]
    <2>1. work' = [work EXCEPT ![w] = [work[w] EXCEPT
                     !.role = IF work[w].op = "remove" THEN NoRole ELSE Normalized(work[w].role),
                     !.stage = IF work[w].op = "add" THEN "write" ELSE "current"]]
        BY <1>b, <1>0 DEF RequireOwner, Respond, TypeOK, Work
    <2>2. work[w].op # "create" \/ Normalized(work[w].role) = "owner"
        BY <1>0 DEF Normal, Normalized, Roles
    <2>3. TypeOK'
        BY <2>1, <1>0 DEF RequireOwner, TypeOK, Work, Idle, Roles, NoRole, Inputs
    <2>4. Normal'
        BY <2>1, <2>2, <1>0 DEF TypeOK, Normal, Work, Idle, Roles, NoRole
    <2>5. Guarded'
        BY <2>1, <1>0 DEF RequireOwner, TypeOK, Guarded, Work, Idle, Owners
    <2> QED BY <2>3, <2>4, <2>5
<1> QED BY <1>a, <1>b

\* orgRoleForUser: a handler that need not count goes on to write.
LEMMA ReadRoleInv == ASSUME Inv, NEW w \in Workers, ReadRole(w) PROVE Inv'
<1> USE DEF Inv
<1>0. work[w] \in Work /\ work[w].role \in Roles \cup {NoRole}
    BY DEF ReadRole, TypeOK, Normal, Work, Idle
<1>1. PICK s \in {"idle", "count", "write"} :
          /\ work' = IF s = "idle" THEN [work EXCEPT ![w] = Idle]
                     ELSE [work EXCEPT ![w] = [work[w] EXCEPT !.stage = s]]
          /\ s = "write" => role[work[w].user] # "owner" \/ work[w].role = "owner"
    BY <1>0 DEF ReadRole, Goto, Respond, LosesOwner, TypeOK, Work, NoRole
<1>2. role' = role /\ requests' = requests
    BY DEF ReadRole
<1>3. TypeOK'
    BY <1>0, <1>1, <1>2 DEF TypeOK, Work, Idle
<1>4. Normal'
    BY <1>0, <1>1, <1>2 DEF TypeOK, Normal, Work, Idle, Roles, NoRole
<1>5. Guarded'
    BY <1>0, <1>1, <1>2 DEF TypeOK, Guarded, Work, Idle, Owners
<1> QED BY <1>3, <1>4, <1>5

\* orgOwnerCount: a handler that goes on to write has seen two owners.
LEMMA CountOwnersInv == ASSUME Inv, NEW w \in Workers, CountOwners(w) PROVE Inv'
<1> USE DEF Inv
<1>0. work[w] \in Work /\ work[w].role \in Roles \cup {NoRole}
    BY DEF CountOwners, TypeOK, Normal, Work, Idle
<1>n. Cardinality(Owners) \in Nat
    <2>1. Owners \subseteq Users
        BY DEF Owners
    <2> QED BY <2>1, UsersAssumption, FS_Subset, FS_CardinalityType
<1>1. PICK s \in {"idle", "write"} :
          /\ work' = IF s = "idle" THEN [work EXCEPT ![w] = Idle]
                     ELSE [work EXCEPT ![w] = [work[w] EXCEPT !.stage = s]]
          /\ s = "write" => Cardinality(Owners) > 1
    BY <1>0, <1>n DEF CountOwners, Goto, Respond, TypeOK, Work
<1>2. role' = role /\ requests' = requests
    BY DEF CountOwners
<1>3. TypeOK'
    BY <1>0, <1>1, <1>2 DEF TypeOK, Work, Idle
<1>4. Normal'
    BY <1>0, <1>1, <1>2 DEF TypeOK, Normal, Work, Idle, Roles, NoRole
<1>5. Guarded'
    BY <1>0, <1>1, <1>2 DEF TypeOK, Guarded, Work, Idle, Owners
<1> QED BY <1>3, <1>4, <1>5

\* The table changes: whoever has read it before is stale from now on.
LEMMA WriteInv == ASSUME Inv, NEW w \in Workers, Write(w) PROVE Inv'
<1> USE DEF Inv
<1>0. work[w] \in Work /\ work[w].role \in Roles \cup {NoRole}
    BY DEF Write, TypeOK, Normal, Work, Idle
<1>1. role' \in [Users -> Roles \cup {NoRole}]
    BY <1>0 DEF Write, Written, TypeOK, Work
<1>2. \A v \in Workers :
          \/ work'[v] = Idle
          \/ /\ work[v] \in Work
             /\ work'[v] = [work[v] EXCEPT !.stale =
                              @ \/ (work[v].stage # "auth" /\ role' # role)]
    BY DEF Write, TypeOK
<1>f. \A v \in Workers :
          \/ work'[v] = Idle
          \/ /\ work'[v].op = work[v].op /\ work'[v].role = work[v].role
             /\ work'[v].user = work[v].user /\ work'[v].stage = work[v].stage
             /\ work'[v].stale = (work[v].stale \/ (work[v].stage # "auth" /\ role' # role))
    BY <1>2, Zenon DEF Work
<1>3. work' \in [Workers -> Work \cup {Idle}]
    BY <1>2 DEF Write, Work
<1>4. TypeOK'
    BY <1>1, <1>3 DEF Write, TypeOK
<1>5. Normal'
    BY <1>f DEF Normal, Idle, Roles, NoRole
<1>6. ASSUME NEW v \in Workers, work'[v].stage = "write",
             work'[v].op \in {"update", "remove"}, ~work'[v].stale
      PROVE  \/ work'[v].role = "owner"
             \/ role'[work'[v].user] # "owner"
             \/ Cardinality(Owners') > 1
    <2>1. /\ work[v].stage = "write" /\ work[v].op \in {"update", "remove"}
          /\ ~work[v].stale /\ role' = role
          /\ work'[v].role = work[v].role /\ work'[v].user = work[v].user
        <3>1. work'[v] # Idle
            BY <1>6 DEF Idle
        <3>2. work[v].stage = "write" /\ work[v].op \in {"update", "remove"}
            BY <3>1, <1>f, <1>6
        <3> QED BY <3>1, <3>2, <1>f, <1>6
    <2> QED BY <2>1 DEF Guarded, Owners
<1>7. Guarded'
    BY <1>6 DEF Guarded
<1> QED BY <1>4, <1>5, <1>7

\* Inv is inductive.
LEMMA NextInv == ASSUME Inv, [Next]_vars PROVE Inv'
<1>1. CASE Restart
    BY <1>1 DEF Restart, Inv, TypeOK, Normal, Guarded, Idle, Work, Owners
<1>2. CASE UNCHANGED vars
    BY <1>2 DEF vars, Inv, TypeOK, Normal, Guarded, Owners
<1>3. ASSUME NEW w \in Workers, CreateOrg(w) \/ Request(w) \/ Handle(w)
      PROVE  Inv'
    BY <1>3, RequestInv, CreateOrgInv, RequireOwnerInv, ReadRoleInv, CountOwnersInv, WriteInv
       DEF Handle
<1> QED BY <1>1, <1>2, <1>3 DEF Next

\* The invariant holds in every reachable state.
LEMMA Invariance == Spec => []Inv
BY InitInv, NextInv, PTL DEF Spec

\* Only the three roles ever come into the table and the handlers' data is
\* well typed, whatever role a request of store.go carries.
THEOREM MembersTyped == Spec => []TypeOK
BY Invariance, PTL DEF Inv

-----------------------------------------------------------------------------

\* Every step that changes the table is the Write of some handler.
LEMMA OnlyWriteWrites ==
    ASSUME Inv, [Next]_vars, role' # role
    PROVE  \E w \in Workers : Write(w)
BY DEF Next, vars, Handle, Request, CreateOrg, RequireOwner, ReadRole, CountOwners, Restart

\* A handler that writes has ended with that step.
LEMMA WriteEnds == ASSUME Inv, NEW w \in Workers, Write(w) PROVE Writing(w)
BY DEF Inv, TypeOK, Write, Writing, Idle

\* The step of RemovedStaysOut.
LEMMA StaysOutStep ==
    ASSUME Inv, [Next]_vars, NEW u \in Users, role[u] = NoRole, role'[u] # NoRole
    PROVE  \E w \in Workers :
             Writing(w) /\ work[w].op \in {"add", "create"} /\ work[w].user = u
<1>1. PICK w \in Workers : Write(w)
    BY OnlyWriteWrites
<1>2. work[w] \in Work
    BY <1>1 DEF Inv, TypeOK, Write, Idle
<1>3. work[w].user = u /\ work[w].op \in {"add", "create"}
    BY <1>1, <1>2 DEF Inv, TypeOK, Write, Written, Work
<1> QED BY <1>1, <1>3, WriteEnds

\* A late updateOrgMemberRole or removeOrgMember never brings back a member
\* who was removed meanwhile.
THEOREM NobodyComesBack == Spec => RemovedStaysOut
<1>1. ASSUME Inv, [Next]_vars
      PROVE  [\A u \in Users : (role[u] = NoRole /\ role'[u] # NoRole) =>
                \E w \in Workers : Writing(w) /\ work[w].op \in {"add", "create"}
                                   /\ work[w].user = u]_vars
    BY <1>1, StaysOutStep
<1> QED BY <1>1, Invariance, PTL DEF Spec, RemovedStaysOut

\* The step of LastOwnerGuarded.
LEMMA LastOwnerStep ==
    ASSUME Inv, [Next]_vars, Owners # {}, Owners' = {}
    PROVE  \E w \in Workers : Writing(w) /\ (work[w].op = "add" \/ work[w].stale)
<1>1. PICK w \in Workers : Write(w)
    <2>1. role' # role
        BY DEF Owners
    <2> QED BY <2>1, OnlyWriteWrites
<1>2. work[w] \in Work /\ work[w].stage = "write"
    BY <1>1 DEF Inv, TypeOK, Write, Idle
<1>3. \A u \in Users \ {work[w].user} : role'[u] = role[u]
    BY <1>1, <1>2 DEF Inv, TypeOK, Write, Written, Work
<1>4. work[w].op # "create"
    BY <1>1, <1>2 DEF Inv, TypeOK, Normal, Write, Written, Work, Owners
<1>5. ASSUME work[w].op \in {"update", "remove"}, ~work[w].stale PROVE FALSE
    <2>1. Owners \ {work[w].user} = {}
        BY <1>3 DEF Owners
    <2>2. ~(Cardinality(Owners) > 1)
        BY <2>1, TwoOwners
    <2>3. work[w].role = "owner" \/ role[work[w].user] # "owner"
        BY <1>2, <1>5, <2>2 DEF Inv, Guarded
    <2>4. role[work[w].user] = "owner"
        BY <2>1, <1>2 DEF Owners, Work
    <2>5. role'[work[w].user] = "owner"
        BY <1>1, <1>2, <2>3, <2>4 DEF Inv, TypeOK, Write, Written, Work
    <2> QED BY <2>5, <1>2 DEF Owners, Work
<1> QED BY <1>1, <1>2, <1>4, <1>5, WriteEnds DEF Work

\* The check in updateOrgMemberRole and removeOrgMember protects the last
\* owner whenever no other write overtakes it: an organisation loses its last
\* owner only by a stale count or by an add with a lower role, for any number of
\* users and requests.  They do happen, and AlwaysAnOwner is not a theorem.
THEOREM LastOwnerStays == Spec => LastOwnerGuarded
<1>1. ASSUME Inv, [Next]_vars
      PROVE  [(Owners # {} /\ Owners' = {}) =>
                \E w \in Workers : Writing(w) /\ (work[w].op = "add" \/ work[w].stale)]_vars
    BY <1>1, LastOwnerStep
<1> QED BY <1>1, Invariance, PTL DEF Spec, LastOwnerGuarded
=============================================================================
