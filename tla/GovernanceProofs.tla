--------------------------- MODULE GovernanceProofs ----------------------------
(***************************************************************************)
(* What holds of owners, grants and the decisions on them for every number *)
(* of users, organizations, teams, roles and requests.                     *)
(***************************************************************************)
EXTENDS Governance, TLAPS

\* What a request carries from its check to its transaction.
Granting == [pc : {"grant"}, team : Team, on : Resource, permissions : SUBSET Permission]
Inserting == [pc : {"insert"}, team : Team, on : Resource, permissions : SUBSET Permission,
              seen : SUBSET Permission]
Moving == [pc : {"transfer"}, user : User, on : {"package", "repository"}, to : Org]
Creating == [pc : {"create"}, inside : BOOLEAN, owner : User \cup Org, visibility : Visibility]
Updating == [pc : {"update"}, on : {"package", "repository"}, visibility : Visibility]
Requested == {Idle, Done} \cup Granting \cup Inserting \cup Moving \cup Creating \cup Updating

\* A resource that is not there has no grants: they come after it and go with it.
GrantsNeedResource == \A r \in Resource : owner[r] = None => grants[r] = NoGrants

IInv == TypeOK /\ request \in [Request -> Requested] /\ GrantsNeedResource

USE AccessAssumption, GovernanceAssumption, ShownAssumption

-----------------------------------------------------------------------------

\* Initially nothing has been granted and nobody is at work.
LEMMA InitEstablishes == Init => IInv
<1> SUFFICES ASSUME Init PROVE IInv
    OBVIOUS
<1>1. Founder \in User
    OBVIOUS
<1>2. owner \in [Resource -> User \cup Org \cup {None}] /\ owner["repository"] # None
    BY <1>1 DEF Init, Resource
<1>3. grants \in [Resource -> [Team -> SUBSET Permission]]
    BY DEF Init, NoGrants
<1>4. TypeOK
    <2>1. role \in [Org -> [User -> Role \cup {None}]] /\ team \in [Team -> SUBSET User]
        BY DEF Init
    <2>2. visibility \in [{"package", "repository"} -> Visibility]
        BY DEF Init
    <2>3. DOMAIN request = Request /\ squatted \in BOOLEAN
        BY DEF Init
    <2> QED
        BY <1>2, <1>3, <2>1, <2>2, <2>3 DEF TypeOK
<1>5. request \in [Request -> Requested]
    BY DEF Init, Requested
<1>6. GrantsNeedResource
    BY DEF Init, GrantsNeedResource
<1> QED
    BY <1>4, <1>5, <1>6 DEF IInv

\* A request that begins or ends leaves the others alone.
LEMMA RequestMoves ==
    ASSUME IInv, NEW q \in Request, NEW op \in Requested,
           request' = [request EXCEPT ![q] = op]
    PROVE  request' \in [Request -> Requested]
BY DEF IInv

\* Where only the requests change, what is said of the rows stays true.
LEMMA RowsStay ==
    ASSUME IInv, request' \in [Request -> Requested], UNCHANGED <<accessVars, squatted>>
    PROVE  IInv'
<1>1. UNCHANGED <<role, team, owner, visibility, grants, squatted>>
    BY DEF accessVars
<1>2. TypeOK'
    BY <1>1 DEF IInv, TypeOK
<1>3. GrantsNeedResource'
    BY <1>1 DEF IInv, GrantsNeedResource
<1> QED
    BY <1>2, <1>3 DEF IInv

\* A check that succeeds starts a request of one of the shapes above.
LEMMA CheckStep ==
    ASSUME IInv, NEW q \in Request,
           CheckGrant(q) \/ CheckTransfer(q) \/ CheckPackage(q) \/ CheckUpload(q) \/ CheckUpdate(q)
    PROVE  IInv'
<1>1. PICK op \in Requested : Begin(q, op)
    <2>1. CASE CheckGrant(q)
        <3>1. PICK t \in Team, r \in Resource : \E p \in Grantable[r] \cup {{}} :
                    Begin(q, [pc |-> "grant", team |-> t, on |-> r, permissions |-> p])
            BY <2>1 DEF CheckGrant
        <3>2. PICK p \in Grantable[r] \cup {{}} :
                    Begin(q, [pc |-> "grant", team |-> t, on |-> r, permissions |-> p])
            BY <3>1
        <3>3. p \subseteq Permission
            BY <3>2
        <3>4. [pc |-> "grant", team |-> t, on |-> r, permissions |-> p] \in Granting
            BY <3>3 DEF Granting
        <3> QED
            BY <3>2, <3>4 DEF Requested
    <2>2. CASE CheckTransfer(q)
        <3>1. PICK u \in User, r \in {"package", "repository"}, o \in Org :
                    Begin(q, [pc |-> "transfer", user |-> u, on |-> r, to |-> o])
            BY <2>2 DEF CheckTransfer
        <3>2. [pc |-> "transfer", user |-> u, on |-> r, to |-> o] \in Moving
            BY DEF Moving
        <3> QED
            BY <3>1, <3>2 DEF Requested
    <2>3. owner["repository"] \in User \cup Org
        BY DEF IInv, TypeOK, Resource
    <2>4. CASE CheckPackage(q)
        <3>1. PICK v \in Shown :
                    Begin(q, [pc |-> "create", inside |-> TRUE, owner |-> owner["repository"],
                              visibility |-> v])
            BY <2>4 DEF CheckPackage
        <3>2. [pc |-> "create", inside |-> TRUE, owner |-> owner["repository"],
               visibility |-> v] \in Creating
            BY <2>3 DEF Creating
        <3> QED
            BY <3>1, <3>2 DEF Requested
    <2>5. CASE CheckUpload(q)
        <3>1. PICK a \in Adapter :
                    Begin(q, [pc |-> "create", inside |-> a \in Namespaced,
                              owner |-> owner["repository"], visibility |-> AdapterVisibility(a)])
            BY <2>5 DEF CheckUpload
        <3>2. AdapterVisibility(a) \in Visibility
            BY DEF IInv, TypeOK, AdapterVisibility, Visibility
        <3>3. [pc |-> "create", inside |-> a \in Namespaced, owner |-> owner["repository"],
               visibility |-> AdapterVisibility(a)] \in Creating
            BY <2>3, <3>2 DEF Creating
        <3> QED
            BY <3>1, <3>3 DEF Requested
    <2>6. CASE CheckUpdate(q)
        <3>1. PICK r \in {"package", "repository"}, v \in Shown :
                    Begin(q, [pc |-> "update", on |-> r, visibility |-> v])
            BY <2>6 DEF CheckUpdate
        <3>2. [pc |-> "update", on |-> r, visibility |-> v] \in Updating
            BY DEF Updating
        <3> QED
            BY <3>1, <3>2 DEF Requested
    <2> QED
        BY <2>1, <2>2, <2>4, <2>5, <2>6
<1> QED
    BY <1>1, RequestMoves, RowsStay DEF Begin

\* Roles and teams come and go next to the resources.
LEMMA PeopleStep ==
    ASSUME IInv, NEW q \in Request, Reassign(q) \/ ChangeTeam(q)
    PROVE  IInv'
<1>1. /\ UNCHANGED <<owner, visibility, grants, squatted>>
      /\ request' = [request EXCEPT ![q] = Done]
    BY DEF Reassign, ChangeTeam, OneStep, Finish
<1>2. request' \in [Request -> Requested]
    BY <1>1, RequestMoves DEF Requested
<1>3. role' \in [Org -> [User -> Role \cup {None}]]
    <2>1. CASE Reassign(q)
        <3>1. PICK o \in Org, u \in User \ {Founder}, r \in Role \cup {None} :
                    role' = [role EXCEPT ![o][u] = r]
            BY <2>1 DEF Reassign
        <3>2. role[o] \in [User -> Role \cup {None}]
            BY DEF IInv, TypeOK
        <3>3. [role[o] EXCEPT ![u] = r] \in [User -> Role \cup {None}]
            BY <3>2
        <3>4. role' = [role EXCEPT ![o] = [role[o] EXCEPT ![u] = r]]
            BY <3>1 DEF IInv, TypeOK
        <3> QED
            BY <3>3, <3>4 DEF IInv, TypeOK
    <2> QED
        BY <2>1 DEF ChangeTeam, IInv, TypeOK
<1>4. team' \in [Team -> SUBSET User]
    <2>1. CASE ChangeTeam(q)
        <3>1. PICK t \in Team, u \in User :
                    team' = [team EXCEPT ![t] = @ \cup {u}] \/ team' = [team EXCEPT ![t] = @ \ {u}]
            BY <2>1 DEF ChangeTeam
        <3>2. team[t] \cup {u} \in SUBSET User /\ team[t] \ {u} \in SUBSET User
            BY DEF IInv, TypeOK
        <3> QED
            BY <3>1, <3>2 DEF IInv, TypeOK
    <2> QED
        BY <2>1 DEF Reassign, IInv, TypeOK
<1>5. TypeOK'
    BY <1>1, <1>2, <1>3, <1>4 DEF IInv, TypeOK
<1>6. GrantsNeedResource'
    BY <1>1 DEF IInv, GrantsNeedResource
<1> QED
    BY <1>2, <1>5, <1>6 DEF IInv

\* The DELETE of a replace only remembers what it has seen.
LEMMA DropStep ==
    ASSUME IInv, NEW q \in Request, DropGrant(q)
    PROVE  IInv'
<1> DEFINE g == request[q]
           op == [pc |-> "insert", team |-> g.team, on |-> g.on, permissions |-> g.permissions,
                  seen |-> grants[g.on][g.team]]
<1>1. request \in [Request -> Requested]
    BY DEF IInv
<1>2. g \in Granting
    BY <1>1 DEF DropGrant, Ready, Requested, Idle, Done, Granting, Inserting, Moving, Creating, Updating
<1>3. grants[g.on][g.team] \subseteq Permission
    BY <1>2 DEF Granting, IInv, TypeOK
<1>4. op \in Inserting
    BY <1>2, <1>3 DEF Granting, Inserting
<1>5. request' = [request EXCEPT ![q] = op]
    BY <1>1 DEF DropGrant
<1> QED
    BY <1>4, <1>5, RequestMoves, RowsStay DEF Requested, DropGrant

\* The request in hand of an INSERT, and the grants it leaves.
LEMMA InsertLeaves ==
    ASSUME IInv, NEW q \in Request, InsertGrant(q)
    PROVE  LET g == request[q]
               kept == grants[g.on][g.team] \ g.seen
           IN  /\ g \in Inserting
               /\ request' \in [Request -> Requested] /\ request'[q] = Done
               /\ UNCHANGED <<role, team, owner, visibility, squatted>>
               /\ \/ UNCHANGED grants
                  \/ /\ owner[g.on] # None
                     /\ grants' = [grants EXCEPT ![g.on][g.team] = kept \cup g.permissions]
<1> DEFINE g == request[q]
           kept == grants[g.on][g.team] \ g.seen
           Unseen(o) == IF o.pc = "insert" /\ o.on = g.on /\ o.team = g.team
                        THEN [o EXCEPT !.seen = @ \ g.permissions] ELSE o
<1>1. request \in [Request -> Requested]
    BY DEF IInv
<1>2. g \in Inserting
    BY <1>1 DEF InsertGrant, Ready, Requested, Idle, Done, Granting, Inserting, Moving, Creating, Updating
<1>3. UNCHANGED <<role, team, owner, visibility, squatted>>
    BY DEF InsertGrant
<1>4. CASE owner[g.on] = None \/ kept \cap g.permissions # {}
    <2>1. request' = [request EXCEPT ![q] = Done] /\ UNCHANGED grants
        BY <1>4 DEF InsertGrant, Finish
    <2> QED
        BY <2>1, <1>1, <1>2, <1>3 DEF Requested
<1>5. CASE owner[g.on] # None /\ kept \cap g.permissions = {}
    <2>1. /\ grants' = [grants EXCEPT ![g.on][g.team] = kept \cup g.permissions]
          /\ request' = [p \in Request |-> IF p = q THEN Done ELSE Unseen(request[p])]
        BY <1>5 DEF InsertGrant
    <2>2. ASSUME NEW o \in Requested PROVE Unseen(o) \in Requested
        <3>1. CASE o.pc = "insert"
            <4>1. o \in Inserting
                BY <3>1 DEF Requested, Idle, Done, Granting, Inserting, Moving, Creating, Updating
            <4>2. [o EXCEPT !.seen = @ \ g.permissions] \in Inserting
                BY <4>1 DEF Inserting
            <4> QED
                BY <4>1, <4>2 DEF Requested
        <3> QED
            BY <3>1
    <2> HIDE DEF Unseen
    <2>3. request' \in [Request -> Requested] /\ request'[q] = Done
        BY <2>1, <2>2, <1>1 DEF Requested
    <2> QED
        BY <2>1, <2>3, <1>2, <1>3, <1>5
<1> QED
    BY <1>4, <1>5

\* Rows are inserted for a resource that is there.
LEMMA InsertStep ==
    ASSUME IInv, NEW q \in Request, InsertGrant(q)
    PROVE  IInv'
<1> DEFINE g == request[q]
           after == (grants[g.on][g.team] \ g.seen) \cup g.permissions
<1>1. /\ g \in Inserting
      /\ request' \in [Request -> Requested]
      /\ UNCHANGED <<role, team, owner, visibility, squatted>>
      /\ \/ UNCHANGED grants
         \/ owner[g.on] # None /\ grants' = [grants EXCEPT ![g.on][g.team] = after]
    BY InsertLeaves
<1>2. grants \in [Resource -> [Team -> SUBSET Permission]]
    BY DEF IInv, TypeOK
<1>3. after \subseteq Permission /\ g.on \in Resource /\ g.team \in Team
    BY <1>1, <1>2 DEF Inserting
<1>4. [grants[g.on] EXCEPT ![g.team] = after] \in [Team -> SUBSET Permission]
    BY <1>2, <1>3
<1>5. \/ UNCHANGED grants
      \/ /\ owner[g.on] # None
         /\ grants' = [grants EXCEPT ![g.on] = [grants[g.on] EXCEPT ![g.team] = after]]
    BY <1>1, <1>2
<1>6. grants' \in [Resource -> [Team -> SUBSET Permission]]
    BY <1>2, <1>3, <1>4, <1>5
<1>7. TypeOK'
    BY <1>1, <1>6 DEF IInv, TypeOK
<1>8. GrantsNeedResource'
    BY <1>1, <1>2, <1>3, <1>5 DEF IInv, GrantsNeedResource
<1> QED
    BY <1>1, <1>7, <1>8 DEF IInv

\* What changes hands leaves its grants behind.
LEMMA MoveLeaves ==
    ASSUME IInv, NEW r \in Resource, NEW u \in User, NEW o \in Org, Move(r, u, o)
    PROVE  /\ owner' \in [Resource -> User \cup Org \cup {None}] /\ owner'["repository"] # None
           /\ grants' \in [Resource -> [Team -> SUBSET Permission]]
           /\ owner' = [owner EXCEPT ![r] = o] /\ grants' = [grants EXCEPT ![r] = NoGrants]
           /\ GrantsNeedResource'
<1>1. owner' = [owner EXCEPT ![r] = o] /\ grants' = [grants EXCEPT ![r] = NoGrants]
    BY DEF Move
<1>2. owner' \in [Resource -> User \cup Org \cup {None}] /\ owner'["repository"] # None
    BY <1>1 DEF IInv, TypeOK, Resource
<1>3. NoGrants \in [Team -> SUBSET Permission]
    BY DEF NoGrants
<1>4. grants' \in [Resource -> [Team -> SUBSET Permission]]
    BY <1>1, <1>3 DEF IInv, TypeOK
<1>5. GrantsNeedResource'
    BY <1>1 DEF IInv, TypeOK, GrantsNeedResource
<1> QED
    BY <1>1, <1>2, <1>4, <1>5

\* A transfer, of whatever kind, moves one resource, or nothing.
LEMMA TransferMoves ==
    ASSUME IInv, NEW q \in Request, Transfer(q) \/ TransferNamespace(q)
    PROVE  \/ UNCHANGED <<owner, grants>>
           \/ \E r \in Resource, u \in User, o \in Org : Move(r, u, o)
<1>1. CASE TransferNamespace(q)
    BY <1>1 DEF TransferNamespace, Resource
<1>2. CASE Transfer(q)
    <2> DEFINE t == request[q]
    <2>1. t \in Moving
        BY <1>2 DEF IInv, Transfer, Ready, Requested, Idle, Done, Granting, Inserting, Moving, Creating, Updating
    <2>2. t.on \in Resource /\ t.user \in User /\ t.to \in Org
        BY <2>1 DEF Moving, Resource
    <2> QED
        BY <1>2, <2>2 DEF Transfer
<1> QED
    BY <1>1, <1>2

\* The transfers preserve IInv.
LEMMA TransferStep ==
    ASSUME IInv, NEW q \in Request, Transfer(q) \/ TransferNamespace(q)
    PROVE  IInv'
<1>1. UNCHANGED <<role, team, visibility, squatted>> /\ request' = [request EXCEPT ![q] = Done]
    BY DEF Transfer, TransferNamespace, OneStep, Finish
<1>2. request' \in [Request -> Requested]
    BY <1>1, RequestMoves DEF Requested
<1>3. \/ UNCHANGED <<owner, grants>>
      \/ \E r \in Resource, u \in User, o \in Org : Move(r, u, o)
    BY TransferMoves
<1>4. CASE UNCHANGED <<owner, grants>>
    <2>1. TypeOK'
        BY <1>1, <1>2, <1>4 DEF IInv, TypeOK
    <2>2. GrantsNeedResource'
        BY <1>4 DEF IInv, GrantsNeedResource
    <2> QED
        BY <1>2, <2>1, <2>2 DEF IInv
<1>5. ASSUME NEW r \in Resource, NEW u \in User, NEW o \in Org, Move(r, u, o)
      PROVE  IInv'
    <2>1. TypeOK'
        BY <1>1, <1>2, <1>5, MoveLeaves DEF IInv, TypeOK
    <2> QED
        BY <1>2, <1>5, <2>1, MoveLeaves DEF IInv
<1> QED
    BY <1>3, <1>4, <1>5

\* A claim comes for a namespace that has none, and goes with its grants.
LEMMA ClaimStep ==
    ASSUME IInv, NEW q \in Request, ClaimNamespace(q) \/ DeleteNamespace(q)
    PROVE  IInv'
<1>1. UNCHANGED <<role, team, visibility, squatted>> /\ request' = [request EXCEPT ![q] = Done]
    BY DEF ClaimNamespace, DeleteNamespace, OneStep, Finish
<1>2. request' \in [Request -> Requested]
    BY <1>1, RequestMoves DEF Requested
<1>3. PICK o \in User \cup Org \cup {None} : owner' = [owner EXCEPT !["namespace"] = o]
    BY DEF ClaimNamespace, DeleteNamespace
<1>4. UNCHANGED grants \/ grants' = [grants EXCEPT !["namespace"] = NoGrants]
    BY DEF ClaimNamespace, DeleteNamespace
<1>5. owner \in [Resource -> User \cup Org \cup {None}] /\ owner["repository"] # None
    BY DEF IInv, TypeOK
<1>6. owner' \in [Resource -> User \cup Org \cup {None}] /\ owner'["repository"] # None
    BY <1>3, <1>5 DEF Resource
<1>7. grants \in [Resource -> [Team -> SUBSET Permission]] /\ NoGrants \in [Team -> SUBSET Permission]
    BY DEF IInv, TypeOK, NoGrants
<1>8. grants' \in [Resource -> [Team -> SUBSET Permission]]
    BY <1>4, <1>7
<1>9. TypeOK'
    BY <1>1, <1>2, <1>6, <1>8 DEF IInv, TypeOK
<1>10. GrantsNeedResource'
    <2>1. grants'["namespace"] = NoGrants
        <3>1. CASE ClaimNamespace(q)
            BY <3>1 DEF ClaimNamespace, IInv, GrantsNeedResource, Resource
        <3>2. CASE DeleteNamespace(q)
            BY <3>2, <1>7 DEF DeleteNamespace, Resource
        <3> QED
            BY <3>1, <3>2
    <2>2. \A r \in Resource \ {"namespace"} : owner'[r] = owner[r] /\ grants'[r] = grants[r]
        BY <1>3, <1>4, <1>5, <1>7
    <2> QED
        BY <2>1, <2>2 DEF IInv, GrantsNeedResource
<1> QED
    BY <1>2, <1>9, <1>10 DEF IInv

\* A package comes to a place that was empty, and so without grants.
LEMMA CreateStep ==
    ASSUME IInv, NEW q \in Request, CreatePackage(q)
    PROVE  IInv'
<1> DEFINE c == request[q]
<1>1. UNCHANGED <<role, team, grants>> /\ request' = [request EXCEPT ![q] = Done]
    BY DEF CreatePackage, Finish
<1>2. request' \in [Request -> Requested]
    BY <1>1, RequestMoves DEF Requested
<1>3. c \in Creating
    BY DEF IInv, CreatePackage, Ready, Requested, Idle, Done, Granting, Inserting, Moving, Creating, Updating
<1>4. c.owner \in User \cup Org /\ c.visibility \in Visibility
    BY <1>3 DEF Creating
<1>5. \/ UNCHANGED <<owner, visibility, squatted>>
      \/ /\ owner["package"] = None /\ squatted' \in BOOLEAN
         /\ owner' = [owner EXCEPT !["package"] = c.owner]
         /\ visibility' = [visibility EXCEPT !["package"] = c.visibility]
    BY DEF CreatePackage, IInv, TypeOK
<1>6. /\ owner \in [Resource -> User \cup Org \cup {None}] /\ owner["repository"] # None
      /\ visibility \in [{"package", "repository"} -> Visibility]
    BY DEF IInv, TypeOK
<1>7. /\ owner' \in [Resource -> User \cup Org \cup {None}] /\ owner'["repository"] # None
      /\ visibility' \in [{"package", "repository"} -> Visibility]
    <2>1. owner' \in [Resource -> User \cup Org \cup {None}]
        BY <1>4, <1>5, <1>6
    <2>2. owner'["repository"] # None
        BY <1>4, <1>5, <1>6 DEF Resource
    <2>3. visibility' \in [{"package", "repository"} -> Visibility]
        BY <1>4, <1>5, <1>6
    <2> QED
        BY <2>1, <2>2, <2>3
<1>8. TypeOK'
    BY <1>1, <1>2, <1>5, <1>7 DEF IInv, TypeOK
<1>9. GrantsNeedResource'
    BY <1>1, <1>4, <1>5, <1>6 DEF IInv, GrantsNeedResource
<1> QED
    BY <1>2, <1>8, <1>9 DEF IInv

\* A change of visibility touches no owner and no grant.
LEMMA UpdateStep ==
    ASSUME IInv, NEW q \in Request, Update(q)
    PROVE  IInv'
<1> DEFINE v == request[q]
<1>1. UNCHANGED <<role, team, owner, grants, squatted>> /\ request' = [request EXCEPT ![q] = Done]
    BY DEF Update, Finish
<1>2. request' \in [Request -> Requested]
    BY <1>1, RequestMoves DEF Requested
<1>3. v \in Updating
    BY DEF IInv, Update, Ready, Requested, Idle, Done, Granting, Inserting, Moving, Creating, Updating
<1>4. UNCHANGED visibility \/ visibility' = [visibility EXCEPT ![v.on] = v.visibility]
    BY DEF Update
<1>5. visibility' \in [{"package", "repository"} -> Visibility]
    BY <1>3, <1>4 DEF Updating, IInv, TypeOK
<1>6. TypeOK'
    BY <1>1, <1>2, <1>5 DEF IInv, TypeOK
<1>7. GrantsNeedResource'
    BY <1>1 DEF IInv, GrantsNeedResource
<1> QED
    BY <1>2, <1>6, <1>7 DEF IInv

-----------------------------------------------------------------------------

\* Every step preserves IInv.
LEMMA StepPreserves == IInv /\ [Next]_vars => IInv'
<1> SUFFICES ASSUME IInv, [Next]_vars PROVE IInv'
    OBVIOUS
<1>1. CASE UNCHANGED vars
    BY <1>1, RowsStay DEF vars, IInv
<1>2. ASSUME NEW q \in Request,
             CheckGrant(q) \/ CheckTransfer(q) \/ CheckPackage(q) \/ CheckUpload(q) \/ CheckUpdate(q)
      PROVE  IInv'
    BY <1>2, CheckStep
<1>3. ASSUME NEW q \in Request, DropGrant(q) \/ InsertGrant(q) PROVE IInv'
    BY <1>3, DropStep, InsertStep
<1>4. ASSUME NEW q \in Request, Transfer(q) \/ TransferNamespace(q) PROVE IInv'
    BY <1>4, TransferStep
<1>5. ASSUME NEW q \in Request, ClaimNamespace(q) \/ DeleteNamespace(q) PROVE IInv'
    BY <1>5, ClaimStep
<1>6. ASSUME NEW q \in Request, CreatePackage(q) \/ Update(q) PROVE IInv'
    BY <1>6, CreateStep, UpdateStep
<1>7. ASSUME NEW q \in Request, Reassign(q) \/ ChangeTeam(q) PROVE IInv'
    BY <1>7, PeopleStep
<1> QED
    BY <1>1, <1>2, <1>3, <1>4, <1>5, <1>6, <1>7 DEF Next

-----------------------------------------------------------------------------
(* What is in force.                                                       *)

\* Without a change of owners and grants nothing comes into force; what is taken
\* away or changes hands has no grants left.
LEMMA GrantsComeByBeingGiven ==
    ASSUME IInv, [Next]_vars, NEW r \in Resource, NEW e \in Effective(r)' \ Effective(r)
    PROVE  \E q \in Request : /\ request[q].pc = "insert" /\ request'[q] = Done
                              /\ request[q].on = r /\ request[q].team = e[1]
                              /\ e[2] \in request[q].permissions
<1>1. /\ e \in Team \X Permission
      /\ OrgOf[e[1]] = owner'[r] /\ e[2] \in grants'[r][e[1]]
      /\ OrgOf[e[1]] # owner[r] \/ e[2] \notin grants[r][e[1]]
    BY DEF Effective
<1>2. /\ e[1] \in Team /\ OrgOf[e[1]] \in Org
      /\ owner \in [Resource -> User \cup Org \cup {None}]
      /\ grants \in [Resource -> [Team -> SUBSET Permission]]
    BY <1>1 DEF IInv, TypeOK
<1>3. ~UNCHANGED <<owner, grants>>
    BY <1>1
<1>4. grants'[r] # NoGrants
    BY <1>1, <1>2 DEF NoGrants
<1>5. ASSUME NEW q \in Request, Transfer(q) \/ TransferNamespace(q) PROVE FALSE
    <2>1. PICK s \in Resource, u \in User, o \in Org : Move(s, u, o)
        BY <1>3, <1>5, TransferMoves
    <2>2. owner' = [owner EXCEPT ![s] = o] /\ grants' = [grants EXCEPT ![s] = NoGrants]
        BY <2>1 DEF Move
    <2>3. r # s
        BY <1>2, <1>4, <2>2
    <2> QED
        BY <1>1, <1>2, <2>2, <2>3
<1>6. ASSUME NEW q \in Request, ClaimNamespace(q) \/ DeleteNamespace(q) PROVE FALSE
    <2>1. PICK o : owner' = [owner EXCEPT !["namespace"] = o]
        BY <1>6 DEF ClaimNamespace, DeleteNamespace
    <2>2. grants'["namespace"] = NoGrants /\ \A s \in Resource \ {"namespace"} : grants'[s] = grants[s]
        BY <1>2, <1>6 DEF ClaimNamespace, DeleteNamespace, IInv, GrantsNeedResource, Resource
    <2> QED
        BY <1>1, <1>2, <1>4, <2>1, <2>2
<1>7. ASSUME NEW q \in Request, CreatePackage(q) PROVE FALSE
    <2>1. owner["package"] = None /\ UNCHANGED grants /\ \E o : owner' = [owner EXCEPT !["package"] = o]
        BY <1>3, <1>7 DEF CreatePackage
    <2>2. grants["package"] = NoGrants
        BY <2>1 DEF IInv, GrantsNeedResource, Resource
    <2> QED
        BY <1>1, <1>2, <1>4, <2>1, <2>2
<1>8. PICK q \in Request : InsertGrant(q)
    <2>1. \E q \in Request :
            InsertGrant(q) \/ Transfer(q) \/ TransferNamespace(q) \/ DeleteNamespace(q)
            \/ ClaimNamespace(q) \/ CreatePackage(q)
        BY <1>3 DEF Next, vars, CheckGrant, DropGrant, CheckTransfer, CheckPackage, CheckUpload,
            CheckUpdate, Begin, Update, Reassign, ChangeTeam, accessVars
    <2> QED
        BY <2>1, <1>5, <1>6, <1>7
<1> DEFINE g == request[q]
           after == (grants[g.on][g.team] \ g.seen) \cup g.permissions
<1>9. /\ g \in Inserting /\ request'[q] = Done /\ UNCHANGED owner
      /\ grants' = [grants EXCEPT ![g.on][g.team] = after]
    BY <1>3, <1>8, InsertLeaves
<1>10. g.on \in Resource /\ g.team \in Team /\ g.pc = "insert"
    BY <1>9 DEF Inserting
<1>11. /\ grants'[g.on][g.team] = after
       /\ \A s \in Resource, t \in Team : <<s, t>> # <<g.on, g.team>> => grants'[s][t] = grants[s][t]
    BY <1>2, <1>9, <1>10
<1>12. r = g.on /\ e[1] = g.team /\ e[2] \in after
    BY <1>1, <1>2, <1>9, <1>11
<1>13. e[2] \in g.permissions
    BY <1>1, <1>9, <1>12
<1> QED
    BY <1>9, <1>10, <1>12, <1>13

\* Rows, owners and requests are of their types throughout (the schema, and every
\* handler of Governance).
THEOREM TypeCorrect == Spec => []TypeOK
<1>1. IInv => TypeOK
    BY DEF IInv
<1> QED
    BY <1>1, InitEstablishes, StepPreserves, PTL DEF Spec

\* However replaces of grants, transfers, deletions and new claims interleave, a
\* grant comes into force when the request that gives it commits, and at no other
\* moment (orgs.rs: replace_team_package_access and its siblings; the transfers).
THEOREM NoGrantRevives == Spec => NoRevival
<1>1. IInv /\ [Next]_vars =>
        [\A r \in Resource : \A e \in Effective(r)' \ Effective(r) :
            \E q \in Request : /\ request[q].pc = "insert" /\ request'[q] = Done
                               /\ request[q].on = r /\ request[q].team = e[1]
                               /\ e[2] \in request[q].permissions]_<<owner, grants>>
    BY GrantsComeByBeingGiven
<1> QED
    BY <1>1, InitEstablishes, StepPreserves, PTL DEF Spec, NoRevival

-----------------------------------------------------------------------------
(* The decisions, in every state of the rows.                              *)

\* A team whose grant counts is one of the owner's.
LEMMA GrantedByTheOwner ==
    ASSUME NEW r \in Resource, NEW u, Granted(r, u) # {}
    PROVE  \E t \in Team : u \in team[t] /\ OrgOf[t] = owner[r] /\ grants[r][t] # {}
BY DEF Granted, TeamsWith

\* Every adapter asks for one of three reasons.
LEMMA AdaptersAsk ==
    ASSUME NEW a \in Adapter, NEW u, AdapterPublishes(a, u)
    PROVE  ByOwner(u) \/ ByGrant("package", u) \/ ByGrant("repository", u)
BY DEF Adapter, AdapterPublishes, NpmPublishes, CargoPublishes, NugetPublishes, ComposerPublishes,
    RubygemsPublishes, MavenPublishes, PypiPublishes

\* The same of writers, for the control plane and the adapters.
LEMMA WritersBelong == TypeOK => WritersAreOfTheOwners
<1> SUFFICES ASSUME TypeOK, owner["package"] # None, NEW u \in User,
                    \/ \E n \in Needs : PackageWrite(u, n) = "allowed"
                    \/ \E a \in Adapter : AdapterPublishes(a, u)
             PROVE  \/ owner["package"] = u
                    \/ owner["package"] \in Org /\ role[owner["package"]][u] # None
                    \/ \E t \in Team, r \in {"package", "repository"} :
                          u \in team[t] /\ OrgOf[t] = owner[r] /\ grants[r][t] # {}
    BY DEF WritersAreOfTheOwners
<1>1. None \notin PublishRoles /\ \A n \in Needs : None \notin RolesFor(n)
    BY DEF OrgRole, PublishRoles, AdminRoles, Needs, RolesFor
<1>2. CASE \E n \in Needs : PackageWrite(u, n) = "allowed"
    <2>1. PICK n \in Needs : PackageWrite(u, n) = "allowed"
        BY <1>2
    <2>2. \/ owner["package"] = u
          \/ owner["package"] \in Org /\ role[owner["package"]][u] \in RolesFor(n)
          \/ Granted("package", u) # {} \/ Granted("repository", u) # {}
        BY <2>1 DEF PackageWrite, OrElse, OrgWrite, TeamWrite
    <2> QED
        BY <1>1, <2>2, GrantedByTheOwner DEF Resource
<1>3. CASE \E a \in Adapter : AdapterPublishes(a, u)
    <2>1. \/ owner["package"] = u
          \/ owner["package"] \in Org /\ role[owner["package"]][u] \in PublishRoles
          \/ Granted("package", u) # {} \/ Granted("repository", u) # {}
        BY <1>3, AdaptersAsk DEF ByOwner, ByGrant
    <2> QED
        BY <1>1, <2>1, GrantedByTheOwner DEF Resource
<1> QED
    BY <1>2, <1>3

\* What an adapter admits, the control plane admits or asks for a second factor.
LEMMA AdaptersAreNoLaxer == AdaptersAdmitNoMore
<1> SUFFICES ASSUME NEW u \in User, NEW a \in Adapter, AdapterPublishes(a, u)
             PROVE  PackageWrite(u, "publish") # "missing"
    BY DEF AdaptersAdmitNoMore
<1>1. ByOwner(u) \/ ByGrant("package", u) \/ ByGrant("repository", u)
    BY AdaptersAsk
<1> QED
    BY <1>1 DEF ByOwner, ByGrant, PackageWrite, OrElse, OrgWrite, TeamWrite, RolesFor, PermissionsFor

\* A strict owner of both resources is asked on every way to a permission.
LEMMA TheSecondFactorIsAsked == SecondFactorHolds
<1> SUFFICES ASSUME owner["package"] \in Strict, owner["package"] = owner["repository"],
                    NEW u \in User \ Enrolled, NEW n \in Needs
             PROVE  /\ PackageWrite(u, n) # "allowed"
                    /\ ResourceWrite("repository", u, "create") # "allowed"
    BY DEF SecondFactorHolds
<1>1. owner["package"] \in Org /\ owner["package"] # u
    OBVIOUS
<1> QED
    BY <1>1 DEF PackageWrite, ResourceWrite, OrElse, OrgWrite, TeamWrite

\* With one owner, all ways of reading come down to one condition, `both`.
LEMMA ReadersAreOfOneMind == ReadersAgree
<1> SUFFICES ASSUME owner["package"] # None, owner["package"] = owner["repository"],
                    NEW u \in User \cup {None}
             PROVE  /\ \A a \in Adapter : AdapterReads(a, u) => PackageRead(u)
                    /\ \A a \in {"npm", "cargo", "nuget"} : PackageRead(u) => AdapterReads(a, u)
                    /\ Found(u) => PackageRead(u)
                    /\ u # None /\ PackageWrite(u, "manage") # "missing" => PackageRead(u)
                    /\ RepositoryRead(u) /\ Anonymous("package") => PackageRead(u)
    BY DEF ReadersAgree
<1>1. BelongsTo("package", u) <=> BelongsTo("repository", u)
    BY DEF BelongsTo
<1> DEFINE granted == HasGrant("package", u) \/ HasGrant("repository", u)
           both == /\ Anonymous("package") \/ BelongsTo("package", u) \/ granted
                   /\ Anonymous("repository") \/ BelongsTo("package", u) \/ granted
<1>2. PackageRead(u) <=> both
    BY <1>1 DEF PackageRead
<1>3. ASSUME NEW a \in Adapter, AdapterReads(a, u) PROVE both
    BY <1>1, <1>3 DEF Adapter, AdapterReads, NpmReads, CargoReads, NugetReads, ComposerReads,
        RubygemsReads, MavenReads, PypiReads, ReadsBoth, ReadsOwn
<1>4. ASSUME NEW a \in {"npm", "cargo", "nuget"}, both PROVE AdapterReads(a, u)
    BY <1>1, <1>4 DEF AdapterReads, NpmReads, CargoReads, NugetReads, ReadsBoth, ReadsOwn
<1>5. Found(u) => both
    BY <1>1 DEF Found, Discovers, Anonymous
<1>6. u # None /\ PackageWrite(u, "manage") # "missing" => both
    <2> SUFFICES ASSUME u # None, PackageWrite(u, "manage") # "missing" PROVE both
        OBVIOUS
    <2>1. \/ owner["package"] = u
          \/ owner["package"] \in Org /\ role[owner["package"]][u] \in PublishRoles
          \/ Granted("package", u) # {} \/ Granted("repository", u) # {}
        BY DEF PackageWrite, OrElse, OrgWrite, TeamWrite, RolesFor
    <2>2. None \notin PublishRoles
        BY DEF OrgRole, PublishRoles
    <2> QED
        BY <2>1, <2>2 DEF BelongsTo, HasGrant
<1> HIDE DEF both, granted
<1>7. RepositoryRead(u) /\ Anonymous("package") => both
    BY <1>1 DEF RepositoryRead, both, granted
<1> QED
    BY <1>2, <1>3, <1>4, <1>5, <1>6, <1>7

\* Nobody writes for an organization that has let go of the package (request_auth.rs:
\* authorize_package_write_access; has_package_write_access of the adapters).
THEOREM WritersAreTheOwners == Spec => []WritersAreOfTheOwners
<1>1. IInv => WritersAreOfTheOwners
    BY WritersBelong DEF IInv
<1> QED
    BY <1>1, InitEstablishes, StepPreserves, PTL DEF Spec

\* An adapter lets nobody publish whom the control plane would not, but for the
\* second factor (has_package_write_access against authorize_package_write_access).
THEOREM AdaptersAreNotLaxer == Spec => []AdaptersAdmitNoMore
<1>1. IInv => AdaptersAdmitNoMore
    BY AdaptersAreNoLaxer
<1> QED
    BY <1>1, InitEstablishes, StepPreserves, PTL DEF Spec

\* With one owner, the readers of the control plane, of the adapters and of search
\* agree (ensure_package_read_access, can_read_package, search.rs).
THEOREM ReadersAlwaysAgree == Spec => []ReadersAgree
<1>1. IInv => ReadersAgree
    BY ReadersAreOfOneMind
<1> QED
    BY <1>1, InitEstablishes, StepPreserves, PTL DEF Spec

\* With one owner who insists on it, nobody writes through the control plane without a
\* second factor (resolve_org_write_role_access, resolve_team_write_access).
THEOREM SecondFactorIsAsked == Spec => []SecondFactorHolds
<1>1. IInv => SecondFactorHolds
    BY TheSecondFactorIsAsked
<1> QED
    BY <1>1, InitEstablishes, StepPreserves, PTL DEF Spec
=============================================================================
