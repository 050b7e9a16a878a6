------------------------------ MODULE Governance ------------------------------
(***************************************************************************)
(* The handlers that change what ResourceAccess decides on: grants of      *)
(* teams (api/src/routes/orgs.rs), packages (packages.rs), repositories    *)
(* (repositories.rs), claims of namespaces (namespaces.rs), and how an     *)
(* adapter creates a package.  A handler asks for permission first and     *)
(* opens its transaction afterwards: the two are separate steps, and a     *)
(* request carries from one to the other what it has been asked to do.     *)
(* Roles and teams change as OrgMembership has it, in one step here.       *)
(***************************************************************************)
EXTENDS AdapterAccess, Naturals

CONSTANTS
    Request,    \* each does one operation
    Founder,    \* an administrator of every organization, and stays one
    Grantable   \* Grantable[r]: the permissions a grant on r may name, as sets

ASSUME GovernanceAssumption ==
    /\ Founder \in Enrolled
    /\ \A r \in Resource : Grantable[r] \subseteq SUBSET Permission

VARIABLES
    request,    \* the requests
    squatted    \* history: a package was created in a namespace others had claimed

vars == <<accessVars, request, squatted>>

\* The formats whose names have a namespace: a scope, a vendor or a group.
Namespaced == {"npm", "composer", "maven"}

Idle == [pc |-> "idle"]
Done == [pc |-> "done"]

NoGrants == [t \in Team |-> {}]

\* validate_package_creation: visibility_scope_rank
Rank(v) == CASE v = "public" -> 2 [] v = "unlisted" -> 1 [] OTHER -> 0
\* derive_package_visibility
Fits(v, enclosing, byOrg) ==
    /\ enclosing = "quarantined" => v = "quarantined"
    /\ v = "internal_org" => byOrg
    /\ Rank(v) <= Rank(enclosing)

CONSTANT Shown   \* the visibilities that occur
ASSUME ShownAssumption == Shown \subseteq Visibility

\* One organization, or its founder, owns everything, as after creation; the
\* package may still have to be created, and the namespace to be claimed.  Users
\* have joined one organization at most.
Init ==
    /\ \E first \in Org \cup {Founder} :
          /\ owner \in {[package |-> p, repository |-> first, namespace |-> n] :
                            p \in {first, None}, n \in {first, None}}
    /\ role \in [Org -> [User -> Role \cup {None}]]
    /\ \A o \in Org : role[o][Founder] = "admin"
    /\ \A u \in User \ {Founder} : Cardinality({o \in Org : role[o][u] # None}) <= 1
    /\ team = [t \in Team |-> {}]
    /\ visibility \in [{"package", "repository"} -> Shown]
    /\ Fits(visibility["package"], visibility["repository"], TRUE)
    /\ grants = [r \in Resource |-> NoGrants]
    /\ request = [q \in Request |-> Idle]
    /\ squatted = FALSE

Begin(q, op) ==
    /\ request[q] = Idle
    /\ request' = [request EXCEPT ![q] = op]
    /\ UNCHANGED <<accessVars, squatted>>
Finish(q) == request' = [request EXCEPT ![q] = Done]
Ready(q, pc) == request[q].pc = pc
OneStep(q) == request[q] = Idle /\ Finish(q)

-----------------------------------------------------------------------------
(* Grants.                                                                 *)

\* replace_team_package_access, _repository_ and _namespace_: the organization's
\* administration and the owner of the resource are looked up, and a request that
\* would change nothing ends.  remove_team_... is the same with no permission.
CheckGrant(q) ==
    \E u \in User, t \in Team, r \in Resource : \E p \in Grantable[r] \cup {{}} :
        /\ OrgWrite(OrgOf[t], u, AdminRoles) = "allowed"
        /\ owner[r] = OrgOf[t]
        /\ grants[r][t] # p
        /\ Begin(q, [pc |-> "grant", team |-> t, on |-> r, permissions |-> p])

\* The transaction's DELETE takes the rows it sees when it begins.
DropGrant(q) ==
    /\ Ready(q, "grant")
    /\ request' = [request EXCEPT ![q] =
                     [pc |-> "insert", team |-> @.team, on |-> @.on, permissions |-> @.permissions,
                      seen |-> grants[@.on][@.team]]]
    /\ UNCHANGED <<accessVars, squatted>>

\* Its INSERTs, and the commit.  A row another request has committed since stays;
\* if it is one of those to insert, the unique key fails the whole transaction, as
\* the foreign key does if the resource is gone.
InsertGrant(q) ==
    /\ Ready(q, "insert")
    /\ LET g == request[q]
           kept == grants[g.on][g.team] \ g.seen
           Unseen(o) == IF o.pc = "insert" /\ o.on = g.on /\ o.team = g.team
                        THEN [o EXCEPT !.seen = @ \ g.permissions] ELSE o
       IN  IF owner[g.on] = None \/ kept \cap g.permissions # {}
           THEN Finish(q) /\ UNCHANGED grants
           ELSE /\ grants' = [grants EXCEPT ![g.on][g.team] = kept \cup g.permissions]
                /\ request' = [p \in Request |-> IF p = q THEN Done ELSE Unseen(request[p])]
    /\ UNCHANGED <<role, team, owner, visibility, squatted>>

-----------------------------------------------------------------------------
(* Transfers into an organization.                                         *)

\* ensure_package_transfer_access, ensure_repository_transfer_access
CheckTransfer(q) ==
    \E u \in User, r \in {"package", "repository"}, o \in Org :
        /\ owner[r] # None
        /\ Write(r, u, "transfer") = "allowed"
        /\ Begin(q, [pc |-> "transfer", user |-> u, on |-> r, to |-> o])

\* Mutant: the grants stay.
MoveWithGrants(r, u, o) ==
    /\ role[o][u] \in AdminRoles
    /\ owner[r] # o
    /\ owner' = [owner EXCEPT ![r] = o]
    /\ UNCHANGED grants

\* The transaction locks the row, asks for the target, and takes all grants away.
Move(r, u, o) ==
    /\ role[o][u] \in AdminRoles
    /\ owner[r] # o
    /\ owner' = [owner EXCEPT ![r] = o]
    /\ grants' = [grants EXCEPT ![r] = NoGrants]

Transfer(q) ==
    /\ Ready(q, "transfer")
    /\ LET t == request[q]
       IN  \/ Move(t.on, t.user, t.to)
           \/ /\ role[t.to][t.user] \notin AdminRoles \/ owner[t.on] = t.to
              /\ UNCHANGED <<owner, grants>>
    /\ Finish(q)
    /\ UNCHANGED <<role, team, visibility, squatted>>

\* transfer_namespace_ownership and delete_namespace ask for permission inside the
\* transaction that holds the row.
MayManageClaim(u, need) ==
    /\ owner["namespace"] # None
    /\ ResourceWrite("namespace", u, need) = "allowed"

TransferNamespace(q) ==
    /\ OneStep(q)
    /\ \E u \in User, o \in Org : MayManageClaim(u, "transfer") /\ Move("namespace", u, o)
    /\ UNCHANGED <<role, team, visibility, squatted>>

\* Mutant: the wrong row is deleted.
DeleteRepository(q) ==
    /\ OneStep(q)
    /\ \E u \in User : MayManageClaim(u, "admin")
    /\ owner' = [owner EXCEPT !["repository"] = None]
    /\ UNCHANGED <<role, team, visibility, grants, squatted>>

DeleteNamespace(q) ==
    /\ OneStep(q)
    /\ \E u \in User : MayManageClaim(u, "admin")
    /\ owner' = [owner EXCEPT !["namespace"] = None]
    /\ grants' = [grants EXCEPT !["namespace"] = NoGrants]
    /\ UNCHANGED <<role, team, visibility, squatted>>

\* create_namespace, for oneself or for an organization one administers
ClaimNamespace(q) ==
    /\ OneStep(q)
    /\ owner["namespace"] = None
    /\ \E o \in Org \cup User :
          /\ o \in Org => \E u \in User : OrgWrite(o, u, AdminRoles) = "allowed"
          /\ owner' = [owner EXCEPT !["namespace"] = o]
    /\ UNCHANGED <<role, team, visibility, grants, squatted>>

-----------------------------------------------------------------------------
(* Packages and repositories.                                              *)

\* create_package up to its transaction: ensure_repository_package_creation_access,
\* the repository is read, and the claim of the name's namespace is compared with
\* its owner.
CheckPackage(q) ==
    \E u \in User, v \in Shown :
        /\ owner["package"] = None
        /\ ResourceWrite("repository", u, "create") = "allowed"
        /\ Fits(v, visibility["repository"], owner["repository"] \in Org)
        /\ owner["namespace"] \in {None, owner["repository"]}
        /\ Begin(q, [pc |-> "create", inside |-> TRUE, owner |-> owner["repository"],
                     visibility |-> v])

\* An adapter's auto_create_package up to its INSERT
CheckUpload(q) ==
    \E a \in Adapter, u \in User :
        /\ owner["package"] = None
        /\ AdapterCreates(a, u)
        /\ Begin(q, [pc |-> "create", inside |-> a \in Namespaced, owner |-> owner["repository"],
                     visibility |-> AdapterVisibility(a)])

\* INSERT INTO packages; the loser of a race creates nothing.
CreatePackage(q) ==
    /\ Ready(q, "create")
    /\ IF owner["package"] = None
       THEN /\ owner' = [owner EXCEPT !["package"] = request[q].owner]
            /\ visibility' = [visibility EXCEPT !["package"] = request[q].visibility]
            /\ squatted' = (\/ squatted
                           \/ /\ request[q].inside
                              /\ owner["namespace"] \notin {None, request[q].owner})
       ELSE UNCHANGED <<owner, visibility, squatted>>
    /\ Finish(q)
    /\ UNCHANGED <<role, team, grants>>

\* update_package and update_repository, with a new visibility
CheckUpdate(q) ==
    \E u \in User, r \in {"package", "repository"}, v \in Shown :
        /\ owner[r] # None
        /\ Write(r, u, "admin") = "allowed"
        /\ visibility[r] # v
        /\ Begin(q, [pc |-> "update", on |-> r, visibility |-> v])

\* A package is held against its repository as it is now, a repository against
\* nothing.
Update(q) ==
    /\ Ready(q, "update")
    /\ LET r == request[q].on
           v == request[q].visibility
           fits == r = "package" => Fits(v, visibility["repository"], owner["package"] \in Org)
       IN  visibility' = IF fits THEN [visibility EXCEPT ![r] = v] ELSE visibility
    /\ Finish(q)
    /\ UNCHANGED <<role, team, owner, grants, squatted>>

-----------------------------------------------------------------------------
(* Organizations: a role is given or taken, a member joins or leaves a     *)
(* team.  Losing the role does not end the membership of a team.           *)

Reassign(q) ==
    /\ OneStep(q)
    /\ \E o \in Org, u \in User \ {Founder}, r \in Role \cup {None} :
          role' = [role EXCEPT ![o][u] = r]
    /\ UNCHANGED <<team, owner, visibility, grants, squatted>>

ChangeTeam(q) ==
    /\ OneStep(q)
    /\ \E t \in Team, u \in User \ {Founder} :
          \/ role[OrgOf[t]][u] # None /\ team' = [team EXCEPT ![t] = @ \cup {u}]
          \/ team' = [team EXCEPT ![t] = @ \ {u}]
    /\ UNCHANGED <<role, owner, visibility, grants, squatted>>

Next ==
    \E q \in Request :
        \/ CheckGrant(q) \/ DropGrant(q) \/ InsertGrant(q)
        \/ CheckTransfer(q) \/ Transfer(q)
        \/ TransferNamespace(q) \/ DeleteNamespace(q) \/ ClaimNamespace(q)
        \/ CheckPackage(q) \/ CheckUpload(q) \/ CreatePackage(q)
        \/ CheckUpdate(q) \/ Update(q)
        \/ Reassign(q) \/ ChangeTeam(q)

Spec == Init /\ [][Next]_vars

-----------------------------------------------------------------------------
(* The type invariant: every row refers to users, organizations and        *)
(* permissions that exist, and a package is never without its visibility.  *)
TypeOK ==
    /\ role \in [Org -> [User -> Role \cup {None}]]
    /\ team \in [Team -> SUBSET User]
    /\ owner \in [Resource -> User \cup Org \cup {None}]
    /\ owner["repository"] # None
    /\ visibility \in [{"package", "repository"} -> Visibility]
    /\ grants \in [Resource -> [Team -> SUBSET Permission]]
    /\ DOMAIN request = Request
    /\ squatted \in BOOLEAN

(* Nobody writes on behalf of an organization that has let go of the       *)
(* package: whoever the control plane or an adapter admits owns the        *)
(* package, has a role in the organization that owns it, or is in a team   *)
(* with a grant on the package or its repository from that one's present   *)
(* organization; rows a slow request leaves behind a transfer do not count *)
(* (transfer_package_ownership, replace_team_package_access).              *)
WritersAreOfTheOwners ==
    owner["package"] # None =>
        \A u \in User :
            (\E n \in Needs : PackageWrite(u, n) = "allowed") \/ (\E a \in Adapter : AdapterPublishes(a, u))
            => \/ owner["package"] = u
               \/ owner["package"] \in Org /\ role[owner["package"]][u] # None
               \/ \E t \in Team, r \in {"package", "repository"} :
                     u \in team[t] /\ OrgOf[t] = owner[r] /\ grants[r][t] # {}

(* The eight implementations of one rule: an adapter lets nobody publish   *)
(* whom the control plane would not, but for the second factor.            *)
AdaptersAdmitNoMore ==
    owner["package"] # None =>
        \A u \in User, a \in Adapter : AdapterPublishes(a, u) => PackageWrite(u, "publish") # "missing"

(* As long as the package and its repository have one owner, all readers   *)
(* agree: npm, Cargo and NuGet show a package to whom the control plane    *)
(* does, the other adapters and search to nobody else; who may publish may *)
(* read, and who may read the repository may read what is public in it     *)
(* (ensure_package_read_access, can_read_package).                         *)
ReadersAgree ==
    (owner["package"] # None /\ owner["package"] = owner["repository"]) =>
        \A u \in User \cup {None} :
            /\ \A a \in Adapter : AdapterReads(a, u) => PackageRead(u)
            /\ \A a \in {"npm", "cargo", "nuget"} : PackageRead(u) => AdapterReads(a, u)
            /\ Found(u) => PackageRead(u)
            /\ u # None /\ PackageWrite(u, "manage") # "missing" => PackageRead(u)
            /\ RepositoryRead(u) /\ Anonymous("package") => PackageRead(u)

(* With one owner who insists on a second factor, the control plane lets   *)
(* no member and no team write without one (resolve_org_write_role_access, *)
(* resolve_team_write_access).                                             *)
SecondFactorHolds ==
    (owner["package"] \in Strict /\ owner["package"] = owner["repository"]) =>
        \A u \in User \ Enrolled, n \in Needs :
            PackageWrite(u, n) # "allowed" /\ ResourceWrite("repository", u, "create") # "allowed"

Effective(r) ==
    {e \in Team \X Permission : OrgOf[e[1]] = owner[r] /\ e[2] \in grants[r][e[1]]}

(* A grant comes into force by being given, and in no other way: rows that *)
(* a slow replace_team_..._access inserts after a transfer stay without    *)
(* effect, and no later transfer wakes them up.                            *)
NoRevival ==
    [][\A r \in Resource : \A e \in Effective(r)' \ Effective(r) :
          \E q \in Request : /\ request[q].pc = "insert" /\ request'[q] = Done
                             /\ request[q].on = r /\ request[q].team = e[1]
                             /\ e[2] \in request[q].permissions]_<<owner, grants>>

(* A package in a claimed namespace is created by the claim's owner alone  *)
(* (README.md, Namespace claims).  Violated by the adapters and by a claim *)
(* that comes after the check (AccessClaims.cfg).                          *)
ClaimsAreRespected == ~squatted
=============================================================================
