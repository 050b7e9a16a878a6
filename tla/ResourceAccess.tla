---------------------------- MODULE ResourceAccess ----------------------------
(***************************************************************************)
(* Who may read and who may write a package: the decisions of the control  *)
(* plane (api/src/request_auth.rs, core/src/authz_queries.rs), of search   *)
(* (api/src/routes/search.rs); AdapterAccess has those of the adapters.    *)
(* All of them are queries on the same rows: one package, the repository   *)
(* it is in, the claim of its namespace, and what users are in the         *)
(* organizations and teams.  Governance changes those rows.                *)
(***************************************************************************)
EXTENDS FiniteSets

CONSTANTS
    User, Org, Team, None,
    OrgOf,      \* teams.org_id, which no statement changes
    Role,       \* the roles of org_role that occur
    Strict,     \* the organizations with mfa_required
    Enrolled    \* the users with mfa_enabled

Permission == {"admin", "publish", "write_metadata", "read_private",
               "security_review", "transfer_ownership"}
Visibility == {"public", "unlisted", "private", "internal_org", "quarantined"}
Resource == {"package", "repository", "namespace"}
OrgRole == {"owner", "admin", "maintainer", "publisher", "security_manager", "auditor",
            "billing_manager", "viewer"}

ASSUME AccessAssumption ==
    /\ Org \cap User = {} /\ None \notin User \cup Org \cup OrgRole
    /\ OrgOf \in [Team -> Org]
    /\ Strict \subseteq Org /\ Enrolled \subseteq User
    /\ Role \subseteq OrgRole

VARIABLES
    role,        \* org_memberships: the role of a user in an organization, or None
    team,        \* team_memberships: the users of a team
    owner,       \* owner_user_id or owner_org_id of a resource; None: it is not there
    visibility,  \* of the package and of the repository
    grants       \* team_<resource>_access: the permissions of a team on a resource

accessVars == <<role, team, owner, visibility, grants>>

AdminRoles == {"owner", "admin"}
PublishRoles == {"owner", "admin", "maintainer", "publisher"}

\* The roles, package permissions and repository permissions that admit to a
\* package; they differ by what is asked.
RolesFor(need) ==
    CASE need \in {"publish", "manage"} -> PublishRoles
      [] need = "metadata" -> PublishRoles \ {"publisher"}
      [] need \in {"admin", "transfer", "review"} -> AdminRoles
PermissionsFor(need) ==
    CASE need = "publish" -> {"admin", "publish"}
      [] need = "metadata" -> {"admin", "write_metadata"}
      [] need = "admin" -> {"admin"}
      [] need = "transfer" -> {"admin", "transfer_ownership"}
      [] need = "review" -> {"admin", "security_review"}
      [] need = "manage" -> Permission \ {"read_private"}
      [] need = "create" -> {"admin", "publish", "write_metadata"}
Needs == {"publish", "metadata", "admin", "transfer", "review", "manage"}

-----------------------------------------------------------------------------
(* Writing.  A decision is allowed, missing (no role and no grant) or mfa. *)

OrgWrite(o, u, roles) ==
    IF role[o][u] \notin roles THEN "missing"
    ELSE IF o \in Strict /\ u \notin Enrolled THEN "mfa" ELSE "allowed"

\* Mutant: without the join on the owner.
TeamsOfAny(r, u) == {t \in Team : u \in team[t]}

\* Teams of the organization that owns the resource now; other rows do not count.
TeamsWith(r, u) == {t \in Team : u \in team[t] /\ OrgOf[t] = owner[r]}
Granted(r, u) == UNION {grants[r][t] : t \in TeamsWith(r, u)}

\* Mutant: no second factor for teams.
TeamWriteWithoutMfa(r, u, permissions) ==
    IF Granted(r, u) \cap permissions = {} THEN "missing" ELSE "allowed"

TeamWrite(r, u, permissions) ==
    IF Granted(r, u) \cap permissions = {} THEN "missing"
    ELSE IF owner[r] \in Strict /\ u \notin Enrolled THEN "mfa" ELSE "allowed"

OrElse(first, second) == IF first = "missing" THEN second ELSE first

\* authorize_package_write_access: the grants on the repository the package is in
\* count too, once an organization owns the package.
PackageWrite(u, need) ==
    IF owner["package"] = u THEN "allowed"
    ELSE IF owner["package"] \notin Org THEN "missing"
    ELSE OrElse(OrgWrite(owner["package"], u, RolesFor(need)),
                OrElse(TeamWrite("package", u, PermissionsFor(need)),
                       TeamWrite("repository", u, PermissionsFor(need))))

\* authorize_repository_write_access and its namespace twin
ResourceWrite(r, u, need) ==
    IF owner[r] = u THEN "allowed"
    ELSE IF owner[r] \notin Org THEN "missing"
    ELSE OrElse(OrgWrite(owner[r], u, AdminRoles), TeamWrite(r, u, PermissionsFor(need)))

Write(r, u, need) == IF r = "package" THEN PackageWrite(u, need) ELSE ResourceWrite(r, u, need)

-----------------------------------------------------------------------------
(* Reading, by a user or by None, who has sent no credentials.             *)

Anonymous(r) == visibility[r] \in {"public", "unlisted"}
BelongsTo(r, u) ==
    \/ u # None /\ owner[r] = u
    \/ u # None /\ owner[r] \in Org /\ role[owner[r]][u] # None
HasGrant(r, u) == u # None /\ Granted(r, u) # {}

RepositoryRead(u) ==
    Anonymous("repository") \/ BelongsTo("repository", u) \/ HasGrant("repository", u)

\* Mutant: the grants on the repository are forgotten.
PackageReadByPackage(u) ==
    LET granted == ~BelongsTo("package", u) /\ HasGrant("package", u)
    IN  /\ Anonymous("package") \/ BelongsTo("package", u) \/ granted
        /\ Anonymous("repository") \/ BelongsTo("repository", u) \/ granted

\* ensure_package_read_access asks for grants only where it thinks it needs them:
\* a grant on the package is not looked up for those the package belongs to,
\* though the repository might need it.
PackageRead(u) ==
    LET onPackage == ~BelongsTo("package", u) /\ HasGrant("package", u)
        onRepository == ~BelongsTo("repository", u) /\ ~onPackage /\ HasGrant("repository", u)
        granted == onPackage \/ onRepository
    IN  /\ Anonymous("package") \/ BelongsTo("package", u) \/ granted
        /\ Anonymous("repository") \/ BelongsTo("repository", u) \/ granted

\* The index proposes any package; the query decides which hits are shown.
Discovers(r, u) ==
    \/ visibility[r] = "public"
    \/ /\ visibility[r] \in {"private", "internal_org"}
       /\ BelongsTo(r, u) \/ HasGrant("package", u) \/ HasGrant("repository", u)
Found(u) == Discovers("package", u) /\ Discovers("repository", u)
=============================================================================
