---------------------------- MODULE OrgMembership ----------------------------
(***************************************************************************)
(* The people of one organization: its memberships and their roles, the    *)
(* hand-over of its ownership, its teams (crates/api/src/routes/orgs.rs)   *)
(* and its invitations (crates/api/src/routes/org_invitations.rs).         *)
(*                                                                         *)
(* Every administrative request is authorized by a statement of its own;   *)
(* the statements that follow do not look at the actor again, so a request *)
(* is kept as what it is still going to do.  A transaction that locks the  *)
(* rows it has read is one step.  Organizations share no row these         *)
(* handlers write: one of them stands for all.                             *)
(***************************************************************************)
EXTENDS Naturals, FiniteSets

CONSTANTS
    User,           \* active accounts
    Secured,        \* those with MFA enabled
    Team,           \* the ids of teams; an id is used once
    Invitation,     \* the ids of invitations, used once
    Request,        \* the administrative requests that may run concurrently
    None

ASSUME MembershipAssumption ==
    /\ Secured \subseteq User
    /\ None \notin User

VARIABLES
    org,        \* the row of organizations, as far as decisions read it
    role,       \* org_memberships: the role of a user, or "none"
    teams,      \* the rows of teams: "new", "present" or "deleted"
    inTeam,     \* the rows of team_memberships
    invited,    \* the rows of org_invitations
    request,    \* what is left to do of every running request
    admitted    \* history: who has been a member of the organization

vars == <<org, role, teams, inTeam, invited, request, admitted>>

-----------------------------------------------------------------------------
\* "member" stands for the roles without administrative rights.
AdminRoles == {"owner", "admin"}
AssignableRoles == {"admin", "member"}
Roles == AdminRoles \cup AssignableRoles

Members == {u \in User : role[u] # "none"}
Owners == {u \in User : role[u] = "owner"}

\* ensure_org_admin_by_slug
MayAdminister(u) ==
    /\ role[u] \in AdminRoles
    /\ org.mfaRequired => u \in Secured

NoInvitation == [status |-> "new", user |-> None, role |-> "none", expired |-> FALSE]

\* Neither accepted, declined nor revoked: what the partial unique index covers.
Open(i) == invited[i].status = "pending"

\* is_actionable_at
Actionable(i) == Open(i) /\ ~invited[i].expired

\* What a request does next, and with what; the fields an operation does not use
\* keep these values.
NoRequest == [op |-> "idle", user |-> None, role |-> "none", team |-> None,
              invitation |-> None, mfa |-> FALSE]

Operations ==
    {"add member", "remove member",
     "invite", "revoke expired", "insert invitation", "revoke",
     "create team", "delete team", "check team member", "add team member",
     "remove team member", "read profile", "write profile"}

Init ==
    /\ org = [exists |-> FALSE, mfaRequired |-> FALSE]
    /\ role = [u \in User |-> "none"]
    /\ teams = [t \in Team |-> "new"]
    /\ inTeam = {}
    /\ invited = [i \in Invitation |-> NoInvitation]
    /\ request = [r \in Request |-> NoRequest]
    /\ admitted = {}

-----------------------------------------------------------------------------
(* Steps of a request.                                                     *)

Doing(r, op) == request[r].op = op
Answer(r) == request' = [request EXCEPT ![r] = NoRequest]
Continue(r, op) == request' = [request EXCEPT ![r].op = op]

\* Whoever holds a role has been admitted.
Appoint(roles) ==
    /\ role' = roles
    /\ admitted' = admitted \cup {u \in User : roles[u] # "none"}

\* create_org: the organization and its owner in one transaction.
CreateOrg(u) ==
    /\ ~org.exists
    /\ org' = [org EXCEPT !.exists = TRUE]
    /\ Appoint([role EXCEPT ![u] = "owner"])
    /\ UNCHANGED <<teams, inTeam, invited, request>>

\* The checks of the body that need no row, and ensure_org_admin_by_slug: the
\* roles add_member and create_org_invitation accept leave out the owner's.
Begin(r) ==
    /\ Doing(r, "idle")
    /\ \E u \in User : MayAdminister(u)
    /\ \/ \E op \in {"add member", "invite"}, u \in User, ro \in AssignableRoles :
             request' = [request EXCEPT ![r] = [NoRequest EXCEPT !.op = op, !.user = u, !.role = ro]]
       \/ \E u \in User :
             request' = [request EXCEPT ![r] = [NoRequest EXCEPT !.op = "remove member", !.user = u]]
       \/ \E i \in Invitation :
             request' = [request EXCEPT ![r] = [NoRequest EXCEPT !.op = "revoke", !.invitation = i]]
       \/ \E t \in Team :
             /\ teams[t] = "new"
             /\ request' = [request EXCEPT ![r] = [NoRequest EXCEPT !.op = "create team", !.team = t]]
       \/ \E t \in Team, op \in {"delete team", "check team member", "remove team member"},
             u \in User :
             request' = [request EXCEPT ![r] =
                            [NoRequest EXCEPT !.op = op, !.team = t,
                                              !.user = IF op = "delete team" THEN None ELSE u]]
       \/ request' = [request EXCEPT ![r] = [NoRequest EXCEPT !.op = "read profile"]]
    /\ UNCHANGED <<org, role, teams, inTeam, invited, admitted>>

\* A statement fails, or the client goes away: the steps so far stay.
Fail(r) ==
    /\ ~Doing(r, "idle")
    /\ Answer(r)
    /\ UNCHANGED <<org, role, teams, inTeam, invited, admitted>>

-----------------------------------------------------------------------------
(* Members and the owner.                                                  *)

\* INSERT ... ON CONFLICT (org_id, user_id) DO UPDATE SET role: the role the user
\* has, the owner's included, is overwritten.
AddMember(r) ==
    /\ Doing(r, "add member")
    /\ Appoint([role EXCEPT ![request[r].user] = request[r].role])
    /\ Answer(r)
    /\ UNCHANGED <<org, teams, inTeam, invited>>

\* The row is locked and read; the owner's is refused.  team_memberships stays.
RemoveMember(r) ==
    /\ Doing(r, "remove member")
    /\ role' = [role EXCEPT ![request[r].user] = IF @ = "owner" THEN @ ELSE "none"]
    /\ Answer(r)
    /\ UNCHANGED <<org, teams, inTeam, invited, admitted>>

\* Mutation: the former owner keeps the role.
TransferOwnershipShared(u, v) ==
    /\ u # v
    /\ role[u] = "owner" /\ role[v] \notin {"owner", "none"}
    /\ role' = [role EXCEPT ![v] = "owner"]
    /\ UNCHANGED <<org, teams, inTeam, invited, request, admitted>>

\* transfer_ownership: both rows are locked before they are judged.  MFA is not
\* asked for here.
TransferOwnership(u, v) ==
    /\ u # v
    /\ role[u] = "owner" /\ role[v] \notin {"owner", "none"}
    /\ role' = [role EXCEPT ![v] = "owner", ![u] = "admin"]
    /\ UNCHANGED <<org, teams, inTeam, invited, request, admitted>>

-----------------------------------------------------------------------------
(* Invitations.                                                            *)

\* create_org_invitation: three statements, each in a transaction of its own.
InviteCheck(r) ==
    /\ Doing(r, "invite")
    /\ IF request[r].user \in Members THEN Answer(r) ELSE Continue(r, "revoke expired")
    /\ UNCHANGED <<org, role, teams, inTeam, invited, admitted>>

InviteRevokeExpired(r) ==
    /\ Doing(r, "revoke expired")
    /\ invited' = [i \in Invitation |->
                      IF Open(i) /\ invited[i].expired /\ invited[i].user = request[r].user
                      THEN [invited[i] EXCEPT !.status = "revoked"] ELSE invited[i]]
    /\ Continue(r, "insert invitation")
    /\ UNCHANGED <<org, role, teams, inTeam, admitted>>

\* The unique index refuses a second open invitation of the same user.
InviteInsert(r) ==
    /\ Doing(r, "insert invitation")
    /\ \/ /\ \A i \in Invitation : Open(i) => invited[i].user # request[r].user
          /\ \E i \in Invitation :
                /\ invited[i].status = "new"
                /\ invited' = [invited EXCEPT ![i] =
                                  [status |-> "pending", user |-> request[r].user,
                                   role |-> request[r].role, expired |-> FALSE]]
       \/ /\ \E i \in Invitation : Open(i) /\ invited[i].user = request[r].user
          /\ UNCHANGED invited
    /\ Answer(r)
    /\ UNCHANGED <<org, role, teams, inTeam, admitted>>

\* Mutation: revocation by id alone.
RevokedById(i) == [invited EXCEPT ![i].status = IF @ = "new" THEN @ ELSE "revoked"]

\* UPDATE ... WHERE the invitation is neither accepted, declined nor revoked
Revoked(i) == [invited EXCEPT ![i].status = IF @ = "pending" THEN "revoked" ELSE @]

InviteRevoke(r) ==
    /\ Doing(r, "revoke")
    /\ invited' = Revoked(request[r].invitation)
    /\ Answer(r)
    /\ UNCHANGED <<org, role, teams, inTeam, admitted>>

\* Mutation: ON CONFLICT DO UPDATE.
AcceptOverwriting(i) ==
    /\ Actionable(i)
    /\ Appoint([role EXCEPT ![invited[i].user] = invited[i].role])
    /\ invited' = [invited EXCEPT ![i].status = "accepted"]
    /\ UNCHANGED <<org, teams, inTeam, request>>

\* accept_org_invitation: one transaction with the invitation locked.  For someone
\* who is a member by now the INSERT does nothing and the request is refused.
Accept(i) ==
    /\ Actionable(i)
    /\ invited[i].user \notin Members
    /\ Appoint([role EXCEPT ![invited[i].user] = invited[i].role])
    /\ invited' = [invited EXCEPT ![i].status = "accepted"]
    /\ UNCHANGED <<org, teams, inTeam, request>>

\* decline_org_invitation
Decline(i) ==
    /\ Actionable(i)
    /\ invited' = [invited EXCEPT ![i].status = "declined"]
    /\ UNCHANGED <<org, role, teams, inTeam, request, admitted>>

\* expires_at passes.
Expire(i) ==
    /\ Actionable(i)
    /\ invited' = [invited EXCEPT ![i].expired = TRUE]
    /\ UNCHANGED <<org, role, teams, inTeam, request, admitted>>

-----------------------------------------------------------------------------
(* Teams.                                                                  *)

CreateTeam(r) ==
    /\ Doing(r, "create team")
    /\ teams' = [teams EXCEPT ![request[r].team] = IF @ = "new" THEN "present" ELSE @]
    /\ Answer(r)
    /\ UNCHANGED <<org, role, inTeam, invited, admitted>>

\* Mutation: the foreign key without ON DELETE CASCADE.
WithoutTeamKept(t) == inTeam

\* team_memberships.team_id REFERENCES teams ON DELETE CASCADE
WithoutTeam(t) == {m \in inTeam : m.team # t}

DeleteTeam(r) ==
    /\ Doing(r, "delete team")
    /\ teams' = [teams EXCEPT ![request[r].team] = IF @ = "present" THEN "deleted" ELSE @]
    /\ inTeam' = WithoutTeam(request[r].team)
    /\ Answer(r)
    /\ UNCHANGED <<org, role, invited, admitted>>

\* Mutation: the check on is_org_member is dropped.
CheckTeamOnly(r) ==
    /\ Doing(r, "check team member")
    /\ IF teams[request[r].team] = "present"
       THEN Continue(r, "add team member") ELSE Answer(r)
    /\ UNCHANGED <<org, role, teams, inTeam, invited, admitted>>

\* add_team_member: the team is looked up and is_org_member read...
CheckTeamMember(r) ==
    /\ Doing(r, "check team member")
    /\ IF teams[request[r].team] = "present" /\ request[r].user \in Members
       THEN Continue(r, "add team member") ELSE Answer(r)
    /\ UNCHANGED <<org, role, teams, inTeam, invited, admitted>>

\* Mutation: the two ids bound in the wrong order.
MembershipSwapped(r) == [team |-> request[r].user, user |-> request[r].team]

Membership(r) == [team |-> request[r].team, user |-> request[r].user]

\* ... and the row inserted, unless the foreign key refuses it.
AddTeamMember(r) ==
    /\ Doing(r, "add team member")
    /\ inTeam' = IF teams[request[r].team] = "present"
                 THEN inTeam \cup {Membership(r)} ELSE inTeam
    /\ Answer(r)
    /\ UNCHANGED <<org, role, teams, invited, admitted>>

RemoveTeamMember(r) ==
    /\ Doing(r, "remove team member")
    /\ inTeam' = inTeam \ {Membership(r)}
    /\ Answer(r)
    /\ UNCHANGED <<org, role, teams, invited, admitted>>

-----------------------------------------------------------------------------
(* update_org reads the whole profile and writes the whole profile: what   *)
(* the request does not name is written back as it was read.               *)

ReadProfile(r) ==
    /\ Doing(r, "read profile")
    /\ \E mfa \in BOOLEAN :
          request' = [request EXCEPT ![r].op = "write profile", ![r].mfa = mfa]
    /\ UNCHANGED <<org, role, teams, inTeam, invited, admitted>>

WriteProfile(r) ==
    /\ Doing(r, "write profile")
    /\ org' = [org EXCEPT !.mfaRequired = request[r].mfa]
    /\ Answer(r)
    /\ UNCHANGED <<role, teams, inTeam, invited, admitted>>

-----------------------------------------------------------------------------
Step(r) ==
    \/ Begin(r) \/ Fail(r)
    \/ AddMember(r) \/ RemoveMember(r)
    \/ InviteCheck(r) \/ InviteRevokeExpired(r) \/ InviteInsert(r) \/ InviteRevoke(r)
    \/ CreateTeam(r) \/ DeleteTeam(r)
    \/ CheckTeamMember(r) \/ AddTeamMember(r) \/ RemoveTeamMember(r)
    \/ ReadProfile(r) \/ WriteProfile(r)

Next ==
    \/ \E u \in User : CreateOrg(u)
    \/ \E u, v \in User : TransferOwnership(u, v)
    \/ \E i \in Invitation : Accept(i) \/ Decline(i) \/ Expire(i)
    \/ \E r \in Request : Step(r)

Spec == Init /\ [][Next]_vars

-----------------------------------------------------------------------------
(* Properties.                                                             *)

TypeOK ==
    /\ org \in [exists : BOOLEAN, mfaRequired : BOOLEAN]
    /\ role \in [User -> Roles \cup {"none"}]
    /\ teams \in [Team -> {"new", "present", "deleted"}]
    /\ inTeam \subseteq [team : Team, user : User]
    /\ invited \in [Invitation ->
                      [status : {"new", "pending", "accepted", "declined", "revoked"},
                       user : User \cup {None}, role : AssignableRoles \cup {"none"},
                       expired : BOOLEAN]]
    /\ request \in [Request ->
                      [op : Operations \cup {"idle"}, user : User \cup {None},
                       role : AssignableRoles \cup {"none"}, team : Team \cup {None},
                       invitation : Invitation \cup {None}, mfa : BOOLEAN]]
    /\ admitted \subseteq User

\* The ownership is handed over, never shared: whatever transfers, appointments,
\* removals and late acceptances interleave, two users are not owners of the
\* organization at the same time.  No constraint of the schema says so (ADR 0004
\* leaves it to the application).
AtMostOneOwner == \A u, v \in Owners : u = v

\* ADR 0004: "Generic member management and invitation flows explicitly reject
\* owner-role assignment and owner-role removal": once created, the organization
\* has an owner.  Violated: add_member overwrites the owner's role (OrgOwner.cfg).
OwnerRemains == org.exists => Owners # {}

\* An acceptance admits, and does no more: a role an administrator has given in
\* the meantime is not replaced by that of an older invitation.
AcceptanceOnlyAdmits ==
    [][\A i \in Invitation :
          Open(i) /\ invited'[i].status = "accepted"
             => invited[i].user \notin Members]_vars

\* The answer to an invitation is final: a revocation that crosses an acceptance
\* or a refusal does not take the place of it, nor the other way round.
AnswersAreFinal ==
    [][\A i \in Invitation :
          invited[i].status \in {"accepted", "declined", "revoked"}
             => invited'[i] = invited[i]]_vars

\* ADR 0012: "Team membership is restricted to users who are already members of
\* the parent organization".  The check precedes the INSERT, and a removal keeps
\* the team memberships, so that what holds is: who is in a team has been a
\* member, and the team has not been deleted.
TeamsAreOfTheOrg ==
    \A m \in inTeam : m.user \in admitted /\ teams[m.team] = "present"

=============================================================================
