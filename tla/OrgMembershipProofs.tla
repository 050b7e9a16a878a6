------------------------- MODULE OrgMembershipProofs -------------------------
(***************************************************************************)
(* What holds of an organization's people for every number of users,      *)
(* teams, invitations and concurrent requests.                             *)
(***************************************************************************)
EXTENDS OrgMembership, TLAPS

TeamOperations == {"check team member", "add team member", "remove team member"}

\* Before the organization exists nobody has a role in it, and so nobody has been
\* authorized to do anything or been invited.
Founded ==
    ~org.exists => /\ \A u \in User : role[u] = "none"
                   /\ \A r \in Request : Doing(r, "idle")
                   /\ \A i \in Invitation : ~Open(i)

\* A request on a team's members names both, and the row it is about to insert
\* is that of someone who has been a member: the check came first.
RequestsAreChecked ==
    \A r \in Request :
        /\ request[r].op \in TeamOperations
             => request[r].user \in User /\ request[r].team \in Team
        /\ request[r].op = "add team member" => request[r].user \in admitted

MembersAreAdmitted == Members \subseteq admitted

IInv ==
    /\ TypeOK
    /\ Founded
    /\ RequestsAreChecked
    /\ MembersAreAdmitted
    /\ AtMostOneOwner
    /\ TeamsAreOfTheOrg

RequestRecords == [op : Operations \cup {"idle"}, user : User \cup {None},
                   role : AssignableRoles \cup {"none"}, team : Team \cup {None},
                   invitation : Invitation \cup {None}, mfa : BOOLEAN]

InvitationRecords == [status : {"new", "pending", "accepted", "declined", "revoked"},
                      user : User \cup {None}, role : AssignableRoles \cup {"none"},
                      expired : BOOLEAN]

\* A request that has just been authorized.
Fresh(new) ==
    /\ new \in RequestRecords
    /\ new.op \in TeamOperations => new.user \in User /\ new.team \in Team
    /\ new.op # "add team member"

-----------------------------------------------------------------------------
LEMMA InitIInv == Init => IInv
  <1> SUFFICES ASSUME Init PROVE IInv
    OBVIOUS
  <1>1. \A u \in User : role[u] = "none"
    BY DEF Init
  <1>2. request \in [Request -> RequestRecords]
    BY DEF Init, NoRequest, RequestRecords
  <1>3. invited \in [Invitation -> InvitationRecords]
    BY DEF Init, NoInvitation, InvitationRecords
  <1>4. TypeOK
    BY <1>2, <1>3 DEF Init, TypeOK, RequestRecords, InvitationRecords
  <1>5. RequestsAreChecked
    BY DEF Init, NoRequest, RequestsAreChecked, TeamOperations
  <1>6. Founded
    BY <1>1 DEF Init, Founded, Doing, Open, NoRequest, NoInvitation
  <1>6a. MembersAreAdmitted /\ AtMostOneOwner
    BY <1>1 DEF MembersAreAdmitted, Members, AtMostOneOwner, Owners
  <1>7. TeamsAreOfTheOrg
    BY DEF Init, TeamsAreOfTheOrg
  <1> QED BY <1>4, <1>5, <1>6, <1>6a, <1>7 DEF IInv

\* What a request becomes when it starts is well-formed, and is not yet past a
\* check of the membership.
LEMMA BeginStep ==
    ASSUME TypeOK, RequestsAreChecked, NEW r \in Request, Begin(r)
    PROVE  /\ TypeOK'
           /\ RequestsAreChecked'
  <1>1. PICK new : Fresh(new) /\ request' = [request EXCEPT ![r] = new]
    <2>1. CASE \E op \in {"add member", "invite"}, u \in User, ro \in AssignableRoles :
                   request' = [request EXCEPT ![r] =
                     [NoRequest EXCEPT !.op = op, !.user = u, !.role = ro]]
      <3>1. PICK op \in {"add member", "invite"}, u \in User, ro \in AssignableRoles :
                   request' = [request EXCEPT ![r] =
                     [NoRequest EXCEPT !.op = op, !.user = u, !.role = ro]]
        BY <2>1
      <3>2. Fresh([NoRequest EXCEPT !.op = op, !.user = u, !.role = ro])
        BY DEF Fresh, RequestRecords, NoRequest, Operations, TeamOperations
      <3> QED BY <3>1, <3>2
    <2>2. CASE \E u \in User :
                   request' = [request EXCEPT ![r] =
                     [NoRequest EXCEPT !.op = "remove member", !.user = u]]
      <3>1. PICK u \in User :
                   request' = [request EXCEPT ![r] =
                     [NoRequest EXCEPT !.op = "remove member", !.user = u]]
        BY <2>2
      <3>2. Fresh([NoRequest EXCEPT !.op = "remove member", !.user = u])
        BY DEF Fresh, RequestRecords, NoRequest, Operations, TeamOperations
      <3> QED BY <3>1, <3>2
    <2>3. CASE \E i \in Invitation :
                   request' = [request EXCEPT ![r] =
                     [NoRequest EXCEPT !.op = "revoke", !.invitation = i]]
      <3>1. PICK i \in Invitation :
                   request' = [request EXCEPT ![r] =
                     [NoRequest EXCEPT !.op = "revoke", !.invitation = i]]
        BY <2>3
      <3>2. Fresh([NoRequest EXCEPT !.op = "revoke", !.invitation = i])
        BY DEF Fresh, RequestRecords, NoRequest, Operations, TeamOperations
      <3> QED BY <3>1, <3>2
    <2>4. CASE \E t \in Team :
                   request' = [request EXCEPT ![r] =
                     [NoRequest EXCEPT !.op = "create team", !.team = t]]
      <3>1. PICK t \in Team :
                   request' = [request EXCEPT ![r] =
                     [NoRequest EXCEPT !.op = "create team", !.team = t]]
        BY <2>4
      <3>2. Fresh([NoRequest EXCEPT !.op = "create team", !.team = t])
        BY DEF Fresh, RequestRecords, NoRequest, Operations, TeamOperations
      <3> QED BY <3>1, <3>2
    <2>5. CASE \E t \in Team, op \in {"delete team", "check team member", "remove team member"}, u \in User :
                   request' = [request EXCEPT ![r] =
                     [NoRequest EXCEPT !.op = op, !.team = t,
                                 !.user = IF op = "delete team" THEN None ELSE u]]
      <3>1. PICK t \in Team, op \in {"delete team", "check team member", "remove team member"}, u \in User :
                   request' = [request EXCEPT ![r] =
                     [NoRequest EXCEPT !.op = op, !.team = t,
                                 !.user = IF op = "delete team" THEN None ELSE u]]
        BY <2>5
      <3>2. Fresh([NoRequest EXCEPT !.op = op, !.team = t,
                                 !.user = IF op = "delete team" THEN None ELSE u])
        BY DEF Fresh, RequestRecords, NoRequest, Operations, TeamOperations
      <3> QED BY <3>1, <3>2
    <2>6. CASE request' = [request EXCEPT ![r] = [NoRequest EXCEPT !.op = "read profile"]]
      <3>1. Fresh([NoRequest EXCEPT !.op = "read profile"])
        BY DEF Fresh, RequestRecords, NoRequest, Operations, TeamOperations
      <3> QED BY <2>6, <3>1
    <2> QED BY <2>1, <2>2, <2>3, <2>4, <2>5, <2>6 DEF Begin
  <1>2. UNCHANGED <<org, role, teams, inTeam, invited, admitted>>
    BY DEF Begin
  <1>3. request' \in [Request -> RequestRecords]
    BY <1>1 DEF TypeOK, Fresh, RequestRecords
  <1>4. TypeOK'
    BY <1>2, <1>3 DEF TypeOK, RequestRecords
  <1>5. RequestsAreChecked'
    BY <1>1, <1>2 DEF TypeOK, RequestsAreChecked, Fresh
  <1> QED BY <1>4, <1>5

\* A request that is answered, or that goes on with another statement.
LEMMA AnswerStep ==
    ASSUME TypeOK, NEW r \in Request, Answer(r)
    PROVE  /\ request' \in [Request -> RequestRecords]
           /\ RequestsAreChecked /\ admitted \subseteq admitted' => RequestsAreChecked'
  <1>1. NoRequest \in RequestRecords
    BY DEF NoRequest, RequestRecords
  <1>2. NoRequest.op \notin TeamOperations
    BY DEF NoRequest, TeamOperations
  <1>3. "add team member" \in TeamOperations
    BY DEF TeamOperations
  <1> QED BY <1>1, <1>2, <1>3 DEF TypeOK, Answer, RequestsAreChecked, RequestRecords

LEMMA ContinueStep ==
    ASSUME TypeOK, NEW r \in Request, NEW op \in Operations, Continue(r, op)
    PROVE  /\ request' \in [Request -> RequestRecords]
           /\ op \notin TeamOperations /\ RequestsAreChecked /\ UNCHANGED admitted
                => RequestsAreChecked'
  <1>1. "add team member" \in TeamOperations
    BY DEF TeamOperations
  <1>2. request \in [Request -> RequestRecords]
    BY DEF TypeOK, RequestRecords
  <1>3. request' \in [Request -> RequestRecords]
    BY <1>2 DEF Continue, RequestRecords
  <1>4. \A q \in Request : q # r => request'[q] = request[q]
    BY <1>2 DEF Continue
  <1>5. request'[r].op = op
    BY <1>2 DEF Continue, RequestRecords
  <1> QED BY <1>1, <1>3, <1>4, <1>5 DEF RequestsAreChecked

-----------------------------------------------------------------------------
(* One step per action; first the operations on roles.                     *)

\* What an appointment of one user to a role that is not the owner's preserves.
LEMMA AppointStep ==
    ASSUME TypeOK, Founded, MembersAreAdmitted, AtMostOneOwner, org.exists,
           NEW u \in User \cup {None}, NEW ro \in AssignableRoles \cup {"none"},
           Appoint([role EXCEPT ![u] = ro]), UNCHANGED org
    PROVE  /\ role' \in [User -> Roles \cup {"none"}]
           /\ admitted' \subseteq User /\ admitted \subseteq admitted'
           /\ Founded'
           /\ MembersAreAdmitted' /\ AtMostOneOwner'
  <1>1. role \in [User -> Roles \cup {"none"}] /\ admitted \subseteq User
    BY DEF TypeOK
  <1>2. role' = [role EXCEPT ![u] = ro]
    BY DEF Appoint
  <1>3. role' \in [User -> Roles \cup {"none"}]
    BY <1>1, <1>2 DEF Roles
  <1>4. /\ admitted' \subseteq User /\ admitted \subseteq admitted'
        /\ MembersAreAdmitted'
    BY <1>1, <1>2, <1>3 DEF Appoint, MembersAreAdmitted, Members
  <1>5. Founded'
    BY DEF Founded
  <1>6. \A v \in User : role'[v] = "owner" => role[v] = "owner"
    BY <1>1, <1>2 DEF AssignableRoles
  <1>7. AtMostOneOwner'
    BY <1>6 DEF AtMostOneOwner, Owners
  <1> QED BY <1>3, <1>4, <1>5, <1>7

LEMMA CreateOrgStep ==
    ASSUME IInv, NEW u \in User, CreateOrg(u)
    PROVE  IInv'
  <1> USE DEF IInv
  <1>1. role \in [User -> Roles \cup {"none"}] /\ admitted \subseteq User
    BY DEF TypeOK
  <1>2. \A v \in User : role[v] = "none"
    BY DEF CreateOrg, Founded
  <1>3. role' = [role EXCEPT ![u] = "owner"] /\ org' = [org EXCEPT !.exists = TRUE]
    BY DEF CreateOrg, Appoint
  <1>4. role' \in [User -> Roles \cup {"none"}]
    BY <1>1, <1>3 DEF Roles, AdminRoles
  <1>5. /\ admitted' \subseteq User /\ admitted \subseteq admitted'
        /\ MembersAreAdmitted'
    BY <1>1, <1>3, <1>4 DEF CreateOrg, Appoint, MembersAreAdmitted, Members
  <1>6. TypeOK'
    BY <1>3, <1>4, <1>5 DEF TypeOK, CreateOrg
  <1>7. Founded'
    BY <1>3 DEF Founded, TypeOK
  <1>8. AtMostOneOwner'
    BY <1>1, <1>2, <1>3 DEF AtMostOneOwner, Owners
  <1>9. RequestsAreChecked' /\ TeamsAreOfTheOrg'
    BY <1>5 DEF CreateOrg, RequestsAreChecked, TeamsAreOfTheOrg
  <1> QED BY <1>5, <1>6, <1>7, <1>8, <1>9

LEMMA TransferStep ==
    ASSUME IInv, NEW u \in User, NEW v \in User, TransferOwnership(u, v)
    PROVE  IInv'
  <1> USE DEF IInv
  <1>1. role \in [User -> Roles \cup {"none"}]
    BY DEF TypeOK
  <1>2. /\ u # v /\ role[u] = "owner" /\ role[v] # "none"
        /\ role' = [role EXCEPT ![v] = "owner", ![u] = "admin"]
        /\ UNCHANGED <<org, teams, inTeam, invited, request, admitted>>
    BY DEF TransferOwnership
  <1>3. TypeOK'
    BY <1>1, <1>2 DEF TypeOK, Roles, AdminRoles
  <1>4. \A w \in User : role'[w] # "none" => role[w] # "none"
    BY <1>1, <1>2
  <1>5. Founded'
    BY <1>2 DEF Founded
  <1>5a. MembersAreAdmitted'
    BY <1>2, <1>4 DEF MembersAreAdmitted, Members
  <1>6. \A w \in User : role[w] = "owner" => w = u
    BY <1>2 DEF AtMostOneOwner, Owners
  <1>7. \A w \in User : role'[w] = "owner" => w = v
    BY <1>1, <1>2, <1>6
  <1>8. AtMostOneOwner'
    BY <1>7 DEF AtMostOneOwner, Owners
  <1>9. RequestsAreChecked' /\ TeamsAreOfTheOrg'
    BY <1>2 DEF RequestsAreChecked, TeamsAreOfTheOrg
  <1> QED BY <1>3, <1>5, <1>5a, <1>8, <1>9

-----------------------------------------------------------------------------
(* The steps of an administrative request.                                 *)

\* Whoever has been authorized works on an organization that exists.
LEMMA RequestIsFounded ==
    ASSUME TypeOK, Founded, NEW r \in Request, ~Doing(r, "idle")
    PROVE  org.exists
  BY DEF Founded

\* What a step preserves that leaves roles and teams alone and starts no request.
LEMMA RolesKept ==
    ASSUME IInv, org.exists, UNCHANGED <<org, role, teams, inTeam, admitted>>
    PROVE  Founded' /\ MembersAreAdmitted' /\ AtMostOneOwner' /\ TeamsAreOfTheOrg'
  BY DEF IInv, Founded, MembersAreAdmitted, Members, AtMostOneOwner, Owners,
         TeamsAreOfTheOrg

LEMMA BeginKeeps ==
    ASSUME IInv, NEW r \in Request, Begin(r)
    PROVE  IInv'
  <1>1. org.exists
    BY DEF Begin, IInv, Founded, MayAdminister, AdminRoles
  <1>2. TypeOK' /\ RequestsAreChecked'
    BY BeginStep DEF IInv
  <1>3. Founded' /\ MembersAreAdmitted' /\ AtMostOneOwner' /\ TeamsAreOfTheOrg'
    BY <1>1, RolesKept DEF Begin
  <1> QED BY <1>2, <1>3 DEF IInv

\* An answer that changes neither roles nor teams.
LEMMA AnswerKeeps ==
    ASSUME IInv, NEW r \in Request, ~Doing(r, "idle"), Answer(r),
           UNCHANGED <<org, role, teams, inTeam, admitted>>,
           invited' \in [Invitation -> InvitationRecords]
    PROVE  IInv'
  <1>1. org.exists
    BY RequestIsFounded DEF IInv
  <1>2. Founded' /\ MembersAreAdmitted' /\ AtMostOneOwner' /\ TeamsAreOfTheOrg'
    BY <1>1, RolesKept
  <1>3. request' \in [Request -> RequestRecords] /\ RequestsAreChecked'
    BY AnswerStep DEF IInv
  <1>4. TypeOK'
    BY <1>3 DEF IInv, TypeOK, RequestRecords, InvitationRecords
  <1> QED BY <1>2, <1>3, <1>4 DEF IInv

\* A statement after which the request goes on with another one.
LEMMA ContinueKeeps ==
    ASSUME IInv, NEW r \in Request, ~Doing(r, "idle"),
           NEW op \in Operations \ TeamOperations, Continue(r, op),
           UNCHANGED <<org, role, teams, inTeam, admitted>>,
           invited' \in [Invitation -> InvitationRecords]
    PROVE  IInv'
  <1>1. org.exists
    BY RequestIsFounded DEF IInv
  <1>2. Founded' /\ MembersAreAdmitted' /\ AtMostOneOwner' /\ TeamsAreOfTheOrg'
    BY <1>1, RolesKept
  <1>3. request' \in [Request -> RequestRecords] /\ RequestsAreChecked'
    BY ContinueStep DEF IInv
  <1>4. TypeOK'
    BY <1>3 DEF IInv, TypeOK, RequestRecords, InvitationRecords
  <1> QED BY <1>2, <1>3, <1>4 DEF IInv

LEMMA AddMemberKeeps ==
    ASSUME IInv, NEW r \in Request, AddMember(r)
    PROVE  IInv'
  <1>1. org.exists
    BY RequestIsFounded DEF IInv, AddMember, Doing
  <1>2. PICK u \in User \cup {None}, ro \in AssignableRoles \cup {"none"} :
            Appoint([role EXCEPT ![u] = ro])
    BY DEF IInv, TypeOK, AddMember
  <1>3. /\ role' \in [User -> Roles \cup {"none"}]
        /\ admitted' \subseteq User /\ admitted \subseteq admitted'
        /\ Founded' /\ MembersAreAdmitted' /\ AtMostOneOwner'
    BY <1>1, <1>2, AppointStep DEF IInv, AddMember
  <1>4. request' \in [Request -> RequestRecords] /\ RequestsAreChecked'
    BY <1>3, AnswerStep DEF IInv, AddMember
  <1>5. TypeOK'
    BY <1>3, <1>4 DEF IInv, TypeOK, AddMember, RequestRecords
  <1>6. TeamsAreOfTheOrg'
    BY <1>3 DEF IInv, TeamsAreOfTheOrg, AddMember
  <1> QED BY <1>3, <1>4, <1>5, <1>6 DEF IInv

LEMMA RemoveMemberKeeps ==
    ASSUME IInv, NEW r \in Request, RemoveMember(r)
    PROVE  IInv'
  <1>1. org.exists
    BY RequestIsFounded DEF IInv, RemoveMember, Doing
  <1>2. role \in [User -> Roles \cup {"none"}]
    BY DEF IInv, TypeOK
  <1>3. PICK u \in User \cup {None} :
            role' = [role EXCEPT ![u] = IF @ = "owner" THEN @ ELSE "none"]
    BY DEF IInv, TypeOK, RemoveMember
  <1>4. /\ role' \in [User -> Roles \cup {"none"}]
        /\ \A v \in User : role'[v] = role[v] \/ role'[v] = "none"
    BY <1>2, <1>3
  <1>5. request' \in [Request -> RequestRecords] /\ RequestsAreChecked'
    BY AnswerStep DEF IInv, RemoveMember
  <1>6. TypeOK'
    BY <1>4, <1>5 DEF IInv, TypeOK, RemoveMember, RequestRecords
  <1>7. Founded'
    BY <1>1 DEF Founded, RemoveMember
  <1>8. /\ Members' \subseteq Members /\ Owners' \subseteq Owners
        /\ admitted' = admitted
    BY <1>4 DEF Members, Owners, RemoveMember
  <1>8a. MembersAreAdmitted' /\ AtMostOneOwner'
    BY <1>8 DEF IInv, MembersAreAdmitted, AtMostOneOwner
  <1>9. TeamsAreOfTheOrg'
    BY DEF IInv, TeamsAreOfTheOrg, RemoveMember
  <1> QED BY <1>5, <1>6, <1>7, <1>8a, <1>9 DEF IInv

\* The statements of create_org_invitation and revoke_org_invitation.
LEMMA InvitingKeeps ==
    ASSUME IInv, NEW r \in Request,
           \/ InviteCheck(r) \/ InviteRevokeExpired(r)
           \/ InviteInsert(r) \/ InviteRevoke(r)
    PROVE  IInv'
  <1>1. /\ invited \in [Invitation -> InvitationRecords]
        /\ request \in [Request -> RequestRecords]
    BY DEF IInv, TypeOK, InvitationRecords, RequestRecords
  <1>2. \A op \in {"revoke expired", "insert invitation"} : op \in Operations \ TeamOperations
    BY DEF Operations, TeamOperations
  <1>3. CASE InviteCheck(r)
    BY <1>1, <1>2, <1>3, AnswerKeeps, ContinueKeeps DEF InviteCheck, Doing
  <1>4. CASE InviteRevokeExpired(r)
    <2>0. \A i \in Invitation :
              /\ invited[i] \in InvitationRecords
              /\ [invited[i] EXCEPT !.status = "revoked"] \in InvitationRecords
      BY <1>1 DEF InvitationRecords
    <2>1. invited' \in [Invitation -> InvitationRecords]
      <3> DEFINE Lapsed(i) == Open(i) /\ invited[i].expired /\ invited[i].user = request[r].user
                 Row(i) == [invited[i] EXCEPT !.status = "revoked"]
                 Kept(i) == invited[i]
      <3>1. invited' = [i \in Invitation |-> IF Lapsed(i) THEN Row(i) ELSE Kept(i)]
        BY <1>4 DEF InviteRevokeExpired
      <3>2. \A i \in Invitation : Row(i) \in InvitationRecords /\ Kept(i) \in InvitationRecords
        BY <2>0
      <3> HIDE DEF Lapsed, Row, Kept
      <3>3. ASSUME NEW i \in Invitation
            PROVE  (IF Lapsed(i) THEN Row(i) ELSE Kept(i)) \in InvitationRecords
        <4>1. CASE Lapsed(i)
          BY <3>2, <4>1
        <4>2. CASE ~Lapsed(i)
          BY <3>2, <4>2
        <4> QED BY <4>1, <4>2
      <3>4. [i \in Invitation |-> IF Lapsed(i) THEN Row(i) ELSE Kept(i)]
               \in [Invitation -> InvitationRecords]
        BY <3>3
      <3> QED BY <3>1, <3>4
    <2> QED BY <1>2, <1>4, <2>1, ContinueKeeps DEF InviteRevokeExpired, Doing
  <1>5. CASE InviteInsert(r)
    <2>1. request[r].user \in User \cup {None} /\ request[r].role \in AssignableRoles \cup {"none"}
      BY <1>1 DEF RequestRecords
    <2>2. [status |-> "pending", user |-> request[r].user, role |-> request[r].role,
           expired |-> FALSE] \in InvitationRecords
      BY <2>1 DEF InvitationRecords
    <2>3. invited' \in [Invitation -> InvitationRecords]
      BY <1>1, <1>5, <2>2 DEF InviteInsert
    <2> QED BY <1>5, <2>3, AnswerKeeps DEF InviteInsert, Doing
  <1>6. CASE InviteRevoke(r)
    <2>1. PICK i \in Invitation \cup {None} :
              invited' = [invited EXCEPT ![i].status = IF @ = "pending" THEN "revoked" ELSE @]
      BY <1>1, <1>6 DEF InviteRevoke, Revoked, RequestRecords
    <2>2. invited' \in [Invitation -> InvitationRecords]
      BY <1>1, <2>1 DEF InvitationRecords
    <2> QED BY <1>6, <2>2, AnswerKeeps DEF InviteRevoke, Doing
  <1> QED BY <1>3, <1>4, <1>5, <1>6

\* The steps of the invited user, and the passing of time.
LEMMA AcceptKeeps ==
    ASSUME IInv, NEW i \in Invitation, Accept(i)
    PROVE  IInv'
  <1>1. org.exists
    BY DEF IInv, Founded, Accept, Actionable
  <1>2. invited \in [Invitation -> InvitationRecords]
    BY DEF IInv, TypeOK, InvitationRecords
  <1>3. PICK u \in User \cup {None}, ro \in AssignableRoles \cup {"none"} :
            Appoint([role EXCEPT ![u] = ro])
    BY <1>2 DEF InvitationRecords, Accept
  <1>4. /\ role' \in [User -> Roles \cup {"none"}]
        /\ admitted' \subseteq User /\ admitted \subseteq admitted'
        /\ Founded' /\ MembersAreAdmitted' /\ AtMostOneOwner'
    BY <1>1, <1>3, AppointStep DEF IInv, Accept
  <1>5. invited' \in [Invitation -> InvitationRecords]
    BY <1>2 DEF InvitationRecords, Accept
  <1>6. TypeOK'
    BY <1>4, <1>5 DEF IInv, TypeOK, Accept, InvitationRecords
  <1>7. RequestsAreChecked' /\ TeamsAreOfTheOrg'
    BY <1>4 DEF IInv, RequestsAreChecked, TeamsAreOfTheOrg, Accept
  <1> QED BY <1>4, <1>6, <1>7 DEF IInv

LEMMA DeclineOrExpireKeeps ==
    ASSUME IInv, NEW i \in Invitation, Decline(i) \/ Expire(i)
    PROVE  IInv'
  <1>1. org.exists
    BY DEF IInv, Founded, Decline, Expire, Actionable
  <1>2. invited \in [Invitation -> InvitationRecords]
    BY DEF IInv, TypeOK, InvitationRecords
  <1>3. invited' \in [Invitation -> InvitationRecords]
    BY <1>2 DEF InvitationRecords, Decline, Expire
  <1>4. UNCHANGED <<org, role, teams, inTeam, request, admitted>>
    BY DEF Decline, Expire
  <1>5. Founded' /\ MembersAreAdmitted' /\ AtMostOneOwner' /\ TeamsAreOfTheOrg'
    BY <1>1, <1>4, RolesKept
  <1>6. TypeOK' /\ RequestsAreChecked'
    BY <1>3, <1>4 DEF IInv, TypeOK, RequestsAreChecked, InvitationRecords
  <1> QED BY <1>5, <1>6 DEF IInv

\* An answer that changes the teams, and no role.
LEMMA TeamsKept ==
    ASSUME IInv, NEW r \in Request, ~Doing(r, "idle"), Answer(r),
           UNCHANGED <<org, role, invited, admitted>>,
           teams' \in [Team -> {"new", "present", "deleted"}],
           inTeam' \subseteq [team : Team, user : User],
           TeamsAreOfTheOrg'
    PROVE  IInv'
  <1>1. org.exists
    BY RequestIsFounded DEF IInv
  <1>2. Founded' /\ MembersAreAdmitted' /\ AtMostOneOwner'
    BY <1>1 DEF IInv, Founded, MembersAreAdmitted, Members, AtMostOneOwner, Owners
  <1>3. request' \in [Request -> RequestRecords] /\ RequestsAreChecked'
    BY AnswerStep DEF IInv
  <1>4. TypeOK'
    BY <1>3 DEF IInv, TypeOK, RequestRecords
  <1> QED BY <1>2, <1>3, <1>4 DEF IInv

LEMMA CreateTeamKeeps ==
    ASSUME IInv, NEW r \in Request, CreateTeam(r)
    PROVE  IInv'
  <1>1. teams \in [Team -> {"new", "present", "deleted"}]
        /\ inTeam \subseteq [team : Team, user : User]
    BY DEF IInv, TypeOK
  <1>2. teams' = [teams EXCEPT ![request[r].team] = IF @ = "new" THEN "present" ELSE @]
    BY DEF CreateTeam
  <1>3. /\ teams' \in [Team -> {"new", "present", "deleted"}]
        /\ \A t \in Team : teams[t] = "present" => teams'[t] = "present"
    BY <1>1, <1>2
  <1>4. TeamsAreOfTheOrg'
    BY <1>1, <1>3 DEF IInv, TeamsAreOfTheOrg, CreateTeam
  <1> QED BY <1>1, <1>3, <1>4, TeamsKept DEF CreateTeam, Doing

LEMMA DeleteTeamKeeps ==
    ASSUME IInv, NEW r \in Request, DeleteTeam(r)
    PROVE  IInv'
  <1>1. teams \in [Team -> {"new", "present", "deleted"}]
        /\ inTeam \subseteq [team : Team, user : User]
    BY DEF IInv, TypeOK
  <1>2. /\ teams' = [teams EXCEPT ![request[r].team] = IF @ = "present" THEN "deleted" ELSE @]
        /\ inTeam' = {m \in inTeam : m.team # request[r].team}
    BY DEF DeleteTeam, WithoutTeam
  <1>3. /\ teams' \in [Team -> {"new", "present", "deleted"}]
        /\ \A t \in Team : t # request[r].team => teams'[t] = teams[t]
    BY <1>1, <1>2
  <1>4. TeamsAreOfTheOrg'
    BY <1>1, <1>2, <1>3 DEF IInv, TeamsAreOfTheOrg, DeleteTeam
  <1> QED BY <1>1, <1>2, <1>3, <1>4, TeamsKept DEF DeleteTeam, Doing

\* The check establishes what RequestsAreChecked says of the INSERT that follows.
LEMMA CheckTeamMemberKeeps ==
    ASSUME IInv, NEW r \in Request, CheckTeamMember(r)
    PROVE  IInv'
  <1>1. invited \in [Invitation -> InvitationRecords]
        /\ request \in [Request -> RequestRecords]
    BY DEF IInv, TypeOK, InvitationRecords, RequestRecords
  <1>2. ~Doing(r, "idle") /\ UNCHANGED <<org, role, teams, inTeam, invited, admitted>>
    BY DEF CheckTeamMember, Doing
  <1>3. CASE Answer(r)
    BY <1>1, <1>2, <1>3, AnswerKeeps
  <1>4. CASE request[r].user \in Members /\ Continue(r, "add team member")
    <2>1. org.exists
      BY <1>2, RequestIsFounded DEF IInv
    <2>2. Founded' /\ MembersAreAdmitted' /\ AtMostOneOwner' /\ TeamsAreOfTheOrg'
      BY <1>2, <2>1, RolesKept
    <2>3. request[r].op \in TeamOperations
      BY DEF CheckTeamMember, Doing, TeamOperations
    <2>4. request[r].user \in admitted /\ request[r].user \in User /\ request[r].team \in Team
      BY <1>4, <2>3 DEF IInv, MembersAreAdmitted, RequestsAreChecked
    <2>5. request' \in [Request -> RequestRecords]
      BY <1>4, ContinueStep DEF IInv, Operations
    <2>6. /\ \A q \in Request : q # r => request'[q] = request[q]
          /\ request'[r].user = request[r].user /\ request'[r].team = request[r].team
      BY <1>1, <1>4 DEF Continue, RequestRecords
    <2>7. RequestsAreChecked'
      BY <1>2, <2>4, <2>6 DEF IInv, RequestsAreChecked
    <2>8. TypeOK'
      BY <1>2, <2>5 DEF IInv, TypeOK, RequestRecords
    <2> QED BY <2>2, <2>7, <2>8 DEF IInv
  <1> QED BY <1>3, <1>4 DEF CheckTeamMember

LEMMA AddTeamMemberKeeps ==
    ASSUME IInv, NEW r \in Request, AddTeamMember(r)
    PROVE  IInv'
  <1>1. /\ request[r].op = "add team member" /\ request[r].op \in TeamOperations
        /\ Answer(r) /\ UNCHANGED <<org, role, teams, invited, admitted>>
    BY DEF AddTeamMember, Doing, TeamOperations
  <1>2. request[r].user \in User \cap admitted /\ request[r].team \in Team
    BY <1>1 DEF IInv, RequestsAreChecked
  <1>3. CASE teams[request[r].team] = "present"
    <2>1. PICK t \in Team, u \in User \cap admitted :
              teams[t] = "present" /\ inTeam' = inTeam \cup {[team |-> t, user |-> u]}
      BY <1>2, <1>3 DEF AddTeamMember, Membership
    <2>2. inTeam' \subseteq [team : Team, user : User]
      BY <2>1 DEF IInv, TypeOK
    <2>2a. \A m \in inTeam' : m \in inTeam \/ (m.team = t /\ m.user = u)
      BY <2>1
    <2>2b. teams' = teams /\ admitted' = admitted
      BY <1>1
    <2>2c. TeamsAreOfTheOrg'
      BY <2>1, <2>2a, <2>2b DEF IInv, TeamsAreOfTheOrg
    <2> QED BY <1>1, <2>2, <2>2c, TeamsKept DEF IInv, TypeOK, Doing
  <1>4. CASE teams[request[r].team] # "present"
    <2>1. inTeam' = inTeam
      BY <1>4 DEF AddTeamMember
    <2>2. inTeam' \subseteq [team : Team, user : User] /\ TeamsAreOfTheOrg'
      BY <1>1, <2>1 DEF IInv, TypeOK, TeamsAreOfTheOrg
    <2> QED BY <1>1, <2>2, TeamsKept DEF IInv, TypeOK, Doing
  <1> QED BY <1>3, <1>4

LEMMA RemoveTeamMemberKeeps ==
    ASSUME IInv, NEW r \in Request, RemoveTeamMember(r)
    PROVE  IInv'
  <1>1. inTeam' \subseteq inTeam /\ UNCHANGED <<org, role, teams, invited, admitted>>
    BY DEF RemoveTeamMember
  <1>2. inTeam' \subseteq [team : Team, user : User] /\ TeamsAreOfTheOrg'
    BY <1>1 DEF IInv, TypeOK, TeamsAreOfTheOrg
  <1> QED BY <1>1, <1>2, TeamsKept DEF IInv, TypeOK, RemoveTeamMember, Doing

\* update_org
LEMMA ProfileKeeps ==
    ASSUME IInv, NEW r \in Request, ReadProfile(r) \/ WriteProfile(r)
    PROVE  IInv'
  <1>1. /\ request \in [Request -> RequestRecords] /\ org.exists
        /\ org \in [exists : BOOLEAN, mfaRequired : BOOLEAN]
    BY RequestIsFounded DEF IInv, TypeOK, RequestRecords, ReadProfile, WriteProfile, Doing
  <1>2. CASE ReadProfile(r)
    <2>1. PICK mfa \in BOOLEAN :
              request' = [request EXCEPT ![r].op = "write profile", ![r].mfa = mfa]
      BY <1>2 DEF ReadProfile
    <2>2. request' \in [Request -> RequestRecords]
      <3>1. [request[r] EXCEPT !.op = "write profile", !.mfa = mfa] \in RequestRecords
        BY <1>1 DEF RequestRecords, Operations
      <3>2. request' = [request EXCEPT ![r] = [request[r] EXCEPT !.op = "write profile",
                                                                 !.mfa = mfa]]
        BY <1>1, <2>1
      <3> QED BY <1>1, <3>1, <3>2
    <2>3. /\ \A q \in Request : q # r => request'[q] = request[q]
          /\ request'[r].op = "write profile"
      BY <1>1, <2>1 DEF RequestRecords
    <2>4. UNCHANGED <<org, role, teams, inTeam, invited, admitted>>
      BY <1>2 DEF ReadProfile
    <2>5. RequestsAreChecked'
      BY <2>3, <2>4 DEF IInv, RequestsAreChecked, TeamOperations
    <2>6. TypeOK'
      BY <2>2, <2>4 DEF IInv, TypeOK, RequestRecords
    <2>7. Founded' /\ MembersAreAdmitted' /\ AtMostOneOwner' /\ TeamsAreOfTheOrg'
      BY <1>1, <2>4, RolesKept
    <2> QED BY <2>5, <2>6, <2>7 DEF IInv
  <1>3. CASE WriteProfile(r)
    <2>1. UNCHANGED <<role, teams, inTeam, invited, admitted>> /\ Answer(r)
      BY <1>3 DEF WriteProfile
    <2>2. request[r].mfa \in BOOLEAN
      BY <1>1 DEF RequestRecords
    <2>3. org' \in [exists : BOOLEAN, mfaRequired : BOOLEAN] /\ org'.exists
      BY <1>1, <1>3, <2>2 DEF WriteProfile
    <2>4. request' \in [Request -> RequestRecords] /\ RequestsAreChecked'
      BY <2>1, AnswerStep DEF IInv
    <2>5. TypeOK'
      BY <2>1, <2>3, <2>4 DEF IInv, TypeOK, RequestRecords
    <2>6. Founded' /\ MembersAreAdmitted' /\ AtMostOneOwner' /\ TeamsAreOfTheOrg'
      BY <2>1, <2>3 DEF IInv, Founded, MembersAreAdmitted, Members, AtMostOneOwner,
                        Owners, TeamsAreOfTheOrg
    <2> QED BY <2>4, <2>5, <2>6 DEF IInv
  <1> QED BY <1>2, <1>3

-----------------------------------------------------------------------------
THEOREM InductiveInvariant == Spec => []IInv
  <1>1. Init => IInv
    BY InitIInv
  <1>2. IInv /\ [Next]_vars => IInv'
    <2> SUFFICES ASSUME IInv, [Next]_vars PROVE IInv'
      OBVIOUS
    <2>1. CASE UNCHANGED vars
      <3> USE <2>1 DEF vars, IInv
      <3>1. TypeOK'
        BY DEF TypeOK
      <3>2. Founded'
        BY DEF Founded, Doing, Open
      <3>3. RequestsAreChecked' /\ TeamsAreOfTheOrg'
        BY DEF RequestsAreChecked, TeamsAreOfTheOrg
      <3>4. MembersAreAdmitted' /\ AtMostOneOwner'
        BY DEF MembersAreAdmitted, Members, AtMostOneOwner, Owners
      <3> QED BY <3>1, <3>2, <3>3, <3>4
    <2>2. CASE \E u \in User : CreateOrg(u)
      BY <2>2, CreateOrgStep
    <2>3. CASE \E u, v \in User : TransferOwnership(u, v)
      BY <2>3, TransferStep
    <2>4. CASE \E i \in Invitation : Accept(i) \/ Decline(i) \/ Expire(i)
      BY <2>4, AcceptKeeps, DeclineOrExpireKeeps
    <2>5. ASSUME NEW r \in Request, Step(r) PROVE IInv'
      <3>1. CASE Begin(r)
        BY <3>1, BeginKeeps
      <3>2. CASE Fail(r)
        <4>1. invited' \in [Invitation -> InvitationRecords]
          BY <3>2 DEF Fail, IInv, TypeOK, InvitationRecords
        <4> QED BY <3>2, <4>1, AnswerKeeps DEF Fail
      <3>3. CASE AddMember(r) \/ RemoveMember(r)
        BY <3>3, AddMemberKeeps, RemoveMemberKeeps
      <3>4. CASE \/ InviteCheck(r) \/ InviteRevokeExpired(r)
                 \/ InviteInsert(r) \/ InviteRevoke(r)
        BY <3>4, InvitingKeeps
      <3>5. CASE \/ CreateTeam(r) \/ DeleteTeam(r)
                 \/ CheckTeamMember(r) \/ AddTeamMember(r) \/ RemoveTeamMember(r)
        BY <3>5, CreateTeamKeeps, DeleteTeamKeeps, CheckTeamMemberKeeps,
           AddTeamMemberKeeps, RemoveTeamMemberKeeps
      <3>6. CASE ReadProfile(r) \/ WriteProfile(r)
        BY <3>6, ProfileKeeps
      <3> QED BY <2>5, <3>1, <3>2, <3>3, <3>4, <3>5, <3>6 DEF Step
    <2> QED BY <2>1, <2>2, <2>3, <2>4, <2>5 DEF Next
  <1> QED BY <1>1, <1>2, PTL DEF Spec

\* The types of every row and of every request under way.
THEOREM TypeCorrect == Spec => []TypeOK
  <1>1. IInv => TypeOK
    BY DEF IInv
  <1> QED BY <1>1, InductiveInvariant, PTL

\* However transfers, appointments, removals and acceptances interleave, the
\* ownership of the organization is not shared.
THEOREM OwnershipIsNotShared == Spec => []AtMostOneOwner
  <1>1. IInv => AtMostOneOwner
    BY DEF IInv
  <1> QED BY <1>1, InductiveInvariant, PTL

\* Teams hold only people who have been members, and deleted teams nobody, though
\* the check of add_team_member and its INSERT are two statements.
THEOREM TeamsStayInTheOrg == Spec => []TeamsAreOfTheOrg
  <1>1. IInv => TeamsAreOfTheOrg
    BY DEF IInv
  <1> QED BY <1>1, InductiveInvariant, PTL

-----------------------------------------------------------------------------
\* What a step does to the row of one invitation.
LEMMA InvitationStep ==
    ASSUME TypeOK, NEW i \in Invitation, [Next]_vars
    PROVE  \/ invited'[i] = invited[i]
           \/ /\ invited[i].status \in {"new", "pending"}
              /\ invited'[i].status = "accepted" => Accept(i)
  <1>1. invited \in [Invitation -> InvitationRecords]
    BY DEF TypeOK, InvitationRecords
  <1>2. CASE UNCHANGED invited
    BY <1>2
  <1>3. CASE \E r \in Request : InviteRevokeExpired(r)
    <2>1. \/ invited'[i] = invited[i]
          \/ Open(i) /\ invited'[i] = [invited[i] EXCEPT !.status = "revoked"]
      BY <1>3 DEF InviteRevokeExpired
    <2> QED BY <1>1, <2>1 DEF Open, InvitationRecords
  <1>4. CASE \E r \in Request : InviteInsert(r)
    <2>1. PICK r \in Request : InviteInsert(r)
      BY <1>4
    <2>2. CASE UNCHANGED invited
      BY <2>2
    <2>3. CASE \E j \in Invitation :
                   /\ invited[j].status = "new"
                   /\ invited' = [invited EXCEPT ![j] =
                                     [status |-> "pending", user |-> request[r].user,
                                      role |-> request[r].role, expired |-> FALSE]]
      BY <1>1, <2>3
    <2> QED BY <2>1, <2>2, <2>3 DEF InviteInsert
  <1>5. CASE \E r \in Request : InviteRevoke(r)
    <2>1. PICK j : invited' = [invited EXCEPT ![j].status = IF @ = "pending" THEN "revoked" ELSE @]
      BY <1>5 DEF InviteRevoke, Revoked
    <2>2. CASE j = i /\ invited[i].status = "pending"
      BY <1>1, <2>1, <2>2 DEF InvitationRecords
    <2>3. CASE j = i /\ invited[i].status # "pending"
      <3>1. invited'[i] = [invited[i] EXCEPT !.status = invited[i].status]
        BY <1>1, <2>1, <2>3
      <3> QED BY <1>1, <3>1 DEF InvitationRecords
    <2>4. CASE j # i
      BY <1>1, <2>1, <2>4
    <2> QED BY <2>2, <2>3, <2>4
  <1>6. CASE \E j \in Invitation : Accept(j)
    <2>1. PICK j \in Invitation : Accept(j)
      BY <1>6
    <2>2. CASE j = i
      BY <2>1, <2>2 DEF Accept, Actionable, Open
    <2>3. CASE j # i
      BY <1>1, <2>1, <2>3 DEF Accept
    <2> QED BY <2>2, <2>3
  <1>7. CASE \E j \in Invitation : Decline(j) \/ Expire(j)
    <2>1. PICK j \in Invitation : Decline(j) \/ Expire(j)
      BY <1>7
    <2>2. CASE j = i
      BY <1>1, <2>1, <2>2 DEF Decline, Expire, Actionable, Open, InvitationRecords
    <2>3. CASE j # i
      BY <1>1, <2>1, <2>3 DEF Decline, Expire
    <2> QED BY <2>2, <2>3
  <1>8. \/ UNCHANGED invited
        \/ \E r \in Request : InviteRevokeExpired(r) \/ InviteInsert(r) \/ InviteRevoke(r)
        \/ \E j \in Invitation : Accept(j) \/ Decline(j) \/ Expire(j)
    BY DEF Next, Step, vars, CreateOrg, TransferOwnership, Begin, Fail, AddMember,
           RemoveMember, InviteCheck, CreateTeam, DeleteTeam, CheckTeamMember,
           AddTeamMember, RemoveTeamMember, ReadProfile, WriteProfile
  <1> QED BY <1>2, <1>3, <1>4, <1>5, <1>6, <1>7, <1>8

\* An answer to an invitation is not replaced by another one, whatever revocations
\* and re-invitations are under way.
THEOREM AnswersStay == Spec => AnswersAreFinal
  <1>1. TypeOK /\ [Next]_vars =>
            [\A i \in Invitation :
                invited[i].status \in {"accepted", "declined", "revoked"}
                   => invited'[i] = invited[i]]_vars
    BY InvitationStep
  <1> QED BY <1>1, TypeCorrect, PTL DEF Spec, AnswersAreFinal

\* Accepting an invitation never replaces a role the user already has.
THEOREM AcceptanceAdmits == Spec => AcceptanceOnlyAdmits
  <1>1. TypeOK /\ [Next]_vars =>
            [\A i \in Invitation :
                Open(i) /\ invited'[i].status = "accepted"
                   => invited[i].user \notin Members]_vars
    <2> SUFFICES ASSUME TypeOK, [Next]_vars, NEW i \in Invitation,
                        Open(i), invited'[i].status = "accepted"
                 PROVE  invited[i].user \notin Members
      OBVIOUS
    <2>1. invited'[i] # invited[i]
      BY DEF Open
    <2>2. Accept(i)
      BY <2>1, InvitationStep
    <2> QED BY <2>2 DEF Accept
  <1> QED BY <1>1, TypeCorrect, PTL DEF Spec, AcceptanceOnlyAdmits

=============================================================================
