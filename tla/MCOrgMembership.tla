--------------------------- MODULE MCOrgMembership ---------------------------
(* OrgMembership with the values TLC gives its constants. *)
EXTENDS OrgMembership, TLC

CONSTANTS u1, u2, u3, t1, i1, i2, r1, r2

TwoUsers == {u1, u2}
ThreeUsers == {u1, u2, u3}
OneUser == {u1}
OneTeam == {t1}
OneInvitation == {i1}
TwoInvitations == {i1, i2}
OneRequest == {r1}
TwoRequests == {r1, r2}

\* Neither a property nor a constant names a request or an invitation.
Alike == Permutations(Request) \cup Permutations(Invitation)
\* Teams and invitations share no row but the memberships: behaviours that use
\* both the team and the second invitation are left out.
Apart ==
    \/ \A t \in Team : teams[t] = "new"
    \/ \E i \in Invitation : invited[i].status = "new"
==============================================================================
