CONSTANTS
    u1 = u1
    u2 = u2
    u3 = u3
    t1 = t1
    i1 = i1
    i2 = i2
    r1 = r1
    r2 = r2
    None = None
    User <- TwoUsers
    Secured <- OneUser
    Team <- OneTeam
    Invitation <- TwoInvitations
    Request <- TwoRequests
SPECIFICATION Spec
INVARIANT TypeOK
INVARIANT AtMostOneOwner
INVARIANT TeamsAreOfTheOrg
PROPERTY AcceptanceOnlyAdmits
PROPERTY AnswersAreFinal
CHECK_DEADLOCK FALSE
SYMMETRY Alike
CONSTRAINT Apart
