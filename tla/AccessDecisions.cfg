SPECIFICATION Spec
CONSTANTS
    ann = ann
    bob = bob
    acme = acme
    umbrella = umbrella
    builders = builders
    testers = testers
    User = {ann, bob}
    Org = {acme, umbrella}
    Team = {builders, testers}
    None = None
    OrgOf <- TeamOrg
    Role = {"admin", "publisher"}
    Strict = {umbrella}
    Enrolled = {ann}
    Request = {q1, q2, q3}
    Founder = ann
    Grantable <- SmallGrants
    Shown = {"public", "private"}
SYMMETRY Symmetric
INVARIANTS
    TypeOK
    WritersAreOfTheOwners
    AdaptersAdmitNoMore
    ReadersAgree
    SecondFactorHolds
PROPERTY
    NoRevival
CHECK_DEADLOCK FALSE
