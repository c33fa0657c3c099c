CONSTANTS
    NoOrg = NoOrg
    User = {u1, u2}
    Org = {o1}
    Token = {t1, t2}
    Key = {k1, k2}
    Request = {r1, r2}
    EnrollmentTtl = 1
    MaxTime = 2
SPECIFICATION FairSpec
INVARIANTS
    IInv
    SpentMeansEnrolled
PROPERTIES
    RolesAreStable
    Implements
    EnrolEnds
