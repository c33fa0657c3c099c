CONSTANTS
    ann = ann
    bob = bob
    acme = acme
    own = own
    d1 = d1
    d2 = d2
    view = view
    NoOrg = NoOrg
    User = {ann, bob}
    Org = {acme, own}
    Device = {d1, d2}
    OrgOf <- TwoDevices
    RoleOf <- MCRoleOf
    Group = {g1, g2}
    Capability = {view}
    Request = {r1}
    GrantTtl = 1
    MaxTime = 3
    MaxGrants = 1
SPECIFICATION Spec
SYMMETRY GroupSymmetry
INVARIANTS
    IInv
    AccessEndsInTime
    TenantsStayApart
