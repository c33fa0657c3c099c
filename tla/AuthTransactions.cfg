SPECIFICATION Spec
CONSTANTS
    Request = {r1, r2, r3}
    Session = {s1, s2}
    Pending = {s2}
    Email = {e1, e2}
    LongEmail = {}
    NoArgument = NoArgument
    Nobody = Nobody
    Connections = 2
SYMMETRY Symmetry
INVARIANTS
    TypeOK
    FirstAccountOnly
    OnlyTheseDeadlock
    SomebodyGoesOn
