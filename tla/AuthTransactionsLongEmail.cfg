SPECIFICATION Spec
CONSTANTS
    Request = {r1, r2}
    Session = {s1, s2}
    Pending = {s2}
    Email = {e1, e2}
    LongEmail = {e2}
    NoArgument = NoArgument
    Nobody = Nobody
    Connections = 2
PROPERTY RegistrationIsAnswered
