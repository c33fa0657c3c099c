SPECIFICATION Spec
CONSTANTS
    Session = {s1, s2, s3}
    Org = {o1, o2}
    Slot = {q1, q2, q3}
    None = None
SYMMETRY Symmetry
CHECK_DEADLOCK FALSE
INVARIANTS
    PanelInv
    DataIsOfTheSession
    ListIsOfTheOrg
PROPERTY LiveSessionIsKept
