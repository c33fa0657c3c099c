SPECIFICATION Spec
CONSTANTS
    Session = {s1, s2}
    Org = {o1, o2}
    Slot = {q1, q2, q3}
    None = None
SYMMETRY Symmetry
CHECK_DEADLOCK FALSE
PROPERTY EndedMeansEnded
