SPECIFICATION Spec
CONSTANTS
    Org = {o1, o2}
    Request = {r1, r2, r3}
    NoLimit = NoLimit
    DefaultLimit = 1
    MaxLimit = 1
    PageLimit = 2
    MaxLoads = 2
SYMMETRY Symmetry
CHECK_DEADLOCK FALSE
INVARIANTS
    TypeOK
    EventsTellWhatHappened
    TableIsTheJournal
    BusyMeansLoading
