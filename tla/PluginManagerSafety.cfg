SPECIFICATION Spec
CONSTANTS
    DevTypes = {d1, d2}
    Tables = {t1, t2}
    Absent = Absent
    NoType = NoType
    MaxLaunched = 2
    MaxFault = 1
SYMMETRY Symmetry
INVARIANTS TypeOK InSync
PROPERTIES FeedImplemented
