SPECIFICATION FairSpec
CONSTANTS
    DevTypes = {d1, d2}
    Tables = {t1, t2}
    Absent = Absent
    NoType = NoType
    MaxLaunched = 1
    MaxFault = 0
PROPERTIES SettlesOrBlocked SettlesIfRead
