SPECIFICATION Spec
CONSTANTS
    AfNames = {n1, n2}
    RegionNames = {n3}
    Ifaces = {i1}
    Afus = {a1}
    OddLength = {}
    None = None
    MaxCount = 2
    MaxRequests = 2
    MaxQuantity = 1
SYMMETRY SameNames
INVARIANTS TypeOK IdentityCovers MapsAgree Idempotent UnitsKept
