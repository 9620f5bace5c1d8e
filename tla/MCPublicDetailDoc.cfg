CONSTANTS
    u1 = u1
    u2 = u2
    n1 = n1
    i1 = i1
    i2 = i2
    Uuids = {u1, u2}
    Names = {n1}
    Null = Null
    Empty = Empty
    OfflineUUIDMarker = Offline
    ConsoleAliases = {n1}
    IncludeInactive = TRUE
    IncludeSilent = TRUE
    DefaultPageSize = 2
    MaxPageSize = 2
    Ids = {i1}
    Templates <- DetailRows
    Requests <- DetailRequests
    NoRequest = NoRequest
    MaxTime = 3
    MaxWrites = 3
SPECIFICATION Spec
INVARIANTS
    PublicDetailInForce
