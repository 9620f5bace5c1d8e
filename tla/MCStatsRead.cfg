CONSTANTS
    u1 = u1
    u2 = u2
    i1 = i1
    i2 = i2
    Uuids = {u1, u2}
    Names = {}
    Null = Null
    Empty = Empty
    OfflineUUIDMarker = Offline
    ConsoleAliases = {}
    IncludeInactive = FALSE
    IncludeSilent = FALSE
    DefaultPageSize = 2
    MaxPageSize = 2
    Ids = {i1, i2}
    Templates <- StatsRows
    Requests = {}
    NoRequest = NoRequest
    MaxTime = 2
    MaxWrites = 3
SPECIFICATION StatsSpec
INVARIANTS
    StatsIInv
    CountsBracketed
    StatsMatchList
