CONSTANTS
    Uuids = {u1}
    Names = {n1}
    Null = Null
    Empty = Empty
    OfflineUUIDMarker = Offline
    ConsoleAliases = {}
    IncludeInactive = TRUE
    IncludeSilent = TRUE
    DefaultPageSize = 1
    MaxPageSize = 2
    PageSizes = {1, 3}
    MaxTime = 3
    MaxRows = 4
SPECIFICATION Spec
CHECK_DEADLOCK FALSE
INVARIANTS
    NothingMissed
    RepeatsBounded
