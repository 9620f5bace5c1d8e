CONSTANTS
    u1 = u1
    u2 = u2
    Calls = {r1, r2}
    Uuids = {u1, u2}
    Permissions = {mod}
    ModPermission = mod
    TTL = 1
    MaxLatency = 1
    MaxTime = 3
    Operations <- Sample
    Tokens <- Headers
    Forms = {"good", "badParam", "badBody"}
    HandlerCodes = {"NOT_FOUND"}
    NoToken = NoToken
    Nobody = Nobody
SPECIFICATION PipeSpec
SYMMETRY Symmetry
CHECK_DEADLOCK FALSE
INVARIANTS
    IdentifiedOrPublic
    PipeIInv
PROPERTIES
    OnlyModerators
    RefusalsTruthful
