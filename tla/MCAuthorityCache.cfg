CONSTANTS
    Calls = {c1, c2}
    Uuids = {u1, u2}
    Permissions = {mod}
    ModPermission = mod
    TTL = 2
    MaxLatency = 1
    MaxTime = 4
SPECIFICATION Spec
SYMMETRY Symmetry
INVARIANTS
    IInv
    NoFetchWithinTTL
PROPERTIES
    OracleSpec
    ExpiryMonotone
