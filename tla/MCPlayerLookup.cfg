CONSTANTS
    u1 = u1
    u2 = u2
    Uuids = {u1, u2}
    Names = {"alex", "ALEX", ".sam", "console"}
    Words = {"alex", ".sam", "console"}
    Word <- WordOf
    JoinNames = {"ALEX", ".sam"}
    PlayerNames = {"alex", "ALEX", "console"}
    ConsoleAliases = {"console"}
    Requests <- ClientRequests
    None = None
    MaxBatch = 3
    MaxJoins = 4
    MaxTime = 1
SPECIFICATION Spec
INVARIANTS
    IInv
    AnswersCurrent
    BatchComplete
    NotFoundTruthful
