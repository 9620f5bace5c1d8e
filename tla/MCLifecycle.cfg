CONSTANTS
    Handlers = {h1, h2}
    Conns = {d1}
    Free = Free
    MaxQueries = 2
SPECIFICATION Spec
CHECK_DEADLOCK FALSE
INVARIANTS
    IInv
    DrainedBeforeClose
    ExitCodeTruthful
PROPERTIES
    SignalEndsProcess
    FailureEndsProcess
