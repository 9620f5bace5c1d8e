CONSTANTS
    Handlers = {h1, h2, h3}
    Conns = {d1, d2}
    Free = Free
    MaxQueries = 2
SPECIFICATION PoolSpec
INVARIANTS
    NoConnectionLeaks
PROPERTIES
    QueriesAnswered
