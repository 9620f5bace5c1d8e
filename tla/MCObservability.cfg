CONSTANTS
    get = get
    post = post
    p1 = p1
    p2 = p2
    r1 = r1
    Conns = {c1, c2}
    Methods = {get, post}
    Paths = {p1, p2}
    Routes = {r1}
    Route <- RouteOf
    NoPattern = NoPattern
    Errors = {400, 503}
    MaxServed = 3
SPECIFICATION Spec
CHECK_DEADLOCK FALSE
INVARIANTS
    NoFailureHidden
    ScrapesAgree
