SPECIFICATION MCSpec
CONSTANTS
    Sides = {"sessions", "limiter"}
    s1 = s1
    s2 = s2
    t1 = t1
    t2 = t2
    t3 = t3
    c1 = c1
    c2 = c2
    Sessions = {s1, s2}
    Turns = {t1, t2, t3}
    SessionOf <- MCSessionOf
    MaxHistory = 5
    MaxSessions = 1
    MaxIterations = 2
    MaxCalls = 1
    NoTurn = NoTurn
    Clients = {c1, c2}
    Capacity = 2
    Refill = 2
    Idle = 4
    MaxNow = 6
    None = None
SYMMETRY MCSymmetry
INVARIANTS
    TypeOK
    CutOnlyAtFront
    TurnsAreKept
    DeletedIsForgotten
    LimiterTypeOK
    WindowBound
PROPERTIES
    WindowSpec
