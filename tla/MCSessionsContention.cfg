SPECIFICATION Spec
CONSTANTS
    User = {u1}
    SessionId = {s1, s2}
    TokenId = {t1, t2}
    Request = {r1, r2}
    Resetter = {p1, p2}
    Cleaner = {c1}
    Free = Free
    NoToken = NoToken
    AbsoluteLifetime = 3
    IdleLifetime = 1
    BatchSize = 1
    MaxBatches = 2
    MaxClock = 2
    u1 = u1
    s1 = s1
    s2 = s2
    t1 = t1
    t2 = t2
    r1 = r1
    r2 = r2
    p1 = p1
    p2 = p2
    c1 = c1
SYMMETRY Symmetry
INVARIANTS DeadlocksAreRefreshVsCleanup
PROPERTIES DeadStaysDead ResetCoversWhatItSaw
CHECK_DEADLOCK FALSE
