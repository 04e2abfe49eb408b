SPECIFICATION FairSpec
CONSTANTS
    User = {u1}
    SessionId = {s1}
    TokenId = {t1, t2}
    Request = {r1, r2}
    Resetter = {p1}
    Cleaner = {c1}
    Free = Free
    NoToken = NoToken
    AbsoluteLifetime = 0
    IdleLifetime = 1
    BatchSize = 1
    MaxBatches = 2
    MaxClock = 0
    u1 = u1
    s1 = s1
    t1 = t1
    t2 = t2
    r1 = r1
    r2 = r2
    p1 = p1
    c1 = c1
PROPERTIES TransactionsEnd
CHECK_DEADLOCK FALSE
