SPECIFICATION Spec
CONSTANTS
    User = {u1}
    SessionId = {s1}
    TokenId = {t1, t2, t3}
    Request = {r1, r2}
    Resetter = {p1}
    Cleaner = {c1}
    Free = Free
    NoToken = NoToken
    AbsoluteLifetime = 2
    IdleLifetime = 1
    BatchSize = 1
    MaxBatches = 1
    MaxClock = 2
    u1 = u1
    s1 = s1
    t1 = t1
    t2 = t2
    t3 = t3
    r1 = r1
    r2 = r2
    p1 = p1
    c1 = c1
SYMMETRY Symmetry
INVARIANTS OneCredentialPerSession DecisionStands
PROPERTIES ImplementsAuthority ActivityNeverRewinds ReuseEndsTheSession
CHECK_DEADLOCK FALSE
