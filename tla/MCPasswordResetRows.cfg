SPECIFICATION Spec
CONSTANTS
    Reset = {q1, q2}
    Code = {k1, k2}
    Token = {t1, t2}
    Call = {c1, c2, c3}
    None = None
    MaxAttempts = 1
    Cooldown = 1
    ResetLifetime = 1
    CodeLifetime = 1
    TokenLifetime = 2
    MaxClock = 1
    q1 = q1
    q2 = q2
    k1 = k1
    k2 = k2
    t1 = t1
    t2 = t2
    c1 = c1
    c2 = c2
    c3 = c3
SYMMETRY Symmetry
INVARIANTS OneOfEach VerifiedOnce DeadlocksAreOpenVsVerify
PROPERTIES ReplacedCodeIsDead ResetEndsOnce 
CHECK_DEADLOCK FALSE
