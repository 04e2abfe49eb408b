SPECIFICATION Spec
CONSTANTS
    Registration = {r1, r2}
    Request = {v1, v2, v3}
    Code = {k1, k2}
    Identity = {g1}
    Opener = {o1, o2}
    Issuer = {i1}
    Verifier = {x1}
    Finalizer = {f1}
    None = None
    Cooldown = 0
    RegistrationLifetime = 1
    CodeLifetime = 1
    ContinuationLifetime = 1
    MaxClock = 2
    MaxCalls = 2
    r1 = r1
    r2 = r2
    v1 = v1
    v2 = v2
    v3 = v3
    k1 = k1
    k2 = k2
    g1 = g1
    o1 = o1
    o2 = o2
    i1 = i1
    x1 = x1
    f1 = f1
SYMMETRY Symmetry
INVARIANTS OneOfEach RegistrationsAreReachable DeadlocksAreOpenVsVerify
PROPERTIES RetirementIsJustified ImplementsEnrolment
CHECK_DEADLOCK FALSE
