SPECIFICATION Spec
CONSTANTS
    Call = {c1,c2,c3}
    Email = {m1,m2}
    Application = application
    MaxPerEmail = 1
    MaxGlobal = 1
    Window = 3
    Lag = 1
    MaxClock = 5
    None = None
    c1 = c1
    c2 = c2
    c3 = c3
    m1 = m1
    m2 = m2
SYMMETRY Symmetry
INVARIANTS MailStaysInBudget MailKeepsItsPlace UnsentIsGivenBack
CHECK_DEADLOCK FALSE
