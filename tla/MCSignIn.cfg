SPECIFICATION Spec
CONSTANTS
  Call = {c1, c2}
  User = {u1}
  Subject = {g1, g2}
  Confirmation = {k1, k2}
  Session = {s1, s2}
  Hash = {h1, h2, h3}
  LoginEmailFailureLimit = 1
  MaxWindows = 1
  MaxCharges = 2
  MaxAstray = 1
  None = None
  c1 = c1
  c2 = c2
  g1 = g1
  g2 = g2
  k1 = k1
  k2 = k2
  s1 = s1
  s2 = s2
  h1 = h1
  h2 = h2
  h3 = h3
SYMMETRY Symmetry
INVARIANTS LinksAreEarned GuessesAreBounded
PROPERTIES ChangeReplacesWhatItVerified EvictionComesWithTheChange
CHECK_DEADLOCK FALSE
