------------------------------ MODULE MCSignIn ------------------------------
EXTENDS SignIn, TLC

Symmetry ==
  Permutations(Call) \cup Permutations(Subject) \cup Permutations(Confirmation)
    \cup Permutations(Session) \cup Permutations(Hash)
=============================================================================
