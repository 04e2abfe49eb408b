--------------------------- MODULE MCRegistration ---------------------------
(* Registration with interchangeable opening requests.                     *)
EXTENDS Registration, TLC

Symmetry == Permutations(Opener)
=============================================================================
