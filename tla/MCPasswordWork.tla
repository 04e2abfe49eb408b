--------------------------- MODULE MCPasswordWork ---------------------------
(* PasswordWork with a few interchangeable callers.                        *)
EXTENDS PasswordWork, TLC

Symmetry == Permutations(Caller)
=============================================================================
