-------------------------- MODULE MCPasswordReset ---------------------------
(* PasswordReset with a few interchangeable rows and requests.             *)
EXTENDS PasswordReset, TLC

Symmetry ==
    Permutations(Reset) \cup Permutations(Code) \cup Permutations(Token)
        \cup Permutations(Call)
=============================================================================
