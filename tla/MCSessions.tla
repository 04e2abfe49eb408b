----------------------------- MODULE MCSessions -----------------------------
(***************************************************************************)
(* Instances of Sessions for TLC.  All identities are interchangeable; the *)
(* symmetry set is used by the safety runs only.                           *)
(***************************************************************************)
EXTENDS Sessions, TLC

Symmetry ==
    Permutations(User) \cup Permutations(SessionId) \cup Permutations(TokenId)
        \cup Permutations(Request) \cup Permutations(Resetter)
        \cup Permutations(Cleaner)
=============================================================================
