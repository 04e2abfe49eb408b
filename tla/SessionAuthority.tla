-------------------------- MODULE SessionAuthority --------------------------
(***************************************************************************)
(* What sessions and refresh tokens promise, without transactions or       *)
(* locks: an open session has exactly one credential, using it replaces it *)
(* by one never seen before in a single atomic step, and a session that    *)
(* was closed (revoked or deleted) stays closed.                           *)
(***************************************************************************)
CONSTANTS SessionId, TokenId, NoToken

VARIABLES
    standing,       \* "unborn", "open" or "closed", per session
    credential,     \* the one token an open session accepts
    used            \* every token ever issued

authorityVars == << standing, credential, used >>

AuthorityInit ==
    /\ standing = [s \in SessionId |-> "unborn"]
    /\ credential = [s \in SessionId |-> NoToken]
    /\ used = {}

Open(s, t) ==
    /\ standing[s] = "unborn"
    /\ t \notin used
    /\ standing' = [standing EXCEPT ![s] = "open"]
    /\ credential' = [credential EXCEPT ![s] = t]
    /\ used' = used \cup {t}

Rotate(s, new) ==
    /\ standing[s] = "open"
    /\ new \notin used
    /\ credential' = [credential EXCEPT ![s] = new]
    /\ used' = used \cup {new}
    /\ UNCHANGED standing

\* A revoke-all or a cleanup batch closes several sessions in one commit.
Close(S) ==
    /\ \A s \in S : standing[s] = "open"
    /\ standing' = [s \in SessionId |-> IF s \in S THEN "closed" ELSE standing[s]]
    /\ credential' = [s \in SessionId |-> IF s \in S THEN NoToken ELSE credential[s]]
    /\ UNCHANGED used

AuthorityNext ==
    \/ \E s \in SessionId, t \in TokenId : Open(s, t) \/ Rotate(s, t)
    \/ \E S \in SUBSET SessionId : Close(S)

AuthoritySpec == AuthorityInit /\ [][AuthorityNext]_authorityVars
=============================================================================
