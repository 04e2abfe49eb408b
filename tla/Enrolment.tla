------------------------------ MODULE Enrolment -----------------------------
(***************************************************************************)
(* What registration promises the owner of one address, without            *)
(* transactions, requests or locks: one registration at a time, which      *)
(* gives way to another one only for a reason; a right to finish it, which *)
(* is earned once and can be won back by a recovery; and one account.      *)
(* The PINs are left out: Recovery has them.                               *)
(***************************************************************************)
EXTENDS Naturals

CONSTANTS Registration, Identity, None, Lifetime, RightLifetime

VARIABLES
    now,
    standing,   \* "unborn", "pending", "expired" or "completed", per registration
    owner,      \* the provider identity it is for, None for a manual one
    deadline,   \* when its time is over
    right,      \* to finish it: "none" yet, "usable" or "consumed"
    limit,      \* until when the right can be used
    recovering, \* whether its owner has asked for the right once more
    account     \* the registration that became the account

enrolmentVars ==
    << now, standing, owner, deadline, right, limit, recovering, account >>

EnrolmentInit ==
    /\ now = 0
    /\ standing = [r \in Registration |-> "unborn"]
    /\ owner = [r \in Registration |-> None]
    /\ deadline = [r \in Registration |-> 0]
    /\ right = [r \in Registration |-> "none"]
    /\ limit = [r \in Registration |-> 0]
    /\ recovering = [r \in Registration |-> FALSE]
    /\ account = None

TimePasses ==
    /\ now' = now + 1
    /\ UNCHANGED << standing, owner, deadline, right, limit, recovering, account >>

\* A new registration takes the place of those of old, in the same step.
Begins(r, i, old, earned) ==
    /\ standing[r] = "unborn"
    /\ standing' = [q \in Registration |->
          IF q = r THEN "pending" ELSE IF q \in old THEN "expired" ELSE standing[q]]
    /\ owner' = [owner EXCEPT ![r] = i]
    /\ right' = [right EXCEPT ![r] = earned]
    /\ \E d \in 0 .. now + Lifetime : deadline' = [deadline EXCEPT ![r] = d]
    /\ \E l \in 0 .. now + RightLifetime : limit' = [limit EXCEPT ![r] = l]
    /\ UNCHANGED << now, account >>

Entered(r, i) ==
    /\ \A q \in Registration : standing[q] \notin {"pending", "completed"}
    /\ Begins(r, i, {}, "none")
    /\ UNCHANGED recovering

\* Its time is over; or the newcomer registers the other way; or it is for the
\* same owner, whose address was verified, and who, with no provider to vouch for
\* him, can do nothing with it any more.
GivesWay(q, i) ==
    \/ deadline[q] <= now
    \/ owner[q] = None /\ i # None
    \/ owner[q] # None /\ i = None
    \/ /\ owner[q] = i
       /\ right[q] # "none"
       /\ i = None => limit[q] <= now /\ ~recovering[q]

Replaced(q, r, i) ==
    /\ standing[q] = "pending"
    /\ GivesWay(q, i)
    /\ Begins(r, i, {q}, "none")
    /\ UNCHANGED recovering

\* The address is verified. Nobody asks whether the registration is still pending.
Earned(r) ==
    /\ standing[r] # "unborn"
    /\ right[r] = "none"
    /\ right' = [right EXCEPT ![r] = "usable"]
    /\ \E l \in 0 .. now + RightLifetime : limit' = [limit EXCEPT ![r] = l]
    /\ UNCHANGED << now, standing, owner, deadline, recovering, account >>

RecoveryOpened(r) ==
    /\ standing[r] = "pending"
    /\ owner[r] = None
    /\ right[r] # "none"
    /\ ~recovering[r]
    /\ recovering' = [recovering EXCEPT ![r] = TRUE]
    /\ UNCHANGED << now, standing, owner, deadline, right, limit, account >>

\* The address is verified again, and the right goes to a registration that takes
\* the place of the one whose right was lost.
Recovered(q, r) ==
    /\ standing[q] = "pending"
    /\ owner[q] = None
    /\ right[q] # "none"
    /\ recovering[q]
    /\ Begins(r, None, {q}, "usable")
    /\ recovering' = [recovering EXCEPT ![q] = FALSE]

Completed(r) ==
    /\ standing[r] = "pending"
    /\ right[r] = "usable"
    /\ account = None
    /\ account' = r
    /\ standing' = [standing EXCEPT ![r] = "completed"]
    /\ right' = [right EXCEPT ![r] = "consumed"]
    /\ UNCHANGED << now, owner, deadline, limit, recovering >>

EnrolmentNext ==
    \/ TimePasses
    \/ \E r \in Registration, i \in Identity \cup {None} : Entered(r, i)
    \/ \E q, r \in Registration, i \in Identity \cup {None} : Replaced(q, r, i)
    \/ \E q, r \in Registration : Recovered(q, r)
    \/ \E r \in Registration : Earned(r) \/ RecoveryOpened(r) \/ Completed(r)

EnrolmentSpec == EnrolmentInit /\ [][EnrolmentNext]_enrolmentVars
=============================================================================
