------------------------------ MODULE Recovery ------------------------------
(***************************************************************************)
(* What password reset promises the owner of one account, without          *)
(* transactions, locks or retries: one reset at a time, replaced only when *)
(* its time is over; one PIN that opens it, the last that was sent; one    *)
(* grant per reset; and a password that only a grant can change.  The PIN  *)
(* and the grant count for those who present them in time.                 *)
(***************************************************************************)
EXTENDS Naturals

CONSTANTS Reset, Code, Token, None, Lifetime, PinLifetime, GrantLifetime

VARIABLES
    now,
    standing,   \* "unborn", "pending", "expired" or "completed", per reset
    deadline,   \* when a reset's time is over
    pin,        \* the one code that verifies a reset
    issued,     \* every code there ever was
    runsOut,    \* when a code's time is over
    presented,  \* codes somebody has entered, in time
    sent,       \* when the last code was sent, as the cooldown reads it
    grant,      \* the continuation a reset has earned
    lapse,      \* when that grant's time is over
    trying,     \* resets somebody set out to complete, in time
    password    \* the continuation that wrote the password

recoveryVars ==
    << now, standing, deadline, pin, issued, runsOut, presented, sent, grant, lapse,
       trying, password >>

RecoveryInit ==
    /\ now = 0
    /\ standing = [r \in Reset |-> "unborn"]
    /\ deadline = [r \in Reset |-> 0]
    /\ pin = [r \in Reset |-> None]
    /\ issued = {}
    /\ runsOut = [k \in Code |-> 0]
    /\ presented = {}
    /\ sent = [r \in Reset |-> None]
    /\ grant = [r \in Reset |-> None]
    /\ lapse = [r \in Reset |-> 0]
    /\ trying = {}
    /\ password = None

TimePasses ==
    /\ now' = now + 1
    /\ UNCHANGED << standing, deadline, pin, issued, runsOut, presented, sent, grant, lapse,
                    trying, password >>

\* A reset takes the place of one whose time is over, in the same step.
Opened(r) ==
    /\ standing[r] = "unborn"
    /\ \A q \in Reset : standing[q] = "pending" => deadline[q] <= now
    /\ standing' = [q \in Reset |->
          IF q = r THEN "pending"
          ELSE IF standing[q] = "pending" THEN "expired" ELSE standing[q]]
    /\ \E d \in 0 .. now + Lifetime : deadline' = [deadline EXCEPT ![r] = d]
    /\ UNCHANGED << now, pin, issued, runsOut, presented, sent, grant, lapse, trying,
                    password >>

\* A new code takes the place of the one before it. Until the reset is granted,
\* the cooldown is never moved back.
Sent(r, k) ==
    /\ standing[r] # "unborn"
    /\ k \notin issued
    /\ pin' = [pin EXCEPT ![r] = k]
    /\ issued' = issued \cup {k}
    /\ \E at \in 0 .. now :
          /\ grant[r] = None /\ sent[r] # None => sent[r] <= at
          /\ sent' = [sent EXCEPT ![r] = at]
    /\ \E d \in 0 .. now + PinLifetime : runsOut' = [runsOut EXCEPT ![k] = d]
    /\ UNCHANGED << now, standing, deadline, presented, grant, lapse, trying, password >>

\* The code opens the reset once, for somebody who entered it in time, and is used up.
Granted(r, t) ==
    /\ standing[r] # "unborn"
    /\ pin[r] \in presented
    /\ grant[r] = None
    /\ \A q \in Reset : grant[q] # t
    /\ grant' = [grant EXCEPT ![r] = t]
    /\ pin' = [pin EXCEPT ![r] = None]
    /\ \E d \in 0 .. now + GrantLifetime : lapse' = [lapse EXCEPT ![r] = d]
    /\ presented' \in {presented, presented \ {pin[r]}}
    /\ UNCHANGED << now, standing, deadline, issued, runsOut, sent, trying, password >>

InTime(r) == grant[r] # None /\ now < deadline[r] /\ now < lapse[r]

\* Before their time is over somebody enters a code, or sets out to complete a reset
\* that is granted; others give up.
Tried ==
    /\ presented' \in SUBSET (presented \cup {k \in issued : now < runsOut[k]})
    /\ trying' \in SUBSET (trying \cup {r \in Reset : InTime(r)})
    /\ UNCHANGED << now, standing, deadline, pin, issued, runsOut, sent, grant, lapse,
                    password >>

\* What was granted writes the password, if the reset is still pending and this was
\* begun in time, and that completes it.
Completed(r) ==
    /\ standing[r] = "pending"
    /\ grant[r] # None
    /\ r \in trying
    /\ password' = grant[r]
    /\ standing' = [standing EXCEPT ![r] = "completed"]
    /\ trying' \in {trying, trying \ {r}}
    /\ UNCHANGED << now, deadline, pin, issued, runsOut, presented, sent, grant, lapse >>

RecoveryNext ==
    \/ TimePasses \/ Tried
    \/ \E r \in Reset : Opened(r) \/ Completed(r)
    \/ \E r \in Reset, k \in Code : Sent(r, k)
    \/ \E r \in Reset, t \in Token : Granted(r, t)

RecoverySpec == RecoveryInit /\ [][RecoveryNext]_recoveryVars
=============================================================================
