----------------------------- MODULE PinBudget -----------------------------
(***************************************************************************)
(* The two budgets of PIN messages and the calls that spend them.          *)
(*                                                                         *)
(* Registration and password reset issue a PIN in the same way             *)
(* (issueVerificationCode of either service): a reservation on the         *)
(* address's budget, never given back; a reservation on the deployment's   *)
(* budget; the transaction that stores the code; the message.  The second  *)
(* reservation is given back when no message can have left.                *)
(*                                                                         *)
(* A budget is a rolling window kept in Redis as a sorted set, one member  *)
(* per admission, scored by the moment the calling host read from its own  *)
(* clock.  One script prunes, counts and records; a second removes one     *)
(* member.  Scripts are atomic.  Between a host and Redis, though, an      *)
(* answer may be lost, and the client library then runs the same script    *)
(* again with the same arguments.                                          *)
(*                                                                         *)
(* clock is the most advanced of the hosts' clocks.  A script runs within  *)
(* Lag of the moment its host read: latency, retries and the distance of   *)
(* that host's clock from the most advanced one together.  Left out: the   *)
(* wait a refused caller is told, the cooldown (see PasswordReset and      *)
(* Registration), and the rows of the issuing transaction.                 *)
(***************************************************************************)
EXTENDS Integers, FiniteSets

CONSTANTS
  Call,          \* calls of issueVerificationCode, one PIN each
  Email,         \* normalised addresses
  Application,   \* the one subject of the deployment's budget
  MaxPerEmail,   \* the address's maximum
  MaxGlobal,     \* the deployment's maximum
  Window,        \* length of both windows
  Lag,           \* see above
  MaxClock,      \* bound on the clock
  None

ASSUME ApplicationIsNoEmail == Application \notin Email
ASSUME PoliciesAreValid ==
  /\ MaxPerEmail \in Nat \ {0} /\ MaxGlobal \in Nat \ {0}
  /\ Window \in Nat \ {0}
ASSUME LagIsTime == Lag \in Nat /\ Lag < Window
ASSUME ClockIsBounded == MaxClock \in Nat
ASSUME NoneIsNone == None \notin Int /\ None \notin Email
ASSUME CallsAreFinite == IsFiniteSet(Call)

VARIABLES
  clock,
  window,   \* per subject: the members of its sorted set with their scores
  armed,    \* per subject: when its key's expiry was set, None for a key without
  calls

vars == <<clock, window, armed, calls>>

Subject == Email \cup {Application}
Time == 0 .. MaxClock
Entry == [call : Call, at : Time]
MaxOf(s) == IF s = Application THEN MaxGlobal ELSE MaxPerEmail

Reserving == {"address", "application"}
Phase == Reserving
           \cup {"idle", "issuing", "sending", "refunding", "mailed", "done"}

\* addressAt and applicationAt are the moments a reservation was first sent
\* with; lost says that an answer never reached the call.
CallRow == [phase : Phase, email : Email \cup {None},
            addressAt : Time \cup {None}, applicationAt : Time \cup {None},
            lost : BOOLEAN]

IdleCall == [phase |-> "idle", email |-> None, addressAt |-> None,
             applicationAt |-> None, lost |-> FALSE]

Init ==
  /\ clock = 0
  /\ window = [s \in Subject |-> {}]
  /\ armed = [s \in Subject |-> None]
  /\ calls = [c \in Call |-> IdleCall]

SubjectOf(c) == IF calls[c].phase = "address" THEN calls[c].email
                                              ELSE Application

\* The moment call c reserved on subject s.
At(c, s) == IF s = Application THEN calls[c].applicationAt
                               ELSE calls[c].addressAt

(***************************************************************************)
(* Redis.                                                                  *)
(***************************************************************************)

\* What the set of s still holds: nothing once its key has expired, a window
\* after the expiry was set.
Held(s) ==
  IF armed[s] # None /\ clock > armed[s] + Window THEN {} ELSE window[s]

Pruned(s, now) == {e \in Held(s) : e.at > now - Window}

Admitted(s, now) == Cardinality(Pruned(s, now)) < MaxOf(s)

\* Pruning happens whatever the decision; only an admission is recorded, and
\* recording a member twice changes nothing.
Recorded(c, s, now) ==
  IF Admitted(s, now) THEN Pruned(s, now) \cup {[call |-> c, at |-> now]}
                      ELSE Pruned(s, now)

\* The expiry is set before the member is added, so on a set that pruning has
\* emptied, or that does not exist, it is set on nothing: the key that the
\* admission then creates has none until the next script.
RunAdmission(c, now) ==
  LET s == SubjectOf(c) IN
  /\ window' = [window EXCEPT ![s] = Recorded(c, s, now)]
  /\ armed' = [armed EXCEPT ![s] = IF Pruned(s, now) = {} THEN None ELSE clock]

(***************************************************************************)
(* A call.                                                                 *)
(***************************************************************************)

\* The verification was read pending and cooled down, without a lock: any
\* number of calls may be here for one verification.
Begin(c, email) ==
  /\ calls[c].phase = "idle"
  /\ calls' = [calls EXCEPT ![c].phase = "address", ![c].email = email]
  /\ UNCHANGED <<clock, window, armed>>

\* The arguments of the script: read once, the same in every attempt.
Readings(c) ==
  {now \in Time :
     /\ clock - Lag <= now /\ now <= clock
     /\ At(c, SubjectOf(c)) \in {None, now}}

Sent(c, now) ==
  IF calls[c].phase = "address"
  THEN [calls EXCEPT ![c].addressAt = now]
  ELSE [calls EXCEPT ![c].applicationAt = now]

\* The call returns: what it knew is gone, but for the loss of an answer.
Ended(lost) == [IdleCall EXCEPT !.phase = "done", !.lost = lost]

\* An admitted reservation is followed by the other one, or by the issuance.
After(c) == IF calls[c].phase = "address" THEN "application" ELSE "issuing"

\* ReservePerEmail, then ReserveGlobal: the answer arrives.
Reserve(c, now) ==
  /\ calls[c].phase \in Reserving
  /\ now \in Readings(c)
  /\ RunAdmission(c, now)
  /\ calls' =
       IF ~Admitted(SubjectOf(c), now)
       THEN [calls EXCEPT ![c] = Ended(@.lost)]
       ELSE [Sent(c, now) EXCEPT ![c].phase = After(c)]
  /\ UNCHANGED clock

\* The script runs and its answer is lost: the client is free to run it again.
ReserveUnheard(c, now) ==
  /\ calls[c].phase \in Reserving
  /\ now \in Readings(c)
  /\ RunAdmission(c, now)
  /\ calls' = [Sent(c, now) EXCEPT ![c].lost = TRUE]
  /\ UNCHANGED clock

\* Faulty variant: forgets the refund when the transaction fails.
IssueForgetsRefund(c) ==
  /\ calls[c].phase = "issuing"
  /\ \E outcome \in {"sending", "done"} :
       calls' = [calls EXCEPT ![c].phase = outcome]
  /\ UNCHANGED <<clock, window, armed>>

\* The code is generated and stored, or one of the two fails.
Issue(c) ==
  /\ calls[c].phase = "issuing"
  /\ \E outcome \in {"sending", "refunding"} :
       calls' = [calls EXCEPT ![c].phase = outcome]
  /\ UNCHANGED <<clock, window, armed>>

\* Faulty variant: gives back the place of a message that failed after an attempt.
DeliverRefundsFailures(c) ==
  /\ calls[c].phase = "sending"
  /\ \E outcome \in {"mailed", "refunding"} :
       calls' = [calls EXCEPT ![c].phase = outcome]
  /\ \E keep \in BOOLEAN :
       window' = [window EXCEPT ![Application] =
                    IF keep THEN @ ELSE {e \in @ : e.call # c}]
  /\ UNCHANGED <<clock, armed>>

\* Deliver: the sender tried, whatever came of it, or says that it did not.
Deliver(c) ==
  /\ calls[c].phase = "sending"
  /\ \E outcome \in {"mailed", "refunding"} :
       calls' = [calls EXCEPT ![c].phase = outcome]
  /\ UNCHANGED <<clock, window, armed>>

\* Faulty variant: gives back the oldest place instead of the call's own.
RefundOldest(c) ==
  /\ calls[c].phase = "refunding"
  /\ window' = [window EXCEPT ![Application] =
                  {e \in window[Application] :
                     \E f \in window[Application] : f.at < e.at}]
  /\ calls' = [calls EXCEPT ![c] = Ended(@.lost)]
  /\ UNCHANGED <<clock, armed>>

Refund(c) ==
  /\ calls[c].phase = "refunding"
  /\ window' = [window EXCEPT ![Application] = {e \in @ : e.call # c}]
  /\ calls' = [calls EXCEPT ![c] = Ended(@.lost)]
  /\ UNCHANGED <<clock, armed>>

\* The process stops, the request is cancelled, or an answer is lost for good:
\* a limiter that cannot answer is a refusal, and a refund that fails is
\* dropped.
Abandon(c) ==
  /\ calls[c].phase \in Reserving \cup {"issuing", "sending", "refunding"}
  /\ calls' = [calls EXCEPT ![c] = Ended(TRUE)]
  /\ UNCHANGED <<clock, window, armed>>

Tick ==
  /\ clock < MaxClock
  /\ clock' = clock + 1
  /\ UNCHANGED <<window, armed, calls>>

Next ==
  \/ Tick
  \/ \E c \in Call :
       \/ \E email \in Email : Begin(c, email)
       \/ \E now \in Time : Reserve(c, now) \/ ReserveUnheard(c, now)
       \/ Issue(c)
       \/ Deliver(c)
       \/ Refund(c)
       \/ Abandon(c)

Spec == Init /\ [][Next]_vars

-----------------------------------------------------------------------------
(***************************************************************************)
(* Properties.                                                             *)
(***************************************************************************)

\* Every variable keeps its type, and no set outgrows its maximum.
TypeOK ==
  /\ clock \in Time
  /\ window \in [Subject -> SUBSET Entry]
  /\ armed \in [Subject -> Time \cup {None}]
  /\ calls \in [Call -> CallRow]
  /\ \A s \in Subject : Cardinality(window[s]) <= MaxOf(s)

\* The calls that hold, or have used, a reservation on s.
Charged(s) ==
  {c \in Call :
     IF s = Application
     THEN calls[c].phase \in {"issuing", "sending", "mailed"}
     ELSE /\ calls[c].email = s
          /\ calls[c].phase \in
               {"application", "issuing", "sending", "refunding", "mailed"}}

\* The mailed calls of s whose reservations fall in the Window - Lag moments
\* from "from" on.
MailedFrom(s, from) ==
  {c \in Charged(s) : /\ calls[c].phase = "mailed"
                      /\ from <= At(c, s)
                      /\ At(c, s) < from + Window - Lag}

\* However reservations, refunds, expiries, lost answers and repeated scripts
\* interleave, any stretch of Window - Lag holds reservations of at most the
\* maximum number of messages: to one address, and of the deployment.  The
\* stretch is shorter than the window by Lag because a script prunes by its own
\* host's clock: one that read earlier and runs later no longer sees what a
\* younger reading has pruned.
MailStaysInBudget ==
  \A s \in Subject : \A from \in Time :
    Cardinality(MailedFrom(s, from)) <= MaxOf(s)

\* A message that may have left keeps its place until it is a window old: no
\* refund, of any call, and no expiry of the key takes it away before.
MailKeepsItsPlace ==
  \A s \in Subject : \A c \in Charged(s) :
    (calls[c].phase = "mailed" /\ At(c, s) > clock - Window) =>
      [call |-> c, at |-> At(c, s)] \in Held(s)

\* A call that ended without sending anything holds no place in the
\* deployment's budget, unless an answer was lost on the way.
UnsentIsGivenBack ==
  \A e \in window[Application] :
    calls[e.call].phase = "done" => calls[e.call].lost

\* A member leaves a set only when it is a window old, or when its own call
\* gives it back before any message was sent.
EntriesLeaveForCause ==
  [][\A s \in Subject : \A e \in window[s] \ window'[s] :
       \/ e.at <= clock - Window
       \/ s = Application /\ calls[e.call].phase = "refunding"]_vars

=============================================================================
