------------------------------- MODULE SignIn -------------------------------
(***************************************************************************)
(* The ways into an account and the requests that change them: sign-in     *)
(* with a password under its failure budget, sign-in with Google, linking  *)
(* a Google identity to an existing account, setting and changing a        *)
(* password, and the last transaction of a password reset.                 *)
(*                                                                         *)
(* A step of a call is one statement or one Redis script together with the *)
(* computation around it: hashing and verifying a password or a token      *)
(* touch nothing shared.  The transactions (READ COMMITTED) are those of   *)
(* ConfirmAccountLink, SetPasswordAndRevokeOtherSessions and the reset;    *)
(* their writes are applied by the commit, and until then the rows they    *)
(* wrote are locked.  Row locks are read off the calls' states.            *)
(*                                                                         *)
(* A submitted password matches the hash that was read, or does not; every *)
(* derived hash is new, its salt being random.  A token proves a subject   *)
(* and asserts an address.  An account's address never changes.            *)
(*                                                                         *)
(* Left out: registration itself (module Registration), the refresh of     *)
(* sessions (Sessions), the wait for password work (PasswordWork), the     *)
(* budgets per client address, profiles.                                   *)
(***************************************************************************)
EXTENDS Integers

CONSTANTS
  Call,           \* concurrent requests, any number each
  User, Subject,  \* accounts; Google identities
  Confirmation, Session, Hash,   \* row identities and derived hashes
  LoginEmailFailureLimit,
  MaxWindows,     \* bound on the failure windows of an address
  MaxCharges,     \* bound on the counter of one window
  MaxAstray,      \* bound on the releases that go astray in one window
  None

ASSUME LimitIsPositive == LoginEmailFailureLimit \in Nat \ {0}
ASSUME BoundsAreNumbers == {MaxWindows, MaxCharges, MaxAstray} \subseteq Nat
ASSUME NoneIsNone ==
  None \notin Int \cup Call \cup User \cup Subject \cup Confirmation \cup Session
                \cup Hash \cup [user : User, via : Confirmation, by : Subject]

VARIABLES
  password,      \* password_credentials: the hash of each account, None for no row
  identity,      \* auth_identities by subject
  confirmation,  \* account_link_confirmations
  session,       \* sessions
  window,        \* per address: the counter of its failed sign-ins in Redis
  call           \* the requests

vars == <<password, identity, confirmation, session, window, call>>

\* via and by are history: the confirmation that authorised the link and the
\* subject of the token it was redeemed with.
Identity == [user : User, via : Confirmation, by : Subject]

ConfirmationRow ==
  [state : {"unborn", "active", "expired", "confirmed"},
   user : User \cup {None}, subject : Subject \cup {None}]

SessionRow == [state : {"unborn", "open", "revoked"}, user : User \cup {None}]

\* no numbers the windows of an address.  spent and astray are history: the
\* admitted attempts of this window that were not given back, and the releases
\* that reached this window without one of its attempts behind them.
WindowRow ==
  [count : 0 .. MaxCharges, no : 0 .. MaxWindows,
   spent : 0 .. LoginEmailFailureLimit + MaxAstray, astray : 0 .. MaxAstray]

PC == {"idle", "read", "release", "again", "session",          \* password sign-in
       "find", "match", "check", "lock", "link",      \* Google
       "load", "insert", "update", "rewrite",         \* setting a password
       "revoke", "commit"}

CallRow ==
  [pc : PC, user : User \cup {None}, subject : Subject \cup {None},
   confirmation : Confirmation \cup {None}, window : 0 .. MaxWindows,
   old : Hash \cup {None}, new : Hash \cup {None},
   own : Session \cup {None}, scan : SUBSET Session]

Idle == [pc |-> "idle", user |-> None, subject |-> None, confirmation |-> None,
         window |-> 0, old |-> None, new |-> None, own |-> None, scan |-> {}]

\* An account made by registration has a password, or none when it was social.
Init ==
  /\ password \in [User -> Hash \cup {None}]
  /\ identity = [g \in Subject |-> None]
  /\ confirmation = [k \in Confirmation |->
       [state |-> "unborn", user |-> None, subject |-> None]]
  /\ session = [s \in Session |-> [state |-> "unborn", user |-> None]]
  /\ window = [u \in User |-> [count |-> 0, no |-> 0, spent |-> 0, astray |-> 0]]
  /\ call = [c \in Call |-> Idle]

Begin(c, row) == call[c].pc = "idle" /\ call' = [call EXCEPT ![c] = row]
Goto(c, pc) == call' = [call EXCEPT ![c].pc = pc]
End(c) == call' = [call EXCEPT ![c] = Idle]

\* A hash nobody else has or will derive.
Fresh(h) ==
  /\ \A u \in User : password[u] # h
  /\ \A c \in Call : call[c].old # h /\ call[c].new # h

SessionsOf(u) == {s \in Session : session[s].state = "open" /\ session[s].user = u}

---------------------------------------------------------------------------
(* Row locks.                                                              *)

\* FOR UPDATE of the confirmation joined with its account.
Linking(c) == call[c].pc \in {"link", "commit"} /\ call[c].confirmation # None
HoldsUser(c, u) == Linking(c) /\ call[c].user = u

\* The credential's row, or its key while the reset inserts it.
HoldsPassword(c, u) ==
  /\ call[c].pc \in {"revoke", "commit"} /\ call[c].new # None
  /\ call[c].user = u

UserFree(u) == \A c \in Call : ~HoldsUser(c, u)
PasswordFree(u) == \A c \in Call : ~HoldsPassword(c, u)

\* The foreign key of a row that is being inserted takes KEY SHARE on the account.
InsertsPassword(c, u) == HoldsPassword(c, u) /\ password[u] = None

---------------------------------------------------------------------------
(* The failure budget: Allow and Release of the fixed-window limiter.      *)

\* EXPIRE was set by the first charge and is never moved.
WindowEnds(u) ==
  /\ window[u].count > 0 \/ window[u].spent > 0
  /\ window[u].no < MaxWindows
  /\ window' = [window EXCEPT ![u] =
       [count |-> 0, no |-> @.no + 1, spent |-> 0, astray |-> 0]]
  /\ UNCHANGED <<password, identity, confirmation, session, call>>

\* A charge whose answer was lost, with a new attempt of the client library or
\* without one, or one that is refused, is counted all the same.
Counted(u, admitted) ==
  /\ window[u].count < MaxCharges
  /\ window' = [window EXCEPT ![u].count = @ + 1,
                              ![u].spent = IF admitted THEN @ + 1 ELSE @]

ChargeInVain(u) ==
  /\ Counted(u, FALSE)
  /\ UNCHANGED <<password, identity, confirmation, session, call>>

\* The budget is compared before the charge, by a call of its own.
ChargeUnlimited(c, u) ==
  /\ Counted(u, TRUE)
  /\ window[u].count <= LoginEmailFailureLimit
  /\ Begin(c, [Idle EXCEPT !.pc = "read", !.user = u, !.window = window[u].no])
  /\ UNCHANGED <<password, identity, confirmation, session>>

Charge(c, u) ==
  /\ Counted(u, TRUE)
  /\ window[u].count < LoginEmailFailureLimit
  /\ Begin(c, [Idle EXCEPT !.pc = "read", !.user = u, !.window = window[u].no])
  /\ UNCHANGED <<password, identity, confirmation, session>>

\* No row, no match, no capacity: the charge stays.  Otherwise it is released.
ReadPassword(c) ==
  /\ call[c].pc = "read"
  /\ \/ password[call[c].user] # None /\ Goto(c, "release")
     \/ End(c)
  /\ UNCHANGED <<password, identity, confirmation, session, window>>

\* The counter never falls below zero, and a missing one stays missing.
GivenBack(c) ==
  LET u == call[c].user
      mine == call[c].pc = "release" /\ window[u].no = call[c].window
  IN  IF window[u].count = 0 THEN UNCHANGED window
      ELSE /\ mine \/ window[u].astray < MaxAstray
           /\ window' = [window EXCEPT ![u].count = @ - 1,
                                       ![u].spent = IF mine THEN @ - 1 ELSE @,
                                       ![u].astray = IF mine THEN @ ELSE @ + 1]

\* The error of a release is not looked at.
Release(c) ==
  /\ call[c].pc \in {"release", "again"}
  /\ GivenBack(c) \/ UNCHANGED window
  /\ Goto(c, "session")
  /\ UNCHANGED <<password, identity, confirmation, session>>

\* The script ran, its answer was lost and the client library sends it again.
ReleaseUnheard(c) ==
  /\ call[c].pc = "release"
  /\ GivenBack(c)
  /\ Goto(c, "again")
  /\ UNCHANGED <<password, identity, confirmation, session>>

---------------------------------------------------------------------------
(* Sessions.  The insert's foreign key waits for a link that holds the row. *)

CreateSession(c, s) ==
  /\ call[c].pc = "session"
  /\ UserFree(call[c].user)
  /\ session[s].state = "unborn"
  /\ session' = [session EXCEPT ![s] = [state |-> "open", user |-> call[c].user]]
  /\ End(c)
  /\ UNCHANGED <<password, identity, confirmation, window>>

\* Logout, a reused refresh token, expiry.
SessionEnds(s) ==
  /\ session[s].state = "open"
  /\ session' = [session EXCEPT ![s].state = "revoked"]
  /\ UNCHANGED <<password, identity, confirmation, window, call>>

---------------------------------------------------------------------------
(* Google.                                                                 *)

BeginGoogle(c, g) ==
  /\ Begin(c, [Idle EXCEPT !.pc = "find", !.subject = g])
  /\ UNCHANGED <<password, identity, confirmation, session, window>>

FindIdentity(c) ==
  /\ call[c].pc = "find"
  /\ LET found == identity[call[c].subject] IN
       IF found # None
         THEN call' = [call EXCEPT ![c].pc = "session", ![c].user = found.user]
         ELSE Goto(c, "match")
  /\ UNCHANGED <<password, identity, confirmation, session, window>>

\* The asserted address is an account's: a confirmation is opened, whatever
\* others there are.  Otherwise registration takes over.
MatchAddress(c) ==
  /\ call[c].pc = "match"
  /\ \/ \E u \in User, k \in Confirmation :
          /\ confirmation[k].state = "unborn"
          /\ UserFree(u)
          /\ confirmation' = [confirmation EXCEPT ![k] =
               [state |-> "active", user |-> u, subject |-> call[c].subject]]
     \/ UNCHANGED confirmation
  /\ End(c)
  /\ UNCHANGED <<password, identity, session, window>>

ConfirmationExpires(k) ==
  /\ confirmation[k].state = "active"
  /\ confirmation' = [confirmation EXCEPT ![k].state = "expired"]
  /\ UNCHANGED <<password, identity, session, window, call>>

BeginConfirm(c, g, k) ==
  /\ Begin(c, [Idle EXCEPT !.pc = "check", !.subject = g, !.confirmation = k])
  /\ UNCHANGED <<password, identity, confirmation, session, window>>

\* The confirmation named in the path is taken at its word.
CheckNothing(c) ==
  /\ call[c].pc = "check"
  /\ IF confirmation[call[c].confirmation].state = "active"
       THEN Goto(c, "lock") ELSE End(c)
  /\ UNCHANGED <<password, identity, confirmation, session, window>>

\* An unlocked read: only columns that never change are decided on here.
CheckConfirmation(c) ==
  /\ call[c].pc = "check"
  /\ LET k == confirmation[call[c].confirmation] IN
       IF k.state = "active" /\ k.subject = call[c].subject
         THEN Goto(c, "lock") ELSE End(c)
  /\ UNCHANGED <<password, identity, confirmation, session, window>>

\* NOW() is the beginning of the transaction, so one whose confirmation expired
\* while it waited may still find it active.  A row that changed during the wait
\* is compared again.
LockConfirmation(c) ==
  /\ call[c].pc = "lock"
  /\ LET k == confirmation[call[c].confirmation] IN
       /\ \A d \in Call : ~(Linking(d) /\ call[d].confirmation = call[c].confirmation)
       /\ \/ /\ k.state \in {"active", "expired"}
             /\ UserFree(k.user)
             /\ \A d \in Call : ~InsertsPassword(d, k.user)
             /\ call' = [call EXCEPT ![c].pc = "link", ![c].user = k.user]
          \/ /\ k.state \in {"expired", "confirmed"}
             /\ End(c)
  /\ UNCHANGED <<password, identity, confirmation, session, window>>

\* Another call of the same subject has inserted and not yet committed.
Claimed(c) ==
  \E d \in Call \ {c} :
    Linking(d) /\ call[d].pc = "commit" /\ call[d].subject = call[c].subject

InsertIdentity(c) ==
  /\ call[c].pc = "link"
  /\ ~Claimed(c)
  /\ IF identity[confirmation[call[c].confirmation].subject] = None
       THEN Goto(c, "commit") ELSE End(c)
  /\ UNCHANGED <<password, identity, confirmation, session, window>>

\* The confirmation is marked under its lock.  A session follows; if it fails
\* the link stands, and signing in with Google finds it.
CommitLink(c) ==
  /\ call[c].pc = "commit" /\ Linking(c)
  /\ LET k == call[c].confirmation IN
       /\ identity' = [identity EXCEPT ![confirmation[k].subject] =
            [user |-> call[c].user, via |-> k, by |-> call[c].subject]]
       /\ confirmation' = [confirmation EXCEPT ![k].state = "confirmed"]
  /\ call' = [call EXCEPT ![c] = [Idle EXCEPT !.pc = "session", !.user = call[c].user,
                                              !.subject = call[c].subject]]
  /\ UNCHANGED <<password, session, window>>

---------------------------------------------------------------------------
(* Setting a password, and the reset's last transaction.                   *)

\* The caller's session may have been revoked since its token was issued.
BeginSet(c, u, s) ==
  /\ session[s].user = u
  /\ Begin(c, [Idle EXCEPT !.pc = "load", !.user = u, !.own = s])
  /\ UNCHANGED <<password, identity, confirmation, session, window>>

\* The request has the wrong shape, the current password is wrong, or there is
\* no capacity; or the new hash is derived.
LoadPassword(c) ==
  /\ call[c].pc = "load"
  /\ \/ End(c)
     \/ \E h \in Hash :
          /\ Fresh(h)
          /\ call' = [call EXCEPT ![c].old = password[call[c].user], ![c].new = h,
               ![c].pc = IF password[call[c].user] = None THEN "insert" ELSE "update"]
  /\ UNCHANGED <<password, identity, confirmation, session, window>>

\* A plain INSERT in autocommit: the primary key refuses a second one.
InsertPassword(c) ==
  LET u == call[c].user IN
  /\ call[c].pc = "insert"
  /\ PasswordFree(u) /\ UserFree(u)
  /\ password' = [password EXCEPT ![u] = IF @ = None THEN call[c].new ELSE @]
  /\ End(c)
  /\ UNCHANGED <<identity, confirmation, session, window>>

Revoked(S) ==
  [s \in Session |-> IF s \in S THEN [session[s] EXCEPT !.state = "revoked"]
                                ELSE session[s]]

\* Whatever hash was verified.
UpdateUnconditionally(c) ==
  /\ call[c].pc = "update"
  /\ PasswordFree(call[c].user)
  /\ Goto(c, "revoke")
  /\ UNCHANGED <<password, identity, confirmation, session, window>>

\* The evictions are committed by a statement of their own, before the update.
RevokeAndRetry(c) ==
  /\ call[c].pc = "update"
  /\ PasswordFree(call[c].user)
  /\ session' = Revoked(SessionsOf(call[c].user) \ {call[c].own})
  /\ IF password[call[c].user] = call[c].old THEN Goto(c, "revoke") ELSE End(c)
  /\ UNCHANGED <<password, identity, confirmation, window>>

\* The predicate carries the hash that was verified, and is evaluated again on
\* the row a concurrent change committed.
UpdatePassword(c) ==
  /\ call[c].pc = "update"
  /\ PasswordFree(call[c].user)
  /\ IF password[call[c].user] = call[c].old THEN Goto(c, "revoke") ELSE End(c)
  /\ UNCHANGED <<password, identity, confirmation, session, window>>

BeginReset(c, u) ==
  /\ \E h \in Hash :
       /\ Fresh(h)
       /\ Begin(c, [Idle EXCEPT !.pc = "rewrite", !.user = u, !.new = h])
  /\ UNCHANGED <<password, identity, confirmation, session, window>>

\* INSERT ... ON CONFLICT DO UPDATE; an insert checks the foreign key.
RewritePassword(c) ==
  /\ call[c].pc = "rewrite"
  /\ PasswordFree(call[c].user)
  /\ password[call[c].user] = None => UserFree(call[c].user)
  /\ Goto(c, "revoke")
  /\ UNCHANGED <<password, identity, confirmation, session, window>>

\* The statement covers the sessions that were committed when it started.
RevokeSessions(c) ==
  /\ call[c].pc = "revoke"
  /\ call' = [call EXCEPT ![c].pc = "commit",
                          ![c].scan = SessionsOf(call[c].user) \ {call[c].own}]
  /\ UNCHANGED <<password, identity, confirmation, session, window>>

CommitPassword(c) ==
  /\ call[c].pc = "commit" /\ ~Linking(c)
  /\ password' = [password EXCEPT ![call[c].user] = call[c].new]
  /\ session' = Revoked(call[c].scan)
  /\ End(c)
  /\ UNCHANGED <<identity, confirmation, window>>

---------------------------------------------------------------------------
\* A failed statement, a cancelled request, a process that dies: a transaction
\* is rolled back, what was committed before stays.
GiveUp(c) ==
  /\ call[c].pc # "idle"
  /\ End(c)
  /\ UNCHANGED <<password, identity, confirmation, session, window>>

PasswordSignIn(c) ==
  (\E u \in User : Charge(c, u)) \/ ReadPassword(c) \/ Release(c)
    \/ ReleaseUnheard(c)

Google(c) ==
  \/ \E g \in Subject : BeginGoogle(c, g)
  \/ \E g \in Subject, k \in Confirmation : BeginConfirm(c, g, k)
  \/ FindIdentity(c) \/ MatchAddress(c)
  \/ CheckConfirmation(c) \/ LockConfirmation(c) \/ InsertIdentity(c) \/ CommitLink(c)

SetPassword(c) ==
  \/ \E u \in User, s \in Session : BeginSet(c, u, s)
  \/ \E u \in User : BeginReset(c, u)
  \/ LoadPassword(c) \/ InsertPassword(c) \/ UpdatePassword(c) \/ RewritePassword(c)
  \/ RevokeSessions(c) \/ CommitPassword(c)

Next ==
  \/ \E c \in Call :
       \/ PasswordSignIn(c) \/ Google(c) \/ SetPassword(c) \/ GiveUp(c)
       \/ \E s \in Session : CreateSession(c, s)
  \/ \E u \in User : WindowEnds(u) \/ ChargeInVain(u)
  \/ \E s \in Session : SessionEnds(s)
  \/ \E k \in Confirmation : ConfirmationExpires(k)

Spec == Init /\ [][Next]_vars

---------------------------------------------------------------------------
(* Properties.                                                             *)

\* Every variable stays within the states the code can write.
TypeOK ==
  /\ password \in [User -> Hash \cup {None}]
  /\ identity \in [Subject -> Identity \cup {None}]
  /\ confirmation \in [Confirmation -> ConfirmationRow]
  /\ session \in [Session -> SessionRow]
  /\ window \in [User -> WindowRow]
  /\ call \in [Call -> CallRow]

\* An identity opens an account only through a confirmation that was opened for
\* that identity and that account, redeemed with a token of the same identity,
\* and spent by it; and no confirmation was spent for nothing.  Several
\* confirmations of one identity may be redeemed at once.
LinksAreEarned ==
  /\ \A g \in Subject : identity[g] # None =>
       /\ identity[g].by = g
       /\ confirmation[identity[g].via] =
            [state |-> "confirmed", user |-> identity[g].user, subject |-> g]
  /\ \A k \in Confirmation : confirmation[k].state = "confirmed" =>
       /\ identity[confirmation[k].subject] # None
       /\ identity[confirmation[k].subject].via = k

\* A password changes from the one the caller verified, or from none where the
\* caller found none, and nothing is overwritten unseen; only a reset writes
\* without having read.
ChangeReplacesWhatItVerified ==
  [][\A u \in User : password'[u] # password[u] =>
       \E c \in Call :
         /\ call[c].user = u /\ password'[u] = call[c].new
         /\ call[c].own # None => password[u] = call[c].old]_vars

\* A request signs sessions out only in the step that writes a new password for
\* their account, and a new password takes every session its statement saw but
\* the caller's: a change that was refused or failed has evicted nobody.
EvictionComesWithTheChange ==
  [][LET gone == {s \in Session : session[s].state = "open"
                                    /\ session'[s].state = "revoked"} IN
       /\ gone # {} /\ call' # call =>
            \E u \in User : password'[u] # password[u]
                              /\ \A s \in gone : session[s].user = u
       /\ \A c \in Call, u \in User :
            HoldsPassword(c, u) /\ password'[u] # password[u] =>
              /\ \A s \in call[c].scan : session'[s].state # "open"
              /\ call[c].own \notin gone]_vars

\* In one window an address pays for at most the limit of failed sign-ins, plus
\* one for each release that went astray: one that came after the window of its
\* charge, or that the client library sent twice.  Refusals, lost answers and
\* successes in between, in any order, do not add to it.
GuessesAreBounded ==
  \A u \in User : window[u].spent <= LoginEmailFailureLimit + window[u].astray
=============================================================================
