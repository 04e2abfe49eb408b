---------------------------- MODULE SignInProof ----------------------------
(***************************************************************************)
(* Proofs about SignIn for every number of calls, accounts, identities,    *)
(* confirmations and sessions, every limit and every bound.                *)
(*                                                                         *)
(* A link is earned because the row locks make a redemption exclusive from *)
(* the moment its confirmation is read (LinksAreExclusive): no other call  *)
(* spends the confirmation or claims the identity before it commits.  A    *)
(* password is replaced by whoever verified it because the credential's    *)
(* lock keeps it as it was read until the commit (PasswordsAreHeld).  The  *)
(* failure budget holds because every attempt that can still be given back *)
(* is counted among the spent ones of its window (ChargesAreCounted).      *)
(***************************************************************************)
EXTENDS SignIn, FiniteSetTheorems, TLAPS

\* What a call carries at each point of its way.
Formed(x) ==
  /\ x.pc = "idle" => x = Idle
  /\ x.pc \in {"find", "match"} => x.subject \in Subject
  /\ x.pc \notin {"idle", "find", "match", "check", "lock"} => x.user \in User
  /\ x.pc \in {"check", "lock", "link"} => x.confirmation \in Confirmation
  /\ x.confirmation # None =>
       /\ x.pc \in {"check", "lock", "link", "commit"}
       /\ x.subject \in Subject /\ x.new = None
  /\ x.new # None => x.pc \in {"insert", "update", "rewrite", "revoke", "commit"}
  /\ x.pc \in {"insert", "update", "rewrite", "revoke"} => x.new # None
  /\ x.pc = "commit" => x.confirmation # None \/ x.new # None
  /\ x.pc = "insert" => x.old = None
  /\ x.pc = "rewrite" => x.own = None

CallsAreFormed == \A c \in Call : Formed(call[c])

ConfirmationsAreAddressed ==
  \A k \in Confirmation : confirmation[k].state # "unborn" =>
    confirmation[k].user \in User /\ confirmation[k].subject \in Subject

\* Past the comparison, the confirmation is one of the token's own subject.
LinksAreChecked ==
  \A c \in Call : call[c].confirmation # None /\ call[c].pc # "check" =>
    /\ confirmation[call[c].confirmation].state # "unborn"
    /\ confirmation[call[c].confirmation].subject = call[c].subject

LinksAreExclusive ==
  \A c \in Call : Linking(c) =>
    /\ confirmation[call[c].confirmation].state \in {"active", "expired"}
    /\ confirmation[call[c].confirmation].user = call[c].user
    /\ call[c].pc = "commit" => identity[call[c].subject] = None
    /\ \A d \in Call \ {c} : Linking(d) =>
         /\ call[d].confirmation # call[c].confirmation
         /\ call[c].pc = "commit" /\ call[d].pc = "commit" =>
              call[d].subject # call[c].subject

HashesAreNew ==
  \A c \in Call : call[c].new # None =>
    /\ \A u \in User : password[u] # call[c].new
    /\ \A d \in Call \ {c} : call[d].new # call[c].new

PasswordsAreHeld ==
  \A c \in Call, u \in User : HoldsPassword(c, u) =>
    /\ \A d \in Call \ {c} : ~HoldsPassword(d, u)
    /\ call[c].own # None => password[u] = call[c].old

ScansAreOwn ==
  \A c \in Call : call[c].pc = "commit" /\ call[c].new # None =>
    \A s \in call[c].scan :
      /\ session[s].state # "unborn" /\ session[s].user = call[c].user
      /\ s # call[c].own

\* The attempts of the running window that can still be given back.
Pending(u) ==
  {c \in Call : /\ call[c].pc \in {"read", "release"} /\ call[c].user = u
                /\ call[c].window = window[u].no}

ChargesAreCounted ==
  /\ \A c \in Call : call[c].pc \in {"read", "release"} =>
       call[c].window <= window[call[c].user].no
  /\ \A u \in User :
       /\ IsFiniteSet(Pending(u))
       /\ Cardinality(Pending(u)) <= window[u].spent
       /\ window[u].spent <= window[u].count + window[u].astray

Inv ==
  /\ TypeOK
  /\ CallsAreFormed
  /\ ConfirmationsAreAddressed
  /\ LinksAreChecked
  /\ LinksAreExclusive
  /\ HashesAreNew
  /\ PasswordsAreHeld
  /\ ScansAreOwn
  /\ ChargesAreCounted
  /\ LinksAreEarned
  /\ GuessesAreBounded

---------------------------------------------------------------------------
(***************************************************************************)
(* What one step does to one call and to one row.                          *)
(***************************************************************************)

ByCall(c) ==
  \/ PasswordSignIn(c) \/ Google(c) \/ SetPassword(c) \/ GiveUp(c)
  \/ \E s \in Session : CreateSession(c, s)

ByNobody ==
  \/ \E u \in User : WindowEnds(u) \/ ChargeInVain(u)
  \/ \E s \in Session : SessionEnds(s)
  \/ \E k \in Confirmation : ConfirmationExpires(k)

LEMMA NextIsBySomebody == Next <=> ByNobody \/ \E c \in Call : ByCall(c)
  BY DEF Next, ByNobody, ByCall

LEMMA NoneIsNoValue ==
  /\ None \notin User /\ None \notin Subject /\ None \notin Confirmation
  /\ None \notin Session /\ None \notin Hash /\ None \notin Identity
  BY NoneIsNone DEF Identity

LEMMA NobodyMovesNoCall == ByNobody => UNCHANGED <<call, password, identity>>
  BY DEF ByNobody, WindowEnds, ChargeInVain, SessionEnds, ConfirmationExpires

LEMMA OneCallMoves ==
  ASSUME TypeOK, NEW c \in Call, ByCall(c), NEW d \in Call, d # c
  PROVE  call'[d] = call[d]
<1>1. \A row : [call EXCEPT ![c] = row][d] = call[d]
  BY DEF TypeOK
<1>2. CASE PasswordSignIn(c)
  BY <1>1, <1>2 DEF PasswordSignIn, Charge, ReadPassword, Release, ReleaseUnheard,
     Begin, Goto, End
<1>3. CASE Google(c)
  BY <1>1, <1>3, ZenonT(60) DEF Google, BeginGoogle, BeginConfirm, FindIdentity, MatchAddress,
     CheckConfirmation, LockConfirmation, InsertIdentity, CommitLink, Begin, Goto, End
<1>4. CASE SetPassword(c)
  <2>1. CASE LoadPassword(c) \/ RevokeSessions(c)
    BY <2>1 DEF LoadPassword, RevokeSessions, End, TypeOK
  <2> QED
    BY <1>1, <1>4, <2>1 DEF SetPassword, BeginSet, BeginReset, InsertPassword,
       UpdatePassword, RewritePassword, CommitPassword, Begin, Goto, End
<1>5. CASE GiveUp(c) \/ \E s \in Session : CreateSession(c, s)
  BY <1>1, <1>5 DEF GiveUp, CreateSession, End
<1> QED
  BY <1>2, <1>3, <1>4, <1>5 DEF ByCall

\* The step of a call, as it appears in the call's own state.
Move(c) ==
  LET x == call[c]  y == call'[c] IN
  \/ y = x
  \/ y = Idle
  \/ /\ x.pc = "idle"
     /\ \E u \in User :
          /\ Charge(c, u)
          /\ y = [Idle EXCEPT !.pc = "read", !.user = u, !.window = window[u].no]
  \/ x.pc = "read" /\ y = [x EXCEPT !.pc = "release"]
  \/ x.pc \in {"release", "again"} /\ y = [x EXCEPT !.pc = "session"]
  \/ x.pc = "release" /\ y = [x EXCEPT !.pc = "again"]
  \/ x.pc = "idle" /\ \E g \in Subject : y = [Idle EXCEPT !.pc = "find", !.subject = g]
  \/ /\ x.pc = "find"
     /\ \E u \in User : y = [x EXCEPT !.pc = "session", !.user = u]
  \/ x.pc = "find" /\ y = [x EXCEPT !.pc = "match"]
  \/ /\ x.pc = "idle"
     /\ \E g \in Subject, k \in Confirmation :
          y = [Idle EXCEPT !.pc = "check", !.subject = g, !.confirmation = k]
  \/ /\ x.pc = "check" /\ CheckConfirmation(c)
     /\ confirmation[x.confirmation].state = "active"
     /\ confirmation[x.confirmation].subject = x.subject
     /\ y = [x EXCEPT !.pc = "lock"]
  \/ /\ x.pc = "lock" /\ LockConfirmation(c)
     /\ confirmation[x.confirmation].state \in {"active", "expired"}
     /\ y = [x EXCEPT !.pc = "link", !.user = confirmation[x.confirmation].user]
  \/ /\ x.pc = "link" /\ InsertIdentity(c)
     /\ identity[confirmation[x.confirmation].subject] = None
     /\ y = [x EXCEPT !.pc = "commit"]
  \/ /\ x.pc = "commit" /\ CommitLink(c)
     /\ y = [Idle EXCEPT !.pc = "session", !.user = x.user, !.subject = x.subject]
  \/ /\ x.pc = "idle"
     /\ \E u \in User, s \in Session : y = [Idle EXCEPT !.pc = "load", !.user = u, !.own = s]
  \/ /\ x.pc = "load"
     /\ \E h \in Hash :
          /\ Fresh(h)
          /\ y = [x EXCEPT !.old = password[x.user], !.new = h,
                           !.pc = IF password[x.user] = None THEN "insert" ELSE "update"]
  \/ /\ x.pc = "update" /\ PasswordFree(x.user) /\ password[x.user] = x.old
     /\ y = [x EXCEPT !.pc = "revoke"]
  \/ /\ x.pc = "idle"
     /\ \E u \in User, h \in Hash :
          Fresh(h) /\ y = [Idle EXCEPT !.pc = "rewrite", !.user = u, !.new = h]
  \/ /\ x.pc = "rewrite" /\ PasswordFree(x.user)
     /\ y = [x EXCEPT !.pc = "revoke"]
  \/ /\ x.pc = "revoke"
     /\ y = [x EXCEPT !.pc = "commit", !.scan = SessionsOf(x.user) \ {x.own}]

LEMMA CallsMove ==
  ASSUME Inv, Next, NEW c \in Call
  PROVE  Move(c)
<1>1. call \in [Call -> CallRow]
  BY DEF Inv, TypeOK
<1>2. CASE ~ByCall(c)
  <2>1. call'[c] = call[c]
    BY <1>2, NextIsBySomebody, NobodyMovesNoCall, OneCallMoves DEF Inv
  <2> QED
    BY <2>1 DEF Move
<1>3. \A row : /\ [call EXCEPT ![c] = row][c] = row
  BY <1>1
<1>4. CASE PasswordSignIn(c)
  <2>1. ASSUME NEW u \in User, Charge(c, u) PROVE Move(c)
    BY <1>3, <2>1 DEF Charge, Begin, Move
  <2>2. CASE ReadPassword(c)
    BY <1>3, <2>2 DEF ReadPassword, Goto, End, Move
  <2>3. CASE Release(c) \/ ReleaseUnheard(c)
    BY <1>3, <2>3, ZenonT(60) DEF Release, ReleaseUnheard, Goto, Move
  <2> QED
    BY <1>4, <2>1, <2>2, <2>3 DEF PasswordSignIn
<1>5. CASE Google(c)
  <2>1. ASSUME NEW g \in Subject, BeginGoogle(c, g) PROVE Move(c)
    BY <1>3, <2>1 DEF BeginGoogle, Begin, Move
  <2>2. ASSUME NEW g \in Subject, NEW k \in Confirmation, BeginConfirm(c, g, k)
        PROVE  Move(c)
    BY <1>3, <2>2 DEF BeginConfirm, Begin, Move
  <2>3. CASE FindIdentity(c)
    <3>1. call[c].subject \in Subject
      BY <2>3 DEF FindIdentity, Inv, CallsAreFormed, Formed
    <3>2. identity[call[c].subject] # None => identity[call[c].subject].user \in User
      BY <3>1 DEF Inv, TypeOK, Identity
    <3>3. CASE identity[call[c].subject] # None
      <4>1. call'[c] = [call[c] EXCEPT !.pc = "session",
                                       !.user = identity[call[c].subject].user]
        BY <1>1, <2>3, <3>3 DEF FindIdentity, CallRow
      <4> QED
        BY <2>3, <3>2, <3>3, <4>1 DEF FindIdentity, Move
    <3>4. CASE identity[call[c].subject] = None
      <4>1. call'[c] = [call[c] EXCEPT !.pc = "match"]
        BY <1>1, <2>3, <3>4 DEF FindIdentity, Goto, CallRow
      <4> QED
        BY <2>3, <4>1 DEF FindIdentity, Move
    <3> QED
      BY <3>3, <3>4
  <2>4. CASE MatchAddress(c)
    BY <1>3, <2>4 DEF MatchAddress, End, Move
  <2>5. CASE CheckConfirmation(c)
    BY <1>3, <2>5 DEF CheckConfirmation, Goto, End, Move
  <2>6. CASE LockConfirmation(c)
    <3>1. \/ call'[c] = Idle
          \/ /\ confirmation[call[c].confirmation].state \in {"active", "expired"}
             /\ call'[c] = [call[c] EXCEPT !.pc = "link",
                              !.user = confirmation[call[c].confirmation].user]
      BY <1>1, <2>6 DEF LockConfirmation, End, CallRow
    <3> QED
      BY <2>6, <3>1 DEF LockConfirmation, Move
  <2>7. CASE InsertIdentity(c)
    BY <1>3, <2>7 DEF InsertIdentity, Goto, End, Move
  <2>8. CASE CommitLink(c)
    BY <1>3, <2>8 DEF CommitLink, Move
  <2> QED
    BY <1>5, <2>1, <2>2, <2>3, <2>4, <2>5, <2>6, <2>7, <2>8 DEF Google
<1>6. CASE SetPassword(c)
  <2>1. ASSUME NEW u \in User, NEW s \in Session, BeginSet(c, u, s) PROVE Move(c)
    BY <1>3, <2>1 DEF BeginSet, Begin, Move
  <2>2. ASSUME NEW u \in User, BeginReset(c, u) PROVE Move(c)
    <3>1. PICK h \in Hash :
            /\ Fresh(h)
            /\ Begin(c, [Idle EXCEPT !.pc = "rewrite", !.user = u, !.new = h])
      BY <2>2 DEF BeginReset
    <3>2. /\ call[c].pc = "idle"
          /\ call'[c] = [Idle EXCEPT !.pc = "rewrite", !.user = u, !.new = h]
      BY <1>3, <3>1 DEF Begin
    <3>3. \E v \in User, j \in Hash :
            Fresh(j) /\ call'[c] = [Idle EXCEPT !.pc = "rewrite", !.user = v, !.new = j]
      BY <3>1, <3>2
    <3> QED
      BY <3>2, <3>3 DEF Move
  <2>3. CASE LoadPassword(c)
    <3>1. call[c].pc = "load"
      BY <2>3 DEF LoadPassword
    <3>2. CASE End(c)
      BY <1>3, <3>2 DEF End, Move
    <3>3. ASSUME NEW h \in Hash, Fresh(h),
                 call' = [call EXCEPT ![c].old = password[call[c].user], ![c].new = h,
                   ![c].pc = IF password[call[c].user] = None THEN "insert" ELSE "update"]
          PROVE  Move(c)
      <4>1. call'[c] = [call[c] EXCEPT !.old = password[call[c].user], !.new = h,
                   !.pc = IF password[call[c].user] = None THEN "insert" ELSE "update"]
        BY <1>1, <3>3 DEF CallRow
      <4> QED
        BY <3>1, <3>3, <4>1 DEF Move
    <3> QED
      BY <2>3, <3>2, <3>3 DEF LoadPassword
  <2>4. CASE InsertPassword(c) \/ CommitPassword(c)
    BY <1>3, <2>4 DEF InsertPassword, CommitPassword, End, Move
  <2>5. CASE UpdatePassword(c)
    BY <1>3, <2>5 DEF UpdatePassword, Goto, End, Move
  <2>6. CASE RewritePassword(c)
    BY <1>3, <2>6 DEF RewritePassword, Goto, Move
  <2>7. CASE RevokeSessions(c)
    <3>1. call'[c] = [call[c] EXCEPT !.pc = "commit",
                        !.scan = SessionsOf(call[c].user) \ {call[c].own}]
      BY <1>1, <2>7 DEF RevokeSessions, CallRow
    <3> QED
      BY <2>7, <3>1 DEF RevokeSessions, Move
  <2> QED
    BY <1>6, <2>1, <2>2, <2>3, <2>4, <2>5, <2>6, <2>7 DEF SetPassword
<1>7. CASE GiveUp(c) \/ \E s \in Session : CreateSession(c, s)
  BY <1>3, <1>7 DEF GiveUp, CreateSession, End, Move
<1> QED
  BY <1>2, <1>4, <1>5, <1>6, <1>7 DEF ByCall

LEMMA PasswordsMove ==
  ASSUME Inv, Next, NEW u \in User, password'[u] # password[u]
  PROVE  \E c \in Call :
           /\ call[c].user = u /\ password'[u] = call[c].new
           /\ \/ InsertPassword(c) /\ PasswordFree(u) /\ password[u] = None
              \/ CommitPassword(c) /\ HoldsPassword(c, u)
<1>1. password \in [User -> Hash \cup {None}]
  BY DEF Inv, TypeOK
<1>2. PICK c \in Call : ByCall(c)
  BY NextIsBySomebody, NobodyMovesNoCall
<1>3. InsertPassword(c) \/ CommitPassword(c)
  BY <1>2 DEF ByCall, PasswordSignIn, Charge, ReadPassword, Release, ReleaseUnheard,
     Google, BeginGoogle, BeginConfirm, FindIdentity, MatchAddress, CheckConfirmation,
     LockConfirmation, InsertIdentity, CommitLink, SetPassword, BeginSet, BeginReset,
     LoadPassword, UpdatePassword, RewritePassword, RevokeSessions, GiveUp, CreateSession
<1>4. CASE InsertPassword(c)
  BY <1>1, <1>4 DEF InsertPassword
<1>5. CASE CommitPassword(c)
  <2>1. call[c].user = u /\ password'[u] = call[c].new
    BY <1>1, <1>5 DEF CommitPassword
  <2>2. HoldsPassword(c, u)
    BY <1>5, <2>1 DEF CommitPassword, Linking, HoldsPassword, Inv, CallsAreFormed, Formed
  <2> QED
    BY <1>5, <2>1, <2>2
<1> QED
  BY <1>3, <1>4, <1>5

LEMMA IdentitiesMove ==
  ASSUME Inv, Next, NEW g \in Subject, identity'[g] # identity[g]
  PROVE  \E c \in Call :
           /\ CommitLink(c) /\ call[c].subject = g
           /\ identity'[g] = [user |-> call[c].user, via |-> call[c].confirmation, by |-> g]
<1>1. identity \in [Subject -> Identity \cup {None}]
  BY DEF Inv, TypeOK
<1>2. PICK c \in Call : ByCall(c)
  BY NextIsBySomebody, NobodyMovesNoCall
<1>3. CommitLink(c)
  BY <1>2 DEF ByCall, PasswordSignIn, Charge, ReadPassword, Release, ReleaseUnheard,
     Google, BeginGoogle, BeginConfirm, FindIdentity, MatchAddress, CheckConfirmation,
     LockConfirmation, InsertIdentity, SetPassword, BeginSet, BeginReset,
     LoadPassword, InsertPassword, UpdatePassword, RewritePassword, RevokeSessions,
     CommitPassword, GiveUp, CreateSession
<1>4. confirmation[call[c].confirmation].subject = call[c].subject
  BY <1>3 DEF CommitLink, Linking, Inv, LinksAreChecked
<1> QED
  BY <1>1, <1>3, <1>4 DEF CommitLink

ConfirmationMove(k) ==
  \/ confirmation'[k] = confirmation[k]
  \/ /\ confirmation[k].state = "unborn"
     /\ \E u \in User, g \in Subject :
          confirmation'[k] = [state |-> "active", user |-> u, subject |-> g]
  \/ /\ confirmation[k].state = "active"
     /\ confirmation'[k] = [confirmation[k] EXCEPT !.state = "expired"]
  \/ /\ \E c \in Call : CommitLink(c) /\ call[c].confirmation = k
     /\ confirmation'[k] = [confirmation[k] EXCEPT !.state = "confirmed"]

LEMMA ConfirmationsMove ==
  ASSUME Inv, Next, NEW k \in Confirmation
  PROVE  ConfirmationMove(k)
<1>1. confirmation \in [Confirmation -> ConfirmationRow]
  BY DEF Inv, TypeOK
<1>2. CASE ByNobody
  <2>1. ASSUME NEW j \in Confirmation, ConfirmationExpires(j) PROVE ConfirmationMove(k)
    BY <1>1, <2>1 DEF ConfirmationExpires, ConfirmationMove
  <2> QED
    BY <1>2, <2>1 DEF ByNobody, WindowEnds, ChargeInVain, SessionEnds, ConfirmationMove
<1>3. ASSUME NEW c \in Call, ByCall(c) PROVE ConfirmationMove(k)
  <2>1. CASE CommitLink(c)
    BY <1>1, <2>1 DEF CommitLink, ConfirmationMove
  <2>2. CASE MatchAddress(c)
    <3>1. call[c].subject \in Subject
      BY <2>2 DEF MatchAddress, Inv, CallsAreFormed, Formed
    <3>2. ASSUME NEW u \in User, NEW j \in Confirmation, confirmation[j].state = "unborn",
                 confirmation' = [confirmation EXCEPT ![j] =
                   [state |-> "active", user |-> u, subject |-> call[c].subject]]
          PROVE  ConfirmationMove(k)
      BY <1>1, <3>1, <3>2 DEF ConfirmationMove
    <3> QED
      BY <2>2, <3>2 DEF MatchAddress, ConfirmationMove
  <2>3. CASE confirmation' = confirmation
    BY <2>3 DEF ConfirmationMove
  <2> QED
    BY <1>3, <2>1, <2>2, <2>3 DEF ByCall, PasswordSignIn, Charge, ReadPassword, Release,
       ReleaseUnheard, Google, BeginGoogle, BeginConfirm, FindIdentity,
       CheckConfirmation, LockConfirmation, InsertIdentity, SetPassword, BeginSet,
       BeginReset, LoadPassword, InsertPassword, UpdatePassword, RewritePassword,
       RevokeSessions, CommitPassword, GiveUp, CreateSession
<1> QED
  BY <1>2, <1>3, NextIsBySomebody

\* A session is opened once, for one account, and never open again.
SessionMove(s) ==
  \/ session'[s] = session[s]
  \/ /\ session[s].state = "unborn"
     /\ \E u \in User : session'[s] = [state |-> "open", user |-> u]
  \/ session'[s] = [session[s] EXCEPT !.state = "revoked"] /\ session[s].state = "open"
       /\ call' = call
  \/ /\ session'[s] = [session[s] EXCEPT !.state = "revoked"]
     /\ \E c \in Call : CommitPassword(c) /\ s \in call[c].scan

LEMMA SessionsMove ==
  ASSUME Inv, Next, NEW s \in Session
  PROVE  SessionMove(s)
<1>1. session \in [Session -> SessionRow]
  BY DEF Inv, TypeOK
<1>2. CASE ByNobody
  <2>1. ASSUME NEW t \in Session, SessionEnds(t) PROVE SessionMove(s)
    BY <1>1, <2>1 DEF SessionEnds, SessionMove
  <2> QED
    BY <1>2, <2>1 DEF ByNobody, WindowEnds, ChargeInVain, ConfirmationExpires, SessionMove
<1>3. ASSUME NEW c \in Call, ByCall(c) PROVE SessionMove(s)
  <2>1. ASSUME NEW t \in Session, CreateSession(c, t) PROVE SessionMove(s)
    <3>1. call[c].user \in User
      BY <2>1 DEF CreateSession, Inv, CallsAreFormed, Formed
    <3> QED
      BY <1>1, <2>1, <3>1 DEF CreateSession, SessionMove
  <2>2. CASE CommitPassword(c)
    BY <1>1, <2>2 DEF CommitPassword, Revoked, SessionMove
  <2>3. CASE session' = session
    BY <2>3 DEF SessionMove
  <2> QED
    BY <1>3, <2>1, <2>2, <2>3 DEF ByCall, PasswordSignIn, Charge, ReadPassword, Release,
       ReleaseUnheard, Google, BeginGoogle, BeginConfirm, FindIdentity, MatchAddress,
       CheckConfirmation, LockConfirmation, InsertIdentity, CommitLink, SetPassword,
       BeginSet, BeginReset, LoadPassword, InsertPassword, UpdatePassword,
       RewritePassword, RevokeSessions, GiveUp
<1> QED
  BY <1>2, <1>3, NextIsBySomebody

\* The counter of an address: what one step does to it.
WindowMove(u) ==
  \/ window'[u] = window[u]
  \/ WindowEnds(u)
  \/ ChargeInVain(u)
  \/ \E c \in Call : Charge(c, u)
  \/ \E c \in Call :
       /\ call[c].pc \in {"release", "again"} /\ call[c].user = u
       /\ Release(c) \/ ReleaseUnheard(c)
       /\ GivenBack(c)

LEMMA WindowsMove ==
  ASSUME Inv, Next, NEW u \in User
  PROVE  WindowMove(u)
<1>1. window \in [User -> WindowRow]
  BY DEF Inv, TypeOK
<1>2. CASE ByNobody
  <2>1. ASSUME NEW v \in User, WindowEnds(v) \/ ChargeInVain(v) PROVE WindowMove(u)
    <3>1. CASE v = u
      BY <2>1, <3>1 DEF WindowMove
    <3>2. CASE v # u
      BY <1>1, <2>1, <3>2 DEF WindowEnds, ChargeInVain, Counted, WindowMove
    <3> QED
      BY <3>1, <3>2
  <2> QED
    BY <1>2, <2>1 DEF ByNobody, SessionEnds, ConfirmationExpires, WindowMove
<1>3. ASSUME NEW c \in Call, ByCall(c) PROVE WindowMove(u)
  <2>1. ASSUME NEW v \in User, Charge(c, v) PROVE WindowMove(u)
    <3>1. CASE v = u
      BY <2>1, <3>1 DEF WindowMove
    <3>2. CASE v # u
      BY <1>1, <2>1, <3>2 DEF Charge, Counted, WindowMove
    <3> QED
      BY <3>1, <3>2
  <2>2. CASE (Release(c) \/ ReleaseUnheard(c)) /\ GivenBack(c)
    <3>1. CASE call[c].user = u
      BY <2>2, <3>1 DEF Release, ReleaseUnheard, WindowMove
    <3>2. CASE call[c].user # u
      BY <1>1, <2>2, <3>2 DEF GivenBack, WindowMove
    <3> QED
      BY <3>1, <3>2
  <2>3. CASE window' = window
    BY <2>3 DEF WindowMove
  <2> QED
    BY <1>3, <2>1, <2>2, <2>3 DEF ByCall, PasswordSignIn, ReadPassword, Release,
       ReleaseUnheard, Google, BeginGoogle, BeginConfirm, FindIdentity, MatchAddress,
       CheckConfirmation, LockConfirmation, InsertIdentity, CommitLink, SetPassword,
       BeginSet, BeginReset, LoadPassword, InsertPassword, UpdatePassword,
       RewritePassword, RevokeSessions, CommitPassword, GiveUp, CreateSession
<1> QED
  BY <1>2, <1>3, NextIsBySomebody

LEMMA TheirDomainsStay ==
  ASSUME Inv, Next
  PROVE  /\ password' = [u \in User |-> password'[u]]
         /\ identity' = [g \in Subject |-> identity'[g]]
         /\ confirmation' = [k \in Confirmation |-> confirmation'[k]]
         /\ session' = [s \in Session |-> session'[s]]
         /\ window' = [u \in User |-> window'[u]]
         /\ call' = [c \in Call |-> call'[c]]
<1> USE DEF Inv, TypeOK
<1>1. CASE ByNobody
  BY <1>1 DEF ByNobody, WindowEnds, ChargeInVain, Counted, SessionEnds,
     ConfirmationExpires
<1>2. ASSUME NEW c \in Call, PasswordSignIn(c)
      PROVE  /\ window' = [u \in User |-> window'[u]]
             /\ call' = [d \in Call |-> call'[d]]
             /\ UNCHANGED <<password, identity, confirmation, session>>
  <2>1. call' = [d \in Call |-> call'[d]]
    BY <1>2 DEF PasswordSignIn, Charge, ReadPassword, Release, ReleaseUnheard, Begin,
       Goto, End
  <2>2. window' = [u \in User |-> window'[u]]
    BY <1>2 DEF PasswordSignIn, Charge, Counted, ReadPassword, Release,
       ReleaseUnheard, GivenBack
  <2> QED
    BY <1>2, <2>1, <2>2 DEF PasswordSignIn, Charge, ReadPassword, Release, ReleaseUnheard
<1>3. ASSUME NEW c \in Call, Google(c)
      PROVE  /\ identity' = [g \in Subject |-> identity'[g]]
             /\ confirmation' = [k \in Confirmation |-> confirmation'[k]]
             /\ call' = [d \in Call |-> call'[d]]
             /\ UNCHANGED <<password, session, window>>
  <2>1. CASE MatchAddress(c) \/ CommitLink(c)
    BY <2>1 DEF MatchAddress, CommitLink, End
  <2>2. CASE FindIdentity(c) \/ LockConfirmation(c)
    BY <2>2 DEF FindIdentity, LockConfirmation, Goto, End
  <2> QED
    BY <1>3, <2>1, <2>2 DEF Google, BeginGoogle, BeginConfirm, CheckConfirmation,
       InsertIdentity, Begin, Goto, End
<1>4. ASSUME NEW c \in Call, SetPassword(c)
      PROVE  /\ password' = [u \in User |-> password'[u]]
             /\ session' = [s \in Session |-> session'[s]]
             /\ call' = [d \in Call |-> call'[d]]
             /\ UNCHANGED <<identity, confirmation, window>>
  <2>1. CASE CommitPassword(c) \/ InsertPassword(c)
    BY <2>1 DEF CommitPassword, InsertPassword, Revoked, End
  <2>2. CASE LoadPassword(c) \/ RevokeSessions(c)
    BY <2>2 DEF LoadPassword, RevokeSessions, End
  <2> QED
    BY <1>4, <2>1, <2>2 DEF SetPassword, BeginSet, BeginReset, UpdatePassword,
       RewritePassword, Begin, Goto, End
<1>5. ASSUME NEW c \in Call, GiveUp(c) \/ \E s \in Session : CreateSession(c, s)
      PROVE  /\ session' = [s \in Session |-> session'[s]]
             /\ call' = [d \in Call |-> call'[d]]
             /\ UNCHANGED <<password, identity, confirmation, window>>
  BY <1>5 DEF GiveUp, CreateSession, End
<1>6. /\ password = [u \in User |-> password[u]]
      /\ identity = [g \in Subject |-> identity[g]]
      /\ confirmation = [k \in Confirmation |-> confirmation[k]]
      /\ session = [s \in Session |-> session[s]]
      /\ window = [u \in User |-> window[u]]
  OBVIOUS
<1> HIDE DEF Inv, TypeOK
<1> QED
  BY <1>1, <1>2, <1>3, <1>4, <1>5, <1>6, NextIsBySomebody DEF ByCall

---------------------------------------------------------------------------
(***************************************************************************)
(* Types.                                                                  *)
(***************************************************************************)

LEMMA CallsStayTyped ==
  ASSUME Inv, Next, NEW c \in Call
  PROVE  call'[c] \in CallRow
<1>1. call[c] \in CallRow
  BY DEF Inv, TypeOK
<1>2. Move(c)
  BY CallsMove
<1>3. Idle \in CallRow
  BY BoundsAreNumbers DEF Idle, CallRow, PC
<1>4. ASSUME NEW u \in User, Charge(c, u),
             call'[c] = [Idle EXCEPT !.pc = "read", !.user = u, !.window = window[u].no]
      PROVE  call'[c] \in CallRow
  <2>1. window[u].no \in 0 .. MaxWindows
    BY DEF Inv, TypeOK, WindowRow
  <2> QED
    BY <1>3, <1>4, <2>1 DEF CallRow, PC
<1>5. ASSUME call[c].pc = "lock",
             confirmation[call[c].confirmation].state \in {"active", "expired"},
             call'[c] = [call[c] EXCEPT !.pc = "link",
                           !.user = confirmation[call[c].confirmation].user]
      PROVE  call'[c] \in CallRow
  <2>1. confirmation[call[c].confirmation].user \in User
    BY <1>5 DEF Inv, CallsAreFormed, Formed, ConfirmationsAreAddressed
  <2> QED
    BY <1>1, <1>5, <2>1 DEF CallRow, PC
<1>6. ASSUME call[c].pc = "load", NEW h \in Hash,
             call'[c] = [call[c] EXCEPT !.old = password[call[c].user], !.new = h,
                !.pc = IF password[call[c].user] = None THEN "insert" ELSE "update"]
      PROVE  call'[c] \in CallRow
  <2>1. password[call[c].user] \in Hash \cup {None}
    BY <1>6 DEF Inv, TypeOK, CallsAreFormed, Formed
  <2> QED
    BY <1>1, <1>6, <2>1 DEF CallRow, PC
<1>7. ASSUME call'[c] = [call[c] EXCEPT !.pc = "commit",
                          !.scan = SessionsOf(call[c].user) \ {call[c].own}]
      PROVE  call'[c] \in CallRow
  BY <1>1, <1>7 DEF CallRow, PC, SessionsOf
<1>8. ASSUME call[c].pc = "find", NEW u \in User,
             call'[c] = [call[c] EXCEPT !.pc = "session", !.user = u]
      PROVE  call'[c] \in CallRow
  BY <1>1, <1>8 DEF CallRow, PC
<1>9. ASSUME NEW pc \in PC, call'[c] = [call[c] EXCEPT !.pc = pc]
      PROVE  call'[c] \in CallRow
  BY <1>1, <1>9 DEF CallRow
<1>10. \A pc \in {"release", "session", "again", "match", "lock", "commit", "revoke"} :
         pc \in PC
  BY DEF PC
<1>11. ASSUME \/ call'[c] = call[c] \/ call'[c] = Idle
              \/ \E g \in Subject : call'[c] = [Idle EXCEPT !.pc = "find", !.subject = g]
              \/ \E g \in Subject, k \in Confirmation :
                   call'[c] = [Idle EXCEPT !.pc = "check", !.subject = g, !.confirmation = k]
              \/ call'[c] = [Idle EXCEPT !.pc = "session", !.user = call[c].user,
                               !.subject = call[c].subject]
              \/ \E u \in User, s \in Session :
                   call'[c] = [Idle EXCEPT !.pc = "load", !.user = u, !.own = s]
              \/ \E u \in User, h \in Hash :
                   call'[c] = [Idle EXCEPT !.pc = "rewrite", !.user = u, !.new = h]
       PROVE  call'[c] \in CallRow
  <2>1. CASE call'[c] = call[c] \/ call'[c] = Idle
    BY <1>1, <1>3, <2>1
  <2>2. CASE call'[c] = [Idle EXCEPT !.pc = "session", !.user = call[c].user,
                           !.subject = call[c].subject]
    BY <1>1, <1>3, <2>2 DEF CallRow, PC
  <2>3. ASSUME NEW g \in Subject, call'[c] = [Idle EXCEPT !.pc = "find", !.subject = g]
        PROVE  call'[c] \in CallRow
    BY <1>3, <2>3 DEF CallRow, PC
  <2>4. ASSUME NEW g \in Subject, NEW k \in Confirmation,
               call'[c] = [Idle EXCEPT !.pc = "check", !.subject = g, !.confirmation = k]
        PROVE  call'[c] \in CallRow
    BY <1>3, <2>4 DEF CallRow, PC
  <2>5. ASSUME NEW u \in User, NEW s \in Session,
               call'[c] = [Idle EXCEPT !.pc = "load", !.user = u, !.own = s]
        PROVE  call'[c] \in CallRow
    BY <1>3, <2>5 DEF CallRow, PC
  <2>6. ASSUME NEW u \in User, NEW h \in Hash,
               call'[c] = [Idle EXCEPT !.pc = "rewrite", !.user = u, !.new = h]
        PROVE  call'[c] \in CallRow
    BY <1>3, <2>6 DEF CallRow, PC
  <2> QED
    BY <1>11, <2>1, <2>2, <2>3, <2>4, <2>5, <2>6
<1> QED
  BY <1>2, <1>4, <1>5, <1>6, <1>7, <1>8, <1>9, <1>10, <1>11 DEF Move

LEMMA WindowsStayTyped ==
  ASSUME Inv, Next, NEW u \in User
  PROVE  window'[u] \in WindowRow
<1> DEFINE w == window[u]
<1>1. w \in WindowRow /\ window \in [User -> WindowRow]
  BY DEF Inv, TypeOK
<1>2. LoginEmailFailureLimit \in Nat /\ MaxWindows \in Nat /\ MaxCharges \in Nat
        /\ MaxAstray \in Nat
  BY LimitIsPositive, BoundsAreNumbers
<1>3. w.spent <= w.count + w.astray
  BY DEF Inv, ChargesAreCounted
<1>4. /\ w.count \in Nat /\ w.spent \in Nat /\ w.astray \in Nat
      /\ w.count <= MaxCharges /\ w.astray <= MaxAstray
      /\ w.spent <= LoginEmailFailureLimit + MaxAstray
      /\ w.spent \in 0 .. LoginEmailFailureLimit + MaxAstray /\ w.astray \in 0 .. MaxAstray
  BY <1>1, <1>2 DEF WindowRow
<1>9. CASE window'[u] = w
  BY <1>1, <1>9
<1>5. CASE WindowEnds(u)
  BY <1>1, <1>2, <1>5 DEF WindowEnds, WindowRow
<1>6. CASE ChargeInVain(u)
  <2>1. window'[u] = [w EXCEPT !.count = @ + 1] /\ w.count < MaxCharges
    BY <1>1, <1>6 DEF ChargeInVain, Counted, WindowRow
  <2> QED
    BY <1>1, <1>2, <2>1 DEF WindowRow
<1>7. ASSUME NEW c \in Call, Charge(c, u) PROVE window'[u] \in WindowRow
  <2>1. /\ window'[u] = [w EXCEPT !.count = @ + 1, !.spent = @ + 1]
        /\ w.count < MaxCharges /\ w.count < LoginEmailFailureLimit
    BY <1>1, <1>7 DEF Charge, Counted, WindowRow
  <2> QED
    <3>1. w.count + 1 \in 0 .. MaxCharges
            /\ w.spent + 1 \in 0 .. LoginEmailFailureLimit + MaxAstray
      BY <1>2, <1>3, <1>4, <2>1
    <3>2. window'[u] = [w EXCEPT !.count = w.count + 1, !.spent = w.spent + 1,
                                 !.astray = w.astray]
      BY <1>1, <2>1 DEF WindowRow
    <3>3. [w EXCEPT !.count = w.count + 1, !.spent = w.spent + 1, !.astray = w.astray]
            \in WindowRow
      BY <1>1, <1>4, <3>1 DEF WindowRow
    <3> QED
      BY <3>2, <3>3
<1>8. ASSUME NEW c \in Call, call[c].pc \in {"release", "again"}, call[c].user = u,
             GivenBack(c)
      PROVE  window'[u] \in WindowRow
  <2>1. CASE w.count = 0
    BY <1>1, <1>8, <2>1 DEF GivenBack
  <2>2. CASE w.count # 0 /\ call[c].pc = "release" /\ w.no = call[c].window
    <3>1. c \in Pending(u)
      BY <1>8, <2>2 DEF Pending
    <3>2. w.spent > 0
      BY <1>1, <3>1, FS_EmptySet, FS_CardinalityType, FS_Subset DEF Inv, ChargesAreCounted, WindowRow
    <3>3. window'[u] = [w EXCEPT !.count = @ - 1, !.spent = @ - 1]
      BY <1>1, <1>8, <2>2 DEF GivenBack, WindowRow
    <3> QED
      <4>1. w.count - 1 \in 0 .. MaxCharges
              /\ w.spent - 1 \in 0 .. LoginEmailFailureLimit + MaxAstray
        BY <1>2, <1>4, <2>2, <3>2
      <4>2. window'[u] = [w EXCEPT !.count = w.count - 1, !.spent = w.spent - 1,
                                   !.astray = w.astray]
        BY <1>1, <3>3 DEF WindowRow
      <4>3. [w EXCEPT !.count = w.count - 1, !.spent = w.spent - 1, !.astray = w.astray]
              \in WindowRow
        BY <1>1, <1>4, <4>1 DEF WindowRow
      <4> QED
        BY <4>2, <4>3
  <2>3. CASE w.count # 0 /\ ~(call[c].pc = "release" /\ w.no = call[c].window)
    <3>1. window'[u] = [w EXCEPT !.count = @ - 1, !.astray = @ + 1] /\ w.astray < MaxAstray
      BY <1>1, <1>8, <2>3 DEF GivenBack, WindowRow
    <3> QED
      <4>1. w.count - 1 \in 0 .. MaxCharges /\ w.astray + 1 \in 0 .. MaxAstray
        BY <1>2, <1>4, <2>3, <3>1
      <4>2. window'[u] = [w EXCEPT !.count = w.count - 1, !.spent = w.spent,
                                   !.astray = w.astray + 1]
        BY <1>1, <3>1 DEF WindowRow
      <4>3. [w EXCEPT !.count = w.count - 1, !.spent = w.spent, !.astray = w.astray + 1]
              \in WindowRow
        BY <1>1, <1>4, <4>1 DEF WindowRow
      <4> QED
        BY <4>2, <4>3
  <2> QED
    BY <2>1, <2>2, <2>3
<1> QED
  BY <1>5, <1>6, <1>7, <1>8, <1>9, WindowsMove DEF WindowMove

LEMMA TypesStay ==
  ASSUME Inv, Next
  PROVE  TypeOK'
<1> USE DEF Inv, TypeOK
<1>1. ASSUME NEW u \in User PROVE password'[u] \in Hash \cup {None}
  <2>1. CASE password'[u] = password[u]
    BY <2>1
  <2>2. CASE password'[u] # password[u]
    <3> HIDE DEF Inv, TypeOK
    <3>1. PICK c \in Call : password'[u] = call[c].new
      BY <2>2, PasswordsMove
    <3> QED
      BY <3>1 DEF Inv, TypeOK, CallRow
  <2> QED
    BY <2>1, <2>2
<1>2. ASSUME NEW g \in Subject PROVE identity'[g] \in Identity \cup {None}
  <2>1. CASE identity'[g] = identity[g]
    BY <2>1
  <2>2. CASE identity'[g] # identity[g]
    <3> HIDE DEF Inv, TypeOK
    <3>1. PICK c \in Call :
             /\ CommitLink(c)
             /\ identity'[g] = [user |-> call[c].user, via |-> call[c].confirmation, by |-> g]
      BY <2>2, IdentitiesMove
    <3>2. call[c].user \in User /\ call[c].confirmation \in Confirmation
      BY <3>1 DEF CommitLink, Linking, Inv, TypeOK, CallRow, CallsAreFormed, Formed
    <3> QED
      BY <3>1, <3>2 DEF Identity
  <2> QED
    BY <2>1, <2>2
<1>3. ASSUME NEW k \in Confirmation PROVE confirmation'[k] \in ConfirmationRow
  <2>1. confirmation[k] \in ConfirmationRow
    OBVIOUS
  <2> HIDE DEF Inv, TypeOK
  <2>2. ConfirmationMove(k)
    BY ConfirmationsMove
  <2>3. \A st \in {"expired", "confirmed"} :
          [confirmation[k] EXCEPT !.state = st] \in ConfirmationRow
    BY <2>1 DEF ConfirmationRow
  <2>4. \A u \in User, g \in Subject :
          [state |-> "active", user |-> u, subject |-> g] \in ConfirmationRow
    BY DEF ConfirmationRow
  <2> QED
    BY <2>1, <2>2, <2>3, <2>4 DEF ConfirmationMove
<1>4. ASSUME NEW s \in Session PROVE session'[s] \in SessionRow
  <2>1. session[s] \in SessionRow
    OBVIOUS
  <2> HIDE DEF Inv, TypeOK
  <2>2. SessionMove(s)
    BY SessionsMove
  <2>3. [session[s] EXCEPT !.state = "revoked"] \in SessionRow
    BY <2>1 DEF SessionRow
  <2>4. \A u \in User : [state |-> "open", user |-> u] \in SessionRow
    BY DEF SessionRow
  <2> QED
    BY <2>1, <2>2, <2>3, <2>4 DEF SessionMove
<1> HIDE DEF Inv
<1> QED
  BY <1>1, <1>2, <1>3, <1>4, TheirDomainsStay, CallsStayTyped, WindowsStayTyped

---------------------------------------------------------------------------
(***************************************************************************)
(* What the calls and the confirmations look like.                         *)
(***************************************************************************)

LEMMA CallsStayFormed ==
  ASSUME Inv, Next, NEW c \in Call
  PROVE  Formed(call'[c])
<1> DEFINE x == call[c]
<1>1. x \in CallRow /\ Formed(x)
  BY DEF Inv, TypeOK, CallsAreFormed
<1>2. Move(c)
  BY CallsMove
<1>3. CASE call'[c] = x \/ call'[c] = Idle
  BY <1>1, <1>3 DEF Formed, Idle
<1>4. ASSUME \/ \E u \in User :
                  call'[c] = [Idle EXCEPT !.pc = "read", !.user = u, !.window = window[u].no]
             \/ \E g \in Subject : call'[c] = [Idle EXCEPT !.pc = "find", !.subject = g]
             \/ \E u \in User, s \in Session :
                  call'[c] = [Idle EXCEPT !.pc = "load", !.user = u, !.own = s]
      PROVE  Formed(call'[c])
  BY <1>4 DEF Formed, Idle
<1>5. ASSUME NEW g \in Subject, NEW k \in Confirmation,
             call'[c] = [Idle EXCEPT !.pc = "check", !.subject = g, !.confirmation = k]
      PROVE  Formed(call'[c])
  BY <1>5 DEF Formed, Idle
<1>6. ASSUME NEW u \in User, NEW h \in Hash,
             call'[c] = [Idle EXCEPT !.pc = "rewrite", !.user = u, !.new = h]
      PROVE  Formed(call'[c])
  BY <1>6, NoneIsNoValue DEF Formed, Idle
<1>7. ASSUME \/ x.pc = "read" /\ call'[c] = [x EXCEPT !.pc = "release"]
             \/ x.pc \in {"release", "again"} /\ call'[c] = [x EXCEPT !.pc = "session"]
             \/ x.pc = "release" /\ call'[c] = [x EXCEPT !.pc = "again"]
             \/ x.pc = "find" /\ call'[c] = [x EXCEPT !.pc = "match"]
             \/ x.pc = "check" /\ call'[c] = [x EXCEPT !.pc = "lock"]
             \/ x.pc \in {"update", "rewrite"} /\ call'[c] = [x EXCEPT !.pc = "revoke"]
      PROVE  Formed(call'[c])
  BY <1>1, <1>7 DEF Formed, CallRow
<1>8. ASSUME x.pc = "find", NEW u \in User,
             call'[c] = [x EXCEPT !.pc = "session", !.user = u]
      PROVE  Formed(call'[c])
  BY <1>1, <1>8 DEF Formed, CallRow
<1>9. ASSUME x.pc = "lock", confirmation[x.confirmation].state \in {"active", "expired"},
             call'[c] = [x EXCEPT !.pc = "link", !.user = confirmation[x.confirmation].user]
      PROVE  Formed(call'[c])
  <2>1. confirmation[x.confirmation].user \in User
    BY <1>1, <1>9 DEF Inv, Formed, ConfirmationsAreAddressed
  <2> QED
    BY <1>1, <1>9, <2>1 DEF Formed, CallRow
<1>10. ASSUME x.pc = "link", call'[c] = [x EXCEPT !.pc = "commit"]
       PROVE  Formed(call'[c])
  BY <1>1, <1>10, NoneIsNoValue DEF Formed, CallRow
<1>11. ASSUME x.pc = "commit", CommitLink(c),
              call'[c] = [Idle EXCEPT !.pc = "session", !.user = x.user,
                            !.subject = x.subject]
       PROVE  Formed(call'[c])
  BY <1>1, <1>11 DEF Formed, Idle
<1>12. ASSUME x.pc = "load", NEW h \in Hash,
              call'[c] = [x EXCEPT !.old = password[x.user], !.new = h,
                !.pc = IF password[x.user] = None THEN "insert" ELSE "update"]
       PROVE  Formed(call'[c])
  BY <1>1, <1>12, NoneIsNoValue DEF Formed, CallRow
<1>13. ASSUME x.pc = "revoke",
              call'[c] = [x EXCEPT !.pc = "commit", !.scan = SessionsOf(x.user) \ {x.own}]
       PROVE  Formed(call'[c])
  BY <1>1, <1>13 DEF Formed, CallRow
<1> QED
  BY <1>2, <1>3, <1>4, <1>5, <1>6, <1>7, <1>8, <1>9, <1>10, <1>11, <1>12, <1>13 DEF Move

\* Who a confirmation is for is settled when it is opened.
LEMMA ConfirmationsKeepTheirAddress ==
  ASSUME Inv, Next, NEW k \in Confirmation
  PROVE  /\ confirmation[k].state # "unborn" =>
              /\ confirmation'[k].state # "unborn"
              /\ confirmation'[k].user = confirmation[k].user
              /\ confirmation'[k].subject = confirmation[k].subject
         /\ confirmation[k].state = "unborn" /\ confirmation'[k].state # "unborn" =>
              confirmation'[k].user \in User /\ confirmation'[k].subject \in Subject
<1>1. confirmation[k] \in ConfirmationRow
  BY DEF Inv, TypeOK
<1>2. ASSUME NEW c \in Call, CommitLink(c), call[c].confirmation = k
      PROVE  confirmation[k].state # "unborn"
  BY <1>2 DEF CommitLink, Linking, Inv, LinksAreChecked
<1>3. CASE confirmation'[k] = confirmation[k]
  BY <1>3
<1>4. ASSUME confirmation[k].state = "unborn", NEW u \in User, NEW g \in Subject,
             confirmation'[k] = [state |-> "active", user |-> u, subject |-> g]
      PROVE  /\ confirmation[k].state = "unborn"
             /\ confirmation'[k].user \in User /\ confirmation'[k].subject \in Subject
  BY <1>4
<1>5. ASSUME NEW st \in {"expired", "confirmed"},
             confirmation[k].state # "unborn",
             confirmation'[k] = [confirmation[k] EXCEPT !.state = st]
      PROVE  /\ confirmation[k].state # "unborn" /\ confirmation'[k].state # "unborn"
             /\ confirmation'[k].user = confirmation[k].user
             /\ confirmation'[k].subject = confirmation[k].subject
  BY <1>1, <1>5 DEF ConfirmationRow
<1> QED
  BY <1>2, <1>3, <1>4, <1>5, ConfirmationsMove DEF ConfirmationMove

LEMMA ConfirmationsStayAddressed ==
  ASSUME Inv, Next
  PROVE  ConfirmationsAreAddressed'
<1> SUFFICES ASSUME NEW k \in Confirmation, confirmation'[k].state # "unborn"
             PROVE  confirmation'[k].user \in User /\ confirmation'[k].subject \in Subject
  BY DEF ConfirmationsAreAddressed
<1> QED
  BY ConfirmationsKeepTheirAddress DEF Inv, ConfirmationsAreAddressed

\* A call takes its confirmation from the path and keeps it.
LEMMA CallsKeepTheirConfirmation ==
  ASSUME Inv, Next, NEW c \in Call, call'[c].confirmation # None, call'[c].pc # "check"
  PROVE  /\ call[c].confirmation \in Confirmation
         /\ call'[c].confirmation = call[c].confirmation
         /\ call'[c].subject = call[c].subject
         /\ call[c].pc = "check" =>
              /\ confirmation[call[c].confirmation].state = "active"
              /\ confirmation[call[c].confirmation].subject = call[c].subject
<1> DEFINE x == call[c]  y == call'[c]
<1>1. x \in CallRow /\ Formed(x)
  BY DEF Inv, TypeOK, CallsAreFormed
<1>2. y # Idle
  BY DEF Idle
<1>3. ASSUME \/ \E u \in User :
                  y = [Idle EXCEPT !.pc = "read", !.user = u, !.window = window[u].no]
             \/ \E g \in Subject : y = [Idle EXCEPT !.pc = "find", !.subject = g]
             \/ \E g \in Subject, k \in Confirmation :
                  y = [Idle EXCEPT !.pc = "check", !.subject = g, !.confirmation = k]
             \/ y = [Idle EXCEPT !.pc = "session", !.user = x.user, !.subject = x.subject]
             \/ \E u \in User, s \in Session :
                  y = [Idle EXCEPT !.pc = "load", !.user = u, !.own = s]
             \/ \E u \in User, h \in Hash :
                  y = [Idle EXCEPT !.pc = "rewrite", !.user = u, !.new = h]
      PROVE  FALSE
  BY <1>3 DEF Idle
<1>4. ASSUME \/ y = [x EXCEPT !.pc = "release"] \/ y = [x EXCEPT !.pc = "session"]
             \/ y = [x EXCEPT !.pc = "again"] \/ y = [x EXCEPT !.pc = "match"]
             \/ y = [x EXCEPT !.pc = "lock"] \/ y = [x EXCEPT !.pc = "commit"]
             \/ y = [x EXCEPT !.pc = "revoke"]
      PROVE  y.confirmation = x.confirmation /\ y.subject = x.subject
  BY <1>1, <1>4 DEF CallRow
<1>5. ASSUME \/ \E u \in User : y = [x EXCEPT !.pc = "session", !.user = u]
             \/ y = [x EXCEPT !.pc = "link", !.user = confirmation[x.confirmation].user]
             \/ \E h \in Hash :
                  y = [x EXCEPT !.old = password[x.user], !.new = h,
                        !.pc = IF password[x.user] = None THEN "insert" ELSE "update"]
             \/ y = [x EXCEPT !.pc = "commit", !.scan = SessionsOf(x.user) \ {x.own}]
      PROVE  y.confirmation = x.confirmation /\ y.subject = x.subject
  BY <1>1, <1>5 DEF CallRow
<1>6. y.confirmation = x.confirmation /\ y.subject = x.subject
  <2>1. Move(c)
    BY CallsMove
  <2> QED
    BY <1>2, <1>3, <1>4, <1>5, <2>1, Zenon DEF Move
<1>7. ASSUME x.pc = "check"
      PROVE  /\ confirmation[x.confirmation].state = "active"
             /\ confirmation[x.confirmation].subject = x.subject
  BY <1>2, <1>7, CallsMove DEF Move
<1> QED
  BY <1>1, <1>6, <1>7 DEF CallRow

LEMMA LinksStayChecked ==
  ASSUME Inv, Next
  PROVE  LinksAreChecked'
<1> SUFFICES ASSUME NEW c \in Call, call'[c].confirmation # None, call'[c].pc # "check"
             PROVE  /\ confirmation'[call'[c].confirmation].state # "unborn"
                    /\ confirmation'[call'[c].confirmation].subject = call'[c].subject
  BY DEF LinksAreChecked
<1>1. /\ confirmation[call[c].confirmation].state # "unborn"
      /\ confirmation[call[c].confirmation].subject = call[c].subject
  BY CallsKeepTheirConfirmation DEF Inv, LinksAreChecked
<1> QED
  BY <1>1, CallsKeepTheirConfirmation, ConfirmationsKeepTheirAddress

---------------------------------------------------------------------------
(***************************************************************************)
(* Links: whoever is linking is alone with its confirmation, and from its  *)
(* insert on with the identity.                                            *)
(***************************************************************************)

LEMMA TheOthersStay ==
  ASSUME Inv, Next, NEW c \in Call, call'[c] # call[c], NEW d \in Call, d # c
  PROVE  call'[d] = call[d]
<1>1. PICK e \in Call : ByCall(e)
  BY NextIsBySomebody, NobodyMovesNoCall
<1> QED
  BY <1>1, OneCallMoves DEF Inv

LEMMA LinkingBegins ==
  ASSUME Inv, Next, NEW c \in Call, Linking(c)'
  PROVE  LET x == call[c]  y == call'[c] IN
         \/ Linking(c) /\ y = x
         \/ /\ Linking(c) /\ x.pc = "link" /\ InsertIdentity(c)
            /\ identity[confirmation[x.confirmation].subject] = None
            /\ y = [x EXCEPT !.pc = "commit"]
         \/ /\ x.pc = "lock" /\ LockConfirmation(c)
            /\ confirmation[x.confirmation].state \in {"active", "expired"}
            /\ y = [x EXCEPT !.pc = "link", !.user = confirmation[x.confirmation].user]
<1> DEFINE x == call[c]  y == call'[c]
<1>1. x \in CallRow /\ Formed(x)
  BY DEF Inv, TypeOK, CallsAreFormed
<1>2. y.pc \in {"link", "commit"} /\ y.confirmation # None
  BY DEF Linking
<1>3. x.confirmation # None
  BY <1>2, CallsKeepTheirConfirmation
<1>4. x.pc \in {"check", "lock", "link", "commit"}
  BY <1>1, <1>3 DEF Formed
<1>5. /\ y # Idle
      /\ y # [Idle EXCEPT !.pc = "session", !.user = x.user, !.subject = x.subject]
      /\ y # [x EXCEPT !.pc = "lock"]
  <2>1. /\ Idle.pc = "idle" /\ [x EXCEPT !.pc = "lock"].pc = "lock"
        /\ [Idle EXCEPT !.pc = "session", !.user = x.user, !.subject = x.subject].pc = "session"
    BY <1>1 DEF Idle, CallRow
  <2> QED
    BY <1>2, <2>1
<1>6. Move(c)
  BY CallsMove
<1>7. \/ y = x
      \/ x.pc = "lock" /\ LockConfirmation(c)
           /\ confirmation[x.confirmation].state \in {"active", "expired"}
           /\ y = [x EXCEPT !.pc = "link", !.user = confirmation[x.confirmation].user]
      \/ x.pc = "link" /\ InsertIdentity(c)
           /\ identity[confirmation[x.confirmation].subject] = None
           /\ y = [x EXCEPT !.pc = "commit"]
  BY <1>4, <1>5, <1>6 DEF Move
<1> QED
  BY <1>2, <1>3, <1>7 DEF Linking

LEMMA LinksStayExclusive ==
  ASSUME Inv, Next
  PROVE  LinksAreExclusive'
<1> SUFFICES ASSUME NEW c \in Call, Linking(c)'
             PROVE  /\ confirmation'[call'[c].confirmation].state \in {"active", "expired"}
                    /\ confirmation'[call'[c].confirmation].user = call'[c].user
                    /\ call'[c].pc = "commit" => identity'[call'[c].subject] = None
                    /\ \A d \in Call \ {c} : Linking(d)' =>
                         /\ call'[d].confirmation # call'[c].confirmation
                         /\ call'[c].pc = "commit" /\ call'[d].pc = "commit" =>
                              call'[d].subject # call'[c].subject
  BY DEF LinksAreExclusive
<1>1. ASSUME NEW d \in Call, Linking(d)'
      PROVE  /\ call[d] \in CallRow /\ call[d].confirmation \in Confirmation
             /\ call'[d].confirmation = call[d].confirmation
             /\ call'[d].subject = call[d].subject
             /\ call'[d].pc # "check"
  BY <1>1, CallsKeepTheirConfirmation DEF Linking, Inv, TypeOK
<1> DEFINE x == call[c]  y == call'[c]  k == x.confirmation
<1>2. /\ x \in CallRow /\ k \in Confirmation /\ y.confirmation = k
      /\ y.subject = x.subject
  BY <1>1
<1>3. CASE Linking(c)
  <2>1. /\ confirmation[k].state \in {"active", "expired"} /\ confirmation[k].user = x.user
        /\ confirmation[k].subject = x.subject
    BY <1>3, <1>2 DEF Inv, LinksAreExclusive, LinksAreChecked, Linking
  <2>2. ASSUME NEW d \in Call, CommitLink(d)
        PROVE  /\ d # c /\ call[d].confirmation # k
               /\ x.pc = "commit" => call[d].subject # x.subject
    <3>1. call'[d].confirmation = None
      BY <2>2 DEF CommitLink, Idle, Inv, TypeOK
    <3>2. d # c
      BY <3>1, <1>2, NoneIsNoValue
    <3> QED
      BY <1>3, <2>2, <3>2 DEF CommitLink, Inv, LinksAreExclusive
  <2>3. confirmation[k] \in ConfirmationRow
    BY <1>2 DEF Inv, TypeOK
  <2>4. confirmation'[k].state \in {"active", "expired"}
    <3>1. \/ confirmation'[k] = confirmation[k]
          \/ confirmation'[k] = [confirmation[k] EXCEPT !.state = "expired"]
      BY <1>2, <2>1, <2>2, ConfirmationsMove DEF ConfirmationMove
    <3> QED
      BY <2>1, <2>3, <3>1 DEF ConfirmationRow
  <2>5. confirmation'[k].user = confirmation[k].user
    BY <1>2, <2>1, ConfirmationsKeepTheirAddress
  <2>6. y.user = x.user
    BY <1>2, <1>3, LinkingBegins DEF Linking, CallRow
  <2>7. ASSUME y.pc = "commit" PROVE identity'[y.subject] = None
    <3>1. x.subject \in Subject
      BY <1>2, <1>3 DEF Inv, CallsAreFormed, Formed, Linking
    <3>2. CASE x.pc = "commit"
      BY <1>2, <1>3, <2>2, <3>1, <3>2, IdentitiesMove, ZenonT(60) DEF Inv, LinksAreExclusive
    <3>3. CASE x.pc # "commit"
      <4>1. InsertIdentity(c) /\ identity[confirmation[k].subject] = None
        BY <1>3, <2>7, <3>3, LinkingBegins DEF Linking
      <4> QED
        BY <1>2, <2>1, <4>1 DEF InsertIdentity
    <3> QED
      BY <3>2, <3>3
  <2>8. ASSUME NEW d \in Call \ {c}, Linking(d)'
        PROVE  /\ call'[d].confirmation # y.confirmation
               /\ y.pc = "commit" /\ call'[d].pc = "commit" => call'[d].subject # y.subject
    <3>1. CASE ~Linking(d)
      <4>1. /\ call[d].pc = "lock" /\ LockConfirmation(d)
            /\ call'[d] = [call[d] EXCEPT !.pc = "link",
                             !.user = confirmation[call[d].confirmation].user]
        BY <2>8, <3>1, LinkingBegins
      <4>2. call[d].confirmation # k
        BY <1>3, <4>1 DEF LockConfirmation
      <4>3. call'[d].pc = "link"
        BY <4>1, <1>1, <2>8 DEF CallRow
      <4> QED
        BY <1>1, <1>2, <2>8, <4>2, <4>3
    <3>2. CASE Linking(d)
      <4>1. call[d].confirmation # k
              /\ (x.pc = "commit" /\ call[d].pc = "commit" => call[d].subject # x.subject)
        BY <1>3, <2>8, <3>2 DEF Inv, LinksAreExclusive
      <4>2. ASSUME y.pc = "commit", x.pc # "commit", call'[d].pc = "commit"
            PROVE  call[d].subject # x.subject
        <5>1. InsertIdentity(c) /\ y # x
          BY <1>3, <4>2, LinkingBegins DEF Linking
        <5>2. call'[d] = call[d]
          BY <5>1, <2>8, TheOthersStay
        <5> QED
          BY <2>8, <3>2, <4>2, <5>1, <5>2 DEF InsertIdentity, Claimed
      <4>3. ASSUME call'[d].pc = "commit", call[d].pc # "commit", y.pc = "commit"
            PROVE  call[d].subject # x.subject
        <5>1. InsertIdentity(d) /\ call'[d] # call[d]
          BY <2>8, <3>2, <4>3, LinkingBegins DEF Linking
        <5>2. y = x
          BY <5>1, <2>8, TheOthersStay
        <5> QED
          BY <1>3, <2>8, <4>3, <5>1, <5>2 DEF InsertIdentity, Claimed
      <4> QED
        BY <1>1, <1>2, <2>8, <4>1, <4>2, <4>3
    <3> QED
      BY <3>1, <3>2
  <2> QED
    BY <1>2, <2>1, <2>4, <2>5, <2>6, <2>7, <2>8
<1>4. CASE ~Linking(c)
  <2>1. /\ x.pc = "lock" /\ LockConfirmation(c)
        /\ confirmation[k].state \in {"active", "expired"}
        /\ y = [x EXCEPT !.pc = "link", !.user = confirmation[k].user]
    BY <1>4, LinkingBegins
  <2>2. y.pc = "link" /\ y.user = confirmation[k].user
    BY <1>2, <2>1 DEF CallRow
  <2>3. confirmation' = confirmation
    BY <2>1 DEF LockConfirmation
  <2>4. ASSUME NEW d \in Call \ {c}, Linking(d)'
        PROVE  call'[d].confirmation # k
    <3>1. call'[d] = call[d]
      BY <2>1, <2>2, <2>4, TheOthersStay
    <3>2. Linking(d)
      BY <2>4, <3>1 DEF Linking
    <3>3. y # Idle
      BY <2>2 DEF Idle
    <3> QED
      BY <2>1, <3>1, <3>2, <3>3 DEF LockConfirmation
  <2> QED
    BY <1>2, <2>1, <2>2, <2>3, <2>4
<1> QED
  BY <1>3, <1>4

\* A link is committed with nothing in its way, and writes both rows.
LEMMA CommitsFindTheirWay ==
  ASSUME Inv, Next, NEW c \in Call, CommitLink(c)
  PROVE  /\ call[c].confirmation \in Confirmation /\ call[c].subject \in Subject
         /\ confirmation[call[c].confirmation].state \in {"active", "expired"}
         /\ identity[call[c].subject] = None
         /\ identity'[call[c].subject] # None
         /\ identity'[call[c].subject] =
              [user |-> call[c].user, via |-> call[c].confirmation, by |-> call[c].subject]
         /\ confirmation'[call[c].confirmation] =
              [state |-> "confirmed", user |-> call[c].user, subject |-> call[c].subject]
<1> DEFINE k == call[c].confirmation  g == call[c].subject
<1>1. Linking(c) /\ call[c].pc = "commit"
  BY DEF CommitLink
<1>2. k \in Confirmation /\ g \in Subject /\ call[c].user \in User
  BY <1>1 DEF Linking, Inv, TypeOK, CallRow, CallsAreFormed, Formed
<1>3. /\ confirmation[k] \in ConfirmationRow
      /\ confirmation[k].state \in {"active", "expired"}
      /\ confirmation[k].user = call[c].user /\ confirmation[k].subject = g
      /\ identity[g] = None
  BY <1>1, <1>2 DEF Linking, Inv, TypeOK, LinksAreExclusive, LinksAreChecked
<1>4. /\ identity'[g] = [user |-> call[c].user, via |-> k, by |-> g]
      /\ confirmation'[k] = [confirmation[k] EXCEPT !.state = "confirmed"]
  BY <1>2, <1>3 DEF CommitLink, Inv, TypeOK
<1>5. [user |-> call[c].user, via |-> k, by |-> g] # None
  BY <1>2, NoneIsNoValue DEF Identity
<1> QED
  BY <1>2, <1>3, <1>4, <1>5 DEF ConfirmationRow

LEMMA LinksStayEarned ==
  ASSUME Inv, Next
  PROVE  LinksAreEarned'
<1>1. ASSUME NEW g \in Subject, identity'[g] # None
      PROVE  /\ identity'[g].by = g
             /\ confirmation'[identity'[g].via] =
                  [state |-> "confirmed", user |-> identity'[g].user, subject |-> g]
  <2>1. ASSUME NEW c \in Call, CommitLink(c), call[c].subject = g
        PROVE  /\ identity'[g].by = g
               /\ confirmation'[identity'[g].via] =
                    [state |-> "confirmed", user |-> identity'[g].user, subject |-> g]
    <3>1. /\ identity'[g] = [user |-> call[c].user, via |-> call[c].confirmation, by |-> g]
          /\ confirmation'[call[c].confirmation] =
               [state |-> "confirmed", user |-> call[c].user, subject |-> g]
      BY <2>1, CommitsFindTheirWay
    <3> QED
      BY <3>1
  <2>2. CASE identity'[g] = identity[g]
    <3> DEFINE k == identity[g].via
    <3>1. /\ identity[g].by = g /\ k \in Confirmation
          /\ confirmation[k] = [state |-> "confirmed", user |-> identity[g].user, subject |-> g]
      BY <1>1, <2>2 DEF Inv, LinksAreEarned, TypeOK, Identity
    <3>2. confirmation[k].state = "confirmed"
      BY <3>1
    <3>3. ~ \E c \in Call : CommitLink(c) /\ call[c].confirmation = k
      BY <3>2, CommitsFindTheirWay
    <3>4. confirmation'[k] = confirmation[k]
      <4> HIDE DEF k
      <4> QED
        BY <3>1, <3>2, <3>3, ConfirmationsMove DEF ConfirmationMove
    <3> QED
      BY <2>2, <3>1, <3>4
  <2> QED
    BY <2>1, <2>2, IdentitiesMove
<1>2. ASSUME NEW k \in Confirmation, confirmation'[k].state = "confirmed"
      PROVE  /\ identity'[confirmation'[k].subject] # None
             /\ identity'[confirmation'[k].subject].via = k
  <2>1. ASSUME NEW c \in Call, CommitLink(c), call[c].confirmation = k
        PROVE  /\ identity'[confirmation'[k].subject] # None
               /\ identity'[confirmation'[k].subject].via = k
    <3>1. confirmation'[k].subject = call[c].subject
      <4>1. confirmation'[k] =
              [state |-> "confirmed", user |-> call[c].user, subject |-> call[c].subject]
        BY <2>1, CommitsFindTheirWay
      <4> QED
        BY <4>1
    <3>2. /\ identity'[call[c].subject] # None
          /\ identity'[call[c].subject] =
               [user |-> call[c].user, via |-> k, by |-> call[c].subject]
      BY <2>1, CommitsFindTheirWay
    <3> QED
      BY <3>1, <3>2
  <2>2. CASE ~ \E c \in Call : CommitLink(c) /\ call[c].confirmation = k
    <3>1. confirmation'[k] = confirmation[k]
      <4>1. /\ ConfirmationMove(k)
            /\ confirmation[k] \in ConfirmationRow
            /\ confirmation'[k] # [confirmation[k] EXCEPT !.state = "expired"]
        BY <1>2, ConfirmationsMove DEF Inv, TypeOK, ConfirmationRow
      <4>2. \A u \in User, g \in Subject :
              confirmation'[k] # [state |-> "active", user |-> u, subject |-> g]
        BY <1>2
      <4> QED
        BY <2>2, <4>1, <4>2, Zenon DEF ConfirmationMove
    <3>2. /\ identity[confirmation[k].subject] # None
          /\ identity[confirmation[k].subject].via = k
          /\ confirmation[k].subject \in Subject
      BY <1>2, <3>1 DEF Inv, LinksAreEarned, ConfirmationsAreAddressed
    <3>3. identity'[confirmation[k].subject] = identity[confirmation[k].subject]
      <4>1. ASSUME NEW c \in Call, CommitLink(c), call[c].subject = confirmation[k].subject
            PROVE  FALSE
        BY <3>2, <4>1, CommitsFindTheirWay
      <4> QED
        BY <3>2, <4>1, IdentitiesMove
    <3> QED
      BY <3>1, <3>2, <3>3
  <2> QED
    BY <2>1, <2>2
<1> QED
  BY <1>1, <1>2 DEF LinksAreEarned

---------------------------------------------------------------------------
(***************************************************************************)
(* Passwords: a derived hash is in nobody else's hands, and the lock on a  *)
(* credential keeps it as its holder compared it.                          *)
(***************************************************************************)

\* Where a call gets the hash it carries from.
LEMMA NewHashesAreDerived ==
  ASSUME Inv, Next, NEW c \in Call, call'[c].new # None
  PROVE  \/ call'[c].new = call[c].new
         \/ Fresh(call'[c].new) /\ call'[c] # call[c]
<1> DEFINE x == call[c]  y == call'[c]
<1>1. x \in CallRow /\ Formed(x)
  BY DEF Inv, TypeOK, CallsAreFormed
<1>2. y # Idle
  BY DEF Idle
<1>3. ASSUME \/ \E u \in User :
                  y = [Idle EXCEPT !.pc = "read", !.user = u, !.window = window[u].no]
             \/ \E g \in Subject : y = [Idle EXCEPT !.pc = "find", !.subject = g]
             \/ \E g \in Subject, k \in Confirmation :
                  y = [Idle EXCEPT !.pc = "check", !.subject = g, !.confirmation = k]
             \/ y = [Idle EXCEPT !.pc = "session", !.user = x.user, !.subject = x.subject]
             \/ \E u \in User, s \in Session :
                  y = [Idle EXCEPT !.pc = "load", !.user = u, !.own = s]
      PROVE  FALSE
  BY <1>3 DEF Idle
<1>4. ASSUME \/ y = [x EXCEPT !.pc = "release"] \/ y = [x EXCEPT !.pc = "session"]
             \/ y = [x EXCEPT !.pc = "again"] \/ y = [x EXCEPT !.pc = "match"]
             \/ y = [x EXCEPT !.pc = "lock"] \/ y = [x EXCEPT !.pc = "commit"]
             \/ y = [x EXCEPT !.pc = "revoke"]
             \/ \E u \in User : y = [x EXCEPT !.pc = "session", !.user = u]
             \/ y = [x EXCEPT !.pc = "link", !.user = confirmation[x.confirmation].user]
             \/ y = [x EXCEPT !.pc = "commit", !.scan = SessionsOf(x.user) \ {x.own}]
      PROVE  y.new = x.new
  BY <1>1, <1>4 DEF CallRow
<1>5. ASSUME x.pc = "load", NEW h \in Hash, Fresh(h),
             y = [x EXCEPT !.old = password[x.user], !.new = h,
                    !.pc = IF password[x.user] = None THEN "insert" ELSE "update"]
      PROVE  Fresh(y.new) /\ y # x
  <2>1. y.new = h /\ x.new = None
    BY <1>1, <1>5 DEF CallRow, Formed
  <2> QED
    BY <1>5, <2>1
<1>6. ASSUME x.pc = "idle", NEW u \in User, NEW h \in Hash, Fresh(h),
             y = [Idle EXCEPT !.pc = "rewrite", !.user = u, !.new = h]
      PROVE  Fresh(y.new) /\ y # x
  <2>1. y.new = h /\ x.new = None
    BY <1>1, <1>6 DEF Idle, Formed
  <2> QED
    BY <1>6, <2>1
<1>7. CASE y = x
  BY <1>7
<1>8. Move(c)
  BY CallsMove
<1> QED
  BY <1>2, <1>3, <1>4, <1>5, <1>6, <1>7, <1>8, Zenon DEF Move

\* Whoever writes a password is done.
LEMMA WritersAreDone ==
  ASSUME Inv, NEW c \in Call, InsertPassword(c) \/ CommitPassword(c)
  PROVE  call'[c] = Idle
BY DEF InsertPassword, CommitPassword, End, Inv, TypeOK

LEMMA HashesStayNew ==
  ASSUME Inv, Next
  PROVE  HashesAreNew'
<1> SUFFICES ASSUME NEW c \in Call, call'[c].new # None
             PROVE  /\ \A u \in User : password'[u] # call'[c].new
                    /\ \A d \in Call \ {c} : call'[d].new # call'[c].new
  BY DEF HashesAreNew
<1> DEFINE h == call'[c].new
<1>1. ASSUME NEW u \in User PROVE password'[u] # h
  <2>1. password[u] # h
    BY NewHashesAreDerived DEF Inv, HashesAreNew, Fresh
  <2>2. ASSUME NEW e \in Call, password'[u] = call[e].new,
               InsertPassword(e) \/ CommitPassword(e)
        PROVE  password'[u] # h
    <3>1. e # c
      BY <2>2, WritersAreDone DEF Idle
    <3> QED
      BY <2>2, <3>1, NewHashesAreDerived DEF Inv, HashesAreNew, Fresh
  <2> QED
    BY <2>1, <2>2, PasswordsMove
<1>2. ASSUME NEW d \in Call \ {c} PROVE call'[d].new # h
  <2>1. CASE h = call[c].new
    <3>1. call[d].new # h
      BY <2>1 DEF Inv, HashesAreNew
    <3>2. CASE call'[d].new # None
      BY <2>1, <3>1, <3>2, NewHashesAreDerived DEF Fresh
    <3> QED
      BY <3>2
  <2>2. CASE Fresh(h) /\ call'[c] # call[c]
    BY <2>2, TheOthersStay DEF Fresh
  <2> QED
    BY <2>1, <2>2, NewHashesAreDerived
<1> QED
  BY <1>1, <1>2

LEMMA HoldingBegins ==
  ASSUME Inv, Next, NEW c \in Call, NEW u \in User, HoldsPassword(c, u)'
  PROVE  LET x == call[c]  y == call'[c] IN
         /\ y.user = x.user /\ y.own = x.own /\ y.old = x.old /\ y.new = x.new
         /\ \/ HoldsPassword(c, u)
            \/ /\ y # x /\ PasswordFree(u)
               /\ x.own # None => password[u] = x.old
<1> DEFINE x == call[c]  y == call'[c]
<1>1. x \in CallRow /\ Formed(x)
  BY DEF Inv, TypeOK, CallsAreFormed
<1>2. y.pc \in {"revoke", "commit"} /\ y.new # None /\ y.user = u
  BY DEF HoldsPassword
<1>3. \/ y = x
      \/ /\ x.pc = "update" /\ PasswordFree(x.user) /\ password[x.user] = x.old
         /\ y = [x EXCEPT !.pc = "revoke"]
      \/ x.pc = "rewrite" /\ PasswordFree(x.user) /\ y = [x EXCEPT !.pc = "revoke"]
      \/ x.pc = "revoke" /\ y = [x EXCEPT !.pc = "commit",
                                   !.scan = SessionsOf(x.user) \ {x.own}]
      \/ x.pc = "link" /\ y = [x EXCEPT !.pc = "commit"]
  <2>1. Move(c)
    BY CallsMove
  <2>2. y # Idle
    BY <1>2 DEF Idle
  <2>3. ASSUME \/ \E v \in User :
                    y = [Idle EXCEPT !.pc = "read", !.user = v, !.window = window[v].no]
               \/ \E g \in Subject : y = [Idle EXCEPT !.pc = "find", !.subject = g]
               \/ \E g \in Subject, k \in Confirmation :
                    y = [Idle EXCEPT !.pc = "check", !.subject = g, !.confirmation = k]
               \/ y = [Idle EXCEPT !.pc = "session", !.user = x.user, !.subject = x.subject]
               \/ \E v \in User, s \in Session :
                    y = [Idle EXCEPT !.pc = "load", !.user = v, !.own = s]
               \/ \E v \in User, h \in Hash :
                    y = [Idle EXCEPT !.pc = "rewrite", !.user = v, !.new = h]
        PROVE  FALSE
    BY <1>2, <2>3 DEF Idle
  <2>4. ASSUME \/ y = [x EXCEPT !.pc = "release"] \/ y = [x EXCEPT !.pc = "session"]
               \/ y = [x EXCEPT !.pc = "again"] \/ y = [x EXCEPT !.pc = "match"]
               \/ y = [x EXCEPT !.pc = "lock"]
               \/ \E v \in User : y = [x EXCEPT !.pc = "session", !.user = v]
               \/ y = [x EXCEPT !.pc = "link", !.user = confirmation[x.confirmation].user]
               \/ \E h \in Hash :
                    y = [x EXCEPT !.old = password[x.user], !.new = h,
                          !.pc = IF password[x.user] = None THEN "insert" ELSE "update"]
        PROVE  FALSE
    BY <1>1, <1>2, <2>4 DEF CallRow
  <2> QED
    BY <2>1, <2>2, <2>3, <2>4, Zenon DEF Move
<1>4. /\ y.user = x.user /\ y.own = x.own /\ y.old = x.old /\ y.new = x.new
  BY <1>1, <1>3 DEF CallRow
<1>5. CASE x.pc = "update" \/ x.pc = "rewrite"
  BY <1>1, <1>2, <1>3, <1>4, <1>5 DEF Formed
<1>6. CASE x.pc = "revoke" \/ y = x
  BY <1>2, <1>4, <1>6 DEF HoldsPassword
<1>7. x.pc # "link"
  BY <1>1, <1>2, <1>4, NoneIsNoValue DEF Formed
<1> QED
  BY <1>3, <1>4, <1>5, <1>6, <1>7

LEMMA PasswordsStayHeld ==
  ASSUME Inv, Next
  PROVE  PasswordsAreHeld'
<1> SUFFICES ASSUME NEW c \in Call, NEW u \in User, HoldsPassword(c, u)'
             PROVE  /\ \A d \in Call \ {c} : ~HoldsPassword(d, u)'
                    /\ call'[c].own # None => password'[u] = call'[c].old
  BY DEF PasswordsAreHeld
<1>1. ASSUME NEW d \in Call \ {c}, HoldsPassword(d, u)'
      PROVE  FALSE
  <2>1. CASE HoldsPassword(c, u) /\ HoldsPassword(d, u)
    BY <2>1 DEF Inv, PasswordsAreHeld
  <2>2. CASE ~HoldsPassword(c, u)
    <3>1. PasswordFree(u) /\ call'[c] # call[c]
      BY <2>2, HoldingBegins
    <3>2. call'[d] = call[d]
      BY <3>1, TheOthersStay
    <3> QED
      BY <1>1, <3>1, <3>2 DEF PasswordFree, HoldsPassword
  <2>3. CASE ~HoldsPassword(d, u)
    <3>1. PasswordFree(u) /\ call'[d] # call[d]
      BY <1>1, <2>3, HoldingBegins
    <3>2. call'[c] = call[c]
      BY <3>1, TheOthersStay
    <3> QED
      BY <3>1, <3>2 DEF PasswordFree, HoldsPassword
  <2> QED
    BY <2>1, <2>2, <2>3
<1>2. call'[c].own # None => password[u] = call'[c].old
  BY HoldingBegins DEF Inv, PasswordsAreHeld
<1>3. ASSUME NEW e \in Call,
             \/ InsertPassword(e) /\ PasswordFree(u)
             \/ CommitPassword(e) /\ HoldsPassword(e, u)
      PROVE  FALSE
  <2>1. call'[e] = Idle
    BY <1>3, WritersAreDone
  <2>2. e # c
    BY <2>1 DEF HoldsPassword, Idle
  <2>3. e # c /\ call'[e] # call[e]
    BY <1>3, <2>1, <2>2 DEF InsertPassword, CommitPassword, Idle
  <2>4. call'[c] = call[c]
    BY <2>3, TheOthersStay
  <2>5. HoldsPassword(c, u)
    BY <2>4 DEF HoldsPassword
  <2> QED
    BY <1>3, <2>2, <2>5 DEF PasswordFree, Inv, PasswordsAreHeld
<1>4. password'[u] = password[u]
  BY <1>3, PasswordsMove
<1> QED
  BY <1>1, <1>2, <1>4

LEMMA ScansStayOwn ==
  ASSUME Inv, Next
  PROVE  ScansAreOwn'
<1> SUFFICES ASSUME NEW c \in Call, call'[c].pc = "commit", call'[c].new # None,
                    NEW s \in call'[c].scan
             PROVE  /\ session'[s].state # "unborn" /\ session'[s].user = call'[c].user
                    /\ s # call'[c].own
  BY DEF ScansAreOwn
<1> DEFINE x == call[c]  y == call'[c]
<1>1. x \in CallRow /\ Formed(x) /\ y \in CallRow
  BY CallsStayTyped DEF Inv, TypeOK, CallsAreFormed
<1>2. s \in Session /\ session[s] \in SessionRow
  BY <1>1 DEF Inv, TypeOK, CallRow
<1>3. PICK u \in User : u = y.user
  BY CallsStayFormed DEF Formed
<1>4. HoldsPassword(c, u)'
  BY <1>3 DEF HoldsPassword
<1>5. y.user = x.user /\ y.own = x.own /\ y.new = x.new
  BY <1>4, HoldingBegins
<1>6. y # Idle
  BY DEF Idle
<1>7. \A pc \in {"release", "session", "again", "match", "lock", "revoke"} :
        y # [x EXCEPT !.pc = pc]
  BY <1>1 DEF CallRow
<1>8. x.pc \in {"insert", "update", "rewrite", "revoke", "commit"}
  BY <1>1, <1>5 DEF Formed
<1>9. y # [Idle EXCEPT !.pc = "session", !.user = x.user, !.subject = x.subject]
  BY DEF Idle
<1>10. \/ x.pc = "commit" /\ y = x
       \/ x.pc = "revoke" /\ y = [x EXCEPT !.pc = "commit",
                                     !.scan = SessionsOf(x.user) \ {x.own}]
  <2>1. y = x => x.pc = "commit"
    OBVIOUS
  <2> QED
    BY <1>6, <1>7, <1>8, <1>9, <2>1, CallsMove, Zenon DEF Move
<1>11. session[s].state # "unborn" /\ session[s].user = x.user /\ s # x.own
  <2>1. CASE x.pc = "commit" /\ y = x
    BY <2>1 DEF Inv, ScansAreOwn
  <2>2. CASE y = [x EXCEPT !.pc = "commit", !.scan = SessionsOf(x.user) \ {x.own}]
    <3>1. s \in SessionsOf(x.user) \ {x.own}
      BY <1>1, <2>2 DEF CallRow
    <3> QED
      BY <3>1 DEF SessionsOf
  <2> QED
    BY <1>10, <2>1, <2>2
<1>12. session'[s].state # "unborn" /\ session'[s].user = session[s].user
  BY <1>2, <1>11, SessionsMove DEF SessionMove, SessionRow
<1> QED
  BY <1>5, <1>11, <1>12

---------------------------------------------------------------------------
(***************************************************************************)
(* The failure budget.                                                     *)
(***************************************************************************)

\* Only a charge puts a call among the attempts of the running window.
LEMMA AttemptsAreCharged ==
  ASSUME Inv, Next, NEW u \in User, NEW c \in Call,
         call'[c].pc \in {"read", "release"}, call'[c].user = u,
         call'[c].window = window[u].no
  PROVE  c \in Pending(u) \/ Charge(c, u)
<1> DEFINE x == call[c]  y == call'[c]
<1>1. x \in CallRow /\ Formed(x)
  BY DEF Inv, TypeOK, CallsAreFormed
<1>2. /\ y # Idle
      /\ y # [Idle EXCEPT !.pc = "session", !.user = x.user, !.subject = x.subject]
  <2>1. /\ Idle.pc = "idle"
        /\ [Idle EXCEPT !.pc = "session", !.user = x.user, !.subject = x.subject].pc = "session"
    BY DEF Idle
  <2> QED
    BY <2>1
<1>3. ASSUME \/ \E g \in Subject : y = [Idle EXCEPT !.pc = "find", !.subject = g]
             \/ \E g \in Subject, k \in Confirmation :
                  y = [Idle EXCEPT !.pc = "check", !.subject = g, !.confirmation = k]
             \/ \E v \in User, s \in Session :
                  y = [Idle EXCEPT !.pc = "load", !.user = v, !.own = s]
             \/ \E v \in User, h \in Hash :
                  y = [Idle EXCEPT !.pc = "rewrite", !.user = v, !.new = h]
      PROVE  FALSE
  BY <1>3 DEF Idle
<1>4. ASSUME \/ y = [x EXCEPT !.pc = "session"] \/ y = [x EXCEPT !.pc = "revoke"]
             \/ y = [x EXCEPT !.pc = "again"] \/ y = [x EXCEPT !.pc = "match"]
             \/ y = [x EXCEPT !.pc = "lock"] \/ y = [x EXCEPT !.pc = "commit"]
             \/ \E v \in User : y = [x EXCEPT !.pc = "session", !.user = v]
             \/ y = [x EXCEPT !.pc = "link", !.user = confirmation[x.confirmation].user]
             \/ y = [x EXCEPT !.pc = "commit", !.scan = SessionsOf(x.user) \ {x.own}]
             \/ \E h \in Hash :
                  y = [x EXCEPT !.old = password[x.user], !.new = h,
                        !.pc = IF password[x.user] = None THEN "insert" ELSE "update"]
      PROVE  FALSE
  BY <1>1, <1>4 DEF CallRow
<1>5. \/ y = x
      \/ x.pc = "read" /\ y = [x EXCEPT !.pc = "release"]
      \/ \E v \in User :
           Charge(c, v) /\ y = [Idle EXCEPT !.pc = "read", !.user = v, !.window = window[v].no]
  <2>1. Move(c)
    BY CallsMove
  <2> QED
    BY <1>2, <1>3, <1>4, <2>1, ZenonT(60) DEF Move
<1>6. CASE y = x \/ (x.pc = "read" /\ y = [x EXCEPT !.pc = "release"])
  BY <1>1, <1>6 DEF CallRow, Pending
<1>7. CASE \E v \in User :
             Charge(c, v) /\ y = [Idle EXCEPT !.pc = "read", !.user = v, !.window = window[v].no]
  <2>1. PICK v \in User :
             Charge(c, v) /\ y = [Idle EXCEPT !.pc = "read", !.user = v, !.window = window[v].no]
    BY <1>7
  <2>2. y.user = v
    BY <2>1 DEF Idle
  <2> QED
    BY <2>1, <2>2
<1> QED
  BY <1>5, <1>6, <1>7

\* One address in one step: what is spent stays counted, and within the limit.
LEMMA OneWindowStaysCounted ==
  ASSUME Inv, Next, NEW u \in User
  PROVE  /\ window'[u].no >= window[u].no
         /\ IsFiniteSet(Pending(u))'
         /\ (Cardinality(Pending(u)) <= window[u].spent)'
         /\ (window[u].spent <= window[u].count + window[u].astray)'
         /\ (window[u].spent <= LoginEmailFailureLimit + window[u].astray)'
<1> DEFINE w == window[u]  P == Pending(u)  Q == Pending(u)'
<1> USE LimitIsPositive
<1>1. /\ w \in WindowRow /\ w.count \in Nat /\ w.no \in Nat /\ w.spent \in Nat
      /\ w.astray \in Nat /\ window \in [User -> WindowRow]
  BY BoundsAreNumbers DEF Inv, TypeOK, WindowRow
<1>2. /\ IsFiniteSet(P) /\ Cardinality(P) \in Nat /\ Cardinality(P) <= w.spent
      /\ w.spent <= w.count + w.astray /\ w.spent <= LoginEmailFailureLimit + w.astray
  BY FS_CardinalityType DEF Inv, ChargesAreCounted, GuessesAreBounded
<1>3. ASSUME NEW c \in Q, window'[u].no = w.no
      PROVE  c \in Call /\ (c \in P \/ Charge(c, u))
  BY <1>3, AttemptsAreCharged DEF Pending
<1>4. ASSUME window'[u].no = w.no, ~ \E c \in Call : Charge(c, u)
      PROVE  IsFiniteSet(Q) /\ Cardinality(Q) \in Nat /\ Cardinality(Q) <= Cardinality(P)
  <2>1. Q \subseteq P
    BY <1>3, <1>4
  <2> QED
    BY <1>2, <2>1, FS_Subset, FS_CardinalityType
<1>5. ASSUME NEW c \in Call, Charge(c, u)
      PROVE  window'[u] = [w EXCEPT !.count = w.count + 1, !.spent = w.spent + 1]
               /\ w.count < LoginEmailFailureLimit
  BY <1>1, <1>5 DEF Charge, Counted, WindowRow
<1>6. CASE window'[u] = w
  <2>1. ~ \E c \in Call : Charge(c, u)
    <3>1. ASSUME NEW c \in Call, Charge(c, u) PROVE FALSE
      <4>1. window'[u].count = w.count + 1
        BY <1>1, <1>5, <3>1 DEF WindowRow
      <4> QED
        BY <1>1, <1>6, <4>1
    <3> QED
      BY <3>1
  <2> QED
    BY <1>1, <1>2, <1>4, <1>6, <2>1
<1>7. CASE WindowEnds(u)
  <2>1. window'[u] = [count |-> 0, no |-> w.no + 1, spent |-> 0, astray |-> 0]
          /\ call' = call
    BY <1>1, <1>7 DEF WindowEnds
  <2>2. Q = {}
    <3>1. ASSUME NEW c \in Q PROVE FALSE
      <4>1. /\ c \in Call /\ call[c].pc \in {"read", "release"} /\ call[c].user = u
            /\ call[c].window = w.no + 1
        BY <2>1, <3>1 DEF Pending
      <4>2. call[c].window <= w.no
        BY <4>1 DEF Inv, ChargesAreCounted
      <4> QED
        BY <1>1, <4>1, <4>2
    <3> QED
      BY <3>1
  <2>3. IsFiniteSet(Q) /\ Cardinality(Q) = 0
    BY <2>2, FS_EmptySet
  <2> QED
    BY <1>1, <2>1, <2>3
<1>8. CASE ChargeInVain(u)
  <2>1. window'[u] = [w EXCEPT !.count = w.count + 1] /\ call' = call
    BY <1>1, <1>8 DEF ChargeInVain, Counted, WindowRow
  <2>2. /\ window'[u].count = w.count + 1 /\ window'[u].no = w.no
        /\ window'[u].spent = w.spent /\ window'[u].astray = w.astray
    BY <1>1, <2>1 DEF WindowRow
  <2>3. Q = P
    BY <2>1, <2>2 DEF Pending
  <2> QED
    BY <1>1, <1>2, <2>2, <2>3
<1>9. ASSUME NEW c \in Call, Charge(c, u)
      PROVE  /\ window'[u].no = w.no /\ window'[u].count = w.count + 1
             /\ window'[u].spent = w.spent + 1 /\ window'[u].astray = w.astray
             /\ IsFiniteSet(Q) /\ Cardinality(Q) <= w.spent + 1
  <2>1. /\ window'[u].count = w.count + 1 /\ window'[u].no = w.no
        /\ window'[u].spent = w.spent + 1 /\ window'[u].astray = w.astray
    BY <1>1, <1>5, <1>9 DEF WindowRow
  <2>2. Q \subseteq P \cup {c}
    <3>1. ASSUME NEW d \in Call, d # c, Charge(d, u) PROVE FALSE
      <4>1. call'[c] # call[c] /\ call'[d] # call[d]
        BY <1>9, <3>1 DEF Charge, Begin, Inv, TypeOK, Idle
      <4> QED
        BY <3>1, <4>1, TheOthersStay
    <3> QED
      BY <1>3, <2>1, <3>1
  <2>3. /\ IsFiniteSet(P \cup {c}) /\ Cardinality(P \cup {c}) <= Cardinality(P) + 1
        /\ Cardinality(P \cup {c}) \in Nat
    <3>1. /\ IsFiniteSet(P \cup {c})
          /\ \/ Cardinality(P \cup {c}) = Cardinality(P)
             \/ Cardinality(P \cup {c}) = Cardinality(P) + 1
      BY <1>2, FS_AddElement
    <3> QED
      BY <1>2, <3>1
  <2>4. IsFiniteSet(Q) /\ Cardinality(Q) <= Cardinality(P \cup {c}) /\ Cardinality(Q) \in Nat
    BY <2>2, <2>3, FS_Subset, FS_CardinalityType
  <2> QED
    BY <1>1, <1>2, <2>1, <2>3, <2>4
<1>10. ASSUME NEW c \in Call, call[c].pc \in {"release", "again"}, call[c].user = u,
              Release(c) \/ ReleaseUnheard(c), GivenBack(c), window'[u] # w
       PROVE  /\ window'[u].no = w.no /\ w.count > 0 /\ window'[u].count = w.count - 1
              /\ IsFiniteSet(Q)
              /\ \/ /\ window'[u].spent = w.spent - 1 /\ window'[u].astray = w.astray
                    /\ Cardinality(Q) <= w.spent - 1
                 \/ /\ window'[u].spent = w.spent /\ window'[u].astray = w.astray + 1
                    /\ Cardinality(Q) <= w.spent
  <2>1. w.count # 0
    BY <1>10 DEF GivenBack
  <2>2. ~ \E d \in Call : Charge(d, u)
    <3>1. ASSUME NEW d \in Call, Charge(d, u) PROVE FALSE
      <4>1. window'[u].count = w.count + 1
        BY <1>1, <1>5, <3>1 DEF WindowRow
      <4>2. window'[u].count = w.count - 1
        BY <1>1, <1>10, <2>1 DEF GivenBack, WindowRow
      <4> QED
        BY <1>1, <4>1, <4>2
    <3> QED
      BY <3>1
  <2>3. CASE call[c].pc = "release" /\ w.no = call[c].window
    <3>1. window'[u] = [w EXCEPT !.count = w.count - 1, !.spent = w.spent - 1]
      BY <1>1, <1>10, <2>1, <2>3 DEF GivenBack, WindowRow
    <3>2. /\ window'[u].count = w.count - 1 /\ window'[u].no = w.no
          /\ window'[u].spent = w.spent - 1 /\ window'[u].astray = w.astray
      BY <1>1, <3>1 DEF WindowRow
    <3>3. c \in P
      BY <1>10, <2>3 DEF Pending
    <3>4. c \notin Q
      <4>1. call'[c].pc \in {"session", "again"}
        BY <1>10 DEF Release, ReleaseUnheard, Goto, Inv, TypeOK, CallRow
      <4> QED
        BY <4>1 DEF Pending
    <3>5. Q \subseteq P \ {c}
      BY <1>3, <2>2, <3>2, <3>4
    <3>6. IsFiniteSet(P \ {c}) /\ Cardinality(P \ {c}) = Cardinality(P) - 1
      BY <1>2, <3>3, FS_RemoveElement
    <3>7. IsFiniteSet(Q) /\ Cardinality(Q) <= Cardinality(P \ {c}) /\ Cardinality(Q) \in Nat
      BY <3>5, <3>6, FS_Subset, FS_CardinalityType
    <3> QED
      BY <1>1, <1>2, <2>1, <3>2, <3>6, <3>7
  <2>4. CASE ~(call[c].pc = "release" /\ w.no = call[c].window)
    <3>1. window'[u] = [w EXCEPT !.count = w.count - 1, !.astray = w.astray + 1]
      BY <1>1, <1>10, <2>1, <2>4 DEF GivenBack, WindowRow
    <3>2. /\ window'[u].count = w.count - 1 /\ window'[u].no = w.no
          /\ window'[u].spent = w.spent /\ window'[u].astray = w.astray + 1
      BY <1>1, <3>1 DEF WindowRow
    <3> QED
      BY <1>1, <1>2, <1>4, <2>1, <2>2, <3>2
  <2> QED
    BY <2>3, <2>4
<1>11. CASE \E c \in Call : Charge(c, u)
  BY <1>1, <1>2, <1>5, <1>9, <1>11
<1>12. CASE /\ window'[u] # w
            /\ \E c \in Call :
                 /\ call[c].pc \in {"release", "again"} /\ call[c].user = u
                 /\ Release(c) \/ ReleaseUnheard(c)
                 /\ GivenBack(c)
  <2>1. PICK c \in Call :
          /\ call[c].pc \in {"release", "again"} /\ call[c].user = u
          /\ Release(c) \/ ReleaseUnheard(c)
          /\ GivenBack(c)
    BY <1>12
  <2>2. /\ window'[u].no = w.no /\ w.count > 0 /\ window'[u].count = w.count - 1
        /\ IsFiniteSet(Q)
        /\ \/ /\ window'[u].spent = w.spent - 1 /\ window'[u].astray = w.astray
              /\ Cardinality(Q) <= w.spent - 1
           \/ /\ window'[u].spent = w.spent /\ window'[u].astray = w.astray + 1
              /\ Cardinality(Q) <= w.spent
    BY <1>10, <1>12, <2>1
  <2> QED
    BY <1>1, <1>2, <2>2
<1> QED
  BY <1>6, <1>7, <1>8, <1>11, <1>12, WindowsMove DEF WindowMove

LEMMA ChargesStayCounted ==
  ASSUME Inv, Next
  PROVE  ChargesAreCounted' /\ GuessesAreBounded'
<1>1. ASSUME NEW c \in Call, call'[c].pc \in {"read", "release"}
      PROVE  call'[c].window <= window'[call'[c].user].no
  <2> DEFINE x == call[c]  y == call'[c]
  <2>1. x \in CallRow /\ Formed(x)
    BY DEF Inv, TypeOK, CallsAreFormed
  <2>2. PICK u \in User : u = y.user
    BY <1>1, CallsStayFormed DEF Formed
  <2>3. window[u].no \in Nat /\ window'[u].no \in Nat /\ window'[u].no >= window[u].no
    BY OneWindowStaysCounted, TypesStay, BoundsAreNumbers DEF Inv, TypeOK, WindowRow
  <2>4. /\ y # Idle
        /\ y # [Idle EXCEPT !.pc = "session", !.user = x.user, !.subject = x.subject]
    <3>1. /\ Idle.pc = "idle"
          /\ [Idle EXCEPT !.pc = "session", !.user = x.user, !.subject = x.subject].pc = "session"
      BY DEF Idle
    <3> QED
      BY <1>1, <3>1
  <2>5. ASSUME \/ \E g \in Subject : y = [Idle EXCEPT !.pc = "find", !.subject = g]
               \/ \E g \in Subject, k \in Confirmation :
                    y = [Idle EXCEPT !.pc = "check", !.subject = g, !.confirmation = k]
               \/ \E v \in User, s \in Session :
                    y = [Idle EXCEPT !.pc = "load", !.user = v, !.own = s]
               \/ \E v \in User, h \in Hash :
                    y = [Idle EXCEPT !.pc = "rewrite", !.user = v, !.new = h]
        PROVE  FALSE
    BY <1>1, <2>5 DEF Idle
  <2>6. ASSUME \/ y = [x EXCEPT !.pc = "session"] \/ y = [x EXCEPT !.pc = "revoke"]
               \/ y = [x EXCEPT !.pc = "again"] \/ y = [x EXCEPT !.pc = "match"]
               \/ y = [x EXCEPT !.pc = "lock"] \/ y = [x EXCEPT !.pc = "commit"]
               \/ \E v \in User : y = [x EXCEPT !.pc = "session", !.user = v]
               \/ y = [x EXCEPT !.pc = "link", !.user = confirmation[x.confirmation].user]
               \/ y = [x EXCEPT !.pc = "commit", !.scan = SessionsOf(x.user) \ {x.own}]
               \/ \E h \in Hash :
                    y = [x EXCEPT !.old = password[x.user], !.new = h,
                          !.pc = IF password[x.user] = None THEN "insert" ELSE "update"]
        PROVE  FALSE
    BY <1>1, <2>1, <2>6 DEF CallRow
  <2>7. \/ y = x
        \/ x.pc = "read" /\ y = [x EXCEPT !.pc = "release"]
        \/ \E v \in User :
             y = [Idle EXCEPT !.pc = "read", !.user = v, !.window = window[v].no]
    <3>1. Move(c)
      BY CallsMove
    <3> QED
      BY <2>4, <2>5, <2>6, <3>1, ZenonT(60) DEF Move
  <2>8. CASE y = x \/ (x.pc = "read" /\ y = [x EXCEPT !.pc = "release"])
    <3>1. x.pc \in {"read", "release"} /\ x.user = u /\ y.window = x.window
      BY <1>1, <2>1, <2>2, <2>8 DEF CallRow
    <3>2. x.window <= window[u].no /\ x.window \in Int
      BY <2>1, <3>1, BoundsAreNumbers DEF Inv, ChargesAreCounted, CallRow
    <3> QED
      BY <2>2, <2>3, <3>1, <3>2
  <2>9. CASE \E v \in User :
               y = [Idle EXCEPT !.pc = "read", !.user = v, !.window = window[v].no]
    <3>1. PICK v \in User :
               y = [Idle EXCEPT !.pc = "read", !.user = v, !.window = window[v].no]
      BY <2>9
    <3>2. y.user = v /\ y.window = window[v].no
      BY <3>1 DEF Idle
    <3> QED
      BY <2>2, <2>3, <3>2
  <2> QED
    BY <2>7, <2>8, <2>9
<1> QED
  BY <1>1, OneWindowStaysCounted DEF ChargesAreCounted, GuessesAreBounded

---------------------------------------------------------------------------
LEMMA InitInv ==
  ASSUME Init
  PROVE  Inv
<1> USE DEF Init
<1>1. TypeOK
  <2>1. Idle \in CallRow
    BY BoundsAreNumbers DEF Idle, CallRow, PC
  <2>2. [count |-> 0, no |-> 0, spent |-> 0, astray |-> 0] \in WindowRow
    BY BoundsAreNumbers, LimitIsPositive DEF WindowRow
  <2> QED
    BY <2>1, <2>2 DEF TypeOK, ConfirmationRow, SessionRow
<1>2. \A c \in Call : call[c] = Idle
  OBVIOUS
<1>3. CallsAreFormed
  BY <1>2 DEF CallsAreFormed, Formed, Idle
<1>4. ConfirmationsAreAddressed /\ LinksAreEarned
  BY DEF ConfirmationsAreAddressed, LinksAreEarned
<1>5. LinksAreChecked /\ LinksAreExclusive /\ HashesAreNew /\ PasswordsAreHeld
        /\ ScansAreOwn
  BY <1>2 DEF LinksAreChecked, LinksAreExclusive, HashesAreNew, PasswordsAreHeld,
     ScansAreOwn, Linking, HoldsPassword, Idle
<1>6. ASSUME NEW u \in User PROVE IsFiniteSet(Pending(u)) /\ Cardinality(Pending(u)) = 0
  <2>1. Pending(u) = {}
    BY <1>2 DEF Pending, Idle
  <2> QED
    BY <2>1, FS_EmptySet
<1>7. ChargesAreCounted
  BY <1>2, <1>6 DEF ChargesAreCounted, Idle
<1>8. GuessesAreBounded
  BY LimitIsPositive DEF GuessesAreBounded
<1> QED
  BY <1>1, <1>3, <1>4, <1>5, <1>7, <1>8 DEF Inv

LEMMA StepInv ==
  ASSUME Inv, [Next]_vars
  PROVE  Inv'
<1>1. CASE Next
  <2>1. CallsAreFormed'
    BY <1>1, CallsStayFormed DEF CallsAreFormed
  <2> QED
    BY <1>1, <2>1, TypesStay, ConfirmationsStayAddressed, LinksStayChecked,
       LinksStayExclusive, LinksStayEarned, HashesStayNew, PasswordsStayHeld,
       ScansStayOwn, ChargesStayCounted DEF Inv
<1>2. CASE UNCHANGED vars
  BY <1>2 DEF vars, Inv, TypeOK, CallsAreFormed, ConfirmationsAreAddressed,
     LinksAreChecked, LinksAreExclusive, HashesAreNew, PasswordsAreHeld, ScansAreOwn,
     ChargesAreCounted, LinksAreEarned, GuessesAreBounded, Linking, HoldsPassword,
     Pending
<1> QED
  BY <1>1, <1>2

\* Every state a sequence of requests can reach is one of the invariant's.
THEOREM InvariantHolds == Spec => []Inv
<1> QED
  BY InitInv, StepInv, PTL DEF Spec

\* Every variable stays within the states the code can write.
THEOREM TypeCorrect == Spec => []TypeOK
<1>1. Inv => TypeOK
  BY DEF Inv
<1> QED
  BY <1>1, InvariantHolds, PTL

\* A Google identity is bound to an account by exactly the confirmation that was
\* opened for both and redeemed by the identity itself.
THEOREM LinksAreAlwaysEarned == Spec => []LinksAreEarned
<1>1. Inv => LinksAreEarned
  BY DEF Inv
<1> QED
  BY <1>1, InvariantHolds, PTL

\* The failure budget of an address admits no more failures than its limit, save
\* for releases that came too late or twice.
THEOREM GuessesAreAlwaysBounded == Spec => []GuessesAreBounded
<1>1. Inv => GuessesAreBounded
  BY DEF Inv
<1> QED
  BY <1>1, InvariantHolds, PTL

LEMMA ChangesAreVerified ==
  ASSUME Inv, Next, NEW u \in User, password'[u] # password[u]
  PROVE  \E c \in Call :
           /\ call[c].user = u /\ password'[u] = call[c].new
           /\ call[c].own # None => password[u] = call[c].old
<1>1. PICK c \in Call :
        /\ call[c].user = u /\ password'[u] = call[c].new
        /\ \/ InsertPassword(c) /\ PasswordFree(u) /\ password[u] = None
           \/ CommitPassword(c) /\ HoldsPassword(c, u)
  BY PasswordsMove
<1>2. CASE InsertPassword(c) /\ password[u] = None
  BY <1>1, <1>2 DEF InsertPassword, Inv, CallsAreFormed, Formed
<1>3. CASE HoldsPassword(c, u)
  BY <1>1, <1>3 DEF Inv, PasswordsAreHeld
<1> QED
  BY <1>1, <1>2, <1>3

\* No change of a password overwrites one its caller has not verified.
THEOREM ChangesReplaceWhatTheyVerified == Spec => ChangeReplacesWhatItVerified
<1>1. Inv /\ [Next]_vars =>
        [\A u \in User : password'[u] # password[u] =>
           \E c \in Call :
             /\ call[c].user = u /\ password'[u] = call[c].new
             /\ call[c].own # None => password[u] = call[c].old]_vars
  BY ChangesAreVerified DEF vars
<1> QED
  BY <1>1, InvariantHolds, PTL DEF Spec, ChangeReplacesWhatItVerified

LEMMA EvictionsAreChanges ==
  ASSUME Inv, Next
  PROVE  LET gone == {s \in Session : session[s].state = "open"
                                        /\ session'[s].state = "revoked"} IN
         /\ gone # {} /\ call' # call =>
              \E u \in User : password'[u] # password[u]
                                /\ \A s \in gone : session[s].user = u
         /\ \A c \in Call, u \in User :
              HoldsPassword(c, u) /\ password'[u] # password[u] =>
                /\ \A s \in call[c].scan : session'[s].state # "open"
                /\ call[c].own \notin gone
<1> DEFINE gone == {s \in Session : session[s].state = "open"
                                      /\ session'[s].state = "revoked"}
<1>1. ASSUME call' # call, NEW s \in gone
      PROVE  \E c \in Call : CommitPassword(c) /\ s \in call[c].scan
  <2>1. ASSUME NEW u \in User
        PROVE  session'[s] # [state |-> "open", user |-> u]
    BY <1>1
  <2> QED
    BY <1>1, <2>1, SessionsMove DEF SessionMove
<1>2. ASSUME NEW c \in Call, CommitPassword(c)
      PROVE  /\ call[c].user \in User /\ call'[c] # call[c]
             /\ HoldsPassword(c, call[c].user)
             /\ call[c].scan \subseteq Session
             /\ password'[call[c].user] # password[call[c].user]
             /\ \A s \in call[c].scan : session[s].user = call[c].user /\ s # call[c].own
             /\ session' = Revoked(call[c].scan)
  <2>1. /\ call[c].pc = "commit" /\ ~Linking(c) /\ call[c] \in CallRow
        /\ Formed(call[c])
    BY <1>2 DEF CommitPassword, Inv, TypeOK, CallsAreFormed
  <2>2. call[c].new # None /\ call[c].user \in User /\ call[c].scan \subseteq Session
    BY <2>1 DEF Linking, Formed, CallRow
  <2>3. password'[call[c].user] = call[c].new
    BY <1>2, <2>2 DEF CommitPassword, Inv, TypeOK
  <2>4. password[call[c].user] # call[c].new
    BY <2>2 DEF Inv, HashesAreNew
  <2>5. call'[c] # call[c]
    BY <1>2, <2>1, WritersAreDone DEF Idle
  <2>6. \A s \in call[c].scan : session[s].user = call[c].user /\ s # call[c].own
    BY <2>1, <2>2 DEF Inv, ScansAreOwn
  <2> QED
    BY <1>2, <2>1, <2>2, <2>3, <2>4, <2>5, <2>6 DEF CommitPassword, HoldsPassword
<1>3. ASSUME gone # {}, call' # call
      PROVE  \E u \in User : password'[u] # password[u]
                               /\ \A s \in gone : session[s].user = u
  <2>1. PICK c \in Call : CommitPassword(c)
    BY <1>1, <1>3
  <2>2. ASSUME NEW s \in gone PROVE session[s].user = call[c].user
    <3>1. PICK e \in Call : CommitPassword(e) /\ s \in call[e].scan
      BY <1>1, <1>3
    <3>2. e = c
      BY <1>2, <2>1, <3>1, TheOthersStay
    <3> QED
      BY <1>2, <3>1, <3>2
  <2> QED
    BY <1>2, <2>1, <2>2
<1>4. ASSUME NEW c \in Call, NEW u \in User, HoldsPassword(c, u),
             password'[u] # password[u]
      PROVE  /\ \A s \in call[c].scan : session'[s].state # "open"
             /\ call[c].own \notin gone
  <2>1. CommitPassword(c)
    BY <1>4, PasswordsMove DEF PasswordFree, Inv, PasswordsAreHeld
  <2>2. /\ call[c].scan \subseteq Session /\ session' = Revoked(call[c].scan)
        /\ \A s \in call[c].scan : s # call[c].own
    BY <1>2, <2>1
  <2>3. session \in [Session -> SessionRow]
    BY DEF Inv, TypeOK
  <2> QED
    BY <2>2, <2>3 DEF Revoked, SessionRow
<1> QED
  BY <1>3, <1>4

\* Sessions fall to a request only together with the password they were opened
\* under, and the caller's own survives.
THEOREM EvictionsComeWithTheChange == Spec => EvictionComesWithTheChange
<1>1. Inv /\ [Next]_vars =>
        [LET gone == {s \in Session : session[s].state = "open"
                                        /\ session'[s].state = "revoked"} IN
           /\ gone # {} /\ call' # call =>
                \E u \in User : password'[u] # password[u]
                                  /\ \A s \in gone : session[s].user = u
           /\ \A c \in Call, u \in User :
                HoldsPassword(c, u) /\ password'[u] # password[u] =>
                  /\ \A s \in call[c].scan : session'[s].state # "open"
                  /\ call[c].own \notin gone]_vars
  BY EvictionsAreChanges DEF vars
<1> QED
  BY <1>1, InvariantHolds, PTL DEF Spec, EvictionComesWithTheChange
=============================================================================
