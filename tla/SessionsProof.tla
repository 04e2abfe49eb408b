---------------------------- MODULE SessionsProof ----------------------------
(***************************************************************************)
(* Proofs about Sessions, for every number of sessions, tokens, requests,  *)
(* resets and cleanups, and for every lifetime and batch size.             *)
(***************************************************************************)
EXTENDS Sessions, TLAPS

USE DEF Txn, RowState

LEMMA ReleaseType ==
    ASSUME NEW S, NEW lock \in [S -> Txn \cup {Free}], NEW p
    PROVE  /\ Release(lock, p) \in [S -> Txn \cup {Free}]
           /\ \A x \in S : Release(lock, p)[x] =
                             IF lock[x] = p THEN Free ELSE lock[x]
  BY DEF Release

\* Type correctness of every reachable state of the specification.
THEOREM TypeCorrect == Spec => []TypeOK
<1>1. Init => TypeOK
  <2> SUFFICES ASSUME Init PROVE TypeOK
    OBVIOUS
  <2> QED
    BY IdentityAssumption DEF Init, TypeOK, SessionRow, TokenRow,
       RefreshState, ResetState, CleanerState, Answer
<1>2. TypeOK /\ [Next]_vars => TypeOK'
  <2> SUFFICES ASSUME TypeOK, [Next]_vars PROVE TypeOK'
    OBVIOUS
  <2>0. /\ session \in [SessionId -> SessionRow]
        /\ token \in [TokenId -> TokenRow]
        /\ clock \in Nat
        /\ refresh \in [Request -> RefreshState]
    BY DEF TypeOK
  <2>1. ASSUME NEW p, ReleaseAll(p)
        PROVE  /\ sessionLock' \in [SessionId -> Txn \cup {Free}]
               /\ tokenLock' \in [TokenId -> Txn \cup {Free}]
    BY <2>1, ReleaseType DEF TypeOK, ReleaseAll
  <2>2. ASSUME NEW r \in Request, NEW answer \in Answer, Finish(r, answer)
        PROVE  /\ refresh' \in [Request -> RefreshState]
               /\ sessionLock' \in [SessionId -> Txn \cup {Free}]
               /\ tokenLock' \in [TokenId -> Txn \cup {Free}]
    BY <2>2, <2>1, <2>0 DEF Finish, RefreshState
  <2>3. ASSUME NEW u \in User, NEW s \in SessionId, NEW t \in TokenId,
               CreateSession(u, s, t)
        PROVE  TypeOK'
    BY <2>3, LifetimeAssumption DEF CreateSession, TypeOK, SessionRow, TokenRow
  <2>4. ASSUME NEW r \in Request, RefreshNext(r) PROVE TypeOK'
    <3>1. ASSUME NEW t \in TokenId, BeginRefresh(r, t) PROVE TypeOK'
      BY <3>1 DEF BeginRefresh, TypeOK, RefreshState, Answer
    <3>2. CASE LockToken(r)
      BY <3>2 DEF LockToken, TypeOK, RefreshState
    <3>3. CASE TokenMissing(r)
      BY <3>3, <2>2 DEF TokenMissing, TypeOK, Answer
    <3>4. CASE LockSession(r)
      BY <3>4 DEF LockSession, TypeOK, RefreshState
    <3>5. CASE RefuseRevoked(r)
      BY <3>5, <2>2 DEF RefuseRevoked, TypeOK, Answer
    <3>6. CASE Decide(r)
      BY <3>6 DEF Decide, Verdict, TypeOK, RefreshState
    <3>7. CASE CommitRevocation(r)
      <4>1. SessionOf(r) \in SessionId
        BY <2>0 DEF SessionOf, RefreshState, TokenRow
      <4>2. PICK answer \in {RefuseAnswer(r), "internal"} : Finish(r, answer)
        BY <3>7 DEF CommitRevocation
      <4>3. answer \in Answer
        BY DEF RefuseAnswer, Answer
      <4> QED
        BY <3>7, <4>1, <4>2, <4>3, <2>2 DEF CommitRevocation, TypeOK, SessionRow
    <3>8. ASSUME NEW new \in TokenId, CommitRotation(r, new) PROVE TypeOK'
      <4>1. SessionOf(r) \in SessionId /\ refresh[r].began \in Nat
        BY <2>0 DEF SessionOf, RefreshState, TokenRow
      <4>2. Finish(r, "rotated") \/ Finish(r, "internal")
        BY <3>8 DEF CommitRotation
      <4>3. /\ refresh' \in [Request -> RefreshState]
            /\ sessionLock' \in [SessionId -> Txn \cup {Free}]
            /\ tokenLock' \in [TokenId -> Txn \cup {Free}]
        BY <4>2, <2>2 DEF Answer
      <4>4. token' \in [TokenId -> TokenRow]
        BY <3>8, <4>1, <2>0 DEF CommitRotation, TokenRow
      <4>5. session' \in [SessionId -> SessionRow]
        BY <3>8, <4>1, <2>0 DEF CommitRotation, SessionRow
      <4> QED
        BY <3>8, <4>3, <4>4, <4>5 DEF CommitRotation, TypeOK
    <3>9. CASE AbortRefresh(r)
      BY <3>9, <2>2 DEF AbortRefresh, TypeOK, Answer
    <3> QED
      BY <2>4, <3>1, <3>2, <3>3, <3>4, <3>5, <3>6, <3>7, <3>8, <3>9 DEF RefreshNext
  <2>5. ASSUME NEW u \in User, NEW s \in SessionId, RevokeStatement(u, s)
        PROVE  TypeOK'
    BY <2>5 DEF RevokeStatement, TypeOK, SessionRow
  <2>6. ASSUME NEW s \in SessionId, Logout(s) PROVE TypeOK'
    <3>1. session[s].user \in User
      BY <2>0 DEF SessionRow
    <3> QED
      BY <2>5, <2>6, <3>1 DEF Logout
  <2>7. ASSUME NEW p \in Resetter, ResetNext(p) PROVE TypeOK'
    <3>1. ASSUME NEW u \in User, BeginReset(p, u) PROVE TypeOK'
      BY <3>1 DEF BeginReset, TypeOK, ResetState
    <3>2. ASSUME NEW s \in SessionId, ResetVisits(p, s) PROVE TypeOK'
      <4>1. sessionLock' \in [SessionId -> Txn \cup {Free}]
        BY <3>2 DEF ResetVisits, TypeOK
      <4>2. reset' \in [Resetter -> ResetState]
        BY <3>2 DEF ResetVisits, TypeOK, ResetState
      <4> QED
        BY <3>2, <4>1, <4>2 DEF ResetVisits, TypeOK
    <3>3. CASE CommitReset(p)
      <4>1. session' \in [SessionId -> SessionRow]
        BY <3>3, <2>0 DEF CommitReset, SessionRow
      <4>2. reset' \in [Resetter -> ResetState]
        BY <3>3 DEF CommitReset, EndReset, TypeOK, ResetState
      <4> QED
        BY <3>3, <4>1, <4>2, <2>1 DEF CommitReset, EndReset, TypeOK
    <3>4. CASE AbortReset(p)
      <4>2. reset' \in [Resetter -> ResetState]
        BY <3>4 DEF AbortReset, EndReset, TypeOK, ResetState
      <4> QED
        BY <3>4, <4>2, <2>1 DEF AbortReset, EndReset, TypeOK
    <3> QED
      BY <2>7, <3>1, <3>2, <3>3, <3>4 DEF ResetNext
  <2>8. ASSUME NEW c \in Cleaner, CleanupNext(c) PROVE TypeOK'
    <3>1. CASE StartCleanup(c)
      BY <3>1 DEF StartCleanup, TypeOK, CleanerState
    <3>2. ASSUME NEW B \in SUBSET SessionId, SelectBatch(c, B) PROVE TypeOK'
      BY <3>2 DEF SelectBatch, TypeOK, CleanerState
    <3>3. ASSUME NEW t \in TokenId, CascadeLocks(c, t) PROVE TypeOK'
      BY <3>3 DEF CascadeLocks, TypeOK
    <3>4. CASE CommitBatch(c)
      <4>1. session' \in [SessionId -> SessionRow]
        BY <3>4, <2>0 DEF CommitBatch, SessionRow
      <4>2. token' \in [TokenId -> TokenRow]
        BY <3>4, <2>0 DEF CommitBatch, TokenRow
      <4>3. cleaner' \in [Cleaner -> CleanerState]
        BY <3>4 DEF CommitBatch, TypeOK, CleanerState
      <4> QED
        BY <3>4, <4>1, <4>2, <4>3, <2>1 DEF CommitBatch, TypeOK
    <3>5. CASE AbortBatch(c)
      <4>1. cleaner' \in [Cleaner -> CleanerState]
        BY <3>5 DEF AbortBatch, TypeOK, CleanerState
      <4> QED
        BY <3>5, <4>1, <2>1 DEF AbortBatch, TypeOK
    <3> QED
      BY <2>8, <3>1, <3>2, <3>3, <3>4, <3>5 DEF CleanupNext
  <2>9. ASSUME NEW r \in Request, NEW c \in Cleaner, ResolveDeadlock(r, c)
        PROVE  TypeOK'
    BY <2>9, <2>4, <2>8 DEF ResolveDeadlock, RefreshNext, CleanupNext
  <2>10. CASE Tick
    BY <2>10 DEF Tick, TypeOK
  <2>11. CASE UNCHANGED vars
    BY <2>11 DEF vars, TypeOK
  <2> QED
    BY <2>3, <2>4, <2>5, <2>6, <2>7, <2>8, <2>9, <2>10, <2>11
    DEF Next, RevokeSessionForUser
<1> QED
  BY <1>1, <1>2, PTL DEF Spec

-----------------------------------------------------------------------------
(***************************************************************************)
(* The inductive invariant.  OneCredentialPerSession is not inductive: a   *)
(* rotation keeps it only because the token it replaces is still the       *)
(* unspent one (DecisionStands), and that only because every transaction's *)
(* locks are its own (LocksAreHeld).                                       *)
(***************************************************************************)
RequestInv(r) ==
    /\ refresh[r].pc \notin {"idle", "begun"} =>
          /\ tokenLock[refresh[r].token] = r
          /\ LiveToken(refresh[r].token)
    /\ refresh[r].pc \notin {"idle", "begun", "tokenLocked"} =>
          sessionLock[SessionOf(r)] = r
    /\ refresh[r].pc \in {"rotate", "reuse", "expire"} =>
          /\ Live(SessionOf(r))
          /\ ~session[SessionOf(r)].revoked
          /\ refresh[r].pc = "rotate" => token[refresh[r].token].replacedBy = NoToken

CleanerInv(c) ==
    \A s \in cleaner[c].batch :
        /\ cleaner[c].pc = "delete"
        /\ sessionLock[s] = c
        /\ Live(s)

SessionInv(s) ==
    IF Live(s) THEN \E t \in TokenId : Unspent(s) = {t}
               ELSE TokensOf(s) = {}

Inv ==
    /\ TypeOK
    /\ \A r \in Request : RequestInv(r)
    /\ \A c \in Cleaner : CleanerInv(c)
    /\ \A s \in SessionId : SessionInv(s)

\* What Inv says of the properties the runs check.
LEMMA InvImplies ==
    Inv => LocksAreHeld /\ DecisionStands /\ OneCredentialPerSession
  BY DEF Inv, RequestInv, CleanerInv, SessionInv,
         LocksAreHeld, DecisionStands, OneCredentialPerSession

LEMMA InitInv == Init => Inv
<1> SUFFICES ASSUME Init PROVE Inv
  OBVIOUS
<1>1. TypeOK
  BY IdentityAssumption DEF Init, TypeOK, SessionRow, TokenRow,
     RefreshState, ResetState, CleanerState, Answer
<1>2. \A r \in Request : RequestInv(r)
  BY DEF Init, RequestInv
<1>3. \A c \in Cleaner : CleanerInv(c)
  BY DEF Init, CleanerInv
<1>4. \A s \in SessionId : SessionInv(s)
  BY DEF Init, SessionInv, Live, TokensOf, LiveToken
<1> QED
  BY <1>1, <1>2, <1>3, <1>4 DEF Inv

\* Rows that do not change keep the credential of every session.
LEMMA SameRows ==
    ASSUME Inv, session' = session, token' = token
    PROVE  \A s \in SessionId : SessionInv(s)'
  BY DEF Inv, SessionInv, Live, Unspent, TokensOf, LiveToken

\* A request whose own state, locks and rows are as they were keeps its part.
LEMMA SameRequest ==
    ASSUME Inv, NEW r \in Request, refresh'[r] = refresh[r],
           NEW t, t = refresh[r].token,
           refresh[r].pc \in {"idle", "begun"} \/
              /\ token'[t] = token[t]
              /\ tokenLock[t] = r => tokenLock'[t] = r
              /\ sessionLock[SessionOf(r)] = r =>
                    /\ sessionLock'[SessionOf(r)] = r
                    /\ session'[SessionOf(r)] = session[SessionOf(r)]
    PROVE  RequestInv(r)'
<1>1. CASE refresh[r].pc \in {"idle", "begun"}
  BY <1>1 DEF RequestInv
<1>2. CASE refresh[r].pc \notin {"idle", "begun"}
  <2>1. SessionOf(r)' = SessionOf(r)
    BY <1>2 DEF SessionOf
  <2>2. RequestInv(r)
    BY DEF Inv
  <2> QED
    BY <1>2, <2>1, <2>2 DEF RequestInv, LiveToken, Live
<1> QED
  BY <1>1, <1>2

LEMMA SameCleaner ==
    ASSUME Inv, NEW c \in Cleaner, cleaner'[c] = cleaner[c],
           \A s \in SessionId : sessionLock[s] = c =>
               sessionLock'[s] = c /\ session'[s].state = session[s].state
    PROVE  CleanerInv(c)'
  <1>1. cleaner[c].batch \subseteq SessionId
    BY DEF Inv, TypeOK, CleanerState
  <1>2. CleanerInv(c)
    BY DEF Inv
  <1> QED
    BY <1>1, <1>2 DEF CleanerInv, Live

LEMMA ReleaseKeeps ==
    ASSUME TypeOK, NEW p, ReleaseAll(p)
    PROVE  /\ \A s \in SessionId : sessionLock'[s] =
                IF sessionLock[s] = p THEN Free ELSE sessionLock[s]
           /\ \A t \in TokenId : tokenLock'[t] =
                IF tokenLock[t] = p THEN Free ELSE tokenLock[t]
  BY DEF TypeOK, ReleaseAll, Release

\* The identities of a request's rows, and of the transactions.
LEMMA Rows ==
    ASSUME Inv
    PROVE  /\ \A r \in Request : refresh[r].token \in TokenId
           /\ \A r \in Request : SessionOf(r) \in SessionId
           /\ \A t \in TokenId : token[t].session \in SessionId
           /\ \A s \in SessionId : session[s].user \in User
  BY DEF Inv, TypeOK, RefreshState, TokenRow, SessionRow, SessionOf

LEMMA CreateSessionInv ==
    ASSUME Inv, TypeOK', NEW u \in User, NEW s \in SessionId, NEW t \in TokenId,
           CreateSession(u, s, t)
    PROVE  Inv'
<1>1. ASSUME NEW r \in Request PROVE RequestInv(r)'
  <2>1. refresh[r].pc \notin {"idle", "begun"} => refresh[r].token # t
    BY DEF Inv, RequestInv, CreateSession, LiveToken
  <2>2. refresh[r].pc \in {"idle", "begun"} \/
           token'[refresh[r].token] = token[refresh[r].token]
    BY <2>1 DEF CreateSession, Inv, TypeOK
  <2>3. SessionOf(r) # s => session'[SessionOf(r)] = session[SessionOf(r)]
    BY Rows DEF CreateSession, Inv, TypeOK
  <2>4. refresh[r].pc \notin {"idle", "begun"} => SessionOf(r) # s
    <3>1. SessionInv(s)
      BY DEF Inv
    <3>2. TokensOf(s) = {}
      BY <3>1 DEF SessionInv, CreateSession, Live
    <3> QED
      BY <3>2, Rows DEF TokensOf, SessionOf, Inv, RequestInv
  <2> QED
    BY <2>2, <2>3, <2>4, SameRequest DEF CreateSession
<1>2. ASSUME NEW c \in Cleaner PROVE CleanerInv(c)'
  BY DEF CreateSession, Inv, TypeOK, CleanerInv, Live, CleanerState
<1>3. ASSUME NEW x \in SessionId PROVE SessionInv(x)'
  <2>1. SessionInv(x)
    BY DEF Inv
  <2>2. CASE x = s
    <3>1. TokensOf(s) = {}
      BY <2>1, <2>2 DEF SessionInv, CreateSession, Live
    <3>2. Unspent(s)' = {t}
      BY <3>1 DEF CreateSession, Inv, TypeOK, Unspent, TokensOf, LiveToken
    <3>3. Live(s)'
      BY DEF CreateSession, Inv, TypeOK, Live
    <3> QED
      BY <2>2, <3>2, <3>3 DEF SessionInv
  <2>3. CASE x # s
    <3>1. Live(x)' = Live(x) /\ TokensOf(x)' = TokensOf(x)
      BY <2>3 DEF CreateSession, Inv, TypeOK, Live, TokensOf, LiveToken
    <3>2. Unspent(x)' = Unspent(x)
      BY <2>3, <3>1 DEF CreateSession, Inv, TypeOK, Unspent, TokensOf, LiveToken
    <3> QED
      BY <2>1, <3>1, <3>2 DEF SessionInv
  <2> QED
    BY <2>2, <2>3
<1> QED
  BY <1>1, <1>2, <1>3 DEF Inv

\* A request that ends without writing.
LEMMA FinishInv ==
    ASSUME Inv, TypeOK', NEW r \in Request, NEW answer, Finish(r, answer),
           UNCHANGED << session, token, cleaner >>
    PROVE  Inv'
<1>1. ASSUME NEW q \in Request PROVE RequestInv(q)'
  <2>1. CASE q = r
    BY <2>1 DEF Finish, Inv, TypeOK, RequestInv
  <2>2. CASE q # r
    BY <2>2, Rows, ReleaseKeeps, SameRequest DEF Finish, Inv, TypeOK
  <2> QED
    BY <2>1, <2>2
<1>2. ASSUME NEW c \in Cleaner PROVE CleanerInv(c)'
  BY IdentityAssumption, ReleaseKeeps, SameCleaner DEF Finish, Inv
<1> QED
  BY <1>1, <1>2, SameRows DEF Inv

LEMMA BeginRefreshInv ==
    ASSUME Inv, TypeOK', NEW r \in Request, NEW t \in TokenId, BeginRefresh(r, t)
    PROVE  Inv'
<1>1. ASSUME NEW q \in Request PROVE RequestInv(q)'
  BY SameRequest DEF BeginRefresh, Inv, TypeOK, RequestInv
<1>2. ASSUME NEW c \in Cleaner PROVE CleanerInv(c)'
  BY SameCleaner DEF BeginRefresh
<1> QED
  BY <1>1, <1>2, SameRows DEF Inv, BeginRefresh

LEMMA LockTokenInv ==
    ASSUME Inv, TypeOK', NEW r \in Request, LockToken(r)
    PROVE  Inv'
<1>1. ASSUME NEW q \in Request PROVE RequestInv(q)'
  <2>1. CASE q = r
    BY <2>1, Rows DEF LockToken, Inv, TypeOK, RequestInv, LiveToken
  <2>2. CASE q # r
    <3>1. \A t \in TokenId : tokenLock[t] = q => tokenLock'[t] = q
      BY IdentityAssumption DEF LockToken, Inv, TypeOK
    <3> QED
      BY <2>2, <3>1, Rows, SameRequest DEF LockToken, Inv, TypeOK
  <2> QED
    BY <2>1, <2>2
<1>2. ASSUME NEW c \in Cleaner PROVE CleanerInv(c)'
  BY SameCleaner DEF LockToken
<1> QED
  BY <1>1, <1>2, SameRows DEF Inv, LockToken

LEMMA LockSessionInv ==
    ASSUME Inv, TypeOK', NEW r \in Request, LockSession(r)
    PROVE  Inv'
<1>0. \A x \in Txn : \A s \in SessionId :
         sessionLock[s] = x => sessionLock'[s] = x
  BY IdentityAssumption DEF LockSession, Inv, TypeOK
<1>1. ASSUME NEW q \in Request PROVE RequestInv(q)'
  <2>1. CASE q = r
    <3>1. /\ refresh'[r].pc = "locked"
          /\ refresh'[r].token = refresh[r].token
          /\ sessionLock'[SessionOf(r)] = r
      BY Rows DEF LockSession, Inv, TypeOK
    <3> QED
      BY <2>1, <3>1 DEF LockSession, Inv, RequestInv, LiveToken, SessionOf
  <2>2. CASE q # r
    <3>1. refresh'[q] = refresh[q]
      BY <2>2 DEF LockSession, Inv, TypeOK
    <3> QED
      BY <1>0, <3>1, Rows, SameRequest DEF LockSession
  <2> QED
    BY <2>1, <2>2
<1>2. ASSUME NEW c \in Cleaner PROVE CleanerInv(c)'
  BY <1>0, SameCleaner DEF LockSession
<1> QED
  BY <1>1, <1>2, SameRows DEF Inv, LockSession

\* The session of a request that holds its token is live: its token is.
LEMMA HeldIsLive ==
    ASSUME Inv, NEW r \in Request, refresh[r].pc \notin {"idle", "begun"}
    PROVE  Live(SessionOf(r)) /\ refresh[r].token \in TokensOf(SessionOf(r))
<1>1. refresh[r].token \in TokensOf(SessionOf(r))
  BY Rows DEF Inv, RequestInv, TokensOf, SessionOf
<1>2. SessionInv(SessionOf(r))
  BY Rows DEF Inv
<1> QED
  BY <1>1, <1>2 DEF SessionInv

LEMMA DecideInv ==
    ASSUME Inv, TypeOK', NEW r \in Request, Decide(r)
    PROVE  Inv'
<1>1. ASSUME NEW q \in Request PROVE RequestInv(q)'
  <2>1. CASE q = r
    <3>1. /\ refresh'[r].pc = Verdict(r)
          /\ refresh'[r].token = refresh[r].token
      BY DEF Decide, Inv, TypeOK
    <3>2. Live(SessionOf(r))
      BY HeldIsLive DEF Decide
    <3>3. /\ Verdict(r) \in {"rotate", "reuse", "expire"}
          /\ Verdict(r) = "rotate" => token[refresh[r].token].replacedBy = NoToken
      BY DEF Verdict
    <3> QED
      BY <2>1, <3>1, <3>2, <3>3
      DEF Decide, Inv, RequestInv, LiveToken, SessionOf, Live
  <2>2. CASE q # r
    BY <2>2, SameRequest DEF Decide, Inv, TypeOK
  <2> QED
    BY <2>1, <2>2
<1>2. ASSUME NEW c \in Cleaner PROVE CleanerInv(c)'
  BY SameCleaner DEF Decide
<1> QED
  BY <1>1, <1>2, SameRows DEF Inv, Decide

\* Revoking sessions no request holds both locks of, or that its own holder
\* revokes, touches neither tokens nor liveness.
LEMMA SessionsKeepTokens ==
    ASSUME Inv, token' = token,
           \A s \in SessionId : session'[s].state = session[s].state
    PROVE  \A s \in SessionId : SessionInv(s)'
<1>1. ASSUME NEW s \in SessionId PROVE SessionInv(s)'
  <2>1. Live(s)' = Live(s) /\ TokensOf(s)' = TokensOf(s) /\ Unspent(s)' = Unspent(s)
    BY DEF Live, TokensOf, LiveToken, Unspent
  <2> QED
    BY <2>1 DEF Inv, SessionInv
<1> QED
  BY <1>1

LEMMA CommitRevocationInv ==
    ASSUME Inv, TypeOK', NEW r \in Request, CommitRevocation(r)
    PROVE  Inv'
<1>1. PICK answer : Finish(r, answer)
  BY DEF CommitRevocation
<1>2. /\ refresh'[r].pc = "idle"
      /\ \A q \in Request : q # r => refresh'[q] = refresh[q]
      /\ ReleaseAll(r)
  BY <1>1 DEF Finish, Inv, TypeOK
<1>3. sessionLock[SessionOf(r)] = r
  BY DEF CommitRevocation, Inv, RequestInv
<1>4. \A s \in SessionId :
         /\ session'[s].state = session[s].state
         /\ s # SessionOf(r) => session'[s] = session[s]
  BY Rows DEF CommitRevocation, Inv, TypeOK, SessionRow
<1>5. ASSUME NEW q \in Request PROVE RequestInv(q)'
  <2>1. CASE q = r
    BY <1>2, <2>1 DEF RequestInv
  <2>2. CASE q # r
    <3>1. token' = token
      BY DEF CommitRevocation
    <3>2. \A t \in TokenId : tokenLock[t] = q => tokenLock'[t] = q
      BY <1>2, <2>2, ReleaseKeeps DEF Inv
    <3>3. \A s \in SessionId : sessionLock[s] = q =>
             sessionLock'[s] = q /\ session'[s] = session[s]
      BY <1>2, <1>3, <1>4, <2>2, ReleaseKeeps DEF Inv
    <3> QED
      BY <1>2, <2>2, <3>1, <3>2, <3>3, Rows, SameRequest
  <2> QED
    BY <2>1, <2>2
<1>6. ASSUME NEW c \in Cleaner PROVE CleanerInv(c)'
  BY <1>2, <1>4, IdentityAssumption, ReleaseKeeps, SameCleaner
  DEF CommitRevocation, Inv
<1> QED
  BY <1>4, <1>5, <1>6, SessionsKeepTokens DEF Inv, CommitRevocation

LEMMA CommitRotationInv ==
    ASSUME Inv, TypeOK', NEW r \in Request, NEW new \in TokenId,
           CommitRotation(r, new)
    PROVE  Inv'
<1>a. PICK old \in TokenId : old = refresh[r].token
  BY Rows
<1>b. PICK own \in SessionId : own = SessionOf(r)
  BY Rows
<1>c. PICK answer : Finish(r, answer)
  BY DEF CommitRotation
<1>1. /\ refresh'[r].pc = "idle"
      /\ \A q \in Request : q # r => refresh'[q] = refresh[q]
      /\ ReleaseAll(r)
  BY <1>c DEF Finish, Inv, TypeOK
<1>2. /\ tokenLock[old] = r
      /\ sessionLock[own] = r
      /\ LiveToken(old)
      /\ token[old].replacedBy = NoToken
      /\ token[new].state = "unborn"
  BY <1>a, <1>b DEF CommitRotation, Inv, RequestInv
<1>3. old # new /\ token[old].session = own
  BY <1>2, <1>a, <1>b DEF LiveToken, SessionOf
<1>4. /\ \A t \in TokenId : t \notin {old, new} => token'[t] = token[t]
      /\ token'[old].session = own
      /\ token'[old].state = "live"
      /\ token'[old].replacedBy = new
      /\ token'[new].session = own
      /\ token'[new].state = "live"
      /\ token'[new].replacedBy = NoToken
  BY <1>a, <1>b, <1>2, <1>3 DEF CommitRotation, Inv, TypeOK, TokenRow, LiveToken
<1>5. \A s \in SessionId :
         /\ session'[s].state = session[s].state
         /\ s # own => session'[s] = session[s]
  BY <1>b DEF CommitRotation, Inv, TypeOK, SessionRow
<1>6. ASSUME NEW q \in Request PROVE RequestInv(q)'
  <2>1. CASE q = r
    BY <1>1, <2>1 DEF RequestInv
  <2>2. CASE q # r
    <3>1. refresh[q].pc \notin {"idle", "begun"} =>
             refresh[q].token \notin {old, new}
      BY <1>2, <2>2 DEF Inv, RequestInv, LiveToken
    <3>2. \A t \in TokenId : tokenLock[t] = q => tokenLock'[t] = q
      BY <1>1, <2>2, ReleaseKeeps DEF Inv
    <3>3. \A s \in SessionId : sessionLock[s] = q =>
             sessionLock'[s] = q /\ session'[s] = session[s]
      BY <1>1, <1>2, <1>5, <2>2, ReleaseKeeps DEF Inv
    <3> QED
      BY <1>1, <1>4, <2>2, <3>1, <3>2, <3>3, Rows, SameRequest
  <2> QED
    BY <2>1, <2>2
<1>7. ASSUME NEW c \in Cleaner PROVE CleanerInv(c)'
  BY <1>1, <1>5, IdentityAssumption, ReleaseKeeps, SameCleaner
  DEF CommitRotation, Inv
<1>8. ASSUME NEW s \in SessionId PROVE SessionInv(s)'
  <2>1. Live(s)' = Live(s)
    BY <1>5 DEF Live
  <2>2. CASE s = own
    <3>1. Live(own)
      BY <1>b, HeldIsLive DEF CommitRotation
    <3>2. PICK t \in TokenId : Unspent(own) = {t}
      BY <1>2, <3>1 DEF Inv, SessionInv
    <3>3. old \in Unspent(own)
      BY <1>2, <1>3 DEF Unspent, TokensOf
    <3>4. t = old
      BY <3>2, <3>3
    <3>5. \A x \in TokenId : x \in Unspent(own)' <=> x = new
      BY <1>2, <1>3, <1>4, <3>2, <3>4, IdentityAssumption
      DEF Unspent, TokensOf, LiveToken
    <3>6. Unspent(own)' = {new}
      BY <3>5 DEF Unspent, TokensOf
    <3> QED
      BY <2>1, <2>2, <3>1, <3>6 DEF SessionInv
  <2>3. CASE s # own
    <3>1. \A x \in TokenId : x \in TokensOf(s)' <=> x \in TokensOf(s)
      BY <1>3, <1>4, <1>2, <2>3 DEF TokensOf, LiveToken
    <3>2. TokensOf(s)' = TokensOf(s)
      BY <3>1 DEF TokensOf
    <3>3. Unspent(s)' = Unspent(s)
      BY <3>2, <1>3, <1>4, <1>2, <2>3 DEF Unspent, TokensOf
    <3> QED
      BY <2>1, <3>2, <3>3 DEF Inv, SessionInv
  <2> QED
    BY <2>2, <2>3
<1> QED
  BY <1>6, <1>7, <1>8 DEF Inv

LEMMA RevokeStatementInv ==
    ASSUME Inv, TypeOK', NEW u \in User, NEW s \in SessionId,
           RevokeStatement(u, s)
    PROVE  Inv'
<1>1. \A x \in SessionId :
         /\ session'[x].state = session[x].state
         /\ x # s => session'[x] = session[x]
  BY DEF RevokeStatement, Inv, TypeOK, SessionRow
<1>2. ASSUME NEW q \in Request PROVE RequestInv(q)'
  <2>1. sessionLock[SessionOf(q)] = q => SessionOf(q) # s
    BY IdentityAssumption DEF RevokeStatement
  <2> QED
    BY <1>1, <2>1, Rows, SameRequest DEF RevokeStatement
<1>3. ASSUME NEW c \in Cleaner PROVE CleanerInv(c)'
  BY <1>1, SameCleaner DEF RevokeStatement
<1> QED
  BY <1>1, <1>2, <1>3, SessionsKeepTokens DEF Inv, RevokeStatement

\* Steps of a reset or a cleanup that only take locks nobody holds.
LEMMA LockingInv ==
    ASSUME Inv, TypeOK', UNCHANGED << session, token, refresh, cleaner >>,
           \A s \in SessionId : sessionLock[s] # Free => sessionLock'[s] = sessionLock[s],
           \A t \in TokenId : tokenLock[t] # Free => tokenLock'[t] = tokenLock[t]
    PROVE  Inv'
<1>1. ASSUME NEW q \in Request PROVE RequestInv(q)'
  BY IdentityAssumption, Rows, SameRequest
<1>2. ASSUME NEW c \in Cleaner PROVE CleanerInv(c)'
  BY IdentityAssumption, SameCleaner
<1> QED
  BY <1>1, <1>2, SameRows DEF Inv

LEMMA ResetInv ==
    ASSUME Inv, TypeOK', NEW p \in Resetter, ResetNext(p)
    PROVE  Inv'
<1>1. ASSUME NEW u \in User, BeginReset(p, u) PROVE Inv'
  BY <1>1, LockingInv DEF BeginReset
<1>2. ASSUME NEW s \in SessionId, ResetVisits(p, s) PROVE Inv'
  <2>1. \A x \in SessionId :
           sessionLock[x] # Free => sessionLock'[x] = sessionLock[x]
    BY <1>2 DEF ResetVisits, Inv, TypeOK
  <2> QED
    BY <1>2, <2>1, LockingInv DEF ResetVisits
<1>3. ASSUME ReleaseAll(p), UNCHANGED << token, refresh, cleaner >>,
             \A s \in SessionId :
                /\ session'[s].state = session[s].state
                /\ sessionLock[s] # p => session'[s] = session[s]
      PROVE  Inv'
  <2>1. ASSUME NEW q \in Request PROVE RequestInv(q)'
    BY <1>3, IdentityAssumption, Rows, ReleaseKeeps, SameRequest DEF Inv
  <2>2. ASSUME NEW c \in Cleaner PROVE CleanerInv(c)'
    BY <1>3, IdentityAssumption, ReleaseKeeps, SameCleaner DEF Inv
  <2> QED
    BY <1>3, <2>1, <2>2, SessionsKeepTokens DEF Inv
<1>4. CASE CommitReset(p)
  <2>1. \A s \in SessionId :
           /\ session'[s].state = session[s].state
           /\ sessionLock[s] # p => session'[s] = session[s]
    BY <1>4 DEF CommitReset, Inv, TypeOK, SessionRow
  <2> QED
    BY <1>3, <1>4, <2>1 DEF CommitReset, EndReset
<1>5. CASE AbortReset(p)
  BY <1>3, <1>5 DEF AbortReset, EndReset
<1> QED
  BY <1>1, <1>2, <1>4, <1>5 DEF ResetNext

LEMMA CommitBatchInv ==
    ASSUME Inv, TypeOK', NEW c \in Cleaner, CommitBatch(c)
    PROVE  Inv'
<1> DEFINE B == cleaner[c].batch
<1>1. /\ cleaner'[c].batch = {}
      /\ \A d \in Cleaner : d # c => cleaner'[d] = cleaner[d]
      /\ refresh' = refresh
      /\ ReleaseAll(c)
  BY DEF CommitBatch, Inv, TypeOK
<1>2. \A s \in SessionId : s \notin B => session'[s] = session[s]
  BY DEF CommitBatch
<1>3. \A s \in SessionId : s \in B => session'[s].state = "deleted"
  BY DEF CommitBatch, Inv, TypeOK, SessionRow
<1>4. \A t \in TokenId : t \notin Doomed(c) => token'[t] = token[t]
  BY DEF CommitBatch
<1>5. \A t \in TokenId : t \in Doomed(c) =>
         token'[t].state = "deleted" /\ tokenLock[t] = c
  BY DEF CommitBatch, Inv, TypeOK, TokenRow, Doomed
<1>6. \A s \in SessionId : s \in B => sessionLock[s] = c
  BY DEF Inv, CleanerInv
<1>7. ASSUME NEW q \in Request PROVE RequestInv(q)'
  <2>1. \A t \in TokenId : tokenLock[t] = q =>
           t \notin Doomed(c) /\ tokenLock'[t] = q
    BY <1>1, <1>5, IdentityAssumption, ReleaseKeeps DEF Inv
  <2>2. \A s \in SessionId : sessionLock[s] = q =>
           s \notin B /\ sessionLock'[s] = q
    BY <1>1, <1>6, IdentityAssumption, ReleaseKeeps DEF Inv
  <2>3. refresh[q].pc \notin {"idle", "begun"} =>
           tokenLock[refresh[q].token] = q
    BY DEF Inv, RequestInv
  <2> QED
    BY <1>1, <1>2, <1>4, <2>1, <2>2, <2>3, Rows, SameRequest
<1>8. ASSUME NEW d \in Cleaner PROVE CleanerInv(d)'
  <2>1. CASE d = c
    BY <1>1, <2>1 DEF CleanerInv
  <2>2. CASE d # c
    BY <1>1, <1>2, <1>6, <2>2, ReleaseKeeps, SameCleaner DEF Inv
  <2> QED
    BY <2>1, <2>2
<1>9. ASSUME NEW s \in SessionId PROVE SessionInv(s)'
  <2>1. CASE s \in B
    <3>1. TokensOf(s)' = {}
      <4>1. ASSUME NEW t \in TokenId, token'[t].state = "live",
                   token'[t].session = s
            PROVE  FALSE
        BY <1>4, <1>5, <2>1, <4>1 DEF Doomed, LiveToken
      <4> QED
        BY <4>1 DEF TokensOf, LiveToken
    <3> QED
      BY <1>3, <2>1, <3>1 DEF SessionInv, Live
  <2>2. CASE s \notin B
    <3>1. \A t \in TokenId :
             t \in TokensOf(s)' <=> t \in TokensOf(s)
      <4>1. \A t \in TokenId : t \in Doomed(c) =>
               token[t].session # s /\ token'[t].state # "live"
        BY <1>5, <2>2 DEF Doomed
      <4> QED
        BY <1>4, <4>1 DEF TokensOf, LiveToken
    <3>2. TokensOf(s)' = TokensOf(s)
      BY <3>1 DEF TokensOf
    <3>3. \A t \in TokensOf(s) : token'[t] = token[t]
      BY <1>4, <2>2 DEF TokensOf, Doomed
    <3>4. Unspent(s)' = Unspent(s)
      BY <3>2, <3>3 DEF Unspent
    <3>5. Live(s)' = Live(s)
      BY <1>2, <2>2 DEF Live
    <3> QED
      BY <3>2, <3>4, <3>5 DEF Inv, SessionInv
  <2> QED
    BY <2>1, <2>2
<1> QED
  BY <1>7, <1>8, <1>9 DEF Inv

LEMMA CleanupInv ==
    ASSUME Inv, TypeOK', NEW c \in Cleaner, CleanupNext(c)
    PROVE  Inv'
<1>1. CASE StartCleanup(c)
  <2>1. ASSUME NEW q \in Request PROVE RequestInv(q)'
    BY <1>1, SameRequest DEF StartCleanup
  <2>2. ASSUME NEW d \in Cleaner PROVE CleanerInv(d)'
    <3>1. CASE d = c
      BY <1>1, <3>1 DEF StartCleanup, Inv, TypeOK, CleanerInv
    <3>2. CASE d # c
      BY <1>1, <3>2, SameCleaner DEF StartCleanup, Inv, TypeOK
    <3> QED
      BY <3>1, <3>2
  <2> QED
    BY <1>1, <2>1, <2>2, SameRows DEF Inv, StartCleanup
<1>2. ASSUME NEW B \in SUBSET SessionId, SelectBatch(c, B) PROVE Inv'
  <2>1. \A s \in B : sessionLock[s] = Free /\ Live(s)
    BY <1>2 DEF SelectBatch, IsBatch, CleanupEligible
  <2>2. \A s \in SessionId :
           sessionLock[s] # Free => sessionLock'[s] = sessionLock[s]
    BY <1>2, <2>1 DEF SelectBatch
  <2>3. ASSUME NEW q \in Request PROVE RequestInv(q)'
    BY <1>2, <2>2, IdentityAssumption, Rows, SameRequest DEF SelectBatch
  <2>4. ASSUME NEW d \in Cleaner PROVE CleanerInv(d)'
    <3>1. CASE d = c
      <4>1. cleaner'[c].batch = B /\ cleaner'[c].pc = "delete"
        BY <1>2 DEF SelectBatch, Inv, TypeOK, CleanerState
      <4> QED
        BY <1>2, <2>1, <3>1, <4>1 DEF SelectBatch, CleanerInv, Live
    <3>2. CASE d # c
      BY <1>2, <2>2, <3>2, IdentityAssumption, SameCleaner
      DEF SelectBatch, Inv, TypeOK
    <3> QED
      BY <3>1, <3>2
  <2> QED
    BY <1>2, <2>3, <2>4, SameRows DEF Inv, SelectBatch
<1>3. ASSUME NEW t \in TokenId, CascadeLocks(c, t) PROVE Inv'
  <2>1. \A x \in TokenId : tokenLock[x] # Free => tokenLock'[x] = tokenLock[x]
    BY <1>3 DEF CascadeLocks, Inv, TypeOK
  <2> QED
    BY <1>3, <2>1, LockingInv DEF CascadeLocks
<1>4. CASE CommitBatch(c)
  BY <1>4, CommitBatchInv
<1>5. CASE AbortBatch(c)
  <2>1. /\ cleaner'[c].batch = {}
        /\ \A d \in Cleaner : d # c => cleaner'[d] = cleaner[d]
        /\ ReleaseAll(c)
    BY <1>5 DEF AbortBatch, Inv, TypeOK, CleanerState
  <2>2. ASSUME NEW q \in Request PROVE RequestInv(q)'
    BY <1>5, <2>1, IdentityAssumption, Rows, ReleaseKeeps, SameRequest
    DEF AbortBatch, Inv
  <2>3. ASSUME NEW d \in Cleaner PROVE CleanerInv(d)'
    <3>1. CASE d = c
      BY <2>1, <3>1 DEF CleanerInv
    <3>2. CASE d # c
      BY <1>5, <2>1, <3>2, ReleaseKeeps, SameCleaner DEF AbortBatch, Inv
    <3> QED
      BY <3>1, <3>2
  <2> QED
    BY <1>5, <2>2, <2>3, SameRows DEF Inv, AbortBatch
<1> QED
  BY <1>1, <1>2, <1>3, <1>4, <1>5 DEF CleanupNext

LEMMA RefreshInv ==
    ASSUME Inv, TypeOK', NEW r \in Request, RefreshNext(r)
    PROVE  Inv'
<1>1. CASE TokenMissing(r) \/ RefuseRevoked(r) \/ AbortRefresh(r)
  BY <1>1, FinishInv DEF TokenMissing, RefuseRevoked, AbortRefresh
<1> QED
  BY <1>1, BeginRefreshInv, LockTokenInv, LockSessionInv, DecideInv,
     CommitRevocationInv, CommitRotationInv DEF RefreshNext

LEMMA NextInv == Inv /\ TypeOK' /\ [Next]_vars => Inv'
<1> SUFFICES ASSUME Inv, TypeOK', [Next]_vars PROVE Inv'
  OBVIOUS
<1>1. ASSUME NEW s \in SessionId, Logout(s) PROVE Inv'
  BY <1>1, Rows, RevokeStatementInv DEF Logout
<1>2. ASSUME NEW r \in Request, NEW c \in Cleaner, ResolveDeadlock(r, c)
      PROVE  Inv'
  BY <1>2, RefreshInv, CleanupInv DEF ResolveDeadlock, RefreshNext, CleanupNext
<1>3. CASE Tick \/ UNCHANGED vars
  BY <1>3, LockingInv DEF Tick, vars
<1> QED
  BY <1>1, <1>2, <1>3, CreateSessionInv, RefreshInv, RevokeStatementInv,
     ResetInv, CleanupInv DEF Next, RevokeSessionForUser

LEMMA Invariance == Spec => []Inv
<1>1. Inv /\ TypeOK /\ TypeOK' /\ [Next]_vars => Inv'
  BY NextInv
<1> QED
  BY <1>1, InitInv, TypeCorrect, PTL DEF Spec

-----------------------------------------------------------------------------
\* At any time a live session has exactly one token that can still be rotated,
\* and a deleted session has none left, whatever the number of concurrent
\* refreshes, revocations, resets and cleanups.
THEOREM OneCredential == Spec => []OneCredentialPerSession
  BY Invariance, InvImplies, PTL

\* No lock protocol step of any transaction is undone by another.
THEOREM LocksHeld == Spec => []LocksAreHeld
  BY Invariance, InvImplies, PTL

\* The decision a refresh took under its locks still holds when it commits.
THEOREM DecisionsStand == Spec => []DecisionStands
  BY Invariance, InvImplies, PTL

-----------------------------------------------------------------------------
(***************************************************************************)
(* Every step opens a session, rotates a credential, or closes a (possibly *)
(* empty) set of sessions.                                                 *)
(***************************************************************************)
Closing ==
    /\ \A t \in TokenId : token'[t].state = "unborn" <=> token[t].state = "unborn"
    /\ \A s \in SessionId :
          /\ TokensOf(s)' \subseteq TokensOf(s)
          /\ \/ /\ StandingOf(s)' = StandingOf(s)
                /\ StandingOf(s) = "open" => Unspent(s)' = Unspent(s)
             \/ StandingOf(s) = "open" /\ StandingOf(s)' = "closed"

LEMMA SameTokensClose ==
    ASSUME Inv, token' = token,
           \A s \in SessionId :
              /\ session'[s].state = session[s].state
              /\ session[s].state = "live" =>
                    session'[s].revoked = session[s].revoked \/ session'[s].revoked
    PROVE  Closing
<1>1. \A s \in SessionId : TokensOf(s)' = TokensOf(s) /\ Unspent(s)' = Unspent(s)
  BY DEF TokensOf, Unspent, LiveToken
<1>2. ASSUME NEW s \in SessionId
      PROVE  \/ StandingOf(s)' = StandingOf(s)
             \/ StandingOf(s) = "open" /\ StandingOf(s)' = "closed"
  <2>1. session[s].revoked \in BOOLEAN /\ session[s].state \in RowState
    BY DEF Inv, TypeOK, SessionRow
  <2> QED
    BY <2>1 DEF StandingOf, Live
<1> QED
  BY <1>1, <1>2 DEF Closing

LEMMA CommitBatchCloses ==
    ASSUME Inv, NEW c \in Cleaner, CommitBatch(c)
    PROVE  Closing
<1> DEFINE B == cleaner[c].batch
<1>1. \A s \in SessionId : s \notin B => session'[s] = session[s]
  BY DEF CommitBatch
<1>2. \A s \in SessionId : s \in B =>
         session'[s].state = "deleted" /\ session[s].state = "live"
  BY DEF CommitBatch, Inv, TypeOK, SessionRow, CleanerInv, Live
<1>3. \A t \in TokenId : t \notin Doomed(c) => token'[t] = token[t]
  BY DEF CommitBatch
<1>4. \A t \in TokenId : t \in Doomed(c) =>
         token'[t].state = "deleted" /\ token[t].state = "live"
  BY DEF CommitBatch, Inv, TypeOK, TokenRow, Doomed, LiveToken
<1>5. ASSUME NEW s \in SessionId PROVE TokensOf(s)' \subseteq TokensOf(s)
  BY <1>3, <1>4 DEF TokensOf, LiveToken
<1>6. ASSUME NEW s \in SessionId, s \in B
      PROVE  \/ StandingOf(s)' = StandingOf(s) /\ StandingOf(s) # "open"
             \/ StandingOf(s) = "open" /\ StandingOf(s)' = "closed"
  BY <1>2, <1>6 DEF StandingOf, Live
<1>7. ASSUME NEW s \in SessionId, s \notin B
      PROVE  StandingOf(s)' = StandingOf(s) /\ Unspent(s)' = Unspent(s)
  <2>1. \A t \in TokenId : token[t].session = s => t \notin Doomed(c)
    BY <1>7 DEF Doomed
  <2>2. \A t \in TokenId : t \in Doomed(c) =>
           ~(token'[t].state = "live") /\ token[t].session # s
    BY <1>4, <2>1
  <2>3. \A t \in TokenId : t \in Unspent(s)' <=> t \in Unspent(s)
    BY <1>3, <2>2 DEF Unspent, TokensOf, LiveToken
  <2>4. Unspent(s)' = Unspent(s)
    BY <2>3 DEF Unspent, TokensOf
  <2> QED
    BY <1>1, <1>7, <2>4 DEF StandingOf, Live
<1> QED
  BY <1>3, <1>4, <1>5, <1>6, <1>7 DEF Closing

LEMMA Steps ==
    ASSUME Inv, [Next]_vars
    PROVE  \/ Closing
           \/ \E u \in User, s \in SessionId, t \in TokenId : CreateSession(u, s, t)
           \/ \E r \in Request, new \in TokenId : CommitRotation(r, new)
<1>0. CASE UNCHANGED << session, token >>
  BY <1>0, SameTokensClose
<1>1. ASSUME NEW r \in Request, CommitRevocation(r) PROVE Closing
  BY <1>1, Rows, SameTokensClose DEF CommitRevocation, Inv, TypeOK, SessionRow
<1>2. ASSUME NEW u \in User, NEW s \in SessionId, RevokeStatement(u, s)
      PROVE  Closing
  BY <1>2, SameTokensClose DEF RevokeStatement, Inv, TypeOK, SessionRow
<1>3. ASSUME NEW p \in Resetter, CommitReset(p) PROVE Closing
  BY <1>3, SameTokensClose DEF CommitReset, Inv, TypeOK, SessionRow
<1>4. ASSUME NEW r \in Request, RefreshNext(r)
      PROVE  \/ UNCHANGED << session, token >>
             \/ CommitRevocation(r)
             \/ \E new \in TokenId : CommitRotation(r, new)
  BY <1>4 DEF RefreshNext, BeginRefresh, LockToken, TokenMissing, LockSession,
     RefuseRevoked, Decide, AbortRefresh
<1>5. ASSUME NEW p \in Resetter, ResetNext(p)
      PROVE  UNCHANGED << session, token >> \/ CommitReset(p)
  BY <1>5 DEF ResetNext, BeginReset, ResetVisits, AbortReset
<1>6. ASSUME NEW c \in Cleaner, CleanupNext(c)
      PROVE  UNCHANGED << session, token >> \/ CommitBatch(c)
  BY <1>6 DEF CleanupNext, StartCleanup, SelectBatch, CascadeLocks, AbortBatch
<1>7. ASSUME NEW s \in SessionId, Logout(s) PROVE Closing
  BY <1>2, <1>7, Rows DEF Logout
<1>8. ASSUME NEW r \in Request, NEW c \in Cleaner, ResolveDeadlock(r, c)
      PROVE  UNCHANGED << session, token >>
  BY <1>8 DEF ResolveDeadlock, AbortRefresh, AbortBatch
<1>9. CASE Tick \/ UNCHANGED vars
  BY <1>0, <1>9 DEF Tick, vars
<1> QED
  BY <1>0, <1>1, <1>2, <1>3, <1>4, <1>5, <1>6, <1>7, <1>8, <1>9,
     CommitBatchCloses DEF Next, RevokeSessionForUser

\* What creation and rotation do to standings and credentials.
LEMMA CreationOpens ==
    ASSUME Inv, NEW u \in User, NEW s \in SessionId, NEW t \in TokenId,
           CreateSession(u, s, t)
    PROVE  /\ StandingOf(s) = "unborn" /\ StandingOf(s)' = "open"
           /\ Unspent(s)' = {t}
           /\ t \notin Issued /\ Issued' = Issued \cup {t}
           /\ \A x \in SessionId : x # s =>
                 /\ StandingOf(x)' = StandingOf(x)
                 /\ TokensOf(x)' = TokensOf(x)
                 /\ Unspent(x)' = Unspent(x)
<1>1. /\ session'[s].state = "live" /\ ~session'[s].revoked
      /\ \A x \in SessionId : x # s => session'[x] = session[x]
  BY DEF CreateSession, Inv, TypeOK
<1>2. /\ token'[t] = [state |-> "live", session |-> s, replacedBy |-> NoToken]
      /\ \A x \in TokenId : x # t => token'[x] = token[x]
  BY DEF CreateSession, Inv, TypeOK
<1>3. TokensOf(s) = {}
  BY DEF Inv, SessionInv, CreateSession, Live
<1>4. Unspent(s)' = {t}
  BY <1>2, <1>3 DEF Unspent, TokensOf, LiveToken
<1>5. Issued' = Issued \cup {t} /\ t \notin Issued
  BY <1>2 DEF Issued, CreateSession
<1>6. ASSUME NEW x \in SessionId, x # s
      PROVE  /\ StandingOf(x)' = StandingOf(x)
             /\ TokensOf(x)' = TokensOf(x)
             /\ Unspent(x)' = Unspent(x)
  <2>1. TokensOf(x)' = TokensOf(x)
    BY <1>2, <1>6 DEF TokensOf, LiveToken, CreateSession
  <2>2. Unspent(x)' = Unspent(x)
    BY <1>2, <1>6, <2>1 DEF Unspent, TokensOf
  <2> QED
    BY <1>1, <1>6, <2>1, <2>2 DEF StandingOf, Live
<1> QED
  BY <1>1, <1>4, <1>5, <1>6 DEF StandingOf, Live, CreateSession

LEMMA RotationRotates ==
    ASSUME Inv, NEW r \in Request, NEW new \in TokenId, CommitRotation(r, new)
    PROVE  \E s \in SessionId :
              /\ StandingOf(s) = "open"
              /\ Unspent(s)' = {new}
              /\ new \notin Issued /\ Issued' = Issued \cup {new}
              /\ \A x \in SessionId : StandingOf(x)' = StandingOf(x)
              /\ \A x \in SessionId : x # s =>
                    TokensOf(x)' = TokensOf(x) /\ Unspent(x)' = Unspent(x)
<1>a. PICK old \in TokenId : old = refresh[r].token
  BY Rows
<1>b. PICK own \in SessionId : own = SessionOf(r)
  BY Rows
<1>1. /\ LiveToken(old) /\ token[old].replacedBy = NoToken
      /\ token[old].session = own
      /\ token[new].state = "unborn"
      /\ Live(own) /\ ~session[own].revoked
  BY <1>a, <1>b DEF CommitRotation, Inv, RequestInv, SessionOf
<1>2. old # new
  BY <1>1 DEF LiveToken
<1>3. /\ \A t \in TokenId : t \notin {old, new} => token'[t] = token[t]
      /\ token'[old].session = own
      /\ token'[old].state = "live"
      /\ token'[old].replacedBy = new
      /\ token'[new].session = own
      /\ token'[new].state = "live"
      /\ token'[new].replacedBy = NoToken
  BY <1>a, <1>b, <1>1, <1>2 DEF CommitRotation, Inv, TypeOK, TokenRow, LiveToken
<1>4. \A s \in SessionId : /\ session'[s].state = session[s].state
                           /\ session'[s].revoked = session[s].revoked
  BY <1>b DEF CommitRotation, Inv, TypeOK, SessionRow
<1>5. Unspent(own) = {old}
  <2>1. PICK t \in TokenId : Unspent(own) = {t}
    BY <1>1 DEF Inv, SessionInv
  <2>2. old \in Unspent(own)
    BY <1>1 DEF Unspent, TokensOf
  <2> QED
    BY <2>1, <2>2
<1>6. Unspent(own)' = {new}
  <2>1. \A x \in TokenId : x \in Unspent(own)' <=> x = new
    BY <1>2, <1>3, <1>5, IdentityAssumption DEF Unspent, TokensOf, LiveToken
  <2> QED
    BY <2>1 DEF Unspent, TokensOf
<1>7. Issued' = Issued \cup {new} /\ new \notin Issued
  BY <1>1, <1>3 DEF Issued, LiveToken
<1>8. ASSUME NEW x \in SessionId, x # own
      PROVE  TokensOf(x)' = TokensOf(x) /\ Unspent(x)' = Unspent(x)
  <2>1. \A t \in TokenId : t \in TokensOf(x)' <=> t \in TokensOf(x)
    BY <1>1, <1>3, <1>8 DEF TokensOf, LiveToken
  <2>2. TokensOf(x)' = TokensOf(x)
    BY <2>1 DEF TokensOf
  <2>3. \A t \in TokensOf(x) : token'[t] = token[t]
    BY <1>1, <1>3, <1>8 DEF TokensOf, LiveToken
  <2> QED
    BY <2>2, <2>3 DEF Unspent
<1>9. \A x \in SessionId : StandingOf(x)' = StandingOf(x)
  BY <1>4 DEF StandingOf, Live
<1>10. StandingOf(own) = "open"
  BY <1>1 DEF StandingOf, Live
<1> QED
  BY <1>6, <1>7, <1>8, <1>9, <1>10

LEMMA ClosedStays ==
    ASSUME Inv, [Next]_vars, NEW s \in SessionId, StandingOf(s) = "closed"
    PROVE  StandingOf(s)' = "closed" /\ TokensOf(s)' \subseteq TokensOf(s)
<1>1. CASE Closing
  BY <1>1 DEF Closing
<1>2. ASSUME NEW u \in User, NEW x \in SessionId, NEW t \in TokenId, CreateSession(u, x, t)
      PROVE  StandingOf(s)' = "closed" /\ TokensOf(s)' \subseteq TokensOf(s)
  <2>1. x # s
    BY <1>2, CreationOpens
  <2> QED
    BY <1>2, <2>1, CreationOpens
<1>3. ASSUME NEW r \in Request, NEW new \in TokenId, CommitRotation(r, new)
      PROVE  StandingOf(s)' = "closed" /\ TokensOf(s)' \subseteq TokensOf(s)
  BY <1>3, RotationRotates
<1> QED
  BY <1>1, <1>2, <1>3, Steps

\* A session that was revoked or deleted stays so, and no rotation adds a token
\* to it.
THEOREM DeadSessionsStayDead == Spec => DeadStaysDead
<1>1. Inv /\ [Next]_vars =>
        [\A s \in SessionId : StandingOf(s) = "closed" =>
            /\ StandingOf(s)' = "closed"
            /\ TokensOf(s)' \subseteq TokensOf(s)]_vars
  BY ClosedStays
<1> QED
  BY <1>1, Invariance, PTL DEF Spec, DeadStaysDead

-----------------------------------------------------------------------------
\* The credential depends on the standing and the unspent tokens only.
LEMMA SameCredential ==
    ASSUME NEW s \in SessionId, StandingOf(s)' = StandingOf(s),
           StandingOf(s) = "open" => Unspent(s)' = Unspent(s)
    PROVE  CredentialOf(s)' = CredentialOf(s)
<1>1. CASE StandingOf(s) = "open"
  <2> DEFINE Pick(U) == CHOOSE t \in U : TRUE
  <2>1. Pick(Unspent(s))' = Pick(Unspent(s))
    <3>1. Unspent(s)' = Unspent(s)
      BY <1>1
    <3> QED
      BY <3>1, Zenon
  <2> QED
    BY <1>1, <2>1 DEF CredentialOf
<1>2. CASE StandingOf(s) # "open"
  BY <1>2 DEF CredentialOf
<1> QED
  BY <1>1, <1>2

LEMMA AuthorityStep ==
    ASSUME Inv, [Next]_vars
    PROVE  [Authority!AuthorityNext]_(Authority!authorityVars)
<1> USE DEF Authority!AuthorityNext, Authority!authorityVars
<1>1. CASE Closing
  <2> DEFINE S == {s \in SessionId : StandingOf(s) = "open" /\ StandingOf(s)' = "closed"}
  <2>1. Issued' = Issued
    BY <1>1 DEF Closing, Issued
  <2>2. \A s \in SessionId : s \notin S =>
           StandingOf(s)' = StandingOf(s) /\ CredentialOf(s)' = CredentialOf(s)
    BY <1>1, SameCredential DEF Closing
  <2>3. \A s \in SessionId : s \in S =>
           /\ StandingOf(s) = "open" /\ StandingOf(s)' = "closed"
           /\ CredentialOf(s)' = NoToken
    BY DEF CredentialOf
  <2>4. Authority!Close(S)
    BY <2>1, <2>2, <2>3 DEF Authority!Close
  <2> QED
    BY <2>4
<1>2. ASSUME NEW u \in User, NEW s \in SessionId, NEW t \in TokenId,
             CreateSession(u, s, t)
      PROVE  Authority!AuthorityNext
  <2>1. /\ StandingOf(s) = "unborn" /\ StandingOf(s)' = "open"
        /\ t \notin Issued /\ Issued' = Issued \cup {t}
        /\ \A x \in SessionId : x # s => StandingOf(x)' = StandingOf(x)
    BY <1>2, CreationOpens
  <2>2. CredentialOf(s)' = t
    BY <1>2, CreationOpens DEF CredentialOf
  <2>3. \A x \in SessionId : x # s => CredentialOf(x)' = CredentialOf(x)
    BY <1>2, CreationOpens, SameCredential
  <2>4. Authority!Open(s, t)
    BY <2>1, <2>2, <2>3 DEF Authority!Open
  <2> QED
    BY <2>4
<1>3. ASSUME NEW r \in Request, NEW new \in TokenId, CommitRotation(r, new)
      PROVE  Authority!AuthorityNext
  <2>1. PICK s \in SessionId :
              /\ StandingOf(s) = "open"
              /\ Unspent(s)' = {new}
              /\ new \notin Issued /\ Issued' = Issued \cup {new}
              /\ \A x \in SessionId : StandingOf(x)' = StandingOf(x)
              /\ \A x \in SessionId : x # s => Unspent(x)' = Unspent(x)
    BY <1>3, RotationRotates
  <2>2. CredentialOf(s)' = new
    BY <2>1 DEF CredentialOf
  <2>3. \A x \in SessionId : x # s => CredentialOf(x)' = CredentialOf(x)
    BY <2>1, SameCredential
  <2>4. Authority!Rotate(s, new)
    BY <2>1, <2>2, <2>3 DEF Authority!Rotate
  <2> QED
    BY <2>4
<1> QED
  BY <1>1, <1>2, <1>3, Steps

\* The row locks implement an atomic one-credential-per-session authority.
THEOREM Refinement == Spec => ImplementsAuthority
<1>1. Init => Authority!AuthorityInit
  BY DEF Init, Authority!AuthorityInit, StandingOf, CredentialOf, Issued, Live
<1>2. Inv /\ [Next]_vars => [Authority!AuthorityNext]_(Authority!authorityVars)
  BY AuthorityStep
<1> QED
  BY <1>1, <1>2, Invariance, PTL
  DEF Spec, ImplementsAuthority, Authority!AuthoritySpec

-----------------------------------------------------------------------------
(***************************************************************************)
(* Locks, as seen from the rows.  Inv says what a transaction has locked;  *)
(* deadlocks and the completeness of a reset depend on the converse, that  *)
(* whoever holds a row is where it says it holds it.                       *)
(***************************************************************************)
\* Who holds the lock of a row is where it says it holds one.
TokenHolder(t, p) ==
    \/ p = Free
    \/ p \in Request /\ refresh[p].pc \notin {"idle", "begun"} /\ refresh[p].token = t
    \/ p \in Cleaner /\ t \in Doomed(p)

SessionHolder(s, p) ==
    \/ p = Free
    \/ p \in Request /\ refresh[p].pc \notin {"idle", "begun", "tokenLocked"}
    \/ p \in Resetter /\ s \in reset[p].passed
    \/ p \in Cleaner /\ s \in cleaner[p].batch

HoldersKnown ==
    /\ \A t \in TokenId : TokenHolder(t, tokenLock[t])
    /\ \A s \in SessionId : SessionHolder(s, sessionLock[s])

\* A revoke-all visits sessions of its own user, has the ones it has visited or
\* found them dead, and is the only one for that user.
ResetInPlace(p) ==
    /\ reset[p].passed \subseteq reset[p].scan
    /\ \A s \in reset[p].scan :
          /\ reset[p].pc = "revoking"
          /\ session[s].state # "unborn"
          /\ session[s].user = reset[p].user
    /\ \A s \in reset[p].passed : sessionLock[s] = p \/ StandingOf(s) = "closed"

ResetsKnown ==
    /\ \A p \in Resetter : ResetInPlace(p)
    /\ \A p, q \in Resetter :
          /\ reset[p].pc = "revoking" /\ reset[q].pc = "revoking"
          /\ reset[p].user = reset[q].user
          => p = q

\* A step of a, or of nobody: the others stay where they are and keep their rows,
\* and what a holds after it, it holds where it is then.
Frame(a) ==
    /\ \A q \in Request : q # a => refresh'[q] = refresh[q]
    /\ \A q \in Resetter : q # a => reset'[q] = reset[q]
    /\ \A q \in Cleaner : q # a => cleaner'[q] = cleaner[q]
    /\ \A s \in SessionId :
          /\ sessionLock'[s] # a => sessionLock'[s] = Free \/ sessionLock'[s] = sessionLock[s]
          /\ sessionLock[s] \notin {Free, a} => sessionLock'[s] = sessionLock[s]
          /\ sessionLock'[s] = a => SessionHolder(s, a)'
    /\ \A t \in TokenId :
          /\ tokenLock'[t] # a => tokenLock'[t] = Free \/ tokenLock'[t] = tokenLock[t]
          /\ tokenLock[t] \notin {Free, a} => tokenLock'[t] = tokenLock[t] /\ token'[t] = token[t]
          /\ tokenLock'[t] = a => TokenHolder(t, a)'

LEMMA FrameKeepsHolders ==
    ASSUME Inv, HoldersKnown, NEW a, Frame(a)
    PROVE  HoldersKnown'
<1>1. ASSUME NEW t \in TokenId PROVE TokenHolder(t, tokenLock[t])'
  <2> DEFINE p == tokenLock[t]
  <2>1. CASE tokenLock'[t] = a
    BY <2>1 DEF Frame, TokenHolder
  <2>2. CASE tokenLock'[t] = Free
    BY <2>2 DEF TokenHolder
  <2>3. CASE tokenLock'[t] # a /\ tokenLock'[t] # Free
    <3>1. tokenLock'[t] = p /\ token'[t] = token[t] /\ p # a /\ p # Free
      BY <2>3 DEF Frame
    <3>2. TokenHolder(t, p)
      BY DEF HoldersKnown
    <3>3. TokenHolder(t, p)'
      BY <3>1, <3>2 DEF Frame, TokenHolder, Doomed, LiveToken
    <3> QED
      BY <3>1, <3>3 DEF TokenHolder
  <2> QED
    BY <2>1, <2>2, <2>3
<1>2. ASSUME NEW s \in SessionId PROVE SessionHolder(s, sessionLock[s])'
  <2> DEFINE p == sessionLock[s]
  <2>1. CASE sessionLock'[s] = a
    BY <2>1 DEF Frame, SessionHolder
  <2>2. CASE sessionLock'[s] = Free
    BY <2>2 DEF SessionHolder
  <2>3. CASE sessionLock'[s] # a /\ sessionLock'[s] # Free
    <3>1. sessionLock'[s] = p /\ p # a /\ p # Free
      BY <2>3 DEF Frame
    <3>2. SessionHolder(s, p)
      BY DEF HoldersKnown
    <3> QED
      BY <3>1, <3>2 DEF Frame, SessionHolder
  <2> QED
    BY <2>1, <2>2, <2>3
<1> QED
  BY <1>1, <1>2 DEF HoldersKnown

\* Locked tokens are live.
LEMMA LockedIsLive ==
    ASSUME Inv, HoldersKnown, NEW t \in TokenId, tokenLock[t] # Free
    PROVE  LiveToken(t)
  BY DEF HoldersKnown, TokenHolder, Doomed, Inv, RequestInv

LEMMA ReleaseFrame ==
    ASSUME Inv, HoldersKnown, NEW a \in Txn, ReleaseAll(a),
           \A q \in Request : q # a => refresh'[q] = refresh[q],
           \A q \in Resetter : q # a => reset'[q] = reset[q],
           \A q \in Cleaner : q # a => cleaner'[q] = cleaner[q],
           \A t \in TokenId : tokenLock[t] \notin {Free, a} => token'[t] = token[t]
    PROVE  Frame(a)
  BY ReleaseKeeps, IdentityAssumption DEF Frame, Inv

LEMMA RefreshFrame ==
    ASSUME Inv, HoldersKnown, NEW r \in Request, RefreshNext(r)
    PROVE  Frame(r)
<1>1. ASSUME NEW answer, Finish(r, answer), UNCHANGED << token, reset, cleaner >>
      PROVE  Frame(r)
  BY <1>1, ReleaseFrame DEF Finish, Inv, TypeOK
<1>2. ASSUME NEW t \in TokenId, BeginRefresh(r, t) PROVE Frame(r)
  <2>1. \A q \in Request : q # r => refresh'[q] = refresh[q]
    BY <1>2 DEF BeginRefresh, Inv, TypeOK
  <2>2. (\A x \in TokenId : tokenLock[x] # r) /\ (\A s \in SessionId : sessionLock[s] # r)
    BY <1>2, IdentityAssumption DEF BeginRefresh, HoldersKnown, TokenHolder, SessionHolder
  <2> QED
    BY <1>2, <2>1, <2>2 DEF BeginRefresh, Frame
<1>3. CASE LockToken(r)
  <2>1. /\ refresh'[r].pc = "tokenLocked" /\ refresh'[r].token = refresh[r].token
        /\ \A q \in Request : q # r => refresh'[q] = refresh[q]
    BY <1>3 DEF LockToken, Inv, TypeOK, RefreshState
  <2>2. (\A x \in TokenId : tokenLock[x] # r) /\ (\A s \in SessionId : sessionLock[s] # r)
    BY <1>3, IdentityAssumption DEF LockToken, HoldersKnown, TokenHolder, SessionHolder
  <2>3. /\ tokenLock[refresh[r].token] = Free
        /\ \A x \in TokenId : tokenLock'[x] = IF x = refresh[r].token THEN r ELSE tokenLock[x]
    BY <1>3, Rows DEF LockToken, Inv, TypeOK
  <2> QED
    BY <1>3, <2>1, <2>2, <2>3 DEF LockToken, Frame, TokenHolder
<1>4. CASE LockSession(r) \/ Decide(r)
  <2>1. /\ refresh'[r].pc \notin {"idle", "begun", "tokenLocked"}
        /\ refresh'[r].token = refresh[r].token
        /\ refresh[r].pc \notin {"idle", "begun"}
        /\ \A q \in Request : q # r => refresh'[q] = refresh[q]
    BY <1>4 DEF LockSession, Decide, Verdict, Inv, TypeOK, RefreshState
  <2>2. \A t \in TokenId : tokenLock[t] = r => TokenHolder(t, r)'
    BY <2>1, IdentityAssumption DEF HoldersKnown, TokenHolder
  <2>3. \A s \in SessionId : \/ sessionLock'[s] = sessionLock[s]
                             \/ sessionLock[s] = Free /\ sessionLock'[s] = r
    <3>1. sessionLock \in [SessionId -> Txn \cup {Free}] /\ SessionOf(r) \in SessionId
      BY Rows DEF Inv, TypeOK
    <3>2. CASE LockSession(r)
      BY <3>1, <3>2 DEF LockSession
    <3>3. CASE Decide(r)
      BY <3>3 DEF Decide
    <3> QED
      BY <1>4, <3>2, <3>3
  <2> QED
    BY <1>4, <2>1, <2>2, <2>3 DEF LockSession, Decide, Frame, SessionHolder
<1>5. ASSUME NEW new \in TokenId, CommitRotation(r, new) PROVE Frame(r)
  <2>1. \A t \in TokenId : tokenLock[t] \notin {Free, r} => token'[t] = token[t]
    BY <1>5, LockedIsLive DEF CommitRotation, Inv, TypeOK, RequestInv, LiveToken
  <2> QED
    BY <1>5, <2>1, ReleaseFrame DEF CommitRotation, Finish, Inv, TypeOK
<1> QED
  BY <1>1, <1>2, <1>3, <1>4, <1>5
  DEF RefreshNext, TokenMissing, RefuseRevoked, CommitRevocation, AbortRefresh

LEMMA ResetFrame ==
    ASSUME Inv, HoldersKnown, ResetsKnown, NEW p \in Resetter, ResetNext(p)
    PROVE  Frame(p)
<1>1. \A t \in TokenId : tokenLock[t] # p
  BY IdentityAssumption DEF HoldersKnown, TokenHolder
<1>2. ASSUME NEW u \in User, BeginReset(p, u) PROVE Frame(p)
  <2>1. \A s \in SessionId : sessionLock[s] # p
    BY <1>2, IdentityAssumption
    DEF BeginReset, HoldersKnown, SessionHolder, ResetsKnown, ResetInPlace
  <2> QED
    BY <1>1, <1>2, <2>1 DEF BeginReset, Frame, Inv, TypeOK
<1>3. ASSUME NEW s \in SessionId, ResetVisits(p, s) PROVE Frame(p)
  <2>1. /\ reset'[p].passed = reset[p].passed \cup {s}
        /\ \A q \in Resetter : q # p => reset'[q] = reset[q]
    BY <1>3 DEF ResetVisits, Inv, TypeOK, ResetState
  <2>2. \A x \in SessionId : \/ sessionLock'[x] = sessionLock[x]
                             \/ x = s /\ sessionLock[x] = Free /\ sessionLock'[x] = p
    <3>1. sessionLock \in [SessionId -> Txn \cup {Free}] /\ sessionLock[s] = Free
      BY <1>3 DEF ResetVisits, Inv, TypeOK
    <3>2. sessionLock' = sessionLock \/ sessionLock' = [sessionLock EXCEPT ![s] = p]
      BY <1>3 DEF ResetVisits
    <3> QED
      BY <3>1, <3>2
  <2>3. \A x \in SessionId : sessionLock[x] = p => x \in reset[p].passed
    BY IdentityAssumption DEF HoldersKnown, SessionHolder
  <2> QED
    BY <1>1, <1>3, <2>1, <2>2, <2>3 DEF ResetVisits, Frame, SessionHolder
<1>4. CASE CommitReset(p) \/ AbortReset(p)
  BY <1>4, ReleaseFrame DEF CommitReset, AbortReset, EndReset, Inv, TypeOK
<1> QED
  BY <1>2, <1>3, <1>4 DEF ResetNext

LEMMA CleanupFrame ==
    ASSUME Inv, HoldersKnown, NEW c \in Cleaner, CleanupNext(c)
    PROVE  Frame(c)
<1>1. ASSUME cleaner[c].pc # "delete"
      PROVE  /\ \A t \in TokenId : tokenLock[t] # c
             /\ \A s \in SessionId : sessionLock[s] # c
  BY <1>1, IdentityAssumption
  DEF HoldersKnown, TokenHolder, SessionHolder, Doomed, Inv, CleanerInv
<1>2. CASE StartCleanup(c)
  BY <1>1, <1>2 DEF StartCleanup, Frame, Inv, TypeOK
<1>3. ASSUME NEW B \in SUBSET SessionId, SelectBatch(c, B) PROVE Frame(c)
  <2>1. /\ cleaner'[c].batch = B
        /\ \A q \in Cleaner : q # c => cleaner'[q] = cleaner[q]
    BY <1>3 DEF SelectBatch, Inv, TypeOK, CleanerState
  <2>2. \A s \in SessionId : /\ sessionLock'[s] = IF s \in B THEN c ELSE sessionLock[s]
                             /\ s \in B => sessionLock[s] = Free
    BY <1>3 DEF SelectBatch, IsBatch
  <2> QED
    BY <1>1, <1>3, <2>1, <2>2 DEF SelectBatch, Frame, SessionHolder
<1>4. ASSUME NEW t \in TokenId, CascadeLocks(c, t) PROVE Frame(c)
  <2>1. \A x \in TokenId : \/ tokenLock'[x] = tokenLock[x]
                           \/ x = t /\ tokenLock[x] = Free /\ tokenLock'[x] = c
    <3>1. tokenLock \in [TokenId -> Txn \cup {Free}] /\ tokenLock[t] = Free
      BY <1>4 DEF CascadeLocks, Inv, TypeOK
    <3>2. tokenLock' = [tokenLock EXCEPT ![t] = c]
      BY <1>4 DEF CascadeLocks
    <3> QED
      BY <3>1, <3>2
  <2>2. \A x \in TokenId : tokenLock'[x] = c => x \in Doomed(c)
    BY <1>4, <2>1, IdentityAssumption DEF CascadeLocks, HoldersKnown, TokenHolder
  <2>3. \A s \in SessionId : sessionLock[s] = c => s \in cleaner[c].batch
    BY IdentityAssumption DEF HoldersKnown, SessionHolder
  <2> QED
    BY <1>4, <2>1, <2>2, <2>3
    DEF CascadeLocks, Frame, TokenHolder, SessionHolder, Doomed, LiveToken
<1>5. CASE CommitBatch(c)
  <2>1. \A t \in TokenId : tokenLock[t] \notin {Free, c} => token'[t] = token[t]
    BY <1>5 DEF CommitBatch
  <2> QED
    BY <1>5, <2>1, ReleaseFrame DEF CommitBatch, Inv, TypeOK
<1>6. CASE AbortBatch(c)
  BY <1>6, ReleaseFrame DEF AbortBatch, Inv, TypeOK
<1> QED
  BY <1>2, <1>3, <1>4, <1>5, <1>6 DEF CleanupNext

LEMMA StepFrame ==
    ASSUME Inv, HoldersKnown, ResetsKnown, [Next]_vars
    PROVE  \E a \in Txn \cup {Free} : Frame(a) /\ (a \in Resetter => ResetNext(a))
<1>1. ASSUME UNCHANGED << sessionLock, tokenLock, refresh, reset, cleaner >>,
             \A t \in TokenId : tokenLock[t] # Free => token'[t] = token[t]
      PROVE  Frame(Free)
  BY <1>1 DEF Frame, TokenHolder, SessionHolder
<1>2. ASSUME NEW u \in User, NEW s \in SessionId, NEW t \in TokenId, CreateSession(u, s, t)
      PROVE  Frame(Free)
  <2>1. \A x \in TokenId : tokenLock[x] # Free => token'[x] = token[x]
    BY <1>2, LockedIsLive DEF CreateSession, Inv, TypeOK, LiveToken
  <2> QED
    BY <1>1, <1>2, <2>1 DEF CreateSession
<1>3. ASSUME NEW u, NEW s \in SessionId, RevokeStatement(u, s) PROVE Frame(Free)
  BY <1>1, <1>3 DEF RevokeStatement
<1>4. ASSUME Tick \/ UNCHANGED vars PROVE Frame(Free)
  <2>1. UNCHANGED << token, sessionLock, tokenLock, refresh, reset, cleaner >>
    BY <1>4 DEF Tick, vars
  <2> QED
    BY <1>1, <2>1
<1>5. ASSUME NEW r \in Request, NEW c \in Cleaner, ResolveDeadlock(r, c)
      PROVE  Frame(r) \/ Frame(c)
  BY <1>5, RefreshFrame, CleanupFrame DEF ResolveDeadlock, RefreshNext, CleanupNext
<1> QED
  BY <1>2, <1>3, <1>4, <1>5, RefreshFrame, ResetFrame, CleanupFrame, IdentityAssumption
  DEF Next, Logout, RevokeSessionForUser

\* A session keeps its user.
LEMMA UsersStay ==
    ASSUME Inv, [Next]_vars, NEW s \in SessionId, session[s].state # "unborn"
    PROVE  session'[s].state # "unborn" /\ session'[s].user = session[s].user
<1>0. session \in [SessionId -> SessionRow]
  BY DEF Inv, TypeOK
<1>1. CASE UNCHANGED session
  BY <1>1
<1>2. ASSUME NEW u \in User, NEW x \in SessionId, NEW t \in TokenId, CreateSession(u, x, t)
      PROVE  session'[s] = session[s]
  BY <1>0, <1>2 DEF CreateSession
<1>3. ASSUME NEW r \in Request, RefreshNext(r)
      PROVE  session'[s].state = session[s].state /\ session'[s].user = session[s].user
  <2>1. CASE CommitRevocation(r)
    BY <1>0, <2>1, Rows DEF CommitRevocation, SessionRow
  <2>2. ASSUME NEW new \in TokenId, CommitRotation(r, new)
        PROVE  session'[s].state = session[s].state /\ session'[s].user = session[s].user
    BY <1>0, <2>2, Rows DEF CommitRotation, SessionRow
  <2> QED
    BY <1>3, <2>1, <2>2 DEF RefreshNext, BeginRefresh, LockToken, TokenMissing, LockSession,
       RefuseRevoked, Decide, AbortRefresh
<1>4. ASSUME NEW u, NEW x \in SessionId, RevokeStatement(u, x)
      PROVE  session'[s].state = session[s].state /\ session'[s].user = session[s].user
  BY <1>0, <1>4 DEF RevokeStatement, SessionRow
<1>5. ASSUME NEW p \in Resetter, ResetNext(p)
      PROVE  session'[s].state = session[s].state /\ session'[s].user = session[s].user
  <2>1. CASE CommitReset(p)
    BY <1>0, <2>1 DEF CommitReset, SessionRow
  <2> QED
    BY <1>5, <2>1 DEF ResetNext, BeginReset, ResetVisits, AbortReset
<1>6. ASSUME NEW c \in Cleaner, CleanupNext(c)
      PROVE  session'[s].state # "unborn" /\ session'[s].user = session[s].user
  <2>1. CASE CommitBatch(c)
    BY <1>0, <2>1 DEF CommitBatch, SessionRow
  <2> QED
    BY <1>6, <2>1 DEF CleanupNext, StartCleanup, SelectBatch, CascadeLocks, AbortBatch
<1>7. ASSUME NEW r \in Request, NEW c \in Cleaner, ResolveDeadlock(r, c)
      PROVE  UNCHANGED session
  BY <1>7 DEF ResolveDeadlock, AbortRefresh, AbortBatch
<1> QED
  BY <1>1, <1>2, <1>3, <1>4, <1>5, <1>6, <1>7 DEF Next, Logout, RevokeSessionForUser, Tick, vars

LEMMA ResetKeepsItsPlace ==
    ASSUME Inv, HoldersKnown, ResetsKnown, [Next]_vars, NEW p \in Resetter, ResetNext(p)
    PROVE  ResetInPlace(p)'
<1>1. ASSUME NEW u \in User, BeginReset(p, u) PROVE ResetInPlace(p)'
  <2>1. /\ reset'[p].pc = "revoking" /\ reset'[p].user = u /\ reset'[p].passed = {}
        /\ \A s \in reset'[p].scan : s \in SessionId /\ Live(s) /\ session[s].user = u
    BY <1>1 DEF BeginReset, Inv, TypeOK
  <2> QED
    BY <1>1, <2>1 DEF BeginReset, ResetInPlace, Live
<1>2. ASSUME NEW s \in SessionId, ResetVisits(p, s) PROVE ResetInPlace(p)'
  <2>1. /\ reset'[p].passed = reset[p].passed \cup {s}
        /\ reset'[p].pc = reset[p].pc /\ reset'[p].user = reset[p].user
        /\ reset'[p].scan = reset[p].scan /\ reset[p].scan \subseteq SessionId
        /\ session' = session /\ s \in reset[p].scan
    BY <1>2 DEF ResetVisits, Inv, TypeOK, ResetState
  <2>2. /\ \A x \in SessionId : sessionLock[x] = p => sessionLock'[x] = p
        /\ sessionLock'[s] = p \/ StandingOf(s) = "closed"
    BY <1>2, <2>1 DEF ResetVisits, Inv, TypeOK, ResetsKnown, ResetInPlace, StandingOf, Live
  <2> QED
    BY <2>1, <2>2 DEF ResetsKnown, ResetInPlace, StandingOf, Live
<1>3. CASE CommitReset(p) \/ AbortReset(p)
  <2>1. EndReset(p)
    BY <1>3 DEF CommitReset, AbortReset
  <2>2. reset[p] \in ResetState
        /\ reset'[p] = [reset[p] EXCEPT !.pc = "idle", !.scan = {}, !.passed = {}]
    BY <2>1 DEF EndReset, Inv, TypeOK
  <2>3. reset'[p].scan = {} /\ reset'[p].passed = {}
    BY <2>2 DEF ResetState
  <2> QED
    BY <2>3 DEF ResetInPlace
<1> QED
  BY <1>1, <1>2, <1>3 DEF ResetNext

LEMMA ResetsStayKnown ==
    ASSUME Inv, HoldersKnown, ResetsKnown, [Next]_vars
    PROVE  ResetsKnown'
<1>1. PICK a \in Txn \cup {Free} : Frame(a) /\ (a \in Resetter => ResetNext(a))
  BY StepFrame
<1>2. ASSUME NEW p \in Resetter PROVE ResetInPlace(p)'
  <2>1. CASE p = a
    BY <1>1, <2>1, ResetKeepsItsPlace
  <2>2. CASE p # a
    <3>1. reset'[p] = reset[p] /\ ResetInPlace(p) /\ reset[p].scan \subseteq SessionId
      BY <1>1, <2>2 DEF Frame, ResetsKnown, Inv, TypeOK, ResetState
    <3>2. \A s \in reset[p].passed : sessionLock[s] = p => sessionLock'[s] = p
      BY <1>1, <2>2, <3>1, IdentityAssumption DEF Frame, ResetInPlace
    <3>3. \A s \in reset[p].passed : StandingOf(s) = "closed" => StandingOf(s)' = "closed"
      BY <3>1, ClosedStays DEF ResetInPlace
    <3> QED
      BY <3>1, <3>2, <3>3, UsersStay DEF ResetInPlace
  <2> QED
    BY <2>1, <2>2
<1>3. ASSUME NEW p \in Resetter, NEW q \in Resetter, p # q,
             reset'[p].pc = "revoking", reset'[q].pc = "revoking"
      PROVE  reset'[p].user # reset'[q].user
  <2>1. ASSUME NEW x \in Resetter, NEW y \in Resetter, x # y, x = a,
               reset'[x].pc = "revoking", reset'[y].pc = "revoking"
        PROVE  reset'[x].user # reset'[y].user
    <3>1. reset'[y] = reset[y]
      BY <1>1, <2>1 DEF Frame
    <3>2. ASSUME NEW u \in User, BeginReset(x, u) PROVE reset[y].user # reset'[x].user
      BY <2>1, <3>1, <3>2 DEF BeginReset, Inv, TypeOK
    <3>3. ASSUME NEW s \in SessionId, ResetVisits(x, s)
          PROVE  reset'[x].pc = reset[x].pc /\ reset'[x].user = reset[x].user
      BY <3>3 DEF ResetVisits, Inv, TypeOK, ResetState
    <3>4. ~(CommitReset(x) \/ AbortReset(x))
      BY <2>1 DEF CommitReset, AbortReset, EndReset, Inv, TypeOK, ResetState
    <3> QED
      BY <1>1, <2>1, <3>1, <3>2, <3>3, <3>4 DEF ResetNext, ResetsKnown
  <2>2. CASE p # a /\ q # a
    BY <1>1, <1>3, <2>2 DEF Frame, ResetsKnown
  <2> QED
    BY <1>3, <2>1, <2>2
<1> QED
  BY <1>2, <1>3 DEF ResetsKnown

Locks == HoldersKnown /\ ResetsKnown

LEMMA LocksAreKnown == Spec => []Locks
<1>1. Init => Locks
  BY IdentityAssumption DEF Init, Locks, HoldersKnown, TokenHolder, SessionHolder, ResetsKnown,
     ResetInPlace
<1>2. Inv /\ Locks /\ [Next]_vars => Locks'
  BY StepFrame, FrameKeepsHolders, ResetsStayKnown DEF Locks
<1> QED
  BY <1>1, <1>2, Invariance, PTL DEF Spec

-----------------------------------------------------------------------------
\* When a reset commits, every session its statement saw is dead, the ones that a
\* refresh or a cleanup held at that moment included.
THEOREM ResetsAreComplete == Spec => ResetCoversWhatItSaw
<1>1. Inv /\ Locks /\ [Next]_vars =>
        [\A p \in Resetter : CommitReset(p) =>
           \A s \in reset[p].scan : session'[s].revoked \/ ~Live(s)']_vars
  <2> SUFFICES ASSUME Inv, Locks, [Next]_vars, NEW p \in Resetter, CommitReset(p),
                      NEW s \in reset[p].scan
               PROVE  session'[s].revoked \/ ~Live(s)'
    OBVIOUS
  <2>1. s \in SessionId /\ (sessionLock[s] = p \/ StandingOf(s) = "closed")
    BY DEF CommitReset, Locks, ResetsKnown, ResetInPlace, Inv, TypeOK, ResetState
  <2>2. CASE sessionLock[s] = p
    BY <2>1, <2>2 DEF CommitReset, Inv, TypeOK, SessionRow
  <2>3. CASE StandingOf(s) = "closed"
    BY <2>1, <2>3, ClosedStays DEF StandingOf
  <2> QED
    BY <2>1, <2>2, <2>3
<1> QED
  BY <1>1, Invariance, LocksAreKnown, PTL DEF Spec, ResetCoversWhatItSaw

\* A cleanup that waits for a token waits for a refresh that holds it; if that one
\* waits, it is for the cleanup itself.
LEMMA CleanupCycles ==
    ASSUME Inv, Locks, NEW T \in SUBSET Txn, Deadlocked(T), NEW c \in Cleaner \cap T
    PROVE  \E r \in Request \cap T, d \in Cleaner \cap T : LockCycle(r, d)
<1>1. PICK b \in T, t \in Doomed(c) : b # c /\ tokenLock[t] = b
  BY IdentityAssumption DEF Deadlocked, WaitsFor
<1>2. /\ t \in TokenId /\ LiveToken(t) /\ token[t].session \in cleaner[c].batch
      /\ cleaner[c].pc = "delete" /\ sessionLock[token[t].session] = c
  BY <1>1 DEF Doomed, Inv, CleanerInv
<1>3. b \in Request /\ refresh[b].pc \notin {"idle", "begun"} /\ refresh[b].token = t
  BY <1>1, <1>2, IdentityAssumption
  DEF Locks, HoldersKnown, TokenHolder, Doomed, Inv, CleanerInv
<1>4. refresh[b].pc = "tokenLocked"
  BY <1>3, IdentityAssumption DEF Deadlocked, WaitsFor
<1> QED
  BY <1>1, <1>2, <1>3, <1>4 DEF LockCycle, SessionOf

\* Of any transactions that wait for each other, two are a refresh that holds a
\* token and a cleanup that holds its session: the pair that is broken up.
THEOREM DeadlocksAreFew == Spec => []DeadlocksAreRefreshVsCleanup
<1>1. Inv /\ Locks => DeadlocksAreRefreshVsCleanup
  <2> SUFFICES ASSUME Inv, Locks, NEW T \in SUBSET Txn, T # {}, Deadlocked(T)
               PROVE  \E r \in Request \cap T, c \in Cleaner \cap T : LockCycle(r, c)
    BY DEF DeadlocksAreRefreshVsCleanup
  <2>1. \A a \in T : \E b \in T : a # b /\ WaitsFor(a, b)
    BY DEF Deadlocked
  \* Whoever waits for a session waits for a cleanup.
  <2>2. ASSUME NEW a \in T, NEW b \in T, NEW s \in SessionId, a # b, sessionLock[s] = b,
               a \in Resetter => reset[a].pc = "revoking" /\ session[s].user = reset[a].user
        PROVE  b \in Cleaner \/ (b \in Resetter /\ a \notin Resetter)
    <3>1. SessionHolder(s, b) /\ b # Free
      BY <2>2, IdentityAssumption DEF Locks, HoldersKnown
    <3>2. b \notin Request
      BY <2>1, <2>2, <3>1, IdentityAssumption DEF SessionHolder, WaitsFor
    <3>3. ~(b \in Resetter /\ a \in Resetter)
      BY <2>2, <3>1, IdentityAssumption
      DEF SessionHolder, Locks, ResetsKnown, ResetInPlace
    <3>4. b \in Cleaner \/ b \in Resetter
      BY <3>1, <3>2 DEF SessionHolder
    <3> QED
      BY <3>3, <3>4
  <2>3. ASSUME NEW a \in T, a \in Resetter PROVE \E c \in T : c \in Cleaner
    <3>1. PICK b \in T, s \in reset[a].scan : a # b /\ sessionLock[s] = b
      BY <2>1, <2>3, IdentityAssumption DEF WaitsFor
    <3>2. s \in SessionId /\ reset[a].pc = "revoking" /\ session[s].user = reset[a].user
      BY <2>3, <3>1 DEF Locks, ResetsKnown, ResetInPlace, Inv, TypeOK, ResetState
    <3> QED
      BY <2>2, <2>3, <3>1, <3>2
  <2>4. ASSUME NEW a \in T, a \in Request, refresh[a].pc = "tokenLocked"
        PROVE  \E c \in T : c \in Cleaner
    <3>1. PICK b \in T : a # b /\ sessionLock[SessionOf(a)] = b
      BY <2>1, <2>4, IdentityAssumption DEF WaitsFor
    <3> QED
      BY <2>2, <2>3, <2>4, <3>1, Rows, IdentityAssumption
  <2>5. ASSUME NEW a \in T, a \in Request, refresh[a].pc = "begun"
        PROVE  \E c \in T : c \in Cleaner
    <3>1. PICK b \in T : a # b /\ tokenLock[refresh[a].token] = b
      BY <2>1, <2>5, IdentityAssumption DEF WaitsFor
    <3>2. TokenHolder(refresh[a].token, b) /\ b # Free
      BY <2>5, <3>1, Rows, IdentityAssumption DEF Locks, HoldersKnown
    <3>3. b \in Request => refresh[b].pc = "tokenLocked"
      BY <2>1, <3>2, IdentityAssumption DEF TokenHolder, WaitsFor
    <3> QED
      BY <2>4, <3>2, <3>3 DEF TokenHolder
  <2>6. PICK c \in T : c \in Cleaner
    <3>1. PICK a \in T : TRUE
      OBVIOUS
    <3>2. a \in Request => refresh[a].pc \in {"begun", "tokenLocked"}
      BY <2>1, <3>1, IdentityAssumption DEF WaitsFor
    <3> QED
      BY <2>3, <2>4, <2>5, <3>1, <3>2
  <2> QED
    BY <2>6, CleanupCycles
<1> QED
  BY <1>1, Invariance, LocksAreKnown, PTL

-----------------------------------------------------------------------------
(***************************************************************************)
(* Activity.  A rotation stamps the start of its transaction, which may    *)
(* have waited behind others; but it rotates the one token that its        *)
(* session's last activity has left, and had been given that one before it *)
(* began.                                                                  *)
(***************************************************************************)
\* A token that can still be rotated was delivered to whoever presents it after the
\* last activity of its session.
ActivityKnown ==
    /\ \A s \in SessionId : session[s].lastActivity <= clock
    /\ \A t \in delivered : token[t].state # "unborn"
    /\ \A r \in Request :
          /\ refresh[r].began <= clock
          /\ refresh[r].pc # "idle" =>
                /\ refresh[r].token \in delivered
                /\ refresh[r].token \in Unspent(SessionOf(r)) =>
                      session[SessionOf(r)].lastActivity <= refresh[r].began

\* A step that neither creates a session nor rotates a token.
Calm ==
    /\ \A s \in SessionId : session'[s].lastActivity = session[s].lastActivity
    /\ delivered' = delivered
    /\ clock' \in Nat /\ clock <= clock'
    /\ \A t \in TokenId :
          /\ token'[t].session = token[t].session
          /\ token'[t].replacedBy = token[t].replacedBy
          /\ token'[t].state = "unborn" <=> token[t].state = "unborn"
          /\ LiveToken(t)' => LiveToken(t)
    /\ \A r \in Request :
          \/ refresh'[r].pc = "idle" /\ refresh'[r].began = 0
          \/ /\ refresh'[r].token = refresh[r].token
             /\ refresh'[r].began = refresh[r].began
             /\ refresh[r].pc = "idle" => refresh'[r].pc = "idle"
          \/ refresh'[r].token \in delivered /\ refresh'[r].began = clock

LEMMA ActivityTyped ==
    ASSUME Inv
    PROVE  /\ clock \in Nat /\ delivered \subseteq TokenId
           /\ \A s \in SessionId : session[s].lastActivity \in Nat
           /\ \A r \in Request : refresh[r].began \in Nat
  BY DEF Inv, TypeOK, SessionRow, RefreshState

LEMMA CalmKeepsActivity ==
    ASSUME Inv, ActivityKnown, Calm
    PROVE  ActivityKnown'
<1>1. ASSUME NEW s \in SessionId PROVE session'[s].lastActivity <= clock'
  BY ActivityTyped DEF Calm, ActivityKnown
<1>2. ASSUME NEW t \in delivered' PROVE token'[t].state # "unborn"
  BY ActivityTyped DEF Calm, ActivityKnown
<1>3. ASSUME NEW r \in Request
      PROVE  /\ refresh'[r].began <= clock'
             /\ refresh'[r].pc # "idle" =>
                   /\ refresh'[r].token \in delivered'
                   /\ refresh'[r].token \in Unspent(SessionOf(r))' =>
                         session'[SessionOf(r)'].lastActivity <= refresh'[r].began
  <2>1. CASE refresh'[r].pc = "idle" /\ refresh'[r].began = 0
    BY <2>1 DEF Calm
  <2>2. ASSUME NEW t \in TokenId, t = refresh'[r].token, t \in Unspent(SessionOf(r))'
        PROVE  t \in Unspent(token[t].session) /\ SessionOf(r)' = token[t].session
    BY <2>2 DEF Calm, Unspent, TokensOf, SessionOf, LiveToken
  <2>3. CASE /\ refresh'[r].token = refresh[r].token
             /\ refresh'[r].began = refresh[r].began
             /\ refresh[r].pc = "idle" => refresh'[r].pc = "idle"
    <3>1. refresh'[r].began <= clock'
      BY <2>3, ActivityTyped DEF Calm, ActivityKnown
    <3>2. ASSUME refresh'[r].pc # "idle", refresh'[r].token \in Unspent(SessionOf(r))'
          PROVE  session'[SessionOf(r)'].lastActivity <= refresh'[r].began
      BY <2>2, <2>3, <3>2, Rows DEF Calm, ActivityKnown, SessionOf
    <3> QED
      BY <2>3, <3>1, <3>2 DEF Calm, ActivityKnown
  <2>4. CASE refresh'[r].token \in delivered /\ refresh'[r].began = clock
    <3>1. refresh'[r].token \in Unspent(SessionOf(r))' =>
            session'[SessionOf(r)'].lastActivity <= clock
      BY <2>2, <2>4, Rows, ActivityTyped DEF Calm, ActivityKnown
    <3> QED
      BY <2>4, <3>1 DEF Calm
  <2> QED
    BY <2>1, <2>3, <2>4 DEF Calm
<1> QED
  BY <1>1, <1>2, <1>3 DEF ActivityKnown

LEMMA CreationKeepsActivity ==
    ASSUME Inv, ActivityKnown, NEW u \in User, NEW s \in SessionId, NEW t \in TokenId,
           CreateSession(u, s, t)
    PROVE  ActivityKnown'
<1>1. /\ session'[s].lastActivity = clock
      /\ \A x \in SessionId : x # s => session'[x] = session[x]
      /\ token'[t].state = "live" /\ token'[t].session = s /\ token[t].state = "unborn"
      /\ \A x \in TokenId : x # t => token'[x] = token[x]
      /\ delivered' \subseteq delivered \cup {t} /\ delivered \subseteq delivered'
      /\ UNCHANGED << clock, refresh >>
  BY DEF CreateSession, Inv, TypeOK
<1>2. ASSUME NEW r \in Request, refresh[r].pc # "idle"
      PROVE  /\ refresh[r].token # t
             /\ SessionOf(r)' = SessionOf(r)
             /\ refresh[r].token \in Unspent(SessionOf(r))' =>
                  SessionOf(r) # s /\ refresh[r].token \in Unspent(SessionOf(r))
  <2>1. refresh[r].token # t
    BY <1>1, <1>2 DEF ActivityKnown
  <2>2. SessionOf(r)' = SessionOf(r)
    BY <1>1, <2>1, Rows DEF SessionOf
  <2>3. Unspent(s)' = {t} /\ \A x \in SessionId : x # s => Unspent(x)' = Unspent(x)
    BY CreationOpens
  <2> QED
    BY <2>1, <2>2, <2>3, Rows
<1>3. \A x \in SessionId : session'[x].lastActivity <= clock'
  BY <1>1, ActivityTyped DEF ActivityKnown
<1>4. \A x \in delivered' : token'[x].state # "unborn"
  BY <1>1, ActivityTyped DEF ActivityKnown
<1>5. ASSUME NEW r \in Request
      PROVE  /\ refresh'[r].began <= clock'
             /\ refresh'[r].pc # "idle" =>
                   /\ refresh'[r].token \in delivered'
                   /\ refresh'[r].token \in Unspent(SessionOf(r))' =>
                         session'[SessionOf(r)'].lastActivity <= refresh'[r].began
  BY <1>1, <1>2, Rows DEF ActivityKnown
<1> QED
  BY <1>3, <1>4, <1>5 DEF ActivityKnown

LEMMA RotationKeepsActivity ==
    ASSUME Inv, ActivityKnown, NEW r \in Request, NEW new \in TokenId, CommitRotation(r, new)
    PROVE  /\ ActivityKnown'
           /\ \A s \in SessionId : session'[s].lastActivity >= session[s].lastActivity
<1>a. PICK old \in TokenId : old = refresh[r].token
  BY Rows
<1>b. PICK own \in SessionId : own = SessionOf(r)
  BY Rows
<1>1. /\ token[old].session = own /\ token[new].state = "unborn" /\ old # new
      /\ token[old].state = "live" /\ token[old].replacedBy = NoToken
      /\ refresh[r].pc = "rotate"
  BY <1>a, <1>b DEF CommitRotation, Inv, RequestInv, LiveToken, SessionOf
<1>2. /\ \A x \in SessionId : session'[x].lastActivity =
              IF x = own THEN refresh[r].began ELSE session[x].lastActivity
      /\ \A x \in TokenId : x \notin {old, new} => token'[x] = token[x]
      /\ token'[old].session = own /\ token'[old].state = "live"
      /\ token'[old].replacedBy = new
      /\ token'[new].state = "live" /\ token'[new].session = own
      /\ delivered' \subseteq delivered \cup {new} /\ delivered \subseteq delivered'
      /\ UNCHANGED clock
  BY <1>a, <1>b, <1>1 DEF CommitRotation, Inv, TypeOK, TokenRow, SessionRow
<1>3. /\ refresh'[r].pc = "idle" /\ refresh'[r].began = 0
      /\ \A q \in Request : q # r => refresh'[q] = refresh[q]
  BY DEF CommitRotation, Finish, Inv, TypeOK, RefreshState
<1>4. old \in Unspent(own)
  BY <1>1 DEF Unspent, TokensOf, LiveToken
<1>5. session[own].lastActivity <= refresh[r].began
  BY <1>a, <1>b, <1>1, <1>4 DEF ActivityKnown
<1>6. \A x \in SessionId : session'[x].lastActivity <= clock'
  BY <1>2 DEF ActivityKnown
<1>7. \A x \in delivered' : token'[x].state # "unborn"
  BY <1>2, ActivityTyped DEF ActivityKnown
\* Any other request for this session has a token that is spent by now.
<1>8. ASSUME NEW q \in Request, q # r, refresh[q].pc # "idle",
             refresh[q].token \in Unspent(SessionOf(q))'
      PROVE  /\ SessionOf(q)' = SessionOf(q) /\ SessionOf(q) # own
             /\ refresh[q].token \in Unspent(SessionOf(q))
  <2>1. refresh[q].token # new
    BY <1>1, <1>8 DEF ActivityKnown
  <2>2. SessionOf(q)' = SessionOf(q)
    BY <1>1, <1>2, <1>3, <1>8, <2>1, Rows DEF SessionOf
  <2>3. refresh[q].token # old
    BY <1>2, <1>8, IdentityAssumption DEF Unspent
  <2>4. token'[refresh[q].token] = token[refresh[q].token]
    BY <1>2, <2>1, <2>3, Rows
  <2>5. refresh[q].token \in Unspent(SessionOf(q))
    BY <1>8, <2>2, <2>4 DEF Unspent, TokensOf, LiveToken
  <2>6. SessionOf(q) # own
    <3>1. Live(own)
      BY <1>b, <1>1, HeldIsLive
    <3>2. \E t \in TokenId : Unspent(own) = {t}
      BY <3>1 DEF Inv, SessionInv
    <3> QED
      BY <1>4, <2>3, <2>5, <3>2
  <2> QED
    BY <2>2, <2>5, <2>6
<1>9. ASSUME NEW q \in Request
      PROVE  /\ refresh'[q].began <= clock'
             /\ refresh'[q].pc # "idle" =>
                   /\ refresh'[q].token \in delivered'
                   /\ refresh'[q].token \in Unspent(SessionOf(q))' =>
                         session'[SessionOf(q)'].lastActivity <= refresh'[q].began
  <2>1. CASE q = r
    BY <1>2, <1>3, <2>1, ActivityTyped
  <2>2. CASE q # r
    BY <1>2, <1>3, <1>8, <2>2, Rows DEF ActivityKnown
  <2> QED
    BY <2>1, <2>2
<1>10. ActivityKnown'
  BY <1>6, <1>7, <1>9 DEF ActivityKnown
<1>11. \A s \in SessionId : session'[s].lastActivity >= session[s].lastActivity
  BY <1>2, <1>5, ActivityTyped
<1> QED
  BY <1>10, <1>11

LEMMA OthersAreCalm ==
    ASSUME Inv, [Next]_vars
    PROVE  \/ Calm
           \/ \E u \in User, s \in SessionId, t \in TokenId : CreateSession(u, s, t)
           \/ \E r \in Request, new \in TokenId : CommitRotation(r, new)
<1>0. /\ session \in [SessionId -> SessionRow] /\ token \in [TokenId -> TokenRow]
      /\ refresh \in [Request -> RefreshState] /\ clock \in Nat
  BY DEF Inv, TypeOK
<1>1. ASSUME UNCHANGED << clock, token, delivered >>,
             \A s \in SessionId : session'[s].lastActivity = session[s].lastActivity,
             \A r \in Request :
                \/ refresh'[r].pc = "idle" /\ refresh'[r].began = 0
                \/ /\ refresh'[r].token = refresh[r].token
                   /\ refresh'[r].began = refresh[r].began
                   /\ refresh[r].pc = "idle" => refresh'[r].pc = "idle"
                \/ refresh'[r].token \in delivered /\ refresh'[r].began = clock
      PROVE  Calm
  BY <1>0, <1>1 DEF Calm, LiveToken
<1>2. ASSUME NEW r \in Request, NEW answer, Finish(r, answer)
      PROVE  \A q \in Request :
                \/ refresh'[q].pc = "idle" /\ refresh'[q].began = 0
                \/ refresh'[q] = refresh[q]
  BY <1>0, <1>2 DEF Finish, RefreshState
<1>3. ASSUME NEW r \in Request, RefreshNext(r)
      PROVE  Calm \/ \E new \in TokenId : CommitRotation(r, new)
  <2>1. CASE TokenMissing(r) \/ RefuseRevoked(r) \/ AbortRefresh(r)
    BY <1>1, <1>2, <2>1 DEF TokenMissing, RefuseRevoked, AbortRefresh
  <2>2. CASE CommitRevocation(r)
    <3>1. \A s \in SessionId : session'[s].lastActivity = session[s].lastActivity
      BY <1>0, <2>2, Rows DEF CommitRevocation, SessionRow
    <3> QED
      BY <1>1, <1>2, <2>2, <3>1 DEF CommitRevocation
  <2>3. CASE \E t \in TokenId : BeginRefresh(r, t)
    <3>1. \A q \in Request : \/ refresh'[q] = refresh[q]
                             \/ refresh'[q].token \in delivered /\ refresh'[q].began = clock
      BY <1>0, <2>3 DEF BeginRefresh
    <3> QED
      BY <1>1, <2>3, <3>1 DEF BeginRefresh
  <2>4. CASE LockToken(r) \/ LockSession(r) \/ Decide(r)
    <3>1. \A q \in Request :
             /\ refresh'[q].token = refresh[q].token
             /\ refresh'[q].began = refresh[q].began
             /\ refresh[q].pc = "idle" => refresh'[q].pc = "idle"
      BY <1>0, <2>4 DEF LockToken, LockSession, Decide, RefreshState
    <3> QED
      BY <1>1, <2>4, <3>1 DEF LockToken, LockSession, Decide
  <2> QED
    BY <1>3, <2>1, <2>2, <2>3, <2>4 DEF RefreshNext
<1>4. ASSUME NEW u, NEW s \in SessionId, RevokeStatement(u, s) PROVE Calm
  <2>1. \A x \in SessionId : session'[x].lastActivity = session[x].lastActivity
    BY <1>0, <1>4 DEF RevokeStatement, SessionRow
  <2> QED
    BY <1>1, <1>4, <2>1 DEF RevokeStatement
<1>5. ASSUME NEW p \in Resetter, ResetNext(p) PROVE Calm
  <2>1. CASE CommitReset(p)
    <3>1. \A x \in SessionId : session'[x].lastActivity = session[x].lastActivity
      BY <1>0, <2>1 DEF CommitReset, SessionRow
    <3> QED
      BY <1>1, <2>1, <3>1 DEF CommitReset
  <2> QED
    BY <1>1, <1>5, <2>1 DEF ResetNext, BeginReset, ResetVisits, AbortReset
<1>6. ASSUME NEW c \in Cleaner, CleanupNext(c) PROVE Calm
  <2>1. CASE CommitBatch(c)
    <3>1. \A x \in SessionId : session'[x].lastActivity = session[x].lastActivity
      BY <1>0, <2>1 DEF CommitBatch, SessionRow
    <3>2. \A t \in TokenId :
             /\ token'[t].session = token[t].session
             /\ token'[t].replacedBy = token[t].replacedBy
             /\ token'[t].state = "unborn" <=> token[t].state = "unborn"
             /\ LiveToken(t)' => LiveToken(t)
      BY <1>0, <2>1 DEF CommitBatch, TokenRow, LiveToken, Doomed
    <3> QED
      BY <1>0, <2>1, <3>1, <3>2 DEF CommitBatch, Calm
  <2> QED
    BY <1>1, <1>6, <2>1 DEF CleanupNext, StartCleanup, SelectBatch, CascadeLocks, AbortBatch
<1>7. ASSUME NEW r \in Request, NEW c \in Cleaner, ResolveDeadlock(r, c) PROVE Calm
  <2>1. CASE AbortRefresh(r)
    BY <1>1, <1>2, <2>1 DEF AbortRefresh
  <2> QED
    BY <1>1, <1>7, <2>1 DEF ResolveDeadlock, AbortBatch
<1>8. CASE Tick
  BY <1>0, <1>8 DEF Tick, Calm, LiveToken
<1>9. CASE UNCHANGED vars
  BY <1>1, <1>9 DEF vars
<1> QED
  BY <1>3, <1>4, <1>5, <1>6, <1>7, <1>8, <1>9 DEF Next, Logout, RevokeSessionForUser

LEMMA ActivityIsKnown == Spec => []ActivityKnown
<1>1. Init => ActivityKnown
  BY DEF Init, ActivityKnown
<1>2. Inv /\ ActivityKnown /\ [Next]_vars => ActivityKnown'
  BY OthersAreCalm, CalmKeepsActivity, CreationKeepsActivity, RotationKeepsActivity
<1> QED
  BY <1>1, <1>2, Invariance, PTL DEF Spec

\* last_activity_at never goes back, although it is the start of a transaction that
\* may have waited for its locks behind a later one.
THEOREM ActivityAdvances == Spec => ActivityNeverRewinds
<1>1. Inv /\ ActivityKnown /\ [Next]_vars =>
        [\A s \in SessionId : Live(s) /\ Live(s)' =>
           session'[s].lastActivity >= session[s].lastActivity]_vars
  <2> SUFFICES ASSUME Inv, ActivityKnown, [Next]_vars, NEW s \in SessionId, Live(s)
               PROVE  session'[s].lastActivity >= session[s].lastActivity
    OBVIOUS
  <2>1. CASE Calm
    BY <2>1, ActivityTyped DEF Calm
  <2>2. ASSUME NEW u \in User, NEW x \in SessionId, NEW t \in TokenId, CreateSession(u, x, t)
        PROVE  session'[s].lastActivity = session[s].lastActivity
    BY <2>2 DEF CreateSession, Live, Inv, TypeOK
  <2> QED
    BY <2>1, <2>2, OthersAreCalm, RotationKeepsActivity, ActivityTyped
<1> QED
  BY <1>1, Invariance, ActivityIsKnown, PTL DEF Spec, ActivityNeverRewinds

-----------------------------------------------------------------------------
(***************************************************************************)
(* Reuse.  A refresh that finds its token row gone finds its session       *)
(* closed, because a token goes only with its session.                     *)
(***************************************************************************)
DeletedWithSession ==
    \A t \in TokenId :
        token[t].state = "deleted" => StandingOf(token[t].session) = "closed"

\* A token row that is deleted in this step has lost its session in it, one that
\* was deleted before names the same session still.
LEMMA DeletedTokens ==
    ASSUME Inv, [Next]_vars, NEW t \in TokenId, token'[t].state = "deleted"
    PROVE  /\ token'[t].session = token[t].session
           /\ \/ token[t].state = "deleted"
              \/ StandingOf(token[t].session)' = "closed"
<1>0. token \in [TokenId -> TokenRow] /\ session \in [SessionId -> SessionRow]
  BY DEF Inv, TypeOK
<1>1. CASE token' = token
  BY <1>1
<1>2. ASSUME NEW u \in User, NEW s \in SessionId, NEW x \in TokenId, CreateSession(u, s, x)
      PROVE  token'[t] = token[t]
  BY <1>0, <1>2 DEF CreateSession
<1>3. ASSUME NEW r \in Request, NEW new \in TokenId, CommitRotation(r, new)
      PROVE  token'[t].session = token[t].session /\ token[t].state = "deleted"
  BY <1>0, <1>3 DEF CommitRotation, TokenRow
<1>4. ASSUME NEW c \in Cleaner, CommitBatch(c)
      PROVE  /\ token'[t].session = token[t].session
             /\ \/ token[t].state = "deleted"
                \/ StandingOf(token[t].session)' = "closed"
  <2>1. token'[t].session = token[t].session
    BY <1>0, <1>4 DEF CommitBatch, TokenRow
  <2>2. CASE t \in Doomed(c)
    <3>1. session'[token[t].session].state = "deleted"
      BY <1>0, <1>4, <2>2, Rows DEF CommitBatch, Doomed, SessionRow
    <3> QED
      BY <2>1, <3>1 DEF StandingOf, Live
  <2>3. CASE t \notin Doomed(c)
    BY <1>4, <2>1, <2>3 DEF CommitBatch
  <2> QED
    BY <2>1, <2>2, <2>3
<1>5. ASSUME NEW r \in Request, RefreshNext(r)
      PROVE  token' = token \/ \E new \in TokenId : CommitRotation(r, new)
  BY <1>5 DEF RefreshNext, BeginRefresh, LockToken, TokenMissing, LockSession,
     RefuseRevoked, Decide, CommitRevocation, AbortRefresh
<1>6. ASSUME NEW p \in Resetter, ResetNext(p) PROVE token' = token
  BY <1>6 DEF ResetNext, BeginReset, ResetVisits, CommitReset, AbortReset
<1>7. ASSUME NEW c \in Cleaner, CleanupNext(c) PROVE token' = token \/ CommitBatch(c)
  BY <1>7 DEF CleanupNext, StartCleanup, SelectBatch, CascadeLocks, AbortBatch
<1>8. ASSUME NEW r \in Request, NEW c \in Cleaner, ResolveDeadlock(r, c)
      PROVE  token' = token
  BY <1>8 DEF ResolveDeadlock, AbortRefresh, AbortBatch
<1>9. CASE Tick \/ UNCHANGED vars
  BY <1>1, <1>9 DEF Tick, vars
<1> QED
  BY <1>1, <1>2, <1>3, <1>4, <1>5, <1>6, <1>7, <1>8, <1>9
  DEF Next, Logout, RevokeSessionForUser, RevokeStatement

LEMMA TokensGoWithSessions == Spec => []DeletedWithSession
<1>1. Init => DeletedWithSession
  BY DEF Init, DeletedWithSession
<1>2. Inv /\ DeletedWithSession /\ [Next]_vars => DeletedWithSession'
  <2> SUFFICES ASSUME Inv, DeletedWithSession, [Next]_vars,
                      NEW t \in TokenId, token'[t].state = "deleted"
               PROVE  StandingOf(token[t].session)' = "closed"
    BY DEF DeletedWithSession
  <2>1. token'[t].session = token[t].session
    BY DeletedTokens
  <2>2. CASE token[t].state = "deleted"
    <3>1. PICK s \in SessionId : s = token[t].session
      BY Rows
    <3>2. StandingOf(s)' = "closed"
      BY <2>2, <3>1, ClosedStays DEF DeletedWithSession
    <3> QED
      BY <2>1, <3>1, <3>2
  <2>3. CASE token[t].state # "deleted"
    BY <2>1, <2>3, DeletedTokens
  <2> QED
    BY <2>2, <2>3
<1> QED
  BY <1>1, <1>2, Invariance, PTL DEF Spec

\* The four ways in which a refresh ends, other than by a failure.
LEMMA RefreshEnds ==
    ASSUME Inv, [Next]_vars, NEW r \in Request,
           refresh[r].pc # "idle", refresh'[r].pc = "idle",
           refresh'[r].answer # "internal"
    PROVE  /\ SessionOf(r)' = SessionOf(r)
           /\ \/ TokenMissing(r) \/ RefuseRevoked(r) \/ CommitRevocation(r)
              \/ \E new \in TokenId : CommitRotation(r, new)
<1>0. refresh \in [Request -> RefreshState] /\ token \in [TokenId -> TokenRow]
  BY DEF Inv, TypeOK
<1>1. refresh' # refresh
  OBVIOUS
<1>2. ASSUME NEW q \in Request, NEW answer, Finish(q, answer)
      PROVE  /\ q = r /\ answer # "internal"
             /\ refresh'[r].token = refresh[r].token
  BY <1>0, <1>2 DEF Finish, RefreshState
<1>3. ASSUME NEW q \in Request, RefreshNext(q)
      PROVE  /\ SessionOf(r)' = SessionOf(r)
             /\ \/ TokenMissing(r) \/ RefuseRevoked(r) \/ CommitRevocation(r)
                \/ \E new \in TokenId : CommitRotation(r, new)
  <2>1. CASE (\E t \in TokenId : BeginRefresh(q, t))
             \/ LockToken(q) \/ LockSession(q) \/ Decide(q)
    BY <1>0, <2>1 DEF BeginRefresh, LockToken, LockSession, Decide, Verdict, RefreshState
  <2>2. CASE AbortRefresh(q)
    BY <1>2, <2>2 DEF AbortRefresh
  <2>3. CASE TokenMissing(q) \/ RefuseRevoked(q) \/ CommitRevocation(q)
    BY <1>2, <2>3 DEF TokenMissing, RefuseRevoked, CommitRevocation, SessionOf
  <2>4. ASSUME NEW new \in TokenId, CommitRotation(q, new)
        PROVE  q = r /\ SessionOf(r)' = SessionOf(r)
    BY <1>0, <1>2, <2>4 DEF CommitRotation, SessionOf, TokenRow, RefreshState
  <2> QED
    BY <1>3, <2>1, <2>2, <2>3, <2>4 DEF RefreshNext
<1>4. ASSUME NEW q \in Request, NEW c \in Cleaner, ResolveDeadlock(q, c) PROVE FALSE
  BY <1>1, <1>2, <1>4 DEF ResolveDeadlock, AbortRefresh, AbortBatch
<1>5. ASSUME NEW p \in Resetter, ResetNext(p) PROVE FALSE
  BY <1>1, <1>5 DEF ResetNext, BeginReset, ResetVisits, CommitReset, AbortReset
<1>6. ASSUME NEW c \in Cleaner, CleanupNext(c) PROVE FALSE
  BY <1>1, <1>6 DEF CleanupNext, StartCleanup, SelectBatch, CascadeLocks, CommitBatch,
     AbortBatch
<1> QED
  BY <1>1, <1>3, <1>4, <1>5, <1>6 DEF Next, CreateSession, Logout, RevokeSessionForUser,
     RevokeStatement, Tick, vars

\* A token that was already replaced, presented again by whoever has it, closes its
\* session by the time the refresh is answered, unless the answer is an internal
\* error: the revocation commits before the code is returned, a session that is
\* already gone included.
THEOREM ReuseCloses == Spec => ReuseEndsTheSession
<1>1. Inv /\ ActivityKnown /\ DeletedWithSession /\ [Next]_vars =>
        [\A r \in Request :
           /\ refresh[r].pc # "idle" /\ token[refresh[r].token].replacedBy # NoToken
           /\ refresh'[r].pc = "idle" /\ refresh'[r].answer # "internal"
           => StandingOf(SessionOf(r))' = "closed"]_vars
  <2> SUFFICES ASSUME Inv, ActivityKnown, DeletedWithSession, [Next]_vars,
                      NEW r \in Request, refresh[r].pc # "idle",
                      token[refresh[r].token].replacedBy # NoToken,
                      refresh'[r].pc = "idle", refresh'[r].answer # "internal"
               PROVE  StandingOf(SessionOf(r))' = "closed"
    OBVIOUS
  <2>a. PICK s \in SessionId : s = SessionOf(r)
    BY Rows
  <2>b. SessionOf(r)' = s
    BY <2>a, RefreshEnds
  <2>1. ASSUME StandingOf(s) = "closed" PROVE StandingOf(SessionOf(r))' = "closed"
    BY <2>b, <2>1, ClosedStays
  <2>2. CASE TokenMissing(r)
    <3>1. /\ refresh[r].token \in TokenId
          /\ token[refresh[r].token].state \in {"unborn", "live", "deleted"}
      BY Rows DEF Inv, TypeOK, TokenRow
    <3>2. token[refresh[r].token].state # "unborn"
      BY DEF ActivityKnown
    <3>3. token[refresh[r].token].state = "deleted"
      BY <2>2, <3>1, <3>2 DEF TokenMissing, LiveToken
    <3> QED
      BY <2>1, <2>a, <3>1, <3>3 DEF DeletedWithSession, SessionOf
  <2>3. CASE RefuseRevoked(r)
    <3>1. session[s].revoked /\ Live(s)
      BY <2>3, <2>a, HeldIsLive DEF RefuseRevoked
    <3> QED
      BY <2>1, <3>1 DEF StandingOf, Live
  <2>4. CASE CommitRevocation(r)
    <3>1. session[s].state = "live"
      BY <2>4, <2>a, HeldIsLive DEF CommitRevocation, Live
    <3>2. session'[s].state = "live" /\ session'[s].revoked
      BY <2>4, <2>a, <3>1 DEF CommitRevocation, Inv, TypeOK, SessionRow
    <3> QED
      BY <2>b, <3>2 DEF StandingOf, Live
  <2>5. ~\E new \in TokenId : CommitRotation(r, new)
    BY DEF CommitRotation, Inv, RequestInv
  <2> QED
    BY <2>2, <2>3, <2>4, <2>5, RefreshEnds
<1> QED
  BY <1>1, Invariance, ActivityIsKnown, TokensGoWithSessions, PTL
  DEF Spec, ReuseEndsTheSession
=============================================================================
