------------------------------ MODULE Sessions ------------------------------
(***************************************************************************)
(* Sessions and refresh tokens (src/internal/api/auth/session), with the   *)
(* password reset's revoke-all, at the granularity of PostgreSQL row locks *)
(* under READ COMMITTED.                                                   *)
(*                                                                         *)
(* A transaction's writes are applied by its commit step: until then the   *)
(* rows it writes are locked, so no other writer can act on them, and no   *)
(* reader of this component decides anything from an unlocked row.         *)
(*                                                                         *)
(* Bounds: clock stops at MaxClock; the identifiers SessionId and TokenId  *)
(* are finite in a TLC model, so sessions and rotations run out.           *)
(***************************************************************************)
EXTENDS Naturals, FiniteSets

CONSTANTS
    User,
    SessionId, TokenId,         \* row identities, each used at most once
    Request,                    \* concurrent executions of POST /auth/refresh
    Resetter,                   \* concurrent password reset finalizations
    Cleaner,                    \* concurrent session cleanup executions
    Free, NoToken,              \* "no lock holder" and SQL NULL
    AbsoluteLifetime,           \* SessionAbsoluteLifetime, in clock ticks
    IdleLifetime,               \* SessionIdleLifetime, in clock ticks
    BatchSize, MaxBatches,      \* SessionCleanupBatchSize / MaxBatches
    MaxClock

ASSUME LifetimeAssumption ==
    /\ AbsoluteLifetime \in Nat
    /\ IdleLifetime \in Nat
    /\ MaxClock \in Nat

ASSUME CleanupAssumption ==
    /\ BatchSize \in Nat \ {0}
    /\ MaxBatches \in Nat \ {0}

ASSUME IdentityAssumption ==
    /\ Free \notin Request \cup Resetter \cup Cleaner
    /\ NoToken \notin TokenId
    /\ Request \cap Resetter = {}
    /\ Request \cap Cleaner = {}
    /\ Resetter \cap Cleaner = {}

ASSUME NonEmptyAssumption ==
    /\ User # {}
    /\ SessionId # {}
    /\ TokenId # {}

VARIABLES
    clock,          \* one clock for the database and the API host
    session,        \* table sessions
    token,          \* table refresh_tokens
    delivered,      \* tokens whose raw value reached a client
    sessionLock,    \* holder of each sessions row lock
    tokenLock,      \* holder of each refresh_tokens row lock
    refresh,        \* local state of each refresh request
    reset,          \* local state of each password reset finalization
    cleaner         \* local state of each cleanup execution

vars == << clock, session, token, delivered, sessionLock, tokenLock,
           refresh, reset, cleaner >>

Txn == Request \cup Resetter \cup Cleaner

RowState == {"unborn", "live", "deleted"}

SessionRow == [state : RowState, user : User, lastActivity : Nat,
               expires : Nat, revoked : BOOLEAN]

TokenRow == [state : RowState, session : SessionId,
             replacedBy : TokenId \cup {NoToken}]

\* What POST /auth/refresh answers: the rotated pair, or an error code.
Answer == {"none", "rotated", "invalid", "revoked", "expired", "internal"}

RefreshState ==
    [pc : {"idle", "begun", "tokenLocked", "locked",
           "rotate", "reuse", "expire"},
     token : TokenId, began : Nat, answer : Answer]

ResetState == [pc : {"idle", "revoking"}, user : User,
               scan : SUBSET SessionId, passed : SUBSET SessionId]

CleanerState == [pc : {"idle", "select", "delete"}, batch : SUBSET SessionId,
                 batches : Nat, full : BOOLEAN, capped : BOOLEAN]

TypeOK ==
    /\ clock \in Nat
    /\ session \in [SessionId -> SessionRow]
    /\ token \in [TokenId -> TokenRow]
    /\ delivered \in SUBSET TokenId
    /\ sessionLock \in [SessionId -> Txn \cup {Free}]
    /\ tokenLock \in [TokenId -> Txn \cup {Free}]
    /\ refresh \in [Request -> RefreshState]
    /\ reset \in [Resetter -> ResetState]
    /\ cleaner \in [Cleaner -> CleanerState]

Init ==
    /\ clock = 0
    /\ \E u \in User :
          /\ session = [s \in SessionId |->
                [state |-> "unborn", user |-> u, lastActivity |-> 0,
                 expires |-> 0, revoked |-> FALSE]]
          /\ reset = [p \in Resetter |->
                [pc |-> "idle", user |-> u, scan |-> {}, passed |-> {}]]
    /\ \E s \in SessionId :
          token = [t \in TokenId |->
                [state |-> "unborn", session |-> s, replacedBy |-> NoToken]]
    /\ delivered = {}
    /\ sessionLock = [s \in SessionId |-> Free]
    /\ tokenLock = [t \in TokenId |-> Free]
    /\ \E t \in TokenId :
          refresh = [r \in Request |->
                [pc |-> "idle", token |-> t, began |-> 0, answer |-> "none"]]
    /\ cleaner = [c \in Cleaner |->
          [pc |-> "idle", batch |-> {}, batches |-> 0,
           full |-> FALSE, capped |-> FALSE]]

-----------------------------------------------------------------------------
(* Rows, windows and locks                                                 *)

Live(s) == session[s].state = "live"

LiveToken(t) == token[t].state = "live"

TokensOf(s) == {t \in TokenId : LiveToken(t) /\ token[t].session = s}

\* now.After(AbsoluteExpiresAt): strict.
PastAbsolute(s) == clock > session[s].expires

\* now.Sub(LastActivityAt) > IdleLifetime: strict.
PastIdle(s) == clock > session[s].lastActivity + IdleLifetime

\* The WHERE clause of DeleteCleanupEligibleSessions: <= on the absolute side.
CleanupEligible(s) ==
    /\ Live(s)
    /\ \/ session[s].revoked
       \/ session[s].expires <= clock
       \/ PastIdle(s)

Release(lock, p) == [x \in DOMAIN lock |-> IF lock[x] = p THEN Free ELSE lock[x]]

\* Faulty: a path that ends without the deferred Rollback keeps token locks.
ReleaseOnlySessions(p) ==
    /\ sessionLock' = Release(sessionLock, p)
    /\ UNCHANGED tokenLock

\* The end of a transaction, committed or rolled back, drops its row locks.
ReleaseAll(p) ==
    /\ sessionLock' = Release(sessionLock, p)
    /\ tokenLock' = Release(tokenLock, p)

-----------------------------------------------------------------------------
(* POST /auth/login and social registration: CreateSession                 *)

\* One transaction inserts the session and its first token. The raw token may
\* be lost on its way to the client.
CreateSession(u, s, t) ==
    /\ session[s].state = "unborn"
    /\ token[t].state = "unborn"
    /\ session' = [session EXCEPT ![s] =
          [state |-> "live", user |-> u, lastActivity |-> clock,
           expires |-> clock + AbsoluteLifetime, revoked |-> FALSE]]
    /\ token' = [token EXCEPT ![t] =
          [state |-> "live", session |-> s, replacedBy |-> NoToken]]
    /\ delivered' \in {delivered, delivered \cup {t}}
    /\ UNCHANGED << clock, sessionLock, tokenLock, refresh, reset, cleaner >>

-----------------------------------------------------------------------------
(* POST /auth/refresh: RefreshToken                                        *)

SessionOf(r) == token[refresh[r].token].session

Finish(r, answer) ==
    /\ refresh' = [refresh EXCEPT ![r] =
          [@ EXCEPT !.pc = "idle", !.began = 0, !.answer = answer]]
    /\ ReleaseAll(r)

\* BEGIN fixes the transaction's NOW().
BeginRefresh(r, t) ==
    /\ refresh[r].pc = "idle"
    /\ t \in delivered
    /\ refresh' = [refresh EXCEPT ![r] =
          [pc |-> "begun", token |-> t, began |-> clock, answer |-> "none"]]
    /\ UNCHANGED << clock, session, token, delivered,
                    sessionLock, tokenLock, reset, cleaner >>

\* FOR UPDATE OF rt, s locks the token row first ...
LockToken(r) ==
    LET t == refresh[r].token IN
    /\ refresh[r].pc = "begun"
    /\ LiveToken(t)
    /\ tokenLock[t] = Free
    /\ tokenLock' = [tokenLock EXCEPT ![t] = r]
    /\ refresh' = [refresh EXCEPT ![r].pc = "tokenLocked"]
    /\ UNCHANGED << clock, session, token, delivered,
                    sessionLock, reset, cleaner >>

\* ... or returns no row when the token's session has been cleaned up.
TokenMissing(r) ==
    /\ refresh[r].pc = "begun"
    /\ ~LiveToken(refresh[r].token)
    /\ Finish(r, "invalid")
    /\ UNCHANGED << clock, session, token, delivered, reset, cleaner >>

\* Faulty: FOR UPDATE OF rt alone.
LockSessionUnheld(r) ==
    /\ refresh[r].pc = "tokenLocked"
    /\ sessionLock[SessionOf(r)] = Free
    /\ refresh' = [refresh EXCEPT ![r].pc = "locked"]
    /\ UNCHANGED << clock, session, token, delivered,
                    sessionLock, tokenLock, reset, cleaner >>

\* ... then the session row, re-reading both once it holds them.
LockSession(r) ==
    /\ refresh[r].pc = "tokenLocked"
    /\ sessionLock[SessionOf(r)] = Free
    /\ sessionLock' = [sessionLock EXCEPT ![SessionOf(r)] = r]
    /\ refresh' = [refresh EXCEPT ![r].pc = "locked"]
    /\ UNCHANGED << clock, session, token, delivered,
                    tokenLock, reset, cleaner >>

\* Faulty: no reuse check.
VerdictWithoutReuse(r) ==
    IF PastAbsolute(SessionOf(r)) \/ PastIdle(SessionOf(r)) THEN "expire" ELSE "rotate"

\* Faulty: a token whose successor was never used is taken for a client's retry.
VerdictWithGrace(r) ==
    LET next == token[refresh[r].token].replacedBy IN
    IF next # NoToken /\ token[next].replacedBy # NoToken THEN "reuse"
    ELSE IF PastAbsolute(SessionOf(r)) \/ PastIdle(SessionOf(r)) THEN "expire"
    ELSE "rotate"

\* The checks, in the order the code makes them. The Go clock is read here,
\* after the locks are held.
Verdict(r) ==
    CASE token[refresh[r].token].replacedBy # NoToken      -> "reuse"
      [] PastAbsolute(SessionOf(r)) \/ PastIdle(SessionOf(r)) -> "expire"
      [] OTHER                                              -> "rotate"

RefuseRevoked(r) ==
    /\ refresh[r].pc = "locked"
    /\ session[SessionOf(r)].revoked
    /\ Finish(r, "revoked")
    /\ UNCHANGED << clock, session, token, delivered, reset, cleaner >>

Decide(r) ==
    /\ refresh[r].pc = "locked"
    /\ ~session[SessionOf(r)].revoked
    /\ refresh' = [refresh EXCEPT ![r].pc = Verdict(r)]
    /\ UNCHANGED << clock, session, token, delivered,
                    sessionLock, tokenLock, reset, cleaner >>

\* RevokeSession and commit, in the reuse and the two expiry branches. The
\* client sees the code only if the commit is acknowledged.
RefuseAnswer(r) == IF refresh[r].pc = "reuse" THEN "revoked" ELSE "expired"

\* Faulty: the error is returned before the commit, and the deferred Rollback runs.
RevocationRolledBack(r) ==
    /\ refresh[r].pc \in {"reuse", "expire"}
    /\ Finish(r, RefuseAnswer(r))
    /\ UNCHANGED << clock, session, token, delivered, reset, cleaner >>

CommitRevocation(r) ==
    /\ refresh[r].pc \in {"reuse", "expire"}
    /\ session' = [session EXCEPT ![SessionOf(r)].revoked = TRUE]
    /\ \E answer \in {RefuseAnswer(r), "internal"} : Finish(r, answer)
    /\ UNCHANGED << clock, token, delivered, reset, cleaner >>

\* Faulty: ReplaceRefreshToken is left out.
RotationKeepsPredecessor(r, new) ==
    /\ refresh[r].pc = "rotate"
    /\ token[new].state = "unborn"
    /\ token' = [token EXCEPT ![new] =
          [state |-> "live", session |-> SessionOf(r), replacedBy |-> NoToken]]
    /\ session' = [session EXCEPT ![SessionOf(r)].lastActivity = refresh[r].began]
    /\ delivered' = delivered \cup {new}
    /\ Finish(r, "rotated")
    /\ UNCHANGED << clock, reset, cleaner >>

\* Successor inserted, replaced_by set, last_activity_at = NOW(), commit, and
\* then the access token is minted and the pair is returned. A commit whose
\* acknowledgement is lost, a failed mint and a lost response all leave the
\* rotation durable and the successor unknown to the client.
CommitRotation(r, new) ==
    LET old == refresh[r].token IN
    /\ refresh[r].pc = "rotate"
    /\ token[new].state = "unborn"
    /\ token' = [token EXCEPT
          ![old].replacedBy = new,
          ![new] = [state |-> "live", session |-> SessionOf(r),
                    replacedBy |-> NoToken]]
    /\ session' = [session EXCEPT ![SessionOf(r)].lastActivity = refresh[r].began]
    /\ \/ /\ delivered' = delivered \cup {new}
          /\ Finish(r, "rotated")
       \/ /\ delivered' = delivered
          /\ Finish(r, "internal")
    /\ UNCHANGED << clock, reset, cleaner >>

\* A statement or the commit fails, the request is cancelled, or PostgreSQL
\* ends the transaction: the deferred Rollback leaves nothing behind.
AbortRefresh(r) ==
    /\ refresh[r].pc # "idle"
    /\ Finish(r, "internal")
    /\ UNCHANGED << clock, session, token, delivered, reset, cleaner >>

-----------------------------------------------------------------------------
(* POST /auth/logout and DELETE /auth/sessions/:id                         *)

\* One UPDATE scoped by id, user and revoked_at IS NULL. It waits for the row
\* lock and re-evaluates its predicate afterwards; no match is no write.
RevokeStatement(u, s) ==
    /\ sessionLock[s] = Free
    /\ Live(s)
    /\ session[s].user = u
    /\ ~session[s].revoked
    /\ session' = [session EXCEPT ![s].revoked = TRUE]
    /\ UNCHANGED << clock, token, delivered, sessionLock, tokenLock,
                    refresh, reset, cleaner >>

\* Both values come from the caller's access token, which outlives the row.
Logout(s) == RevokeStatement(session[s].user, s)

\* The session id comes from the path: any user may name any session.
RevokeSessionForUser(u, s) == RevokeStatement(u, s)

-----------------------------------------------------------------------------
(* Password reset finalization: UpsertPasswordCredentialAndCompleteReset   *)

\* Faulty: the revoke-all runs without the credential row's serialization.
BeginResetUnserialized(p, u) ==
    /\ reset[p].pc = "idle"
    /\ reset' = [reset EXCEPT ![p] =
          [pc |-> "revoking", user |-> u, passed |-> {},
           scan |-> {s \in SessionId :
                       Live(s) /\ session[s].user = u /\ ~session[s].revoked}]]
    /\ UNCHANGED << clock, session, token, delivered, sessionLock, tokenLock,
                    refresh, cleaner >>

\* The credential upsert serializes resets of one user; the revoke-all
\* statement that follows sees the sessions committed when it starts.
BeginReset(p, u) ==
    /\ reset[p].pc = "idle"
    /\ \A q \in Resetter : reset[q].pc = "revoking" => reset[q].user # u
    /\ reset' = [reset EXCEPT ![p] =
          [pc |-> "revoking", user |-> u, passed |-> {},
           scan |-> {s \in SessionId :
                       Live(s) /\ session[s].user = u /\ ~session[s].revoked}]]
    /\ UNCHANGED << clock, session, token, delivered, sessionLock, tokenLock,
                    refresh, cleaner >>

\* Faulty: rows another transaction holds are skipped instead of waited for.
ResetSkipsLocked(p, s) ==
    /\ reset[p].pc = "revoking"
    /\ s \in reset[p].scan \ reset[p].passed
    /\ sessionLock' = IF sessionLock[s] = Free /\ Live(s) /\ ~session[s].revoked
                      THEN [sessionLock EXCEPT ![s] = p]
                      ELSE sessionLock
    /\ reset' = [reset EXCEPT ![p].passed = @ \cup {s}]
    /\ UNCHANGED << clock, session, token, delivered, tokenLock,
                    refresh, cleaner >>

\* The UPDATE visits its rows one at a time, waiting for each lock; a row that
\* was revoked or deleted meanwhile no longer matches and is passed over.
ResetVisits(p, s) ==
    /\ reset[p].pc = "revoking"
    /\ s \in reset[p].scan \ reset[p].passed
    /\ sessionLock[s] = Free
    /\ sessionLock' = IF Live(s) /\ ~session[s].revoked
                      THEN [sessionLock EXCEPT ![s] = p]
                      ELSE sessionLock
    /\ reset' = [reset EXCEPT ![p].passed = @ \cup {s}]
    /\ UNCHANGED << clock, session, token, delivered, tokenLock,
                    refresh, cleaner >>

EndReset(p) ==
    /\ reset' = [reset EXCEPT ![p] =
          [@ EXCEPT !.pc = "idle", !.scan = {}, !.passed = {}]]
    /\ ReleaseAll(p)

CommitReset(p) ==
    /\ reset[p].pc = "revoking"
    /\ reset[p].passed = reset[p].scan
    /\ session' = [s \in SessionId |->
          IF sessionLock[s] = p THEN [session[s] EXCEPT !.revoked = TRUE]
                                ELSE session[s]]
    /\ EndReset(p)
    /\ UNCHANGED << clock, token, delivered, refresh, cleaner >>

AbortReset(p) ==
    /\ reset[p].pc = "revoking"
    /\ EndReset(p)
    /\ UNCHANGED << clock, session, token, delivered, refresh, cleaner >>

-----------------------------------------------------------------------------
(* POST /internal/maintenance/sessions/cleanup: CleanupSessions            *)

StartCleanup(c) ==
    /\ cleaner[c].pc = "idle"
    /\ cleaner' = [cleaner EXCEPT ![c] =
          [pc |-> "select", batch |-> {}, batches |-> 0,
           full |-> FALSE, capped |-> FALSE]]
    /\ UNCHANGED << clock, session, token, delivered, sessionLock, tokenLock,
                    refresh, reset >>

\* ORDER BY id LIMIT n FOR UPDATE SKIP LOCKED. Which n rows come first in id
\* order is left open.
IsBatch(B) ==
    LET candidates == {s \in SessionId : CleanupEligible(s) /\ sessionLock[s] = Free}
    IN  /\ B \subseteq candidates
        /\ Cardinality(B) <= BatchSize
        /\ Cardinality(B) = BatchSize \/ B = candidates

SelectBatch(c, B) ==
    /\ cleaner[c].pc = "select"
    /\ IsBatch(B)
    /\ sessionLock' = [s \in SessionId |-> IF s \in B THEN c ELSE sessionLock[s]]
    /\ cleaner' = [cleaner EXCEPT ![c] = [@ EXCEPT !.pc = "delete", !.batch = B]]
    /\ UNCHANGED << clock, session, token, delivered, tokenLock,
                    refresh, reset >>

Doomed(c) == {t \in TokenId : LiveToken(t) /\ token[t].session \in cleaner[c].batch}

\* ON DELETE CASCADE reaches the token rows after the session rows.
CascadeLocks(c, t) ==
    /\ cleaner[c].pc = "delete"
    /\ t \in Doomed(c)
    /\ tokenLock[t] = Free
    /\ tokenLock' = [tokenLock EXCEPT ![t] = c]
    /\ UNCHANGED << clock, session, token, delivered, sessionLock,
                    refresh, reset, cleaner >>

\* Each batch commits on its own; a short batch or the cap ends the loop, and
\* backlog_capped is batches == SessionCleanupMaxBatches either way.
CommitBatch(c) ==
    LET full == Cardinality(cleaner[c].batch) = BatchSize
        batches == cleaner[c].batches + 1
        ends == ~full \/ batches = MaxBatches
    IN
    /\ cleaner[c].pc = "delete"
    /\ \A t \in Doomed(c) : tokenLock[t] = c
    /\ session' = [s \in SessionId |->
          IF s \in cleaner[c].batch THEN [session[s] EXCEPT !.state = "deleted"]
                                    ELSE session[s]]
    /\ token' = [t \in TokenId |->
          IF t \in Doomed(c) THEN [token[t] EXCEPT !.state = "deleted"]
                             ELSE token[t]]
    /\ cleaner' = [cleaner EXCEPT ![c] =
          [pc |-> IF ends THEN "idle" ELSE "select", batch |-> {},
           batches |-> batches, full |-> full,
           capped |-> batches = MaxBatches]]
    /\ ReleaseAll(c)
    /\ UNCHANGED << clock, delivered, refresh, reset >>

\* A failed batch ends the execution; the batches before it stay committed.
AbortBatch(c) ==
    /\ cleaner[c].pc = "delete"
    /\ cleaner' = [cleaner EXCEPT ![c] = [@ EXCEPT !.pc = "idle", !.batch = {}]]
    /\ ReleaseAll(c)
    /\ UNCHANGED << clock, session, token, delivered, refresh, reset >>

-----------------------------------------------------------------------------
(* PostgreSQL's deadlock detector and the clock                            *)

\* r holds a token row and waits for its session row; c holds that session row
\* and waits for that token row.
LockCycle(r, c) ==
    /\ refresh[r].pc = "tokenLocked"
    /\ cleaner[c].pc = "delete"
    /\ sessionLock[SessionOf(r)] = c
    /\ refresh[r].token \in Doomed(c)
    /\ tokenLock[refresh[r].token] = r

ResolveDeadlock(r, c) ==
    /\ LockCycle(r, c)
    /\ AbortRefresh(r) \/ AbortBatch(c)

Tick ==
    /\ clock < MaxClock
    /\ clock' = clock + 1
    /\ UNCHANGED << session, token, delivered, sessionLock, tokenLock,
                    refresh, reset, cleaner >>

-----------------------------------------------------------------------------
RefreshNext(r) ==
    \/ \E t \in TokenId : BeginRefresh(r, t)
    \/ LockToken(r)
    \/ TokenMissing(r)
    \/ LockSession(r)
    \/ RefuseRevoked(r)
    \/ Decide(r)
    \/ CommitRevocation(r)
    \/ \E new \in TokenId : CommitRotation(r, new)
    \/ AbortRefresh(r)

ResetNext(p) ==
    \/ \E u \in User : BeginReset(p, u)
    \/ \E s \in SessionId : ResetVisits(p, s)
    \/ CommitReset(p)
    \/ AbortReset(p)

CleanupNext(c) ==
    \/ StartCleanup(c)
    \/ \E B \in SUBSET SessionId : SelectBatch(c, B)
    \/ \E t \in TokenId : CascadeLocks(c, t)
    \/ CommitBatch(c)
    \/ AbortBatch(c)

Next ==
    \/ \E u \in User, s \in SessionId, t \in TokenId : CreateSession(u, s, t)
    \/ \E r \in Request : RefreshNext(r)
    \/ \E s \in SessionId : Logout(s)
    \/ \E u \in User, s \in SessionId : RevokeSessionForUser(u, s)
    \/ \E p \in Resetter : ResetNext(p)
    \/ \E c \in Cleaner : CleanupNext(c)
    \/ \E r \in Request, c \in Cleaner : ResolveDeadlock(r, c)
    \/ Tick

Spec == Init /\ [][Next]_vars

(***************************************************************************)
(* Fairness.  A process that can take its next step takes it; PostgreSQL   *)
(* queues lock waiters, so a lock that keeps becoming free is eventually   *)
(* granted (SF); the deadlock detector always breaks a cycle.  Nothing is  *)
(* assumed of clients, of the scheduler of cleanup, of the clock, or of    *)
(* the failures (the Abort actions).                                       *)
(***************************************************************************)
\* TokenId is finite in a model: a request that finds no identity left fails.
RotateOrRunOut(r) ==
    \/ \E new \in TokenId : CommitRotation(r, new)
    \/ /\ refresh[r].pc = "rotate"
       /\ \A t \in TokenId : token[t].state # "unborn"
       /\ AbortRefresh(r)

RefreshFairness(r) ==
    /\ SF_vars(LockToken(r))
    /\ SF_vars(LockSession(r))
    /\ WF_vars(TokenMissing(r) \/ RefuseRevoked(r) \/ Decide(r) \/ CommitRevocation(r))
    /\ WF_vars(RotateOrRunOut(r))

ResetFairness(p) ==
    /\ SF_vars(\E s \in SessionId : ResetVisits(p, s))
    /\ WF_vars(CommitReset(p))

CleanupFairness(c) ==
    /\ WF_vars(\E B \in SUBSET SessionId : SelectBatch(c, B))
    /\ SF_vars(\E t \in TokenId : CascadeLocks(c, t))
    /\ WF_vars(CommitBatch(c))
    /\ \A r \in Request : WF_vars(ResolveDeadlock(r, c))

FairSpec ==
    /\ Spec
    /\ \A r \in Request : RefreshFairness(r)
    /\ \A p \in Resetter : ResetFairness(p)
    /\ \A c \in Cleaner : CleanupFairness(c)


-----------------------------------------------------------------------------
(* Properties                                                              *)

Unspent(s) == {t \in TokensOf(s) : token[t].replacedBy = NoToken}

\* "At most one unreplaced token per session" (auth-sessions.md) is a
\* convention no index enforces: exactly one token of a live session can still
\* be rotated, and a deleted session leaves no token behind.
OneCredentialPerSession ==
    \A s \in SessionId :
        IF Live(s) THEN \E t \in TokenId : Unspent(s) = {t}
                   ELSE TokensOf(s) = {}

\* What RefreshToken read under its locks is still true when it commits: the
\* session has not been revoked or deleted, nor the token spent, in between.
DecisionStands ==
    \A r \in Request : refresh[r].pc \in {"rotate", "reuse", "expire"} =>
        /\ Live(SessionOf(r))
        /\ ~session[SessionOf(r)].revoked
        /\ LiveToken(refresh[r].token)
        /\ refresh[r].pc = "rotate" => token[refresh[r].token].replacedBy = NoToken

\* The row locks a transaction relies on are its own until it ends, and the rows
\* under them exist: a refresh cannot lose its token row to a cleanup that
\* already holds the session row, nor a cleanup its session rows to a refresh.
LocksAreHeld ==
    /\ \A r \in Request :
          /\ refresh[r].pc \notin {"idle", "begun"} =>
                /\ tokenLock[refresh[r].token] = r
                /\ LiveToken(refresh[r].token)
          /\ refresh[r].pc \notin {"idle", "begun", "tokenLocked"} =>
                sessionLock[SessionOf(r)] = r
    /\ \A c \in Cleaner : \A s \in cleaner[c].batch :
          /\ cleaner[c].pc = "delete"
          /\ sessionLock[s] = c
          /\ Live(s)

\* A session is open from its creation until it is revoked or deleted; expiry is
\* not a state of the row.
StandingOf(s) ==
    IF session[s].state = "unborn" THEN "unborn"
    ELSE IF Live(s) /\ ~session[s].revoked THEN "open"
    ELSE "closed"

\* A session that was revoked or deleted stays so, and no token is added to it
\* by a rotation that was under way.
DeadStaysDead ==
    [][\A s \in SessionId : StandingOf(s) = "closed" =>
          /\ StandingOf(s)' = "closed"
          /\ TokensOf(s)' \subseteq TokensOf(s)]_vars

\* last_activity_at is the NOW() of a transaction that may have waited long for
\* its locks, yet rotations of a session never move it backwards.
ActivityNeverRewinds ==
    [][\A s \in SessionId : Live(s) /\ Live(s)' =>
          session'[s].lastActivity >= session[s].lastActivity]_vars

\* A token that was already replaced comes back: a thief has it, its client lost the
\* answer that replaced it, or two requests raced with it.  Whichever way that
\* refresh is answered, its session is closed in the database by then; only an
\* internal error may leave it open.
ReuseEndsTheSession ==
    [][\A r \in Request :
          /\ refresh[r].pc # "idle" /\ token[refresh[r].token].replacedBy # NoToken
          /\ refresh'[r].pc = "idle" /\ refresh'[r].answer # "internal"
          => StandingOf(SessionOf(r))' = "closed"]_vars

\* When a password reset commits, every session its statement saw is dead, the
\* ones that a refresh or a cleanup held at that moment included.
ResetCoversWhatItSaw ==
    [][\A p \in Resetter : CommitReset(p) =>
          \A s \in reset[p].scan : session'[s].revoked \/ ~Live(s)']_vars

WaitsFor(a, b) ==
    \/ /\ a \in Request
       /\ \/ refresh[a].pc = "begun" /\ tokenLock[refresh[a].token] = b
          \/ refresh[a].pc = "tokenLocked" /\ sessionLock[SessionOf(a)] = b
    \/ /\ a \in Resetter
       /\ reset[a].passed # reset[a].scan
       /\ \A s \in reset[a].scan \ reset[a].passed : sessionLock[s] # Free
       /\ \E s \in reset[a].scan \ reset[a].passed : sessionLock[s] = b
    \/ /\ a \in Cleaner
       /\ \E t \in Doomed(a) : tokenLock[t] = b

\* Some transactions all wait for one another.
Deadlocked(T) == \A a \in T : \E b \in T : a # b /\ WaitsFor(a, b)

\* Every deadlock is the two-party one between a refresh and a cleanup batch
\* that ResolveDeadlock breaks.
DeadlocksAreRefreshVsCleanup ==
    \A T \in SUBSET Txn : T # {} /\ Deadlocked(T) =>
        \E r \in Request \cap T, c \in Cleaner \cap T : LockCycle(r, c)

\* Every refresh is answered, every cleanup execution ends whatever sessions die
\* meanwhile, and so does every password reset that reached its revoke-all.
TransactionsEnd ==
    /\ \A r \in Request : refresh[r].pc # "idle" ~> refresh[r].pc = "idle"
    /\ \A c \in Cleaner : cleaner[c].pc # "idle" ~> cleaner[c].pc = "idle"
    /\ \A p \in Resetter : reset[p].pc # "idle" ~> reset[p].pc = "idle"

(***************************************************************************)
(* The row-level protocol implements the atomic credential of              *)
(* SessionAuthority.                                                       *)
(***************************************************************************)
CredentialOf(s) ==
    IF StandingOf(s) = "open" THEN CHOOSE t \in Unspent(s) : TRUE ELSE NoToken

Issued == {t \in TokenId : token[t].state # "unborn"}

Authority == INSTANCE SessionAuthority WITH
    standing   <- [s \in SessionId |-> StandingOf(s)],
    credential <- [s \in SessionId |-> CredentialOf(s)],
    used       <- Issued

ImplementsAuthority == Authority!AuthoritySpec
=============================================================================
