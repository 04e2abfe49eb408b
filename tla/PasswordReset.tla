---------------------------- MODULE PasswordReset ---------------------------
(***************************************************************************)
(* Password reset for one account: opening a reset, issuing PINs,          *)
(* verifying one and finalizing with a new password, at the granularity of *)
(* the PostgreSQL statements of READ COMMITTED transactions.  Locks are    *)
(* read off the calls' states; writes are applied by the commit.           *)
(*                                                                         *)
(* Left out: rate limits and e-mail budgets, which only refuse             *)
(* (AbortCall), and the mail itself.  The revoke-all is in Sessions.       *)
(*                                                                         *)
(* Bounds: clock stops at MaxClock; row identities run out.                *)
(***************************************************************************)
EXTENDS Naturals, FiniteSets

CONSTANTS
    Reset,          \* pending_password_resets, each with its verification request
    Code,           \* verification_codes
    Token,          \* password_reset_continuations
    Call,           \* concurrent requests to any of the endpoints
    None,           \* no row; never sent
    MaxAttempts, Cooldown, ResetLifetime, CodeLifetime, TokenLifetime,
    MaxClock

ASSUME NumberAssumption ==
    /\ MaxAttempts \in Nat \ {0}
    /\ \A n \in {Cooldown, ResetLifetime, CodeLifetime, TokenLifetime, MaxClock} :
          n \in Nat

ASSUME NoneAssumption == None \notin Reset \cup Code \cup Token \cup Nat

VARIABLES
    clock,          \* one clock for the database and the API hosts
    reset,          \* resets and their verification requests
    code,
    token,
    credential,     \* the continuation whose password is stored, None at first
    call            \* the state of each request

vars == << clock, reset, code, token, credential, call >>

\* request is verification_requests.status, lastSent its last_sent_at.
ResetRow ==
    [status : {"unborn", "pending", "expired", "completed"}, expires : Nat,
     request : {"pending", "verified"}, lastSent : Nat \cup {None}]

CodeRow ==
    [born : BOOLEAN, reset : Reset \cup {None}, expires : Nat,
     attempts : 0 .. MaxAttempts, consumed : BOOLEAN, invalidated : BOOLEAN]

TokenRow ==
    [born : BOOLEAN, reset : Reset \cup {None}, expires : Nat, consumed : BOOLEAN]

Opening == {"find", "lockReset", "lockRequest", "insert", "openCommit"}
Issuing == {"issue", "invalidate", "insertCode", "stamp"}
Verifying == {"read", "wrong", "match", "consume", "mark", "grant"}
Finalizing == {"hash", "upsert", "complete", "finalizeCommit"}

\* now is a reading of the Go clock, began the transaction's NOW(), and fresh
\* the row that the call has inserted.
CallState ==
    [pc : {"idle"} \cup Opening \cup Issuing \cup Verifying \cup Finalizing,
     reset : Reset \cup {None}, code : Code \cup {None}, token : Token \cup {None},
     fresh : Reset \cup Code \cup {None}, now : Nat, began : Nat, retried : BOOLEAN]

TypeOK ==
    /\ clock \in Nat
    /\ reset \in [Reset -> ResetRow]
    /\ code \in [Code -> CodeRow]
    /\ token \in [Token -> TokenRow]
    /\ credential \in Token \cup {None}
    /\ call \in [Call -> CallState]

IdleCall ==
    [pc |-> "idle", reset |-> None, code |-> None, token |-> None,
     fresh |-> None, now |-> 0, began |-> 0, retried |-> FALSE]

Init ==
    /\ clock = 0
    /\ reset = [r \in Reset |-> [status |-> "unborn", expires |-> 0,
                                 request |-> "pending", lastSent |-> None]]
    /\ code = [k \in Code |->
          [born |-> FALSE, reset |-> None, expires |-> 0, attempts |-> 0,
           consumed |-> FALSE, invalidated |-> FALSE]]
    /\ token = [t \in Token |->
          [born |-> FALSE, reset |-> None, expires |-> 0, consumed |-> FALSE]]
    /\ credential = None
    /\ call = [c \in Call |-> IdleCall]

-----------------------------------------------------------------------------
(* Rows and locks                                                          *)

At(c, pc) == call[c].pc = pc

Pending(r) == reset[r].status = "pending"

Active(k) == code[k].born /\ ~code[k].consumed /\ ~code[k].invalidated

ActiveCodes(r) == {k \in Code : Active(k) /\ code[k].reset = r}

\* FOR UPDATE by an opening call, UPDATE by a finalizing one.
HoldsReset(c, r) ==
    /\ call[c].reset = r
    /\ call[c].pc \in {"lockRequest", "insert", "openCommit", "finalizeCommit"}

\* The row's status is being changed, and not only locked.
ChangesReset(c, r) == HoldsReset(c, r) /\ ~At(c, "lockRequest")

\* Faulty: verification locks its request when it reads it.
HoldsRequestEarly(c, r) ==
    /\ call[c].reset = r
    /\ call[c].pc \in {"insert", "openCommit", "read", "wrong", "match", "consume", "mark",
                      "grant"}

HoldsRequest(c, r) ==
    call[c].reset = r /\ call[c].pc \in {"insert", "openCommit", "grant"}

HoldsCode(c, k) ==
    call[c].code = k /\ call[c].pc \in {"insertCode", "stamp", "mark", "grant"}

HoldsCredential(c) == call[c].pc \in {"complete", "finalizeCommit"}

\* Two rows of one partial unique index may not be pending, or active, at once;
\* an insert waits for whoever has inserted or is changing such a row.
ClaimsPending(c, d) ==
    \/ At(d, "openCommit")
    \/ \E r \in Reset \ {call[c].reset} : Pending(r) /\ ChangesReset(d, r)

ClaimsActive(c, d) ==
    \/ At(d, "stamp") /\ call[d].reset = call[c].reset
    \/ \E k \in ActiveCodes(call[c].reset) \ {call[c].code} : HoldsCode(d, k)

\* What c's next statement waits for while d holds it.
WaitsFor(c, d) ==
    LET x == call[c] IN
    /\ c # d
    /\ \/ x.pc \in {"lockReset", "complete"} /\ HoldsReset(d, x.reset)
       \/ x.pc \in {"lockRequest", "stamp", "mark"} /\ HoldsRequest(d, x.reset)
       \* the inserted code's foreign key: FOR KEY SHARE
       \/ x.pc = "lockRequest" /\ At(d, "stamp") /\ call[d].reset = x.reset
       \/ x.pc = "insert" /\ ClaimsPending(c, d)
       \/ x.pc \in {"invalidate", "wrong", "consume"} /\ HoldsCode(d, x.code)
       \/ x.pc = "insertCode" /\ ClaimsActive(c, d)
       \* foreign keys: FOR KEY SHARE against the opening call's FOR UPDATE
       \/ /\ x.pc = "insertCode"
          /\ call[d].pc \in {"insert", "openCommit"}
          /\ call[d].reset = x.reset
       \/ /\ x.pc = "grant"
          /\ call[d].pc \in {"lockRequest", "insert", "openCommit"}
          /\ call[d].reset = x.reset
       \/ x.pc = "upsert" /\ HoldsCredential(d)

Granted(c) == \A d \in Call : ~WaitsFor(c, d)

Finish(c) == call' = [call EXCEPT ![c] = IdleCall]

Goto(c, pc) == call' = [call EXCEPT ![c].pc = pc]

\* Any error before the commit, a refused budget or a busy hasher included.
AbortCall(c) ==
    /\ ~At(c, "idle")
    /\ Finish(c)
    /\ UNCHANGED << clock, reset, code, token, credential >>

-----------------------------------------------------------------------------
(* Opening: RequestPasswordReset and CreatePasswordReset                   *)

\* An open reset that has not expired is reused; otherwise the expiry of a new
\* one is computed.
BeginOpen(c) ==
    /\ At(c, "idle")
    /\ \A r \in Reset : Pending(r) => reset[r].expires <= clock
    /\ call' = [call EXCEPT ![c] = [IdleCall EXCEPT !.pc = "find", !.now = clock]]
    /\ UNCHANGED << clock, reset, code, token, credential >>

\* BEGIN and the snapshot of the FOR UPDATE query.
FindPending(c) ==
    /\ At(c, "find")
    /\ \/ \E r \in Reset :
             /\ Pending(r)
             /\ call' = [call EXCEPT ![c].pc = "lockReset", ![c].reset = r,
                                     ![c].began = clock]
       \/ /\ \A r \in Reset : ~Pending(r)
          /\ call' = [call EXCEPT ![c].pc = "insert", ![c].began = clock]
    /\ UNCHANGED << clock, reset, code, token, credential >>

\* FOR UPDATE names no table: the reset is locked first, then its verification
\* request.  A reset that has ended meanwhile drops out of the result; it does so
\* here before the wait for its request, which could only delay it.
LockReset(c) ==
    /\ At(c, "lockReset")
    /\ Granted(c)
    /\ IF Pending(call[c].reset)
       THEN Goto(c, "lockRequest")
       ELSE call' = [call EXCEPT ![c].pc = "insert", ![c].reset = None]
    /\ UNCHANGED << clock, reset, code, token, credential >>

\* A live reset is handed back; an expired one is marked so.
LockRequest(c) ==
    /\ At(c, "lockRequest")
    /\ Granted(c)
    /\ IF reset[call[c].reset].expires <= call[c].began
       THEN Goto(c, "insert")
       ELSE Finish(c)
    /\ UNCHANGED << clock, reset, code, token, credential >>

\* Faulty: nothing but the lookup keeps a second reset out.
InsertResetUnindexed(c, new) ==
    /\ At(c, "insert")
    /\ reset[new].status = "unborn"
    /\ \A d \in Call : call[d].fresh # new
    /\ call' = [call EXCEPT ![c].pc = "openCommit", ![c].fresh = new]
    /\ UNCHANGED << clock, reset, code, token, credential >>

OthersPending(c) == {r \in Reset : Pending(r)} \ {call[c].reset}

\* pending_password_resets_email_pending_idx.
InsertReset(c, new) ==
    /\ At(c, "insert")
    /\ Granted(c)
    /\ OthersPending(c) = {}
    /\ reset[new].status = "unborn"
    /\ \A d \in Call : call[d].fresh # new
    /\ call' = [call EXCEPT ![c].pc = "openCommit", ![c].fresh = new]
    /\ UNCHANGED << clock, reset, code, token, credential >>

\* The loser of the index runs once more, in a transaction of its own.
InsertResetConflicts(c) ==
    /\ At(c, "insert")
    /\ Granted(c)
    /\ OthersPending(c) # {}
    /\ IF call[c].retried
       THEN Finish(c)
       ELSE call' = [call EXCEPT ![c] =
               [IdleCall EXCEPT !.pc = "find", !.now = call[c].now, !.retried = TRUE]]
    /\ UNCHANGED << clock, reset, code, token, credential >>

CommitOpen(c) ==
    LET x == call[c] IN
    /\ At(c, "openCommit")
    /\ reset' = [r \in Reset |->
          CASE r = x.fresh -> [status |-> "pending", expires |-> x.now + ResetLifetime,
                               request |-> "pending", lastSent |-> None]
            [] r = x.reset -> [reset[r] EXCEPT !.status = "expired"]
            [] OTHER       -> reset[r]]
    /\ Finish(c)
    /\ UNCHANGED << clock, code, token, credential >>

-----------------------------------------------------------------------------
(* Issuing: issueVerificationCode and IssueVerificationCode                *)

\* validateVerificationPending.
VerificationPending(r) ==
    /\ Pending(r)
    /\ reset[r].request = "pending"
    /\ clock < reset[r].expires

CooledDown(r) == reset[r].lastSent # None => clock >= reset[r].lastSent + Cooldown

\* An unlocked read; the budgets are reserved after it.
BeginIssue(c, r) ==
    /\ At(c, "idle")
    /\ VerificationPending(r)
    /\ CooledDown(r)
    /\ call' = [call EXCEPT ![c] = [IdleCall EXCEPT !.pc = "issue", !.reset = r]]
    /\ UNCHANGED << clock, reset, code, token, credential >>

\* The code's expiry, BEGIN, and the subquery that picks the code to invalidate.
PickActive(c) ==
    /\ At(c, "issue")
    /\ \E k \in Code \cup {None} :
          /\ IF k = None THEN ActiveCodes(call[c].reset) = {}
                         ELSE k \in ActiveCodes(call[c].reset)
          /\ call' = [call EXCEPT
                ![c].pc = IF k = None THEN "insertCode" ELSE "invalidate",
                ![c].code = k, ![c].now = clock, ![c].began = clock]
    /\ UNCHANGED << clock, reset, code, token, credential >>

\* The subquery is not evaluated again after the wait.
Invalidate(c) ==
    /\ At(c, "invalidate")
    /\ Granted(c)
    /\ Goto(c, "insertCode")
    /\ UNCHANGED << clock, reset, code, token, credential >>

OthersActive(c) == ActiveCodes(call[c].reset) \ {call[c].code}

\* verification_codes_one_active_per_request_idx; the request's status is not
\* looked at again.
InsertCode(c, new) ==
    /\ At(c, "insertCode")
    /\ Granted(c)
    /\ OthersActive(c) = {}
    /\ ~code[new].born
    /\ \A d \in Call : call[d].fresh # new
    /\ call' = [call EXCEPT ![c].pc = "stamp", ![c].fresh = new]
    /\ UNCHANGED << clock, reset, code, token, credential >>

InsertCodeConflicts(c) ==
    /\ At(c, "insertCode")
    /\ Granted(c)
    /\ OthersActive(c) # {}
    /\ Finish(c)
    /\ UNCHANGED << clock, reset, code, token, credential >>

\* UpdateVerificationRequestResend and commit; the PIN is mailed afterwards.
CommitIssue(c) ==
    LET x == call[c] IN
    /\ At(c, "stamp")
    /\ Granted(c)
    /\ code' = [k \in Code |->
          CASE k = x.fresh -> [born |-> TRUE, reset |-> x.reset, attempts |-> 0,
                               expires |-> x.now + CodeLifetime,
                               consumed |-> FALSE, invalidated |-> FALSE]
            [] k = x.code  -> [code[k] EXCEPT !.invalidated = TRUE]
            [] OTHER       -> code[k]]
    /\ reset' = [reset EXCEPT ![x.reset].lastSent = x.began]
    /\ Finish(c)
    /\ UNCHANGED << clock, token, credential >>

-----------------------------------------------------------------------------
(* Verifying: VerifyPasswordReset and CompleteVerification                 *)

BeginVerify(c, r) ==
    /\ At(c, "idle")
    /\ VerificationPending(r)
    /\ call' = [call EXCEPT ![c] = [IdleCall EXCEPT !.pc = "read", !.reset = r]]
    /\ UNCHANGED << clock, reset, code, token, credential >>

\* GetActiveVerificationCode and the comparison.
ReadCode(c, right) ==
    /\ At(c, "read")
    /\ \/ \E k \in ActiveCodes(call[c].reset) :
             /\ code[k].expires > clock
             /\ code[k].attempts < MaxAttempts
             /\ call' = [call EXCEPT
                   ![c].pc = IF right THEN "match" ELSE "wrong", ![c].code = k]
       \/ /\ \A k \in ActiveCodes(call[c].reset) :
                code[k].expires <= clock \/ code[k].attempts >= MaxAttempts
          /\ Finish(c)
    /\ UNCHANGED << clock, reset, code, token, credential >>

\* The limit is looked at again under the row lock.
CountWrong(c) ==
    LET k == call[c].code IN
    /\ At(c, "wrong")
    /\ Granted(c)
    /\ code' = IF code[k].attempts < MaxAttempts
               THEN [code EXCEPT ![k].attempts = @ + 1] ELSE code
    /\ Finish(c)
    /\ UNCHANGED << clock, reset, token, credential >>

\* The continuation's expiry and BEGIN: the code may have expired since it was read.
BeginCompletion(c) ==
    /\ At(c, "match")
    /\ call' = [call EXCEPT ![c].pc = "consume", ![c].now = clock, ![c].began = clock]
    /\ UNCHANGED << clock, reset, code, token, credential >>

\* Faulty: whether the code has expired meanwhile is not looked at again.
ConsumeLate(c) ==
    /\ At(c, "consume")
    /\ Granted(c)
    /\ IF Active(call[c].code) THEN Goto(c, "mark") ELSE Finish(c)
    /\ UNCHANGED << clock, reset, code, token, credential >>

\* Faulty: the code's state is not looked at again.
ConsumeUnchecked(c) ==
    /\ At(c, "consume")
    /\ Granted(c)
    /\ Goto(c, "mark")
    /\ UNCHANGED << clock, reset, code, token, credential >>

Consume(c) ==
    LET k == call[c].code IN
    /\ At(c, "consume")
    /\ Granted(c)
    /\ IF Active(k) /\ code[k].expires > call[c].began
       THEN Goto(c, "mark")
       ELSE Finish(c)
    /\ UNCHANGED << clock, reset, code, token, credential >>

\* Faulty: the number of updated rows is ignored.
MarkUnchecked(c) ==
    /\ At(c, "mark")
    /\ Granted(c)
    /\ Goto(c, "grant")
    /\ UNCHANGED << clock, reset, code, token, credential >>

Mark(c) ==
    /\ At(c, "mark")
    /\ Granted(c)
    /\ IF reset[call[c].reset].request = "pending"
       THEN Goto(c, "grant")
       ELSE Finish(c)
    /\ UNCHANGED << clock, reset, code, token, credential >>

\* The continuation is inserted and all is committed. Nobody asks whether the
\* reset is still pending.
CommitVerification(c, new) ==
    LET x == call[c] IN
    /\ At(c, "grant")
    /\ Granted(c)
    /\ ~token[new].born
    /\ code' = [code EXCEPT ![x.code].consumed = TRUE]
    /\ reset' = [reset EXCEPT ![x.reset].request = "verified"]
    /\ token' = [token EXCEPT ![new] =
          [born |-> TRUE, reset |-> x.reset, consumed |-> FALSE,
           expires |-> x.now + TokenLifetime]]
    /\ Finish(c)
    /\ UNCHANGED << clock, credential >>

-----------------------------------------------------------------------------
(* Finalizing: FinalizePasswordReset and its transaction                   *)

\* validatePasswordResetContinuation, before the password is hashed.
BeginFinalize(c, t) ==
    LET r == token[t].reset IN
    /\ At(c, "idle")
    /\ token[t].born
    /\ ~token[t].consumed
    /\ clock < token[t].expires
    /\ Pending(r)
    /\ clock < reset[r].expires
    /\ call' = [call EXCEPT ![c] =
          [IdleCall EXCEPT !.pc = "hash", !.reset = r, !.token = t]]
    /\ UNCHANGED << clock, reset, code, token, credential >>

\* The password is hashed, for as long as that takes, and a transaction begun.
BeginWrite(c) ==
    /\ At(c, "hash")
    /\ call' = [call EXCEPT ![c].pc = "upsert", ![c].began = clock]
    /\ UNCHANGED << clock, reset, code, token, credential >>

\* UpsertPasswordCredential waits for another finalization of the account; then
\* ConsumePasswordResetContinuation.
Spend(c) ==
    LET t == call[c].token IN
    /\ At(c, "upsert")
    /\ Granted(c)
    /\ IF ~token[t].consumed /\ token[t].expires > call[c].began
       THEN Goto(c, "complete")
       ELSE Finish(c)
    /\ UNCHANGED << clock, reset, code, token, credential >>

\* Faulty: whether the reset has expired meanwhile is not looked at again.
CompleteLate(c) ==
    /\ At(c, "complete")
    /\ Granted(c)
    /\ IF Pending(call[c].reset) THEN Goto(c, "finalizeCommit") ELSE Finish(c)
    /\ UNCHANGED << clock, reset, code, token, credential >>

\* CompletePendingPasswordReset.
Complete(c) ==
    LET r == call[c].reset IN
    /\ At(c, "complete")
    /\ Granted(c)
    /\ IF Pending(r) /\ reset[r].expires > call[c].began
       THEN Goto(c, "finalizeCommit")
       ELSE Finish(c)
    /\ UNCHANGED << clock, reset, code, token, credential >>

\* After the sessions are revoked.
CommitFinalize(c) ==
    LET x == call[c] IN
    /\ At(c, "finalizeCommit")
    /\ credential' = x.token
    /\ token' = [token EXCEPT ![x.token].consumed = TRUE]
    /\ reset' = [reset EXCEPT ![x.reset].status = "completed"]
    /\ Finish(c)
    /\ UNCHANGED << clock, code >>

-----------------------------------------------------------------------------
Tick ==
    /\ clock < MaxClock
    /\ clock' = clock + 1
    /\ UNCHANGED << reset, code, token, credential, call >>

OpenNext(c) ==
    \/ BeginOpen(c)
    \/ FindPending(c)
    \/ LockReset(c)
    \/ LockRequest(c)
    \/ \E new \in Reset : InsertReset(c, new)
    \/ InsertResetConflicts(c)
    \/ CommitOpen(c)

IssueNext(c) ==
    \/ \E r \in Reset : BeginIssue(c, r)
    \/ PickActive(c)
    \/ Invalidate(c)
    \/ \E new \in Code : InsertCode(c, new)
    \/ InsertCodeConflicts(c)
    \/ CommitIssue(c)

VerifyNext(c) ==
    \/ \E r \in Reset : BeginVerify(c, r)
    \/ \E right \in BOOLEAN : ReadCode(c, right)
    \/ CountWrong(c)
    \/ BeginCompletion(c)
    \/ Consume(c)
    \/ Mark(c)
    \/ \E new \in Token : CommitVerification(c, new)

FinalizeNext(c) ==
    \/ \E t \in Token : BeginFinalize(c, t)
    \/ BeginWrite(c)
    \/ Spend(c)
    \/ Complete(c)
    \/ CommitFinalize(c)

CallNext(c) ==
    OpenNext(c) \/ IssueNext(c) \/ VerifyNext(c) \/ FinalizeNext(c) \/ AbortCall(c)

Next == Tick \/ \E c \in Call : CallNext(c)

Spec == Init /\ [][Next]_vars

-----------------------------------------------------------------------------
(* Properties                                                              *)

\* However requests to open a reset or to send a PIN cross, an account has one
\* pending reset and a reset one active code.
OneOfEach ==
    /\ \A r, q \in Reset : Pending(r) /\ Pending(q) => r = q
    /\ \A r \in Reset : \A k, j \in ActiveCodes(r) : k = j

\* A reset is verified by exactly one code and earns exactly one continuation,
\* although a PIN can be issued, and another verification be under way, while it
\* is being verified.
VerifiedOnce ==
    \A r \in Reset :
        LET spent == {k \in Code : code[k].reset = r /\ code[k].consumed}
            earned == {t \in Token : token[t].reset = r}
        IN IF reset[r].request = "verified"
           THEN (\E k \in Code : spent = {k}) /\ (\E t \in Token : earned = {t})
           ELSE spent = {} /\ earned = {}

\* A PIN that was replaced while its verification was under way is not accepted.
ReplacedCodeIsDead ==
    [][\A k \in Code : code[k].invalidated => code'[k].consumed = code[k].consumed]_vars

EndedStaysEnded ==
    [][\A r \in Reset : ~Pending(r) /\ reset[r].status # "unborn" =>
          reset'[r].status = reset[r].status]_vars

LiveResetIsKept ==
    [][\A r \in Reset : Pending(r) /\ reset'[r].status = "expired" =>
          reset[r].expires <= clock]_vars

CompletedInTime ==
    [][\A r \in Reset : Pending(r) /\ reset'[r].status = "completed" =>
          \E c \in Call : /\ At(c, "finalizeCommit") /\ call[c].reset = r
                         /\ call[c].began < reset[r].expires
                         /\ call[c].began < token[call[c].token].expires]_vars

\* A reset ends in one way. It is given up only once it has expired, and completed
\* only by a transaction that began before it and its continuation expired, however
\* long the password was hashed before that.
ResetEndsOnce == EndedStaysEnded /\ LiveResetIsKept /\ CompletedInTime

\* The password is written exactly when a reset is completed by a continuation
\* nobody has used: finalizing twice does not write twice.
PasswordFollowsReset ==
    [][credential' # credential \/ (\E t \in Token : token'[t].consumed # token[t].consumed)
         => \E t \in Token :
               /\ credential' = t
               /\ ~token[t].consumed /\ token'[t].consumed
               /\ Pending(token[t].reset)
               /\ reset'[token[t].reset].status = "completed"]_vars

\* last_sent_at is the start of a transaction that may have waited behind a later
\* one, yet the cooldown of a reset that still takes PINs is never moved back.
CooldownNeverRewinds ==
    [][\A r \in Reset :
          /\ reset[r].lastSent # None
          /\ reset'[r].lastSent # reset[r].lastSent
          /\ reset[r].request = "pending"
          => reset'[r].lastSent >= reset[r].lastSent]_vars

Deadlocked(T) == \A c \in T : \E d \in T : WaitsFor(c, d)

\* The one possible deadlock is between the re-opening of a reset, which locks it
\* and then its verification request, and a verification of it, which locks them
\* the other way round (the continuation's foreign key).
DeadlocksAreOpenVsVerify ==
    \A T \in SUBSET Call : T # {} /\ Deadlocked(T) =>
        \E c, d \in T : /\ At(c, "lockRequest") /\ At(d, "grant")
                        /\ call[c].reset = call[d].reset

(***************************************************************************)
(* The statements implement the single steps of Recovery.                  *)
(***************************************************************************)
\* The only member of S, if it has one.
The(S) == IF S = {} THEN None ELSE CHOOSE x \in S : TRUE

GrantOf(r) == The({t \in Token : token[t].reset = r})

LapseOf(r) == IF GrantOf(r) = None THEN 0 ELSE token[GrantOf(r)].expires

\* c's transaction began in time to consume k, and to complete r.
InTimeWith(c, k) ==
    /\ call[c].pc \in {"consume", "mark", "grant"}
    /\ call[c].code = k
    /\ call[c].began < code[k].expires

InTimeFor(c, r) ==
    /\ call[c].pc \in {"upsert", "complete", "finalizeCommit"}
    /\ call[c].reset = r
    /\ call[c].began < reset[r].expires
    /\ call[c].began < token[call[c].token].expires

Presented == {k \in Code : \E c \in Call : InTimeWith(c, k)}

Trying == {r \in Reset : \E c \in Call : InTimeFor(c, r)}

Promise == INSTANCE Recovery WITH
    Lifetime <- ResetLifetime,
    PinLifetime <- CodeLifetime,
    GrantLifetime <- TokenLifetime,
    now      <- clock,
    standing <- [r \in Reset |-> reset[r].status],
    deadline <- [r \in Reset |-> reset[r].expires],
    pin      <- [r \in Reset |-> The(ActiveCodes(r))],
    issued   <- {k \in Code : code[k].born},
    runsOut  <- [k \in Code |-> code[k].expires],
    presented <- Presented,
    sent     <- [r \in Reset |-> reset[r].lastSent],
    grant    <- [r \in Reset |-> GrantOf(r)],
    lapse    <- [r \in Reset |-> LapseOf(r)],
    trying   <- Trying,
    password <- credential

ImplementsRecovery == Promise!RecoverySpec
=============================================================================
