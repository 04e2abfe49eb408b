---------------------------- MODULE Registration ----------------------------
(***************************************************************************)
(* Registration of one address: opening a registration (manual, social or  *)
(* the recovery of a manual one), issuing PINs, verifying one and          *)
(* finalizing the account, at the granularity of the PostgreSQL statements *)
(* that can wait.  Once a transaction has its last lock, its remaining     *)
(* statements and its commit are one step.                                 *)
(*                                                                         *)
(* Left out: budgets and rate limits (module PinBudget), which here only   *)
(* refuse (Abort), the mail, wrong PINs (PasswordReset has their count,    *)
(* over the same table), the password hash (PasswordWork) and the session  *)
(* that a social finalization opens (Sessions).                            *)
(*                                                                         *)
(* Bounds: clock stops at MaxClock; row identities run out; at most        *)
(* MaxCalls requests are under way at once.                                *)
(***************************************************************************)
EXTENDS Naturals, FiniteSets

CONSTANTS
    Registration,   \* pending_registrations
    Request,        \* verification_requests
    Code,           \* verification_codes
    Identity,       \* provider identities that present the address
    Opener, Issuer, Verifier, Finalizer,    \* concurrent requests, by endpoint
    None,           \* no row; no identity: a manual registration; never sent
    Cooldown, RegistrationLifetime, CodeLifetime,
    ContinuationLifetime, MaxClock, MaxCalls

ASSUME NumberAssumption ==
    \A n \in {Cooldown, RegistrationLifetime, CodeLifetime, ContinuationLifetime,
              MaxClock, MaxCalls} : n \in Nat

ASSUME NoneAssumption ==
    None \notin Registration \cup Request \cup Code \cup Identity \cup Nat

ASSUME IdentityAssumption == {"manual", "recovery"} \cap Identity = {}

ASSUME RoleAssumption ==
    /\ Opener \cap (Issuer \cup Verifier \cup Finalizer) = {}
    /\ Issuer \cap (Verifier \cup Finalizer) = {}
    /\ Verifier \cap Finalizer = {}

VARIABLES
    clock,          \* one clock for the database and the API hosts
    registration,   \* registrations, each with its identity and continuation
    request,
    code,
    account,        \* the registration whose finalization created the user
    opening, issuing, verifying, finalizing     \* the requests under way

rows == << registration, request, code, account >>
calls == << opening, issuing, verifying, finalizing >>
vars == << clock, rows, calls >>

RegistrationRow ==
    [status : {"unborn", "pending", "expired", "completed"},
     identity : Identity \cup {None}, expires : Nat,
     continuation : {"none", "usable", "consumed"}, deadline : Nat]

RequestRow ==
    [status : {"unborn", "pending", "verified"}, purpose : {"registration", "recovery"},
     subject : Registration \cup {None}, lastSent : Nat \cup {None}]

\* A code that was consumed may be invalidated as well, by a resend that waited.
CodeRow ==
    [request : Request \cup {None}, expires : Nat, marks : SUBSET {"consumed", "invalidated"}]

Opening ==
    [pc : {"idle", "find", "lockRegistration", "lockRequest", "insert"},
     wants : Identity \cup {"manual", "recovery"},
     registration : Registration \cup {None}, request : Request \cup {None},
     now : Nat, began : Nat, retried : BOOLEAN]

Issuing ==
    [pc : {"idle", "pick", "replace"}, request : Request \cup {None},
     old : Code \cup {None}, began : Nat]

Verifying ==
    [pc : {"idle", "read", "match", "consume", "grant", "replace"},
     request : Request \cup {None}, code : Code \cup {None},
     registration : Registration \cup {None}, began : Nat]

Finalizing ==
    [pc : {"idle", "hash", "create", "complete"},
     registration : Registration \cup {None}, began : Nat]

TypeOK ==
    /\ clock \in Nat
    /\ registration \in [Registration -> RegistrationRow]
    /\ request \in [Request -> RequestRow]
    /\ code \in [Code -> CodeRow]
    /\ account \in Registration \cup {None}
    /\ opening \in [Opener -> Opening]
    /\ issuing \in [Issuer -> Issuing]
    /\ verifying \in [Verifier -> Verifying]
    /\ finalizing \in [Finalizer -> Finalizing]

IdleOpening ==
    [pc |-> "idle", wants |-> "manual", registration |-> None, request |-> None,
     now |-> 0, began |-> 0, retried |-> FALSE]

IdleIssuing == [pc |-> "idle", request |-> None, old |-> None, began |-> 0]

IdleVerifying ==
    [pc |-> "idle", request |-> None, code |-> None, registration |-> None, began |-> 0]

IdleFinalizing == [pc |-> "idle", registration |-> None, began |-> 0]

Init ==
    /\ clock = 0
    /\ registration = [r \in Registration |->
          [status |-> "unborn", identity |-> None, expires |-> 0,
           continuation |-> "none", deadline |-> 0]]
    /\ request = [v \in Request |->
          [status |-> "unborn", purpose |-> "registration", subject |-> None,
           lastSent |-> None]]
    /\ code = [k \in Code |-> [request |-> None, expires |-> 0, marks |-> {}]]
    /\ account = None
    /\ opening = [o \in Opener |-> IdleOpening]
    /\ issuing = [i \in Issuer |-> IdleIssuing]
    /\ verifying = [x \in Verifier |-> IdleVerifying]
    /\ finalizing = [f \in Finalizer |-> IdleFinalizing]

-----------------------------------------------------------------------------
(* Rows and locks                                                          *)

Pending(r) == registration[r].status = "pending"

Manual(r) == registration[r].identity = None

Indexed == {r \in Registration : registration[r].status \in {"pending", "completed"}}

\* Rows that do not exist yet are interchangeable: one stands for them all.
OneOf(S) == IF S = {} THEN {} ELSE {CHOOSE x \in S : TRUE}

NewRegistrations == {r \in Registration : registration[r].status = "unborn"}
NewRequests == {v \in Request : request[v].status = "unborn"}
NewCodes == {k \in Code : code[k].request = None}

NewRegistration(identity, expires, continuation, deadline) ==
    [status |-> "pending", identity |-> identity, expires |-> expires,
     continuation |-> continuation, deadline |-> deadline]

NewRequest(purpose, r) ==
    [status |-> "pending", purpose |-> purpose, subject |-> r, lastSent |-> None]

\* GetPendingRecoveryVerificationByPendingRegistration.
OpenRecoveries(r) ==
    {v \in Request : /\ request[v].subject = r
                     /\ request[v].purpose = "recovery"
                     /\ request[v].status = "pending"}

\* The rows that GetPendingRegistrationByEmailForUpdate joins.
Joined(r, v) ==
    /\ Pending(r)
    /\ request[v].subject = r
    /\ request[v].purpose = "registration"

Active(k) == code[k].request # None /\ code[k].marks = {}

ActiveCodes(v) == {k \in Code : Active(k) /\ code[k].request = v}

Call == Opener \cup Issuer \cup Verifier \cup Finalizer

\* FOR UPDATE of the lookup; every other lock on a registration is the last one
\* its transaction takes.
HoldsRegistration(p, r) ==
    p \in Opener /\ opening[p].pc = "lockRequest" /\ opening[p].registration = r

HoldsRequest(p, v) ==
    /\ p \in Verifier
    /\ verifying[p].pc \in {"grant", "replace"}
    /\ verifying[p].request = v

HoldsCode(p, k) ==
    /\ p \in Verifier
    /\ verifying[p].pc \in {"grant", "replace"}
    /\ verifying[p].code = k

\* users_email_unique, from the insertion on.
HoldsUser(p) == p \in Finalizer /\ finalizing[p].pc = "complete"

\* Faulty: the lookup of an open recovery locks it, too.
OpenerWaitsForRecovery(o, p) ==
    \/ /\ opening[o].pc = "lockRegistration"
       /\ HoldsRegistration(p, opening[o].registration)
    \/ /\ opening[o].pc = "lockRequest"
       /\ \E v \in {opening[o].request} \cup OpenRecoveries(opening[o].registration) :
             HoldsRequest(p, v)

OpenerWaits(o, p) ==
    \/ /\ opening[o].pc = "lockRegistration"
       /\ HoldsRegistration(p, opening[o].registration)
    \/ opening[o].pc = "lockRequest" /\ HoldsRequest(p, opening[o].request)

\* The code being replaced, one that keeps a new one out, or the request.
IssuerWaits(i, p) ==
    /\ issuing[i].pc = "replace"
    /\ \/ HoldsRequest(p, issuing[i].request)
       \/ \E k \in ActiveCodes(issuing[i].request) \cup {issuing[i].old} : HoldsCode(p, k)

\* The continuation's foreign key shares the registration; recovery locks it.
VerifierWaits(x, p) ==
    \/ /\ verifying[x].pc = "consume"
       /\ HoldsCode(p, verifying[x].code) \/ HoldsRequest(p, verifying[x].request)
    \/ /\ verifying[x].pc \in {"grant", "replace"}
       /\ HoldsRegistration(p, verifying[x].registration)

FinalizerWaits(f, p) ==
    \/ finalizing[f].pc = "create" /\ HoldsUser(p)
    \/ finalizing[f].pc = "complete" /\ HoldsRegistration(p, finalizing[f].registration)

WaitsFor(p, q) ==
    /\ p # q
    /\ \/ p \in Opener /\ OpenerWaits(p, q)
       \/ p \in Issuer /\ IssuerWaits(p, q)
       \/ p \in Verifier /\ VerifierWaits(p, q)
       \/ p \in Finalizer /\ FinalizerWaits(p, q)

Granted(p) == \A q \in Call : ~WaitsFor(p, q)

Busy ==
    {o \in Opener : opening[o].pc # "idle"} \cup {i \in Issuer : issuing[i].pc # "idle"}
        \cup {x \in Verifier : verifying[x].pc # "idle"}
        \cup {f \in Finalizer : finalizing[f].pc # "idle"}

Arrives(p) == p \notin Busy /\ Cardinality(Busy) < MaxCalls

-----------------------------------------------------------------------------
(* Opening: RegisterManual, InitiateManualRecovery, CreateSocialRegistration *)

Opens(o, x) == opening' = [opening EXCEPT ![o] = x]

OpenerReads == UNCHANGED << clock, rows, issuing, verifying, finalizing >>

\* GetCompletedRegistrationByEmail, then the deadline of a new registration.
BeginManual(o, w) ==
    /\ Arrives(o)
    /\ \A r \in Registration : registration[r].status # "completed"
    /\ Opens(o, [IdleOpening EXCEPT !.pc = "find", !.wants = w, !.now = clock])
    /\ OpenerReads

\* A provider login that found neither its identity nor a user of this address.
BeginSocial(o, i) ==
    /\ Arrives(o)
    /\ account = None
    /\ Opens(o, [IdleOpening EXCEPT !.pc = "find", !.wants = i, !.now = clock])
    /\ OpenerReads

\* Recovery needs a registration; the others insert one.
NothingFound(o, x) ==
    Opens(o, IF x.wants = "recovery" THEN IdleOpening
             ELSE [IdleOpening EXCEPT !.pc = "insert", !.wants = x.wants,
                                      !.now = x.now, !.retried = x.retried])

\* BEGIN and the snapshot of the lookup.
Find(o) ==
    LET x == [opening[o] EXCEPT !.began = clock] IN
    /\ opening[o].pc = "find"
    /\ \/ \E r \in Registration, v \in Request :
             /\ Joined(r, v)
             /\ Opens(o, [x EXCEPT !.pc = "lockRegistration",
                                   !.registration = r, !.request = v])
       \/ /\ \A r \in Registration, v \in Request : ~Joined(r, v)
          /\ NothingFound(o, x)
    /\ OpenerReads

\* FOR UPDATE names no table: the registration is locked, then its request, and
\* only then is the row looked at again.
LockRegistration(o) ==
    /\ opening[o].pc = "lockRegistration"
    /\ Granted(o)
    /\ Opens(o, [opening[o] EXCEPT !.pc = "lockRequest"])
    /\ OpenerReads

Expired(x) == registration[x.registration].expires <= x.began

\* HasUsableRegistrationContinuation.
Usable(x) ==
    /\ registration[x.registration].continuation = "usable"
    /\ registration[x.registration].deadline > x.began

\* A manual request gives way to nothing that can still be finished by mail.
ManualReplaces(x) ==
    \/ ~Manual(x.registration)
    \/ Expired(x)
    \/ /\ request[x.request].status = "verified"
       /\ OpenRecoveries(x.registration) = {}
       /\ ~Usable(x)

\* A provider identity replaces a manual registration, and a social one only when
\* it has expired or was its own.
SocialReplaces(x) ==
    \/ Manual(x.registration)
    \/ Expired(x)
    \/ /\ registration[x.registration].identity = x.wants
       /\ request[x.request].status = "verified"

Replaces(x) ==
    CASE x.wants = "manual"   -> ManualReplaces(x)
      [] x.wants = "recovery" -> FALSE
      [] OTHER                -> SocialReplaces(x)

\* Eligible for recovery, and none is open.
Recovers(x) ==
    /\ x.wants = "recovery"
    /\ Manual(x.registration)
    /\ ~Expired(x)
    /\ request[x.request].status = "verified"
    /\ OpenRecoveries(x.registration) = {}

\* The lookup has both locks.
Looked(o) == opening[o].pc = "lockRequest" /\ Granted(o)

Found(o) == Looked(o) /\ Joined(opening[o].registration, opening[o].request)

\* The locks kept on rows that are not what was looked for are given up here.
LookupLost(o) ==
    /\ Looked(o)
    /\ ~Joined(opening[o].registration, opening[o].request)
    /\ NothingFound(o, opening[o])
    /\ OpenerReads

\* An existing request is handed back, or the call refused; nothing is written.
Keep(o) ==
    /\ Found(o)
    /\ ~Replaces(opening[o])
    /\ ~Recovers(opening[o])
    /\ Opens(o, IdleOpening)
    /\ OpenerReads

IdentityOf(w) == IF w \in Identity THEN w ELSE None

\* A registration and its request, both new, in place of the ones of old.
CreateRegistration(o, old, r, v) ==
    LET x == opening[o] IN
    /\ registration' = [q \in Registration |->
          IF q = r THEN NewRegistration(IdentityOf(x.wants), x.now + RegistrationLifetime,
                                        "none", 0)
          ELSE IF q \in old THEN [registration[q] EXCEPT !.status = "expired"]
          ELSE registration[q]]
    /\ request' = [request EXCEPT ![v] = NewRequest("registration", r)]
    /\ Opens(o, IdleOpening)
    /\ UNCHANGED << clock, code, account, issuing, verifying, finalizing >>

\* Faulty: a verified registration is replaced, whatever can still be done with it.
ReplaceVerified(o, r, v) ==
    /\ Found(o)
    /\ ~Recovers(opening[o])
    /\ Replaces(opening[o]) \/ request[opening[o].request].status = "verified"
    /\ CreateRegistration(o, {opening[o].registration}, r, v)

Replace(o, r, v) ==
    /\ Found(o)
    /\ Replaces(opening[o])
    /\ CreateRegistration(o, {opening[o].registration}, r, v)

\* The registration itself is left as it is.
OpenRecovery(o, v) ==
    /\ Found(o)
    /\ Recovers(opening[o])
    /\ request' = [request EXCEPT ![v] = NewRequest("recovery", opening[o].registration)]
    /\ Opens(o, IdleOpening)
    /\ UNCHANGED << clock, registration, code, account, issuing, verifying, finalizing >>

\* Faulty: nothing but the lookup keeps a second registration out.
InsertUnindexed(o, r, v) ==
    /\ opening[o].pc = "insert"
    /\ CreateRegistration(o, {}, r, v)

\* pending_registrations_email_idx.
Insert(o, r, v) ==
    /\ opening[o].pc = "insert"
    /\ Indexed = {}
    /\ CreateRegistration(o, {}, r, v)

\* The loser runs once more, in a transaction of its own.
InsertConflicts(o) ==
    /\ opening[o].pc = "insert"
    /\ Indexed # {}
    /\ Opens(o, IF opening[o].retried THEN IdleOpening
                ELSE [opening[o] EXCEPT !.pc = "find", !.retried = TRUE])
    /\ OpenerReads

-----------------------------------------------------------------------------
(* Issuing: issueVerificationCode and IssueVerificationCode                *)

Issues(i, x) == issuing' = [issuing EXCEPT ![i] = x]

IssuerReads == UNCHANGED << clock, rows, opening, verifying, finalizing >>

\* validateVerificationPending.
VerificationPending(v) ==
    /\ request[v].status = "pending"
    /\ Pending(request[v].subject)
    /\ clock < registration[request[v].subject].expires

CooledDown(v) ==
    request[v].lastSent # None => clock >= request[v].lastSent + Cooldown

BeginIssue(i, v) ==
    /\ Arrives(i)
    /\ VerificationPending(v)
    /\ CooledDown(v)
    /\ Issues(i, [IdleIssuing EXCEPT !.pc = "pick", !.request = v])
    /\ IssuerReads

\* BEGIN, and the subquery of InvalidateVerificationCode, which is not evaluated
\* again after a wait.
PickActive(i) ==
    LET x == [issuing[i] EXCEPT !.pc = "replace", !.began = clock]
        active == ActiveCodes(x.request)
    IN
    /\ issuing[i].pc = "pick"
    /\ \/ active = {} /\ Issues(i, x)
       \/ \E k \in active : Issues(i, [x EXCEPT !.old = k])
    /\ IssuerReads

\* The transaction (PasswordReset has its statements one by one): the code is
\* replaced, unless another one is active by now, and last_sent_at stamped. Its
\* expiry was read off the clock just before the transaction began.
IssueCode(i, new) ==
    LET x == issuing[i] IN
    /\ x.pc = "replace"
    /\ Granted(i)
    /\ ActiveCodes(x.request) \subseteq {x.old}
    /\ code' = [k \in Code |->
          IF k = new THEN [request |-> x.request, expires |-> x.began + CodeLifetime,
                           marks |-> {}]
          ELSE IF k = x.old THEN [code[k] EXCEPT !.marks = @ \cup {"invalidated"}]
          ELSE code[k]]
    /\ request' = [request EXCEPT ![x.request].lastSent = x.began]
    /\ Issues(i, IdleIssuing)
    /\ UNCHANGED << clock, registration, account, opening, verifying, finalizing >>

-----------------------------------------------------------------------------
(* Verifying: VerifyRegistration, CompleteVerification and                 *)
(* CompleteRecoveryVerification                                            *)

Verifies(x, y) == verifying' = [verifying EXCEPT ![x] = y]

VerifierReads == UNCHANGED << clock, rows, opening, issuing, finalizing >>

BeginVerify(x, v) ==
    /\ Arrives(x)
    /\ VerificationPending(v)
    /\ Verifies(x, [IdleVerifying EXCEPT !.pc = "read", !.request = v,
                                         !.registration = request[v].subject])
    /\ VerifierReads

\* GetActiveVerificationCode.
Readable(v) == {k \in ActiveCodes(v) : code[k].expires > clock}

ReadCode(x) ==
    LET readable == Readable(verifying[x].request) IN
    /\ verifying[x].pc = "read"
    /\ \/ \E k \in readable :
             Verifies(x, [verifying[x] EXCEPT !.pc = "match", !.code = k])
       \/ readable = {} /\ Verifies(x, IdleVerifying)
    /\ VerifierReads

\* The deadlines are computed and the transaction begins.
BeginCompletion(x) ==
    /\ verifying[x].pc = "match"
    /\ Verifies(x, [verifying[x] EXCEPT !.pc = "consume", !.began = clock])
    /\ VerifierReads

Spendable(y) == Active(y.code) /\ code[y.code].expires > y.began

Granting(y) ==
    [y EXCEPT !.pc = IF request[y.request].purpose = "recovery" THEN "replace" ELSE "grant"]

\* ConsumeVerificationCode and MarkVerificationRequestVerified. The purpose was
\* read with the request, and does not change while it is pending.
Consume(x) ==
    LET y == verifying[x] IN
    /\ y.pc = "consume"
    /\ Granted(x)
    /\ Verifies(x, IF Spendable(y) /\ request[y.request].status = "pending"
                   THEN Granting(y) ELSE IdleVerifying)
    /\ VerifierReads

ConsumedBy(x) ==
    code' = [code EXCEPT ![verifying[x].code].marks = @ \cup {"consumed"}]

\* The continuation is inserted and all is committed. Nobody asks whether the
\* registration is still pending.
Grant(x) ==
    LET y == verifying[x] IN
    /\ y.pc = "grant"
    /\ Granted(x)
    /\ registration[y.registration].continuation = "none"
    /\ ConsumedBy(x)
    /\ request' = [request EXCEPT ![y.request].status = "verified"]
    /\ registration' = [registration EXCEPT
          ![y.registration].continuation = "usable",
          ![y.registration].deadline = y.began + ContinuationLifetime]
    /\ Verifies(x, IdleVerifying)
    /\ UNCHANGED << clock, account, opening, issuing, finalizing >>

\* GetPendingRegistrationByIDForUpdate and what is refused after it.
Replaceable(y) ==
    /\ Pending(y.registration)
    /\ Manual(y.registration)
    /\ registration[y.registration].expires > y.began

Recovered(x, r, row) ==
    LET y == verifying[x] IN
    /\ y.pc = "replace"
    /\ Granted(x)
    /\ Replaceable(y)
    /\ ConsumedBy(x)
    /\ request' = [request EXCEPT ![y.request] = row]
    /\ registration' = [registration EXCEPT
          ![y.registration].status = "expired",
          ![r] = NewRegistration(None, y.began + RegistrationLifetime,
                                 "usable", y.began + ContinuationLifetime)]
    /\ Verifies(x, IdleVerifying)
    /\ UNCHANGED << clock, account, opening, issuing, finalizing >>

\* Faulty: the verified request stays with the registration that is replaced.
ReplaceUnassigned(x, r) ==
    Recovered(x, r, [request[verifying[x].request] EXCEPT !.status = "verified"])

\* The old registration expires, and the verified request and a continuation go
\* to the one that replaces it.
ReplaceRecovered(x, r) ==
    Recovered(x, r, [request[verifying[x].request] EXCEPT
                        !.status = "verified", !.purpose = "registration", !.subject = r])

-----------------------------------------------------------------------------
(* Finalizing: FinalizeManualRegistration and FinalizeSocialRegistration   *)

Finalizes(f, x) == finalizing' = [finalizing EXCEPT ![f] = x]

FinalizerReads == UNCHANGED << clock, rows, opening, issuing, verifying >>

\* validateRegistrationContinuation.
BeginFinalize(f, r) ==
    /\ Arrives(f)
    /\ registration[r].continuation = "usable"
    /\ clock < registration[r].deadline
    /\ Pending(r)
    /\ clock < registration[r].expires
    /\ Finalizes(f, [IdleFinalizing EXCEPT !.pc = "hash", !.registration = r])
    /\ FinalizerReads

\* The password of a manual registration is hashed, for as long as that takes.
BeginWrite(f) ==
    /\ finalizing[f].pc = "hash"
    /\ Finalizes(f, [finalizing[f] EXCEPT !.pc = "create", !.began = clock])
    /\ FinalizerReads

\* The user, its Unsorted collection and its credential or identity are inserted,
\* and the continuation consumed.
CreateUser(f) ==
    LET x == finalizing[f] IN
    /\ x.pc = "create"
    /\ Granted(f)
    /\ Finalizes(f, IF /\ account = None
                       /\ registration[x.registration].continuation = "usable"
                       /\ registration[x.registration].deadline > x.began
                    THEN [x EXCEPT !.pc = "complete"] ELSE IdleFinalizing)
    /\ FinalizerReads

\* Faulty: the number of updated rows is ignored.
CompleteUnchecked(f) ==
    LET x == finalizing[f] IN
    /\ x.pc = "complete"
    /\ Granted(f)
    /\ account' = x.registration
    /\ registration' = [registration EXCEPT ![x.registration] =
          [@ EXCEPT !.continuation = "consumed",
                    !.status = IF @ = "pending" THEN "completed" ELSE @]]
    /\ Finalizes(f, IdleFinalizing)
    /\ UNCHANGED << clock, request, code, opening, issuing, verifying >>

\* CompletePendingRegistration and the commit; without a row to complete, all of
\* it is rolled back (Abort).
Complete(f) ==
    LET x == finalizing[f] IN
    /\ x.pc = "complete"
    /\ Granted(f)
    /\ Pending(x.registration)
    /\ registration[x.registration].expires > x.began
    /\ account' = x.registration
    /\ registration' = [registration EXCEPT
          ![x.registration].status = "completed",
          ![x.registration].continuation = "consumed"]
    /\ Finalizes(f, IdleFinalizing)
    /\ UNCHANGED << clock, request, code, opening, issuing, verifying >>

-----------------------------------------------------------------------------
\* Every error is a rollback: a refusal of the budgets or of the password hasher,
\* a constraint, a row that is not as it must be, a deadlock, a connection.
Abort(p) ==
    /\ p \in Busy
    /\ opening' = [o \in Opener |-> IF o = p THEN IdleOpening ELSE opening[o]]
    /\ issuing' = [i \in Issuer |-> IF i = p THEN IdleIssuing ELSE issuing[i]]
    /\ verifying' = [x \in Verifier |-> IF x = p THEN IdleVerifying ELSE verifying[x]]
    /\ finalizing' = [f \in Finalizer |-> IF f = p THEN IdleFinalizing ELSE finalizing[f]]
    /\ UNCHANGED << clock, rows >>

Tick ==
    /\ clock < MaxClock
    /\ clock' = clock + 1
    /\ UNCHANGED << rows, calls >>

OpenerNext(o) ==
    \/ \E w \in {"manual", "recovery"} : BeginManual(o, w)
    \/ \E i \in Identity : BeginSocial(o, i)
    \/ Find(o)
    \/ LockRegistration(o)
    \/ LookupLost(o)
    \/ Keep(o)
    \/ \E r \in OneOf(NewRegistrations), v \in OneOf(NewRequests) : Replace(o, r, v)
    \/ \E v \in OneOf(NewRequests) : OpenRecovery(o, v)
    \/ \E r \in OneOf(NewRegistrations), v \in OneOf(NewRequests) : Insert(o, r, v)
    \/ InsertConflicts(o)

IssuerNext(i) ==
    \/ \E v \in Request : BeginIssue(i, v)
    \/ PickActive(i)
    \/ \E k \in OneOf(NewCodes) : IssueCode(i, k)

VerifierNext(x) ==
    \/ \E v \in Request : BeginVerify(x, v)
    \/ ReadCode(x)
    \/ BeginCompletion(x)
    \/ Consume(x)
    \/ Grant(x)
    \/ \E r \in OneOf(NewRegistrations) : ReplaceRecovered(x, r)

FinalizerNext(f) ==
    \/ \E r \in Registration : BeginFinalize(f, r)
    \/ BeginWrite(f)
    \/ CreateUser(f)
    \/ Complete(f)

Next ==
    \/ Tick
    \/ \E o \in Opener : OpenerNext(o)
    \/ \E i \in Issuer : IssuerNext(i)
    \/ \E x \in Verifier : VerifierNext(x)
    \/ \E f \in Finalizer : FinalizerNext(f)
    \/ \E p \in Call : Abort(p)

Spec == Init /\ [][Next]_vars

-----------------------------------------------------------------------------
(* Properties                                                              *)

RequestsOf(r) ==
    {v \in Request : request[v].subject = r /\ request[v].purpose = "registration"}

\* However registrations, recoveries and PINs cross, an address has one
\* registration that is pending or completed, a registration one recovery under
\* way (no index says so, only the registration's lock), a request one active code.
OneOfEach ==
    /\ \A r, q \in Indexed : r = q
    /\ \A r \in Registration : Pending(r) => Cardinality(OpenRecoveries(r)) <= 1
    /\ \A v \in Request : \A k, j \in ActiveCodes(v) : k = j

\* Every registration can be found through exactly one request of its own, the
\* ones a recovery has put in place included, and has earned a continuation
\* exactly when that request is verified: none is stuck, none is for free.
RegistrationsAreReachable ==
    \A r \in Registration : registration[r].status # "unborn" =>
        \E v \in Request :
            /\ RequestsOf(r) = {v}
            /\ request[v].status = "verified" <=> registration[r].continuation # "none"

\* The account is created once, by spending the continuation of a registration
\* that was verified, pending and in time, and from then on it is the one that
\* is completed: no recovery, replacement or second finalization takes it back.
AccountIsEarned ==
    \A r \in Registration :
        /\ account = r <=> registration[r].status = "completed"
        /\ account = r <=> registration[r].continuation = "consumed"

\* Nobody can cancel a registration that its owner can still finish. One that has
\* not expired is retired only by a recovery that was verified, for the other way
\* to register, by its own identity, or when nothing can be done with it any more.
RetirementIsJustified ==
    [][\A r \in Registration : registration'[r].status # registration[r].status =>
          \/ registration[r].status = "unborn"
          \/ Pending(r) /\ account' = r
          \/ Pending(r) /\ registration[r].expires <= clock
          \/ \E q \in Registration :
                /\ Pending(r)
                /\ registration[q].status = "unborn" /\ registration'[q].status = "pending"
                /\ \/ registration'[q].continuation = "usable"
                   \/ Manual(r) /\ registration'[q].identity # None
                   \/ ~Manual(r) /\ registration'[q].identity \in {None, registration[r].identity}
                   \/ /\ OpenRecoveries(r) = {}
                      /\ \A v \in RequestsOf(r) : request[v].status = "verified"
                      /\ registration[r].continuation = "consumed"
                            \/ registration[r].deadline <= clock]_vars

Deadlocked(T) == \A p \in T : \E q \in T : WaitsFor(p, q)

\* The only deadlock is between an opening call, which locks a registration and
\* then its request, and the verification of that request, which marks it and then
\* shares the registration through the continuation's foreign key. A recovery
\* verification, which locks the registration outright, is never part of one.
DeadlocksAreOpenVsVerify ==
    \A T \in SUBSET Busy : T # {} /\ Deadlocked(T) =>
        \E o \in Opener \cap T, x \in Verifier \cap T :
            /\ opening[o].pc = "lockRequest" /\ verifying[x].pc = "grant"
            /\ opening[o].request = verifying[x].request

(***************************************************************************)
(* The statements implement the single steps of Enrolment.                 *)
(***************************************************************************)
Promise == INSTANCE Enrolment WITH
    Lifetime      <- RegistrationLifetime,
    RightLifetime <- ContinuationLifetime,
    now           <- clock,
    standing      <- [r \in Registration |-> registration[r].status],
    owner         <- [r \in Registration |-> registration[r].identity],
    deadline      <- [r \in Registration |-> registration[r].expires],
    right         <- [r \in Registration |-> registration[r].continuation],
    limit         <- [r \in Registration |-> registration[r].deadline],
    recovering    <- [r \in Registration |-> OpenRecoveries(r) # {}]

ImplementsEnrolment == Promise!EnrolmentSpec
=============================================================================
