# stash-it-backend: formal verification

TLA+ models of the Stash It backend (a Go API and a Go worker over PostgreSQL
and Redis), the TLC runs that check them, and TLAPS proofs of the properties
that matter most. Paths below are relative to the repository's root; `src/`
stands for it.

Run a model with `tlc -config <cfg> <module>` and a proof with
`tlapm <module>.tla` in this directory.

## 1. Inventory

| Component | State it keeps | Operations | What is hard about it |
|---|---|---|---|
| Sessions (`internal/api/auth/session`) | `sessions`, `refresh_tokens` | create, refresh (rotate), logout, revoke one, list, clean up | rotation against rotation, reuse detection, revocation seen while waiting for locks, expiry boundaries, a cleanup that deletes under foot |
| Password reset (`internal/api/auth/password_reset`) | `pending_password_resets`, verification requests and codes, continuations, `password_credentials` | open, issue or resend a PIN, verify, finalize | two openings meeting on a partial index, a PIN replaced while it is verified, a reset that expires while the password is hashed |
| Registration (`internal/api/auth/registration`) | `pending_registrations`, verification requests and codes, `users`, `auth_identities` | manual and social opening, recovery, PIN, verify, finalize | the same, plus recovery of a verified registration while its first continuation is still usable |
| Login (`internal/api/auth/login`) | reads credentials and identities, creates sessions, link confirmations, a failure budget in Redis | password login, Google login, confirm a link | what was verified before seconds of hashing and used after; two links of one identity; a budget charged first and given back later |
| User (`internal/api/user`) | `users`, `password_credentials` | profile, set or change the password | a change that loses a race must neither overwrite nor sign anybody out |
| Saved items (`internal/api/saved_item`) | `saved_items` | save, read, list, delete | a save commits before its enrichment task is queued |
| Collections (`internal/api/collection`) | `collections` | list, file an item, delete with disposition | filing and deletion lock nothing they have read; deadlock; name uniqueness |
| Enrichment (`internal/worker/enrichment`, `internal/api/enrichment`) | `saved_items.enrichment_status` and metadata | fetch and record, from the queue or on demand | at-least-once delivery, retries, two writers of one status |
| Organization (`internal/worker/organization`) | `saved_items.collection_id`, `collections` | file an enriched item under its platform | must not override a user's own filing |
| Queue (`internal/worker/queue`, `cmd/worker`) | Asynq tasks in Redis | enqueue, deliver, retry, archive | nothing is enqueued atomically with a row |
| Rate limits (`internal/ratelimit`) | Redis counters and sorted sets | fixed window, sliding window, release | windows and clocks, repeated scripts |
| PIN e-mail budgets (`internal/email`) | two sliding windows | reserve per address, reserve globally, refund | which failures may be refunded |
| Password work limiter (`internal/security/password_work.go`) | a count and a wakeup channel per process | acquire, release | lost wakeups, slots returned twice |
| Pagination (`internal/pagination`) | none (cursors) | encode, decode, page | a walk over rows that move |
| HTTP surface, configuration, logging, validation, crypto, extraction | none | | stateless or pure |

How they interact. The API and the worker share the database: a save commits an
item in the user's Unsorted collection and then enqueues enrichment; enrichment
records metadata and then enqueues organization; organization, the move endpoint
and collection deletion contend for the same item and collection rows. Login,
registration and password reset create and revoke sessions, which refresh and
cleanup then work on. Registration and password reset draw on the same PIN
e-mail budgets. Password hashing everywhere goes through one limiter per process.

What makes each component correct, in short:

* **Sessions**: one usable refresh token per session at any time; a token used
  twice kills its session; a dead session stays dead; what a refresh decided is
  still true when it commits; everything ends.
* **Password reset**: one pending reset per account and one active code per
  reset; a code is accepted at most once and never after it was replaced; a
  verification earns one continuation, which writes one password; a reset ends in
  one way, and is completed only in time.
* **Registration**: one registration per address that is pending or completed; an
  account is made once, by a verified registration; a verified registration can
  always be finished or recovered; nothing is given up without a reason.
* **Sign-in**: an identity opens an account only through its own confirmation; a
  password is replaced only by whoever verified it; sessions are evicted only by
  a change that took place; failures stay within their budget.
* **Filing**: every item is in an existing collection; nobody's decision is
  overtaken between read and write; a removal takes exactly what is in the
  collection; names are unique; the whole equals single-step moves.
* **Pipeline**: an item that says pending is explained by a task; one that the worker
  completed is handed over, or another attempt overtook it; late and repeated attempts
  harm nothing; the work ends.
* **PIN budgets**: never exceeded in any window, whatever is refunded or lost; a
  message that may have left keeps its place; one that did not gives it back.
* **Password work**: never more derivations than slots, no slot lost or shared,
  nobody sleeps next to a free slot, every wait ends.

## 2. Modules

| Module | Role |
|---|---|
| `Sessions`, `SessionsProof` | refresh, logout, revocation, a reset's revoke-all and cleanup, at row-lock granularity |
| `SessionAuthority` | what sessions promise: an atomic credential per session |
| `PasswordReset`, `PasswordResetProof` | opening, PINs, verification and finalization of one account's resets, at statement granularity |
| `Recovery` | what a reset promises its owner: one reset, one PIN, one grant, each step atomic |
| `Registration`, `RegistrationProof` | openings, recovery, PINs, verification and finalization for one address, at the granularity of the statements that can wait |
| `Enrolment` | what registration promises the owner of an address: registrations that begin, are earned, recovered and completed, each step atomic |
| `SignIn`, `SignInProof` | sign-in with a password or with Google, account linking, setting a password |
| `Filing`, `FilingProof` | saving, filing, organizing and deleting collections, at statement granularity |
| `Shelving` | what filing promises: single-step moves between labelled collections |
| `Enrichment`, `EnrichmentProof` | an item's way from its save through the queue to its collection |
| `PinBudget`, `PinBudgetProof` | the PIN budgets, the scripts that keep them and the calls that spend them |
| `PasswordWork`, `PasswordWorkProof` | the password work limiter, one critical section or channel operation per step |
| `MC...` | symmetry sets, and the filed items `filing_crossing` starts from; the instances are in the `.cfg` files |

A module states what a component's transactions do to each other. Where two
components meet, one of them is modelled statement by statement and appears in
the other as a single step: a reset's revoke-all is part of `Sessions`,
organization's transaction is in `Filing` and one step of `Enrichment`, the
budget of a PIN is a refusal (`AbortCall`, `Abort`) of `PasswordReset` and
`Registration`, the wait for a derivation is the time between two steps.

Definitions whose comment starts with *Faulty*, or that stand before the
definition they resemble without being used, are not part of any specification.
They are plausible errors of the code, and each property is known to fail under
one of them.

### Sessions

State: the two tables (rows are `unborn`, `live` or `deleted`), the holder of
each row lock, and the local state of each transaction. A transaction's writes
are applied by its commit step: before that the rows are locked, so no other
writer can act on them.

* `POST /auth/refresh` is `BeginRefresh`, `LockToken`, `LockSession` (the order
  in which `FOR UPDATE OF rt, s` locks), `Decide`, and either `CommitRotation`
  or `CommitRevocation`. `RefuseRevoked` and `TokenMissing` are the early
  returns, `AbortRefresh` is any error before the commit. A commit whose
  response is lost is a rotation whose new token is not in `delivered`.
* `CreateSession`, `Logout` and `RevokeSessionForUser` are single statements.
* The password reset's revoke-all is `BeginReset` (the statement's snapshot),
  `ResetVisits` (waits for each row and re-checks it) and `CommitReset`.
* `CleanupSessions` is `StartCleanup`, `SelectBatch` (`FOR UPDATE SKIP LOCKED`),
  `CascadeLocks` (the `ON DELETE CASCADE` waits for the tokens), `CommitBatch`.
* `ResolveDeadlock` is PostgreSQL's detector.

Abstractions: one clock for the database and the API host; hashes are token
identities; rate limits and the HTTP envelope are left out. `clock` stops at
`MaxClock`, identities run out.

### PasswordReset

State: the four tables for one account (a verification request is part of its
reset), which continuation's password is stored, and the local state of each
concurrent request. Locks are read off those states: `HoldsReset`,
`HoldsRequest`, `HoldsCode`, `HoldsCredential`; `ClaimsPending` and `ClaimsActive`
are the waits on the two partial unique indexes; `WaitsFor` collects them all with
the foreign keys' `FOR KEY SHARE`.

* `POST /auth/password-reset`: `BeginOpen` (the unlocked lookup), `FindPending`,
  `LockReset`, `LockRequest`, `InsertReset` or `InsertResetConflicts` (one retry),
  `CommitOpen`.
* Creating and resending a PIN: `BeginIssue` (request pending, cooldown elapsed),
  `PickActive` (the subquery's choice), `Invalidate`, `InsertCode` or
  `InsertCodeConflicts`, `CommitIssue`.
* Verifying: `BeginVerify`, `ReadCode` (with the right or a wrong PIN),
  `CountWrong`, or `BeginCompletion`, `Consume`, `Mark`, `CommitVerification`.
* Finalizing: `BeginFinalize`, `BeginWrite` (the password has been hashed),
  `Spend`, `Complete`, `CommitFinalize`.
* `AbortCall` is every error before a commit, refused budgets and a busy hasher
  included.

A transaction's `NOW()` is its start (`began`); expiries are computed from the
Go clock (`now`); both are readings of one `clock`. The placeholder answer for an
address without an account changes nothing and is left out.

`ImplementsRecovery` maps the rows to `Recovery`: the active code of a reset is its
`pin`, the continuation that names it is its `grant`. Each of the four commits is
one step there (`Opened`, `Sent`, `Granted`, `Completed`), the count of wrong PINs
and most of the statements before a commit are none. The exceptions are the
statements that look at an expiry: a code is `presented`, and a completion is being
tried (`trying`), while a transaction that began in time works on it. `Granted` and
`Completed` are for those only, so a request that met the deadline may commit after it
and one that missed it may not. In the code a continuation and a reset both live
fifteen minutes and the reset is the older one, so the continuation's expiry never
decides anything alone; the instance and the proof let the two differ.

### Registration

State: registrations (each with its identity, if it is social, and its
continuation), verification requests of both purposes, codes, and the
registration that became the account; per kind of endpoint the requests under
way. Once a transaction has its last lock, its remaining statements and its
commit are one step, which is what keeps the module smaller than `PasswordReset`.

* Opening: `BeginManual` (a `Registration` or a recovery), `BeginSocial`, `Find`,
  `LockRegistration`, then what is found decides: `LookupLost`, `Keep`,
  `Replace`, `OpenRecovery`, `Insert` or `InsertConflicts` (run again once).
* `BeginIssue`, `PickActive`, `IssueCode`: create or resend a PIN.
* `BeginVerify`, `ReadCode`, `BeginCompletion`, `Consume`, `Grant`: a
  registration is verified; a recovered one is replaced by a new row that takes
  over its continuation.
* `BeginFinalize`, `BeginWrite` (after the hash), `CreateUser`, `Complete`.
* `Abort` is any error before the commit.

Left out: wrong PINs (counted in the same table as in `PasswordReset`), mail and
budgets (`PinBudget`), the hash (`PasswordWork`), the session of a social
finalization (`Sessions`).

`ImplementsEnrolment` maps the rows to `Enrolment`: status, identity, expiry and
continuation become a registration's `standing`, `owner`, `deadline` and `right`,
and a pending recovery request says that it is `recovering`. `Insert` is `Entered`,
`Replace` is `Replaced`, whose reasons are stated there without requests
(`GivesWay`), `Grant` is `Earned`, `OpenRecovery` and `ReplaceRecovered` are
`RecoveryOpened` and `Recovered`, `Complete` is `Completed`. PINs are left out:
`Recovery` has them.

### SignIn

State: one credential per account, the identities, the link confirmations, the
sessions, per address the counter of its failed sign-ins in Redis, and the
requests under way. `via` and `by` of an identity and `spent` and `astray` of a
counter are history.

* Password: `Charge` (one atomic script), `ReadPassword` (and the comparison with
  what was read), `Release`, `CreateSession`. `ChargeInVain` is a charge that is
  refused or whose answer is lost; `ReleaseUnheard` a release the client library
  sends again; `WindowEnds` the counter's expiry.
* Google: `FindIdentity`, `MatchAddress` (opens a confirmation),
  `CheckConfirmation` (an unlocked read), `LockConfirmation`, `InsertIdentity`,
  `CommitLink`.
* Password change: `LoadPassword` (current password verified, new one hashed),
  `InsertPassword` for an account without one, or `UpdatePassword` (the
  predicate carries the hash that was verified), `RevokeSessions`,
  `CommitPassword`. A reset's last transaction is `RewritePassword` and the same
  two steps.
* `GiveUp` is an error, a cancellation or a crash anywhere.

### Filing

State: one user's `saved_items` and `collections`, and the local state of the
filing (`PUT /saved-items/{id}/collection`), organizing (worker) and removing
(`DELETE /collections/{id}`) transactions. Locks are read off those states:
who holds an item (`HoldsItem`), whose foreign key check shares a collection
(`Shares`), who is deleting one (`Deleting`), who has an uncommitted name
(`Claims`). What a request answers is the branch by which it ends, and only the rows
remain of it. `Platform` are the names that pages can be of; `MaxConcurrent` bounds
how many transactions are open at once and is read by the actions that begin one.

* Filing: `BeginPut`, `LockItem`, `Insert` / `InsertConflicts`, `Lookup`,
  `AlreadyThere` / `Move`, `CommitFiling`.
* Organizing: `BeginOrganize` (the statement's snapshot), `OrganizeMissing` /
  `OrganizeDecides` (after the wait for the row), `Find`, then as above.
* Removing: `BeginRemoval`, `LoadSource`, `LoadTarget`, `BeginDispose`,
  `Dispose` (one row at a time, waiting and re-checking), `EndDispose` (foreign
  key check of the moved rows), `DeleteRow`, `RestrictRefuses` /
  `CommitRemoval`.
* `Save`, `DeleteItem` and `Enrich` are single statements of other requests.

A name is a model value: the value the index `lower(btrim(name))` compares.

### Enrichment

State: per item its row, its enrichment task, and per delivery of that task (a
*run*, numbered by the retry count) the handler's progress and the organization
task it queued; the on-demand calls. Rows are in PostgreSQL and tasks in Redis,
and no transaction spans the two: between any two steps the process may die.

* `Save`, then `EnqueueEnrichment`, which may fail.
* `Deliver`, `Load`, `Fetch` (a choice of outcomes), `RecordNothing` /
  `RecordSucceeds` / `RecordFails`, `Schedule`, `Report`. `LeaseExpires` gives the
  task to another run while the first may still be working, or has died
  (`WorkerDies`).
* `Organize`, `OrganizeNothing`, `OrganizeReserved`, `OrganizeFails`: the
  organization task, one step here. `OrganizeReserved` is the error that archives the
  task: for a reserved name, and for a collection whose name conflicted and which was
  gone when it was looked up.
* `BeginDemand`, `LoadDemand`, `FetchDemand`, `RecordDemand`: enrichment on
  demand, which writes the same row and hands nothing over. `MoveByUser` and
  `Delete` come at any time.

Left out: the length of the retry delays, and the requeue of a graceful shutdown
that is not counted as a retry. Both queues use one delay function, because the
server installs `EnrichmentRetryDelay` for both (`src/cmd/worker/main.go`); the
organization's own constants are unused.

### PinBudget

State: the most advanced clock, per budget the members of its sorted set with
their scores, whether its key has an expiry, and the calls. The two scripts are
atomic, but their answers may be lost, and the client library then runs a script
again with the same arguments; a script runs within `Lag` of the moment its host
read from its own clock.

* `Begin`, `Reserve` / `ReserveUnheard` on the address's budget and then on the
  deployment's, `Issue` (the transaction that stores the code), `Deliver`,
  `Refund` (only of the deployment's place, only if no message can have left),
  `Abandon`.

### PasswordWork

State: `held`, whether a wakeup is buffered in `changed`, and where each caller
is. `tryAcquire`, the decrement and the channel send are separate steps. The
request's context and the timer are observed only by the `select`; a
cancellation between two iterations is therefore placed at the next one.

## 3. Runs

Deadlock checking is off where requests may stop arriving or identities run out,
and on for `password_work`.

| Run | Instance | Distinct states | Shows |
|---|---|---|---|
| `sessions_rotation` | 1 session, 3 tokens, 2 refreshes, 1 reset, 1 cleanup, clock 0..2 | 435,843 | one credential per session; decisions hold until the commit; a token presented after its replacement closes its session; activity never rewinds; implements `SessionAuthority` |
| `sessions_contention` | 2 sessions, 2 tokens, 2 refreshes, 2 resets, 1 cleanup of 2 batches of one | 1,154,965 | every deadlock is refresh against cleanup; the dead stay dead; a reset covers what it saw |
| `sessions_liveness` | 1 session, past its absolute lifetime from the start, fair | 39,724 | every refresh, reset and cleanup ends |
| `filing_creation` | 2 items, 3 collections, 3 names, one filer, organizer and remover | 1,351,890 | unique names; decisions hold; a removal takes exactly the contents; no deadlock without a deletion; implements `Shelving` |
| `filing_crossing` | 2 items, each filed in a collection of its own, and Unsorted; 1 filer, 2 removers, at most 2 at once, fair | 239,858 | every transaction ends, also when two deletions move their items into each other's collection |
| `password_reset` | 2 resets, codes and continuations, 3 requests, limits and lifetimes of one (a continuation's two), clock 0..1 | 633,321 | one pending reset, one active code; one verification; replaced codes are dead; a reset ends once and is completed in time; every deadlock is opening against verifying; implements `Recovery` |
| `registration` | 2 registrations, 2 codes, 3 requests of openers, issuer, verifier and finalizer, at most 2 at once, clock 0..2 | 1,625,996 | one of each; every live registration can be reached; nothing is retired without a reason; every deadlock is opening against verifying; implements `Enrolment` |
| `sign_in` | 2 calls, 1 account, 2 Google subjects, 2 confirmations, 2 sessions, limit 1, 2 charges in one window, 1 stray release | 864,441 | links are earned; failures are bounded; a change replaces what it verified; evictions come with the change |
| `enrichment` | 1 item, 1 on-demand call, each task retried once, fair | 461,218 | pending is explained; completed is handed over or overtaken; late work does no harm; the work ends |
| `pin_budget` | 3 calls, 2 addresses, maxima of one, window 3, lag 1, clock 0..5 | 2,108,590 | mail stays in its budget and keeps its place; what was not sent is given back |
| `password_work` | 3 callers, 1 slot, fair | 24,162 | slots are owned; nobody sleeps beside an idle limiter; every call is answered |
| `password_work_wakeup` | 4 callers, 2 slots | violation | a wakeup is lost (below) |

Why these bounds are enough for the questions:

* Rotation hazards need two requests on one session and a token older than its
  replacement. Cleanup hazards need one session that dies while another is being
  refreshed, and a second batch. In `sessions_liveness` cleanup meets the refresh
  on every path without a clock.
* Filing hazards need two transactions that create one name, an item that arrives
  in a collection while it is being removed (`filing_creation`), and two removals that
  target each other's collection (`filing_crossing`, where Unsorted cannot be removed
  and the two others are there from the start, each with an item: `FiledInit`). A cycle
  of two is the shortest one and needs nobody else, hence two at once
  (`MaxConcurrent`) where liveness is checked.
* Reset and registration hazards need an expired row and its successor, a code and
  its replacement, and three requests: two that race and one that changes what both
  have read. With limits and lifetimes of one each boundary is before, on and
  after the clock; a continuation lives for two, so that a reset can expire first. `MaxCalls` keeps two registration requests in flight; a third
  starts when one has ended, which is enough to change what the other has read.
* Two subjects and two confirmations for one account are the fewest with which a
  confirmation can be redeemed by somebody else. A limit of one makes every
  second attempt the one too many.
* A redelivery needs one retry, and a redelivered run beside the first one.
* With a maximum of one, a window of three and a lag of one, two messages one
  window apart, on a script that was late, are the shortest violation a sliding
  window can have.
* A lost wakeup needs two waiters and two slots.

Identities are interchangeable, so the safety runs use symmetry; the liveness
runs do not. The proofs of section 5 lift
the safety results to every instance.

### Disagreements between the code and what is said of it

`password_work_wakeup` is kept as a run: the comment at
`src/internal/security/password_work.go:233` says that dropping a wakeup "cannot
lose a wakeup". With two slots, two releases may leave one buffered wakeup, and
one waiter then sleeps beside a free slot until it times out. With one slot (the
default) none is lost, and with any number nobody sleeps beside a limiter that is
idle altogether: `password_work` checks `NobodySleepsBesideIdle`, which with one
slot is the comment's claim, and `PasswordWorkProof` proves both.

The others the models follow, and no run is spent on them:

* *Session lock order.* `auth-sessions.md` says that no cycle exists. A refresh
  locks token then session; cleanup locks the session and its cascade then the
  tokens. `DeadlocksAreRefreshVsCleanup` says that this is the only cycle; it costs
  a retry.
* *Reset against sign-in.* The same document says that a reset revokes every
  session. One inserted while the revoke-all statement runs is not in its snapshot
  and survives. `ResetCoversWhatItSaw` says what is covered. In the same way a
  sign-in whose password was verified before a change can open its session after
  it.
* *Filing.* A comment in `src/internal/api/collection/queries.sql` says that the
  deletion cannot deadlock against the move endpoint. Item and collection locks
  cross through the foreign key check; the detector ends one of the two.
  `DeadlocksNeedADeletion` says what is true: without a deletion nothing deadlocks.
* *Sliding window.* `src/internal/ratelimit/sliding.go` and an integration test
  say that the key's expiry is set again on every call. `PEXPIRE` precedes
  `ZADD` and does nothing for a key that does not exist: after a first
  admission the key has no expiry until the next call. It costs one member per
  subject at most (`LoneMembersLinger`). "Any twenty-four-hour
  stretch" holds up to the lag between a host's clock and the script
  (`MailStaysInBudget`). A script that the client library repeats finds its own
  member and may report a refusal of what it has recorded.
* *Failure budget.* The comments in `src/internal/ratelimit/limiter.go` assume
  that a release returns the caller's own charge. A release that is late, or sent
  twice, takes back another's: `GuessesAreBounded` holds up to the number of such
  releases (`astray`).
* Smaller ones: cleanup's `absolute_expires_at <= NOW()` against refresh's `After`
  at the exact instant; two distinct tokens of one session do not both rotate, because
  one is already replaced; `BacklogCapped` is also true after a short last permitted
  batch; the organizer's reserved-name error can also mean a collection deleted after
  its name conflicted, and archives the task all the same; "no row" can also mean an item moved during the lock wait; a cancelled
  request may still start a derivation when a wakeup is ready at the same time; wrong
  PINs whose requests all read the code below its limit are all compared, and only
  the count stops at the limit.

## 4. Fairness

* `Sessions`, `Filing`: a transaction whose next statement can run runs it; a
  row lock that keeps becoming free is granted in the end, because PostgreSQL
  queues its waiters (strong fairness of the locking steps); the deadlock
  detector breaks every cycle. Nothing is assumed of clients, of the job
  scheduler, of the clock or of failures.
* `PasswordWork`: goroutines are scheduled, derivations end, timers fire, and a
  `select` that finds its timer ready again and again takes that case in the end
  (its choice is uniform). The cancelled and the wakeup cases need none.
* `Enrichment`: a worker is running. Queued tasks are delivered, handlers go on,
  leases of dead workers run out. Nothing is assumed about pages, the database or
  the queue accepting a task.
* `PasswordReset`, `Registration`, `SignIn`, `PinBudget` are checked for safety
  only and assume none.

Identities are finite in an instance: a rotation or an insert that finds none
left fails (`RotateOrRunOut`, `RunsOut`), which keeps that artefact out of the
liveness results.

## 5. Proofs

For every value of the constants, checked by TLAPS. Every named `ASSUME` is in
the module that declares the constants and is evaluated by that module's runs.

| Module | Proved | Assumed of the constants |
|---|---|---|
| `SessionsProof` | `TypeCorrect`, `OneCredential`, `LocksHeld`, `DecisionsStand`, `DeadSessionsStayDead`, `ResetsAreComplete`, `ActivityAdvances`, `DeadlocksAreFew`, `ReuseCloses`, `Refinement` to `SessionAuthority` | lifetimes are naturals, batch sizes positive, identities distinct, something to identify |
| `PasswordResetProof` | `TypeCorrect`, `OneResetOneCode`, `VerifiedAtMostOnce`, `ReplacedStaysDead`, `ResetsEndOnce`, `LiveResetsAreKept`, `CompletionsAreInTime`, `PasswordIsEarned`, `CooldownAdvances`, `DeadlocksAreFew`, `Refinement` to `Recovery` | the limit of wrong PINs is positive, lifetimes and the bound on the clock are naturals, `None` is no row and no time |
| `FilingProof` | `TypesHold`, `NamesStayUnique`, `DecisionsStand`, `RemovalIsExact`, `DeadlocksInvolveADeletion`, `Refinement` to `Shelving` | Unsorted exists, pages are of names, `None`, `"unsaved"` and `"gone"` are no collections, kinds of transactions are disjoint |
| `SignInProof` | `TypeCorrect`, `LinksAreAlwaysEarned`, `GuessesAreAlwaysBounded`, `ChangesReplaceWhatTheyVerified`, `EvictionsComeWithTheChange` | the limit is positive, bounds are naturals, `None` is none of the values |
| `EnrichmentProof` | `TypeCorrect`, `TasksAreCommittedFirst`, `PendingIsAlwaysExplained`, `CompletedIsAlwaysHandedOver`, `LateWorkIsHarmless` | retry limits are naturals, identities distinct |
| `PinBudgetProof` | `TypesHold`, `MailIsBounded`, `MailIsKept`, `UnsentIsReturned`, `EntriesLeave`, `LoneMembersLinger` | maxima are positive, the lag is shorter than the window |
| `RegistrationProof` | `TypeCorrect`, `RowsAreUnique`, `NoneIsStuck`, `AccountsAreEarned`, `RetirementsAreJustified`, `DeadlocksAreFew`, `Refinement` to `Enrolment` | bounds are naturals, `None` is none of the values, identities are neither `"manual"` nor `"recovery"`, the roles of calls are disjoint |
| `PasswordWorkProof` | `TypeCorrect`, `SlotsOwned`, `NobodySleepsAlone`, and `WakeupsSuffice` for a limit of one | a finite set of callers, a positive limit |

**Sessions.** `OneCredentialPerSession` is not inductive: a rotation preserves it
only because the token it replaces is still unreplaced when it commits, which
holds because the refresh still has the lock it decided under. `Inv` therefore
joins three parts: per request (`RequestInv`: after each lock is taken, it is held,
the rows exist, and the decision is true), per cleanup (`CleanerInv`: the batch is
locked and live) and per session (`SessionInv`: a live session has one unreplaced
token, others have no token). Each action disturbs one transaction's part and the
rows it writes; the lemmas `SameRequest`, `SameCleaner` and `SameRows` carry the
rest. `Refinement` then maps a step to creation, rotation, a set of closings, or a
stutter. Three more parts serve the other properties. `HoldersKnown` is the converse
of the locks, whoever holds a row is at a statement after it took it, so a chain of
waits can be followed: a cycle always reaches a cleanup whose token is held by a
refresh that waits for it. `ResetsKnown` says that resets of one user take turns and
that each session a reset has visited is closed by it, locked by it, or was dead.
`ActivityKnown` says that a refresh whose token can still be rotated began no earlier
than its session's last activity. `ReuseCloses` needs one more invariant about rows,
`TokensGoWithSessions`: a token is deleted only together with its session. A refresh
that holds its token's lock finds it replaced and commits the revocation; one whose
token is gone while it waited, or whose session is revoked, answers with a session
that is closed already.

**Password reset.** What a request checks, it checks statements before it commits;
`Inv` says which of it is still true. Per request: the reset it locked is still
pending and, if it means to replace it, still expired (`ResetPart`); the row it
inserted has its index entry to itself (`FreshPart`); the code it picked is still
that reset's, and still active once locked (`CodePart`); the continuation it locked
is still unused (`TokenPart`). Per pair of requests (`Apart`): no row lock and no
index entry is held by both. Steps that change no row disturb only their own
request's part (`CallStep`). A commit changes rows, and every other request relies
only on rows that the committing one does not hold; one lemma per commit says what
it does to the rows and one that the others' parts survive. The cooldown needs a
part of its own (`CooldownPart`): the time written is that of the transaction's
start, so one that waited could move the cooldown back, except that it then finds
an active code other than the one it invalidated, left by whoever moved the
cooldown forward, and its insert fails on the partial unique index. Deadlocks: a
caller waits for a code, a continuation, the account or a reset's row, and whoever
holds those waits for something later in that chain, until a call that waits for the
reset itself; an insert of a reset is no way out of it, as one reset is pending.
`Refinement` reads `Recovery` off the rows: one code is active and one continuation
names a reset, so each is the only one (`PromiseRead`), and each commit replaces or
adds exactly that one. `Inv` says nothing about clocks; that a new expiry is at most a
lifetime ahead needs that no call has read a time later than the present
(`Punctual`). An expiry is compared with the time the transaction began, and from then
on both rows are locked, so what was in time when it was checked is what the commit completes
(`CompletionsAreInTime`, a part of `ResetsEndOnce`, and the same for `presented` and
`trying`). That a resend never moves the cooldown of an unverified reset back is
`CooldownPart` again. The password's origin, `PasswordIsEarned`, follows from `Inv` as
well; the run checks it as a part of the refinement.

**Registration.** Rows are written by many calls, but each of them only grows
(`Grown`): a verified registration stays verified, a retired one stays retired, so
what a call has read of another row it can only find later. The exception is a
request under verification, which can be reset, and it is held by one verification
at a time (`HoldersAreApart`). An account, its registration's completion and the
consumption of its continuation appear together, and the index on the e-mail address
leaves one account for it. A cycle of waits leads within three steps to an opening
call that waits for a request's row, held by a verification that waits in its turn;
one that replaces a registration holds a recovery's request, which no opening call
locks, so it is one that waits to share the registration. `Refinement` adds two
facts about calls and rows (`Backed`): no call has read a time later than the
present, so what has expired for it has expired for the owner, and a recovery is for
a registration that was verified. A replacement is then a `Replaced` whose reason is
one of `GivesWay`: the request is verified exactly when the continuation was granted,
and one that was spent belongs to a completed registration, so a pending registration
whose continuation is not usable has outlived it. A recovery that commits was the only
one under way, so the old registration is no longer `recovering` afterwards. An account
is made from nothing, as its owner would be a second registration next to the pending
one. `AccountIsEarned` and the types are stated by theorems only; the first follows
from the refinement's steps, which the run checks.

**Filing.** No lock is taken on a collection that a request merely looks up, so
what has been read of it may be false until a foreign key check shares its row.
`FilingPart` and `RemovalPart` say what is true from which statement on: a held
item is live (and still in Unsorted, when it is being organized), an uncommitted
collection has its identity and its name to itself, the destination of a move that
passed its check exists and nobody is deleting it, a deletion holds what it has
taken, and its own row. `ItemsAreApart`, `ClaimsAreApart` and `DeletionsAreApart`
say that no two transactions hold the same. Steps that write no row may only gain
what is free (`Gains`, `Takes`); a commit changes only what it holds. That a
removal leaves nothing behind is the meeting of two facts: `RESTRICT` found no
item beyond those taken, and nothing is filed into a collection whose row is being
deleted. Then each commit is one step of `Shelving`, and a deadlock's victim none.
Deadlocks: one that has created a collection has a row nobody else has seen, and
waits for nobody (`ClaimantsDoNotWait`). So one that holds its item waits, if it is
part of a cycle, for a deletion that has taken a collection's row
(`HoldersWaitForDeletions`); and one that is still waiting for its item holds nothing
that anybody waits for. A cycle of filings and organizations would need a holder that
waits for another one, and there is none.

**Sign-in.** A redemption has its confirmation to itself from the moment it reads
it under the row lock (`LinksAreExclusive`), so what it checked is true when it
commits (`LinksAreChecked`). A password change carries the hash it verified in the
predicate of its `UPDATE`, and a hash is written once (`HashesAreNew`), so a row
that still has it was not changed in between (`PasswordsAreHeld`). Failures:
pending attempts never exceed the charges of their window that are not given
back, and these never exceed what the counter shows plus what strays took from it
(`ChargesAreCounted`).

**Enrichment.** A delivery's number is used once (`RunsTakeTurns`), so a run writes
its row once and queues at most one organization, and an organization task names
the run and the item it came from (`HandoversComeLast`, `SourcesAreTheirRuns`). What a
run queued an organization for had a platform (`SourcesHavePlatforms`), and while the
row still names that run as its source, only a failed attempt can have changed it
(`SourceStays`). So an organization that finds nothing to do, in an item nobody moved,
was overtaken by a failure or by another success. A
verdict that ends the task comes after a record of the attempt, or after finding no
row (`VerdictsAreRecorded`): this is why an item that says pending still has a task
or was never queued.

**PIN budgets.** Scores are readings of hosts' clocks, the members of a window are
counted by a script that may run up to `Lag` later, and prunes what is a window old
by its own reading. The invariant (`PlacesAreKept` and its companions) says that
what a call recorded stays in the set until a window has passed by some reading, so
that the members at any admission include every message of the last `Window - Lag`.
A refund removes only the member of its own call, which is why an unsent message
gives back exactly its place. A set without an expiry holds one member
(`LoneMembersLinger`), because the script that would add a second finds the first and
arms the key.

**Password work.** The count equals the cardinality of the working callers because
every grant adds one caller and every effective release removes one, which the
once-guard makes at most one per grant. `NobodySleepsBesideIdle` is inductive for every
limit: the count falls to zero only by a release, which is then about to send a
wakeup; a wakeup that does not fit finds one buffered; and whoever consumes one is
about to try, which takes a slot of an idle limiter. At a limit of one a free slot is
an idle limiter, so `WakeupsSuffice` is a corollary.

Every safety property that a passing run checks is stated by a theorem.
`TasksAreCommittedFirst` is stated by a theorem only: a task is queued by the request
that has committed its row. Model-checked
only: all liveness, which are `TransactionsEnd` of `Sessions` and of `Filing`,
`CallsAreAnswered` and `WorkEnds` (temporal reasoning under fairness, and `ENABLED`,
are out of the prover's reach). `NoWakeupIsLost` is proved for a limit of one and
does not hold beyond it.

## 6. Not modelled, and why

* Search, lists, profile reads and pagination: read-only statements; what concurrent
  changes do to a walk over several pages concerns its reader alone. The answer of
  an item's deletion reads its collection afterwards, outside any transaction, and
  may be out of date when it arrives.
* The per-address middleware limits: the same fixed window as the failure budget,
  charged and never released.
* Extraction and the outbound fetch policy: pure functions of one page or address
  with thorough unit tests.
* Tokens, codes and hashing: abstracted to fresh values and equality.
* HTTP, configuration, logging: no state.
* Generated query code, the OpenAPI document and the test utilities: not written by
  hand or not the program. They are a large part of the repository's lines, as are
  handlers and DTOs, and the reason why the map covers a small share of all lines
  although it covers the statements that write.

## 7. What is left

1. `SignIn` composed with `Sessions`: a sign-in between a verification and a
   revocation, and sessions with their tokens.
2. Keyset pagination as a walk over rows that move, checked against the rows that
   stayed.
