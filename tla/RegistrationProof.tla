------------------------- MODULE RegistrationProof --------------------------
(***************************************************************************)
(* Proofs about Registration for every number of registrations, requests,  *)
(* codes, identities and concurrent calls.                                 *)
(*                                                                         *)
(* What a call has read may be stale when it writes, and mostly that is    *)
(* harmless: a request once born keeps its purpose or gives up recovery    *)
(* for it, a continuation once granted is never withdrawn, so little that  *)
(* a call relies on can become false (Grown).  The exception is a request  *)
(* being verified, which is pending and keeps its subject because one      *)
(* verification at a time holds it (HoldersAreApart).                      *)
(***************************************************************************)
EXTENDS Registration, FiniteSetTheorems, TLAPS

RegistrationPart(r) ==
    LET row == registration[r] IN
    /\ account = r <=> row.status = "completed"
    /\ account = r <=> row.continuation = "consumed"
    /\ row.status = "unborn" => \A v \in Request : request[v].subject # r
    /\ row.status # "unborn" => \E v \in Request :
         /\ RequestsOf(r) = {v}
         /\ request[v].status = "verified" <=> row.continuation # "none"
    /\ \A v, w \in OpenRecoveries(r) : v = w

RequestPart(v) ==
    /\ request[v].status = "unborn" <=> request[v].subject = None
    /\ \A k, j \in ActiveCodes(v) : k = j

\* What calls rely on, whatever they were told and however long ago.
OpenerFits(y) ==
    /\ y.began <= clock
    /\ y.pc \in {"lockRegistration", "lockRequest"} =>
         /\ y.registration \in Registration
         /\ y.request \in Request
         /\ request[y.request].status # "unborn"
         /\ request[y.request].purpose = "registration"

IssuerFits(y) == y.pc # "idle" => y.request \in Request

VerifierFits(y) ==
    /\ y.pc # "idle" =>
         /\ y.request \in Request
         /\ y.registration \in Registration
         /\ request[y.request].status # "unborn"
         /\ request[y.request].status = "pending" => request[y.request].subject = y.registration
    /\ y.pc \in {"match", "consume", "grant", "replace"} => y.code \in Code
    /\ y.pc \in {"grant", "replace"} => request[y.request].status = "pending"
    /\ y.pc = "grant" => request[y.request].purpose = "registration"
    /\ y.pc = "replace" => request[y.request].purpose = "recovery"

FinalizerFits(y) ==
    y.pc # "idle" =>
        /\ y.registration \in Registration
        /\ registration[y.registration].status # "unborn"
        /\ registration[y.registration].continuation # "none"

CallsFit ==
    /\ \A o \in Opener : OpenerFits(opening[o])
    /\ \A i \in Issuer : IssuerFits(issuing[i])
    /\ \A x \in Verifier : VerifierFits(verifying[x])
    /\ \A f \in Finalizer : FinalizerFits(finalizing[f])

HoldersAreApart ==
    \A x, z \in Verifier, v \in Request :
        HoldsRequest(x, v) /\ HoldsRequest(z, v) => x = z

RowsFit ==
    /\ \A r \in Registration : RegistrationPart(r)
    /\ \A v \in Request : RequestPart(v)
    /\ \A r, q \in Indexed : r = q

Inv ==
    /\ TypeOK
    /\ RowsFit
    /\ CallsFit
    /\ HoldersAreApart

-----------------------------------------------------------------------------

LEMMA Numbers ==
    /\ Cooldown \in Nat /\ RegistrationLifetime \in Nat /\ CodeLifetime \in Nat
    /\ ContinuationLifetime \in Nat /\ MaxClock \in Nat
    /\ None \notin Registration /\ None \notin Request /\ None \notin Code
    /\ None \notin Identity
BY NumberAssumption, NoneAssumption

LEMMA IdleFits ==
    /\ IdleOpening \in Opening /\ IdleIssuing \in Issuing
    /\ IdleVerifying \in Verifying /\ IdleFinalizing \in Finalizing
    /\ IdleOpening.pc = "idle" /\ IdleOpening.began = 0 /\ IdleIssuing.pc = "idle"
    /\ IdleVerifying.pc = "idle" /\ IdleFinalizing.pc = "idle"
    /\ clock \in Nat =>
         /\ OpenerFits(IdleOpening) /\ IssuerFits(IdleIssuing)
         /\ VerifierFits(IdleVerifying) /\ FinalizerFits(IdleFinalizing)
BY DEF IdleOpening, IdleIssuing, IdleVerifying, IdleFinalizing, Opening, Issuing, Verifying,
       Finalizing, OpenerFits, IssuerFits, VerifierFits, FinalizerFits

LEMMA InitInv == ASSUME Init PROVE Inv
<1> USE DEF Init
<1>1. TypeOK
  BY IdleFits DEF TypeOK, RegistrationRow, RequestRow, CodeRow
<1>2. RowsFit
  BY Numbers DEF RowsFit, RegistrationPart, RequestPart, Indexed, OpenRecoveries, ActiveCodes,
     Active
<1>3. CallsFit
  BY IdleFits DEF CallsFit
<1>4. HoldersAreApart
  BY IdleFits DEF HoldersAreApart, HoldsRequest
<1> QED
  BY <1>1, <1>2, <1>3, <1>4 DEF Inv

\* What no step undoes.
Grown ==
    /\ clock \in Nat /\ clock' \in Nat /\ clock <= clock'
    /\ \A v \in Request : request[v].status # "unborn" =>
         /\ request'[v].status # "unborn"
         /\ request[v].purpose = "registration" => request'[v].purpose = "registration"
         /\ request'[v].status = "pending" =>
              request[v].status = "pending" /\ request'[v].subject = request[v].subject
    /\ \A r \in Registration : registration[r].status # "unborn" =>
         /\ registration'[r].status # "unborn"
         /\ registration[r].continuation # "none" => registration'[r].continuation # "none"

LEMMA OpenersStillFit ==
  ASSUME Grown, NEW y \in Opening, OpenerFits(y)
  PROVE  OpenerFits(y)'
BY DEF Grown, OpenerFits, Opening

LEMMA FinalizersStillFit ==
  ASSUME Grown, NEW y \in Finalizing, FinalizerFits(y)
  PROVE  FinalizerFits(y)'
BY DEF Grown, FinalizerFits

\* A verification that holds its request needs it as it is.
LEMMA VerifiersStillFit ==
  ASSUME Grown, NEW y \in Verifying, VerifierFits(y),
         y.pc \in {"grant", "replace"} =>
           /\ request'[y.request].status = request[y.request].status
           /\ request'[y.request].purpose = request[y.request].purpose
  PROVE  VerifierFits(y)'
BY DEF Grown, VerifierFits

\* Holders stay apart as long as nobody becomes one.
LEMMA HoldersStayApart ==
  ASSUME HoldersAreApart,
         \A x \in Verifier, v \in Request : HoldsRequest(x, v)' => HoldsRequest(x, v)
  PROVE  HoldersAreApart'
BY DEF HoldersAreApart

-----------------------------------------------------------------------------
(***************************************************************************)
(* Steps that write no row: one call goes on, or ends.                     *)
(***************************************************************************)

LEMMA SameRows ==
  ASSUME RowsFit, UNCHANGED rows
  PROVE  RowsFit'
BY DEF rows, RowsFit, RegistrationPart, RequestPart, RequestsOf, OpenRecoveries, ActiveCodes,
       Active, Indexed

LEMMA SameRowsGrow ==
  ASSUME UNCHANGED rows, clock \in Nat, clock' \in Nat, clock <= clock'
  PROVE  Grown
BY DEF rows, Grown

LEMMA OpenerGoesOn ==
  ASSUME Inv, NEW o \in Opener, NEW y \in Opening, Opens(o, y), OpenerReads, OpenerFits(y)
  PROVE  Inv'
<1> USE DEF OpenerReads, rows
<1>1. TypeOK'
  BY DEF Inv, TypeOK, Opens
<1>2. RowsFit'
  BY SameRows DEF Inv
<1>3. CallsFit'
  <2>1. \A q \in Opener : opening'[q] = y \/ opening'[q] = opening[q]
    BY DEF Inv, TypeOK, Opens
  <2> QED
    BY <2>1 DEF Inv, CallsFit, OpenerFits, IssuerFits, VerifierFits, FinalizerFits
<1>4. HoldersAreApart'
  BY DEF Inv, HoldersAreApart, HoldsRequest
<1> QED
  BY <1>1, <1>2, <1>3, <1>4 DEF Inv

LEMMA IssuerGoesOn ==
  ASSUME Inv, NEW i \in Issuer, NEW y \in Issuing, Issues(i, y), IssuerReads, IssuerFits(y)
  PROVE  Inv'
<1> USE DEF IssuerReads, rows
<1>1. TypeOK'
  BY DEF Inv, TypeOK, Issues
<1>2. RowsFit'
  BY SameRows DEF Inv
<1>3. CallsFit'
  <2>1. \A q \in Issuer : issuing'[q] = y \/ issuing'[q] = issuing[q]
    BY DEF Inv, TypeOK, Issues
  <2> QED
    BY <2>1 DEF Inv, CallsFit, OpenerFits, IssuerFits, VerifierFits, FinalizerFits
<1>4. HoldersAreApart'
  BY DEF Inv, HoldersAreApart, HoldsRequest
<1> QED
  BY <1>1, <1>2, <1>3, <1>4 DEF Inv

LEMMA FinalizerGoesOn ==
  ASSUME Inv, NEW f \in Finalizer, NEW y \in Finalizing, Finalizes(f, y), FinalizerReads,
         FinalizerFits(y)
  PROVE  Inv'
<1> USE DEF FinalizerReads, rows
<1>1. TypeOK'
  BY DEF Inv, TypeOK, Finalizes
<1>2. RowsFit'
  BY SameRows DEF Inv
<1>3. CallsFit'
  <2>1. \A q \in Finalizer : finalizing'[q] = y \/ finalizing'[q] = finalizing[q]
    BY DEF Inv, TypeOK, Finalizes
  <2> QED
    BY <2>1 DEF Inv, CallsFit, OpenerFits, IssuerFits, VerifierFits, FinalizerFits
<1>4. HoldersAreApart'
  BY DEF Inv, HoldersAreApart, HoldsRequest
<1> QED
  BY <1>1, <1>2, <1>3, <1>4 DEF Inv

LEMMA VerifierGoesOn ==
  ASSUME Inv, NEW x \in Verifier, NEW y \in Verifying, Verifies(x, y), VerifierReads,
         VerifierFits(y),
         y.pc \in {"grant", "replace"} =>
           \A z \in Verifier \ {x} : ~HoldsRequest(z, y.request)
  PROVE  Inv'
<1> USE DEF VerifierReads, rows
<1>1. TypeOK'
  BY DEF Inv, TypeOK, Verifies
<1>2. RowsFit'
  BY SameRows DEF Inv
<1>3. verifying'[x] = y /\ \A z \in Verifier : z # x => verifying'[z] = verifying[z]
  BY DEF Inv, TypeOK, Verifies
<1>4. CallsFit'
  BY <1>3 DEF Inv, CallsFit, OpenerFits, IssuerFits, VerifierFits, FinalizerFits
<1>5. HoldersAreApart'
  <2>1. \A z \in Verifier, v \in Request : z # x => HoldsRequest(z, v)' = HoldsRequest(z, v)
    BY <1>3 DEF HoldsRequest
  <2>2. \A v \in Request : HoldsRequest(x, v)' => y.pc \in {"grant", "replace"} /\ v = y.request
    BY <1>3 DEF HoldsRequest
  <2> QED
    BY <2>1, <2>2 DEF Inv, HoldersAreApart
<1> QED
  BY <1>1, <1>2, <1>4, <1>5 DEF Inv

OpenerStep(o) ==
    \/ \E w \in {"manual", "recovery"} : BeginManual(o, w)
    \/ \E i \in Identity : BeginSocial(o, i)
    \/ Find(o) \/ LockRegistration(o) \/ LookupLost(o) \/ Keep(o) \/ InsertConflicts(o)

LEMMA OpenerStepKeepsInv ==
  ASSUME Inv, NEW o \in Opener, OpenerStep(o)
  PROVE  Inv'
<1> DEFINE x == opening[o]
<1>1. x \in Opening /\ OpenerFits(x) /\ clock \in Nat
  BY DEF Inv, TypeOK, CallsFit
<1>2. ASSUME NEW w \in Identity \cup {"manual", "recovery"},
             Opens(o, [IdleOpening EXCEPT !.pc = "find", !.wants = w, !.now = clock]), OpenerReads
      PROVE  Inv'
  <2> DEFINE y == [IdleOpening EXCEPT !.pc = "find", !.wants = w, !.now = clock]
  <2>1. y \in Opening /\ y.pc = "find" /\ y.began = 0
    BY <1>1, <1>2 DEF IdleOpening, Opening
  <2>2. OpenerFits(y)
    BY <1>1, <2>1 DEF OpenerFits
  <2> QED
    BY <1>2, <2>1, <2>2, OpenerGoesOn
<1>3. CASE Opens(o, IdleOpening) /\ OpenerReads
  BY <1>1, <1>3, OpenerGoesOn, IdleFits
<1>4. ASSUME NEW z \in Opening, NothingFound(o, z), OpenerReads
      PROVE  Inv'
  <2> DEFINE y == [IdleOpening EXCEPT !.pc = "insert", !.wants = z.wants, !.now = z.now,
                                      !.retried = z.retried]
  <2>1. y \in Opening /\ y.pc = "insert" /\ y.began = 0
    BY <1>1, <1>4 DEF IdleOpening, Opening
  <2>2. OpenerFits(y)
    BY <1>1, <2>1 DEF OpenerFits
  <2> QED
    BY <1>3, <1>4, <2>1, <2>2, OpenerGoesOn DEF NothingFound
<1>5. CASE Find(o)
  <2> DEFINE z == [x EXCEPT !.began = clock]
  <2>1. z \in Opening
    BY <1>1 DEF Opening
  <2>2. ASSUME NEW r \in Registration, NEW v \in Request, Joined(r, v), OpenerReads,
               Opens(o, [z EXCEPT !.pc = "lockRegistration", !.registration = r, !.request = v])
        PROVE  Inv'
    <3> DEFINE y == [z EXCEPT !.pc = "lockRegistration", !.registration = r, !.request = v]
    <3>1. y \in Opening /\ y.began = clock /\ y.registration = r /\ y.request = v
      BY <1>1 DEF Opening
    <3>2. request[v].status # "unborn" /\ request[v].purpose = "registration"
      BY <2>2, Numbers DEF Joined, Inv, RowsFit, RequestPart
    <3>3. OpenerFits(y)
      BY <1>1, <3>1, <3>2 DEF OpenerFits
    <3> QED
      BY <2>2, <3>1, <3>3, OpenerGoesOn
  <2> QED
    BY <1>4, <1>5, <2>1, <2>2 DEF Find
<1>6. CASE LockRegistration(o)
  <2> DEFINE y == [x EXCEPT !.pc = "lockRequest"]
  <2>1. y \in Opening /\ OpenerFits(y)
    BY <1>1, <1>6 DEF Opening, OpenerFits, LockRegistration
  <2> QED
    BY <1>6, <2>1, OpenerGoesOn DEF LockRegistration
<1>7. CASE InsertConflicts(o)
  <2> DEFINE y == [x EXCEPT !.pc = "find", !.retried = TRUE]
  <2>1. y \in Opening /\ OpenerFits(y)
    BY <1>1 DEF Opening, OpenerFits
  <2> QED
    BY <1>3, <1>7, <2>1, OpenerGoesOn DEF InsertConflicts
<1>8. CASE LookupLost(o) \/ Keep(o)
  BY <1>1, <1>3, <1>4, <1>8 DEF LookupLost, Keep
<1> QED
  BY <1>2, <1>5, <1>6, <1>7, <1>8 DEF OpenerStep, BeginManual, BeginSocial

LEMMA IssuerStepKeepsInv ==
  ASSUME Inv, NEW i \in Issuer, (\E v \in Request : BeginIssue(i, v)) \/ PickActive(i)
  PROVE  Inv'
<1> DEFINE x == issuing[i]
<1>1. x \in Issuing /\ IssuerFits(x) /\ clock \in Nat
  BY DEF Inv, TypeOK, CallsFit
<1>2. ASSUME NEW v \in Request, BeginIssue(i, v) PROVE Inv'
  <2> DEFINE y == [IdleIssuing EXCEPT !.pc = "pick", !.request = v]
  <2>1. y \in Issuing /\ IssuerFits(y)
    BY DEF IdleIssuing, Issuing, IssuerFits
  <2> QED
    BY <1>2, <2>1, IssuerGoesOn DEF BeginIssue
<1>3. CASE PickActive(i)
  <2> DEFINE z == [x EXCEPT !.pc = "replace", !.began = clock]
  <2>1. z \in Issuing /\ IssuerFits(z)
    BY <1>1, <1>3 DEF Issuing, IssuerFits, PickActive
  <2>2. ASSUME NEW k \in ActiveCodes(z.request), Issues(i, [z EXCEPT !.old = k]), IssuerReads
        PROVE  Inv'
    <3> DEFINE y == [z EXCEPT !.old = k]
    <3>1. y \in Issuing /\ IssuerFits(y)
      BY <2>1 DEF Issuing, IssuerFits, ActiveCodes
    <3> QED
      BY <2>2, <3>1, IssuerGoesOn
  <2> QED
    BY <1>3, <2>1, <2>2, IssuerGoesOn DEF PickActive
<1> QED
  BY <1>2, <1>3

LEMMA FinalizerStepKeepsInv ==
  ASSUME Inv, NEW f \in Finalizer,
         (\E r \in Registration : BeginFinalize(f, r)) \/ BeginWrite(f) \/ CreateUser(f)
  PROVE  Inv'
<1> DEFINE x == finalizing[f]
<1>1. x \in Finalizing /\ FinalizerFits(x) /\ clock \in Nat
  BY DEF Inv, TypeOK, CallsFit
<1>2. ASSUME NEW r \in Registration, BeginFinalize(f, r) PROVE Inv'
  <2> DEFINE y == [IdleFinalizing EXCEPT !.pc = "hash", !.registration = r]
  <2>1. y \in Finalizing /\ FinalizerFits(y)
    BY <1>2 DEF IdleFinalizing, Finalizing, FinalizerFits, BeginFinalize, Pending
  <2> QED
    BY <1>2, <2>1, FinalizerGoesOn DEF BeginFinalize
<1>3. CASE BeginWrite(f)
  <2> DEFINE y == [x EXCEPT !.pc = "create", !.began = clock]
  <2>1. y \in Finalizing /\ FinalizerFits(y)
    BY <1>1, <1>3 DEF Finalizing, FinalizerFits, BeginWrite
  <2> QED
    BY <1>3, <2>1, FinalizerGoesOn DEF BeginWrite
<1>4. CASE CreateUser(f)
  <2> DEFINE y == [x EXCEPT !.pc = "complete"]
  <2>1. y \in Finalizing /\ FinalizerFits(y)
    BY <1>1, <1>4 DEF Finalizing, FinalizerFits, CreateUser
  <2>2. CASE Finalizes(f, y)
    BY <1>4, <2>1, <2>2, FinalizerGoesOn DEF CreateUser
  <2>3. CASE Finalizes(f, IdleFinalizing)
    BY <1>1, <1>4, <2>3, FinalizerGoesOn, IdleFits DEF CreateUser
  <2> QED
    BY <1>4, <2>2, <2>3 DEF CreateUser
<1> QED
  BY <1>2, <1>3, <1>4

VerifierStep(x) ==
    \/ \E v \in Request : BeginVerify(x, v)
    \/ ReadCode(x) \/ BeginCompletion(x) \/ Consume(x)

LEMMA VerifierStepKeepsInv ==
  ASSUME Inv, NEW x \in Verifier, VerifierStep(x)
  PROVE  Inv'
<1> DEFINE y == verifying[x]
<1>1. y \in Verifying /\ VerifierFits(y) /\ clock \in Nat
  BY DEF Inv, TypeOK, CallsFit
<1>2. ASSUME Verifies(x, IdleVerifying), VerifierReads PROVE Inv'
  BY <1>1, <1>2, VerifierGoesOn, IdleFits
<1>3. ASSUME NEW v \in Request, BeginVerify(x, v) PROVE Inv'
  <2> DEFINE r == request[v].subject
             z == [IdleVerifying EXCEPT !.pc = "read", !.request = v, !.registration = r]
  <2>1. request[v].status = "pending" /\ r \in Registration \cup {None}
    BY <1>3 DEF BeginVerify, VerificationPending, Inv, TypeOK, RequestRow
  <2>2. r \in Registration
    BY <1>3, <2>1 DEF BeginVerify, VerificationPending, Inv, RowsFit, RequestPart
  <2>3. z \in Verifying /\ z.pc = "read" /\ z.request = v /\ z.registration = r
    BY <2>2 DEF IdleVerifying, Verifying
  <2>4. VerifierFits(z)
    BY <2>1, <2>2, <2>3 DEF VerifierFits
  <2> QED
    BY <1>3, <2>3, <2>4, VerifierGoesOn DEF BeginVerify
<1>4. CASE ReadCode(x)
  <2>1. ASSUME NEW k \in Readable(y.request),
               Verifies(x, [y EXCEPT !.pc = "match", !.code = k])
        PROVE  Inv'
    <3> DEFINE z == [y EXCEPT !.pc = "match", !.code = k]
    <3>1. z \in Verifying /\ VerifierFits(z) /\ z.pc = "match"
      BY <1>1, <1>4, <2>1 DEF Verifying, VerifierFits, ReadCode, Readable, ActiveCodes
    <3> QED
      BY <1>4, <2>1, <3>1, VerifierGoesOn DEF ReadCode
  <2> QED
    BY <1>2, <1>4, <2>1 DEF ReadCode
<1>5. CASE BeginCompletion(x)
  <2> DEFINE z == [y EXCEPT !.pc = "consume", !.began = clock]
  <2>1. z \in Verifying /\ VerifierFits(z) /\ z.pc = "consume"
    BY <1>1, <1>5 DEF Verifying, VerifierFits, BeginCompletion
  <2> QED
    BY <1>5, <2>1, VerifierGoesOn DEF BeginCompletion
<1>6. CASE Consume(x)
  <2>1. CASE Verifies(x, Granting(y)) /\ request[y.request].status = "pending"
    <3>1. Granting(y) \in Verifying /\ VerifierFits(Granting(y))
          /\ Granting(y).request = y.request
      BY <1>1, <1>6, <2>1 DEF Verifying, VerifierFits, Consume, Granting, Inv, TypeOK, RequestRow
    <3>2. ASSUME NEW z \in Verifier \ {x} PROVE ~HoldsRequest(z, y.request)
      BY <1>6 DEF Consume, Granted, WaitsFor, VerifierWaits, Call
    <3> QED
      BY <1>6, <2>1, <3>1, <3>2, VerifierGoesOn DEF Consume
  <2> QED
    BY <1>2, <1>6, <2>1 DEF Consume
<1> QED
  BY <1>2, <1>3, <1>4, <1>5, <1>6 DEF VerifierStep

-----------------------------------------------------------------------------
(***************************************************************************)
(* Steps that write rows.                                                  *)
(***************************************************************************)

\* The writer's call ends, and the other calls still fit the rows.
LEMMA CallsStillFit ==
  ASSUME Inv, Grown,
         \A o \in Opener : opening'[o] \in {opening[o], IdleOpening},
         \A i \in Issuer : issuing'[i] \in {issuing[i], IdleIssuing},
         \A f \in Finalizer : finalizing'[f] \in {finalizing[f], IdleFinalizing},
         \A x \in Verifier :
           \/ verifying'[x] = IdleVerifying
           \/ /\ verifying'[x] = verifying[x]
              /\ \A v \in Request : HoldsRequest(x, v) =>
                   /\ request'[v].status = request[v].status
                   /\ request'[v].purpose = request[v].purpose
  PROVE  CallsFit' /\ HoldersAreApart'
<1>1. clock' \in Nat
  BY DEF Grown
<1>2. /\ OpenerFits(IdleOpening)' /\ IssuerFits(IdleIssuing)'
      /\ VerifierFits(IdleVerifying)' /\ FinalizerFits(IdleFinalizing)'
  BY <1>1, IdleFits DEF OpenerFits, IssuerFits, VerifierFits, FinalizerFits
<1>3. ASSUME NEW o \in Opener PROVE OpenerFits(opening[o])'
  <2>1. PICK y \in Opening : y = opening[o] /\ OpenerFits(y)
    BY DEF Inv, TypeOK, CallsFit
  <2>2. OpenerFits(y)'
    BY <2>1, OpenersStillFit
  <2>3. opening'[o] = y \/ opening'[o] = IdleOpening
    BY <2>1
  <2> QED
    BY <1>2, <2>2, <2>3 DEF OpenerFits
<1>4. ASSUME NEW i \in Issuer PROVE IssuerFits(issuing[i])'
  BY <1>2 DEF Inv, CallsFit, IssuerFits
<1>5. ASSUME NEW f \in Finalizer PROVE FinalizerFits(finalizing[f])'
  <2>1. PICK y \in Finalizing : y = finalizing[f] /\ FinalizerFits(y)
    BY DEF Inv, TypeOK, CallsFit
  <2>2. FinalizerFits(y)'
    BY <2>1, FinalizersStillFit
  <2>3. finalizing'[f] = y \/ finalizing'[f] = IdleFinalizing
    BY <2>1
  <2> QED
    BY <1>2, <2>2, <2>3 DEF FinalizerFits
<1>6. ASSUME NEW x \in Verifier PROVE VerifierFits(verifying[x])'
  <2>1. PICK y \in Verifying : y = verifying[x] /\ VerifierFits(y)
    BY DEF Inv, TypeOK, CallsFit
  <2>2. CASE verifying'[x] = IdleVerifying
    BY <1>2, <2>2 DEF VerifierFits
  <2>3. CASE verifying'[x] # IdleVerifying
    <3>1. verifying'[x] = y
      BY <2>1, <2>3
    <3>2. y.pc \in {"grant", "replace"} =>
            /\ request'[y.request].status = request[y.request].status
            /\ request'[y.request].purpose = request[y.request].purpose
      BY <2>1, <2>3 DEF HoldsRequest, VerifierFits
    <3>3. VerifierFits(y)'
      BY <2>1, <3>2, VerifiersStillFit
    <3> QED
      BY <3>1, <3>3 DEF VerifierFits
  <2> QED
    BY <2>2, <2>3
<1>7. HoldersAreApart'
  <2>1. \A x \in Verifier, v \in Request : HoldsRequest(x, v)' => HoldsRequest(x, v)
    BY IdleFits DEF HoldsRequest
  <2> QED
    BY <2>1, HoldersStayApart DEF Inv
<1> QED
  BY <1>3, <1>4, <1>5, <1>6, <1>7 DEF CallsFit

LEMMA CreationKeepsInv ==
  ASSUME Inv, NEW o \in Opener, NEW old \in SUBSET Registration,
         NEW r \in NewRegistrations, NEW v \in NewRequests,
         \A q \in old : Pending(q), Indexed \subseteq old,
         CreateRegistration(o, old, r, v)
  PROVE  Inv'
<1> DEFINE x == opening[o]
           new == NewRegistration(IdentityOf(x.wants), x.now + RegistrationLifetime, "none", 0)
<1>1. /\ registration \in [Registration -> RegistrationRow] /\ request \in [Request -> RequestRow]
      /\ x \in Opening /\ clock \in Nat
      /\ r \in Registration /\ v \in Request /\ registration[r].status = "unborn"
      /\ request[v].status = "unborn" /\ request[v].subject = None
      /\ r \notin old
  BY DEF Inv, TypeOK, RowsFit, RequestPart, NewRegistrations, NewRequests, Pending
<1>2. /\ new \in RegistrationRow /\ new.status = "pending" /\ new.continuation = "none"
  BY <1>1, Numbers DEF NewRegistration, IdentityOf, Opening, RegistrationRow
<1>3. NewRequest("registration", r) \in RequestRow
  BY <1>1 DEF NewRequest, RequestRow
<1>4. /\ registration'[r] = new
      /\ \A q \in old : registration'[q] = [registration[q] EXCEPT !.status = "expired"]
      /\ \A q \in Registration : q # r /\ q \notin old => registration'[q] = registration[q]
      /\ registration' \in [Registration -> RegistrationRow]
  <2>1. \A q \in Registration : [registration[q] EXCEPT !.status = "expired"] \in RegistrationRow
    BY <1>1 DEF RegistrationRow
  <2> QED
    BY <1>1, <1>2, <2>1 DEF CreateRegistration
<1>5. /\ request'[v] = NewRequest("registration", r)
      /\ \A w \in Request : w # v => request'[w] = request[w]
      /\ request' \in [Request -> RequestRow]
      /\ UNCHANGED << clock, code, account, issuing, verifying, finalizing >>
      /\ opening' = [opening EXCEPT ![o] = IdleOpening]
  BY <1>1, <1>3 DEF CreateRegistration, Opens
<1>6. TypeOK'
  BY <1>4, <1>5, IdleFits DEF Inv, TypeOK
<1>7. ASSUME NEW q \in Registration PROVE RegistrationPart(q)'
  <2>1. RegistrationPart(q)
    BY DEF Inv, RowsFit
  <2>2. CASE q = r
    <3>1. RequestsOf(r)' = {v} /\ OpenRecoveries(r)' = {}
      BY <1>1, <1>5, <2>1, <2>2 DEF RequestsOf, OpenRecoveries, NewRequest, RegistrationPart
    <3> QED
      BY <1>1, <1>2, <1>4, <1>5, <2>1, <2>2, <3>1 DEF RegistrationPart, NewRequest
  <2>3. CASE q # r
    <3>1. RequestsOf(q)' = RequestsOf(q) /\ OpenRecoveries(q)' = OpenRecoveries(q)
      BY <1>1, <1>5, <2>3, Numbers DEF RequestsOf, OpenRecoveries, NewRequest
    <3>2. v \notin RequestsOf(q)
      BY <1>1, Numbers DEF RequestsOf
    <3>3. /\ registration'[q].continuation = registration[q].continuation
          /\ \/ registration'[q].status = registration[q].status
             \/ registration[q].status = "pending" /\ registration'[q].status = "expired"
      <4>1. CASE q \in old
        <5>1. registration[q].status = "pending" /\ registration[q] \in RegistrationRow
          BY <1>1, <4>1 DEF Pending
        <5> QED
          BY <1>4, <4>1, <5>1 DEF RegistrationRow
      <4> QED
        BY <1>4, <2>3, <4>1
    <3>4. registration'[q].status = "unborn" => \A w \in Request : request'[w].subject # q
      BY <1>5, <2>1, <2>3, <3>3 DEF RegistrationPart, NewRequest
    <3>5. registration'[q].status # "unborn" => \E w \in Request :
            /\ RequestsOf(q)' = {w}
            /\ request'[w].status = "verified" <=> registration'[q].continuation # "none"
      BY <1>5, <2>1, <3>1, <3>2, <3>3 DEF RegistrationPart
    <3> QED
      BY <1>5, <2>1, <3>1, <3>3, <3>4, <3>5 DEF RegistrationPart
  <2> QED
    BY <2>2, <2>3
<1>8. ASSUME NEW w \in Request PROVE RequestPart(w)'
  <2>1. RequestPart(w) /\ ActiveCodes(w)' = ActiveCodes(w)
    BY <1>5 DEF Inv, RowsFit, ActiveCodes, Active
  <2> QED
    BY <1>1, <1>5, <2>1, Numbers DEF RequestPart, NewRequest
<1>9. \A q \in old : /\ registration'[q].status = "expired"
                       /\ registration'[q].continuation = registration[q].continuation
  <2>1. ASSUME NEW q \in old
        PROVE  registration'[q] = [registration[q] EXCEPT !.status = "expired"]
               /\ registration[q] \in RegistrationRow
    BY <1>1, <1>4
  <2> QED
    BY <2>1 DEF RegistrationRow
<1>10. (\A p, q \in Indexed' : p = q) /\ Grown
  <2>1. \A q \in Indexed' : q = r
    BY <1>4, <1>9 DEF Indexed
  <2>2. Grown
    BY <1>1, <1>4, <1>5, <1>9 DEF Grown
  <2> QED
    BY <2>1, <2>2
<1>11. CallsFit' /\ HoldersAreApart'
  <2>1. \A z \in Verifier, w \in Request : HoldsRequest(z, w) => request[w].status = "pending"
    BY DEF Inv, CallsFit, VerifierFits, HoldsRequest
  <2>2. \A z \in Verifier, w \in Request : HoldsRequest(z, w) => w # v
    BY <1>1, <2>1
  <2>3. \A q \in Opener : opening'[q] \in {opening[q], IdleOpening}
    BY <1>5 DEF Inv, TypeOK
  <2> QED
    BY <1>5, <1>10, <2>2, <2>3, CallsStillFit
<1> QED
  BY <1>6, <1>7, <1>8, <1>10, <1>11 DEF Inv, RowsFit

LEMMA OpenRecoveryKeepsInv ==
  ASSUME Inv, NEW o \in Opener, NEW v \in NewRequests, OpenRecovery(o, v)
  PROVE  Inv'
<1> DEFINE x == opening[o]  r == opening[o].registration
<1>1. PICK s \in Registration, u \in Request :
        /\ s = r /\ u = x.request /\ Joined(s, u) /\ OpenRecoveries(s) = {}
        /\ request' = [request EXCEPT ![v] = NewRequest("recovery", s)]
  BY DEF Inv, CallsFit, OpenerFits, OpenRecovery, Found, Looked, Recovers
<1>2. /\ request \in [Request -> RequestRow] /\ clock \in Nat
      /\ v \in Request /\ request[v].status = "unborn" /\ request[v].subject = None
      /\ registration[s].status = "pending"
  BY <1>1 DEF Inv, TypeOK, RowsFit, RequestPart, NewRequests, Joined, Pending
<1>3. NewRequest("recovery", s) \in RequestRow
  BY <1>1 DEF NewRequest, RequestRow
<1>4. /\ request'[v] = NewRequest("recovery", s)
      /\ \A w \in Request : w # v => request'[w] = request[w]
      /\ request' \in [Request -> RequestRow]
      /\ UNCHANGED << clock, registration, code, account, issuing, verifying, finalizing >>
      /\ opening' = [opening EXCEPT ![o] = IdleOpening]
  BY <1>1, <1>2, <1>3 DEF OpenRecovery, Opens
<1>5. TypeOK'
  BY <1>4, IdleFits DEF Inv, TypeOK
<1>6. ASSUME NEW q \in Registration PROVE RegistrationPart(q)'
  <2>1. RegistrationPart(q)
    BY DEF Inv, RowsFit
  <2>2. RequestsOf(q)' = RequestsOf(q) /\ v \notin RequestsOf(q)
    BY <1>2, <1>4, Numbers DEF RequestsOf, NewRequest
  <2>3. \A w, z \in OpenRecoveries(q)' : w = z
    <3>1. OpenRecoveries(q)' \subseteq OpenRecoveries(q) \cup {v}
      BY <1>4 DEF OpenRecoveries
    <3>2. q # s => v \notin OpenRecoveries(q)'
      BY <1>1, <1>4 DEF OpenRecoveries, NewRequest
    <3> QED
      BY <1>1, <2>1, <3>1, <3>2 DEF RegistrationPart
  <2>4. registration[q].status = "unborn" => \A w \in Request : request'[w].subject # q
    BY <1>2, <1>4, <2>1 DEF RegistrationPart, NewRequest
  <2>5. registration[q].status # "unborn" => \E w \in Request :
          /\ RequestsOf(q)' = {w}
          /\ request'[w].status = "verified" <=> registration[q].continuation # "none"
    BY <1>4, <2>1, <2>2 DEF RegistrationPart
  <2> QED
    BY <1>4, <2>1, <2>3, <2>4, <2>5 DEF RegistrationPart
<1>7. ASSUME NEW w \in Request PROVE RequestPart(w)'
  <2>1. RequestPart(w) /\ ActiveCodes(w)' = ActiveCodes(w)
    BY <1>4 DEF Inv, RowsFit, ActiveCodes, Active
  <2> QED
    BY <1>2, <1>4, <2>1, Numbers DEF RequestPart, NewRequest
<1>8. \A p, q \in Indexed' : p = q
  BY <1>4 DEF Inv, RowsFit, Indexed
<1>9. Grown
  BY <1>2, <1>4 DEF Grown
<1>10. CallsFit' /\ HoldersAreApart'
  <2>1. \A z \in Verifier, w \in Request : HoldsRequest(z, w) => request[w].status = "pending"
    BY DEF Inv, CallsFit, VerifierFits, HoldsRequest
  <2>2. \A z \in Verifier, w \in Request : HoldsRequest(z, w) => w # v
    BY <1>2, <2>1
  <2>3. \A q \in Opener : opening'[q] \in {opening[q], IdleOpening}
    BY <1>4 DEF Inv, TypeOK
  <2> QED
    BY <1>4, <1>9, <2>2, <2>3, CallsStillFit
<1> QED
  BY <1>5, <1>6, <1>7, <1>8, <1>10 DEF Inv, RowsFit

LEMMA IssueCodeKeepsInv ==
  ASSUME Inv, NEW i \in Issuer, NEW new \in NewCodes, IssueCode(i, new)
  PROVE  Inv'
<1>1. PICK v \in Request, began \in Nat, old \in Code \cup {None} :
        v = issuing[i].request /\ began = issuing[i].began /\ old = issuing[i].old
  BY DEF Inv, TypeOK, CallsFit, IssuerFits, IssueCode, Issuing
<1>2. /\ request \in [Request -> RequestRow] /\ code \in [Code -> CodeRow] /\ clock \in Nat
      /\ new \in Code /\ ActiveCodes(v) \subseteq {old}
  BY <1>1 DEF Inv, TypeOK, IssueCode, NewCodes
<1>3. /\ request' = [request EXCEPT ![v] = [request[v] EXCEPT !.lastSent = began]]
      /\ UNCHANGED << clock, registration, account, opening, verifying, finalizing >>
      /\ issuing' = [issuing EXCEPT ![i] = IdleIssuing]
  BY <1>1, <1>2 DEF IssueCode, Issues
<1>4. /\ \A w \in Request : /\ request'[w].status = request[w].status
                            /\ request'[w].purpose = request[w].purpose
                            /\ request'[w].subject = request[w].subject
      /\ request' \in [Request -> RequestRow]
  BY <1>2, <1>3 DEF RequestRow
<1>5. /\ code' = [k \in Code |-> code'[k]]
      /\ code'[new] = [request |-> v, expires |-> began + CodeLifetime, marks |-> {}]
      /\ \A k \in Code : k # new =>
           code'[k] = IF k = old THEN [code[k] EXCEPT !.marks = @ \cup {"invalidated"}]
                      ELSE code[k]
  BY <1>1, <1>2 DEF IssueCode
<1>6. code' \in [Code -> CodeRow]
  <2>1. code'[new] \in CodeRow
    BY <1>1, <1>5, Numbers DEF CodeRow
  <2>2. \A k \in Code : [code[k] EXCEPT !.marks = @ \cup {"invalidated"}] \in CodeRow
    BY <1>2 DEF CodeRow
  <2> QED
    BY <1>2, <1>5, <2>1, <2>2
<1>7. TypeOK'
  BY <1>3, <1>4, <1>6, IdleFits DEF Inv, TypeOK
<1>8. \A q \in Registration :
        RequestsOf(q)' = RequestsOf(q) /\ OpenRecoveries(q)' = OpenRecoveries(q)
  BY <1>4 DEF RequestsOf, OpenRecoveries
<1>9. ASSUME NEW q \in Registration PROVE RegistrationPart(q)'
  <2>1. RegistrationPart(q)
    BY DEF Inv, RowsFit
  <2>2. registration[q].status # "unborn" => \E w \in Request :
          /\ RequestsOf(q)' = {w}
          /\ request'[w].status = "verified" <=> registration[q].continuation # "none"
    BY <1>4, <1>8, <2>1 DEF RegistrationPart
  <2> QED
    BY <1>3, <1>4, <1>8, <2>1, <2>2 DEF RegistrationPart
<1>10. ASSUME NEW w \in Request PROVE RequestPart(w)'
  <2>1. RequestPart(w)
    BY DEF Inv, RowsFit
  <2>2. \A k, j \in ActiveCodes(w)' : k = j
    <3>1. \A k \in Code : k # new /\ k # old => code'[k] = code[k]
      BY <1>5
    <3>2. old \in Code /\ old # new => code'[old].marks # {}
      <4>1. ASSUME old \in Code, old # new
            PROVE  code'[old] = [code[old] EXCEPT !.marks = @ \cup {"invalidated"}]
                   /\ code[old] \in CodeRow
        BY <1>2, <1>5, <4>1
      <4> QED
        BY <4>1 DEF CodeRow
    <3>3. ActiveCodes(w)' \subseteq (ActiveCodes(w) \ {old}) \cup {new}
      BY <3>1, <3>2 DEF ActiveCodes, Active
    <3>4. w # v => new \notin ActiveCodes(w)'
      BY <1>5 DEF ActiveCodes
    <3> QED
      BY <1>2, <2>1, <3>3, <3>4 DEF RequestPart
  <2> QED
    BY <1>4, <2>1, <2>2 DEF RequestPart
<1>11. \A p, q \in Indexed' : p = q
  BY <1>3 DEF Inv, RowsFit, Indexed
<1>12. Grown
  BY <1>2, <1>3, <1>4 DEF Grown
<1>13. CallsFit' /\ HoldersAreApart'
  <2>1. \A q \in Issuer : issuing'[q] \in {issuing[q], IdleIssuing}
    BY <1>3 DEF Inv, TypeOK
  <2> QED
    BY <1>3, <1>4, <1>12, <2>1, CallsStillFit
<1> QED
  BY <1>7, <1>9, <1>10, <1>11, <1>13 DEF Inv, RowsFit

\* A consumed code is active no longer; no other code becomes so.
LEMMA ConsumptionKeepsCodes ==
  ASSUME TypeOK, RowsFit, NEW x \in Verifier, verifying[x].code \in Code, ConsumedBy(x)
  PROVE  /\ code' \in [Code -> CodeRow]
         /\ \A w \in Request : \A k, j \in ActiveCodes(w)' : k = j
<1>1. PICK c \in Code : c = verifying[x].code
  OBVIOUS
<1>2. code \in [Code -> CodeRow]
      /\ code' = [code EXCEPT ![c] = [code[c] EXCEPT !.marks = @ \cup {"consumed"}]]
  BY <1>1 DEF TypeOK, ConsumedBy
<1>3. [code[c] EXCEPT !.marks = @ \cup {"consumed"}] \in CodeRow
  BY <1>2 DEF CodeRow
<1>4. \A w \in Request : ActiveCodes(w)' \subseteq ActiveCodes(w)
  <2>1. code'[c].marks # {} /\ \A k \in Code : k # c => code'[k] = code[k]
    BY <1>2 DEF CodeRow
  <2> QED
    BY <2>1 DEF ActiveCodes, Active
<1> QED
  BY <1>2, <1>3, <1>4 DEF RowsFit, RequestPart

\* What a verification that is about to commit knows.
LEMMA Verified ==
  ASSUME Inv, NEW x \in Verifier, verifying[x].pc \in {"grant", "replace"}
  PROVE  LET y == verifying[x] IN
         /\ y \in Verifying /\ y.code \in Code
         /\ y.request \in Request /\ y.registration \in Registration
         /\ request[y.request].status = "pending"
         /\ request[y.request].subject = y.registration
         /\ request[y.request].purpose = IF y.pc = "grant" THEN "registration" ELSE "recovery"
         /\ \A z \in Verifier : z # x => ~HoldsRequest(z, y.request)
<1> DEFINE y == verifying[x]
<1>1. y \in Verifying /\ VerifierFits(y)
  BY DEF Inv, TypeOK, CallsFit
<1>2. HoldsRequest(x, y.request) /\ y.request \in Request
  BY <1>1 DEF HoldsRequest, VerifierFits
<1> QED
  BY <1>1, <1>2 DEF VerifierFits, Inv, HoldersAreApart

LEMMA GrantKeepsInv ==
  ASSUME Inv, NEW x \in Verifier, Grant(x)
  PROVE  Inv'
<1>1. PICK v \in Request, r \in Registration, began \in Nat :
        /\ v = verifying[x].request /\ r = verifying[x].registration
        /\ began = verifying[x].began /\ verifying[x].code \in Code
        /\ request[v].status = "pending" /\ request[v].subject = r
        /\ request[v].purpose = "registration"
        /\ \A z \in Verifier : z # x => ~HoldsRequest(z, v)
  BY Verified DEF Grant, Verifying
<1>2. /\ registration \in [Registration -> RegistrationRow]
      /\ request \in [Request -> RequestRow] /\ clock \in Nat
      /\ registration[r].continuation = "none"
      /\ request' = [request EXCEPT ![v] = [request[v] EXCEPT !.status = "verified"]]
      /\ registration' = [registration EXCEPT ![r] =
           [registration[r] EXCEPT !.continuation = "usable",
                                   !.deadline = began + ContinuationLifetime]]
      /\ verifying' = [verifying EXCEPT ![x] = IdleVerifying]
      /\ UNCHANGED << clock, account, opening, issuing, finalizing >>
  BY <1>1 DEF Grant, Verifies, Inv, TypeOK
<1>3. /\ code' \in [Code -> CodeRow]
      /\ \A w \in Request : \A k, j \in ActiveCodes(w)' : k = j
  BY <1>1, ConsumptionKeepsCodes DEF Grant, Inv
<1>4. /\ registration'[r] \in RegistrationRow
      /\ registration'[r].status = registration[r].status
      /\ registration'[r].continuation = "usable"
      /\ \A q \in Registration : q # r => registration'[q] = registration[q]
  <2>1. /\ registration'[r] = [registration[r] EXCEPT !.continuation = "usable",
                                 !.deadline = began + ContinuationLifetime]
        /\ registration[r] \in RegistrationRow
        /\ \A q \in Registration : q # r => registration'[q] = registration[q]
    BY <1>2
  <2>2. began + ContinuationLifetime \in Nat
    BY <1>1, Numbers
  <2> QED
    BY <2>1, <2>2 DEF RegistrationRow
<1>5. /\ request'[v] \in RequestRow /\ request'[v].status = "verified"
      /\ request'[v].purpose = "registration" /\ request'[v].subject = r
      /\ \A w \in Request : w # v => request'[w] = request[w]
  BY <1>1, <1>2 DEF RequestRow
<1>6. TypeOK'
  BY <1>2, <1>3, <1>4, <1>5, IdleFits DEF Inv, TypeOK
<1>7. ASSUME NEW q \in Registration PROVE RegistrationPart(q)'
  <2>1. RegistrationPart(q)
    BY DEF Inv, RowsFit
  <2>2. RequestsOf(q)' = RequestsOf(q) /\ OpenRecoveries(q)' = OpenRecoveries(q)
    BY <1>1, <1>5 DEF RequestsOf, OpenRecoveries
  <2>3. registration'[q].status = registration[q].status
        /\ (registration'[q].continuation = "consumed" <=>
              registration[q].continuation = "consumed")
    BY <1>2, <1>4
  <2>4. \A w \in Request : request'[w].subject = request[w].subject
    BY <1>1, <1>5
  <2>5. registration[q].status # "unborn" => \E w \in Request :
          /\ RequestsOf(q)' = {w}
          /\ request'[w].status = "verified" <=> registration'[q].continuation # "none"
    <3>1. CASE q = r
      <4>1. v \in RequestsOf(r)
        BY <1>1 DEF RequestsOf
      <4> QED
        BY <1>4, <1>5, <2>1, <2>2, <3>1, <4>1 DEF RegistrationPart
    <3>2. CASE q # r
      <4>1. v \notin RequestsOf(q)
        BY <1>1, <3>2 DEF RequestsOf
      <4> QED
        BY <1>4, <1>5, <2>1, <2>2, <3>2, <4>1 DEF RegistrationPart
    <3> QED
      BY <3>1, <3>2
  <2> QED
    BY <1>2, <2>1, <2>2, <2>3, <2>4, <2>5 DEF RegistrationPart
<1>8. ASSUME NEW w \in Request PROVE RequestPart(w)'
  BY <1>1, <1>3, <1>5, Numbers DEF Inv, RowsFit, RequestPart
<1>9. \A p, q \in Indexed' : p = q
  <2>1. Indexed' = Indexed
    BY <1>4 DEF Indexed
  <2> QED
    BY <2>1 DEF Inv, RowsFit
<1>10. Grown
  BY <1>2, <1>4, <1>5 DEF Grown
<1>11. CallsFit' /\ HoldersAreApart'
  <2>1. \A z \in Verifier : verifying'[z] = IdleVerifying
          \/ (z # x /\ verifying'[z] = verifying[z])
    BY <1>2 DEF Inv, TypeOK
  <2> QED
    BY <1>1, <1>2, <1>5, <1>10, <2>1, CallsStillFit
<1> QED
  BY <1>6, <1>7, <1>8, <1>9, <1>11 DEF Inv, RowsFit

LEMMA ReplaceRecoveredKeepsInv ==
  ASSUME Inv, NEW x \in Verifier, NEW new \in NewRegistrations, ReplaceRecovered(x, new)
  PROVE  Inv'
<1>1. PICK v \in Request, r \in Registration, began \in Nat :
        /\ v = verifying[x].request /\ r = verifying[x].registration
        /\ began = verifying[x].began /\ verifying[x].code \in Code
        /\ request[v].status = "pending" /\ request[v].subject = r
        /\ request[v].purpose = "recovery"
        /\ \A z \in Verifier : z # x => ~HoldsRequest(z, v)
  BY Verified DEF ReplaceRecovered, Recovered, Verifying
<1> DEFINE row == NewRegistration(None, began + RegistrationLifetime, "usable",
                                  began + ContinuationLifetime)
<1>2. /\ registration \in [Registration -> RegistrationRow]
      /\ request \in [Request -> RequestRow] /\ clock \in Nat
      /\ new \in Registration /\ registration[new].status = "unborn"
      /\ registration[r].status = "pending" /\ new # r
      /\ request' = [request EXCEPT ![v] =
           [request[v] EXCEPT !.status = "verified", !.purpose = "registration", !.subject = new]]
      /\ registration' = [registration EXCEPT ![r] = [registration[r] EXCEPT !.status = "expired"],
                                              ![new] = row]
      /\ verifying' = [verifying EXCEPT ![x] = IdleVerifying]
      /\ UNCHANGED << clock, account, opening, issuing, finalizing >>
  BY <1>1 DEF ReplaceRecovered, Recovered, Replaceable, Pending, Verifies, NewRegistrations,
     Inv, TypeOK
<1>3. /\ code' \in [Code -> CodeRow]
      /\ \A w \in Request : \A k, j \in ActiveCodes(w)' : k = j
  BY <1>1, ConsumptionKeepsCodes DEF ReplaceRecovered, Recovered, Inv
<1>4. /\ registration'[r] \in RegistrationRow
      /\ registration'[r].status = "expired"
      /\ registration'[r].continuation = registration[r].continuation
      /\ registration'[new] \in RegistrationRow
      /\ registration'[new].status = "pending"
      /\ registration'[new].continuation = "usable"
      /\ \A q \in Registration : q # r /\ q # new => registration'[q] = registration[q]
  <2>1. registration'[r] = [registration[r] EXCEPT !.status = "expired"]
        /\ registration[r] \in RegistrationRow
    BY <1>2
  <2>2. registration'[new] = row
    BY <1>2
  <2> QED
    BY <1>2, <2>1, <2>2, Numbers DEF RegistrationRow, NewRegistration
<1>5. /\ request'[v] \in RequestRow /\ request'[v].status = "verified"
      /\ request'[v].purpose = "registration" /\ request'[v].subject = new
      /\ \A w \in Request : w # v => request'[w] = request[w]
  BY <1>1, <1>2 DEF RequestRow
<1>6. TypeOK'
  <2>1. registration' \in [Registration -> RegistrationRow]
    BY <1>2, <1>4
  <2> QED
    BY <1>2, <1>3, <1>5, <2>1, IdleFits DEF Inv, TypeOK
<1>7. ASSUME NEW q \in Registration PROVE RegistrationPart(q)'
  <2>1. RegistrationPart(q)
    BY DEF Inv, RowsFit
  <2>2. CASE q = new
    <3>1. RequestsOf(new)' = {v} /\ OpenRecoveries(new)' = {}
      BY <1>2, <1>5, <2>1, <2>2 DEF RequestsOf, OpenRecoveries, RegistrationPart
    <3> QED
      BY <1>2, <1>4, <1>5, <2>1, <2>2, <3>1 DEF RegistrationPart
  <2>3. CASE q # new
    <3>1. /\ RequestsOf(q)' = RequestsOf(q) /\ OpenRecoveries(q)' \subseteq OpenRecoveries(q)
          /\ v \notin RequestsOf(q)
      BY <1>1, <1>5, <2>3 DEF RequestsOf, OpenRecoveries
    <3>2. /\ registration'[q].continuation = registration[q].continuation
          /\ \/ registration'[q].status = registration[q].status
             \/ registration[q].status = "pending" /\ registration'[q].status = "expired"
      BY <1>2, <1>4, <2>3
    <3>3. registration'[q].status = "unborn" => \A w \in Request : request'[w].subject # q
      BY <1>5, <2>1, <2>3, <3>2 DEF RegistrationPart
    <3>4. registration'[q].status # "unborn" => \E w \in Request :
            /\ RequestsOf(q)' = {w}
            /\ request'[w].status = "verified" <=> registration'[q].continuation # "none"
      BY <1>5, <2>1, <3>1, <3>2 DEF RegistrationPart
    <3> QED
      BY <1>2, <2>1, <3>1, <3>2, <3>3, <3>4 DEF RegistrationPart
  <2> QED
    BY <2>2, <2>3
<1>8. ASSUME NEW w \in Request PROVE RequestPart(w)'
  BY <1>1, <1>2, <1>3, <1>5, Numbers DEF Inv, RowsFit, RequestPart
<1>9. \A p, q \in Indexed' : p = q
  <2>1. \A q \in Indexed : q = r
    BY <1>2 DEF Inv, RowsFit, Indexed
  <2>2. \A q \in Indexed' : q = new
    BY <1>2, <1>4, <2>1 DEF Indexed
  <2> QED
    BY <2>2
<1>10. Grown
  BY <1>2, <1>4, <1>5 DEF Grown
<1>11. CallsFit' /\ HoldersAreApart'
  <2>1. \A z \in Verifier : verifying'[z] = IdleVerifying
          \/ (z # x /\ verifying'[z] = verifying[z])
    BY <1>2 DEF Inv, TypeOK
  <2> QED
    BY <1>1, <1>2, <1>5, <1>10, <2>1, CallsStillFit
<1> QED
  BY <1>6, <1>7, <1>8, <1>9, <1>11 DEF Inv, RowsFit

LEMMA CompleteKeepsInv ==
  ASSUME Inv, NEW f \in Finalizer, Complete(f)
  PROVE  Inv'
<1>1. PICK r \in Registration :
        r = finalizing[f].registration /\ registration[r].continuation # "none"
  BY DEF Inv, CallsFit, FinalizerFits, Complete
<1>2. /\ registration \in [Registration -> RegistrationRow] /\ clock \in Nat
      /\ registration[r].status = "pending" /\ account' = r
      /\ registration' = [registration EXCEPT ![r] =
           [registration[r] EXCEPT !.status = "completed", !.continuation = "consumed"]]
      /\ finalizing' = [finalizing EXCEPT ![f] = IdleFinalizing]
      /\ UNCHANGED << clock, request, code, opening, issuing, verifying >>
  BY <1>1 DEF Complete, Finalizes, Pending, Inv, TypeOK
<1>3. /\ registration'[r] \in RegistrationRow
      /\ registration'[r].status = "completed"
      /\ registration'[r].continuation = "consumed"
      /\ \A q \in Registration : q # r => registration'[q] = registration[q]
  BY <1>2 DEF RegistrationRow
<1>4. TypeOK'
  BY <1>2, <1>3, IdleFits DEF Inv, TypeOK
\* Nothing else is completed: the address has one registration that is.
<1>5. \A q \in Registration : q # r => registration[q].status \notin {"pending", "completed"}
  BY <1>2 DEF Inv, RowsFit, Indexed
<1>6. ASSUME NEW q \in Registration PROVE RegistrationPart(q)'
  <2>1. RegistrationPart(q)
    BY DEF Inv, RowsFit
  <2>2. RequestsOf(q)' = RequestsOf(q) /\ OpenRecoveries(q)' = OpenRecoveries(q)
    BY <1>2 DEF RequestsOf, OpenRecoveries
  <2>3. CASE q = r
    BY <1>1, <1>2, <1>3, <2>1, <2>2, <2>3 DEF RegistrationPart
  <2>4. CASE q # r
    BY <1>2, <1>3, <1>5, <2>1, <2>2, <2>4 DEF RegistrationPart
  <2> QED
    BY <2>3, <2>4
<1>7. ASSUME NEW w \in Request PROVE RequestPart(w)'
  BY <1>2 DEF Inv, RowsFit, RequestPart, ActiveCodes, Active
<1>8. \A p, q \in Indexed' : p = q
  BY <1>3, <1>5 DEF Indexed
<1>9. Grown
  BY <1>1, <1>2, <1>3 DEF Grown
<1>10. CallsFit' /\ HoldersAreApart'
  <2>1. \A q \in Finalizer : finalizing'[q] \in {finalizing[q], IdleFinalizing}
    BY <1>2 DEF Inv, TypeOK
  <2> QED
    BY <1>2, <1>9, <2>1, CallsStillFit
<1> QED
  BY <1>4, <1>6, <1>7, <1>8, <1>10 DEF Inv, RowsFit

LEMMA AbortKeepsInv ==
  ASSUME Inv, NEW p \in Call, Abort(p)
  PROVE  Inv'
<1>1. /\ \A o \in Opener : opening'[o] \in {opening[o], IdleOpening}
      /\ \A i \in Issuer : issuing'[i] \in {issuing[i], IdleIssuing}
      /\ \A x \in Verifier : verifying'[x] \in {verifying[x], IdleVerifying}
      /\ \A f \in Finalizer : finalizing'[f] \in {finalizing[f], IdleFinalizing}
      /\ opening' = [o \in Opener |-> opening'[o]] /\ issuing' = [i \in Issuer |-> issuing'[i]]
      /\ verifying' = [x \in Verifier |-> verifying'[x]]
      /\ finalizing' = [f \in Finalizer |-> finalizing'[f]]
      /\ UNCHANGED << clock, rows >>
  BY DEF Abort
<1>2. TypeOK /\ clock \in Nat
  BY DEF Inv, TypeOK
<1>3. TypeOK'
  <2>1. opening' \in [Opener -> Opening]
    BY <1>1, <1>2, IdleFits DEF TypeOK
  <2>2. issuing' \in [Issuer -> Issuing]
    BY <1>1, <1>2, IdleFits DEF TypeOK
  <2>3. verifying' \in [Verifier -> Verifying]
    BY <1>1, <1>2, IdleFits DEF TypeOK
  <2>4. finalizing' \in [Finalizer -> Finalizing]
    BY <1>1, <1>2, IdleFits DEF TypeOK
  <2> QED
    BY <1>1, <1>2, <2>1, <2>2, <2>3, <2>4 DEF TypeOK, rows
<1>4. RowsFit'
  BY <1>1, SameRows DEF Inv
<1>5. CallsFit' /\ HoldersAreApart'
  <2>1. Grown
    BY <1>1, <1>2, SameRowsGrow
  <2> QED
    BY <1>1, <2>1, CallsStillFit DEF rows
<1> QED
  BY <1>3, <1>4, <1>5 DEF Inv

LEMMA TickKeepsInv == ASSUME Inv, Tick PROVE Inv'
<1>1. /\ clock \in Nat /\ clock' \in Nat /\ clock <= clock'
      /\ UNCHANGED << rows, opening, issuing, verifying, finalizing >>
  BY DEF Inv, TypeOK, Tick, calls
<1>2. TypeOK'
  BY <1>1 DEF Inv, TypeOK, rows
<1>3. RowsFit'
  BY <1>1, SameRows DEF Inv
<1>4. CallsFit' /\ HoldersAreApart'
  <2>1. Grown
    BY <1>1, SameRowsGrow
  <2> QED
    BY <1>1, <2>1, CallsStillFit DEF rows
<1> QED
  BY <1>2, <1>3, <1>4 DEF Inv

-----------------------------------------------------------------------------
(***************************************************************************)
(* Every step, and the invariant.                                          *)
(***************************************************************************)

LEMMA OneIsIn == ASSUME NEW S, NEW x \in OneOf(S) PROVE x \in S
BY DEF OneOf

LEMMA ReplaceKeepsInv ==
  ASSUME Inv, NEW o \in Opener, NEW r \in NewRegistrations, NEW v \in NewRequests,
         Replace(o, r, v)
  PROVE  Inv'
<1> DEFINE p == opening[o].registration
<1>1. p \in Registration /\ Pending(p)
  BY DEF Replace, Found, Looked, Joined, Inv, CallsFit, OpenerFits
<1>2. Indexed \subseteq {p}
  BY <1>1 DEF Inv, RowsFit, Indexed, Pending
<1> QED
  BY <1>1, <1>2, CreationKeepsInv DEF Replace

LEMMA InsertKeepsInv ==
  ASSUME Inv, NEW o \in Opener, NEW r \in NewRegistrations, NEW v \in NewRequests,
         Insert(o, r, v)
  PROVE  Inv'
BY CreationKeepsInv DEF Insert

\* The steps that write no row.
Reads ==
    \/ \E o \in Opener : OpenerStep(o)
    \/ \E i \in Issuer : (\E v \in Request : BeginIssue(i, v)) \/ PickActive(i)
    \/ \E x \in Verifier : VerifierStep(x)
    \/ \E f \in Finalizer :
         (\E r \in Registration : BeginFinalize(f, r)) \/ BeginWrite(f) \/ CreateUser(f)
    \/ \E p \in Call : Abort(p)

LEMMA StepKinds ==
  ASSUME [Next]_vars
  PROVE  \/ UNCHANGED vars \/ Tick \/ Reads
         \/ \E o \in Opener, r \in NewRegistrations, v \in NewRequests :
              Replace(o, r, v) \/ Insert(o, r, v)
         \/ \E o \in Opener, v \in NewRequests : OpenRecovery(o, v)
         \/ \E i \in Issuer, k \in NewCodes : IssueCode(i, k)
         \/ \E x \in Verifier : Grant(x)
         \/ \E x \in Verifier, r \in NewRegistrations : ReplaceRecovered(x, r)
         \/ \E f \in Finalizer : Complete(f)
<1>1. ASSUME NEW o \in Opener, OpenerNext(o)
      PROVE  \/ OpenerStep(o)
             \/ \E r \in NewRegistrations, v \in NewRequests : Replace(o, r, v) \/ Insert(o, r, v)
             \/ \E v \in NewRequests : OpenRecovery(o, v)
  BY <1>1, OneIsIn DEF OpenerNext, OpenerStep
<1>2. ASSUME NEW i \in Issuer, IssuerNext(i)
      PROVE  \/ (\E v \in Request : BeginIssue(i, v)) \/ PickActive(i)
             \/ \E k \in NewCodes : IssueCode(i, k)
  BY <1>2, OneIsIn DEF IssuerNext
<1>3. ASSUME NEW x \in Verifier, VerifierNext(x)
      PROVE  VerifierStep(x) \/ Grant(x) \/ \E r \in NewRegistrations : ReplaceRecovered(x, r)
  BY <1>3, OneIsIn DEF VerifierNext, VerifierStep
<1> QED
  BY <1>1, <1>2, <1>3 DEF Next, Reads, FinalizerNext

LEMMA ReadsKeepInv == ASSUME Inv, Reads PROVE Inv'
BY OpenerStepKeepsInv, IssuerStepKeepsInv, VerifierStepKeepsInv, FinalizerStepKeepsInv,
   AbortKeepsInv DEF Reads

LEMMA StutterKeepsInv == ASSUME Inv, UNCHANGED vars PROVE Inv'
<1>1. TypeOK'
  BY DEF Inv, TypeOK, vars, rows, calls
<1>2. RowsFit'
  BY SameRows DEF Inv, vars
<1>3. Grown
  BY SameRowsGrow DEF Inv, TypeOK, vars
<1>4. CallsFit' /\ HoldersAreApart'
  BY <1>3, CallsStillFit DEF vars, rows, calls
<1> QED
  BY <1>1, <1>2, <1>4 DEF Inv

LEMMA StepInv == ASSUME Inv, [Next]_vars PROVE Inv'
BY StepKinds, StutterKeepsInv, TickKeepsInv, ReadsKeepInv, ReplaceKeepsInv, InsertKeepsInv,
   OpenRecoveryKeepsInv, IssueCodeKeepsInv, GrantKeepsInv, ReplaceRecoveredKeepsInv,
   CompleteKeepsInv

\* The invariant from which everything below follows holds throughout: the rows
\* of a registration agree, and every call in flight can still rely on what it
\* has read.
THEOREM InvariantHolds == Spec => []Inv
<1>1. Init => Inv
  BY InitInv
<1>2. Inv /\ [Next]_vars => Inv'
  BY StepInv
<1> QED
  BY <1>1, <1>2, PTL DEF Spec

-----------------------------------------------------------------------------
(***************************************************************************)
(* What it says of every state.                                            *)
(***************************************************************************)

\* Every reachable state is of the declared types.
THEOREM TypeCorrect == Spec => []TypeOK
<1>1. Inv => TypeOK
  BY DEF Inv
<1> QED
  BY <1>1, InvariantHolds, PTL

\* However many calls cross, an address has one registration, a registration one
\* recovery under way and a request one active code: the partial indexes say the
\* first and the last, and the lock on the registration says the second.
THEOREM RowsAreUnique == Spec => []OneOfEach
<1>1. ASSUME NEW S, \A v, w \in S : v = w PROVE Cardinality(S) <= 1
  <2>1. CASE S = {}
    BY <2>1, FS_EmptySet
  <2>2. CASE S # {}
    <3>1. PICK v : S = {v}
      BY <1>1, <2>2
    <3>2. Cardinality({v}) = 1
      BY FS_Singleton
    <3> QED
      BY <3>1, <3>2
  <2> QED
    BY <2>1, <2>2
<1>2. Inv => OneOfEach
  <2> SUFFICES ASSUME Inv PROVE OneOfEach
    OBVIOUS
  <2>1. ASSUME NEW r \in Registration PROVE Cardinality(OpenRecoveries(r)) <= 1
    BY <1>1 DEF Inv, RowsFit, RegistrationPart
  <2> QED
    BY <2>1 DEF OneOfEach, Inv, RowsFit, RequestPart
<1> QED
  BY <1>2, InvariantHolds, PTL

\* Every registration has one request that finds it, and its continuation exactly
\* when that request is verified.
THEOREM NoneIsStuck == Spec => []RegistrationsAreReachable
<1>1. Inv => RegistrationsAreReachable
  BY DEF Inv, RowsFit, RegistrationPart, RegistrationsAreReachable
<1> QED
  BY <1>1, InvariantHolds, PTL

\* The account belongs to the registration that is completed and whose
\* continuation was spent, and to no other.
THEOREM AccountsAreEarned == Spec => []AccountIsEarned
<1>1. Inv => AccountIsEarned
  BY DEF Inv, RowsFit, RegistrationPart, AccountIsEarned
<1> QED
  BY <1>1, InvariantHolds, PTL

-----------------------------------------------------------------------------
(***************************************************************************)
(* What a step may do to a registration.                                   *)
(***************************************************************************)

\* The body of RetirementIsJustified.
Justified(r) ==
    \/ registration[r].status = "unborn"
    \/ Pending(r) /\ account' = r
    \/ Pending(r) /\ registration[r].expires <= clock
    \/ \E q \in Registration :
          /\ Pending(r)
          /\ registration[q].status = "unborn" /\ registration'[q].status = "pending"
          /\ \/ registration'[q].continuation = "usable"
             \/ Manual(r) /\ registration'[q].identity # None
             \/ ~Manual(r) /\ registration'[q].identity \in {None, registration[r].identity}
             \/ /\ OpenRecoveries(r) = {}
                /\ \A v \in RequestsOf(r) : request[v].status = "verified"
                /\ registration[r].continuation = "consumed"
                      \/ registration[r].deadline <= clock

\* What lets a registration be replaced by an opening call justifies it: the
\* expiry, the other way to register, the same identity, or nothing left to do.
LEMMA ReplaceIsJustified ==
  ASSUME Inv, NEW o \in Opener, NEW new \in NewRegistrations, NEW v \in NewRequests,
         Replace(o, new, v)
  PROVE  Justified(opening[o].registration)
<1> DEFINE x == opening[o]  r == x.registration
<1>1. /\ x \in Opening /\ x.began <= clock /\ clock \in Nat
      /\ r \in Registration /\ registration[r] \in RegistrationRow /\ Pending(r)
      /\ x.request \in RequestsOf(r)
      /\ RegistrationPart(r)
  BY DEF Replace, Found, Looked, Joined, RequestsOf, Inv, TypeOK, RowsFit, CallsFit, OpenerFits
<1>2. /\ new \in Registration /\ registration[new].status = "unborn"
      /\ registration'[new].status = "pending"
      /\ registration'[new].identity = IdentityOf(x.wants)
  BY DEF NewRegistrations, Replace, CreateRegistration, NewRegistration
<1>3. CASE Expired(x)
  BY <1>1, <1>3 DEF Expired, Opening, RegistrationRow, Justified
<1>4. CASE x.wants = "manual" /\ ManualReplaces(x)
  <2>1. registration'[new].identity = None
    BY <1>2, <1>4, IdentityAssumption DEF IdentityOf
  <2>2. CASE ~Manual(r)
    BY <1>1, <1>2, <2>1, <2>2 DEF Justified
  <2>3. CASE request[x.request].status = "verified" /\ OpenRecoveries(r) = {} /\ ~Usable(x)
    <3>1. RequestsOf(r) = {x.request} /\ registration[r].continuation # "none"
      BY <1>1, <2>3, Numbers DEF RegistrationPart, Pending
    <3>2. registration[r].continuation = "consumed" \/ registration[r].deadline <= clock
      BY <1>1, <2>3, <3>1 DEF Usable, RegistrationRow, Opening
    <3> QED
      BY <1>1, <1>2, <2>3, <3>1, <3>2 DEF Justified
  <2> QED
    BY <1>3, <1>4, <2>2, <2>3 DEF ManualReplaces
<1>5. CASE x.wants \in Identity /\ SocialReplaces(x)
  <2>1. registration'[new].identity = x.wants /\ x.wants # None
    BY <1>2, <1>5, Numbers DEF IdentityOf
  <2>2. CASE Manual(r)
    BY <1>1, <1>2, <2>1, <2>2 DEF Justified
  <2>3. CASE registration[r].identity = x.wants
    BY <1>1, <1>2, <2>1, <2>3 DEF Justified, Manual
  <2> QED
    BY <1>3, <1>5, <2>2, <2>3 DEF SocialReplaces
<1>6. x.wants \in Identity => x.wants # "manual" /\ x.wants # "recovery"
  BY IdentityAssumption
<1> QED
  BY <1>1, <1>4, <1>5, <1>6 DEF Replace, Replaces, Opening

LEMMA RetirementStep ==
  ASSUME Inv, [Next]_vars, NEW r \in Registration,
         registration'[r].status # registration[r].status
  PROVE  Justified(r)
<1>1. registration \in [Registration -> RegistrationRow]
  BY DEF Inv, TypeOK
<1>2. ASSUME UNCHANGED registration PROVE FALSE
  BY <1>2
<1>3. CASE Reads
  <2>1. UNCHANGED registration
    BY <1>3 DEF Reads, OpenerStep, BeginManual, BeginSocial, Find, LockRegistration, LookupLost,
       Keep, InsertConflicts, OpenerReads, BeginIssue, PickActive, IssuerReads, VerifierStep,
       BeginVerify, ReadCode, BeginCompletion, Consume, VerifierReads, BeginFinalize,
       BeginWrite, CreateUser, FinalizerReads, Abort, rows
  <2> QED
    BY <1>2, <2>1
<1>4. ASSUME NEW o \in Opener, NEW new \in NewRegistrations, NEW v \in NewRequests,
             Replace(o, new, v) \/ Insert(o, new, v)
      PROVE  Justified(r)
  <2>1. r = new => registration[r].status = "unborn"
    BY DEF NewRegistrations
  <2>2. CASE Replace(o, new, v)
    <3>1. r = new \/ r = opening[o].registration
      BY <2>2 DEF Replace, CreateRegistration
    <3>2. Justified(opening[o].registration)
      BY <2>2, ReplaceIsJustified
    <3> QED
      BY <2>1, <3>1, <3>2 DEF Justified
  <2>3. CASE Insert(o, new, v)
    BY <2>1, <2>3 DEF Insert, CreateRegistration, Justified
  <2> QED
    BY <1>4, <2>2, <2>3
<1>5. CASE \E x \in Verifier : Grant(x)
  BY <1>1, <1>5 DEF Grant, RegistrationRow
<1>6. ASSUME NEW x \in Verifier, NEW new \in NewRegistrations, ReplaceRecovered(x, new)
      PROVE  Justified(r)
  <2> DEFINE q == verifying[x].registration
  <2>1. new \in Registration /\ registration[new].status = "unborn" /\ Pending(q) /\ q # new
    BY <1>6 DEF NewRegistrations, ReplaceRecovered, Recovered, Replaceable, Pending
  <2>2. registration'[new].status = "pending" /\ registration'[new].continuation = "usable"
    BY <1>1, <1>6, <2>1 DEF ReplaceRecovered, Recovered, NewRegistration
  <2>3. r # q /\ r # new => registration'[r] = registration[r]
    BY <1>1, <1>6 DEF ReplaceRecovered, Recovered
  <2> QED
    BY <2>1, <2>2, <2>3 DEF Justified
<1>7. ASSUME NEW f \in Finalizer, Complete(f) PROVE Justified(r)
  <2>1. r # finalizing[f].registration => registration'[r] = registration[r]
    BY <1>1, <1>7 DEF Complete
  <2> QED
    BY <1>7, <2>1 DEF Complete, Justified
<1> QED
  BY <1>2, <1>3, <1>4, <1>5, <1>6, <1>7, StepKinds DEF vars, rows, Tick, OpenRecovery, IssueCode

\* Nobody can take a registration from an owner who can still finish it: one that
\* has not expired goes only to completion, to a verified recovery, to the other
\* way to register, to its own identity, or when nothing is left to do with it.
THEOREM RetirementsAreJustified == Spec => RetirementIsJustified
<1>1. Inv /\ [Next]_vars =>
        [\A r \in Registration :
           registration'[r].status # registration[r].status => Justified(r)]_vars
  BY RetirementStep
<1> QED
  BY <1>1, InvariantHolds, PTL DEF Spec, RetirementIsJustified, Justified

-----------------------------------------------------------------------------
(***************************************************************************)
(* Deadlocks.                                                              *)
(***************************************************************************)

LEMMA WaitKinds ==
  ASSUME NEW p, NEW q, WaitsFor(p, q)
  PROVE  \/ q \in Opener /\ opening[q].pc = "lockRequest"
         \/ q \in Verifier /\ verifying[q].pc \in {"grant", "replace"}
         \/ q \in Finalizer /\ finalizing[q].pc = "complete"
BY DEF WaitsFor, OpenerWaits, IssuerWaits, VerifierWaits, FinalizerWaits, HoldsRegistration,
       HoldsRequest, HoldsCode, HoldsUser

\* Who holds anything waits, if for anyone, for an opening call.
LEMMA HolderWaits ==
  ASSUME NEW p, NEW q, WaitsFor(p, q),
         \/ p \in Verifier /\ verifying[p].pc \in {"grant", "replace"}
         \/ p \in Finalizer /\ finalizing[p].pc = "complete"
  PROVE  q \in Opener /\ opening[q].pc = "lockRequest"
BY RoleAssumption DEF WaitsFor, VerifierWaits, FinalizerWaits, HoldsRegistration, HoldsRequest,
   HoldsCode, HoldsUser

LEMMA OpenerWaitsForGrant ==
  ASSUME Inv, NEW o \in Opener, NEW x, WaitsFor(o, x), opening[o].pc = "lockRequest"
  PROVE  x \in Verifier /\ verifying[x].pc = "grant" /\ verifying[x].request = opening[o].request
<1>1. /\ x \in Verifier /\ verifying[x].pc \in {"grant", "replace"}
      /\ verifying[x].request = opening[o].request
  BY RoleAssumption DEF WaitsFor, OpenerWaits, HoldsRequest
<1>2. request[opening[o].request].purpose = "registration"
  BY DEF Inv, CallsFit, OpenerFits
<1>3. verifying[x].pc = "replace" => request[verifying[x].request].purpose = "recovery"
  BY <1>1 DEF Inv, CallsFit, VerifierFits
<1> QED
  BY <1>1, <1>2, <1>3

\* In every set of calls that wait for each other, a verification that marks the
\* request of a registration and an opening call that looks that registration up
\* are the two: recoveries, resends and finalizations close no cycle.
THEOREM DeadlocksAreFew == Spec => []DeadlocksAreOpenVsVerify
<1>1. Inv => DeadlocksAreOpenVsVerify
  <2> SUFFICES ASSUME Inv, NEW T \in SUBSET Busy, T # {}, Deadlocked(T)
               PROVE  \E o \in Opener \cap T, x \in Verifier \cap T :
                        /\ opening[o].pc = "lockRequest" /\ verifying[x].pc = "grant"
                        /\ opening[o].request = verifying[x].request
    BY DEF DeadlocksAreOpenVsVerify
  <2>1. PICK p \in T, q \in T : WaitsFor(p, q)
    BY DEF Deadlocked
  <2>2. PICK s \in T : WaitsFor(q, s)
    BY DEF Deadlocked
  <2>3. PICK o \in T : o \in Opener /\ opening[o].pc = "lockRequest"
    BY <2>1, <2>2, WaitKinds, HolderWaits
  <2>4. PICK x \in T : WaitsFor(o, x)
    BY DEF Deadlocked
  <2> QED
    BY <2>3, <2>4, OpenerWaitsForGrant
<1> QED
  BY <1>1, InvariantHolds, PTL

-----------------------------------------------------------------------------
(***************************************************************************)
(* Refinement of Enrolment.                                                *)
(***************************************************************************)

\* A reading of the Go clock is never ahead of the clock, and a recovery is for a
\* registration that was verified once.
ReadingsFit ==
    /\ \A o \in Opener : opening[o].now <= clock
    /\ \A x \in Verifier : verifying[x].began <= clock

RecoveriesFit ==
    \A v \in Request : request[v].purpose = "recovery" =>
        /\ request[v].subject \in Registration
        /\ registration[request[v].subject].continuation # "none"

Backed == ReadingsFit /\ RecoveriesFit

LEMMA BackedInit == ASSUME Init PROVE Backed
BY DEF Init, Backed, ReadingsFit, RecoveriesFit, IdleOpening, IdleVerifying

\* What calls keep in mind is at most the present time, or what it was.
OpenersKeepTime == \A o \in Opener : opening'[o].now \in {0, clock, opening[o].now}

VerifiersKeepTime ==
    \A x \in Verifier : verifying'[x].began \in {0, clock, verifying[x].began}

LEMMA ReadingsStillFit ==
  ASSUME Inv, ReadingsFit, clock' \in Nat, clock <= clock', OpenersKeepTime, VerifiersKeepTime
  PROVE  ReadingsFit'
<1>1. /\ clock \in Nat
      /\ \A o \in Opener : opening[o].now \in Nat
      /\ \A x \in Verifier : verifying[x].began \in Nat
  BY DEF Inv, TypeOK, Opening, Verifying
<1> QED
  BY <1>1 DEF ReadingsFit, OpenersKeepTime, VerifiersKeepTime

LEMMA OpenerTells ==
  ASSUME TypeOK, NEW o \in Opener, NEW y \in Opening, Opens(o, y),
         y.now \in {0, clock, opening[o].now}
  PROVE  OpenersKeepTime
<1>1. opening'[o] = y /\ \A p \in Opener : p # o => opening'[p] = opening[p]
  BY DEF Opens, TypeOK
<1> QED
  BY <1>1 DEF OpenersKeepTime

LEMMA VerifierTells ==
  ASSUME TypeOK, NEW x \in Verifier, NEW y \in Verifying, Verifies(x, y),
         y.began \in {0, clock, verifying[x].began}
  PROVE  VerifiersKeepTime
<1>1. verifying'[x] = y /\ \A z \in Verifier : z # x => verifying'[z] = verifying[z]
  BY DEF Verifies, TypeOK
<1> QED
  BY <1>1 DEF VerifiersKeepTime

\* A call reads the clock when it begins or computes its deadlines.
LEMMA OpenerStepKeepsTime ==
  ASSUME TypeOK, NEW o \in Opener, OpenerStep(o)
  PROVE  OpenersKeepTime /\ UNCHANGED << clock, rows, verifying >>
<1> DEFINE x == opening[o]
<1>1. x \in Opening /\ clock \in Nat
  BY DEF TypeOK
<1>2. ASSUME NEW w \in Identity \cup {"manual", "recovery"},
             Opens(o, [IdleOpening EXCEPT !.pc = "find", !.wants = w, !.now = clock])
      PROVE  OpenersKeepTime
  <2> DEFINE y == [IdleOpening EXCEPT !.pc = "find", !.wants = w, !.now = clock]
  <2>1. y \in Opening /\ y.now = clock
    BY <1>1 DEF IdleOpening, Opening, TypeOK
  <2> QED
    BY <1>2, <2>1, OpenerTells
<1>3. ASSUME Opens(o, IdleOpening) PROVE OpenersKeepTime
  <2>1. IdleOpening.now = 0
    BY DEF IdleOpening
  <2> QED
    BY <1>3, <2>1, OpenerTells, IdleFits
<1>4. ASSUME NEW z \in Opening, z.now = x.now, NothingFound(o, z) PROVE OpenersKeepTime
  <2> DEFINE y == [IdleOpening EXCEPT !.pc = "insert", !.wants = z.wants, !.now = z.now,
                                      !.retried = z.retried]
  <2>1. y \in Opening /\ y.now = x.now
    BY <1>4 DEF IdleOpening, Opening
  <2> QED
    BY <1>3, <1>4, <2>1, OpenerTells DEF NothingFound
<1>5. ASSUME Find(o) PROVE OpenersKeepTime
  <2> DEFINE z == [x EXCEPT !.began = clock]
  <2>1. z \in Opening /\ z.now = x.now
    BY <1>1 DEF Opening, TypeOK
  <2>2. ASSUME NEW r \in Registration, NEW v \in Request,
               Opens(o, [z EXCEPT !.pc = "lockRegistration", !.registration = r, !.request = v])
        PROVE  OpenersKeepTime
    <3> DEFINE y == [z EXCEPT !.pc = "lockRegistration", !.registration = r, !.request = v]
    <3>1. y \in Opening /\ y.now = x.now
      BY <2>1 DEF Opening
    <3> QED
      BY <2>2, <3>1, OpenerTells
  <2> QED
    BY <1>4, <1>5, <2>1, <2>2 DEF Find
<1>6. ASSUME LockRegistration(o) PROVE OpenersKeepTime
  <2> DEFINE y == [x EXCEPT !.pc = "lockRequest"]
  <2>1. y \in Opening /\ y.now = x.now
    BY <1>1 DEF Opening
  <2> QED
    BY <1>6, <2>1, OpenerTells DEF LockRegistration
<1>7. ASSUME InsertConflicts(o) PROVE OpenersKeepTime
  <2> DEFINE y == [x EXCEPT !.pc = "find", !.retried = TRUE]
  <2>1. y \in Opening /\ y.now = x.now
    BY <1>1 DEF Opening
  <2> QED
    BY <1>3, <1>7, <2>1, OpenerTells DEF InsertConflicts
<1>8. ASSUME LookupLost(o) \/ Keep(o) PROVE OpenersKeepTime
  BY <1>1, <1>3, <1>4, <1>8 DEF LookupLost, Keep
<1>9. OpenersKeepTime
  BY <1>2, <1>5, <1>6, <1>7, <1>8 DEF OpenerStep, BeginManual, BeginSocial
<1>10. UNCHANGED << clock, rows, verifying >>
  BY DEF OpenerStep, BeginManual, BeginSocial, Find, LockRegistration, LookupLost, Keep,
     InsertConflicts, OpenerReads
<1> QED
  BY <1>9, <1>10

LEMMA VerifierStepKeepsTime ==
  ASSUME TypeOK, NEW x \in Verifier, VerifierStep(x)
  PROVE  VerifiersKeepTime /\ UNCHANGED << clock, rows, opening >>
<1> DEFINE y == verifying[x]
<1>1. y \in Verifying /\ clock \in Nat
  BY DEF TypeOK
<1>2. ASSUME Verifies(x, IdleVerifying) PROVE VerifiersKeepTime
  <2>1. IdleVerifying.began = 0
    BY DEF IdleVerifying
  <2> QED
    BY <1>2, <2>1, VerifierTells, IdleFits
<1>3. ASSUME NEW v \in Request, BeginVerify(x, v) PROVE VerifiersKeepTime
  <2> DEFINE z == [IdleVerifying EXCEPT !.pc = "read", !.request = v,
                                        !.registration = request[v].subject]
  <2>1. z \in Verifying /\ z.began = 0
    BY <1>3 DEF IdleVerifying, Verifying, BeginVerify, TypeOK, RequestRow
  <2> QED
    BY <1>3, <2>1, VerifierTells DEF BeginVerify
<1>4. ASSUME ReadCode(x) PROVE VerifiersKeepTime
  <2>1. ASSUME NEW k \in Code, Verifies(x, [y EXCEPT !.pc = "match", !.code = k])
        PROVE  VerifiersKeepTime
    <3> DEFINE z == [y EXCEPT !.pc = "match", !.code = k]
    <3>1. z \in Verifying /\ z.began = y.began
      BY <1>1 DEF Verifying
    <3> QED
      BY <2>1, <3>1, VerifierTells
  <2> QED
    BY <1>2, <1>4, <2>1 DEF ReadCode, Readable, ActiveCodes
<1>5. ASSUME BeginCompletion(x) PROVE VerifiersKeepTime
  <2> DEFINE z == [y EXCEPT !.pc = "consume", !.began = clock]
  <2>1. z \in Verifying /\ z.began = clock
    BY <1>1 DEF Verifying
  <2> QED
    BY <1>5, <2>1, VerifierTells DEF BeginCompletion
<1>6. ASSUME Consume(x) PROVE VerifiersKeepTime
  <2>1. Granting(y) \in Verifying /\ Granting(y).began = y.began
    BY <1>1 DEF Granting, Verifying
  <2> QED
    BY <1>2, <1>6, <2>1, VerifierTells DEF Consume
<1>7. VerifiersKeepTime
  BY <1>2, <1>3, <1>4, <1>5, <1>6 DEF VerifierStep
<1>8. UNCHANGED << clock, rows, opening >>
  BY DEF VerifierStep, BeginVerify, ReadCode, BeginCompletion, Consume, VerifierReads
<1> QED
  BY <1>7, <1>8

LEMMA ReadsKeepTime ==
  ASSUME TypeOK, Reads
  PROVE  OpenersKeepTime /\ VerifiersKeepTime /\ UNCHANGED << clock, rows >>
<1>1. (UNCHANGED opening => OpenersKeepTime) /\ (UNCHANGED verifying => VerifiersKeepTime)
  BY DEF OpenersKeepTime, VerifiersKeepTime
<1>2. ASSUME NEW i \in Issuer, (\E v \in Request : BeginIssue(i, v)) \/ PickActive(i)
      PROVE  UNCHANGED << clock, rows, opening, verifying >>
  BY <1>2 DEF BeginIssue, PickActive, IssuerReads
<1>3. ASSUME NEW f \in Finalizer,
             (\E r \in Registration : BeginFinalize(f, r)) \/ BeginWrite(f) \/ CreateUser(f)
      PROVE  UNCHANGED << clock, rows, opening, verifying >>
  BY <1>3 DEF BeginFinalize, BeginWrite, CreateUser, FinalizerReads
<1>4. ASSUME NEW p \in Call, Abort(p)
      PROVE  OpenersKeepTime /\ VerifiersKeepTime /\ UNCHANGED << clock, rows >>
  BY <1>4 DEF Abort, IdleOpening, IdleVerifying, OpenersKeepTime, VerifiersKeepTime
<1> QED
  BY <1>1, <1>2, <1>3, <1>4, OpenerStepKeepsTime, VerifierStepKeepsTime DEF Reads

\* Everything but Reads either leaves the calls' readings or puts the writer's call
\* to rest.
LEMMA WritesKeepTime ==
  ASSUME TypeOK, [Next]_vars, ~Reads
  PROVE  /\ OpenersKeepTime /\ VerifiersKeepTime
         /\ clock' \in Nat /\ clock <= clock'
<1>1. clock \in Nat /\ IdleOpening.now = 0 /\ IdleVerifying.began = 0
  BY DEF TypeOK, IdleOpening, IdleVerifying
<1>2. (UNCHANGED opening => OpenersKeepTime) /\ (UNCHANGED verifying => VerifiersKeepTime)
  BY DEF OpenersKeepTime, VerifiersKeepTime
<1>3. \A o \in Opener : Opens(o, IdleOpening) => OpenersKeepTime
  BY <1>1, OpenerTells, IdleFits
<1>4. \A x \in Verifier : Verifies(x, IdleVerifying) => VerifiersKeepTime
  BY <1>1, VerifierTells, IdleFits
<1>5. CASE UNCHANGED vars \/ Tick
  BY <1>1, <1>2, <1>5 DEF vars, Tick, calls
<1>6. ASSUME NEW o \in Opener, NEW r \in NewRegistrations, NEW v \in NewRequests,
             Replace(o, r, v) \/ Insert(o, r, v)
      PROVE  OpenersKeepTime /\ VerifiersKeepTime /\ clock' = clock
  BY <1>2, <1>3, <1>6 DEF Replace, Insert, CreateRegistration
<1>7. ASSUME NEW o \in Opener, NEW v \in NewRequests, OpenRecovery(o, v)
      PROVE  OpenersKeepTime /\ VerifiersKeepTime /\ clock' = clock
  BY <1>2, <1>3, <1>7 DEF OpenRecovery
<1>8. ASSUME NEW i \in Issuer, NEW k \in NewCodes, IssueCode(i, k)
      PROVE  OpenersKeepTime /\ VerifiersKeepTime /\ clock' = clock
  BY <1>2, <1>8 DEF IssueCode
<1>9. ASSUME NEW x \in Verifier, Grant(x)
      PROVE  OpenersKeepTime /\ VerifiersKeepTime /\ clock' = clock
  BY <1>2, <1>4, <1>9 DEF Grant
<1>10. ASSUME NEW x \in Verifier, NEW r \in NewRegistrations, ReplaceRecovered(x, r)
       PROVE  OpenersKeepTime /\ VerifiersKeepTime /\ clock' = clock
  BY <1>2, <1>4, <1>10 DEF ReplaceRecovered, Recovered
<1>11. ASSUME NEW f \in Finalizer, Complete(f)
       PROVE  OpenersKeepTime /\ VerifiersKeepTime /\ clock' = clock
  BY <1>2, <1>11 DEF Complete
<1> QED
  BY <1>1, <1>5, <1>6, <1>7, <1>8, <1>9, <1>10, <1>11, StepKinds

LEMMA ReadingsStep == ASSUME Inv, ReadingsFit, [Next]_vars PROVE ReadingsFit'
<1>1. TypeOK /\ clock \in Nat
  BY DEF Inv, TypeOK
<1> QED
  BY <1>1, ReadsKeepTime, WritesKeepTime, ReadingsStillFit

\* A creation or a verification writes the row of its own request; the other
\* recoveries are of registrations that are born, which keep their continuation.
LEMMA RecoveriesStep == ASSUME Inv, RecoveriesFit, [Next]_vars PROVE RecoveriesFit'
<1>1. /\ registration \in [Registration -> RegistrationRow]
      /\ request \in [Request -> RequestRow]
  BY DEF Inv, TypeOK
<1>2. \A v \in Request, r \in NewRegistrations : request[v].subject # r
  BY DEF NewRegistrations, Inv, RowsFit, RegistrationPart
<1>3. ASSUME UNCHANGED << registration, request >> PROVE RecoveriesFit'
  BY <1>3 DEF RecoveriesFit
<1>4. ASSUME NEW o \in Opener, NEW r \in NewRegistrations, NEW v \in NewRequests,
             Replace(o, r, v) \/ Insert(o, r, v)
      PROVE  RecoveriesFit'
  <2>1. \A q \in Registration : q # r =>
           registration'[q].continuation = registration[q].continuation
    <3>1. \A q \in Registration : registration[q] \in RegistrationRow
      BY <1>1
    <3> QED
      BY <1>4, <3>1 DEF Replace, Insert, CreateRegistration, RegistrationRow
  <2>2. /\ request'[v].purpose = "registration"
        /\ \A w \in Request : w # v => request'[w] = request[w]
    BY <1>1, <1>4 DEF Replace, Insert, CreateRegistration, NewRequests, NewRequest
  <2> QED
    BY <1>2, <2>1, <2>2 DEF RecoveriesFit
<1>5. ASSUME NEW o \in Opener, NEW v \in NewRequests, OpenRecovery(o, v) PROVE RecoveriesFit'
  <2>1. PICK s \in Registration, u \in Request :
          /\ s = opening[o].registration /\ u = opening[o].request
          /\ Joined(s, u) /\ request[u].status = "verified"
    BY <1>5 DEF Inv, CallsFit, OpenerFits, OpenRecovery, Found, Looked, Recovers
  <2>2. registration[s].continuation # "none"
    <3>1. RegistrationPart(s) /\ u \in RequestsOf(s)
      BY <2>1 DEF Inv, RowsFit, RequestsOf, Joined
    <3> QED
      BY <2>1, <3>1 DEF RegistrationPart, Joined, Pending
  <2>3. /\ request'[v].subject = s
        /\ \A w \in Request : w # v => request'[w] = request[w]
        /\ UNCHANGED registration
    BY <1>1, <1>5, <2>1 DEF OpenRecovery, NewRequests, NewRequest
  <2> QED
    BY <2>2, <2>3 DEF RecoveriesFit
<1>6. ASSUME NEW i \in Issuer, NEW k \in NewCodes, IssueCode(i, k) PROVE RecoveriesFit'
  <2>1. PICK u \in Request, began \in Nat :
          u = issuing[i].request /\ began = issuing[i].began
    BY <1>6 DEF IssueCode, Inv, TypeOK, Issuing, CallsFit, IssuerFits
  <2>2. request' = [request EXCEPT ![u] = [request[u] EXCEPT !.lastSent = began]]
    BY <1>6, <2>1 DEF IssueCode
  <2>3. \A w \in Request : /\ request'[w].purpose = request[w].purpose
                           /\ request'[w].subject = request[w].subject
    BY <1>1, <2>2 DEF RequestRow
  <2> QED
    BY <1>6, <2>3 DEF IssueCode, RecoveriesFit
<1>7. ASSUME NEW x \in Verifier, Grant(x) PROVE RecoveriesFit'
  <2>1. PICK u \in Request : u = verifying[x].request
    BY <1>7, Verified DEF Grant
  <2>2. \A w \in Request : /\ request'[w].purpose = request[w].purpose
                           /\ request'[w].subject = request[w].subject
    BY <1>1, <1>7, <2>1 DEF Grant, RequestRow
  <2>3. \A q \in Registration :
           registration'[q].continuation \in {"usable", registration[q].continuation}
    BY <1>1, <1>7 DEF Grant, RegistrationRow
  <2> QED
    BY <2>2, <2>3 DEF RecoveriesFit
<1>8. ASSUME NEW x \in Verifier, NEW r \in NewRegistrations, ReplaceRecovered(x, r)
      PROVE  RecoveriesFit'
  <2>1. PICK u \in Request : u = verifying[x].request
    BY <1>8, Verified DEF ReplaceRecovered, Recovered
  <2>2. /\ request'[u].purpose = "registration"
        /\ \A w \in Request : w # u => request'[w] = request[w]
    BY <1>1, <1>8, <2>1 DEF ReplaceRecovered, Recovered, RequestRow
  <2>3. \A q \in Registration : q # r =>
           registration'[q].continuation = registration[q].continuation
    BY <1>1, <1>8 DEF ReplaceRecovered, Recovered, RegistrationRow
  <2> QED
    BY <1>2, <2>2, <2>3 DEF RecoveriesFit
<1>9. ASSUME NEW f \in Finalizer, Complete(f) PROVE RecoveriesFit'
  <2>1. \A q \in Registration :
           registration'[q].continuation \in {"consumed", registration[q].continuation}
    BY <1>1, <1>9 DEF Complete, RegistrationRow
  <2> QED
    BY <1>9, <2>1 DEF Complete, RecoveriesFit
<1>10. ASSUME UNCHANGED vars \/ Tick \/ Reads PROVE RecoveriesFit'
  BY <1>3, <1>10, ReadsKeepTime DEF Inv, vars, Tick, rows
<1> QED
  BY <1>4, <1>5, <1>6, <1>7, <1>8, <1>9, <1>10, StepKinds

LEMMA AlwaysBacked == Spec => []Backed
<1>1. Init => Backed
  BY BackedInit
<1>2. Inv /\ Backed /\ [Next]_vars => Backed'
  BY ReadingsStep, RecoveriesStep DEF Backed
<1> QED
  BY <1>1, <1>2, InvariantHolds, PTL DEF Spec

\* An insertion begins a registration, in place of the ones it retires.
LEMMA CreationBegins ==
  ASSUME Inv, Backed, NEW o \in Opener, NEW old \in SUBSET Registration,
         NEW r \in NewRegistrations, NEW v \in NewRequests,
         \A q \in old : Pending(q), CreateRegistration(o, old, r, v)
  PROVE  /\ Promise!Begins(r, IdentityOf(opening[o].wants), old, "none")
         /\ [q \in Registration |-> OpenRecoveries(q) # {}]'
              = [q \in Registration |-> OpenRecoveries(q) # {}]
<1> DEFINE x == opening[o]
<1>1. /\ x \in Opening /\ x.now \in Nat /\ x.now <= clock /\ clock \in Nat
      /\ r \in Registration /\ registration[r].status = "unborn" /\ r \notin old
      /\ \A q \in Registration : registration[q] \in RegistrationRow
      /\ request \in [Request -> RequestRow]
      /\ v \in Request /\ request[v].status = "unborn" /\ request[v].subject = None
  BY DEF Inv, TypeOK, RowsFit, RequestPart, Backed, ReadingsFit, NewRegistrations, NewRequests,
     Pending, Opening
<1>2. PICK i \in Identity \cup {None} : i = IdentityOf(x.wants)
  BY DEF IdentityOf
<1>3. PICK d \in 0 .. clock + RegistrationLifetime : d = x.now + RegistrationLifetime
  BY <1>1, Numbers
<1>4. \A q \in Registration :
         registration'[q] = IF q = r THEN NewRegistration(i, d, "none", 0)
                            ELSE IF q \in old THEN [registration[q] EXCEPT !.status = "expired"]
                            ELSE registration[q]
  BY <1>2, <1>3 DEF CreateRegistration
<1>5. registration'[r] = [status |-> "pending", identity |-> i, expires |-> d,
                          continuation |-> "none", deadline |-> 0]
  BY <1>1, <1>4 DEF NewRegistration
<1>6. ASSUME NEW q \in Registration, q # r
      PROVE  /\ registration'[q].status = IF q \in old THEN "expired" ELSE registration[q].status
             /\ registration'[q].identity = registration[q].identity
             /\ registration'[q].expires = registration[q].expires
             /\ registration'[q].continuation = registration[q].continuation
             /\ registration'[q].deadline = registration[q].deadline
  BY <1>1, <1>4, <1>6 DEF RegistrationRow
<1>7. \A q \in Registration : OpenRecoveries(q)' = OpenRecoveries(q)
  <2>1. /\ request'[v].purpose = "registration"
        /\ \A w \in Request : w # v => request'[w] = request[w]
    BY <1>1 DEF CreateRegistration, NewRequest
  <2>2. \A q \in Registration : v \notin OpenRecoveries(q)
    BY <1>1 DEF OpenRecoveries
  <2> QED
    BY <2>1, <2>2 DEF OpenRecoveries
<1>8. [q \in Registration |-> registration[q].status]'
        = [q \in Registration |-> IF q = r THEN "pending"
             ELSE IF q \in old THEN "expired"
             ELSE [p \in Registration |-> registration[p].status][q]]
  BY <1>5, <1>6
<1>9. [q \in Registration |-> registration[q].identity]'
        = [[q \in Registration |-> registration[q].identity] EXCEPT ![r] = i]
  <2>1. \A q \in Registration :
           registration'[q].identity = IF q = r THEN i ELSE registration[q].identity
    BY <1>5, <1>6
  <2> QED
    BY <2>1
<1>10. [q \in Registration |-> registration[q].continuation]'
         = [[q \in Registration |-> registration[q].continuation] EXCEPT ![r] = "none"]
  <2>1. \A q \in Registration :
           registration'[q].continuation = IF q = r THEN "none" ELSE registration[q].continuation
    BY <1>5, <1>6
  <2> QED
    BY <2>1
<1>11. [q \in Registration |-> registration[q].expires]'
         = [[q \in Registration |-> registration[q].expires] EXCEPT ![r] = d]
  <2>1. \A q \in Registration :
           registration'[q].expires = IF q = r THEN d ELSE registration[q].expires
    BY <1>5, <1>6
  <2> QED
    BY <2>1
<1>12. /\ 0 \in 0 .. clock + ContinuationLifetime
       /\ [q \in Registration |-> registration[q].deadline]'
            = [[q \in Registration |-> registration[q].deadline] EXCEPT ![r] = 0]
  <2>1. 0 \in 0 .. clock + ContinuationLifetime
    BY <1>1, Numbers
  <2>2. \A q \in Registration :
           registration'[q].deadline = IF q = r THEN 0 ELSE registration[q].deadline
    BY <1>5, <1>6
  <2> QED
    BY <2>1, <2>2
<1>13. UNCHANGED << clock, account >>
  BY DEF CreateRegistration
<1>14. Promise!Begins(r, i, old, "none")
  BY <1>1, <1>8, <1>9, <1>10, <1>11, <1>12, <1>13 DEF Promise!Begins
<1> QED
  BY <1>2, <1>7, <1>14

LEMMA InsertKeepsPromise ==
  ASSUME Inv, Backed, NEW o \in Opener, NEW r \in NewRegistrations, NEW v \in NewRequests,
         Insert(o, r, v)
  PROVE  \E q \in Registration, i \in Identity \cup {None} : Promise!Entered(q, i)
<1>1. PICK i \in Identity \cup {None} : i = IdentityOf(opening[o].wants)
  BY DEF IdentityOf
<1>2. /\ Promise!Begins(r, i, {}, "none")
      /\ [q \in Registration |-> OpenRecoveries(q) # {}]'
           = [q \in Registration |-> OpenRecoveries(q) # {}]
  BY <1>1, CreationBegins DEF Insert
<1>3. \A q \in Registration : registration[q].status \notin {"pending", "completed"}
  BY DEF Insert, Indexed
<1>4. Promise!Entered(r, i)
  BY <1>2, <1>3 DEF Promise!Entered
<1> QED
  BY <1>4 DEF NewRegistrations

\* What a lookup accepts as a reason is one for the owner, who may be told by a
\* stale clock, but never one that is ahead.
LEMMA ReplacesGivesWay ==
  ASSUME Inv, Backed, NEW o \in Opener, Found(o), Replaces(opening[o])
  PROVE  Promise!GivesWay(opening[o].registration, IdentityOf(opening[o].wants))
<1> DEFINE x == opening[o]  r == x.registration  i == IdentityOf(x.wants)
<1>1. /\ x \in Opening /\ x.began <= clock /\ clock \in Nat
      /\ r \in Registration /\ registration[r] \in RegistrationRow /\ Pending(r)
      /\ x.request \in RequestsOf(r)
      /\ RegistrationPart(r)
  BY DEF Found, Looked, Joined, RequestsOf, Inv, TypeOK, RowsFit, CallsFit, OpenerFits
<1>2. /\ [q \in Registration |-> registration[q].expires][r] = registration[r].expires
      /\ [q \in Registration |-> registration[q].identity][r] = registration[r].identity
      /\ [q \in Registration |-> registration[q].continuation][r] = registration[r].continuation
      /\ [q \in Registration |-> registration[q].deadline][r] = registration[r].deadline
      /\ [q \in Registration |-> OpenRecoveries(q) # {}][r] <=> OpenRecoveries(r) # {}
  BY <1>1
<1>3. request[x.request].status = "verified" <=> registration[r].continuation # "none"
  BY <1>1 DEF RegistrationPart, Pending
<1>4. CASE Expired(x)
  BY <1>1, <1>2, <1>4 DEF Expired, Opening, RegistrationRow, Promise!GivesWay
<1>5. CASE x.wants = "manual" /\ ManualReplaces(x)
  <2>1. i = None
    BY <1>5, IdentityAssumption DEF IdentityOf
  <2>2. CASE ~Manual(r)
    BY <1>2, <2>1, <2>2 DEF Manual, Promise!GivesWay
  <2>3. CASE /\ Manual(r) /\ request[x.request].status = "verified"
             /\ OpenRecoveries(r) = {} /\ ~Usable(x)
    <3>1. registration[r].continuation # "usable" => account = r
      BY <1>1, <1>3, <2>3 DEF RegistrationPart, RegistrationRow
    <3>2. registration[r].deadline <= clock
      BY <1>1, <2>3, <3>1 DEF Usable, RegistrationPart, Pending, RegistrationRow, Opening
    <3> QED
      BY <1>2, <1>3, <2>1, <2>3, <3>2 DEF Manual, Promise!GivesWay
  <2> QED
    BY <1>4, <1>5, <2>2, <2>3 DEF ManualReplaces
<1>6. CASE x.wants \in Identity /\ SocialReplaces(x)
  <2>1. i = x.wants /\ i # None
    BY <1>6, Numbers DEF IdentityOf
  <2>2. CASE Manual(r)
    BY <1>2, <2>1, <2>2 DEF Manual, Promise!GivesWay
  <2>3. CASE registration[r].identity = x.wants /\ request[x.request].status = "verified"
    BY <1>2, <1>3, <2>1, <2>3 DEF Promise!GivesWay
  <2> QED
    BY <1>4, <1>6, <2>2, <2>3 DEF SocialReplaces
<1>7. x.wants \in Identity => x.wants # "manual" /\ x.wants # "recovery"
  BY IdentityAssumption
<1> QED
  BY <1>1, <1>5, <1>6, <1>7 DEF Replaces, Opening

LEMMA ReplaceKeepsPromise ==
  ASSUME Inv, Backed, NEW o \in Opener, NEW r \in NewRegistrations, NEW v \in NewRequests,
         Replace(o, r, v)
  PROVE  \E q, p \in Registration, i \in Identity \cup {None} : Promise!Replaced(q, p, i)
<1>1. PICK i \in Identity \cup {None} : i = IdentityOf(opening[o].wants)
  BY DEF IdentityOf
<1>2. PICK q \in Registration : q = opening[o].registration /\ Pending(q)
  BY DEF Replace, Found, Looked, Joined, Inv, CallsFit, OpenerFits
<1>3. /\ Promise!Begins(r, i, {q}, "none")
      /\ [p \in Registration |-> OpenRecoveries(p) # {}]'
           = [p \in Registration |-> OpenRecoveries(p) # {}]
  BY <1>1, <1>2, CreationBegins DEF Replace
<1>4. Promise!GivesWay(q, i)
  BY <1>1, <1>2, ReplacesGivesWay DEF Replace
<1>5. [p \in Registration |-> registration[p].status][q] = "pending"
  BY <1>2 DEF Pending
<1>6. Promise!Replaced(q, r, i)
  BY <1>3, <1>4, <1>5 DEF Promise!Replaced
<1> QED
  BY <1>6 DEF NewRegistrations

LEMMA OpenRecoveryKeepsPromise ==
  ASSUME Inv, NEW o \in Opener, NEW v \in NewRequests, OpenRecovery(o, v)
  PROVE  \E r \in Registration : Promise!RecoveryOpened(r)
<1>1. PICK r \in Registration, u \in Request :
        /\ r = opening[o].registration /\ u = opening[o].request
        /\ Joined(r, u) /\ Manual(r) /\ request[u].status = "verified"
        /\ OpenRecoveries(r) = {}
        /\ request' = [request EXCEPT ![v] = NewRequest("recovery", r)]
  BY DEF Inv, CallsFit, OpenerFits, OpenRecovery, Found, Looked, Recovers
<1>2. /\ request \in [Request -> RequestRow] /\ v \in Request /\ request[v].subject = None
  BY DEF Inv, TypeOK, RowsFit, RequestPart, NewRequests
<1>3. registration[r].status = "pending" /\ registration[r].continuation # "none"
  <2>1. RegistrationPart(r) /\ u \in RequestsOf(r)
    BY <1>1 DEF Inv, RowsFit, RequestsOf, Joined
  <2> QED
    BY <1>1, <2>1 DEF RegistrationPart, Joined, Pending
<1>4. \A q \in Registration :
         (OpenRecoveries(q) # {})' <=> IF q = r THEN TRUE ELSE OpenRecoveries(q) # {}
  <2>1. v \in OpenRecoveries(r)'
    BY <1>1, <1>2 DEF OpenRecoveries, NewRequest
  <2>2. ASSUME NEW q \in Registration, q # r PROVE OpenRecoveries(q)' = OpenRecoveries(q)
    BY <1>1, <1>2, <2>2, Numbers DEF OpenRecoveries, NewRequest
  <2> QED
    BY <2>1, <2>2
<1>5. [q \in Registration |-> OpenRecoveries(q) # {}]'
        = [[q \in Registration |-> OpenRecoveries(q) # {}] EXCEPT ![r] = TRUE]
  BY <1>4
<1>6. UNCHANGED << clock, registration, account >>
  BY DEF OpenRecovery
<1>7. Promise!RecoveryOpened(r)
  BY <1>1, <1>3, <1>5, <1>6 DEF Promise!RecoveryOpened, Manual
<1> QED
  BY <1>7

\* A registration is granted its right once, and only one that is born.
LEMMA GrantKeepsPromise ==
  ASSUME Inv, Backed, NEW x \in Verifier, Grant(x)
  PROVE  \E r \in Registration : Promise!Earned(r)
<1>1. PICK v \in Request, r \in Registration, began \in Nat :
        /\ v = verifying[x].request /\ r = verifying[x].registration
        /\ began = verifying[x].began
        /\ request[v].status = "pending" /\ request[v].subject = r
        /\ request[v].purpose = "registration"
  BY Verified DEF Grant, Verifying
<1>2. /\ \A q \in Registration : registration[q] \in RegistrationRow
      /\ registration \in [Registration -> RegistrationRow]
      /\ request \in [Request -> RequestRow]
      /\ clock \in Nat /\ began <= clock /\ RegistrationPart(r)
  BY <1>1 DEF Inv, TypeOK, RowsFit, Backed, ReadingsFit
<1>3. PICK l \in 0 .. clock + ContinuationLifetime : l = began + ContinuationLifetime
  BY <1>1, <1>2, Numbers
<1>4. ASSUME NEW q \in Registration
      PROVE  /\ registration'[q].status = registration[q].status
             /\ registration'[q].identity = registration[q].identity
             /\ registration'[q].expires = registration[q].expires
             /\ registration'[q].continuation
                  = IF q = r THEN "usable" ELSE registration[q].continuation
             /\ registration'[q].deadline = IF q = r THEN l ELSE registration[q].deadline
  <2>1. registration' = [registration EXCEPT ![r] =
          [registration[r] EXCEPT !.continuation = "usable", !.deadline = l]]
    BY <1>1, <1>2, <1>3 DEF Grant
  <2> QED
    BY <1>2, <2>1 DEF RegistrationRow
<1>5. \A q \in Registration : OpenRecoveries(q)' = OpenRecoveries(q)
  <2>1. /\ request'[v].purpose = "registration"
        /\ \A w \in Request : w # v => request'[w] = request[w]
    BY <1>1, <1>2 DEF Grant, RequestRow
  <2>2. \A q \in Registration : v \notin OpenRecoveries(q)
    BY <1>1 DEF OpenRecoveries
  <2> QED
    BY <2>1, <2>2 DEF OpenRecoveries
<1>6. [q \in Registration |-> registration[q].continuation]'
        = [[q \in Registration |-> registration[q].continuation] EXCEPT ![r] = "usable"]
  BY <1>4
<1>7. [q \in Registration |-> registration[q].deadline]'
        = [[q \in Registration |-> registration[q].deadline] EXCEPT ![r] = l]
  BY <1>4
<1>8. UNCHANGED << clock, [q \in Registration |-> registration[q].status],
                   [q \in Registration |-> registration[q].identity],
                   [q \in Registration |-> registration[q].expires],
                   [q \in Registration |-> OpenRecoveries(q) # {}], account >>
  <2>1. UNCHANGED << clock, account >>
    BY DEF Grant
  <2> QED
    BY <1>4, <1>5, <2>1
<1>9. registration[r].status # "unborn" /\ registration[r].continuation = "none"
  BY <1>1, <1>2 DEF RegistrationPart, Grant
<1>10. Promise!Earned(r)
  BY <1>6, <1>7, <1>8, <1>9 DEF Promise!Earned
<1> QED
  BY <1>10

\* The recovery that was verified was the only one.
LEMMA ReplaceRecoveredKeepsPromise ==
  ASSUME Inv, Backed, NEW x \in Verifier, NEW new \in NewRegistrations, ReplaceRecovered(x, new)
  PROVE  \E q, r \in Registration : Promise!Recovered(q, r)
<1>1. PICK v \in Request, q \in Registration, began \in Nat :
        /\ v = verifying[x].request /\ q = verifying[x].registration
        /\ began = verifying[x].began
        /\ request[v].status = "pending" /\ request[v].subject = q
        /\ request[v].purpose = "recovery"
  BY Verified DEF ReplaceRecovered, Recovered, Verifying
<1>2. /\ \A p \in Registration : registration[p] \in RegistrationRow
      /\ registration \in [Registration -> RegistrationRow]
      /\ request \in [Request -> RequestRow]
      /\ clock \in Nat /\ began <= clock /\ RegistrationPart(q)
      /\ new \in Registration /\ registration[new].status = "unborn" /\ RegistrationPart(new)
      /\ registration[q].continuation # "none"
  BY <1>1 DEF Inv, TypeOK, RowsFit, Backed, ReadingsFit, RecoveriesFit, NewRegistrations
<1>3. registration[q].status = "pending" /\ registration[q].identity = None /\ q # new
  BY <1>1, <1>2 DEF ReplaceRecovered, Recovered, Replaceable, Pending, Manual
<1>4. PICK d \in 0 .. clock + RegistrationLifetime : d = began + RegistrationLifetime
  BY <1>1, <1>2, Numbers
<1>5. PICK l \in 0 .. clock + ContinuationLifetime : l = began + ContinuationLifetime
  BY <1>1, <1>2, Numbers
<1>6. ASSUME NEW p \in Registration
      PROVE  /\ registration'[p].status = IF p = new THEN "pending"
                  ELSE IF p \in {q} THEN "expired" ELSE registration[p].status
             /\ registration'[p].identity = IF p = new THEN None ELSE registration[p].identity
             /\ registration'[p].expires = IF p = new THEN d ELSE registration[p].expires
             /\ registration'[p].continuation
                  = IF p = new THEN "usable" ELSE registration[p].continuation
             /\ registration'[p].deadline = IF p = new THEN l ELSE registration[p].deadline
  <2>1. registration' = [registration EXCEPT
          ![q] = [registration[q] EXCEPT !.status = "expired"],
          ![new] = NewRegistration(None, d, "usable", l)]
    BY <1>1, <1>2, <1>4, <1>5 DEF ReplaceRecovered, Recovered
  <2>2. CASE p = new
    BY <1>2, <2>1, <2>2 DEF NewRegistration
  <2>3. CASE p # new /\ p = q
    BY <1>2, <2>1, <2>3 DEF RegistrationRow
  <2>4. CASE p # new /\ p # q
    BY <1>2, <2>1, <2>4
  <2> QED
    BY <2>2, <2>3, <2>4
<1>7. \A p \in Registration :
         (OpenRecoveries(p) # {})' <=> IF p = q THEN FALSE ELSE OpenRecoveries(p) # {}
  <2>1. /\ request'[v].purpose = "registration"
        /\ \A w \in Request : w # v => request'[w] = request[w]
    BY <1>1, <1>2 DEF ReplaceRecovered, Recovered, RequestRow
  <2>2. OpenRecoveries(q) = {v}
    BY <1>1, <1>2 DEF RegistrationPart, OpenRecoveries
  <2>3. \A p \in Registration : OpenRecoveries(p)' = OpenRecoveries(p) \ {v}
    BY <2>1 DEF OpenRecoveries
  <2>4. \A p \in Registration : p # q => v \notin OpenRecoveries(p)
    BY <1>1 DEF OpenRecoveries
  <2> QED
    BY <2>2, <2>3, <2>4
<1>8. [p \in Registration |-> registration[p].status]'
        = [p \in Registration |-> IF p = new THEN "pending"
             ELSE IF p \in {q} THEN "expired"
             ELSE [s \in Registration |-> registration[s].status][p]]
  BY <1>6
<1>9. [p \in Registration |-> registration[p].identity]'
        = [[p \in Registration |-> registration[p].identity] EXCEPT ![new] = None]
  BY <1>6
<1>10. [p \in Registration |-> registration[p].continuation]'
         = [[p \in Registration |-> registration[p].continuation] EXCEPT ![new] = "usable"]
  BY <1>6
<1>11. [p \in Registration |-> registration[p].expires]'
         = [[p \in Registration |-> registration[p].expires] EXCEPT ![new] = d]
  BY <1>6
<1>12. [p \in Registration |-> registration[p].deadline]'
         = [[p \in Registration |-> registration[p].deadline] EXCEPT ![new] = l]
  BY <1>6
<1>13. [p \in Registration |-> OpenRecoveries(p) # {}]'
         = [[p \in Registration |-> OpenRecoveries(p) # {}] EXCEPT ![q] = FALSE]
  BY <1>7
<1>14. UNCHANGED << clock, account >>
  BY DEF ReplaceRecovered, Recovered
<1>15. Promise!Begins(new, None, {q}, "usable")
  BY <1>2, <1>8, <1>9, <1>10, <1>11, <1>12, <1>14 DEF Promise!Begins
<1>16. [p \in Registration |-> OpenRecoveries(p) # {}][q]
  BY <1>1 DEF OpenRecoveries
<1>17. Promise!Recovered(q, new)
  BY <1>2, <1>3, <1>13, <1>15, <1>16 DEF Promise!Recovered
<1> QED
  BY <1>2, <1>17

LEMMA CompleteKeepsPromise ==
  ASSUME Inv, NEW f \in Finalizer, Complete(f)
  PROVE  \E r \in Registration : Promise!Completed(r)
<1>1. PICK r \in Registration :
        r = finalizing[f].registration /\ registration[r].continuation # "none"
  BY DEF Inv, CallsFit, FinalizerFits, Complete
<1>2. /\ \A q \in Registration : registration[q] \in RegistrationRow /\ RegistrationPart(q)
      /\ registration \in [Registration -> RegistrationRow]
      /\ account \in Registration \cup {None}
      /\ registration[r].status = "pending" /\ account' = r
      /\ registration' = [registration EXCEPT ![r] =
           [registration[r] EXCEPT !.status = "completed", !.continuation = "consumed"]]
      /\ UNCHANGED << clock, request >>
  BY <1>1 DEF Complete, Pending, Inv, TypeOK, RowsFit
\* The account would belong to a registration that is completed, next to this one.
<1>3. account = None /\ registration[r].continuation = "usable"
  <2>1. \A q \in Registration : registration[q].status # "completed"
    BY <1>2 DEF Inv, RowsFit, Indexed
  <2> QED
    BY <1>1, <1>2, <2>1 DEF RegistrationPart, RegistrationRow
<1>4. ASSUME NEW q \in Registration
      PROVE  /\ registration'[q].status = IF q = r THEN "completed" ELSE registration[q].status
             /\ registration'[q].continuation
                  = IF q = r THEN "consumed" ELSE registration[q].continuation
             /\ registration'[q].identity = registration[q].identity
             /\ registration'[q].expires = registration[q].expires
             /\ registration'[q].deadline = registration[q].deadline
  BY <1>2 DEF RegistrationRow
<1>5. [q \in Registration |-> registration[q].status]'
        = [[q \in Registration |-> registration[q].status] EXCEPT ![r] = "completed"]
  BY <1>4
<1>6. [q \in Registration |-> registration[q].continuation]'
        = [[q \in Registration |-> registration[q].continuation] EXCEPT ![r] = "consumed"]
  BY <1>4
<1>7. UNCHANGED << clock, [q \in Registration |-> registration[q].identity],
                   [q \in Registration |-> registration[q].expires],
                   [q \in Registration |-> registration[q].deadline],
                   [q \in Registration |-> OpenRecoveries(q) # {}] >>
  BY <1>2, <1>4 DEF OpenRecoveries
<1>8. Promise!Completed(r)
  BY <1>2, <1>3, <1>5, <1>6, <1>7 DEF Promise!Completed
<1> QED
  BY <1>8

\* A new code is no part of the promise.
LEMMA IssueIsSilent ==
  ASSUME Inv, NEW i \in Issuer, NEW k \in NewCodes, IssueCode(i, k)
  PROVE  UNCHANGED Promise!enrolmentVars
<1>1. PICK v \in Request, began \in Nat : v = issuing[i].request /\ began = issuing[i].began
  BY DEF IssueCode, Inv, TypeOK, Issuing, CallsFit, IssuerFits
<1>2. request' = [request EXCEPT ![v] = [request[v] EXCEPT !.lastSent = began]]
  BY <1>1 DEF IssueCode
<1>3. \A w \in Request : /\ request'[w].purpose = request[w].purpose
                         /\ request'[w].subject = request[w].subject
                         /\ request'[w].status = request[w].status
  BY <1>2 DEF Inv, TypeOK, RequestRow
<1>4. \A r \in Registration : OpenRecoveries(r)' = OpenRecoveries(r)
  BY <1>3 DEF OpenRecoveries
<1> QED
  BY <1>4 DEF IssueCode, Promise!enrolmentVars

\* Every commit is one step of Enrolment, and nothing else that a call does is one:
\* however openings, resends, verifications and finalizations cross, the owner of
\* the address sees registrations that begin, are earned, recovered and completed.
THEOREM Refinement == Spec => ImplementsEnrolment
<1>1. Init => Promise!EnrolmentInit
  <2> SUFFICES ASSUME Init PROVE Promise!EnrolmentInit
    OBVIOUS
  <2>1. \A r \in Registration : OpenRecoveries(r) = {}
    BY DEF Init, OpenRecoveries
  <2> QED
    BY <2>1 DEF Init, Promise!EnrolmentInit
<1>2. Inv /\ Backed /\ [Next]_vars => [Promise!EnrolmentNext]_Promise!enrolmentVars
  <2> SUFFICES ASSUME Inv, Backed, [Next]_vars
               PROVE  [Promise!EnrolmentNext]_Promise!enrolmentVars
    OBVIOUS
  <2>1. UNCHANGED << rows, clock >> => UNCHANGED Promise!enrolmentVars
    BY DEF rows, Promise!enrolmentVars, OpenRecoveries
  <2>2. CASE UNCHANGED vars \/ Reads
    BY <2>1, <2>2, ReadsKeepTime DEF vars, Inv
  <2>3. CASE Tick
    BY <2>3 DEF Tick, rows, Promise!EnrolmentNext, Promise!TimePasses, OpenRecoveries
  <2> QED
    BY <2>2, <2>3, StepKinds, InsertKeepsPromise, ReplaceKeepsPromise, OpenRecoveryKeepsPromise,
       IssueIsSilent, GrantKeepsPromise, ReplaceRecoveredKeepsPromise, CompleteKeepsPromise
    DEF Promise!EnrolmentNext
<1> QED
  BY <1>1, <1>2, InvariantHolds, AlwaysBacked, PTL
  DEF Spec, ImplementsEnrolment, Promise!EnrolmentSpec
=============================================================================
