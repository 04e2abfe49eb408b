------------------------- MODULE PasswordResetProof --------------------------
(***************************************************************************)
(* Proofs about PasswordReset, for every number of resets, codes,          *)
(* continuations and concurrent requests, and for every limit and lifetime.*)
(***************************************************************************)
EXTENDS PasswordReset, TLAPS

USE DEF Opening, Issuing, Verifying, Finalizing

rows == << clock, reset, code, token, credential >>

-----------------------------------------------------------------------------
(* The inductive invariant                                                 *)

\* A call knows the reset it works on from the moment it has found one.
Working == {"lockReset", "lockRequest"} \cup Issuing \cup Verifying \cup Finalizing

ResetLocks == {"lockRequest", "insert", "openCommit", "finalizeCommit"}
RequestLocks == {"insert", "openCommit", "grant"}
CodeLocks == {"insertCode", "stamp", "mark", "grant"}
CredentialLocks == {"complete", "finalizeCommit"}

\* What a call in state x may still rely on of the reset it has read or locked.
ResetPart(x) ==
    /\ x.began <= clock
    /\ x.pc \in {"idle", "find"} => x.reset = None
    /\ x.pc \in Working => x.reset \in Reset /\ reset[x.reset].status # "unborn"
    /\ x.pc \in {"lockRequest", "finalizeCommit"} => Pending(x.reset)
    /\ x.pc \in {"insert", "openCommit"} /\ x.reset # None =>
          Pending(x.reset) /\ reset[x.reset].expires <= clock
    /\ x.pc = "grant" => reset[x.reset].request = "pending"
    /\ x.pc = "finalizeCommit" => x.began < reset[x.reset].expires

\* The row it has inserted and not committed: nothing else has its index entry.
FreshPart(x) ==
    /\ x.pc \notin {"openCommit", "stamp"} => x.fresh = None
    /\ x.pc = "openCommit" =>
          /\ x.fresh \in Reset
          /\ reset[x.fresh].status = "unborn"
          /\ \A r \in Reset : Pending(r) => r = x.reset
    /\ x.pc = "stamp" =>
          /\ x.fresh \in Code
          /\ ~code[x.fresh].born
          /\ \A k \in ActiveCodes(x.reset) : k = x.code

\* The code it has picked.
CodePart(x) ==
    /\ x.pc \in Opening => x.code = None
    /\ x.pc \in {"invalidate", "wrong", "match", "consume", "mark", "grant"} =>
          x.code # None
    /\ x.code # None => code[x.code].born /\ code[x.code].reset = x.reset
    /\ x.pc \in {"mark", "grant"} => Active(x.code) /\ x.began < code[x.code].expires

\* An issuing call that would rewind the cooldown meets the code of whoever moved
\* it forward.
CooldownPart(x) ==
    /\ x.pc \in {"invalidate", "insertCode", "stamp"}
    /\ reset[x.reset].request = "pending"
    /\ reset[x.reset].lastSent # None
    /\ reset[x.reset].lastSent > x.began
    => \E k \in ActiveCodes(x.reset) : k # x.code

\* The continuation it finalizes.
TokenPart(x) ==
    /\ x.pc \in Finalizing =>
          /\ x.token # None
          /\ token[x.token].born
          /\ token[x.token].reset = x.reset
    /\ x.pc \in {"complete", "finalizeCommit"} =>
          ~token[x.token].consumed /\ x.began < token[x.token].expires

CallInv(x) ==
    ResetPart(x) /\ FreshPart(x) /\ CodePart(x) /\ CooldownPart(x) /\ TokenPart(x)

\* Calls in states x and z do not hold the same row or index entry.
Apart(x, z) ==
    /\ ~(x.pc = "openCommit" /\ z.pc = "openCommit")
    /\ x.reset = z.reset /\ x.reset # None =>
          /\ ~(x.pc = "stamp" /\ z.pc = "stamp")
          /\ ~(x.pc \in ResetLocks /\ z.pc \in ResetLocks)
          /\ ~(x.pc \in RequestLocks /\ z.pc \in RequestLocks)
    /\ x.code = z.code /\ x.code # None => ~(x.pc \in CodeLocks /\ z.pc \in CodeLocks)
    /\ ~(x.pc \in CredentialLocks /\ z.pc \in CredentialLocks)
    /\ x.fresh # None => x.fresh # z.fresh

\* A row that is not yet born has nothing to show.
RowInv ==
    /\ \A r \in Reset :
          /\ reset[r].status = "unborn" =>
                reset[r].request = "pending" /\ reset[r].lastSent = None
          /\ reset[r].lastSent # None => reset[r].lastSent <= clock
    /\ \A k \in Code : ~code[k].born => ~code[k].consumed /\ ~code[k].invalidated
    /\ \A t \in Token : IF token[t].born
                       THEN token[t].reset \in Reset
                       ELSE token[t].reset = None /\ ~token[t].consumed

CallsInv == \A c \in Call : CallInv(call[c])

CallsApart == \A c, d \in Call : c # d => Apart(call[c], call[d])

Inv == TypeOK /\ CallsInv /\ CallsApart /\ RowInv /\ OneOfEach /\ VerifiedOnce

-----------------------------------------------------------------------------
(* Steps that change no row                                                *)

\* An idle call is a call state.
LEMMA IdleTyped == IdleCall \in CallState
  BY DEF IdleCall, CallState

\* Nothing is held before the first request.
LEMMA InitInv == Init => Inv
<1> SUFFICES ASSUME Init PROVE Inv
  OBVIOUS
<1>1. TypeOK
  BY IdleTyped, NumberAssumption DEF Init, TypeOK, ResetRow, CodeRow, TokenRow
<1>2. CallsInv
  BY NoneAssumption DEF Init, CallsInv, CallInv, ResetPart, FreshPart, CodePart,
    CooldownPart,
     TokenPart, IdleCall, Working
<1>3. CallsApart
  BY DEF Init, CallsApart, Apart, IdleCall, ResetLocks, RequestLocks, CodeLocks,
     CredentialLocks
<1>4. RowInv /\ OneOfEach /\ VerifiedOnce
  BY NoneAssumption DEF Init, RowInv, OneOfEach, VerifiedOnce, Pending, ActiveCodes, Active
<1> QED
  BY <1>1, <1>2, <1>3, <1>4 DEF Inv

\* A step of one call that changes no row: only its own state has to be looked at.
LEMMA CallStep ==
    ASSUME Inv, NEW c \in Call, NEW y \in CallState,
           call' = [call EXCEPT ![c] = y], UNCHANGED rows,
           CallInv(y),
           \A d \in Call \ {c} : Apart(y, call[d])
    PROVE  Inv'
<1>0. call \in [Call -> CallState]
  BY DEF Inv, TypeOK
<1>1. TypeOK'
  BY <1>0 DEF Inv, TypeOK, rows
<1>2. \A d \in Call : call'[d] = IF d = c THEN y ELSE call[d]
  BY <1>0
<1>3. CallsInv'
  <2> SUFFICES ASSUME NEW d \in Call PROVE CallInv(call[d])'
    BY DEF CallsInv
  <2>1. CallInv(call'[d])
    BY <1>2 DEF Inv, CallsInv
  <2> QED
    BY <2>1 DEF rows, CallInv, ResetPart, FreshPart, CodePart, CooldownPart, TokenPart,
       Pending, Active, ActiveCodes
<1>4. CallsApart'
  <2> SUFFICES ASSUME NEW d \in Call, NEW e \in Call, d # e
               PROVE  Apart(call[d], call[e])'
    BY DEF CallsApart
  <2>1. Apart(call'[d], call'[e]) \/ Apart(call'[e], call'[d])
    BY <1>2 DEF Inv, CallsApart
  <2> QED
    BY <2>1 DEF Apart
<1>5. RowInv' /\ OneOfEach' /\ VerifiedOnce'
  BY DEF Inv, rows, RowInv, OneOfEach, VerifiedOnce, Pending, Active, ActiveCodes
<1> QED
  BY <1>1, <1>3, <1>4, <1>5 DEF Inv

\* A call that ends without committing, whatever it held, rolls back to idle.
LEMMA FinishStep ==
    ASSUME Inv, NEW c \in Call, Finish(c), UNCHANGED rows
    PROVE  Inv'
<1>1. CallInv(IdleCall)
  BY NoneAssumption DEF Inv, TypeOK, CallInv, ResetPart, FreshPart, CodePart, CooldownPart,
     TokenPart, IdleCall, Working
<1>2. \A d \in Call : Apart(IdleCall, call[d])
  BY DEF Apart, IdleCall, ResetLocks, RequestLocks, CodeLocks, CredentialLocks
<1> QED
  BY <1>1, <1>2, CallStep, IdleTyped DEF Finish

USE DEF Working, ResetLocks, RequestLocks, CodeLocks, CredentialLocks

\* What Inv says of one call, and of it and another.
LEMMA CallFacts ==
    ASSUME Inv, NEW c \in Call
    PROVE  /\ call[c] \in CallState
           /\ CallInv(call[c])
           /\ \A d \in Call \ {c} :
                 call[d] \in CallState /\ CallInv(call[d]) /\ Apart(call[c], call[d])
  BY DEF Inv, TypeOK, CallsInv, CallsApart

\* Opening, up to its commit.
LEMMA OpenSteps ==
    ASSUME Inv, NEW c \in Call,
           \/ BeginOpen(c) \/ FindPending(c) \/ LockReset(c) \/ LockRequest(c)
           \/ \E new \in Reset : InsertReset(c, new)
           \/ InsertResetConflicts(c)
    PROVE  Inv'
<1> DEFINE x == call[c]
<1>0. x \in CallState /\ CallInv(x)
  BY CallFacts
<1>d. \A d \in Call \ {c} :
         call[d] \in CallState /\ CallInv(call[d]) /\ Apart(x, call[d])
  BY CallFacts
<1>t. /\ clock \in Nat
      /\ reset \in [Reset -> ResetRow]
      /\ code \in [Code -> CodeRow]
      /\ token \in [Token -> TokenRow]
      /\ RowInv
  BY DEF Inv, TypeOK
<1>1. CASE BeginOpen(c)
  <2> DEFINE y == [IdleCall EXCEPT !.pc = "find", !.now = clock]
  <2>1. y \in CallState
    BY <1>0, <1>t, <1>1, IdleTyped DEF BeginOpen, CallState
  <2>2. CallInv(y)
    BY <1>0, <1>t, <1>1, NoneAssumption
    DEF BeginOpen, CallInv, ResetPart, FreshPart, CodePart, CooldownPart,
        TokenPart, CallState, At, IdleCall
  <2>3. \A d \in Call \ {c} : Apart(y, call[d])
    BY <1>0, <1>d, <1>t, <1>1, NoneAssumption
    DEF BeginOpen, Apart, At, CallInv, FreshPart, ResetPart, CodePart, CallState, IdleCall
  <2>4. call' = [call EXCEPT ![c] = y] /\ UNCHANGED rows
    BY <1>1 DEF BeginOpen, Goto, rows, IdleCall
  <2> QED
    BY <2>1, <2>2, <2>3, <2>4, CallStep
<1>2. CASE FindPending(c)
  <2>1. CASE \A r \in Reset : ~Pending(r)
    <3>g. At(c, "find") /\ \A r \in Reset : ~Pending(r)
      BY <1>t, <1>2, <2>1 DEF FindPending, RowInv, VerificationPending, ActiveCodes
    <3> DEFINE y == [x EXCEPT !.pc = "insert", !.began = clock]
    <3>1. y \in CallState
      BY <1>0, <1>t, <3>g, IdleTyped DEF CallState
    <3>2. CallInv(y)
      <4>1. ResetPart(y)
        BY <1>0, <1>t, <3>g, NoneAssumption
        DEF Pending, CallInv, ResetPart, CallState, At, IdleCall
      <4>2. FreshPart(y) /\ TokenPart(y)
        BY <1>0, <1>t, <3>g, NoneAssumption
        DEF Pending, CallInv, FreshPart, TokenPart, CallState, At, IdleCall
      <4>3. CodePart(y)
        BY <1>0, <1>t, <3>g, NoneAssumption
        DEF Pending, CallInv, CodePart, CallState, At, IdleCall
      <4>4. CooldownPart(y)
        BY <1>0, <1>t, <3>g, NoneAssumption
        DEF Pending, CallInv, ResetPart, CooldownPart, CallState, At, IdleCall
      <4> QED
        BY <4>1, <4>2, <4>3, <4>4 DEF CallInv
    <3>3. \A d \in Call \ {c} : Apart(y, call[d])
      BY <1>0, <1>d, <1>t, <3>g, NoneAssumption
      DEF Apart, At, CallInv, FreshPart, ResetPart, CodePart, CallState, IdleCall
    <3>4. call' = [call EXCEPT ![c] = y] /\ UNCHANGED rows
      BY <1>2, <2>1 DEF FindPending, Goto, rows
    <3> QED
      BY <3>1, <3>2, <3>3, <3>4, CallStep
  <2>2. ASSUME NEW r \in Reset, Pending(r), At(c, "find"), UNCHANGED rows,
               call' = [call EXCEPT ![c].pc = "lockReset", ![c].reset = r,
                                    ![c].began = clock]
        PROVE  Inv'
    <3> DEFINE y == [x EXCEPT !.pc = "lockReset", !.reset = r, !.began = clock]
    <3>1. y \in CallState
      BY <1>0, <1>t, <2>2, IdleTyped DEF Pending, CallState
    <3>2. CallInv(y)
      BY <1>0, <1>t, <2>2, NoneAssumption
      DEF Pending, CallInv, ResetPart, FreshPart, CodePart, CooldownPart,
          TokenPart, CallState, At, IdleCall
    <3>3. \A d \in Call \ {c} : Apart(y, call[d])
      BY <1>0, <1>d, <1>t, <2>2, NoneAssumption
      DEF Pending, Apart, At, CallInv, FreshPart, ResetPart, CodePart, CallState, IdleCall
    <3>4. call' = [call EXCEPT ![c] = y] /\ UNCHANGED rows
      BY <2>2 DEF Pending, Goto, rows
    <3> QED
      BY <3>1, <3>2, <3>3, <3>4, CallStep
  <2> QED
    BY <1>2, <2>1, <2>2 DEF FindPending, rows
<1>3. CASE LockReset(c)
  <2>1. CASE Pending(x.reset)
    <3> DEFINE y == [x EXCEPT !.pc = "lockRequest"]
    <3>1. y \in CallState
      BY <1>0, <1>t, <1>3, <2>1, IdleTyped DEF LockReset, CallState
    <3>2. CallInv(y)
      BY <1>0, <1>t, <1>3, <2>1, NoneAssumption
      DEF LockReset, CallInv, ResetPart, FreshPart, CodePart, CooldownPart,
          TokenPart, CallState, At, IdleCall
    <3>3. \A d \in Call \ {c} : Apart(y, call[d])
      BY <1>0, <1>d, <1>t, <1>3, <2>1, NoneAssumption
      DEF LockReset, Granted, WaitsFor, HoldsReset, Apart, At, CallInv, FreshPart,
        ResetPart, CodePart, CallState, IdleCall
    <3>4. call' = [call EXCEPT ![c] = y] /\ UNCHANGED rows
      BY <1>3, <2>1 DEF LockReset, Goto, rows
    <3> QED
      BY <3>1, <3>2, <3>3, <3>4, CallStep
  <2>2. CASE ~Pending(x.reset)
    <3> DEFINE y == [x EXCEPT !.pc = "insert", !.reset = None]
    <3>1. y \in CallState
      BY <1>0, <1>t, <1>3, <2>2, IdleTyped DEF LockReset, CallState
    <3>2. CallInv(y)
      BY <1>0, <1>t, <1>3, <2>2, NoneAssumption
      DEF LockReset, CallInv, ResetPart, FreshPart, CodePart, CooldownPart,
          TokenPart, CallState, At, IdleCall
    <3>3. \A d \in Call \ {c} : Apart(y, call[d])
      BY <1>0, <1>d, <1>t, <1>3, <2>2, NoneAssumption
      DEF LockReset, Apart, At, CallInv, FreshPart, ResetPart, CodePart, CallState, IdleCall
    <3>4. call' = [call EXCEPT ![c] = y] /\ UNCHANGED rows
      BY <1>3, <2>2 DEF LockReset, Goto, rows
    <3> QED
      BY <3>1, <3>2, <3>3, <3>4, CallStep
  <2> QED
    BY <2>1, <2>2
<1>4. CASE LockRequest(c)
  <2>1. CASE reset[x.reset].expires <= x.began
    <3> DEFINE y == [x EXCEPT !.pc = "insert"]
    <3>1. y \in CallState
      BY <1>0, <1>t, <1>4, <2>1, IdleTyped DEF LockRequest, CallState
    <3>2. CallInv(y)
      BY <1>0, <1>t, <1>4, <2>1, NoneAssumption
      DEF LockRequest, ResetRow, CallInv, ResetPart, FreshPart, CodePart, CooldownPart,
          TokenPart, CallState, At, IdleCall
    <3>3. \A d \in Call \ {c} : Apart(y, call[d])
      BY <1>0, <1>d, <1>t, <1>4, <2>1, NoneAssumption
      DEF LockRequest, Granted, WaitsFor, HoldsRequest, Apart, At, CallInv, FreshPart,
        ResetPart, CodePart, CallState, IdleCall
    <3>4. call' = [call EXCEPT ![c] = y] /\ UNCHANGED rows
      BY <1>4, <2>1 DEF LockRequest, Goto, rows
    <3> QED
      BY <3>1, <3>2, <3>3, <3>4, CallStep
  <2>2. CASE ~(reset[x.reset].expires <= x.began)
    BY <1>4, <2>2, FinishStep DEF LockRequest, rows
  <2> QED
    BY <2>1, <2>2
<1>5. ASSUME NEW new \in Reset, InsertReset(c, new) PROVE Inv'
  <2> DEFINE y == [x EXCEPT !.pc = "openCommit", !.fresh = new]
  <2>1. y \in CallState
    BY <1>0, <1>t, <1>5, IdleTyped DEF InsertReset, CallState
  <2>2. CallInv(y)
    BY <1>0, <1>t, <1>5, NoneAssumption
    DEF InsertReset, OthersPending, CallInv, ResetPart, FreshPart, CodePart, CooldownPart,
        TokenPart, CallState, At, IdleCall
  <2>3. \A d \in Call \ {c} : Apart(y, call[d])
    BY <1>0, <1>d, <1>t, <1>5, NoneAssumption
    DEF InsertReset, Granted, WaitsFor, ClaimsPending, Apart, At, CallInv, FreshPart,
      ResetPart, CodePart, CallState, IdleCall
  <2>4. call' = [call EXCEPT ![c] = y] /\ UNCHANGED rows
    BY <1>5 DEF InsertReset, Goto, rows
  <2> QED
    BY <2>1, <2>2, <2>3, <2>4, CallStep
<1>6. CASE InsertResetConflicts(c)
  <2>1. CASE x.retried
    BY <1>6, <2>1, FinishStep DEF InsertResetConflicts, rows
  <2>2. CASE ~x.retried
    <3> DEFINE y == [IdleCall EXCEPT !.pc = "find", !.now = x.now, !.retried = TRUE]
    <3>1. y \in CallState
      BY <1>0, <1>t, <1>6, <2>2, IdleTyped DEF InsertResetConflicts, CallState
    <3>2. CallInv(y)
      BY <1>0, <1>t, <1>6, <2>2, NoneAssumption
      DEF InsertResetConflicts, CallInv, ResetPart, FreshPart, CodePart, CooldownPart,
          TokenPart, CallState, At, IdleCall
    <3>3. \A d \in Call \ {c} : Apart(y, call[d])
      BY <1>0, <1>d, <1>t, <1>6, <2>2, NoneAssumption
      DEF InsertResetConflicts, Apart, At, CallInv, FreshPart, ResetPart, CodePart,
        CallState, IdleCall
    <3>4. call' = [call EXCEPT ![c] = y] /\ UNCHANGED rows
      BY <1>6, <2>2 DEF InsertResetConflicts, Goto, rows, IdleCall
    <3> QED
      BY <3>1, <3>2, <3>3, <3>4, CallStep
  <2> QED
    BY <2>1, <2>2
<1> QED
  BY <1>1, <1>2, <1>3, <1>4, <1>5, <1>6

\* Issuing, up to its commit.
LEMMA IssueSteps ==
    ASSUME Inv, NEW c \in Call,
           \/ \E r \in Reset : BeginIssue(c, r)
           \/ PickActive(c) \/ Invalidate(c) \/ InsertCodeConflicts(c)
           \/ \E new \in Code : InsertCode(c, new)
    PROVE  Inv'
<1> DEFINE x == call[c]
<1>0. x \in CallState /\ CallInv(x)
  BY CallFacts
<1>d. \A d \in Call \ {c} :
         call[d] \in CallState /\ CallInv(call[d]) /\ Apart(x, call[d])
  BY CallFacts
<1>t. /\ clock \in Nat
      /\ reset \in [Reset -> ResetRow]
      /\ code \in [Code -> CodeRow]
      /\ token \in [Token -> TokenRow]
      /\ RowInv
  BY DEF Inv, TypeOK
<1>1. ASSUME NEW r \in Reset, BeginIssue(c, r) PROVE Inv'
  <2>g. At(c, "idle") /\ Pending(r)
    BY <1>t, <1>1 DEF BeginIssue, RowInv, VerificationPending, ActiveCodes
  <2> DEFINE y == [IdleCall EXCEPT !.pc = "issue", !.reset = r]
  <2>1. y \in CallState
    BY <1>0, <1>t, <2>g, IdleTyped DEF CallState
  <2>2. CallInv(y)
    <3>1. ResetPart(y)
      BY <1>0, <1>t, <2>g, NoneAssumption
      DEF Pending, CallInv, ResetPart, CallState, At, IdleCall
    <3>2. FreshPart(y) /\ TokenPart(y)
      BY <1>0, <1>t, <2>g, NoneAssumption
      DEF Pending, CallInv, FreshPart, TokenPart, CallState, At, IdleCall
    <3>3. CodePart(y)
      BY <1>0, <1>t, <2>g, NoneAssumption
      DEF Pending, CallInv, CodePart, CallState, At, IdleCall
    <3>4. CooldownPart(y)
      BY <1>0, <1>t, <2>g, NoneAssumption
      DEF Pending, CallInv, ResetPart, CooldownPart, CallState, At, IdleCall
    <3> QED
      BY <3>1, <3>2, <3>3, <3>4 DEF CallInv
  <2>3. \A d \in Call \ {c} : Apart(y, call[d])
    BY <1>0, <1>d, <1>t, <2>g, NoneAssumption
    DEF Apart, At, CallInv, FreshPart, ResetPart, CodePart, CallState, IdleCall
  <2>4. call' = [call EXCEPT ![c] = y] /\ UNCHANGED rows
    BY <1>1 DEF BeginIssue, Goto, rows, IdleCall
  <2> QED
    BY <2>1, <2>2, <2>3, <2>4, CallStep
<1>2. CASE PickActive(c)
  <2>1. CASE \E k \in ActiveCodes(x.reset) :
               call' = [call EXCEPT ![c].pc = "invalidate", ![c].code = k,
                                    ![c].now = clock, ![c].began = clock]
    <3>0. PICK k \in ActiveCodes(x.reset) :
               call' = [call EXCEPT ![c].pc = "invalidate", ![c].code = k,
                                    ![c].now = clock, ![c].began = clock]
      BY <2>1
    <3>g. At(c, "issue") /\ k \in Code /\ Active(k) /\ code[k].reset = x.reset
      BY <1>t, <1>2, <3>0 DEF PickActive, RowInv, VerificationPending, ActiveCodes
    <3> DEFINE y == [x EXCEPT !.pc = "invalidate", !.code = k, !.now = clock,
    !.began = clock]
    <3>1. y \in CallState
      BY <1>0, <1>t, <3>g, IdleTyped DEF ActiveCodes, CallState
    <3>2. CallInv(y)
      <4>1. ResetPart(y)
        BY <1>0, <1>t, <3>g, NoneAssumption
        DEF RowInv, Active, ActiveCodes, ResetRow, CallInv, ResetPart, CallState, At,
          IdleCall
      <4>2. FreshPart(y) /\ TokenPart(y)
        BY <1>0, <1>t, <3>g, NoneAssumption
        DEF RowInv, Active, ActiveCodes, ResetRow, CallInv, FreshPart, TokenPart,
          CallState, At, IdleCall
      <4>3. CodePart(y)
        BY <1>0, <1>t, <3>g, NoneAssumption
        DEF RowInv, Active, ActiveCodes, ResetRow, CallInv, CodePart, CallState, At,
          IdleCall
      <4>4. CooldownPart(y)
        BY <1>0, <1>t, <3>g, NoneAssumption
        DEF RowInv, Active, ActiveCodes, ResetRow, CallInv, ResetPart, CooldownPart,
          CallState, At, IdleCall
      <4> QED
        BY <4>1, <4>2, <4>3, <4>4 DEF CallInv
    <3>3. \A d \in Call \ {c} : Apart(y, call[d])
      BY <1>0, <1>d, <1>t, <3>g, NoneAssumption
      DEF Apart, At, CallInv, FreshPart, ResetPart, CodePart, CallState, IdleCall
    <3>4. call' = [call EXCEPT ![c] = y] /\ UNCHANGED rows
      BY <1>2, <3>0 DEF PickActive, Goto, rows
    <3> QED
      BY <3>1, <3>2, <3>3, <3>4, CallStep
  <2>2. CASE call' = [call EXCEPT ![c].pc = "insertCode", ![c].code = None,
                                  ![c].now = clock, ![c].began = clock]
    <3>g. At(c, "issue")
      BY <1>t, <1>2, <2>2 DEF PickActive, RowInv, VerificationPending, ActiveCodes
    <3> DEFINE y == [x EXCEPT !.pc = "insertCode", !.code = None, !.now = clock,
    !.began = clock]
    <3>1. y \in CallState
      BY <1>0, <1>t, <3>g, IdleTyped DEF CallState
    <3>2. CallInv(y)
      <4>1. ResetPart(y)
        BY <1>0, <1>t, <3>g, NoneAssumption
        DEF RowInv, ResetRow, CallInv, ResetPart, CallState, At, IdleCall
      <4>2. FreshPart(y) /\ TokenPart(y)
        BY <1>0, <1>t, <3>g, NoneAssumption
        DEF RowInv, ResetRow, CallInv, FreshPart, TokenPart, CallState, At, IdleCall
      <4>3. CodePart(y)
        BY <1>0, <1>t, <3>g, NoneAssumption
        DEF RowInv, ResetRow, CallInv, CodePart, CallState, At, IdleCall
      <4>4. CooldownPart(y)
        BY <1>0, <1>t, <3>g, NoneAssumption
        DEF RowInv, ResetRow, CallInv, ResetPart, CooldownPart, CallState, At, IdleCall
      <4> QED
        BY <4>1, <4>2, <4>3, <4>4 DEF CallInv
    <3>3. \A d \in Call \ {c} : Apart(y, call[d])
      BY <1>0, <1>d, <1>t, <3>g, NoneAssumption
      DEF Apart, At, CallInv, FreshPart, ResetPart, CodePart, CallState, IdleCall
    <3>4. call' = [call EXCEPT ![c] = y] /\ UNCHANGED rows
      BY <1>2, <2>2 DEF PickActive, Goto, rows
    <3> QED
      BY <3>1, <3>2, <3>3, <3>4, CallStep
  <2> QED
    BY <1>2, <2>1, <2>2, NoneAssumption DEF PickActive, ActiveCodes
<1>3. CASE Invalidate(c)
  <2> DEFINE y == [x EXCEPT !.pc = "insertCode"]
  <2>1. y \in CallState
    BY <1>0, <1>t, <1>3, IdleTyped DEF Invalidate, CallState
  <2>2. CallInv(y)
    BY <1>0, <1>t, <1>3, NoneAssumption
    DEF Invalidate, CallInv, ResetPart, FreshPart, CodePart, CooldownPart,
        TokenPart, CallState, At, IdleCall
  <2>3. \A d \in Call \ {c} : Apart(y, call[d])
    BY <1>0, <1>d, <1>t, <1>3, NoneAssumption
    DEF Invalidate, Granted, WaitsFor, HoldsCode, Apart, At, CallInv, FreshPart,
      ResetPart, CodePart, CallState, IdleCall
  <2>4. call' = [call EXCEPT ![c] = y] /\ UNCHANGED rows
    BY <1>3 DEF Invalidate, Goto, rows
  <2> QED
    BY <2>1, <2>2, <2>3, <2>4, CallStep
<1>4. ASSUME NEW new \in Code, InsertCode(c, new) PROVE Inv'
  <2> DEFINE y == [x EXCEPT !.pc = "stamp", !.fresh = new]
  <2>1. y \in CallState
    BY <1>0, <1>t, <1>4, IdleTyped DEF InsertCode, CallState
  <2>2. CallInv(y)
    BY <1>0, <1>t, <1>4, NoneAssumption
    DEF InsertCode, OthersActive, ActiveCodes, CallInv, ResetPart, FreshPart, CodePart,
      CooldownPart,
        TokenPart, CallState, At, IdleCall
  <2>3. \A d \in Call \ {c} : Apart(y, call[d])
    BY <1>0, <1>d, <1>t, <1>4, NoneAssumption
    DEF InsertCode, Granted, WaitsFor, ClaimsActive, Apart, At, CallInv, FreshPart,
      ResetPart, CodePart, CallState, IdleCall
  <2>4. call' = [call EXCEPT ![c] = y] /\ UNCHANGED rows
    BY <1>4 DEF InsertCode, Goto, rows
  <2> QED
    BY <2>1, <2>2, <2>3, <2>4, CallStep
<1>5. CASE InsertCodeConflicts(c)
  BY <1>5, FinishStep DEF InsertCodeConflicts, rows
<1> QED
  BY <1>1, <1>2, <1>3, <1>4, <1>5

\* Verifying, up to its commit; counting a wrong PIN is a commit of its own.
LEMMA VerifySteps ==
    ASSUME Inv, NEW c \in Call,
           \/ \E r \in Reset : BeginVerify(c, r)
           \/ \E right \in BOOLEAN : ReadCode(c, right)
           \/ BeginCompletion(c) \/ Consume(c) \/ Mark(c)
    PROVE  Inv'
<1> DEFINE x == call[c]
<1>0. x \in CallState /\ CallInv(x)
  BY CallFacts
<1>d. \A d \in Call \ {c} :
         call[d] \in CallState /\ CallInv(call[d]) /\ Apart(x, call[d])
  BY CallFacts
<1>t. /\ clock \in Nat
      /\ reset \in [Reset -> ResetRow]
      /\ code \in [Code -> CodeRow]
      /\ token \in [Token -> TokenRow]
      /\ RowInv
  BY DEF Inv, TypeOK
<1>1. ASSUME NEW r \in Reset, BeginVerify(c, r) PROVE Inv'
  <2>g. At(c, "idle") /\ Pending(r)
    BY <1>t, <1>1 DEF BeginVerify, RowInv, VerificationPending, ActiveCodes
  <2> DEFINE y == [IdleCall EXCEPT !.pc = "read", !.reset = r]
  <2>1. y \in CallState
    BY <1>0, <1>t, <2>g, IdleTyped DEF CallState
  <2>2. CallInv(y)
    <3>1. ResetPart(y)
      BY <1>0, <1>t, <2>g, NoneAssumption
      DEF Pending, CallInv, ResetPart, CallState, At, IdleCall
    <3>2. FreshPart(y) /\ TokenPart(y)
      BY <1>0, <1>t, <2>g, NoneAssumption
      DEF Pending, CallInv, FreshPart, TokenPart, CallState, At, IdleCall
    <3>3. CodePart(y)
      BY <1>0, <1>t, <2>g, NoneAssumption
      DEF Pending, CallInv, CodePart, CallState, At, IdleCall
    <3>4. CooldownPart(y)
      BY <1>0, <1>t, <2>g, NoneAssumption
      DEF Pending, CallInv, ResetPart, CooldownPart, CallState, At, IdleCall
    <3> QED
      BY <3>1, <3>2, <3>3, <3>4 DEF CallInv
  <2>3. \A d \in Call \ {c} : Apart(y, call[d])
    BY <1>0, <1>d, <1>t, <2>g, NoneAssumption
    DEF Apart, At, CallInv, FreshPart, ResetPart, CodePart, CallState, IdleCall
  <2>4. call' = [call EXCEPT ![c] = y] /\ UNCHANGED rows
    BY <1>1 DEF BeginVerify, Goto, rows, IdleCall
  <2> QED
    BY <2>1, <2>2, <2>3, <2>4, CallStep
<1>2. ASSUME NEW right \in BOOLEAN, ReadCode(c, right) PROVE Inv'
  <2>1. CASE Finish(c)
    BY <1>2, <2>1, FinishStep DEF ReadCode, rows
  <2>2. ASSUME NEW k \in ActiveCodes(x.reset), NEW p \in {"match", "wrong"},
               call' = [call EXCEPT ![c].pc = p, ![c].code = k]
        PROVE  Inv'
    <3>g. At(c, "read") /\ p \in {"match",
    "wrong"} /\ k \in Code /\ Active(k) /\ code[k].reset = x.reset
      BY <1>t, <1>2, <2>2 DEF ReadCode, RowInv, VerificationPending, ActiveCodes
    <3> DEFINE y == [x EXCEPT !.pc = p, !.code = k]
    <3>1. y \in CallState
      BY <1>0, <1>t, <3>g, IdleTyped DEF CallState
    <3>2. CallInv(y)
      <4>1. ResetPart(y)
        BY <1>0, <1>t, <3>g, NoneAssumption
        DEF Active, CallInv, ResetPart, CallState, At, IdleCall
      <4>2. FreshPart(y) /\ TokenPart(y)
        BY <1>0, <1>t, <3>g, NoneAssumption
        DEF Active, CallInv, FreshPart, TokenPart, CallState, At, IdleCall
      <4>3. CodePart(y)
        BY <1>0, <1>t, <3>g, NoneAssumption
        DEF Active, CallInv, CodePart, CallState, At, IdleCall
      <4>4. CooldownPart(y)
        BY <1>0, <1>t, <3>g, NoneAssumption
        DEF Active, CallInv, ResetPart, CooldownPart, CallState, At, IdleCall
      <4> QED
        BY <4>1, <4>2, <4>3, <4>4 DEF CallInv
    <3>3. \A d \in Call \ {c} : Apart(y, call[d])
      BY <1>0, <1>d, <1>t, <3>g, NoneAssumption
      DEF ActiveCodes, Apart, At, CallInv, FreshPart, ResetPart, CodePart, CallState,
        IdleCall
    <3>4. call' = [call EXCEPT ![c] = y] /\ UNCHANGED rows
      BY <1>2, <2>2 DEF ReadCode, Goto, rows
    <3> QED
      BY <3>1, <3>2, <3>3, <3>4, CallStep
  <2> QED
    BY <1>2, <2>1, <2>2 DEF ReadCode
<1>3. CASE BeginCompletion(c)
  <2> DEFINE y == [x EXCEPT !.pc = "consume", !.now = clock, !.began = clock]
  <2>1. y \in CallState
    BY <1>0, <1>t, <1>3, IdleTyped DEF BeginCompletion, CallState
  <2>2. CallInv(y)
    BY <1>0, <1>t, <1>3, NoneAssumption
    DEF BeginCompletion, CallInv, ResetPart, FreshPart, CodePart, CooldownPart,
        TokenPart, CallState, At, IdleCall
  <2>3. \A d \in Call \ {c} : Apart(y, call[d])
    BY <1>0, <1>d, <1>t, <1>3, NoneAssumption
    DEF BeginCompletion, Apart, At, CallInv, FreshPart, ResetPart, CodePart, CallState,
      IdleCall
  <2>4. call' = [call EXCEPT ![c] = y] /\ UNCHANGED rows
    BY <1>3 DEF BeginCompletion, Goto, rows
  <2> QED
    BY <2>1, <2>2, <2>3, <2>4, CallStep
<1>4. CASE Consume(c)
  <2>1. CASE Finish(c)
    BY <1>4, <2>1, FinishStep DEF Consume, rows
  <2>2. CASE Active(x.code) /\ x.began < code[x.code].expires /\ Goto(c, "mark")
    <3> DEFINE y == [x EXCEPT !.pc = "mark"]
    <3>1. y \in CallState
      BY <1>0, <1>t, <1>4, <2>2, IdleTyped DEF Consume, CallState
    <3>2. CallInv(y)
      BY <1>0, <1>t, <1>4, <2>2, NoneAssumption
      DEF Consume, CallInv, ResetPart, FreshPart, CodePart, CooldownPart,
          TokenPart, CallState, At, IdleCall
    <3>3. \A d \in Call \ {c} : Apart(y, call[d])
      BY <1>0, <1>d, <1>t, <1>4, <2>2, NoneAssumption
      DEF Consume, Granted, WaitsFor, HoldsCode, Apart, At, CallInv, FreshPart,
        ResetPart, CodePart, CallState, IdleCall
    <3>4. call' = [call EXCEPT ![c] = y] /\ UNCHANGED rows
      BY <1>4, <2>2 DEF Consume, Goto, rows
    <3> QED
      BY <3>1, <3>2, <3>3, <3>4, CallStep
  <2>3. x.code # None /\ x.began \in Nat /\ code[x.code].expires \in Nat
    BY <1>0, <1>t, <1>4 DEF Consume, At, CallInv, CodePart, CallState, CodeRow
  <2> QED
    BY <1>4, <2>1, <2>2, <2>3 DEF Consume
<1>5. CASE Mark(c)
  <2>1. CASE Finish(c)
    BY <1>5, <2>1, FinishStep DEF Mark, rows
  <2>2. CASE reset[x.reset].request = "pending" /\ Goto(c, "grant")
    <3> DEFINE y == [x EXCEPT !.pc = "grant"]
    <3>1. y \in CallState
      BY <1>0, <1>t, <1>5, <2>2, IdleTyped DEF Mark, CallState
    <3>2. CallInv(y)
      BY <1>0, <1>t, <1>5, <2>2, NoneAssumption
      DEF Mark, CallInv, ResetPart, FreshPart, CodePart, CooldownPart,
          TokenPart, CallState, At, IdleCall
    <3>3. \A d \in Call \ {c} : Apart(y, call[d])
      BY <1>0, <1>d, <1>t, <1>5, <2>2, NoneAssumption
      DEF Mark, Granted, WaitsFor, HoldsRequest, Apart, At, CallInv, FreshPart,
        ResetPart, CodePart, CallState, IdleCall
    <3>4. call' = [call EXCEPT ![c] = y] /\ UNCHANGED rows
      BY <1>5, <2>2 DEF Mark, Goto, rows
    <3> QED
      BY <3>1, <3>2, <3>3, <3>4, CallStep
  <2> QED
    BY <1>5, <2>1, <2>2 DEF Mark
<1> QED
  BY <1>1, <1>2, <1>3, <1>4, <1>5

\* Finalizing, up to its commit, and giving up anywhere.
LEMMA FinalizeSteps ==
    ASSUME Inv, NEW c \in Call,
           \/ \E t \in Token : BeginFinalize(c, t)
           \/ BeginWrite(c) \/ Spend(c) \/ Complete(c) \/ AbortCall(c)
    PROVE  Inv'
<1> DEFINE x == call[c]
<1>0. x \in CallState /\ CallInv(x)
  BY CallFacts
<1>d. \A d \in Call \ {c} :
         call[d] \in CallState /\ CallInv(call[d]) /\ Apart(x, call[d])
  BY CallFacts
<1>t. /\ clock \in Nat
      /\ reset \in [Reset -> ResetRow]
      /\ code \in [Code -> CodeRow]
      /\ token \in [Token -> TokenRow]
      /\ RowInv
  BY DEF Inv, TypeOK
<1>1. ASSUME NEW t \in Token, BeginFinalize(c, t) PROVE Inv'
  <2>g. /\ At(c, "idle") /\ token[t].born
      /\ Pending(token[t].reset) /\ token[t].reset \in Reset
    BY <1>t, <1>1 DEF BeginFinalize, RowInv, VerificationPending, ActiveCodes
  <2> DEFINE y == [IdleCall EXCEPT !.pc = "hash", !.reset = token[t].reset, !.token = t]
  <2>1. y \in CallState
    BY <1>0, <1>t, <2>g, IdleTyped DEF TokenRow, CallState
  <2>2. CallInv(y)
    <3>1. ResetPart(y)
      BY <1>0, <1>t, <2>g, NoneAssumption
      DEF Pending, CallInv, ResetPart, CallState, At, IdleCall
    <3>2. FreshPart(y) /\ TokenPart(y)
      BY <1>0, <1>t, <2>g, NoneAssumption
      DEF Pending, CallInv, FreshPart, TokenPart, CallState, At, IdleCall
    <3>3. CodePart(y)
      BY <1>0, <1>t, <2>g, NoneAssumption
      DEF Pending, CallInv, CodePart, CallState, At, IdleCall
    <3>4. CooldownPart(y)
      BY <1>0, <1>t, <2>g, NoneAssumption
      DEF Pending, CallInv, ResetPart, CooldownPart, CallState, At, IdleCall
    <3> QED
      BY <3>1, <3>2, <3>3, <3>4 DEF CallInv
  <2>3. \A d \in Call \ {c} : Apart(y, call[d])
    BY <1>0, <1>d, <1>t, <2>g, NoneAssumption
    DEF Apart, At, CallInv, FreshPart, ResetPart, CodePart, CallState, IdleCall
  <2>4. call' = [call EXCEPT ![c] = y] /\ UNCHANGED rows
    BY <1>1 DEF BeginFinalize, Goto, rows, IdleCall
  <2> QED
    BY <2>1, <2>2, <2>3, <2>4, CallStep
<1>2. CASE BeginWrite(c)
  <2> DEFINE y == [x EXCEPT !.pc = "upsert", !.began = clock]
  <2>1. y \in CallState
    BY <1>0, <1>t, <1>2, IdleTyped DEF BeginWrite, CallState
  <2>2. CallInv(y)
    BY <1>0, <1>t, <1>2, NoneAssumption
    DEF BeginWrite, CallInv, ResetPart, FreshPart, CodePart, CooldownPart,
        TokenPart, CallState, At, IdleCall
  <2>3. \A d \in Call \ {c} : Apart(y, call[d])
    BY <1>0, <1>d, <1>t, <1>2, NoneAssumption
    DEF BeginWrite, Apart, At, CallInv, FreshPart, ResetPart, CodePart, CallState, IdleCall
  <2>4. call' = [call EXCEPT ![c] = y] /\ UNCHANGED rows
    BY <1>2 DEF BeginWrite, Goto, rows
  <2> QED
    BY <2>1, <2>2, <2>3, <2>4, CallStep
<1>3. CASE Spend(c)
  <2>1. CASE Finish(c)
    BY <1>3, <2>1, FinishStep DEF Spend, rows
  <2>2. CASE /\ ~token[x.token].consumed /\ x.began < token[x.token].expires
             /\ Goto(c, "complete")
    <3> DEFINE y == [x EXCEPT !.pc = "complete"]
    <3>1. y \in CallState
      BY <1>0, <1>t, <1>3, <2>2, IdleTyped DEF Spend, CallState
    <3>2. CallInv(y)
      BY <1>0, <1>t, <1>3, <2>2, NoneAssumption
      DEF Spend, CallInv, ResetPart, FreshPart, CodePart, CooldownPart,
          TokenPart, CallState, At, IdleCall
    <3>3. \A d \in Call \ {c} : Apart(y, call[d])
      BY <1>0, <1>d, <1>t, <1>3, <2>2, NoneAssumption
      DEF Spend, Granted, WaitsFor, HoldsCredential, Apart, At, CallInv, FreshPart,
        ResetPart, CodePart, CallState, IdleCall
    <3>4. call' = [call EXCEPT ![c] = y] /\ UNCHANGED rows
      BY <1>3, <2>2 DEF Spend, Goto, rows
    <3> QED
      BY <3>1, <3>2, <3>3, <3>4, CallStep
  <2> QED
    BY <1>3, <2>1, <2>2 DEF Spend
<1>4. CASE Complete(c)
  <2>1. CASE Finish(c)
    BY <1>4, <2>1, FinishStep DEF Complete, rows
  <2>2. CASE /\ Pending(x.reset) /\ x.began < reset[x.reset].expires
             /\ Goto(c, "finalizeCommit")
    <3> DEFINE y == [x EXCEPT !.pc = "finalizeCommit"]
    <3>1. y \in CallState
      BY <1>0, <1>t, <1>4, <2>2, IdleTyped DEF Complete, CallState
    <3>2. CallInv(y)
      BY <1>0, <1>t, <1>4, <2>2, NoneAssumption
      DEF Complete, CallInv, ResetPart, FreshPart, CodePart, CooldownPart,
          TokenPart, CallState, At, IdleCall
    <3>3. \A d \in Call \ {c} : Apart(y, call[d])
      BY <1>0, <1>d, <1>t, <1>4, <2>2, NoneAssumption
      DEF Complete, Granted, WaitsFor, HoldsReset, Apart, At, CallInv, FreshPart,
        ResetPart, CodePart, CallState, IdleCall
    <3>4. call' = [call EXCEPT ![c] = y] /\ UNCHANGED rows
      BY <1>4, <2>2 DEF Complete, Goto, rows
    <3> QED
      BY <3>1, <3>2, <3>3, <3>4, CallStep
  <2> QED
    BY <1>4, <2>1, <2>2 DEF Complete
<1>5. CASE AbortCall(c)
  BY <1>5, FinishStep DEF AbortCall, rows
<1> QED
  BY <1>1, <1>2, <1>3, <1>4, <1>5
-----------------------------------------------------------------------------
(* The steps that write                                                    *)

\* A call that ends holds nothing, and leaves the others where they were.
LEMMA FinishCalls ==
    ASSUME Inv, NEW c \in Call, Finish(c)
    PROVE  /\ call' \in [Call -> CallState]
           /\ call'[c] = IdleCall
           /\ \A d \in Call \ {c} : call'[d] = call[d]
           /\ CallsApart'
<1>1. /\ call' \in [Call -> CallState]
      /\ call'[c] = IdleCall
      /\ \A d \in Call \ {c} : call'[d] = call[d]
  BY IdleTyped DEF Finish, Inv, TypeOK
<1>2. CallsApart'
  <2> SUFFICES ASSUME NEW d \in Call, NEW e \in Call, d # e
               PROVE  Apart(call[d], call[e])'
    BY DEF CallsApart
  <2>1. Apart(call'[d], call'[e])
    BY <1>1, CallFacts DEF Apart, IdleCall
  <2> QED
    BY <2>1 DEF Apart
<1> QED
  BY <1>1, <1>2

\* A call that has finished relies on nothing.
LEMMA IdleInv ==
    ASSUME clock' \in Nat, NEW c \in Call, call'[c] = IdleCall
    PROVE  CallInv(call[c])'
  BY DEF CallInv, ResetPart, FreshPart, CodePart, CooldownPart, TokenPart, IdleCall

\* Counting a wrong PIN changes the attempts of a code and nothing anyone relies on.
LEMMA CountStep ==
    ASSUME Inv, NEW c \in Call, CountWrong(c)
    PROVE  Inv'
<1> DEFINE x == call[c]
<1>0. x \in CallState /\ CallInv(x)
  BY CallFacts
<1>1. x.code \in Code
  BY <1>0 DEF CountWrong, At, CallInv, CodePart, CallState
<1>2. /\ code' \in [Code -> CodeRow]
      /\ \A k \in Code : /\ code'[k].born = code[k].born
                         /\ code'[k].reset = code[k].reset
                         /\ code'[k].consumed = code[k].consumed
                         /\ code'[k].invalidated = code[k].invalidated
  BY <1>1, NumberAssumption DEF CountWrong, Inv, TypeOK, CodeRow
<1>3. /\ call' \in [Call -> CallState] /\ call'[c] = IdleCall
      /\ \A d \in Call \ {c} : call'[d] = call[d]
      /\ CallsApart'
  BY FinishCalls DEF CountWrong
<1>4. TypeOK'
  BY <1>2, <1>3 DEF CountWrong, Inv, TypeOK
<1>5. \A k \in Code : Active(k)' <=> Active(k)
  BY <1>2 DEF Active
<1>6. ASSUME NEW d \in Call PROVE CallInv(call[d])'
  <2>1. CASE d = c
    BY <2>1, <1>3, <1>4, IdleInv DEF TypeOK
  <2>2. CASE d # c
    <3>1. call'[d] = call[d] /\ call[d] \in CallState /\ CallInv(call[d])
      BY <2>2, <1>3, CallFacts
    <3>2. ResetPart(call[d])' /\ TokenPart(call[d])'
      BY <3>1 DEF CallInv, ResetPart, TokenPart, CountWrong, Pending
    <3>3. FreshPart(call[d])' /\ CodePart(call[d])' /\ CooldownPart(call[d])'
      BY <3>1, <1>2, <1>5 DEF CallInv, FreshPart, CodePart, CooldownPart, CallState,
         CountWrong, Pending, ActiveCodes
    <3> QED
      BY <3>2, <3>3 DEF CallInv
  <2> QED
    BY <2>1, <2>2
<1>7. RowInv' /\ OneOfEach' /\ VerifiedOnce'
  BY <1>2, <1>5 DEF Inv, RowInv, OneOfEach, VerifiedOnce, CountWrong, Pending, ActiveCodes
<1> QED
  BY <1>3, <1>4, <1>6, <1>7 DEF Inv, CallsInv

\* What the commit of an opening does to the rows.
LEMMA OpenEffect ==
    ASSUME Inv, NEW c \in Call, CommitOpen(c)
    PROVE  LET x == call[c] IN
           /\ x.fresh \in Reset /\ reset[x.fresh].status = "unborn"
           /\ x.now + ResetLifetime \in Nat
           /\ \A r \in Reset : Pending(r) => r = x.reset
           /\ x.reset # None => /\ x.reset \in Reset /\ Pending(x.reset)
                                /\ reset[x.reset].expires <= clock
           /\ x.fresh # x.reset
           /\ reset' \in [Reset -> ResetRow]
           /\ reset'[x.fresh] = [status |-> "pending", expires |-> x.now + ResetLifetime,
                                 request |-> "pending", lastSent |-> None]
           /\ \A r \in Reset \ {x.fresh} :
                 /\ reset'[r].expires = reset[r].expires
                 /\ reset'[r].request = reset[r].request
                 /\ reset'[r].lastSent = reset[r].lastSent
                 /\ reset'[r].status = IF r = x.reset THEN "expired" ELSE reset[r].status
<1> DEFINE x == call[c]
<1>0. x \in CallState /\ CallInv(x)
  BY CallFacts
<1>1. /\ x.fresh \in Reset /\ reset[x.fresh].status = "unborn"
      /\ x.now + ResetLifetime \in Nat
      /\ \A r \in Reset : Pending(r) => r = x.reset
      /\ x.reset # None => /\ x.reset \in Reset /\ Pending(x.reset)
                           /\ reset[x.reset].expires <= clock
  BY <1>0, NumberAssumption DEF CommitOpen, At, CallInv, FreshPart, ResetPart, CallState
<1>a. x.fresh # x.reset
  BY <1>1, NoneAssumption DEF Pending
<1>2. /\ reset' \in [Reset -> ResetRow]
      /\ reset'[x.fresh] = [status |-> "pending", expires |-> x.now + ResetLifetime,
                            request |-> "pending", lastSent |-> None]
      /\ \A r \in Reset \ {x.fresh} :
            /\ reset'[r].expires = reset[r].expires
            /\ reset'[r].request = reset[r].request
            /\ reset'[r].lastSent = reset[r].lastSent
            /\ reset'[r].status = IF r = x.reset THEN "expired" ELSE reset[r].status
  <2>1. reset \in [Reset -> ResetRow]
    BY DEF Inv, TypeOK
  <2>2. reset' = [r \in Reset |->
          CASE r = x.fresh -> [status |-> "pending", expires |-> x.now + ResetLifetime,
                               request |-> "pending", lastSent |-> None]
            [] r = x.reset -> [reset[r] EXCEPT !.status = "expired"]
            [] OTHER       -> reset[r]]
    BY DEF CommitOpen
  <2>3. /\ reset'[x.fresh] = [status |-> "pending", expires |-> x.now + ResetLifetime,
                              request |-> "pending", lastSent |-> None]
        /\ reset'[x.fresh] \in ResetRow
    <3>1. reset'[x.fresh] = [status |-> "pending", expires |-> x.now + ResetLifetime,
                             request |-> "pending", lastSent |-> None]
      BY <1>1, <1>a, <2>2
    <3> QED
      BY <1>1, <3>1 DEF ResetRow
  <2>4. ASSUME NEW r \in Reset \ {x.fresh}
        PROVE  /\ reset'[r] \in ResetRow
               /\ reset'[r].expires = reset[r].expires
               /\ reset'[r].request = reset[r].request
               /\ reset'[r].lastSent = reset[r].lastSent
               /\ reset'[r].status = IF r = x.reset THEN "expired" ELSE reset[r].status
    <3>1. reset'[r] = IF r = x.reset THEN [reset[r] EXCEPT !.status = "expired"]
                                     ELSE reset[r]
      BY <2>2
    <3> QED
      BY <2>1, <3>1 DEF ResetRow
  <2> QED
    BY <2>2, <2>3, <2>4
<1> QED
  BY <1>1, <1>a, <1>2

\* The new reset is the only pending one: what it replaces is expired, and there
\* was no other.
LEMMA CommitOpenStep ==
    ASSUME Inv, NEW c \in Call, CommitOpen(c)
    PROVE  Inv'
<1> DEFINE x == call[c]
<1>0. x \in CallState /\ CallInv(x)
  BY CallFacts
<1>1. /\ x.fresh \in Reset /\ reset[x.fresh].status = "unborn"
      /\ x.now + ResetLifetime \in Nat
      /\ \A r \in Reset : Pending(r) => r = x.reset
      /\ x.reset # None => /\ x.reset \in Reset /\ Pending(x.reset)
                           /\ reset[x.reset].expires <= clock
  BY OpenEffect
<1>a. x.fresh # x.reset
  BY OpenEffect
<1>2. /\ reset' \in [Reset -> ResetRow]
      /\ reset'[x.fresh] = [status |-> "pending", expires |-> x.now + ResetLifetime,
                            request |-> "pending", lastSent |-> None]
      /\ \A r \in Reset \ {x.fresh} :
            /\ reset'[r].expires = reset[r].expires
            /\ reset'[r].request = reset[r].request
            /\ reset'[r].lastSent = reset[r].lastSent
            /\ reset'[r].status = IF r = x.reset THEN "expired" ELSE reset[r].status
  BY OpenEffect
<1>3. /\ call' \in [Call -> CallState] /\ call'[c] = IdleCall
      /\ \A d \in Call \ {c} : call'[d] = call[d]
      /\ CallsApart'
  BY FinishCalls DEF CommitOpen
<1>4. TypeOK'
  BY <1>2, <1>3 DEF CommitOpen, Inv, TypeOK
<1>5. \A r \in Reset : Pending(r)' <=> r = x.fresh
  BY <1>1, <1>2 DEF Pending
<1>6. ASSUME NEW d \in Call PROVE CallInv(call[d])'
  <2>1. CASE d = c
    BY <2>1, <1>3, <1>4, IdleInv DEF TypeOK
  <2>2. CASE d # c
    <3>1. /\ call'[d] = call[d] /\ call[d] \in CallState /\ CallInv(call[d])
          /\ Apart(x, call[d])
          /\ x.pc = "openCommit"
      BY <2>2, <1>3, CallFacts DEF CommitOpen, At
    <3>2. ResetPart(call[d])'
      <4>1. call[d].pc \in ResetLocks /\ call[d].reset # None => call[d].reset # x.reset
        BY <3>1 DEF Apart
      <4>2. clock' = clock
        BY DEF CommitOpen
      <4>3. call[d].reset \in Reset /\ reset[call[d].reset].status # "unborn" =>
               call[d].reset # x.fresh
        BY <1>1
      <4> QED
        <5> DEFINE z == call[d]
        <5>1. z.began <= clock'
          BY <3>1, <4>2 DEF CallInv, ResetPart
        <5>2. z.pc \in {"idle", "find"} => z.reset = None
          BY <3>1 DEF CallInv, ResetPart
        <5>3. z.pc \in Working => z.reset \in Reset /\ reset'[z.reset].status # "unborn"
          BY <3>1, <4>3, <1>2 DEF CallInv, ResetPart
        <5>4. z.pc \in {"lockRequest", "finalizeCommit"} =>
                 reset'[z.reset].status = "pending"
          BY <3>1, <4>1, <4>3, <1>2, NoneAssumption DEF CallInv, ResetPart, Pending
        <5>5. z.pc \in {"insert", "openCommit"} /\ z.reset # None =>
                 /\ reset'[z.reset].status = "pending"
                 /\ reset'[z.reset].expires <= clock'
          BY <3>1, <4>1, <4>2, <4>3, <1>2 DEF CallInv, ResetPart, Pending, CallState
        <5>6. z.pc = "grant" => reset'[z.reset].request = "pending"
          BY <3>1, <4>3, <1>2 DEF CallInv, ResetPart
        <5>7. z.pc = "finalizeCommit" => z.began < reset'[z.reset].expires
          BY <3>1, <4>3, <1>2 DEF CallInv, ResetPart
        <5> QED
          BY <3>1, <5>1, <5>2, <5>3, <5>4, <5>5, <5>6, <5>7 DEF ResetPart, Pending
    <3>3. FreshPart(call[d])'
      BY <3>1 DEF CallInv, FreshPart, Apart, CommitOpen, Active, ActiveCodes
    <3>4. CodePart(call[d])' /\ TokenPart(call[d])'
      BY <3>1 DEF CallInv, CodePart, TokenPart, CommitOpen, Active
    <3>5. CooldownPart(call[d])'
      BY <3>1, <1>1, <1>2 DEF CallInv, ResetPart, CooldownPart, CallState, CommitOpen,
         Active, ActiveCodes
    <3> QED
      BY <3>2, <3>3, <3>4, <3>5 DEF CallInv
  <2> QED
    BY <2>1, <2>2
<1>7. RowInv'
  BY <1>1, <1>2, NoneAssumption DEF Inv, RowInv, CommitOpen
<1>8. OneOfEach'
  BY <1>5 DEF Inv, OneOfEach, CommitOpen, Active, ActiveCodes
<1>9. VerifiedOnce'
  BY <1>1, <1>2 DEF Inv, RowInv, VerifiedOnce, CommitOpen
<1> QED
  BY <1>3, <1>4, <1>6, <1>7, <1>8, <1>9 DEF Inv, CallsInv

\* What the commit of a PIN does to the rows.
LEMMA IssueEffect ==
    ASSUME Inv, NEW c \in Call, CommitIssue(c)
    PROVE  LET x == call[c] IN
           /\ x.fresh \in Code /\ ~code[x.fresh].born
           /\ x.reset \in Reset /\ reset[x.reset].status # "unborn"
           /\ x.now + CodeLifetime \in Nat
           /\ x.began \in Nat /\ x.began <= clock
           /\ \A k \in ActiveCodes(x.reset) : k = x.code
           /\ x.code # None => x.code \in Code /\ code[x.code].born
                               /\ code[x.code].reset = x.reset
           /\ x.fresh # x.code
           /\ code' \in [Code -> CodeRow]
           /\ code'[x.fresh].born /\ code'[x.fresh].reset = x.reset
           /\ code'[x.fresh].expires = x.now + CodeLifetime
           /\ ~code'[x.fresh].consumed /\ ~code'[x.fresh].invalidated
           /\ \A k \in Code \ {x.fresh} :
                 /\ code'[k].born <=> code[k].born
                 /\ code'[k].reset = code[k].reset
                 /\ code'[k].expires = code[k].expires
                 /\ code'[k].consumed <=> code[k].consumed
                 /\ code'[k].invalidated <=> (k = x.code \/ code[k].invalidated)
           /\ reset' \in [Reset -> ResetRow]
           /\ reset'[x.reset].lastSent = x.began
           /\ \A r \in Reset : /\ reset'[r].status = reset[r].status
                               /\ reset'[r].expires = reset[r].expires
                               /\ reset'[r].request = reset[r].request
                               /\ r # x.reset => reset'[r].lastSent = reset[r].lastSent
<1> DEFINE x == call[c]
<1>0. x \in CallState /\ CallInv(x) /\ x.pc = "stamp"
  BY CallFacts DEF CommitIssue, At
<1>t. /\ clock \in Nat
      /\ reset \in [Reset -> ResetRow]
      /\ code \in [Code -> CodeRow]
  BY DEF Inv, TypeOK
<1>1. /\ x.fresh \in Code /\ ~code[x.fresh].born
      /\ x.reset \in Reset /\ reset[x.reset].status # "unborn"
      /\ x.now + CodeLifetime \in Nat
      /\ x.began \in Nat /\ x.began <= clock
      /\ \A k \in ActiveCodes(x.reset) : k = x.code
      /\ x.code # None => x.code \in Code /\ code[x.code].born
                          /\ code[x.code].reset = x.reset
  BY <1>0, NumberAssumption DEF CallInv, FreshPart, ResetPart, CodePart, CallState
<1>a. x.fresh # x.code
  BY <1>1, NoneAssumption
<1>2. /\ code' \in [Code -> CodeRow]
      /\ code'[x.fresh].born /\ code'[x.fresh].reset = x.reset
      /\ code'[x.fresh].expires = x.now + CodeLifetime
      /\ ~code'[x.fresh].consumed /\ ~code'[x.fresh].invalidated
      /\ \A k \in Code \ {x.fresh} :
            /\ code'[k].born <=> code[k].born
            /\ code'[k].reset = code[k].reset
            /\ code'[k].expires = code[k].expires
            /\ code'[k].consumed <=> code[k].consumed
            /\ code'[k].invalidated <=> (k = x.code \/ code[k].invalidated)
  <2>2. code' = [k \in Code |->
          CASE k = x.fresh -> [born |-> TRUE, reset |-> x.reset, attempts |-> 0,
                               expires |-> x.now + CodeLifetime,
                               consumed |-> FALSE, invalidated |-> FALSE]
            [] k = x.code  -> [code[k] EXCEPT !.invalidated = TRUE]
            [] OTHER       -> code[k]]
    BY DEF CommitIssue
  <2>3. /\ code'[x.fresh] \in CodeRow
        /\ code'[x.fresh].born /\ code'[x.fresh].reset = x.reset
        /\ code'[x.fresh].expires = x.now + CodeLifetime
        /\ ~code'[x.fresh].consumed /\ ~code'[x.fresh].invalidated
    <3>1. code'[x.fresh] = [born |-> TRUE, reset |-> x.reset, attempts |-> 0,
                            expires |-> x.now + CodeLifetime,
                            consumed |-> FALSE, invalidated |-> FALSE]
      BY <1>1, <1>a, <2>2
    <3> QED
      BY <1>1, <3>1, NumberAssumption DEF CodeRow
  <2>4. ASSUME NEW k \in Code \ {x.fresh}
        PROVE  /\ code'[k] \in CodeRow
               /\ code'[k].born <=> code[k].born
               /\ code'[k].reset = code[k].reset
               /\ code'[k].expires = code[k].expires
               /\ code'[k].consumed <=> code[k].consumed
               /\ code'[k].invalidated <=> (k = x.code \/ code[k].invalidated)
    <3>1. code'[k] = IF k = x.code THEN [code[k] EXCEPT !.invalidated = TRUE] ELSE code[k]
      BY <2>2
    <3> QED
      BY <1>t, <3>1 DEF CodeRow
  <2> QED
    BY <2>2, <2>3, <2>4
<1>4. /\ reset' \in [Reset -> ResetRow]
      /\ reset'[x.reset].lastSent = x.began
      /\ \A r \in Reset : /\ reset'[r].status = reset[r].status
                          /\ reset'[r].expires = reset[r].expires
                          /\ reset'[r].request = reset[r].request
                          /\ r # x.reset => reset'[r].lastSent = reset[r].lastSent
  BY <1>1, <1>t DEF CommitIssue, ResetRow
<1> QED
  BY <1>1, <1>a, <1>2, <1>4

\* The new code is the only active one of its reset, and nobody else works on it.
LEMMA CommitIssueStep ==
    ASSUME Inv, NEW c \in Call, CommitIssue(c)
    PROVE  Inv'
<1> DEFINE x == call[c]
<1>0. x \in CallState /\ CallInv(x) /\ x.pc = "stamp"
  BY CallFacts DEF CommitIssue, At
<1>t. /\ clock \in Nat
      /\ reset \in [Reset -> ResetRow]
      /\ code \in [Code -> CodeRow]
  BY DEF Inv, TypeOK
<1>1. /\ x.fresh \in Code /\ ~code[x.fresh].born
      /\ x.reset \in Reset /\ reset[x.reset].status # "unborn"
      /\ x.now + CodeLifetime \in Nat
      /\ x.began \in Nat /\ x.began <= clock
      /\ \A k \in ActiveCodes(x.reset) : k = x.code
      /\ x.code # None => x.code \in Code /\ code[x.code].born
                          /\ code[x.code].reset = x.reset
  BY IssueEffect
<1>a. x.fresh # x.code
  BY IssueEffect
<1>2. /\ code' \in [Code -> CodeRow]
      /\ code'[x.fresh].born /\ code'[x.fresh].reset = x.reset
      /\ ~code'[x.fresh].consumed /\ ~code'[x.fresh].invalidated
      /\ \A k \in Code \ {x.fresh} :
            /\ code'[k].born <=> code[k].born
            /\ code'[k].reset = code[k].reset
            /\ code'[k].expires = code[k].expires
            /\ code'[k].consumed <=> code[k].consumed
            /\ code'[k].invalidated <=> (k = x.code \/ code[k].invalidated)
  BY IssueEffect
<1>4. /\ reset' \in [Reset -> ResetRow]
      /\ reset'[x.reset].lastSent = x.began
      /\ \A r \in Reset : /\ reset'[r].status = reset[r].status
                          /\ reset'[r].expires = reset[r].expires
                          /\ reset'[r].request = reset[r].request
                          /\ r # x.reset => reset'[r].lastSent = reset[r].lastSent
  BY IssueEffect
<1>3. /\ call' \in [Call -> CallState] /\ call'[c] = IdleCall
      /\ \A d \in Call \ {c} : call'[d] = call[d]
      /\ CallsApart'
  BY FinishCalls DEF CommitIssue
<1>5. TypeOK'
  BY <1>2, <1>3, <1>4 DEF CommitIssue, Inv, TypeOK
<1>6. \A k \in Code : Active(k)' <=> k = x.fresh \/ (Active(k) /\ k # x.code)
  BY <1>1, <1>a, <1>2 DEF Active
<1>7. \A r \in Reset : Pending(r)' <=> Pending(r)
  BY <1>4 DEF Pending
<1>8. ASSUME NEW d \in Call PROVE CallInv(call[d])'
  <2>1. CASE d = c
    BY <2>1, <1>3, <1>5, IdleInv DEF TypeOK
  <2>2. CASE d # c
    <3> DEFINE z == call[d]
    <3>1. /\ call'[d] = z /\ z \in CallState /\ CallInv(z)
          /\ Apart(x, z)
      BY <2>2, <1>3, CallFacts
    <3>2. ResetPart(call[d])'
      BY <3>1, <1>4 DEF CallInv, ResetPart, CallState, CommitIssue, Pending
    <3>a. z.code # None => z.code \in Code /\ code[z.code].born
                            /\ code[z.code].reset = z.reset /\ z.code # x.fresh
      BY <3>1, <1>1 DEF CallInv, CodePart, CallState
    <3>3. FreshPart(call[d])'
      <4>1. z.pc \notin {"openCommit", "stamp"} => z.fresh = None
        BY <3>1 DEF CallInv, FreshPart
      <4>2. z.pc = "openCommit" => /\ z.fresh \in Reset
                                   /\ reset'[z.fresh].status = "unborn"
                                   /\ \A r \in Reset : Pending(r)' => r = z.reset
        BY <3>1, <1>4, <1>7 DEF CallInv, FreshPart
      <4>3. z.pc = "stamp" => z.fresh \in Code /\ ~code'[z.fresh].born
        BY <3>1, <1>1, <1>2, NoneAssumption DEF CallInv, FreshPart, Apart
      <4>4. z.pc = "stamp" => \A k \in Code : Active(k)' /\ code'[k].reset = z.reset
                                                 => k = z.code
        <5> SUFFICES ASSUME z.pc = "stamp", NEW k \in Code, Active(k)',
                            code'[k].reset = z.reset
                     PROVE  k = z.code
          OBVIOUS
        <5>1. z.reset # x.reset
          BY <3>1, <1>0, <1>1, NoneAssumption DEF Apart
        <5>2. k # x.fresh
          BY <5>1, <1>2
        <5>3. Active(k) /\ code[k].reset = z.reset
          BY <5>2, <1>2, <1>6
        <5> QED
          BY <5>3, <3>1 DEF CallInv, FreshPart, ActiveCodes
      <4> QED
        BY <3>1, <4>1, <4>2, <4>3, <4>4 DEF FreshPart, ActiveCodes
    <3>4. CodePart(call[d])'
      <4>1. z.pc \in {"mark", "grant"} => z.code # x.code
        BY <3>1, <1>0 DEF Apart, CallInv, CodePart
      <4> QED
        BY <3>1, <3>a, <4>1, <1>2, <1>6 DEF CallInv, CodePart
    <3>5. CooldownPart(call[d])'
      <4> SUFFICES ASSUME z.pc \in {"invalidate", "insertCode", "stamp"},
                          reset'[z.reset].request = "pending",
                          reset'[z.reset].lastSent # None,
                          reset'[z.reset].lastSent > z.began
                   PROVE  \E k \in Code :
                             Active(k)' /\ code'[k].reset = z.reset /\ k # z.code
        BY <3>1 DEF CooldownPart, ActiveCodes
      <4>1. z.reset \in Reset
        BY <3>1 DEF CallInv, ResetPart
      <4>2. CASE z.reset = x.reset
        BY <4>2, <3>a, <1>1, <1>2, <1>6, NoneAssumption
      <4>3. CASE z.reset # x.reset
        <5>1. PICK k \in ActiveCodes(z.reset) : k # z.code
          BY <3>1, <4>1, <4>3, <1>4 DEF CallInv, CooldownPart
        <5>2. k \in Code /\ Active(k) /\ code[k].reset = z.reset
          BY <5>1 DEF ActiveCodes
        <5>3. k # x.code /\ k # x.fresh
          BY <5>2, <4>3, <1>1, NoneAssumption DEF Active
        <5> QED
          BY <5>1, <5>2, <5>3, <1>2, <1>6
      <4> QED
        BY <4>2, <4>3
    <3>6. TokenPart(call[d])'
      BY <3>1 DEF CallInv, TokenPart, CommitIssue
    <3> QED
      BY <3>2, <3>3, <3>4, <3>5, <3>6 DEF CallInv
  <2> QED
    BY <2>1, <2>2
<1>9. RowInv'
  <2>1. RowInv /\ token' = token /\ clock' = clock
    BY DEF Inv, CommitIssue
  <2>2. \A r \in Reset :
           /\ reset'[r].status = "unborn" =>
                 reset'[r].request = "pending" /\ reset'[r].lastSent = None
           /\ reset'[r].lastSent # None => reset'[r].lastSent <= clock
    BY <1>1, <1>4, <2>1 DEF RowInv
  <2>3. \A k \in Code :
           ~code'[k].born => ~code'[k].consumed /\ ~code'[k].invalidated
    BY <1>1, <1>2, <2>1, NoneAssumption DEF RowInv
  <2> QED
    BY <2>1, <2>2, <2>3 DEF RowInv
<1>10. OneOfEach'
  <2>1. \A r \in Reset : \A k, j \in Code :
           /\ Active(k)' /\ code'[k].reset = r
           /\ Active(j)' /\ code'[j].reset = r
           => k = j
    <3> SUFFICES ASSUME NEW r \in Reset, NEW k \in Code, NEW j \in Code,
                        Active(k)', code'[k].reset = r,
                        Active(j)', code'[j].reset = r
                 PROVE  k = j
      OBVIOUS
    <3>1. CASE r = x.reset
      <4>1. ASSUME NEW i \in Code, Active(i)', code'[i].reset = r PROVE i = x.fresh
        BY <3>1, <4>1, <1>1, <1>2, <1>6 DEF ActiveCodes
      <4> QED
        BY <4>1
    <3>2. CASE r # x.reset
      BY <3>2, <1>2, <1>6 DEF Inv, OneOfEach, ActiveCodes
    <3> QED
      BY <3>1, <3>2
  <2> QED
    BY <2>1, <1>7 DEF Inv, OneOfEach, ActiveCodes
<1>11. VerifiedOnce'
  <2>1. \A k \in Code : \A r \in Reset :
           code'[k].reset = r /\ code'[k].consumed <=> code[k].reset = r /\ code[k].consumed
    BY <1>1, <1>2 DEF Inv, RowInv
  <2>2. \A r \in Reset :
           {k \in Code : code'[k].reset = r /\ code'[k].consumed}
             = {k \in Code : code[k].reset = r /\ code[k].consumed}
    BY <2>1
  <2>3. /\ \A r \in Reset : reset'[r].request = reset[r].request
        /\ token' = token
    BY <1>4 DEF CommitIssue
  <2>4. VerifiedOnce
    BY DEF Inv
  <2> HIDE DEF x
  <2> QED
    BY <2>2, <2>3, <2>4 DEF VerifiedOnce
<1> QED
  BY <1>3, <1>5, <1>8, <1>9, <1>10, <1>11 DEF Inv, CallsInv

\* What the commit of a verification does to the rows.
LEMMA VerificationEffect ==
    ASSUME Inv, NEW c \in Call, NEW new \in Token, CommitVerification(c, new)
    PROVE  LET x == call[c] IN
           /\ x.reset \in Reset
           /\ reset[x.reset].status # "unborn" /\ reset[x.reset].request = "pending"
           /\ x.code \in Code /\ Active(x.code) /\ code[x.code].reset = x.reset
           /\ x.now + TokenLifetime \in Nat
           /\ code' \in [Code -> CodeRow]
           /\ code'[x.code].consumed
           /\ \A k \in Code : /\ code'[k].born <=> code[k].born
                              /\ code'[k].reset = code[k].reset
                              /\ code'[k].expires = code[k].expires
                              /\ k # x.code => (code'[k].consumed <=> code[k].consumed)
                              /\ code'[k].invalidated <=> code[k].invalidated
           /\ reset' \in [Reset -> ResetRow]
           /\ reset'[x.reset].request = "verified"
           /\ \A r \in Reset : /\ reset'[r].status = reset[r].status
                               /\ reset'[r].expires = reset[r].expires
                               /\ reset'[r].lastSent = reset[r].lastSent
                               /\ r # x.reset => reset'[r].request = reset[r].request
           /\ token' \in [Token -> TokenRow]
           /\ token'[new].born /\ token'[new].reset = x.reset /\ ~token'[new].consumed
           /\ token'[new].expires = x.now + TokenLifetime
           /\ \A t \in Token \ {new} : token'[t] = token[t]
<1> DEFINE x == call[c]
<1>0. x \in CallState /\ CallInv(x) /\ x.pc = "grant"
  BY CallFacts DEF CommitVerification, At
<1>t. /\ clock \in Nat
      /\ reset \in [Reset -> ResetRow]
      /\ code \in [Code -> CodeRow]
      /\ token \in [Token -> TokenRow]
  BY DEF Inv, TypeOK
<1>1. /\ x.reset \in Reset
      /\ reset[x.reset].status # "unborn" /\ reset[x.reset].request = "pending"
      /\ x.code \in Code /\ Active(x.code) /\ code[x.code].reset = x.reset
      /\ x.now + TokenLifetime \in Nat
  BY <1>0, NumberAssumption DEF CallInv, ResetPart, CodePart, CallState
<1>2. /\ code' \in [Code -> CodeRow]
      /\ code'[x.code].consumed
      /\ \A k \in Code : /\ code'[k].born <=> code[k].born
                         /\ code'[k].reset = code[k].reset
                         /\ code'[k].expires = code[k].expires
                         /\ k # x.code => (code'[k].consumed <=> code[k].consumed)
                         /\ code'[k].invalidated <=> code[k].invalidated
  BY <1>1, <1>t DEF CommitVerification, CodeRow
<1>4. /\ reset' \in [Reset -> ResetRow]
      /\ reset'[x.reset].request = "verified"
      /\ \A r \in Reset : /\ reset'[r].status = reset[r].status
                          /\ reset'[r].expires = reset[r].expires
                          /\ reset'[r].lastSent = reset[r].lastSent
                          /\ r # x.reset => reset'[r].request = reset[r].request
  BY <1>1, <1>t DEF CommitVerification, ResetRow
<1>5. /\ token' \in [Token -> TokenRow]
      /\ token'[new].born /\ token'[new].reset = x.reset /\ ~token'[new].consumed
      /\ token'[new].expires = x.now + TokenLifetime
      /\ \A t \in Token \ {new} : token'[t] = token[t]
  BY <1>1, <1>t DEF CommitVerification, TokenRow
<1> QED
  BY <1>1, <1>2, <1>4, <1>5

\* The code is the first that is consumed for its reset, and the continuation the
\* first that is granted: the request is still pending.
LEMMA CommitVerificationStep ==
    ASSUME Inv, NEW c \in Call, NEW new \in Token, CommitVerification(c, new)
    PROVE  Inv'
<1> DEFINE x == call[c]
<1>0. x \in CallState /\ CallInv(x) /\ x.pc = "grant"
  BY CallFacts DEF CommitVerification, At
<1>t. /\ clock \in Nat
      /\ reset \in [Reset -> ResetRow]
      /\ code \in [Code -> CodeRow]
      /\ token \in [Token -> TokenRow]
  BY DEF Inv, TypeOK
<1>1. /\ x.reset \in Reset
      /\ reset[x.reset].status # "unborn" /\ reset[x.reset].request = "pending"
      /\ x.code \in Code /\ Active(x.code) /\ code[x.code].reset = x.reset
      /\ x.now + TokenLifetime \in Nat
  BY VerificationEffect
<1>2. /\ code' \in [Code -> CodeRow]
      /\ code'[x.code].consumed
      /\ \A k \in Code : /\ code'[k].born <=> code[k].born
                         /\ code'[k].reset = code[k].reset
                         /\ code'[k].expires = code[k].expires
                         /\ k # x.code => (code'[k].consumed <=> code[k].consumed)
                         /\ code'[k].invalidated <=> code[k].invalidated
  BY VerificationEffect
<1>4. /\ reset' \in [Reset -> ResetRow]
      /\ reset'[x.reset].request = "verified"
      /\ \A r \in Reset : /\ reset'[r].status = reset[r].status
                          /\ reset'[r].expires = reset[r].expires
                          /\ reset'[r].lastSent = reset[r].lastSent
                          /\ r # x.reset => reset'[r].request = reset[r].request
  BY VerificationEffect
<1>5. /\ token' \in [Token -> TokenRow]
      /\ token'[new].born /\ token'[new].reset = x.reset /\ ~token'[new].consumed
      /\ \A t \in Token \ {new} : token'[t] = token[t]
  BY VerificationEffect
<1>3. /\ call' \in [Call -> CallState] /\ call'[c] = IdleCall
      /\ \A d \in Call \ {c} : call'[d] = call[d]
      /\ CallsApart'
  BY FinishCalls DEF CommitVerification
<1>6. TypeOK'
  BY <1>2, <1>3, <1>4, <1>5 DEF CommitVerification, Inv, TypeOK
<1>7. /\ \A k \in Code : Active(k)' <=> (Active(k) /\ k # x.code)
      /\ \A r \in Reset : Pending(r)' <=> Pending(r)
  BY <1>2, <1>4 DEF Active, Pending
<1>8. ASSUME NEW d \in Call PROVE CallInv(call[d])'
  <2>1. CASE d = c
    BY <2>1, <1>3, <1>6, IdleInv DEF TypeOK
  <2>2. CASE d # c
    <3> DEFINE z == call[d]
    <3>1. call'[d] = z /\ z \in CallState /\ CallInv(z) /\ Apart(x, z)
      BY <2>2, <1>3, CallFacts
    <3>2. z.pc = "grant" => z.reset # x.reset
      BY <3>1, <1>0, <1>1, NoneAssumption DEF Apart
    <3>3. z.pc \in {"mark", "grant"} => z.code # x.code
      BY <3>1, <1>0, <1>1, NoneAssumption DEF Apart
    <3>4. ResetPart(call[d])'
      BY <3>1, <3>2, <1>4 DEF CallInv, ResetPart, CallState, CommitVerification, Pending
    <3>5. FreshPart(call[d])'
      BY <3>1, <1>2, <1>4, <1>7 DEF CallInv, FreshPart, ActiveCodes
    <3>6. CodePart(call[d])'
      BY <3>1, <3>3, <1>2, <1>7 DEF CallInv, CodePart, CallState
    <3>7. CooldownPart(call[d])'
      <4> SUFFICES ASSUME z.pc \in {"invalidate", "insertCode", "stamp"},
                          reset'[z.reset].request = "pending",
                          reset'[z.reset].lastSent # None,
                          reset'[z.reset].lastSent > z.began
                   PROVE  \E k \in Code :
                             Active(k)' /\ code'[k].reset = z.reset /\ k # z.code
        BY <3>1 DEF CooldownPart, ActiveCodes
      <4>1. z.reset \in Reset /\ z.reset # x.reset
        BY <3>1, <1>4 DEF CallInv, ResetPart
      <4>2. PICK k \in ActiveCodes(z.reset) : k # z.code
        BY <3>1, <4>1, <1>4 DEF CallInv, CooldownPart
      <4> QED
        BY <4>1, <4>2, <1>1, <1>2, <1>7 DEF ActiveCodes
    <3>8. TokenPart(call[d])'
      BY <3>1, <1>5, CommitVerification(c, new)
      DEF CallInv, TokenPart, CallState, CommitVerification
    <3> QED
      BY <3>4, <3>5, <3>6, <3>7, <3>8 DEF CallInv
  <2> QED
    BY <2>1, <2>2
<1>9. RowInv'
  BY <1>1, <1>2, <1>4, <1>5 DEF Inv, RowInv, CommitVerification, Active
<1>10. OneOfEach'
  BY <1>2, <1>7 DEF Inv, OneOfEach, ActiveCodes
<1>11. VerifiedOnce'
  <2> SUFFICES ASSUME NEW r \in Reset
               PROVE  LET spent == {k \in Code : code'[k].reset = r /\ code'[k].consumed}
                          earned == {t \in Token : token'[t].reset = r}
                      IN IF reset'[r].request = "verified"
                         THEN /\ \E k \in Code : spent = {k}
                              /\ \E t \in Token : earned = {t}
                         ELSE spent = {} /\ earned = {}
    BY DEF VerifiedOnce
  <2> DEFINE spent == {k \in Code : code[k].reset = r /\ code[k].consumed}
             earned == {t \in Token : token[t].reset = r}
             spentNow == {k \in Code : code'[k].reset = r /\ code'[k].consumed}
             earnedNow == {t \in Token : token'[t].reset = r}
  <2>0. token[new].reset = None
    BY DEF CommitVerification, Inv, RowInv
  <2>1. CASE r = x.reset
    <3>1. spent = {} /\ earned = {}
      BY <2>1, <1>1 DEF Inv, VerifiedOnce
    <3>2. spentNow = {x.code}
      BY <2>1, <3>1, <1>1, <1>2
    <3>3. earnedNow = {new}
      BY <2>1, <3>1, <1>5
    <3> QED
      BY <2>1, <3>2, <3>3, <1>1, <1>4
  <2>2. CASE r # x.reset
    <3>1. spentNow = spent
      BY <2>2, <1>1, <1>2
    <3>2. earnedNow = earned
      BY <2>0, <2>2, <1>5, NoneAssumption
    <3>3. IF reset[r].request = "verified"
          THEN (\E k \in Code : spent = {k}) /\ (\E t \in Token : earned = {t})
          ELSE spent = {} /\ earned = {}
      BY DEF Inv, VerifiedOnce
    <3> QED
      BY <2>2, <3>1, <3>2, <3>3, <1>4
  <2> QED
    BY <2>1, <2>2
<1> QED
  BY <1>3, <1>6, <1>8, <1>9, <1>10, <1>11 DEF Inv, CallsInv

\* What the commit of a finalization does to the rows.
LEMMA FinalizeEffect ==
    ASSUME Inv, NEW c \in Call, CommitFinalize(c)
    PROVE  LET x == call[c] IN
           /\ x.reset \in Reset /\ Pending(x.reset)
           /\ x.token \in Token /\ token[x.token].born /\ token[x.token].reset = x.reset
           /\ ~token[x.token].consumed
           /\ x.began < reset[x.reset].expires /\ x.began < token[x.token].expires
           /\ reset' \in [Reset -> ResetRow]
           /\ reset'[x.reset].status = "completed"
           /\ \A r \in Reset : /\ r # x.reset => reset'[r].status = reset[r].status
                               /\ reset'[r].expires = reset[r].expires
                               /\ reset'[r].lastSent = reset[r].lastSent
                               /\ reset'[r].request = reset[r].request
           /\ token' \in [Token -> TokenRow]
           /\ token'[x.token].consumed /\ credential' = x.token
           /\ \A t \in Token : /\ token'[t].born <=> token[t].born
                               /\ token'[t].reset = token[t].reset
                               /\ token'[t].expires = token[t].expires
                               /\ t # x.token => (token'[t].consumed <=> token[t].consumed)
<1> DEFINE x == call[c]
<1>0. x \in CallState /\ CallInv(x) /\ x.pc = "finalizeCommit"
  BY CallFacts DEF CommitFinalize, At
<1>t. /\ clock \in Nat
      /\ reset \in [Reset -> ResetRow]
      /\ token \in [Token -> TokenRow]
  BY DEF Inv, TypeOK
<1>1. /\ x.reset \in Reset /\ Pending(x.reset)
      /\ x.token \in Token /\ token[x.token].born /\ token[x.token].reset = x.reset
      /\ ~token[x.token].consumed
      /\ x.began < reset[x.reset].expires /\ x.began < token[x.token].expires
  BY <1>0 DEF CallInv, ResetPart, TokenPart, CallState
<1>2. /\ reset' \in [Reset -> ResetRow]
      /\ reset'[x.reset].status = "completed"
      /\ \A r \in Reset : /\ r # x.reset => reset'[r].status = reset[r].status
                          /\ reset'[r].expires = reset[r].expires
                          /\ reset'[r].lastSent = reset[r].lastSent
                          /\ reset'[r].request = reset[r].request
  BY <1>1, <1>t DEF CommitFinalize, ResetRow
<1>4. /\ token' \in [Token -> TokenRow]
      /\ token'[x.token].consumed /\ credential' = x.token
      /\ \A t \in Token : /\ token'[t].born <=> token[t].born
                          /\ token'[t].reset = token[t].reset
                          /\ token'[t].expires = token[t].expires
                          /\ t # x.token => (token'[t].consumed <=> token[t].consumed)
  BY <1>1, <1>t DEF CommitFinalize, TokenRow
<1> QED
  BY <1>1, <1>2, <1>4

\* A finalization ends the reset that it holds locked, and its continuation.
LEMMA CommitFinalizeStep ==
    ASSUME Inv, NEW c \in Call, CommitFinalize(c)
    PROVE  Inv'
<1> DEFINE x == call[c]
<1>0. x \in CallState /\ CallInv(x) /\ x.pc = "finalizeCommit"
  BY CallFacts DEF CommitFinalize, At
<1>t. /\ clock \in Nat
      /\ reset \in [Reset -> ResetRow]
      /\ token \in [Token -> TokenRow]
  BY DEF Inv, TypeOK
<1>1. /\ x.reset \in Reset /\ Pending(x.reset)
      /\ x.token \in Token /\ token[x.token].born /\ token[x.token].reset = x.reset
      /\ ~token[x.token].consumed
  BY FinalizeEffect
<1>2. /\ reset' \in [Reset -> ResetRow]
      /\ reset'[x.reset].status = "completed"
      /\ \A r \in Reset : /\ r # x.reset => reset'[r].status = reset[r].status
                          /\ reset'[r].expires = reset[r].expires
                          /\ reset'[r].lastSent = reset[r].lastSent
                          /\ reset'[r].request = reset[r].request
  BY FinalizeEffect
<1>4. /\ token' \in [Token -> TokenRow]
      /\ token'[x.token].consumed /\ credential' = x.token
      /\ \A t \in Token : /\ token'[t].born <=> token[t].born
                          /\ token'[t].reset = token[t].reset
                          /\ token'[t].expires = token[t].expires
                          /\ t # x.token => (token'[t].consumed <=> token[t].consumed)
  BY FinalizeEffect
<1>3. /\ call' \in [Call -> CallState] /\ call'[c] = IdleCall
      /\ \A d \in Call \ {c} : call'[d] = call[d]
      /\ CallsApart'
  BY FinishCalls DEF CommitFinalize
<1>5. TypeOK'
  BY <1>1, <1>2, <1>3, <1>4 DEF CommitFinalize, Inv, TypeOK
<1>6. \A r \in Reset : Pending(r)' <=> Pending(r) /\ r # x.reset
  BY <1>2 DEF Pending
<1>7. ASSUME NEW d \in Call PROVE CallInv(call[d])'
  <2>1. CASE d = c
    BY <2>1, <1>3, <1>5, IdleInv DEF TypeOK
  <2>2. CASE d # c
    <3> DEFINE z == call[d]
    <3>1. call'[d] = z /\ z \in CallState /\ CallInv(z) /\ Apart(x, z)
      BY <2>2, <1>3, CallFacts
    <3>2. /\ z.pc \in ResetLocks /\ z.reset # None => z.reset # x.reset
          /\ z.pc \notin CredentialLocks
      BY <3>1, <1>0 DEF Apart
    <3>3. ResetPart(call[d])'
      <4>1. z.pc \in Working => z.reset \in Reset /\ reset'[z.reset].status # "unborn"
        BY <3>1, <1>2 DEF CallInv, ResetPart
      <4>2. z.pc \in {"insert", "openCommit"} /\ z.reset # None =>
               /\ reset'[z.reset].status = "pending"
               /\ reset'[z.reset].expires <= clock'
        BY <3>1, <3>2, <1>2 DEF CallInv, ResetPart, Pending, CallState, CommitFinalize
      <4>3. z.pc \in {"lockRequest", "finalizeCommit"} => reset'[z.reset].status = "pending"
        BY <3>1, <3>2, <1>2, NoneAssumption DEF CallInv, ResetPart, Pending, CallState
      <4>4. z.pc = "grant" => reset'[z.reset].request = "pending"
        BY <3>1, <1>2 DEF CallInv, ResetPart
      <4>5. z.pc = "finalizeCommit" => z.began < reset'[z.reset].expires
        BY <3>1, <1>2 DEF CallInv, ResetPart
      <4> QED
        BY <3>1, <4>1, <4>2, <4>3, <4>4, <4>5
        DEF CallInv, ResetPart, Pending, CommitFinalize
    <3>4. FreshPart(call[d])'
      BY <3>1, <1>1, <1>2, <1>6
      DEF CallInv, FreshPart, CommitFinalize, Active, ActiveCodes, Pending
    <3>5. CodePart(call[d])' /\ CooldownPart(call[d])'
      BY <3>1, <1>2 DEF CallInv, ResetPart, CodePart, CooldownPart, CommitFinalize, Active,
         ActiveCodes
    <3>6. TokenPart(call[d])'
      BY <3>1, <3>2, <1>4 DEF CallInv, TokenPart, CallState
    <3> QED
      BY <3>3, <3>4, <3>5, <3>6 DEF CallInv
  <2> QED
    BY <2>1, <2>2
<1>8. RowInv'
  BY <1>1, <1>2, <1>4, NoneAssumption DEF Inv, RowInv, CommitFinalize, Pending
<1>9. OneOfEach'
  BY <1>6 DEF Inv, OneOfEach, CommitFinalize, Active, ActiveCodes
<1>10. VerifiedOnce'
  BY <1>2, <1>4 DEF Inv, VerifiedOnce, CommitFinalize
<1> QED
  BY <1>3, <1>5, <1>7, <1>8, <1>9, <1>10 DEF Inv, CallsInv

\* Time passing makes no reset that was found expired live again.
LEMMA TickStep ==
    ASSUME Inv, Tick
    PROVE  Inv'
<1>1. TypeOK'
  BY DEF Inv, TypeOK, Tick
<1>2. ASSUME NEW d \in Call PROVE CallInv(call[d])'
  <2>1. call[d] \in CallState /\ CallInv(call[d]) /\ clock \in Nat /\ clock' = clock + 1
    BY CallFacts DEF Tick, Inv, TypeOK
  <2>2. ResetPart(call[d])'
    BY <2>1 DEF CallInv, ResetPart, CallState, Tick, Pending, Inv, TypeOK, ResetRow
  <2>3. FreshPart(call[d])' /\ CodePart(call[d])' /\ CooldownPart(call[d])'
        /\ TokenPart(call[d])'
    BY <2>1 DEF CallInv, FreshPart, CodePart, CooldownPart, TokenPart, Tick, Pending,
      Active,
       ActiveCodes
  <2> QED
    BY <2>2, <2>3 DEF CallInv
<1>3. RowInv'
  BY DEF Inv, RowInv, Tick, TypeOK, ResetRow
<1>4. CallsApart' /\ OneOfEach' /\ VerifiedOnce'
  BY DEF Inv, CallsApart, Apart, OneOfEach, VerifiedOnce, Tick, Pending, Active, ActiveCodes
<1> QED
  BY <1>1, <1>2, <1>3, <1>4 DEF Inv, CallsInv

-----------------------------------------------------------------------------
(* The theorems                                                            *)

\* The invariant is inductive: every action of every call keeps it.
LEMMA NextInv == Inv /\ [Next]_vars => Inv'
<1> SUFFICES ASSUME Inv, [Next]_vars PROVE Inv'
  OBVIOUS
<1>1. CASE Tick
  BY <1>1, TickStep
<1>2. ASSUME NEW c \in Call, CallNext(c) PROVE Inv'
  <2>1. CASE OpenNext(c)
    BY <2>1, OpenSteps, CommitOpenStep DEF OpenNext
  <2>2. CASE IssueNext(c)
    BY <2>2, IssueSteps, CommitIssueStep DEF IssueNext
  <2>3. CASE VerifyNext(c)
    BY <2>3, VerifySteps, CountStep, CommitVerificationStep DEF VerifyNext
  <2>4. CASE FinalizeNext(c) \/ AbortCall(c)
    BY <2>4, FinalizeSteps, CommitFinalizeStep DEF FinalizeNext
  <2> QED
    BY <1>2, <2>1, <2>2, <2>3, <2>4 DEF CallNext
<1>3. CASE UNCHANGED vars
  BY <1>3 DEF vars, Inv, TypeOK, CallsInv, CallInv, ResetPart, FreshPart, CodePart,
     CooldownPart, TokenPart, CallsApart, Apart, RowInv, OneOfEach, VerifiedOnce, Pending,
     Active, ActiveCodes
<1> QED
  BY <1>1, <1>2, <1>3 DEF Next

\* In every reachable state each call relies only on what is still true of the rows
\* it read, and two calls never hold the same row: the locks of flow.go and
\* verification_flow.go and the partial unique indexes are enough for that.
THEOREM Invariance == Spec => []Inv
  BY InitInv, NextInv, PTL DEF Spec

\* Every reachable state is type correct; in particular no code counts more wrong
\* PINs than its limit.
THEOREM TypeCorrect == Spec => []TypeOK
<1>1. Inv => TypeOK
  BY DEF Inv
<1> QED
  BY <1>1, Invariance, PTL

\* The two partial unique indexes and the statements around them leave an account
\* one pending reset and a reset one active code, however many requests cross.
THEOREM OneResetOneCode == Spec => []OneOfEach
<1>1. Inv => OneOfEach
  BY DEF Inv
<1> QED
  BY <1>1, Invariance, PTL

\* Whatever is issued and verified meanwhile, a reset is verified by one code and
\* earns one continuation.
THEOREM VerifiedAtMostOnce == Spec => []VerifiedOnce
<1>1. Inv => VerifiedOnce
  BY DEF Inv
<1> QED
  BY <1>1, Invariance, PTL

\* Which rows a step may change, and how: the commits, under what their call has
\* locked; every other step changes none.
LEMMA StepCases ==
    ASSUME [Next]_vars
    PROVE  \/ UNCHANGED << reset, code, token, credential >>
           \/ \E c \in Call : \/ CommitOpen(c)
                              \/ CommitIssue(c)
                              \/ CountWrong(c)
                              \/ \E new \in Token : CommitVerification(c, new)
                              \/ CommitFinalize(c)
<1>1. CASE Tick \/ UNCHANGED vars
  BY <1>1 DEF Tick, vars
<1>2. ASSUME NEW c \in Call, CallNext(c)
      PROVE  \/ UNCHANGED << reset, code, token, credential >>
             \/ CommitOpen(c) \/ CommitIssue(c) \/ CountWrong(c)
             \/ \E new \in Token : CommitVerification(c, new)
             \/ CommitFinalize(c)
  <2>1. CASE OpenNext(c)
    BY <2>1 DEF OpenNext, BeginOpen, FindPending, LockReset, LockRequest, InsertReset,
       InsertResetConflicts
  <2>2. CASE IssueNext(c)
    BY <2>2 DEF IssueNext, BeginIssue, PickActive, Invalidate, InsertCode,
       InsertCodeConflicts
  <2>3. CASE VerifyNext(c)
    BY <2>3 DEF VerifyNext, BeginVerify, ReadCode, BeginCompletion, Consume, Mark
  <2>4. CASE FinalizeNext(c) \/ AbortCall(c)
    BY <2>4 DEF FinalizeNext, BeginFinalize, BeginWrite, Spend, Complete, AbortCall
  <2> QED
    BY <1>2, <2>1, <2>2, <2>3, <2>4 DEF CallNext
<1> QED
  BY <1>1, <1>2 DEF Next

\* A PIN that was replaced is never accepted: verification consumes a code it still
\* holds and has found active.
THEOREM ReplacedStaysDead == Spec => ReplacedCodeIsDead
<1> DEFINE P == \A k \in Code : code[k].invalidated => code'[k].consumed = code[k].consumed
<1>1. ASSUME Inv, [Next]_vars PROVE P
  <2>0. code \in [Code -> CodeRow] /\ RowInv
    BY <1>1 DEF Inv, TypeOK
  <2>1. UNCHANGED << reset, code, token, credential >> => P
    OBVIOUS
  <2>2. ASSUME NEW c \in Call, CommitOpen(c) \/ CommitFinalize(c) PROVE P
    BY <2>2 DEF CommitOpen, CommitFinalize
  <2>3. ASSUME NEW c \in Call, CountWrong(c) PROVE P
    BY <2>0, <2>3 DEF CountWrong, CodeRow
  <2>4. ASSUME NEW c \in Call, CommitIssue(c) PROVE P
    <3> DEFINE x == call[c]
    <3>1. /\ x.fresh \in Code /\ ~code[x.fresh].born
          /\ code' \in [Code -> CodeRow]
          /\ \A k \in Code \ {x.fresh} : code'[k].consumed <=> code[k].consumed
      BY <1>1, <2>4, IssueEffect
    <3>2. ~code[x.fresh].invalidated
      BY <2>0, <3>1 DEF RowInv
    <3> QED
      BY <2>0, <3>1, <3>2 DEF CodeRow
  <2>5. ASSUME NEW c \in Call, NEW new \in Token, CommitVerification(c, new) PROVE P
    <3> DEFINE x == call[c]
    <3>1. /\ x.code \in Code /\ Active(x.code)
          /\ code' \in [Code -> CodeRow]
          /\ \A k \in Code : k # x.code => (code'[k].consumed <=> code[k].consumed)
      BY <1>1, <2>5, VerificationEffect
    <3>2. ~code[x.code].invalidated
      BY <3>1 DEF Active
    <3> QED
      BY <2>0, <3>1, <3>2 DEF CodeRow
  <2> QED
    BY <1>1, <2>1, <2>2, <2>3, <2>4, <2>5, StepCases
<1>2. Inv /\ [Next]_vars => [P]_vars
  BY <1>1
<1> QED
  BY <1>2, Invariance, PTL DEF Spec, ReplacedCodeIsDead

\* A reset that has ended stays as it ended: a finalization completes, and an opening
\* gives up, only the pending reset that it has locked.
THEOREM EndedResetsStay == Spec => EndedStaysEnded
<1> DEFINE P == \A r \in Reset : ~Pending(r) /\ reset[r].status # "unborn" =>
                   reset'[r].status = reset[r].status
<1>1. ASSUME Inv, [Next]_vars PROVE P
  <2>1. UNCHANGED << reset, code, token, credential >> => P
    OBVIOUS
  <2>2. ASSUME NEW c \in Call, CommitOpen(c) PROVE P
    <3> DEFINE x == call[c]
    <3>1. /\ x.fresh \in Reset /\ reset[x.fresh].status = "unborn"
          /\ x.reset # None => Pending(x.reset)
          /\ \A r \in Reset \ {x.fresh} :
                reset'[r].status = IF r = x.reset THEN "expired" ELSE reset[r].status
      BY <1>1, <2>2, OpenEffect
    <3> QED
      BY <3>1, NoneAssumption
  <2>3. ASSUME NEW c \in Call, CommitFinalize(c) PROVE P
    <3> DEFINE x == call[c]
    <3>1. /\ Pending(x.reset)
          /\ \A r \in Reset : r # x.reset => reset'[r].status = reset[r].status
      BY <1>1, <2>3, FinalizeEffect
    <3> QED
      BY <3>1
  <2>4. ASSUME NEW c \in Call, CountWrong(c) PROVE P
    BY <2>4 DEF CountWrong
  <2>5. ASSUME NEW c \in Call, CommitIssue(c) PROVE P
    <3>1. \A r \in Reset : reset'[r].status = reset[r].status
      BY <1>1, <2>5, IssueEffect
    <3> QED
      BY <3>1
  <2>6. ASSUME NEW c \in Call, NEW new \in Token, CommitVerification(c, new) PROVE P
    <3>1. \A r \in Reset : reset'[r].status = reset[r].status
      BY <1>1, <2>6, VerificationEffect
    <3> QED
      BY <3>1
  <2> QED
    BY <1>1, <2>1, <2>2, <2>3, <2>4, <2>5, <2>6, StepCases
<1>2. Inv /\ [Next]_vars => [P]_vars
  BY <1>1
<1> QED
  BY <1>2, Invariance, PTL DEF Spec, EndedStaysEnded

\* A reset is given up only once it has expired: the opening compared it, under its
\* lock, with a clock that has not run backwards since.
THEOREM LiveResetsAreKept == Spec => LiveResetIsKept
<1> DEFINE P == \A r \in Reset : Pending(r) /\ reset'[r].status = "expired" =>
                   reset[r].expires <= clock
<1>1. ASSUME Inv, [Next]_vars PROVE P
  <2>1. UNCHANGED << reset, code, token, credential >> => P
    BY DEF Pending
  <2>2. ASSUME NEW c \in Call, CommitOpen(c) PROVE P
    <3> DEFINE x == call[c]
    <3>1. /\ x.fresh \in Reset /\ reset[x.fresh].status = "unborn"
          /\ x.reset # None => reset[x.reset].expires <= clock
          /\ \A r \in Reset \ {x.fresh} :
                reset'[r].status = IF r = x.reset THEN "expired" ELSE reset[r].status
      BY <1>1, <2>2, OpenEffect
    <3> QED
      BY <3>1, NoneAssumption DEF Pending
  <2>3. ASSUME NEW c \in Call, CommitFinalize(c) PROVE P
    <3> DEFINE x == call[c]
    <3>1. /\ reset'[x.reset].status = "completed"
          /\ \A r \in Reset : r # x.reset => reset'[r].status = reset[r].status
      BY <1>1, <2>3, FinalizeEffect
    <3> QED
      BY <3>1 DEF Pending
  <2>4. ASSUME NEW c \in Call, CountWrong(c) PROVE P
    BY <2>4 DEF CountWrong, Pending
  <2>5. ASSUME NEW c \in Call, CommitIssue(c) PROVE P
    <3>1. \A r \in Reset : reset'[r].status = reset[r].status
      BY <1>1, <2>5, IssueEffect
    <3> QED
      BY <3>1 DEF Pending
  <2>6. ASSUME NEW c \in Call, NEW new \in Token, CommitVerification(c, new) PROVE P
    <3>1. \A r \in Reset : reset'[r].status = reset[r].status
      BY <1>1, <2>6, VerificationEffect
    <3> QED
      BY <3>1 DEF Pending
  <2> QED
    BY <1>1, <2>1, <2>2, <2>3, <2>4, <2>5, <2>6, StepCases
<1>2. Inv /\ [Next]_vars => [P]_vars
  BY <1>1
<1> QED
  BY <1>2, Invariance, PTL DEF Spec, LiveResetIsKept

\* Whoever completes a reset compared it, and the continuation, with the start of the
\* transaction, under locks that were kept to the commit.
THEOREM CompletionsAreInTime == Spec => CompletedInTime
<1> DEFINE P == \A r \in Reset : Pending(r) /\ reset'[r].status = "completed" =>
                   \E c \in Call : /\ At(c, "finalizeCommit") /\ call[c].reset = r
                                  /\ call[c].began < reset[r].expires
                                  /\ call[c].began < token[call[c].token].expires
<1>1. ASSUME Inv, [Next]_vars PROVE P
  <2>1. UNCHANGED << reset, code, token, credential >> => P
    BY DEF Pending
  <2>2. ASSUME NEW c \in Call, CommitOpen(c) PROVE P
    <3> DEFINE x == call[c]
    <3>1. /\ reset[x.fresh].status = "unborn"
          /\ \A r \in Reset \ {x.fresh} :
                reset'[r].status = IF r = x.reset THEN "expired" ELSE reset[r].status
      BY <1>1, <2>2, OpenEffect
    <3> QED
      BY <3>1 DEF Pending
  <2>3. ASSUME NEW c \in Call, CommitFinalize(c) PROVE P
    <3> DEFINE x == call[c]
    <3>1. /\ x.began < reset[x.reset].expires /\ x.began < token[x.token].expires
          /\ \A r \in Reset : r # x.reset => reset'[r].status = reset[r].status
      BY <1>1, <2>3, FinalizeEffect
    <3>2. At(c, "finalizeCommit")
      BY <2>3 DEF CommitFinalize
    <3> QED
      BY <3>1, <3>2 DEF Pending
  <2>4. ASSUME NEW c \in Call, CountWrong(c) PROVE P
    BY <2>4 DEF CountWrong, Pending
  <2>5. ASSUME NEW c \in Call, CommitIssue(c) PROVE P
    <3>1. \A r \in Reset : reset'[r].status = reset[r].status
      BY <1>1, <2>5, IssueEffect
    <3> QED
      BY <3>1 DEF Pending
  <2>6. ASSUME NEW c \in Call, NEW new \in Token, CommitVerification(c, new) PROVE P
    <3>1. \A r \in Reset : reset'[r].status = reset[r].status
      BY <1>1, <2>6, VerificationEffect
    <3> QED
      BY <3>1 DEF Pending
  <2> QED
    BY <1>1, <2>1, <2>2, <2>3, <2>4, <2>5, <2>6, StepCases
<1>2. Inv /\ [Next]_vars => [P]_vars
  BY <1>1
<1> QED
  BY <1>2, Invariance, PTL DEF Spec, CompletedInTime

\* A reset ends once, is not given up before its time, and not completed after it.
THEOREM ResetsEndOnce == Spec => ResetEndsOnce
<1> QED
  BY EndedResetsStay, LiveResetsAreKept, CompletionsAreInTime DEF ResetEndsOnce

\* The password changes, and a continuation is spent, in one step with the completion
\* of the reset that earned the continuation.
THEOREM PasswordIsEarned == Spec => PasswordFollowsReset
<1> DEFINE P == credential' # credential
                  \/ (\E t \in Token : token'[t].consumed # token[t].consumed)
                => \E t \in Token :
                      /\ credential' = t
                      /\ ~token[t].consumed /\ token'[t].consumed
                      /\ Pending(token[t].reset)
                      /\ reset'[token[t].reset].status = "completed"
<1>1. ASSUME Inv, [Next]_vars PROVE P
  <2>0. token \in [Token -> TokenRow] /\ RowInv
    BY <1>1 DEF Inv, TypeOK
  <2>1. UNCHANGED << reset, code, token, credential >> => P
    OBVIOUS
  <2>2. ASSUME NEW c \in Call, CommitOpen(c) \/ CommitIssue(c) \/ CountWrong(c) PROVE P
    BY <2>2 DEF CommitOpen, CommitIssue, CountWrong
  <2>3. ASSUME NEW c \in Call, NEW new \in Token, CommitVerification(c, new) PROVE P
    <3>1. ~token[new].born /\ credential' = credential
      BY <2>3 DEF CommitVerification
    <3>2. /\ token' \in [Token -> TokenRow] /\ ~token'[new].consumed
          /\ \A t \in Token \ {new} : token'[t] = token[t]
      BY <1>1, <2>3, VerificationEffect
    <3>3. ~token[new].consumed
      BY <2>0, <3>1 DEF RowInv
    <3> QED
      BY <2>0, <3>1, <3>2, <3>3 DEF TokenRow
  <2>4. ASSUME NEW c \in Call, CommitFinalize(c) PROVE P
    <3> DEFINE x == call[c]
    <3>1. /\ Pending(x.reset)
          /\ x.token \in Token /\ token[x.token].reset = x.reset
          /\ ~token[x.token].consumed
          /\ token'[x.token].consumed /\ credential' = x.token
          /\ reset'[x.reset].status = "completed"
      BY <1>1, <2>4, FinalizeEffect
    <3> QED
      BY <3>1
  <2> QED
    BY <1>1, <2>1, <2>2, <2>3, <2>4, StepCases
<1>2. Inv /\ [Next]_vars => [P]_vars
  BY <1>1
<1> QED
  BY <1>2, Invariance, PTL DEF Spec, PasswordFollowsReset

\* The cooldown is not moved back: an issuing call that began before the one that
\* moved it forward finds that one's code active, and cannot insert its own.
THEOREM CooldownAdvances == Spec => CooldownNeverRewinds
<1> DEFINE P == \A r \in Reset :
                   /\ reset[r].lastSent # None
                   /\ reset'[r].lastSent # reset[r].lastSent
                   /\ reset[r].request = "pending"
                   => reset'[r].lastSent >= reset[r].lastSent
<1>1. ASSUME Inv, [Next]_vars PROVE P
  <2>1. UNCHANGED << reset, code, token, credential >> => P
    OBVIOUS
  <2>2. ASSUME NEW c \in Call, CommitOpen(c) PROVE P
    <3> DEFINE x == call[c]
    <3>1. /\ x.fresh \in Reset /\ reset[x.fresh].status = "unborn"
          /\ \A r \in Reset \ {x.fresh} : reset'[r].lastSent = reset[r].lastSent
      BY <1>1, <2>2, OpenEffect
    <3>2. reset[x.fresh].lastSent = None
      BY <1>1, <3>1 DEF Inv, RowInv
    <3> QED
      BY <3>1, <3>2
  <2>3. ASSUME NEW c \in Call, CommitFinalize(c) PROVE P
    <3>1. \A r \in Reset : reset'[r].lastSent = reset[r].lastSent
      BY <1>1, <2>3, FinalizeEffect
    <3> QED
      BY <3>1
  <2>4. ASSUME NEW c \in Call, CountWrong(c) PROVE P
    BY <2>4 DEF CountWrong
  <2>5. ASSUME NEW c \in Call, CommitIssue(c) PROVE P
    <3> DEFINE x == call[c]
    <3>0. /\ x.reset \in Reset /\ x.began \in Nat
          /\ \A k \in ActiveCodes(x.reset) : k = x.code
      BY <1>1, <2>5, IssueEffect
    <3>1. reset'[x.reset].lastSent = x.began
      BY <1>1, <2>5, IssueEffect
    <3>5. \A r \in Reset :
             r # x.reset => reset'[r].lastSent = reset[r].lastSent
      BY <1>1, <2>5, IssueEffect
    <3>2. x.pc = "stamp" /\ CooldownPart(x)
      BY <1>1, <2>5, CallFacts DEF CommitIssue, At, CallInv
    <3>3. /\ reset[x.reset].request = "pending" /\ reset[x.reset].lastSent # None
          => ~(reset[x.reset].lastSent > x.began)
      BY <3>0, <3>2 DEF CooldownPart
    <3>4. reset[x.reset].lastSent \in Nat \cup {None}
      BY <1>1, <3>0 DEF Inv, TypeOK, ResetRow
    <3> QED
      BY <3>0, <3>1, <3>3, <3>4, <3>5
  <2>6. ASSUME NEW c \in Call, NEW new \in Token, CommitVerification(c, new) PROVE P
    <3>1. \A r \in Reset : reset'[r].lastSent = reset[r].lastSent
      BY <1>1, <2>6, VerificationEffect
    <3> QED
      BY <3>1
  <2> QED
    BY <1>1, <2>1, <2>2, <2>3, <2>4, <2>5, <2>6, StepCases
<1>2. Inv /\ [Next]_vars => [P]_vars
  BY <1>1
<1> QED
  BY <1>2, Invariance, PTL DEF Spec, CooldownNeverRewinds

-----------------------------------------------------------------------------
(* Deadlocks                                                               *)

\* Of calls that wait for each other, none has finished writing; none is about to
\* insert a reset, for it would wait for one that changes another pending reset; and
\* who locks a reset, looks for its request next.
LEMMA WaitingCalls ==
    ASSUME Inv, NEW T \in SUBSET Call, Deadlocked(T), NEW c \in T
    PROVE  /\ call[c].pc \notin {"openCommit", "finalizeCommit", "insert"}
           /\ \E d \in T : WaitsFor(c, d)
           /\ \A d \in T, r \in Reset : HoldsReset(d, r) => At(d, "lockRequest")
<1>1. \A d \in T : \E e \in T : WaitsFor(d, e)
  BY DEF Deadlocked
<1>2. \A d \in T : call[d].pc \notin {"openCommit", "finalizeCommit"}
  BY <1>1 DEF WaitsFor
<1>3. ASSUME NEW d \in T, call[d].pc = "insert" PROVE FALSE
  <2>1. ASSUME NEW x \in T, call[x].pc = "insert"
        PROVE  \E y \in T, r \in Reset :
                 /\ Pending(r) /\ r # call[x].reset
                 /\ call[y].pc = "insert" /\ call[y].reset = r
    <3>1. PICK y \in T : WaitsFor(x, y)
      BY <1>1
    <3>2. ClaimsPending(x, y)
      BY <2>1, <3>1 DEF WaitsFor
    <3> QED
      BY <1>2, <3>2 DEF ClaimsPending, ChangesReset, HoldsReset, At
  <2>2. PICK y \in T, r \in Reset :
          Pending(r) /\ r # call[d].reset /\ call[y].pc = "insert" /\ call[y].reset = r
    BY <1>3, <2>1
  <2>3. PICK z \in T, q \in Reset : Pending(q) /\ q # r
    BY <2>1, <2>2
  <2> QED
    BY <2>2, <2>3 DEF Inv, OneOfEach
<1> QED
  BY <1>1, <1>2, <1>3 DEF HoldsReset, At

\* Who waits for a request, waits for a verification that waits for an opening call,
\* or is that opening call.
LEMMA RequestWaits ==
    ASSUME Inv, NEW T \in SUBSET Call, Deadlocked(T), NEW c \in T,
           call[c].pc \in {"lockRequest", "stamp", "mark", "grant"}
    PROVE  \E d \in T : At(d, "lockRequest")
<1>1. PICK d \in T : WaitsFor(c, d)
  BY WaitingCalls
<1>2. ASSUME NEW x \in T, call[x].pc = "grant" PROVE \E y \in T : At(y, "lockRequest")
  <2>1. PICK y \in T : WaitsFor(x, y)
    BY WaitingCalls
  <2>2. call[y].pc \in {"lockRequest", "insert", "openCommit"}
    BY <1>2, <2>1 DEF WaitsFor
  <2> QED
    BY <2>2, WaitingCalls DEF At
<1>3. CASE call[c].pc \in {"stamp", "mark"}
  <2>1. call[d].pc \in {"insert", "openCommit", "grant"}
    BY <1>1, <1>3 DEF WaitsFor, HoldsRequest
  <2> QED
    BY <1>2, <2>1, WaitingCalls
<1> QED
  BY <1>2, <1>3 DEF At

\* Two calls may insert a code of one request, the second behind the code that the
\* first is about to replace; there is no other.
LEMMA InsertWaits ==
    ASSUME Inv, NEW T \in SUBSET Call, Deadlocked(T), NEW c \in T,
           call[c].pc = "insertCode"
    PROVE  \E d \in T : At(d, "lockRequest")
<1>1. ASSUME NEW x \in T, call[x].pc = "insertCode"
      PROVE  \/ \E y \in T : call[y].pc \in {"stamp", "mark", "grant"}
             \/ \E y \in T, k \in ActiveCodes(call[x].reset) :
                  call[y].pc = "insertCode" /\ k # call[x].code /\ call[y].code = k
  <2>1. PICK y \in T : WaitsFor(x, y)
    BY WaitingCalls
  <2>2. call[y].pc \notin {"insert", "openCommit"}
    BY WaitingCalls
  <2>3. ClaimsActive(x, y)
    BY <1>1, <2>1, <2>2 DEF WaitsFor
  <2> QED
    BY <2>3 DEF ClaimsActive, HoldsCode, At
<1>2. CASE \E y \in T : call[y].pc \in {"stamp", "mark", "grant"}
  BY <1>2, RequestWaits
<1>3. CASE \E y \in T, k \in ActiveCodes(call[c].reset) :
             call[y].pc = "insertCode" /\ call[y].code = k
  <2>1. PICK y \in T, k \in ActiveCodes(call[c].reset) :
          call[y].pc = "insertCode" /\ call[y].code = k
    BY <1>3
  <2>2. k \in Code /\ k # None /\ code[k].reset = call[y].reset
    BY <2>1, NoneAssumption DEF ActiveCodes, Inv, CallsInv, CallInv, CodePart
  <2>3. call[y].reset \in Reset
    BY <2>1 DEF Inv, CallsInv, CallInv, ResetPart, Working
  <2>4. \A j \in ActiveCodes(call[y].reset) : j = k
    BY <2>1, <2>2, <2>3 DEF ActiveCodes, Inv, OneOfEach
  <2> QED
    BY <1>1, <2>1, <2>4, RequestWaits
<1> QED
  BY <1>1, <1>2, <1>3

LEMMA SomebodyLocksARequest ==
    ASSUME Inv, NEW T \in SUBSET Call, Deadlocked(T), NEW c \in T
    PROVE  \E d \in T : At(d, "lockRequest")
<1>1. ASSUME NEW x \in T, call[x].pc \in {"lockReset", "complete"}
      PROVE  \E d \in T : At(d, "lockRequest")
  <2>1. PICK y \in T : WaitsFor(x, y)
    BY WaitingCalls
  <2>2. HoldsReset(y, call[x].reset) /\ call[x].reset \in Reset
    BY <1>1, <2>1 DEF WaitsFor, Inv, CallsInv, CallInv, ResetPart, Working
  <2> QED
    BY <2>2, WaitingCalls
<1>2. PICK d \in T : WaitsFor(c, d)
  BY WaitingCalls
<1>3. CASE call[c].pc \in {"invalidate", "wrong", "consume"}
  <2>1. call[d].pc \in {"insertCode", "stamp", "mark", "grant"}
    BY <1>2, <1>3 DEF WaitsFor, HoldsCode
  <2> QED
    BY <2>1, InsertWaits, RequestWaits
<1>4. CASE call[c].pc = "upsert"
  <2>1. call[d].pc \in {"complete", "finalizeCommit"}
    BY <1>2, <1>4 DEF WaitsFor, HoldsCredential
  <2> QED
    BY <1>1, <2>1, WaitingCalls
<1>5. call[c].pc \in {"lockReset", "complete", "lockRequest", "stamp", "mark", "grant",
                     "invalidate", "wrong", "consume", "insertCode", "upsert", "insert"}
  BY <1>2 DEF WaitsFor
<1> QED
  BY <1>1, <1>3, <1>4, <1>5, InsertWaits, RequestWaits, WaitingCalls

\* However many calls wait for each other, the re-opening of a reset and a
\* verification of it are among them: PINs, finalizations and new resets close no
\* cycle of their own.
THEOREM DeadlocksAreFew == Spec => []DeadlocksAreOpenVsVerify
<1>1. Inv => DeadlocksAreOpenVsVerify
  <2> SUFFICES ASSUME Inv, NEW T \in SUBSET Call, T # {}, Deadlocked(T)
               PROVE  \E c, d \in T : /\ At(c, "lockRequest") /\ At(d, "grant")
                                      /\ call[c].reset = call[d].reset
    BY DEF DeadlocksAreOpenVsVerify
  <2>1. PICK c \in T : At(c, "lockRequest")
    BY SomebodyLocksARequest
  <2>2. PICK d \in T : WaitsFor(c, d)
    BY DEF Deadlocked
  <2>3. \A x \in T : call[x].pc \notin {"insert", "openCommit"}
    BY WaitingCalls
  <2>4. CASE HoldsRequest(d, call[c].reset)
    BY <2>1, <2>3, <2>4 DEF HoldsRequest, At
  <2>5. CASE At(d, "stamp") /\ call[d].reset = call[c].reset
    <3>1. PICK e \in T : WaitsFor(d, e)
      BY DEF Deadlocked
    <3>2. HoldsRequest(e, call[c].reset)
      BY <2>5, <3>1 DEF WaitsFor, At
    <3> QED
      BY <2>1, <2>3, <3>2 DEF HoldsRequest, At
  <2> QED
    BY <2>1, <2>2, <2>4, <2>5 DEF WaitsFor, At
<1> QED
  BY <1>1, Invariance, PTL

-----------------------------------------------------------------------------
(* Refinement of Recovery                                                  *)

\* Of an empty set there is no member to name, of a singleton only one.
LEMMA TheOnly ==
    ASSUME NEW S
    PROVE  /\ S = {} => The(S) = None
           /\ \A x : S = {x} => The(S) = x
  BY DEF The

\* A reading of the Go clock is never ahead of the clock.
Punctual == \A c \in Call : call[c].now <= clock

\* A call reads the clock when it sets its own time, and the clock only moves on.
LEMMA PunctualStep == TypeOK /\ Punctual /\ [Next]_vars => Punctual'
<1> SUFFICES ASSUME TypeOK, Punctual, [Next]_vars PROVE Punctual'
  OBVIOUS
<1>t. clock \in Nat /\ call \in [Call -> CallState]
  BY DEF TypeOK
<1>1. CASE Tick
  BY <1>t, <1>1 DEF Tick, Punctual, CallState
<1>2. CASE UNCHANGED vars
  BY <1>2 DEF vars, Punctual
<1>3. ASSUME NEW c \in Call, CallNext(c) PROVE Punctual'
  <2> DEFINE P == clock' = clock /\ \A d \in Call : call'[d].now \in {0, clock, call[d].now}
  <2>1. ASSUME OpenNext(c) PROVE P
    <3>1. ASSUME NEW new \in Reset, InsertReset(c, new) PROVE P
      BY <3>1, <1>t DEF InsertReset, CallState
    <3>2. ASSUME FindPending(c) PROVE P
      <4>1. ASSUME NEW r \in Reset,
                   call' = [call EXCEPT ![c].pc = "lockReset", ![c].reset = r,
                                        ![c].began = clock]
            PROVE  \A d \in Call : call'[d].now = call[d].now
        BY <1>t, <4>1 DEF CallState
      <4>2. ASSUME call' = [call EXCEPT ![c].pc = "insert", ![c].began = clock]
            PROVE  \A d \in Call : call'[d].now = call[d].now
        BY <1>t, <4>2 DEF CallState
      <4> QED
        BY <3>2, <4>1, <4>2 DEF FindPending
    <3>3. ASSUME InsertResetConflicts(c) PROVE P
      <4>1. CASE call[c].retried
        BY <1>t, <3>3, <4>1 DEF InsertResetConflicts, Finish, IdleCall, CallState
      <4>2. CASE ~call[c].retried
        <5>1. call' = [call EXCEPT ![c] =
                 [IdleCall EXCEPT !.pc = "find", !.now = call[c].now, !.retried = TRUE]]
          BY <3>3, <4>2 DEF InsertResetConflicts
        <5> QED
          BY <1>t, <3>3, <5>1 DEF InsertResetConflicts, IdleCall
      <4> QED
        BY <4>1, <4>2
    <3>4. ASSUME BeginOpen(c) PROVE P
      BY <1>t, <3>4 DEF BeginOpen, IdleCall
    <3>5. ASSUME LockReset(c) \/ LockRequest(c) PROVE P
      BY <1>t, <3>5 DEF LockReset, LockRequest, Finish, Goto, IdleCall, CallState
    <3>6. ASSUME CommitOpen(c) PROVE P
      BY <1>t, <3>6 DEF CommitOpen, Finish, IdleCall
    <3> QED
      BY <2>1, <3>1, <3>2, <3>3, <3>4, <3>5, <3>6 DEF OpenNext
  <2>2. ASSUME IssueNext(c) PROVE P
    <3>1. ASSUME NEW r \in Reset, BeginIssue(c, r) PROVE P
      BY <3>1, <1>t DEF BeginIssue, IdleCall, CallState
    <3>2. ASSUME PickActive(c) PROVE P
      BY <3>2, <1>t DEF PickActive, CallState
    <3>3. ASSUME NEW new \in Code, InsertCode(c, new) PROVE P
      BY <3>3, <1>t DEF InsertCode, CallState
    <3> QED
      BY <1>t, <2>2, <3>1, <3>2, <3>3 DEF IssueNext, Invalidate, InsertCodeConflicts,
         CommitIssue, Finish, Goto, IdleCall, CallState
  <2>3. ASSUME VerifyNext(c) PROVE P
    <3>1. ASSUME NEW r \in Reset, BeginVerify(c, r) PROVE P
      BY <3>1, <1>t DEF BeginVerify, IdleCall, CallState
    <3>2. ASSUME NEW right \in BOOLEAN, ReadCode(c, right) PROVE P
      BY <3>2, <1>t DEF ReadCode, Finish, IdleCall, CallState
    <3>3. ASSUME NEW new \in Token, CommitVerification(c, new) PROVE P
      BY <3>3, <1>t DEF CommitVerification, Finish, IdleCall, CallState
    <3> QED
      BY <1>t, <2>3, <3>1, <3>2, <3>3 DEF VerifyNext, CountWrong, BeginCompletion, Consume,
         Mark, Finish, Goto, IdleCall, CallState
  <2>4. ASSUME FinalizeNext(c) PROVE P
    <3>1. ASSUME NEW t \in Token, BeginFinalize(c, t) PROVE P
      BY <3>1, <1>t DEF BeginFinalize, IdleCall, CallState
    <3> QED
      BY <1>t, <2>4, <3>1 DEF FinalizeNext, BeginWrite, Spend, Complete, CommitFinalize,
         Finish, Goto, IdleCall, CallState
  <2>5. ASSUME AbortCall(c) PROVE P
    BY <1>t, <2>5 DEF AbortCall, Finish, IdleCall, CallState
  <2>6. P
    BY <1>3, <2>1, <2>2, <2>3, <2>4, <2>5 DEF CallNext
  <2> QED
    BY <1>t, <2>6 DEF Punctual
<1> QED
  BY <1>1, <1>2, <1>3 DEF Next

\* An expiry computed from such a reading is at most a lifetime ahead.
LEMMA AlwaysPunctual == Spec => []Punctual
<1>1. Init => Punctual
  BY DEF Init, Punctual, IdleCall
<1> QED
  BY <1>1, PunctualStep, TypeCorrect, PTL DEF Spec

\* What the owner is promised of a reset, read off the rows.
LEMMA PromiseRead ==
    ASSUME Inv, NEW r \in Reset
    PROVE  /\ \A k \in ActiveCodes(r) : ActiveCodes(r) = {k}
           /\ ActiveCodes(r) # {} => The(ActiveCodes(r)) \in Code
           /\ GrantOf(r) = None => reset[r].request = "pending"
           /\ reset[r].request = "pending" => \A t \in Token : token[t].reset # r
           /\ \A t \in Token : token[t].reset = r => GrantOf(r) = t
           /\ GrantOf(r) # None => GrantOf(r) \in Token
<1>1. \A k \in ActiveCodes(r) : ActiveCodes(r) = {k}
  BY DEF Inv, OneOfEach
<1>2. ActiveCodes(r) # {} => The(ActiveCodes(r)) \in Code
  BY <1>1, TheOnly DEF ActiveCodes
<1> DEFINE earned == {t \in Token : token[t].reset = r}
<1>3. IF reset[r].request = "verified" THEN \E t \in Token : earned = {t} ELSE earned = {}
  BY DEF Inv, VerifiedOnce
<1>4. \A t : earned = {t} => GrantOf(r) = t
  BY TheOnly DEF GrantOf
<1>5. None \notin Token /\ reset[r].request \in {"pending", "verified"}
  BY NoneAssumption DEF Inv, TypeOK, ResetRow
<1>6. earned = {} => GrantOf(r) = None
  BY TheOnly DEF GrantOf
<1> QED
  BY <1>1, <1>2, <1>3, <1>4, <1>5, <1>6

\* Where a call presents a code it has begun with, and where it completes a reset.
Presenting == {"consume", "mark", "grant"}
Spending == {"upsert", "complete", "finalizeCommit"}

\* From state x to state z a call that presents a code, or completes a reset, has begun
\* now or goes on with what it had begun.
GoesOn(x, z) ==
    /\ z.pc \in Presenting =>
          \/ z.began = clock
          \/ x.pc \in Presenting /\ z.began = x.began /\ z.code = x.code
    /\ z.pc \in Spending =>
          \/ z.began = clock
          \/ /\ x.pc \in Spending /\ z.began = x.began
             /\ z.reset = x.reset /\ z.token = x.token

\* No step of a call moves the start of a transaction.
LEMMA CallsGoOn ==
    ASSUME Inv, NEW c \in Call, CallNext(c), NEW d \in Call
    PROVE  GoesOn(call[d], call'[d])
<1>t. clock \in Nat /\ call \in [Call -> CallState]
  BY DEF Inv, TypeOK
<1> DEFINE P == GoesOn(call[d], call'[d])
<1> USE DEF Presenting, Spending, GoesOn
<1>0. Finish(c) => P
  BY <1>t DEF Finish, IdleCall
<1>1. ASSUME OpenNext(c) PROVE P
  <2>1. ASSUME NEW new \in Reset, InsertReset(c, new) PROVE P
    BY <2>1, <1>t DEF InsertReset, At, CallState
  <2>2. ASSUME FindPending(c) PROVE P
    <3>1. ASSUME NEW r \in Reset,
                 call' = [call EXCEPT ![c].pc = "lockReset", ![c].reset = r,
                                      ![c].began = clock]
          PROVE  P
      BY <1>t, <3>1 DEF CallState
    <3>2. ASSUME call' = [call EXCEPT ![c].pc = "insert", ![c].began = clock]
          PROVE  P
      BY <1>t, <3>2 DEF CallState
    <3> QED
      BY <2>2, <3>1, <3>2 DEF FindPending
  <2>3. ASSUME InsertResetConflicts(c) PROVE P
    <3>1. CASE call[c].retried
      BY <1>0, <2>3, <3>1 DEF InsertResetConflicts
    <3>2. CASE ~call[c].retried
      <4>1. call' = [call EXCEPT ![c] =
               [IdleCall EXCEPT !.pc = "find", !.now = call[c].now, !.retried = TRUE]]
        BY <2>3, <3>2 DEF InsertResetConflicts
      <4> QED
        BY <1>t, <4>1 DEF IdleCall
    <3> QED
      BY <3>1, <3>2
  <2>4. ASSUME BeginOpen(c) PROVE P
    BY <1>t, <2>4 DEF BeginOpen, IdleCall
  <2>5. ASSUME LockReset(c) PROVE P
    BY <1>t, <2>5 DEF LockReset, Goto, At, CallState
  <2>6. ASSUME LockRequest(c) PROVE P
    BY <1>0, <1>t, <2>6 DEF LockRequest, Goto, At, CallState
  <2> QED
    BY <1>0, <1>1, <2>1, <2>2, <2>3, <2>4, <2>5, <2>6 DEF OpenNext, CommitOpen
<1>2. ASSUME IssueNext(c) PROVE P
  <2>1. ASSUME NEW r \in Reset, BeginIssue(c, r) PROVE P
    BY <2>1, <1>t DEF BeginIssue, IdleCall
  <2>2. ASSUME PickActive(c) PROVE P
    BY <2>2, <1>t DEF PickActive, CallState
  <2>3. ASSUME NEW new \in Code, InsertCode(c, new) PROVE P
    BY <2>3, <1>t DEF InsertCode, CallState
  <2>4. ASSUME Invalidate(c) PROVE P
    BY <2>4, <1>t DEF Invalidate, Goto, CallState
  <2> QED
    BY <1>0, <1>2, <2>1, <2>2, <2>3, <2>4 DEF IssueNext, InsertCodeConflicts, CommitIssue
<1>3. ASSUME VerifyNext(c) PROVE P
  <2>1. ASSUME NEW r \in Reset, BeginVerify(c, r) PROVE P
    BY <2>1, <1>t DEF BeginVerify, IdleCall
  <2>2. ASSUME NEW right \in BOOLEAN, ReadCode(c, right) PROVE P
    BY <2>2, <1>0, <1>t DEF ReadCode, CallState
  <2>3. ASSUME BeginCompletion(c) PROVE P
    BY <2>3, <1>t DEF BeginCompletion, CallState
  <2>4. ASSUME At(c, "consume") \/ At(c, "mark"), Goto(c, "mark") \/ Goto(c, "grant")
        PROVE  P
    BY <2>4, <1>t DEF Goto, At, CallState
  <2> QED
    BY <1>0, <1>3, <2>1, <2>2, <2>3, <2>4 DEF VerifyNext, CountWrong, Consume, Mark,
       CommitVerification
<1>4. ASSUME FinalizeNext(c) PROVE P
  <2>1. ASSUME NEW t \in Token, BeginFinalize(c, t) PROVE P
    BY <2>1, <1>t DEF BeginFinalize, IdleCall
  <2>2. ASSUME BeginWrite(c) PROVE P
    BY <2>2, <1>t DEF BeginWrite, CallState
  <2>3. ASSUME At(c, "upsert") \/ At(c, "complete"),
               Goto(c, "complete") \/ Goto(c, "finalizeCommit")
        PROVE  P
    BY <2>3, <1>t DEF Goto, At, CallState
  <2> QED
    BY <1>0, <1>4, <2>1, <2>2, <2>3 DEF FinalizeNext, Spend, Complete, CommitFinalize
<1> QED
  BY <1>0, <1>1, <1>2, <1>3, <1>4 DEF CallNext, AbortCall

\* Who presents a code or completes a reset without having done so before, has begun
\* before the rows it names expire, or does not count.
LEMMA AttemptsKeepPromise ==
    ASSUME Inv, Inv', NEW c \in Call, CallNext(c), UNCHANGED rows
    PROVE  Promise!Tried
<1>0. UNCHANGED << clock, reset, code, token, credential >>
  BY DEF rows
<1>1. ASSUME NEW k \in Presented'
      PROVE  k \in Presented \/ (code[k].born /\ clock < code[k].expires)
  <2>1. PICK d \in Call : k \in Code /\ InTimeWith(d, k)'
    BY <1>1 DEF Presented
  <2>2. /\ call'[d].pc \in Presenting /\ call'[d].code = k
        /\ call'[d].began < code[k].expires
    BY <1>0, <2>1 DEF InTimeWith, Presenting
  <2>3. code[k].born
    BY <1>0, <2>1, <2>2, NoneAssumption DEF Inv, CallsInv, CallInv, CodePart
  <2>4. GoesOn(call[d], call'[d])
    BY CallsGoOn
  <2>5. CASE call'[d].began = clock
    BY <2>2, <2>3, <2>5
  <2>6. CASE call[d].pc \in Presenting /\ call'[d].began = call[d].began
             /\ call'[d].code = call[d].code
    BY <2>1, <2>2, <2>6 DEF Presented, InTimeWith, Presenting
  <2> QED
    BY <2>2, <2>4, <2>5, <2>6 DEF GoesOn
<1>2. ASSUME NEW r \in Trying'
      PROVE  \/ r \in Trying
             \/ GrantOf(r) # None /\ clock < reset[r].expires /\ clock < LapseOf(r)
  <2>1. PICK d \in Call : r \in Reset /\ InTimeFor(d, r)'
    BY <1>2 DEF Trying
  <2>2. /\ call'[d].pc \in Spending /\ call'[d].reset = r
        /\ call'[d].began < reset[r].expires
        /\ call'[d].began < token[call'[d].token].expires
    BY <1>0, <2>1 DEF InTimeFor, Spending
  <2>3. call'[d].token \in Token /\ token[call'[d].token].reset = r
    BY <1>0, <2>2 DEF Inv, TypeOK, CallState, CallsInv, CallInv, TokenPart, Spending
  <2>4. GoesOn(call[d], call'[d])
    BY CallsGoOn
  <2>5. CASE call'[d].began = clock
    <3>1. GrantOf(r) = call'[d].token /\ GrantOf(r) # None
      BY <2>1, <2>3, PromiseRead, NoneAssumption
    <3> QED
      BY <2>2, <2>5, <3>1 DEF LapseOf
  <2>6. CASE call[d].pc \in Spending /\ call'[d].began = call[d].began
             /\ call'[d].reset = call[d].reset /\ call'[d].token = call[d].token
    BY <2>1, <2>2, <2>6 DEF Trying, InTimeFor, Spending
  <2> QED
    BY <2>2, <2>4, <2>5, <2>6 DEF GoesOn
<1>3. Presented' \in SUBSET (Presented \cup
         {k \in {j \in Code : code[j].born} : clock < [j \in Code |-> code[j].expires][k]})
  BY <1>1 DEF Presented
<1>4. Trying' \in SUBSET (Trying \cup {r \in Reset :
         /\ [q \in Reset |-> GrantOf(q)][r] # None
         /\ clock < [q \in Reset |-> reset[q].expires][r]
         /\ clock < [q \in Reset |-> LapseOf(q)][r]})
  BY <1>2 DEF Trying
<1> QED
  BY <1>0, <1>3, <1>4 DEF Promise!Tried, Promise!InTime, ActiveCodes, Active, GrantOf,
     LapseOf

\* A call that ends takes its own attempt with it, and leaves those of the others.
LEMMA AttemptsEnd ==
    ASSUME Inv, NEW c \in Call, Finish(c),
           \A k \in Code : code[k].born => code'[k].expires = code[k].expires,
           \A t \in Token : token[t].born => token'[t].expires = token[t].expires,
           \A r \in Reset : reset[r].status # "unborn" =>
               reset'[r].expires = reset[r].expires
    PROVE  /\ Presented' \subseteq Presented
           /\ Presented \ {call[c].code} \subseteq Presented'
           /\ Trying' \subseteq Trying
           /\ Trying \ {call[c].reset} \subseteq Trying'
           /\ call[c].pc \notin Presenting => Presented' = Presented
           /\ call[c].pc \notin Spending => Trying' = Trying
<1>1. \A d \in Call : call'[d] = IF d = c THEN IdleCall ELSE call[d]
  BY DEF Finish, Inv, TypeOK
<1>2. ASSUME NEW d \in Call, NEW k \in Code
      PROVE  InTimeWith(d, k)' <=> InTimeWith(d, k) /\ d # c
  <2>1. CASE d = c
    BY <1>1, <2>1 DEF InTimeWith, IdleCall
  <2>2. CASE d # c
    <3>1. call[d].code = k => code[k].born
      BY CallFacts, NoneAssumption DEF CallInv, CodePart
    <3> QED
      BY <1>1, <2>2, <3>1 DEF InTimeWith
  <2> QED
    BY <2>1, <2>2
<1>3. ASSUME NEW d \in Call, NEW r \in Reset
      PROVE  InTimeFor(d, r)' <=> InTimeFor(d, r) /\ d # c
  <2>1. CASE d = c
    BY <1>1, <2>1 DEF InTimeFor, IdleCall
  <2>2. CASE d # c
    <3>1. call[d].pc \in Spending =>
             /\ reset[call[d].reset].status # "unborn"
             /\ call[d].token \in Token /\ token[call[d].token].born
      BY CallFacts DEF CallInv, ResetPart, TokenPart, CallState, Spending
    <3> QED
      BY <1>1, <2>2, <3>1 DEF InTimeFor, Spending
  <2> QED
    BY <2>1, <2>2
<1> QED
  BY <1>2, <1>3 DEF Presented, Trying, InTimeWith, InTimeFor, Presenting, Spending

\* The commit of an opening gives up what has expired and opens another, at once.
LEMMA OpenKeepsPromise ==
    ASSUME Inv, Punctual, NEW c \in Call, CommitOpen(c)
    PROVE  \E r \in Reset : Promise!Opened(r)
<1> DEFINE x == call[c]
<1>1. /\ x.fresh \in Reset /\ reset[x.fresh].status = "unborn"
      /\ \A r \in Reset : Pending(r) => r = x.reset
      /\ x.reset # None => /\ x.reset \in Reset /\ Pending(x.reset)
                           /\ reset[x.reset].expires <= clock
      /\ x.fresh # x.reset
      /\ reset'[x.fresh] = [status |-> "pending", expires |-> x.now + ResetLifetime,
                            request |-> "pending", lastSent |-> None]
      /\ \A r \in Reset \ {x.fresh} :
            /\ reset'[r].expires = reset[r].expires
            /\ reset'[r].lastSent = reset[r].lastSent
            /\ reset'[r].status = IF r = x.reset THEN "expired" ELSE reset[r].status
  BY OpenEffect
<1>2. /\ UNCHANGED << clock, code, token, credential >>
      /\ reset[x.fresh].lastSent = None
      /\ clock \in Nat /\ x.now \in Nat /\ x.now <= clock /\ ResetLifetime \in Nat
      /\ None \notin Reset
  BY <1>1, NumberAssumption, NoneAssumption
  DEF CommitOpen, Inv, TypeOK, RowInv, CallState, Punctual
<1>3. PICK r \in Reset : r = x.fresh
  BY <1>1
<1>4. PICK d \in 0 .. clock + ResetLifetime : d = x.now + ResetLifetime
  BY <1>2
<1>5. \A q \in Reset :
         /\ reset'[q].status = IF q = r THEN "pending"
                               ELSE IF reset[q].status = "pending" THEN "expired"
                               ELSE reset[q].status
         /\ reset'[q].expires = IF q = r THEN d ELSE reset[q].expires
         /\ reset'[q].lastSent = reset[q].lastSent
  BY <1>1, <1>2, <1>3, <1>4 DEF Pending
<1>6. reset[r].status = "unborn" /\ \A q \in Reset : Pending(q) => reset[q].expires <= clock
  BY <1>1, <1>2, <1>3
<1>7. Promise!Opened(r)
  <2>1. [q \in Reset |-> reset[q].expires]'
          = [[q \in Reset |-> reset[q].expires] EXCEPT ![r] = d]
    BY <1>5
  <2>2. UNCHANGED << clock, [q \in Reset |-> The(ActiveCodes(q))],
                     {k \in Code : code[k].born}, [k \in Code |-> code[k].expires],
                     [q \in Reset |-> reset[q].lastSent],
                     [q \in Reset |-> GrantOf(q)], [q \in Reset |-> LapseOf(q)],
                     credential >>
    BY <1>2, <1>5 DEF ActiveCodes, Active, GrantOf, LapseOf
  <2>3. [q \in Reset |-> reset[q].status]'
          = [q \in Reset |-> IF q = r THEN "pending"
                             ELSE IF [p \in Reset |-> reset[p].status][q] = "pending"
                                  THEN "expired"
                             ELSE [p \in Reset |-> reset[p].status][q]]
    BY <1>5
  <2>4. UNCHANGED << Presented, Trying >>
    <3>1. Finish(c) /\ x.pc = "openCommit"
      BY DEF CommitOpen, At
    <3>2. \A q \in Reset : reset[q].status # "unborn" => reset'[q].expires = reset[q].expires
      BY <1>1
    <3> QED
      BY <1>2, <3>1, <3>2, AttemptsEnd DEF Presenting, Spending
  <2> QED
    BY <1>6, <2>1, <2>2, <2>3, <2>4 DEF Promise!Opened, Pending
<1> QED
  BY <1>7

\* The commit of a PIN replaces the one before it. A call that would move the
\* cooldown of an ungranted reset back does not get this far.
LEMMA IssueKeepsPromise ==
    ASSUME Inv, Punctual, NEW c \in Call, CommitIssue(c)
    PROVE  \E r \in Reset, k \in Code : Promise!Sent(r, k)
<1> DEFINE x == call[c]
<1>1. /\ x.fresh \in Code /\ ~code[x.fresh].born
      /\ x.reset \in Reset /\ reset[x.reset].status # "unborn"
      /\ x.began \in Nat /\ x.began <= clock
      /\ \A k \in ActiveCodes(x.reset) : k = x.code
      /\ x.code # None => code[x.code].reset = x.reset
      /\ x.fresh # x.code
      /\ code'[x.fresh].born /\ code'[x.fresh].reset = x.reset
      /\ ~code'[x.fresh].consumed /\ ~code'[x.fresh].invalidated
      /\ code'[x.fresh].expires = x.now + CodeLifetime
  BY IssueEffect
<1>a. \A k \in Code \ {x.fresh} :
         /\ code'[k].born <=> code[k].born
         /\ code'[k].reset = code[k].reset
         /\ code'[k].expires = code[k].expires
         /\ code'[k].consumed <=> code[k].consumed
         /\ code'[k].invalidated <=> (k = x.code \/ code[k].invalidated)
  BY IssueEffect
<1>b. /\ reset'[x.reset].lastSent = x.began
      /\ \A r \in Reset : /\ reset'[r].status = reset[r].status
                          /\ reset'[r].expires = reset[r].expires
                          /\ r # x.reset => reset'[r].lastSent = reset[r].lastSent
  BY IssueEffect
<1>2. /\ UNCHANGED << clock, token, credential >>
      /\ clock \in Nat /\ x.now \in Nat /\ x.now <= clock /\ CodeLifetime \in Nat
  BY NumberAssumption DEF CommitIssue, Inv, TypeOK, CallState, Punctual
<1>3. PICK r \in Reset : r = x.reset
  BY <1>1
<1>4. PICK k \in Code : k = x.fresh
  BY <1>1
<1>5. PICK at \in 0 .. clock : at = x.began
  BY <1>1, <1>2
<1>6. ASSUME GrantOf(r) = None, reset[r].lastSent # None PROVE reset[r].lastSent <= at
  <2>1. reset[r].request = "pending"
    BY <1>6, PromiseRead
  <2>2. x.pc = "stamp" /\ CooldownPart(x)
    BY CallFacts DEF CommitIssue, At, CallInv
  <2>3. ~(reset[x.reset].lastSent > x.began)
    BY <1>1, <1>3, <1>6, <2>1, <2>2 DEF CooldownPart
  <2>4. reset[r].lastSent \in Nat
    BY <1>6 DEF Inv, TypeOK, ResetRow
  <2> QED
    BY <1>1, <1>3, <1>5, <2>3, <2>4
<1>7. \A q \in Reset : ActiveCodes(q)' = IF q = r THEN {k} ELSE ActiveCodes(q)
  <2>1. ASSUME NEW q \in Reset, q # r PROVE ActiveCodes(q)' = ActiveCodes(q)
    <3>1. \A j \in Code \ {k} : code[j].reset = q => (Active(j)' <=> Active(j))
      BY <1>a, <1>1, <1>3, <1>4, <2>1, NoneAssumption DEF Active
    <3>2. ~Active(k) /\ code'[k].reset # q
      BY <1>1, <1>3, <1>4, <2>1, NoneAssumption DEF Active
    <3> QED
      BY <1>a, <1>1, <1>4, <3>1, <3>2 DEF ActiveCodes
  <2>2. ActiveCodes(r)' = {k}
    BY <1>a, <1>1, <1>3, <1>4 DEF ActiveCodes, Active
  <2> QED
    BY <2>1, <2>2
<1>8. [q \in Reset |-> The(ActiveCodes(q))]'
        = [[q \in Reset |-> The(ActiveCodes(q))] EXCEPT ![r] = k]
  <2>1. \A q \in Reset : The(ActiveCodes(q)') = IF q = r THEN k ELSE The(ActiveCodes(q))
    BY <1>7, TheOnly
  <2> QED
    BY <2>1
<1>9. {j \in Code : code[j].born}' = {j \in Code : code[j].born} \cup {k}
  BY <1>a, <1>1, <1>4
<1>10. [q \in Reset |-> reset[q].lastSent]'
         = [[q \in Reset |-> reset[q].lastSent] EXCEPT ![r] = at]
  <2>1. \A q \in Reset : reset'[q].lastSent = IF q = r THEN at ELSE reset[q].lastSent
    BY <1>b, <1>3, <1>5
  <2> QED
    BY <2>1
<1>11. UNCHANGED << clock, [q \in Reset |-> reset[q].status],
                    [q \in Reset |-> reset[q].expires], [q \in Reset |-> GrantOf(q)],
                    [q \in Reset |-> LapseOf(q)], credential >>
  BY <1>b, <1>2 DEF GrantOf, LapseOf
<1>12. reset[r].status # "unborn" /\ k \notin {j \in Code : code[j].born}
  BY <1>1, <1>3, <1>4
<1>13. PICK e \in 0 .. clock + CodeLifetime : e = x.now + CodeLifetime
  BY <1>2
<1>14. [j \in Code |-> code[j].expires]' = [[j \in Code |-> code[j].expires] EXCEPT ![k] = e]
  <2>1. \A j \in Code : code'[j].expires = IF j = k THEN e ELSE code[j].expires
    BY <1>a, <1>1, <1>4, <1>13
  <2> QED
    BY <2>1
<1>15. UNCHANGED << Presented, Trying >>
  <2>1. Finish(c) /\ x.pc = "stamp"
    BY DEF CommitIssue, At
  <2>2. \A j \in Code : code[j].born => code'[j].expires = code[j].expires
    BY <1>1, <1>a
  <2> QED
    BY <1>b, <1>2, <2>1, <2>2, AttemptsEnd DEF Presenting, Spending
<1>16. Promise!Sent(r, k)
  <2>1. [q \in Reset |-> reset[q].status][r] # "unborn"
    BY <1>12
  <2>2. \E t \in 0 .. clock :
           /\ [q \in Reset |-> GrantOf(q)][r] = None
                /\ [q \in Reset |-> reset[q].lastSent][r] # None
              => [q \in Reset |-> reset[q].lastSent][r] <= t
           /\ [q \in Reset |-> reset[q].lastSent]'
                = [[q \in Reset |-> reset[q].lastSent] EXCEPT ![r] = t]
    <3>1. /\ [q \in Reset |-> GrantOf(q)][r] = GrantOf(r)
          /\ [q \in Reset |-> reset[q].lastSent][r] = reset[r].lastSent
      OBVIOUS
    <3> QED
      BY <1>6, <1>10, <3>1
  <2>3. \E d \in 0 .. clock + CodeLifetime :
           [j \in Code |-> code[j].expires]'
             = [[j \in Code |-> code[j].expires] EXCEPT ![k] = d]
    BY <1>14
  <2> QED
    BY <2>1, <2>2, <2>3, <1>8, <1>9, <1>11, <1>12, <1>15 DEF Promise!Sent
<1> QED
  BY <1>16

\* The commit of a verification uses up the code and grants what had no grant.
LEMMA VerificationKeepsPromise ==
    ASSUME Inv, Punctual, NEW c \in Call, NEW new \in Token, CommitVerification(c, new)
    PROVE  \E r \in Reset : Promise!Granted(r, new)
<1> DEFINE x == call[c]
<1>1. /\ x.reset \in Reset
      /\ reset[x.reset].status # "unborn" /\ reset[x.reset].request = "pending"
      /\ x.code \in Code /\ Active(x.code) /\ code[x.code].reset = x.reset
      /\ code'[x.code].consumed
      /\ \A k \in Code : /\ code'[k].born <=> code[k].born
                         /\ code'[k].reset = code[k].reset
                         /\ code'[k].expires = code[k].expires
                         /\ k # x.code => (code'[k].consumed <=> code[k].consumed)
                         /\ code'[k].invalidated <=> code[k].invalidated
      /\ \A r \in Reset : /\ reset'[r].status = reset[r].status
                          /\ reset'[r].expires = reset[r].expires
                          /\ reset'[r].lastSent = reset[r].lastSent
      /\ token'[new].reset = x.reset
      /\ token'[new].expires = x.now + TokenLifetime
      /\ \A t \in Token \ {new} : token'[t] = token[t]
  BY VerificationEffect
<1>2. /\ UNCHANGED << clock, credential >>
      /\ ~token[new].born
      /\ token[new].reset = None
      /\ clock \in Nat /\ x.now \in Nat /\ x.now <= clock /\ TokenLifetime \in Nat
  BY NumberAssumption DEF CommitVerification, Inv, RowInv, TypeOK, CallState, Punctual
<1>3. PICK r \in Reset : r = x.reset
  BY <1>1
<1>4. ActiveCodes(r) = {x.code}
  <2>1. x.code \in ActiveCodes(r)
    BY <1>1, <1>3 DEF ActiveCodes
  <2> QED
    BY <2>1, PromiseRead
<1>5. /\ ActiveCodes(r)' = {}
      /\ \A q \in Reset : q # r => ActiveCodes(q)' = ActiveCodes(q)
  <2>1. ASSUME NEW q \in Reset, q # r PROVE ActiveCodes(q)' = ActiveCodes(q)
    BY <1>1, <1>3, <2>1 DEF ActiveCodes, Active
  <2>2. ActiveCodes(r)' \subseteq ActiveCodes(r) \ {x.code}
    BY <1>1 DEF ActiveCodes, Active
  <2> QED
    BY <1>4, <2>1, <2>2
<1>6. [q \in Reset |-> The(ActiveCodes(q))]'
        = [[q \in Reset |-> The(ActiveCodes(q))] EXCEPT ![r] = None]
  <2>1. \A q \in Reset : The(ActiveCodes(q)') = IF q = r THEN None ELSE The(ActiveCodes(q))
    BY <1>5, TheOnly
  <2> QED
    BY <2>1
<1>7. \A t \in Token : token[t].reset # r
  BY <1>1, <1>3, PromiseRead
<1>8. \A q \in Reset :
         {t \in Token : token'[t].reset = q}
           = IF q = r THEN {new} ELSE {t \in Token : token[t].reset = q}
  <2>1. \A t \in Token : token'[t].reset = IF t = new THEN r ELSE token[t].reset
    BY <1>1, <1>3
  <2>2. token[new].reset \notin Reset
    BY <1>2, NoneAssumption
  <2> QED
    BY <1>7, <2>1, <2>2
<1>9. [q \in Reset |-> GrantOf(q)]' = [[q \in Reset |-> GrantOf(q)] EXCEPT ![r] = new]
  <2>1. \A q \in Reset : The({t \in Token : token'[t].reset = q})
                           = IF q = r THEN new ELSE The({t \in Token : token[t].reset = q})
    BY <1>8, TheOnly
  <2> QED
    BY <2>1 DEF GrantOf
<1>10. The(ActiveCodes(r)) # None /\ GrantOf(r) = None
  <2>1. The(ActiveCodes(r)) = x.code
    BY <1>4, TheOnly
  <2>2. {t \in Token : token[t].reset = r} = {}
    BY <1>7
  <2> QED
    BY <1>1, <2>1, <2>2, TheOnly, NoneAssumption DEF GrantOf
<1>11. \A q \in Reset : GrantOf(q) # new
  <2>1. ASSUME NEW q \in Reset, GrantOf(q) = new PROVE FALSE
    <3>1. PICK t \in Token : token[t].reset = q
      BY <2>1, TheOnly, NoneAssumption DEF GrantOf
    <3>2. GrantOf(q) = t
      BY <3>1, PromiseRead
    <3> QED
      BY <1>2, <2>1, <3>1, <3>2, NoneAssumption
  <2> QED
    BY <2>1
<1>12. UNCHANGED << clock, [q \in Reset |-> reset[q].status],
                    [q \in Reset |-> reset[q].expires], {k \in Code : code[k].born},
                    [k \in Code |-> code[k].expires],
                    [q \in Reset |-> reset[q].lastSent], credential >>
  BY <1>1, <1>2
<1>13. reset[r].status # "unborn"
  BY <1>1, <1>3
<1>14. PICK e \in 0 .. clock + TokenLifetime : e = x.now + TokenLifetime
  BY <1>2
<1>15. [q \in Reset |-> LapseOf(q)]' = [[q \in Reset |-> LapseOf(q)] EXCEPT ![r] = e]
  <2>1. ASSUME NEW q \in Reset PROVE LapseOf(q)' = IF q = r THEN e ELSE LapseOf(q)
    <3>1. GrantOf(q)' = IF q = r THEN new ELSE GrantOf(q)
      BY <1>9
    <3>2. GrantOf(q) # new
      BY <1>11
    <3>3. GrantOf(q) # None => GrantOf(q) \in Token
      BY PromiseRead
    <3> QED
      BY <1>1, <1>14, <3>1, <3>2, <3>3, NoneAssumption DEF LapseOf
  <2> QED
    BY <2>1
<1>16. The(ActiveCodes(r)) = x.code
  BY <1>4, TheOnly
<1>17. x.code \in Presented
  <2>1. x.pc = "grant" /\ x.began < code[x.code].expires
    BY CallFacts DEF CommitVerification, At, CallInv, CodePart
  <2> QED
    BY <1>1, <2>1 DEF Presented, InTimeWith
<1>18. Presented' \in {Presented, Presented \ {x.code}} /\ Trying' = Trying
  <2>1. Finish(c) /\ x.pc = "grant"
    BY DEF CommitVerification, At
  <2>2. \A t \in Token : token[t].born => token'[t].expires = token[t].expires
    BY <1>1, <1>2
  <2>3. /\ Presented' \subseteq Presented
        /\ Presented \ {x.code} \subseteq Presented'
        /\ Trying' = Trying
    BY <1>1, <2>1, <2>2, AttemptsEnd DEF Spending
  <2>4. CASE x.code \in Presented'
    BY <2>3, <2>4
  <2>5. CASE x.code \notin Presented'
    BY <2>3, <2>5
  <2> QED
    BY <2>4, <2>5
<1>19. Promise!Granted(r, new)
  BY <1>6, <1>9, <1>10, <1>11, <1>12, <1>13, <1>15, <1>16, <1>17, <1>18
  DEF Promise!Granted
<1> QED
  BY <1>19

\* The commit of a finalization writes the password the reset has earned.
LEMMA FinalizeKeepsPromise ==
    ASSUME Inv, NEW c \in Call, CommitFinalize(c)
    PROVE  \E r \in Reset : Promise!Completed(r)
<1> DEFINE x == call[c]
<1>1. /\ x.reset \in Reset /\ Pending(x.reset)
      /\ x.token \in Token /\ token[x.token].reset = x.reset
      /\ reset'[x.reset].status = "completed"
      /\ \A r \in Reset : /\ r # x.reset => reset'[r].status = reset[r].status
                          /\ reset'[r].expires = reset[r].expires
                          /\ reset'[r].lastSent = reset[r].lastSent
      /\ credential' = x.token
      /\ x.began < reset[x.reset].expires /\ x.began < token[x.token].expires
      /\ \A t \in Token : /\ token'[t].reset = token[t].reset
                          /\ token'[t].expires = token[t].expires
  BY FinalizeEffect
<1>2. UNCHANGED << clock, code >>
  BY DEF CommitFinalize
<1>3. PICK r \in Reset : r = x.reset
  BY <1>1
<1>4. GrantOf(r) = x.token
  BY <1>1, <1>3, PromiseRead
<1>5. [q \in Reset |-> reset[q].status]'
        = [[q \in Reset |-> reset[q].status] EXCEPT ![r] = "completed"]
  BY <1>1, <1>3
<1>6. UNCHANGED << clock, [q \in Reset |-> reset[q].expires],
                   [q \in Reset |-> The(ActiveCodes(q))], {k \in Code : code[k].born},
                   [k \in Code |-> code[k].expires],
                   [q \in Reset |-> reset[q].lastSent], [q \in Reset |-> GrantOf(q)] >>
  BY <1>1, <1>2 DEF ActiveCodes, Active, GrantOf
<1>7. [q \in Reset |-> LapseOf(q)]' = [q \in Reset |-> LapseOf(q)]
  <2>1. ASSUME NEW q \in Reset PROVE LapseOf(q)' = LapseOf(q)
    <3>1. GrantOf(q)' = GrantOf(q)
      BY <1>1 DEF GrantOf
    <3>2. GrantOf(q) # None => GrantOf(q) \in Token
      BY PromiseRead
    <3> QED
      BY <1>1, <3>1, <3>2 DEF LapseOf
  <2> QED
    BY <2>1
<1>8. At(c, "finalizeCommit") /\ Finish(c)
  BY DEF CommitFinalize
<1>9. r \in Trying
  BY <1>1, <1>3, <1>8 DEF Trying, InTimeFor, At
<1>10. Trying' \in {Trying, Trying \ {r}} /\ Presented' = Presented
  <2>1. /\ Trying' \subseteq Trying
        /\ Trying \ {r} \subseteq Trying'
        /\ Presented' = Presented
    BY <1>1, <1>2, <1>3, <1>8, AttemptsEnd DEF Presenting, At
  <2>2. CASE r \in Trying'
    BY <2>1, <2>2
  <2>3. CASE r \notin Trying'
    BY <2>1, <2>3
  <2> QED
    BY <2>2, <2>3
<1>11. Promise!Completed(r)
  BY <1>1, <1>3, <1>4, <1>5, <1>6, <1>7, <1>9, <1>10, NoneAssumption
  DEF Promise!Completed, Pending
<1> QED
  BY <1>11

\* Only the clock moves the clock.
LEMMA CallClock ==
    ASSUME NEW c \in Call
    PROVE  CallNext(c) => clock' = clock
<1>1. OpenNext(c) => clock' = clock
  BY DEF OpenNext, BeginOpen, FindPending, LockReset, LockRequest, InsertReset,
     InsertResetConflicts, CommitOpen
<1>2. IssueNext(c) => clock' = clock
  BY DEF IssueNext, BeginIssue, PickActive, Invalidate, InsertCode,
     InsertCodeConflicts, CommitIssue
<1>3. VerifyNext(c) => clock' = clock
  BY DEF VerifyNext, BeginVerify, ReadCode, CountWrong, BeginCompletion, Consume, Mark,
     CommitVerification
<1>4. FinalizeNext(c) \/ AbortCall(c) => clock' = clock
  BY DEF FinalizeNext, BeginFinalize, BeginWrite, Spend, Complete, CommitFinalize,
     AbortCall
<1> QED
  BY <1>1, <1>2, <1>3, <1>4 DEF CallNext

\* Every commit is one step of Recovery, and nothing else that a call does is one:
\* whatever else is under way, the owner sees whole requests, one after the other.
THEOREM Refinement == Spec => ImplementsRecovery
<1>1. Init => Promise!RecoveryInit
  <2> SUFFICES ASSUME Init PROVE Promise!RecoveryInit
    OBVIOUS
  <2>1. \A r \in Reset : ActiveCodes(r) = {} /\ {t \in Token : token[t].reset = r} = {}
    BY NoneAssumption DEF Init, ActiveCodes, Active
  <2>2. \A r \in Reset : The(ActiveCodes(r)) = None /\ GrantOf(r) = None
    BY <2>1, TheOnly DEF GrantOf
  <2> QED
    BY <2>2 DEF Init, Promise!RecoveryInit, LapseOf, Presented, Trying, InTimeWith,
       InTimeFor, IdleCall
<1>2. Inv /\ Punctual /\ [Next]_vars => [Promise!RecoveryNext]_Promise!recoveryVars
  <2> SUFFICES ASSUME Inv, Punctual, [Next]_vars
               PROVE  [Promise!RecoveryNext]_Promise!recoveryVars
    OBVIOUS
  <2>0. Inv'
    BY NextInv
  <2>1. CASE UNCHANGED << reset, code, token, credential >>
    <3>1. CASE Tick \/ UNCHANGED vars
      <4>1. UNCHANGED << reset, code, token, credential, call >>
        BY <3>1 DEF Tick, vars
      <4>2. clock' \in {clock, clock + 1}
        BY <3>1 DEF Tick, vars
      <4>3. UNCHANGED << Presented, Trying >>
        BY <4>1 DEF Presented, Trying, InTimeWith, InTimeFor
      <4> QED
        BY <4>1, <4>2, <4>3 DEF Promise!RecoveryNext, Promise!TimePasses,
           Promise!recoveryVars, ActiveCodes, Active, GrantOf, LapseOf
    <3>2. ASSUME NEW c \in Call, CallNext(c) PROVE Promise!Tried
      BY <2>0, <2>1, <3>2, AttemptsKeepPromise, CallClock DEF rows
    <3> QED
      BY <3>1, <3>2 DEF Next, Promise!RecoveryNext
  <2>2. ASSUME NEW c \in Call, CountWrong(c) PROVE UNCHANGED Promise!recoveryVars
    <3>1. \A k \in Code : /\ code'[k].born = code[k].born
                          /\ code'[k].reset = code[k].reset
                          /\ code'[k].consumed = code[k].consumed
                          /\ code'[k].expires = code[k].expires
                          /\ code'[k].invalidated = code[k].invalidated
      BY <2>2 DEF CountWrong, Inv, TypeOK, CodeRow
    <3>2. UNCHANGED << clock, reset, token, credential >>
      BY <2>2 DEF CountWrong
    <3>3. UNCHANGED << Presented, Trying >>
      <4>1. Finish(c) /\ call[c].pc = "wrong"
        BY <2>2 DEF CountWrong, At
      <4> QED
        BY <3>1, <3>2, <4>1, AttemptsEnd DEF Presenting, Spending
    <3> QED
      BY <3>1, <3>2, <3>3 DEF Promise!recoveryVars, ActiveCodes, Active, GrantOf, LapseOf
  <2> QED
    BY <2>1, <2>2, StepCases, OpenKeepsPromise, IssueKeepsPromise,
       VerificationKeepsPromise, FinalizeKeepsPromise DEF Promise!RecoveryNext
<1> QED
  BY <1>1, <1>2, Invariance, AlwaysPunctual, PTL
  DEF Spec, ImplementsRecovery, Promise!RecoverySpec
=============================================================================
