-------------------------- MODULE PasswordWorkProof --------------------------
(***************************************************************************)
(* Proofs about PasswordWork for every number of callers: the count is the *)
(* number of running derivations and stays within the limit, and with a    *)
(* limit of one no wakeup is lost.                                         *)
(***************************************************************************)
EXTENDS PasswordWork, FiniteSetTheorems, TLAPS

LEMMA IdleType ==
    ASSUME NEW answer \in {"none", "granted", "busy", "cancelled"}
    PROVE  /\ IdleCall(answer) \in CallState
           /\ [IdleCall(answer) EXCEPT !.pc = "fast"] \in CallState
  BY DEF IdleCall, CallState, Acquiring

LEMMA EnterType ==
    ASSUME NEW c \in Caller, call \in [Caller -> CallState],
           NEW pc \in Acquiring \cup {"idle", "work", "signal", "released"}
    PROVE  [call EXCEPT ![c].pc = pc] \in [Caller -> CallState]
  BY DEF CallState

LEMMA GrantedType ==
    ASSUME NEW c \in Caller, call \in [Caller -> CallState], Granted(c)
    PROVE  call' \in [Caller -> CallState]
<1>1. [call[c] EXCEPT !.pc = "work", !.answer = "granted"] \in CallState
  BY DEF CallState, Acquiring
<1>2. call' = [call EXCEPT ![c] =
                  [call[c] EXCEPT !.pc = "work", !.answer = "granted"]]
  BY DEF Granted
<1> QED
  BY <1>1, <1>2

LEMMA InitType == Init => TypeOK
<1> SUFFICES ASSUME Init PROVE TypeOK
  OBVIOUS
<1>1. call \in [Caller -> CallState]
  BY IdleType DEF Init
<1>2. changed \in BOOLEAN
  BY DEF Init
<1> QED
  BY <1>1, <1>2 DEF Init, TypeOK

\* Every step keeps the types of the limiter's fields and of the callers.
LEMMA TypeStep == TypeOK /\ [Next]_vars => TypeOK'
<1> SUFFICES ASSUME TypeOK, [Next]_vars PROVE TypeOK'
  OBVIOUS
<1>0. held \in Nat /\ changed \in BOOLEAN /\ call \in [Caller -> CallState]
  BY DEF TypeOK
<1>1. CASE UNCHANGED vars
  BY <1>0, <1>1 DEF vars, TypeOK
<1>2. ASSUME NEW c \in Caller, CallerNext(c) PROVE TypeOK'
  <2>a. ASSUME NEW answer \in {"none", "granted", "busy", "cancelled"},
               Finish(c, answer)
        PROVE  call' \in [Caller -> CallState]
    BY <2>a, <1>0, IdleType DEF Finish
  <2>b. ASSUME NEW pc \in Acquiring \cup {"idle", "work", "signal", "released"},
               Enter(c, pc)
        PROVE  call' \in [Caller -> CallState]
    BY <2>b, <1>0, EnterType DEF Enter
  <2>1. CASE Acquire(c)
    <3>1. call' \in [Caller -> CallState]
      BY <2>1, <2>a, <1>0, IdleType DEF Acquire
    <3> QED
      BY <3>1, <2>1, <1>0 DEF Acquire, TypeOK
  <2>2. CASE TryFast(c) \/ TryWoken(c)
    <3>1. TryAcquire(c) /\ changed' = changed
      BY <2>2 DEF TryFast, TryWoken
    <3>2. held' \in Nat
      BY <3>1, <1>0 DEF TryAcquire, Granted
    <3>3. Granted(c) => call' \in [Caller -> CallState]
      BY <1>0, GrantedType
    <3>4. Enter(c, "wait") => call' \in [Caller -> CallState]
      BY <2>b DEF Acquiring
    <3>5. call' \in [Caller -> CallState]
      BY <3>1, <3>3, <3>4 DEF TryAcquire
    <3> QED
      BY <3>1, <3>2, <3>5, <1>0 DEF TypeOK
  <2>3. CASE Wake(c) \/ Signal(c)
    <3>1. call' \in [Caller -> CallState] /\ held' = held
      BY <2>3, <2>b DEF Wake, Signal, Acquiring
    <3>2. changed' \in BOOLEAN
      BY <2>3 DEF Wake, Signal
    <3> QED
      BY <3>1, <3>2, <1>0 DEF TypeOK
  <2>4. CASE Cancel(c) \/ Expire(c)
    <3>0. call[c] \in CallState
      BY <1>0
    <3>1. /\ [call[c] EXCEPT !.cancelled = TRUE] \in CallState
          /\ [call[c] EXCEPT !.expired = TRUE] \in CallState
      BY <3>0 DEF CallState
    <3>2. \/ call' = [call EXCEPT ![c] = [call[c] EXCEPT !.cancelled = TRUE]]
          \/ call' = [call EXCEPT ![c] = [call[c] EXCEPT !.expired = TRUE]]
      BY <2>4 DEF Cancel, Expire
    <3>3. call' \in [Caller -> CallState]
      BY <3>1, <3>2, <1>0
    <3> QED
      BY <3>3, <2>4, <1>0 DEF Cancel, Expire, TypeOK
  <2>5. CASE LeaveCancelled(c) \/ TimeOut(c) \/ Return(c)
    <3>1. call[c].answer \in {"none", "granted", "busy", "cancelled"}
      BY <1>0 DEF CallState
    <3>2. call' \in [Caller -> CallState]
      BY <2>5, <2>a, <3>1 DEF LeaveCancelled, TimeOut, Return
    <3> QED
      BY <3>2, <2>5, <1>0 DEF LeaveCancelled, TimeOut, Return, TypeOK
  <2>6. CASE Release(c)
    <3>1. CASE UNCHANGED vars
      BY <3>1, <1>0 DEF vars, TypeOK
    <3>2. CASE /\ Enter(c, "signal") \/ Enter(c, "released")
               /\ changed' = changed
               /\ held' = IF held > 0 THEN held - 1 ELSE held
      <4>1. held' \in Nat
        BY <3>2, <1>0
      <4>2. call' \in [Caller -> CallState]
        BY <3>2, <2>b
      <4> QED
        BY <4>1, <4>2, <3>2, <1>0 DEF TypeOK
    <3> QED
      BY <2>6, <3>1, <3>2 DEF Release
  <2> QED
    BY <1>2, <2>1, <2>2, <2>3, <2>4, <2>5, <2>6 DEF CallerNext, CallerStep
<1> QED
  BY <1>1, <1>2 DEF Next

\* Every reachable state is type correct (held, changed and the callers of
\* PasswordWorkLimiter).
THEOREM TypeCorrect == Spec => []TypeOK
BY InitType, TypeStep, PTL DEF Spec

-----------------------------------------------------------------------------
\* A caller that starts working adds one to the workers.
LEMMA OneMoreWorks ==
    ASSUME NEW c \in Caller, TypeOK, ~At(c, "work"),
           call' = [call EXCEPT ![c].pc = "work", ![c].answer = "granted"]
    PROVE  Cardinality(Working)' = Cardinality(Working) + 1
<1>1. Working' = Working \cup {c} /\ c \notin Working
  BY DEF Working, At, TypeOK, CallState
<1>2. IsFiniteSet(Working)
  BY CallerAssumption, FS_Subset DEF Working
<1> QED
  BY <1>1, <1>2, FS_AddElement

\* A caller that releases its slot leaves the workers.
LEMMA OneLessWorks ==
    ASSUME NEW c \in Caller, TypeOK, At(c, "work"), Enter(c, "signal")
    PROVE  /\ Cardinality(Working)' = Cardinality(Working) - 1
           /\ Cardinality(Working) \in Nat \ {0}
<1>1. Working' = Working \ {c} /\ c \in Working
  BY DEF Working, At, Enter, TypeOK, CallState
<1>2. IsFiniteSet(Working)
  BY CallerAssumption, FS_Subset DEF Working
<1>3. Cardinality(Working) \in Nat /\ Cardinality(Working) # 0
  BY <1>1, <1>2, FS_CardinalityType, FS_EmptySet
<1> QED
  BY <1>1, <1>2, <1>3, FS_RemoveElement

\* Every step keeps the count in step with the working callers.
LEMMA SlotsStep == TypeOK /\ SlotsAreOwned /\ [Next]_vars => SlotsAreOwned'
<1> SUFFICES ASSUME TypeOK, SlotsAreOwned, [Next]_vars PROVE SlotsAreOwned'
  OBVIOUS
<1> DEFINE Same == held' = held /\ Working' = Working
<1>s. Same => SlotsAreOwned'
  BY DEF SlotsAreOwned
<1>1. CASE UNCHANGED vars
  BY <1>1, <1>s DEF vars, Working, At
<1>2. ASSUME NEW c \in Caller, CallerNext(c) PROVE SlotsAreOwned'
  <2>1. CASE Acquire(c)
    <3>1. Same
      BY <2>1 DEF Acquire, At, Finish, IdleCall, Working, TypeOK
    <3> QED BY <3>1, <1>s
  <2>2. CASE TryFast(c) \/ TryWoken(c)
    <3>1. ~At(c, "work") /\ TryAcquire(c)
      BY <2>2 DEF TryFast, TryWoken, At
    <3>2. CASE held < MaxConcurrent /\ Granted(c)
      <4>1. Cardinality(Working)' = Cardinality(Working) + 1
        BY <3>1, <3>2, OneMoreWorks DEF Granted
      <4> QED
        BY <3>2, <4>1, ConcurrencyAssumption DEF Granted, SlotsAreOwned, TypeOK
    <3>3. CASE held >= MaxConcurrent /\ Enter(c, "wait") /\ UNCHANGED held
      <4>1. Same
        BY <3>1, <3>3 DEF Enter, Working, At, TypeOK, CallState
      <4> QED BY <4>1, <1>s
    <3> QED BY <3>1, <3>2, <3>3 DEF TryAcquire
  <2>3. CASE Wake(c) \/ Signal(c)
    <3>1. Same
      BY <2>3 DEF Wake, Signal, Enter, Working, At, TypeOK, CallState
    <3> QED BY <3>1, <1>s
  <2>4. CASE Cancel(c) \/ Expire(c)
    <3>1. Same
      BY <2>4 DEF Cancel, Expire, Working, At, TypeOK, CallState
    <3> QED BY <3>1, <1>s
  <2>5. CASE LeaveCancelled(c) \/ TimeOut(c) \/ Return(c)
    <3>1. Same
      BY <2>5 DEF LeaveCancelled, TimeOut, Return, Finish, IdleCall, Working, At,
                  TypeOK, CallState
    <3> QED BY <3>1, <1>s
  <2>6. CASE At(c, "work") /\ Release(c)
    <3>1. held > 0
      <4>1. c \in Working /\ IsFiniteSet(Working)
        BY <2>6, CallerAssumption, FS_Subset DEF Working
      <4>2. Cardinality(Working) # 0 /\ Cardinality(Working) \in Nat
        BY <4>1, FS_EmptySet, FS_CardinalityType
      <4> QED
        BY <4>2 DEF SlotsAreOwned
    <3>2. Enter(c, "signal") /\ held' = held - 1
      BY <2>6, <3>1 DEF Release, At
    <3> QED
      BY <2>6, <3>2, OneLessWorks, ConcurrencyAssumption DEF SlotsAreOwned, TypeOK
  <2>7. CASE ~At(c, "work") /\ Release(c)
    BY <2>7, <1>s DEF Release, vars, Working, At
  <2> QED
    BY <1>2, <2>1, <2>2, <2>3, <2>4, <2>5, <2>6, <2>7 DEF CallerNext, CallerStep
<1> QED
  BY <1>1, <1>2 DEF Next

\* The limiter's count is the number of running derivations and never exceeds
\* MaxConcurrent, for any number of callers (Acquire, release and sync.Once).
THEOREM SlotsOwned == Spec => []SlotsAreOwned
<1>1. Init => TypeOK /\ SlotsAreOwned
  <2>1. Init => Working = {}
    BY DEF Init, Working, At, IdleCall
  <2> QED
    BY <2>1, FS_EmptySet, ConcurrencyAssumption, InitType
       DEF Init, SlotsAreOwned
<1>2. TypeOK /\ SlotsAreOwned /\ [Next]_vars => (TypeOK /\ SlotsAreOwned)'
  BY TypeStep, SlotsStep
<1> QED
  BY <1>1, <1>2, PTL DEF Spec

-----------------------------------------------------------------------------
\* A caller starts to wait when it finds every slot in use; the last release of a slot
\* is followed by its signal, and who takes the signal tries before it waits again.
LEMMA WakeupStep ==
    TypeOK /\ NobodySleepsBesideIdle /\ [Next]_vars => NobodySleepsBesideIdle'
<1> SUFFICES ASSUME TypeOK, NobodySleepsBesideIdle, [Next]_vars
             PROVE  NobodySleepsBesideIdle'
  OBVIOUS
<1> USE ConcurrencyAssumption DEF NobodySleepsBesideIdle, Waiting, WakeupUnderWay, At
<1>1. CASE UNCHANGED vars
  BY <1>1 DEF vars
<1>2. ASSUME NEW c \in Caller, CallerNext(c) PROVE NobodySleepsBesideIdle'
  <2> USE DEF TypeOK, CallState
  <2>1. CASE Acquire(c)
    BY <2>1 DEF Acquire, Finish, IdleCall
  <2>2. CASE TryFast(c) \/ TryWoken(c)
    BY <2>2 DEF TryFast, TryWoken, TryAcquire, Granted, Enter
  <2>3. CASE Wake(c)
    BY <2>3 DEF Wake, Enter
  <2>4. CASE Signal(c)
    BY <2>4 DEF Signal, Enter
  <2>5. CASE Cancel(c) \/ Expire(c)
    BY <2>5 DEF Cancel, Expire
  <2>6. CASE LeaveCancelled(c) \/ TimeOut(c) \/ Return(c)
    BY <2>6 DEF LeaveCancelled, TimeOut, Return, Finish, IdleCall
  <2>7. CASE Release(c)
    BY <2>7 DEF Release, Enter, vars
  <2> QED
    BY <1>2, <2>1, <2>2, <2>3, <2>4, <2>5, <2>6, <2>7 DEF CallerNext, CallerStep
<1> QED
  BY <1>1, <1>2 DEF Next

\* For every limit and any number of callers, nobody waits while no slot is in use and
\* no wakeup is on its way: release's default case may coalesce wakeups, but leaves one.
THEOREM NobodySleepsAlone == Spec => []NobodySleepsBesideIdle
<1>1. Init => TypeOK /\ NobodySleepsBesideIdle
  BY InitType DEF Init, IdleCall, NobodySleepsBesideIdle, Waiting, At
<1>2. TypeOK /\ NobodySleepsBesideIdle /\ [Next]_vars => (TypeOK /\ NobodySleepsBesideIdle)'
  BY TypeStep, WakeupStep
<1> QED
  BY <1>1, <1>2, PTL DEF Spec

\* At the default concurrency of one a free slot is an idle limiter: the comment that
\* no wakeup is lost holds.
THEOREM WakeupsSuffice ==
    ASSUME MaxConcurrent = 1
    PROVE  Spec => []NoWakeupIsLost
<1>1. TypeOK /\ NobodySleepsBesideIdle => NoWakeupIsLost
  BY DEF TypeOK, NobodySleepsBesideIdle, NoWakeupIsLost
<1> QED
  BY <1>1, TypeCorrect, NobodySleepsAlone, PTL
=============================================================================
