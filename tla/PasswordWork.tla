---------------------------- MODULE PasswordWork ----------------------------
(***************************************************************************)
(* PasswordWorkLimiter: how many Argon2 derivations run at once.  A count  *)
(* under a mutex, and a channel of capacity one that carries wakeups and   *)
(* never permits.  Each step is one critical section or one channel        *)
(* operation of a goroutine.                                               *)
(*                                                                         *)
(* A cancellation or a timer is seen only in the select, so a cancellation *)
(* that lands between two of its iterations is placed in the next one.     *)
(***************************************************************************)
EXTENDS Naturals, FiniteSets

CONSTANTS
    Caller,         \* goroutines that hash or verify a password
    MaxConcurrent   \* PASSWORD_WORK_CONCURRENCY

ASSUME CallerAssumption == IsFiniteSet(Caller)

ASSUME ConcurrencyAssumption == MaxConcurrent \in Nat \ {0}

VARIABLES
    held,       \* slots in use, as the limiter counts them
    changed,    \* whether a wakeup is buffered
    call        \* the state of each caller

vars == << held, changed, call >>

Acquiring == {"fast", "wait", "woken"}

CallState ==
    [pc : Acquiring \cup {"idle", "work", "signal", "released"},
     cancelled : BOOLEAN, expired : BOOLEAN,
     answer : {"none", "granted", "busy", "cancelled"}]

TypeOK ==
    /\ held \in Nat
    /\ changed \in BOOLEAN
    /\ call \in [Caller -> CallState]

IdleCall(answer) ==
    [pc |-> "idle", cancelled |-> FALSE, expired |-> FALSE, answer |-> answer]

Init ==
    /\ held = 0
    /\ changed = FALSE
    /\ call = [c \in Caller |-> IdleCall("none")]

At(c, pc) == call[c].pc = pc

Working == {c \in Caller : At(c, "work")}

Enter(c, pc) == call' = [call EXCEPT ![c].pc = pc]

Finish(c, answer) == call' = [call EXCEPT ![c] = IdleCall(answer)]

-----------------------------------------------------------------------------
(* Acquire                                                                 *)

\* A context that has ended takes no slot.
Acquire(c) ==
    /\ At(c, "idle")
    /\ \/ Finish(c, "cancelled")
       \/ call' = [call EXCEPT ![c] = [IdleCall("none") EXCEPT !.pc = "fast"]]
    /\ UNCHANGED << held, changed >>

Granted(c) ==
    /\ held' = held + 1
    /\ call' = [call EXCEPT ![c].pc = "work", ![c].answer = "granted"]

\* Faulty: every retry has a timer of its own.
TryAcquireFreshTimer(c) ==
    \/ held < MaxConcurrent /\ Granted(c)
    \/ /\ held >= MaxConcurrent
       /\ call' = [call EXCEPT ![c].pc = "wait", ![c].expired = FALSE]
       /\ UNCHANGED held

\* tryAcquire, and the select that its failure leads to.
TryAcquire(c) ==
    \/ held < MaxConcurrent /\ Granted(c)
    \/ held >= MaxConcurrent /\ Enter(c, "wait") /\ UNCHANGED held

TryFast(c) ==
    /\ At(c, "fast")
    /\ TryAcquire(c)
    /\ UNCHANGED changed

Wake(c) ==
    /\ At(c, "wait")
    /\ changed
    /\ changed' = FALSE
    /\ Enter(c, "woken")
    /\ UNCHANGED held

TryWoken(c) ==
    /\ At(c, "woken")
    /\ TryAcquire(c)
    /\ UNCHANGED changed

Cancel(c) ==
    /\ At(c, "wait")
    /\ ~call[c].cancelled
    /\ call' = [call EXCEPT ![c].cancelled = TRUE]
    /\ UNCHANGED << held, changed >>

Expire(c) ==
    /\ call[c].pc \in {"wait", "woken"}
    /\ ~call[c].expired
    /\ call' = [call EXCEPT ![c].expired = TRUE]
    /\ UNCHANGED << held, changed >>

LeaveCancelled(c) ==
    /\ At(c, "wait")
    /\ call[c].cancelled
    /\ Finish(c, "cancelled")
    /\ UNCHANGED << held, changed >>

\* select chooses freely among ready cases.
TimeOut(c) ==
    /\ At(c, "wait")
    /\ call[c].expired
    /\ Finish(c, IF call[c].cancelled THEN "cancelled" ELSE "busy")
    /\ UNCHANGED << held, changed >>

-----------------------------------------------------------------------------
(* The release of one acquisition                                          *)

\* Faulty: no sync.Once around it.
ReleaseEveryTime(c) ==
    /\ call[c].pc \in {"work", "released"}
    /\ held > 0
    /\ held' = held - 1
    /\ Enter(c, "signal")
    /\ UNCHANGED changed

\* The second and later calls of one release do nothing.
Release(c) ==
    \/ /\ At(c, "work")
       /\ IF held > 0
          THEN held' = held - 1 /\ Enter(c, "signal")
          ELSE held' = held /\ Enter(c, "released")
       /\ UNCHANGED changed
    \/ /\ At(c, "released")
       /\ UNCHANGED vars

\* Faulty: an unbuffered channel drops the wakeup.
SignalDropped(c) ==
    /\ At(c, "signal")
    /\ Enter(c, "released")
    /\ UNCHANGED << held, changed >>

\* A wakeup that is already buffered stands for this one too.
Signal(c) ==
    /\ At(c, "signal")
    /\ changed' = TRUE
    /\ Enter(c, "released")
    /\ UNCHANGED held

Return(c) ==
    /\ At(c, "released")
    /\ Finish(c, call[c].answer)
    /\ UNCHANGED << held, changed >>

-----------------------------------------------------------------------------
CallerStep(c) ==
    \/ TryFast(c)
    \/ TryWoken(c)
    \/ Release(c)
    \/ Signal(c)

CallerNext(c) ==
    \/ Acquire(c)
    \/ Cancel(c)
    \/ Wake(c)
    \/ Expire(c)
    \/ LeaveCancelled(c)
    \/ TimeOut(c)
    \/ Return(c)
    \/ CallerStep(c)

Next == \E c \in Caller : CallerNext(c)

Spec == Init /\ [][Next]_vars

(***************************************************************************)
(* Fairness: goroutines are scheduled, derivations end, timers fire, and a *)
(* select that finds its timer ready again and again takes that case in    *)
(* the end, its choice among ready cases being uniform (SF).               *)
(***************************************************************************)
FairSpec ==
    /\ Spec
    /\ \A c \in Caller :
          WF_vars(CallerStep(c)) /\ WF_vars(Expire(c)) /\ SF_vars(TimeOut(c))

-----------------------------------------------------------------------------
(* Properties                                                              *)

\* The count is the number of derivations running, however often and however
\* late releases are called, and never more than the limit.
SlotsAreOwned == held = Cardinality(Working) /\ held <= MaxConcurrent

CancelledIsNotBusy ==
    [][\A c \in Caller : call[c].cancelled => call'[c].answer # "busy"]_vars

\* Every caller is answered, however many wakeups others take from it: one timer
\* serves the whole wait; and one that went away is not told to come back, even
\* if the timer fires at the same time.
CallsAreAnswered ==
    /\ \A c \in Caller : call[c].pc \in Acquiring ~> call[c].pc \notin Acquiring
    /\ CancelledIsNotBusy

Waiting == \E c \in Caller : At(c, "wait")

WakeupUnderWay ==
    changed \/ \E c \in Caller : call[c].pc \in {"woken", "signal"}

\* While a slot is free and somebody waits for one, a wakeup is on its way: the
\* single buffered wakeup "cannot lose a wakeup" (password_work.go).
NoWakeupIsLost == held < MaxConcurrent /\ Waiting => WakeupUnderWay

\* What the single buffered wakeup does guarantee for every limit: nobody sleeps
\* beside an idle limiter. While somebody waits, a slot is in use, whose release
\* will signal, or a wakeup is on its way.
NobodySleepsBesideIdle == Waiting => held > 0 \/ WakeupUnderWay
=============================================================================
