--------------------------- MODULE PinBudgetProof ---------------------------
(***************************************************************************)
(* Proofs about PinBudget for every number of calls and addresses, every   *)
(* pair of maxima, every window and every lag shorter than it.             *)
(*                                                                         *)
(* The budget's bound is not inductive by itself.  What carries it is that *)
(* a charged call younger than the window still has its member in the set  *)
(* (PlacesAreKept): then all the calls of a stretch are members of the set *)
(* the last of them was admitted to, and that set is within its maximum.   *)
(***************************************************************************)
EXTENDS PinBudget, FiniteSetTheorems, TLAPS

\* The calls that hold or have used a reservation of s made in the stretch.
ChargedFrom(s, from) ==
  {c \in Charged(s) : from <= At(c, s) /\ At(c, s) < from + Window - Lag}

Types ==
  /\ clock \in Time
  /\ window \in [Subject -> SUBSET Entry]
  /\ armed \in [Subject -> Time \cup {None}]
  /\ calls \in [Call -> CallRow]

SetsAreBounded ==
  \A s \in Subject :
    IsFiniteSet(window[s]) /\ Cardinality(window[s]) <= MaxOf(s)

\* No key expires before its youngest member is a window old.
ExpiryIsLate ==
  \A s \in Subject :
    /\ \A e \in window[s] : e.at <= clock
    /\ armed[s] # None =>
         armed[s] <= clock /\ \A e \in window[s] : e.at <= armed[s]

\* A call has the reservations its phase says it has.
CallsAreDated ==
  \A c \in Call :
    /\ calls[c].phase \notin {"idle", "done"} => calls[c].email \in Email
    /\ calls[c].phase \in {"idle", "done"} => calls[c].email = None
    /\ calls[c].phase \notin {"idle", "done", "address"} =>
         calls[c].addressAt \in Time
    /\ calls[c].phase \notin {"idle", "done", "address", "application"} =>
         calls[c].applicationAt \in Time

PlacesAreKept ==
  \A s \in Subject : \A c \in Charged(s) :
    At(c, s) > clock - Window => [call |-> c, at |-> At(c, s)] \in window[s]

\* Who may own a member of the deployment's set.
OwnersAreKnown ==
  \A e \in window[Application] :
    \/ calls[e.call].phase \in {"issuing", "sending", "refunding", "mailed"}
    \/ calls[e.call].lost

ChargesStayInBudget ==
  \A s \in Subject : \A from \in Time :
    Cardinality(ChargedFrom(s, from)) <= MaxOf(s)

IInv ==
  /\ Types
  /\ SetsAreBounded
  /\ ExpiryIsLate
  /\ CallsAreDated
  /\ PlacesAreKept
  /\ OwnersAreKnown
  /\ ChargesStayInBudget

-----------------------------------------------------------------------------
(***************************************************************************)
(* The script.                                                             *)
(***************************************************************************)

LEMMA MaxIsPositive == ASSUME NEW s PROVE MaxOf(s) \in Nat \ {0}
  BY PoliciesAreValid DEF MaxOf

\* Whatever it decides, the script leaves a set within its maximum.
LEMMA RecordedIsBounded ==
  ASSUME Types, SetsAreBounded, NEW c \in Call, NEW s \in Subject,
         NEW now \in Time
  PROVE  /\ Recorded(c, s, now) \in SUBSET Entry
         /\ IsFiniteSet(Recorded(c, s, now))
         /\ Cardinality(Recorded(c, s, now)) <= MaxOf(s)
<1> DEFINE kept == Pruned(s, now)
           mine == [call |-> c, at |-> now]
<1>0. MaxOf(s) \in Nat
  BY MaxIsPositive
<1>1. kept \in SUBSET window[s] /\ kept \in SUBSET Entry
  BY DEF Pruned, Held, Types
<1>2. IsFiniteSet(window[s]) /\ Cardinality(window[s]) <= MaxOf(s)
  BY DEF SetsAreBounded
<1>3. IsFiniteSet(kept) /\ Cardinality(kept) <= Cardinality(window[s])
  BY <1>1, <1>2, FS_Subset
<1>4. Cardinality(kept) \in Nat /\ Cardinality(window[s]) \in Nat
  BY <1>2, <1>3, FS_CardinalityType
<1>5. CASE Admitted(s, now)
  <2>1. Recorded(c, s, now) = kept \cup {mine}
    BY <1>5 DEF Recorded
  <2>2. mine \in Entry
    BY DEF Entry
  <2>3. /\ IsFiniteSet(kept \cup {mine})
        /\ Cardinality(kept \cup {mine}) <= Cardinality(kept) + 1
    <3> HIDE DEF kept, mine
    <3>1. /\ IsFiniteSet(kept \cup {mine})
          /\ Cardinality(kept \cup {mine}) =
               IF mine \in kept THEN Cardinality(kept) ELSE Cardinality(kept) + 1
      BY <1>3, FS_AddElement
    <3> QED
      BY <1>4, <3>1
  <2>4. Cardinality(kept) < MaxOf(s)
    BY <1>5 DEF Admitted
  <2>5. Cardinality(kept \cup {mine}) \in Nat
    BY <2>3, FS_CardinalityType
  <2> HIDE DEF kept, mine
  <2> QED
    BY <2>1, <2>2, <2>3, <2>4, <2>5, <1>0, <1>1, <1>4
<1>6. CASE ~Admitted(s, now)
  <2>1. Recorded(c, s, now) = kept
    BY <1>6 DEF Recorded
  <2> HIDE DEF kept
  <2> QED
    BY <2>1, <1>0, <1>1, <1>2, <1>3, <1>4
<1> QED
  BY <1>5, <1>6

\* A member that some script removes, or that an expiry hides, is a window old.
LEMMA OnlyTheOldArePruned ==
  ASSUME Types, ExpiryIsLate, NEW s \in Subject, NEW now \in Time,
         now <= clock, NEW e \in window[s], e.at > clock - Window
  PROVE  e \in Pruned(s, now) /\ e \in Held(s)
<1>1. /\ e.at \in Int /\ clock \in Int /\ Window \in Int
      /\ armed[s] # None => armed[s] \in Int
  BY PoliciesAreValid DEF Types, Entry, Time
<1>2. armed[s] # None => e.at <= armed[s]
  BY DEF ExpiryIsLate
<1>3. ~(armed[s] # None /\ clock > armed[s] + Window)
  BY <1>1, <1>2
<1>4. e \in Held(s)
  BY <1>3 DEF Held
<1>5. now \in Int
  BY DEF Time
<1> QED
  BY <1>1, <1>4, <1>5 DEF Pruned

-----------------------------------------------------------------------------
(***************************************************************************)
(* Types and the simple parts of the invariant.                            *)
(***************************************************************************)

LEMMA InitIInv == Init => IInv
<1> SUFFICES ASSUME Init PROVE IInv
  OBVIOUS
<1>1. 0 \in Time
  BY ClockIsBounded DEF Time
<1>2. IdleCall \in CallRow
  BY DEF IdleCall, CallRow, Phase, Reserving
<1>3. Types
  BY <1>1, <1>2 DEF Init, Types
<1>4. \A s \in Subject : window[s] = {} /\ armed[s] = None
  BY DEF Init
<1>5. \A s \in Subject : MaxOf(s) \in Nat
  BY MaxIsPositive
<1>6. IsFiniteSet({}) /\ Cardinality({}) = 0
  BY FS_EmptySet
<1>7. SetsAreBounded
  BY <1>4, <1>5, <1>6 DEF SetsAreBounded
<1>8. ExpiryIsLate
  BY <1>4 DEF Init, ExpiryIsLate
<1>9. \A c \in Call : calls[c].phase = "idle" /\ calls[c].email = None
  BY DEF Init, IdleCall
<1>10. CallsAreDated
  BY <1>9 DEF CallsAreDated
<1>11. \A s \in Subject : Charged(s) = {}
  BY <1>9 DEF Charged
<1>12. PlacesAreKept
  BY <1>11 DEF PlacesAreKept
<1>13. OwnersAreKnown
  BY <1>4 DEF OwnersAreKnown, Subject
<1>14. \A s \in Subject, from \in Time : ChargedFrom(s, from) = {}
  BY <1>11 DEF ChargedFrom
<1>15. ChargesStayInBudget
  BY <1>5, <1>6, <1>14 DEF ChargesStayInBudget
<1> QED
  BY <1>3, <1>7, <1>8, <1>10, <1>12, <1>13, <1>15 DEF IInv

\* A reservation, answered or not: the script ran for call c, and its row says
\* when it was first asked for.
Asked(c, now) ==
  /\ calls[c].phase \in Reserving
  /\ now \in Readings(c)
  /\ RunAdmission(c, now)
  /\ UNCHANGED clock

LEMMA SubjectType ==
  ASSUME Types, CallsAreDated, NEW c \in Call, calls[c].phase \in Reserving
  PROVE  /\ SubjectOf(c) \in Subject
         /\ calls[c].phase = "address" =>
              SubjectOf(c) = calls[c].email /\ SubjectOf(c) \in Email
         /\ calls[c].phase = "application" => SubjectOf(c) = Application
  BY DEF SubjectOf, CallsAreDated, Reserving, Subject

LEMMA ReadingType ==
  ASSUME Types, NEW c \in Call, NEW now \in Readings(c)
  PROVE  now \in Time /\ clock - Lag <= now /\ now <= clock
  BY DEF Readings

LEMMA SentType ==
  ASSUME Types, NEW c \in Call, calls[c].phase \in Reserving, NEW now \in Time
  PROVE  /\ Sent(c, now) \in [Call -> CallRow]
         /\ [Sent(c, now) EXCEPT ![c].lost = TRUE] \in [Call -> CallRow]
         /\ [Sent(c, now) EXCEPT ![c].phase = After(c)] \in [Call -> CallRow]
<1>1. calls \in [Call -> CallRow]
  BY DEF Types
<1>2. Sent(c, now) \in [Call -> CallRow]
  BY <1>1 DEF Sent, CallRow
<1>3. After(c) \in Phase
  BY DEF After, Phase, Reserving
<1> HIDE DEF Sent
<1>4. [Sent(c, now) EXCEPT ![c].lost = TRUE] \in [Call -> CallRow]
  BY <1>2 DEF CallRow
<1>5. [Sent(c, now) EXCEPT ![c].phase = After(c)] \in [Call -> CallRow]
  BY <1>2, <1>3 DEF CallRow
<1> QED
  BY <1>2, <1>4, <1>5

LEMMA EndedType == \A lost \in BOOLEAN : Ended(lost) \in CallRow
  BY DEF Ended, IdleCall, CallRow, Phase, Reserving

LEMMA TypesStep == IInv /\ [Next]_vars => Types'
<1> SUFFICES ASSUME IInv, [Next]_vars PROVE Types'
  OBVIOUS
<1>0. Types /\ SetsAreBounded /\ CallsAreDated
  BY DEF IInv
<1>a. /\ clock \in Time /\ window \in [Subject -> SUBSET Entry]
      /\ armed \in [Subject -> Time \cup {None}] /\ calls \in [Call -> CallRow]
  BY <1>0 DEF Types
<1>b. ASSUME NEW c \in Call, NEW now \in Time, Asked(c, now)
      PROVE  /\ clock' \in Time
             /\ window' \in [Subject -> SUBSET Entry]
             /\ armed' \in [Subject -> Time \cup {None}]
  <2>1. Recorded(c, SubjectOf(c), now) \in SUBSET Entry
    BY <1>0, <1>b, SubjectType, RecordedIsBounded DEF Asked
  <2> QED
    BY <1>a, <1>b, <2>1 DEF Asked, RunAdmission
<1>1. CASE UNCHANGED vars
  BY <1>a, <1>1 DEF vars, Types
<1>2. CASE Tick
  <2>1. clock' \in Time
    BY <1>a, <1>2, ClockIsBounded DEF Tick, Time
  <2> QED
    BY <1>a, <1>2, <2>1 DEF Tick, Types
<1>3. ASSUME NEW c \in Call, NEW email \in Email, Begin(c, email)
      PROVE  Types'
  <2>1. calls' \in [Call -> CallRow]
    BY ZenonT(40), <1>a, <1>3 DEF Begin, CallRow, Phase, Reserving
  <2> QED
    BY <1>a, <1>3, <2>1 DEF Begin, Types
<1>4. ASSUME NEW c \in Call, NEW now \in Time, Reserve(c, now)
      PROVE  Types'
  <2>1. Asked(c, now)
    BY <1>4 DEF Asked, Reserve
  <2>2. calls[c].lost \in BOOLEAN /\ calls[c].phase \in Reserving
    BY <1>a, <1>4 DEF CallRow, Reserve
  <2>3. CASE Admitted(SubjectOf(c), now)
    <3>1. calls' = [Sent(c, now) EXCEPT ![c].phase = After(c)]
      BY <1>4, <2>3 DEF Reserve
    <3>2. calls' \in [Call -> CallRow]
      BY <1>0, <2>2, <3>1, SentType
    <3> QED
      BY <1>b, <2>1, <3>2 DEF Types
  <2>4. CASE ~Admitted(SubjectOf(c), now)
    <3>1. calls' = [calls EXCEPT ![c] = Ended(calls[c].lost)]
      BY <1>4, <2>4 DEF Reserve
    <3>2. calls' \in [Call -> CallRow]
      BY <1>a, <2>2, <3>1, EndedType
    <3> QED
      BY <1>b, <2>1, <3>2 DEF Types
  <2> QED
    BY <2>3, <2>4
<1>5. ASSUME NEW c \in Call, NEW now \in Time, ReserveUnheard(c, now)
      PROVE  Types'
  <2>1. Asked(c, now)
    BY <1>5 DEF Asked, ReserveUnheard
  <2>2. calls' \in [Call -> CallRow]
    BY <1>0, <1>5, SentType DEF ReserveUnheard
  <2> QED
    BY <1>b, <2>1, <2>2 DEF Types
<1>6. ASSUME NEW c \in Call, Issue(c) \/ Deliver(c)
      PROVE  Types'
  <2>1. calls' \in [Call -> CallRow]
    BY <1>a, <1>6 DEF Issue, Deliver, CallRow, Phase, Reserving
  <2> QED
    BY <1>a, <1>6, <2>1 DEF Issue, Deliver, Types
<1>7. ASSUME NEW c \in Call, Refund(c)
      PROVE  Types'
  <2>1. calls' \in [Call -> CallRow]
    BY <1>a, <1>7, EndedType DEF Refund, CallRow
  <2>2. window' \in [Subject -> SUBSET Entry]
    <3>1. {e \in window[Application] : e.call # c} \in SUBSET Entry
      BY <1>a DEF Subject
    <3> QED
      BY <1>a, <1>7, <3>1 DEF Refund, Subject
  <2> QED
    BY <1>a, <1>7, <2>1, <2>2 DEF Refund, Types
<1>8. ASSUME NEW c \in Call, Abandon(c)
      PROVE  Types'
  <2>1. calls' \in [Call -> CallRow]
    BY <1>a, <1>8, EndedType DEF Abandon
  <2> QED
    BY <1>a, <1>8, <2>1 DEF Abandon, Types
<1> QED
  BY <1>1, <1>2, <1>3, <1>4, <1>5, <1>6, <1>7, <1>8 DEF Next

\* One script ran for call c, on a set within its maximum.
LEMMA AdmissionBounds ==
  ASSUME IInv, NEW c \in Call, NEW now \in Time, Asked(c, now)
  PROVE  SetsAreBounded' /\ ExpiryIsLate'
<1> DEFINE s == SubjectOf(c)
<1>0. Types /\ SetsAreBounded /\ ExpiryIsLate /\ CallsAreDated
  BY DEF IInv
<1>1. s \in Subject
  BY <1>0, SubjectType DEF Asked
<1>2. /\ IsFiniteSet(Recorded(c, s, now))
      /\ Cardinality(Recorded(c, s, now)) <= MaxOf(s)
  BY <1>0, <1>1, RecordedIsBounded
<1>3. /\ window' = [window EXCEPT ![s] = Recorded(c, s, now)]
      /\ armed' = [armed EXCEPT ![s] = IF Pruned(s, now) = {} THEN None ELSE clock]
      /\ clock' = clock
  BY DEF Asked, RunAdmission
<1>4. /\ window \in [Subject -> SUBSET Entry] /\ armed \in [Subject -> Time \cup {None}]
      /\ clock \in Time
  BY <1>0 DEF Types
<1>5. \A e \in Recorded(c, s, now) : e.at <= clock
  <2>1. \A e \in window[s] : e.at <= clock
    BY <1>0, <1>1, <1>4 DEF ExpiryIsLate, Entry, Time
  <2>2. now <= clock
    BY <1>0, ReadingType DEF Asked
  <2> QED
    BY <2>1, <2>2 DEF Recorded, Pruned, Held
<1>6. SetsAreBounded'
  BY <1>0, <1>2, <1>3, <1>4 DEF SetsAreBounded, MaxOf
<1>7. ExpiryIsLate'
  <2> SUFFICES ASSUME NEW t \in Subject
               PROVE  /\ \A e \in window'[t] : e.at <= clock
                      /\ armed'[t] # None =>
                           /\ armed'[t] <= clock
                           /\ \A e \in window'[t] : e.at <= armed'[t]
    BY <1>3 DEF ExpiryIsLate
  <2>1. CASE t = s
    BY <1>1, <1>3, <1>4, <1>5, <2>1 DEF Time
  <2>2. CASE t # s
    BY <1>0, <1>1, <1>3, <1>4, <2>2 DEF ExpiryIsLate
  <2> QED
    BY <2>1, <2>2
<1> QED
  BY <1>6, <1>7

LEMMA BoundsStep == IInv /\ [Next]_vars => SetsAreBounded' /\ ExpiryIsLate'
<1> SUFFICES ASSUME IInv, [Next]_vars PROVE SetsAreBounded' /\ ExpiryIsLate'
  OBVIOUS
<1>0. Types /\ SetsAreBounded /\ ExpiryIsLate
  BY DEF IInv
<1>1. ASSUME window' = window, armed' = armed, clock' \in Time, clock <= clock'
      PROVE  SetsAreBounded' /\ ExpiryIsLate'
  <2>1. SetsAreBounded'
    BY <1>0, <1>1 DEF SetsAreBounded, MaxOf
  <2>2. ExpiryIsLate'
    <3>1. \A t \in Subject : \A e \in window[t] : e.at <= clock'
      BY <1>0, <1>1 DEF ExpiryIsLate, Types, Entry, Time
    <3>2. \A t \in Subject : armed[t] # None => armed[t] <= clock'
      BY <1>0, <1>1 DEF ExpiryIsLate, Types, Time
    <3> QED
      BY <1>0, <1>1, <3>1, <3>2 DEF ExpiryIsLate
  <2> QED
    BY <2>1, <2>2
<1>2. clock \in Time /\ clock <= clock
  BY <1>0 DEF Types, Time
<1>3. CASE UNCHANGED vars
  BY <1>1, <1>2, <1>3 DEF vars
<1>4. CASE Tick
  <2>1. clock' \in Time /\ clock <= clock'
    BY <1>2, <1>4, ClockIsBounded DEF Tick, Time
  <2> QED
    BY <1>1, <1>4, <2>1 DEF Tick
<1>5. ASSUME NEW c \in Call,
             Issue(c) \/ Deliver(c) \/ Abandon(c) \/ \E email \in Email : Begin(c, email)
      PROVE  SetsAreBounded' /\ ExpiryIsLate'
  BY <1>1, <1>2, <1>5 DEF Issue, Deliver, Abandon, Begin
<1>6. ASSUME NEW c \in Call, NEW now \in Time,
             Reserve(c, now) \/ ReserveUnheard(c, now)
      PROVE  SetsAreBounded' /\ ExpiryIsLate'
  <2>1. Asked(c, now)
    BY <1>6 DEF Reserve, ReserveUnheard, Asked
  <2> QED
    BY <2>1, AdmissionBounds
<1>7. ASSUME NEW c \in Call, Refund(c)
      PROVE  SetsAreBounded' /\ ExpiryIsLate'
  <2>1. \A s \in Subject : window'[s] \in SUBSET window[s]
    BY <1>0, <1>7 DEF Refund, Types
  <2>2. SetsAreBounded'
    <3> SUFFICES ASSUME NEW s \in Subject
                 PROVE  IsFiniteSet(window'[s]) /\ Cardinality(window'[s]) <= MaxOf(s)
      BY DEF SetsAreBounded, MaxOf
    <3>1. IsFiniteSet(window[s]) /\ Cardinality(window[s]) <= MaxOf(s)
      BY <1>0 DEF SetsAreBounded
    <3>2. IsFiniteSet(window'[s]) /\ Cardinality(window'[s]) <= Cardinality(window[s])
      BY <2>1, <3>1, FS_Subset
    <3>3. Cardinality(window[s]) \in Nat /\ Cardinality(window'[s]) \in Nat
      BY <3>1, <3>2, FS_CardinalityType
    <3>4. MaxOf(s) \in Nat
      BY MaxIsPositive
    <3> QED
      BY <3>1, <3>2, <3>3, <3>4
  <2>3. ExpiryIsLate'
    BY <1>0, <1>7, <2>1 DEF Refund, ExpiryIsLate
  <2> QED
    BY <2>2, <2>3
<1> QED
  BY <1>3, <1>4, <1>5, <1>6, <1>7 DEF Next

-----------------------------------------------------------------------------
(***************************************************************************)
(* What a step does to the charges.                                        *)
(***************************************************************************)

\* Only the row of c changed.
OnlyRow(c) == \A d \in Call \ {c} : calls'[d] = calls[d]

\* What the row of c says after a reservation's answer, and without it.
LEMMA ReservedRow ==
  ASSUME Types, NEW c \in Call, NEW now \in Time, Reserve(c, now)
  PROVE  /\ OnlyRow(c)
         /\ calls'[c].lost = calls[c].lost
         /\ ~Admitted(SubjectOf(c), now) =>
              calls'[c].phase = "done" /\ calls'[c].email = None
         /\ Admitted(SubjectOf(c), now) =>
              /\ calls'[c].phase = After(c)
              /\ calls'[c].email = calls[c].email
              /\ calls[c].phase = "address" => calls'[c].addressAt = now
              /\ calls[c].phase = "application" =>
                   /\ calls'[c].addressAt = calls[c].addressAt
                   /\ calls'[c].applicationAt = now
<1>1. calls \in [Call -> CallRow]
  BY DEF Types
<1>2. CASE Admitted(SubjectOf(c), now)
  <2>1. calls' = [Sent(c, now) EXCEPT ![c].phase = After(c)]
    BY <1>2 DEF Reserve
  <2>2. calls[c].phase \in {"address", "application"}
    BY DEF Reserve, Reserving
  <2> QED
    BY <1>1, <1>2, <2>1, <2>2 DEF Sent, CallRow, OnlyRow
<1>3. CASE ~Admitted(SubjectOf(c), now)
  <2>1. calls' = [calls EXCEPT ![c] = Ended(calls[c].lost)]
    BY <1>3 DEF Reserve
  <2> QED
    BY <1>1, <1>3, <2>1 DEF Ended, IdleCall, OnlyRow
<1> QED
  BY <1>2, <1>3

LEMMA UnheardRow ==
  ASSUME Types, NEW c \in Call, NEW now \in Time, ReserveUnheard(c, now)
  PROVE  /\ OnlyRow(c)
         /\ calls'[c].lost = TRUE
         /\ calls'[c].phase = calls[c].phase
         /\ calls'[c].email = calls[c].email
         /\ calls[c].phase = "application" =>
              calls'[c].addressAt = calls[c].addressAt
<1>1. calls \in [Call -> CallRow]
  BY DEF Types
<1> QED
  BY <1>1 DEF ReserveUnheard, Sent, CallRow, OnlyRow, Reserving

\* ... and after every other step of c.
LEMMA OtherRows ==
  ASSUME Types, NEW c \in Call
  PROVE  /\ \A email \in Email : Begin(c, email) =>
              /\ OnlyRow(c) /\ calls'[c].phase = "address"
              /\ calls'[c].email = email /\ calls'[c].lost = calls[c].lost
         /\ Issue(c) \/ Deliver(c) =>
              /\ OnlyRow(c)
              /\ calls'[c].phase \in {"sending", "refunding", "mailed"}
              /\ calls'[c].email = calls[c].email
              /\ calls'[c].addressAt = calls[c].addressAt
              /\ calls'[c].applicationAt = calls[c].applicationAt
              /\ calls'[c].lost = calls[c].lost
         /\ Refund(c) =>
              /\ OnlyRow(c) /\ calls'[c].phase = "done"
              /\ calls'[c].email = None /\ calls'[c].lost = calls[c].lost
         /\ Abandon(c) =>
              /\ OnlyRow(c) /\ calls'[c].phase = "done"
              /\ calls'[c].email = None /\ calls'[c].lost = TRUE
<1>1. calls \in [Call -> CallRow]
  BY DEF Types
<1>2. ASSUME NEW email \in Email, Begin(c, email)
      PROVE  /\ OnlyRow(c) /\ calls'[c].phase = "address"
             /\ calls'[c].email = email /\ calls'[c].lost = calls[c].lost
  BY <1>1, <1>2 DEF Begin, OnlyRow, CallRow
<1>3. ASSUME Issue(c) \/ Deliver(c)
      PROVE  /\ OnlyRow(c)
             /\ calls'[c].phase \in {"sending", "refunding", "mailed"}
             /\ calls'[c].email = calls[c].email
             /\ calls'[c].addressAt = calls[c].addressAt
             /\ calls'[c].applicationAt = calls[c].applicationAt
             /\ calls'[c].lost = calls[c].lost
  BY <1>1, <1>3 DEF Issue, Deliver, OnlyRow, CallRow
<1>4. ASSUME NEW lost \in BOOLEAN, calls' = [calls EXCEPT ![c] = Ended(lost)]
      PROVE  /\ OnlyRow(c) /\ calls'[c].phase = "done"
             /\ calls'[c].email = None /\ calls'[c].lost = lost
  BY <1>1, <1>4 DEF Ended, IdleCall, OnlyRow
<1>5. calls[c].lost \in BOOLEAN
  BY <1>1 DEF CallRow
<1>6. Refund(c) => /\ OnlyRow(c) /\ calls'[c].phase = "done"
                   /\ calls'[c].email = None /\ calls'[c].lost = calls[c].lost
  BY <1>4, <1>5 DEF Refund
<1>7. Abandon(c) => /\ OnlyRow(c) /\ calls'[c].phase = "done"
                    /\ calls'[c].email = None /\ calls'[c].lost = TRUE
  BY <1>4 DEF Abandon
<1> QED
  BY <1>2, <1>3, <1>6, <1>7

LEMMA DatesStep == IInv /\ [Next]_vars => CallsAreDated'
<1> SUFFICES ASSUME IInv, [Next]_vars PROVE CallsAreDated'
  OBVIOUS
<1>0. Types /\ CallsAreDated
  BY DEF IInv
<1>1. CASE UNCHANGED calls
  BY <1>0, <1>1 DEF CallsAreDated
<1>2. ASSUME NEW c \in Call, NEW email \in Email, Begin(c, email)
      PROVE  CallsAreDated'
  BY ZenonT(40), <1>0, <1>2, OtherRows DEF CallsAreDated, OnlyRow
<1>3. ASSUME NEW c \in Call, NEW now \in Time, Reserve(c, now)
      PROVE  CallsAreDated'
  <2>1. calls[c].phase \in {"address", "application"}
    BY <1>3 DEF Reserve, Reserving
  <2> QED
    BY <1>0, <1>3, <2>1, ReservedRow DEF After, CallsAreDated, OnlyRow
<1>4. ASSUME NEW c \in Call, NEW now \in Time, ReserveUnheard(c, now)
      PROVE  CallsAreDated'
  <2>1. calls[c].phase \in {"address", "application"}
    BY <1>4 DEF ReserveUnheard, Reserving
  <2>2. /\ OnlyRow(c)
        /\ calls'[c].phase = calls[c].phase /\ calls'[c].email = calls[c].email
        /\ calls[c].phase = "application" =>
             calls'[c].addressAt = calls[c].addressAt
    BY <1>0, <1>4, UnheardRow
  <2> QED
    BY <1>0, <2>1, <2>2 DEF CallsAreDated, OnlyRow
<1>5. ASSUME NEW c \in Call, Issue(c) \/ Deliver(c)
      PROVE  CallsAreDated'
  BY <1>0, <1>5, OtherRows DEF Issue, Deliver, CallsAreDated, OnlyRow
<1>6. ASSUME NEW c \in Call, Refund(c) \/ Abandon(c)
      PROVE  CallsAreDated'
  BY <1>0, <1>6, OtherRows DEF CallsAreDated, OnlyRow
<1>7. Tick => UNCHANGED calls
  BY DEF Tick
<1> QED
  BY <1>1, <1>2, <1>3, <1>4, <1>5, <1>6, <1>7 DEF Next, vars

LEMMA OwnersStep == IInv /\ [Next]_vars => OwnersAreKnown'
<1> SUFFICES ASSUME IInv, [Next]_vars PROVE OwnersAreKnown'
  OBVIOUS
<1> DEFINE Owned(d) ==
      \/ calls[d].phase \in {"issuing", "sending", "refunding", "mailed"}
      \/ calls[d].lost
<1>0. /\ Types /\ CallsAreDated /\ OwnersAreKnown
      /\ window[Application] \in SUBSET Entry
  BY DEF IInv, Types, Subject
<1>a. ASSUME NEW c \in Call, OnlyRow(c), window' = window, Owned(c) => Owned(c)'
      PROVE  OwnersAreKnown'
  <2>1. \A d \in Call : Owned(d) => Owned(d)'
    BY <1>a DEF OnlyRow
  <2> QED
    BY <1>0, <1>a, <2>1 DEF OwnersAreKnown, Entry
<1>b. ASSUME NEW c \in Call, NEW now \in Time, Asked(c, now), OnlyRow(c),
             Owned(c) => Owned(c)',
             (SubjectOf(c) = Application /\ Admitted(Application, now)) =>
               Owned(c)'
      PROVE  OwnersAreKnown'
  <2>1. \A d \in Call : Owned(d) => Owned(d)'
    BY <1>b DEF OnlyRow
  <2>2. window'[Application] \in
          SUBSET (window[Application] \cup
                    (IF SubjectOf(c) = Application /\ Admitted(Application, now)
                     THEN {[call |-> c, at |-> now]} ELSE {}))
    BY <1>0, <1>b
       DEF Asked, RunAdmission, Recorded, Pruned, Held, Subject, Types
  <2> QED
    BY <1>0, <1>b, <2>1, <2>2 DEF OwnersAreKnown, Entry
<1>1. CASE UNCHANGED <<calls, window>>
  BY <1>0, <1>1 DEF OwnersAreKnown
<1>2. ASSUME NEW c \in Call, NEW email \in Email, Begin(c, email)
      PROVE  OwnersAreKnown'
  <2>1. OnlyRow(c) /\ calls'[c].lost = calls[c].lost
    BY <1>0, <1>2, OtherRows
  <2> QED
    BY <1>a, <1>2, <2>1 DEF Begin
<1>3. ASSUME NEW c \in Call, NEW now \in Time, Reserve(c, now)
      PROVE  OwnersAreKnown'
  <2>1. Asked(c, now)
    BY <1>3 DEF Asked, Reserve
  <2>2. OnlyRow(c) /\ calls'[c].lost = calls[c].lost
    BY <1>0, <1>3, ReservedRow
  <2>3. Owned(c) => Owned(c)'
    BY <1>3, <2>2 DEF Reserve, Reserving
  <2>4. ASSUME SubjectOf(c) = Application, Admitted(Application, now)
        PROVE  Owned(c)'
    <3>1. calls[c].phase = "application"
      BY <1>0, <2>1, <2>4, SubjectType, ApplicationIsNoEmail DEF Asked, Reserving
    <3>2. calls'[c].phase = "issuing"
      BY <1>0, <1>3, <2>4, <3>1, ReservedRow DEF After
    <3> QED
      BY <3>2
  <2> HIDE DEF Owned
  <2> QED
    BY <1>b, <2>1, <2>2, <2>3, <2>4
<1>4. ASSUME NEW c \in Call, NEW now \in Time, ReserveUnheard(c, now)
      PROVE  OwnersAreKnown'
  <2>1. Asked(c, now)
    BY <1>4 DEF Asked, ReserveUnheard
  <2>2. OnlyRow(c) /\ calls'[c].lost = TRUE
    BY <1>0, <1>4, UnheardRow
  <2> QED
    BY <1>b, <2>1, <2>2
<1>5. ASSUME NEW c \in Call, Issue(c) \/ Deliver(c)
      PROVE  OwnersAreKnown'
  <2>1. OnlyRow(c) /\ calls'[c].phase \in {"sending", "refunding", "mailed"}
    BY <1>0, <1>5, OtherRows
  <2> QED
    BY <1>a, <1>5, <2>1 DEF Issue, Deliver
<1>6. ASSUME NEW c \in Call, Refund(c)
      PROVE  OwnersAreKnown'
  <2>1. OnlyRow(c)
    BY <1>0, <1>6, OtherRows
  <2>2. window'[Application] = {e \in window[Application] : e.call # c}
    BY <1>0, <1>6 DEF Refund, Types, Subject
  <2> QED
    BY <1>0, <2>1, <2>2 DEF OwnersAreKnown, OnlyRow, Entry
<1>7. ASSUME NEW c \in Call, Abandon(c)
      PROVE  OwnersAreKnown'
  <2>1. OnlyRow(c) /\ calls'[c].lost = TRUE
    BY <1>0, <1>7, OtherRows
  <2> QED
    BY <1>a, <1>7, <2>1 DEF Abandon
<1>8. Tick => UNCHANGED <<calls, window>>
  BY DEF Tick
<1> QED
  BY <1>1, <1>2, <1>3, <1>4, <1>5, <1>6, <1>7, <1>8 DEF Next, vars

-----------------------------------------------------------------------------
(***************************************************************************)
(* The budget.                                                             *)
(***************************************************************************)

LEMMA ChargedAt ==
  ASSUME Types, CallsAreDated, NEW s \in Subject, NEW d \in Charged(s)
  PROVE  d \in Call /\ At(d, s) \in Time
  BY DEF Charged, At, CallsAreDated

\* A step that adds no charge and moves none keeps the bound.
LEMMA FewerCharges ==
  ASSUME ChargesStayInBudget,
         \A s \in Subject : \A d \in Charged(s)' :
           d \in Charged(s) /\ At(d, s)' = At(d, s)
  PROVE  ChargesStayInBudget'
<1> SUFFICES ASSUME NEW s \in Subject, NEW from \in Time
             PROVE  Cardinality(ChargedFrom(s, from)') <= MaxOf(s)
  BY DEF ChargesStayInBudget, MaxOf
<1>1. ChargedFrom(s, from)' \in SUBSET ChargedFrom(s, from)
  BY DEF ChargedFrom
<1>2. IsFiniteSet(ChargedFrom(s, from))
  BY CallsAreFinite, FS_Subset DEF ChargedFrom, Charged
<1>3. /\ IsFiniteSet(ChargedFrom(s, from)')
      /\ Cardinality(ChargedFrom(s, from)') <= Cardinality(ChargedFrom(s, from))
  BY <1>1, <1>2, FS_Subset
<1>4. Cardinality(ChargedFrom(s, from)) <= MaxOf(s)
  BY DEF ChargesStayInBudget
<1>5. /\ Cardinality(ChargedFrom(s, from)) \in Nat
      /\ Cardinality(ChargedFrom(s, from)') \in Nat /\ MaxOf(s) \in Nat
  BY <1>2, <1>3, FS_CardinalityType, MaxIsPositive
<1> QED
  BY <1>3, <1>4, <1>5

\* What one answered reservation charges: its own call, on its own subject.
LEMMA NewCharge ==
  ASSUME Types, CallsAreDated, NEW c \in Call, NEW now \in Time,
         Reserve(c, now), NEW s \in Subject, NEW d \in Charged(s)'
  PROVE  \/ d \in Charged(s) /\ At(d, s)' = At(d, s)
         \/ /\ d = c /\ s = SubjectOf(c) /\ At(d, s)' = now
            /\ Admitted(s, now)
<1>0. calls[c].phase \in {"address", "application"}
  BY DEF Reserve, Reserving
<1>1. OnlyRow(c) /\ d \in Call
  BY ReservedRow DEF Charged
<1>2. CASE d # c
  BY <1>1, <1>2 DEF OnlyRow, Charged, At
<1>3. CASE d = c /\ ~Admitted(SubjectOf(c), now)
  <2>1. calls'[c].phase = "done"
    BY <1>3, ReservedRow
  <2> QED
    BY <1>3, <2>1 DEF Charged
<1>4. CASE d = c /\ Admitted(SubjectOf(c), now) /\ calls[c].phase = "address"
  <2>1. /\ calls'[c].phase = "application" /\ calls'[c].addressAt = now
        /\ calls'[c].email = calls[c].email
    BY <1>4, ReservedRow DEF After
  <2>2. s # Application /\ s = calls[c].email
    BY <1>4, <2>1 DEF Charged
  <2>3. SubjectOf(c) = s
    BY <1>4, <2>2 DEF SubjectOf
  <2> QED
    BY <1>4, <2>1, <2>2, <2>3 DEF At
<1>5. CASE d = c /\ Admitted(SubjectOf(c), now) /\ calls[c].phase = "application"
  <2>1. /\ calls'[c].phase = "issuing" /\ calls'[c].applicationAt = now
        /\ calls'[c].addressAt = calls[c].addressAt
        /\ calls'[c].email = calls[c].email
    BY <1>5, ReservedRow DEF After
  <2>2. SubjectOf(c) = Application
    BY <1>5 DEF SubjectOf
  <2>3. CASE s = Application
    BY <1>5, <2>1, <2>2, <2>3 DEF At
  <2>4. CASE s # Application
    BY <1>5, <2>1, <2>4 DEF Charged, At
  <2> QED
    BY <2>3, <2>4
<1> QED
  BY <1>0, <1>2, <1>3, <1>4, <1>5

\* Every other step of a call charges nothing.
LEMMA UnheardCharges ==
  ASSUME Types, CallsAreDated, NEW c \in Call, NEW now \in Time,
         ReserveUnheard(c, now), NEW s \in Subject, NEW d \in Charged(s)'
  PROVE  d \in Charged(s) /\ At(d, s)' = At(d, s)
<1>1. /\ OnlyRow(c)
      /\ calls'[c].phase = calls[c].phase /\ calls'[c].email = calls[c].email
      /\ calls[c].phase = "application" =>
           calls'[c].addressAt = calls[c].addressAt
  BY UnheardRow
<1>2. calls[c].phase \in {"address", "application"}
  BY DEF ReserveUnheard, Reserving
<1> QED
  BY <1>1, <1>2 DEF OnlyRow, Charged, At

LEMMA LaterCharges ==
  ASSUME Types, CallsAreDated, NEW c \in Call,
         Issue(c) \/ Deliver(c) \/ Refund(c) \/ Abandon(c),
         NEW s \in Subject, NEW d \in Charged(s)'
  PROVE  d \in Charged(s) /\ At(d, s)' = At(d, s)
<1>1. CASE Issue(c) \/ Deliver(c)
  <2>1. /\ OnlyRow(c)
        /\ calls'[c].email = calls[c].email
        /\ calls'[c].addressAt = calls[c].addressAt
        /\ calls'[c].applicationAt = calls[c].applicationAt
    BY <1>1, OtherRows
  <2>2. calls[c].phase \in {"issuing", "sending"}
    BY <1>1 DEF Issue, Deliver
  <2> QED
    BY <2>1, <2>2 DEF OnlyRow, Charged, At
<1>2. CASE Refund(c) \/ Abandon(c)
  <2>1. OnlyRow(c) /\ calls'[c].phase = "done"
    BY <1>2, OtherRows
  <2> QED
    BY <2>1 DEF OnlyRow, Charged, At
<1> QED
  BY <1>1, <1>2

\* A step that prunes and records for c loses no young place of another call.
LEMMA PlacesSurvive ==
  ASSUME IInv, NEW c \in Call, NEW now \in Time, Asked(c, now),
         NEW s \in Subject, NEW d \in Charged(s), At(d, s) > clock - Window
  PROVE  [call |-> d, at |-> At(d, s)] \in window'[s]
<1>0. Types /\ ExpiryIsLate /\ CallsAreDated /\ PlacesAreKept
  BY DEF IInv
<1> DEFINE e == [call |-> d, at |-> At(d, s)]
<1>1. e \in window[s] /\ e.at = At(d, s)
  BY <1>0 DEF PlacesAreKept
<1>2. window' = [window EXCEPT ![SubjectOf(c)] = Recorded(c, SubjectOf(c), now)]
  BY DEF Asked, RunAdmission
<1>3. CASE s = SubjectOf(c)
  <2>1. now <= clock
    BY <1>0, ReadingType DEF Asked
  <2>2. e \in Pruned(s, now)
    <3> HIDE DEF e
    <3> QED
      BY <1>0, <1>1, <2>1, OnlyTheOldArePruned
  <2>3. e \in Recorded(c, s, now)
    BY <2>2 DEF Recorded
  <2> QED
    BY <1>0, <1>2, <1>3, <2>3 DEF Types
<1>4. CASE s # SubjectOf(c)
  BY <1>0, <1>1, <1>2, <1>4 DEF Types
<1> QED
  BY <1>3, <1>4

LEMMA PlacesStep == IInv /\ [Next]_vars => PlacesAreKept'
<1> SUFFICES ASSUME IInv, [Next]_vars PROVE PlacesAreKept'
  OBVIOUS
<1>0. Types /\ ExpiryIsLate /\ CallsAreDated /\ PlacesAreKept
  BY DEF IInv
<1>a. ASSUME \A s \in Subject : \A d \in Charged(s)' :
               d \in Charged(s) /\ At(d, s)' = At(d, s),
             clock' \in Time, clock <= clock',
             \A s \in Subject : \A d \in Charged(s)' : \A at \in Time :
               [call |-> d, at |-> at] \in window[s] =>
                 [call |-> d, at |-> at] \in window'[s]
      PROVE  PlacesAreKept'
  <2> SUFFICES ASSUME NEW s \in Subject, NEW d \in Charged(s)',
                      At(d, s)' > clock' - Window
               PROVE  [call |-> d, at |-> At(d, s)'] \in window'[s]
    BY DEF PlacesAreKept
  <2>1. d \in Charged(s) /\ At(d, s)' = At(d, s) /\ At(d, s) \in Time
    BY <1>0, <1>a, ChargedAt
  <2>2. At(d, s) > clock - Window
    BY <1>0, <1>a, <2>1, PoliciesAreValid DEF Types, Time
  <2>3. [call |-> d, at |-> At(d, s)] \in window[s]
    BY <1>0, <2>1, <2>2 DEF PlacesAreKept
  <2> QED
    BY <1>a, <2>1, <2>3
<1>b. clock \in Time /\ clock <= clock
  BY <1>0 DEF Types, Time
<1>1. CASE UNCHANGED vars
  <2>1. \A s \in Subject : \A d \in Charged(s)' :
          d \in Charged(s) /\ At(d, s)' = At(d, s)
    BY <1>1 DEF vars, Charged, At
  <2> QED
    BY <1>a, <1>b, <1>1, <2>1 DEF vars
<1>2. CASE Tick
  <2>1. \A s \in Subject : \A d \in Charged(s)' :
          d \in Charged(s) /\ At(d, s)' = At(d, s)
    BY <1>2 DEF Tick, Charged, At
  <2>2. clock' \in Time /\ clock <= clock'
    BY <1>b, <1>2, ClockIsBounded DEF Tick, Time
  <2> QED
    BY <1>a, <1>2, <2>1, <2>2 DEF Tick
<1>3. ASSUME NEW c \in Call, NEW email \in Email, Begin(c, email)
      PROVE  PlacesAreKept'
  <2>1. OnlyRow(c) /\ calls'[c].phase = "address"
    BY <1>0, <1>3, OtherRows
  <2>2. \A s \in Subject : \A d \in Charged(s)' :
          d \in Charged(s) /\ At(d, s)' = At(d, s)
    BY <2>1 DEF OnlyRow, Charged, At
  <2> QED
    BY <1>a, <1>b, <1>3, <2>2 DEF Begin
<1>4. ASSUME NEW c \in Call, NEW now \in Time, Reserve(c, now)
      PROVE  PlacesAreKept'
  <2> SUFFICES ASSUME NEW s \in Subject, NEW d \in Charged(s)',
                      At(d, s)' > clock' - Window
               PROVE  [call |-> d, at |-> At(d, s)'] \in window'[s]
    BY DEF PlacesAreKept
  <2>1. Asked(c, now) /\ clock' = clock
    BY <1>4 DEF Asked, Reserve
  <2>2. CASE d \in Charged(s) /\ At(d, s)' = At(d, s)
    BY <2>1, <2>2, PlacesSurvive
  <2>3. CASE d = c /\ s = SubjectOf(c) /\ At(d, s)' = now /\ Admitted(s, now)
    BY <1>0, <2>1, <2>3 DEF Asked, RunAdmission, Recorded, Types
  <2> QED
    BY <1>0, <1>4, <2>2, <2>3, NewCharge
<1>5. ASSUME NEW c \in Call, NEW now \in Time, ReserveUnheard(c, now)
      PROVE  PlacesAreKept'
  <2> SUFFICES ASSUME NEW s \in Subject, NEW d \in Charged(s)',
                      At(d, s)' > clock' - Window
               PROVE  [call |-> d, at |-> At(d, s)'] \in window'[s]
    BY DEF PlacesAreKept
  <2>1. Asked(c, now) /\ clock' = clock
    BY <1>5 DEF Asked, ReserveUnheard
  <2>2. d \in Charged(s) /\ At(d, s)' = At(d, s)
    BY <1>0, <1>5, UnheardCharges
  <2> QED
    BY <2>1, <2>2, PlacesSurvive
<1>6. ASSUME NEW c \in Call, Issue(c) \/ Deliver(c) \/ Abandon(c)
      PROVE  PlacesAreKept'
  <2>1. \A s \in Subject : \A d \in Charged(s)' :
          d \in Charged(s) /\ At(d, s)' = At(d, s)
    BY <1>0, <1>6, LaterCharges
  <2> QED
    BY <1>a, <1>b, <1>6, <2>1 DEF Issue, Deliver, Abandon
<1>7. ASSUME NEW c \in Call, Refund(c)
      PROVE  PlacesAreKept'
  <2>1. \A s \in Subject : \A d \in Charged(s)' :
          d \in Charged(s) /\ At(d, s)' = At(d, s)
    BY <1>0, <1>7, LaterCharges
  <2>2. c \notin Charged(Application)'
    BY <1>0, <1>7, OtherRows DEF Charged
  <2>3. \A s \in Subject : \A d \in Charged(s)' : \A at \in Time :
          [call |-> d, at |-> at] \in window[s] =>
            [call |-> d, at |-> at] \in window'[s]
    BY <1>0, <1>7, <2>2 DEF Refund, Types
  <2> QED
    BY <1>a, <1>b, <1>7, <2>1, <2>3 DEF Refund
<1> QED
  BY <1>1, <1>2, <1>3, <1>4, <1>5, <1>6, <1>7 DEF Next

\* All the charges of a stretch that ends with a new admission are still
\* members of the set, which is within its maximum.
LEMMA ReserveKeepsBudget ==
  ASSUME IInv, PlacesAreKept', SetsAreBounded', CallsAreDated', Types',
         NEW c \in Call, NEW now \in Time, Reserve(c, now)
  PROVE  ChargesStayInBudget'
<1>0. Types /\ CallsAreDated /\ ChargesStayInBudget
  BY DEF IInv
<1> SUFFICES ASSUME NEW s \in Subject, NEW from \in Time
             PROVE  Cardinality(ChargedFrom(s, from)') <= MaxOf(s)
  BY DEF ChargesStayInBudget, MaxOf
<1> DEFINE stretch == ChargedFrom(s, from)'
<1>1. IsFiniteSet(stretch)
  BY CallsAreFinite, FS_Subset DEF ChargedFrom, Charged
<1>2. CASE \A d \in stretch : d \in Charged(s) /\ At(d, s)' = At(d, s)
  <2>1. stretch \in SUBSET ChargedFrom(s, from)
    BY <1>2 DEF ChargedFrom
  <2>2. IsFiniteSet(ChargedFrom(s, from))
    BY CallsAreFinite, FS_Subset DEF ChargedFrom, Charged
  <2>3. Cardinality(stretch) <= Cardinality(ChargedFrom(s, from))
    BY <2>1, <2>2, FS_Subset
  <2>4. Cardinality(ChargedFrom(s, from)) <= MaxOf(s)
    BY <1>0 DEF ChargesStayInBudget
  <2>5. /\ Cardinality(ChargedFrom(s, from)) \in Nat
        /\ Cardinality(stretch) \in Nat /\ MaxOf(s) \in Nat
    BY <1>1, <2>2, FS_CardinalityType, MaxIsPositive
  <2> HIDE DEF stretch
  <2> QED
    BY <2>3, <2>4, <2>5 DEF stretch
<1>3. CASE \E d \in stretch : ~(d \in Charged(s) /\ At(d, s)' = At(d, s))
  <2>1. c \in stretch /\ At(c, s)' = now
    <3>1. PICK d \in stretch : ~(d \in Charged(s) /\ At(d, s)' = At(d, s))
      BY <1>3
    <3>2. d \in Charged(s)'
      BY DEF ChargedFrom
    <3>3. d = c /\ At(d, s)' = now
      BY <1>0, <3>1, <3>2, NewCharge
    <3> HIDE DEF stretch
    <3> QED
      BY <3>3
  <2>2. now \in Int /\ clock \in Int /\ clock' = clock /\ clock - Lag <= now
    BY <1>0, ReadingType DEF Reserve, Types, Time
  <2>3. now < from + Window - Lag
    BY <2>1 DEF ChargedFrom
  <2>4. ASSUME NEW d \in stretch
        PROVE  /\ d \in Charged(s)' /\ At(d, s)' \in Time
               /\ At(d, s)' > clock' - Window
    <3>1. d \in Charged(s)' /\ from <= At(d, s)'
      BY DEF ChargedFrom
    <3>2. At(d, s)' \in Time
      BY <3>1 DEF Charged, At, CallsAreDated
    <3>3. from \in Int /\ At(d, s)' \in Int /\ Window \in Int /\ Lag \in Int
      BY <3>2, PoliciesAreValid, LagIsTime DEF Time
    <3> QED
      BY <2>2, <2>3, <3>1, <3>2, <3>3
  <2> DEFINE place == [d \in stretch |-> [call |-> d, at |-> At(d, s)']]
  <2>5. \A d \in stretch : place[d] \in window'[s]
    BY <2>4 DEF PlacesAreKept
  <2>6. place \in Injection(stretch, window'[s])
    <3>1. place \in [stretch -> window'[s]]
      BY <2>5
    <3>2. \A d, f \in stretch : place[d] = place[f] => d = f
      BY DEF place
    <3> HIDE DEF place, stretch
    <3> QED
      BY <3>1, <3>2 DEF Injection, IsInjective
  <2>7. IsFiniteSet(window'[s]) /\ Cardinality(window'[s]) <= MaxOf(s)
    BY DEF SetsAreBounded, MaxOf
  <2> HIDE DEF place, stretch
  <2>8. Cardinality(stretch) <= Cardinality(window'[s])
    BY <2>6, <2>7, FS_Injection
  <2>9. /\ Cardinality(stretch) \in Nat /\ Cardinality(window'[s]) \in Nat
        /\ MaxOf(s) \in Nat
    BY <1>1, <2>7, FS_CardinalityType, MaxIsPositive
  <2> QED
    BY <2>7, <2>8, <2>9 DEF stretch
<1> QED
  BY <1>2, <1>3

LEMMA BudgetStep ==
  IInv /\ [Next]_vars /\ PlacesAreKept' /\ SetsAreBounded' /\ CallsAreDated'
       /\ Types' => ChargesStayInBudget'
<1> SUFFICES ASSUME IInv, [Next]_vars, PlacesAreKept', SetsAreBounded',
                    CallsAreDated', Types'
             PROVE  ChargesStayInBudget'
  OBVIOUS
<1>0. Types /\ CallsAreDated /\ ChargesStayInBudget
  BY DEF IInv
<1>1. CASE UNCHANGED calls
  <2>1. \A s \in Subject : \A d \in Charged(s)' :
          d \in Charged(s) /\ At(d, s)' = At(d, s)
    BY <1>1 DEF Charged, At
  <2> QED
    BY <1>0, <2>1, FewerCharges
<1>2. ASSUME NEW c \in Call, NEW email \in Email, Begin(c, email)
      PROVE  ChargesStayInBudget'
  <2>1. OnlyRow(c) /\ calls'[c].phase = "address"
    BY <1>0, <1>2, OtherRows
  <2>2. \A s \in Subject : \A d \in Charged(s)' :
          d \in Charged(s) /\ At(d, s)' = At(d, s)
    BY <2>1 DEF OnlyRow, Charged, At
  <2> QED
    BY <1>0, <2>2, FewerCharges
<1>3. ASSUME NEW c \in Call, NEW now \in Time, Reserve(c, now)
      PROVE  ChargesStayInBudget'
  BY <1>3, ReserveKeepsBudget
<1>4. ASSUME NEW c \in Call, NEW now \in Time, ReserveUnheard(c, now)
      PROVE  ChargesStayInBudget'
  BY <1>0, <1>4, UnheardCharges, FewerCharges
<1>5. ASSUME NEW c \in Call, Issue(c) \/ Deliver(c) \/ Refund(c) \/ Abandon(c)
      PROVE  ChargesStayInBudget'
  BY <1>0, <1>5, LaterCharges, FewerCharges
<1>6. Tick => UNCHANGED calls
  BY DEF Tick
<1> QED
  BY <1>1, <1>2, <1>3, <1>4, <1>5, <1>6 DEF Next, vars

LEMMA IInvStep == IInv /\ [Next]_vars => IInv'
<1> SUFFICES ASSUME IInv, [Next]_vars PROVE IInv'
  OBVIOUS
<1>1. Types'
  BY TypesStep
<1>2. SetsAreBounded' /\ ExpiryIsLate'
  BY BoundsStep
<1>3. CallsAreDated'
  BY DatesStep
<1>4. OwnersAreKnown'
  BY OwnersStep
<1>5. PlacesAreKept'
  BY PlacesStep
<1>6. ChargesStayInBudget'
  BY <1>1, <1>2, <1>3, <1>5, BudgetStep
<1> QED
  BY <1>1, <1>2, <1>3, <1>4, <1>5, <1>6 DEF IInv

\* The invariant holds of every reachable state.
THEOREM Invariant == Spec => []IInv
  BY InitIInv, IInvStep, PTL DEF Spec

-----------------------------------------------------------------------------
(***************************************************************************)
(* What follows from it.                                                   *)
(***************************************************************************)

\* Types, and every set within its maximum, whatever script runs when.
THEOREM TypesHold == Spec => []TypeOK
<1>1. IInv => TypeOK
  BY DEF IInv, Types, SetsAreBounded, TypeOK
<1> QED
  BY <1>1, Invariant, PTL

\* In any stretch of Window - Lag moments, at most the maximum number of
\* messages is sent to an address, and by the whole deployment.
THEOREM MailIsBounded == Spec => []MailStaysInBudget
<1>1. IInv => MailStaysInBudget
  <2> SUFFICES ASSUME IInv, NEW s \in Subject, NEW from \in Time
               PROVE  Cardinality(MailedFrom(s, from)) <= MaxOf(s)
    BY DEF MailStaysInBudget
  <2>1. MailedFrom(s, from) \in SUBSET ChargedFrom(s, from)
    BY DEF MailedFrom, ChargedFrom
  <2>2. IsFiniteSet(ChargedFrom(s, from))
    BY CallsAreFinite, FS_Subset DEF ChargedFrom, Charged
  <2>3. /\ IsFiniteSet(MailedFrom(s, from))
        /\ Cardinality(MailedFrom(s, from)) <= Cardinality(ChargedFrom(s, from))
    BY <2>1, <2>2, FS_Subset
  <2>4. Cardinality(ChargedFrom(s, from)) <= MaxOf(s)
    BY DEF IInv, ChargesStayInBudget
  <2>5. /\ Cardinality(MailedFrom(s, from)) \in Nat
        /\ Cardinality(ChargedFrom(s, from)) \in Nat /\ MaxOf(s) \in Nat
    BY <2>2, <2>3, FS_CardinalityType, MaxIsPositive
  <2> QED
    BY <2>3, <2>4, <2>5
<1> QED
  BY <1>1, Invariant, PTL

\* A message that may have left keeps its place for a whole window.
THEOREM MailIsKept == Spec => []MailKeepsItsPlace
<1>1. IInv => MailKeepsItsPlace
  <2> SUFFICES ASSUME IInv, NEW s \in Subject, NEW c \in Charged(s),
                      At(c, s) > clock - Window
               PROVE  [call |-> c, at |-> At(c, s)] \in Held(s)
    BY DEF MailKeepsItsPlace
  <2>0. Types /\ ExpiryIsLate /\ CallsAreDated
    BY DEF IInv
  <2> DEFINE e == [call |-> c, at |-> At(c, s)]
  <2>1. e \in window[s] /\ e.at = At(c, s)
    BY DEF IInv, PlacesAreKept
  <2>2. clock \in Time /\ clock <= clock
    BY <2>0 DEF Types, Time
  <2> HIDE DEF e
  <2>3. e \in Held(s)
    BY <2>0, <2>1, <2>2, OnlyTheOldArePruned
  <2> QED
    BY <2>3 DEF e
<1> QED
  BY <1>1, Invariant, PTL

\* A call that sent nothing leaves nothing in the deployment's budget, unless
\* an answer was lost.
THEOREM UnsentIsReturned == Spec => []UnsentIsGivenBack
<1>1. IInv => UnsentIsGivenBack
  BY DEF IInv, OwnersAreKnown, UnsentIsGivenBack
<1> QED
  BY <1>1, Invariant, PTL

\* A member leaves because it is a window old or because its own call, having
\* sent nothing, gives it back.
THEOREM EntriesLeave == Spec => EntriesLeaveForCause
<1> DEFINE Leaving ==
      \A s \in Subject : \A e \in window[s] \ window'[s] :
        \/ e.at <= clock - Window
        \/ s = Application /\ calls[e.call].phase = "refunding"
<1>1. IInv /\ [Next]_vars => [Leaving]_vars
  <2> SUFFICES ASSUME IInv, Next, NEW s \in Subject, NEW e \in window[s],
                      e \notin window'[s]
               PROVE  \/ e.at <= clock - Window
                      \/ s = Application /\ calls[e.call].phase = "refunding"
    BY DEF Leaving
  <2>0. Types /\ ExpiryIsLate
    BY DEF IInv
  <2>1. ASSUME NEW c \in Call, NEW now \in Time,
               Reserve(c, now) \/ ReserveUnheard(c, now)
        PROVE  e.at <= clock - Window
    <3>1. Asked(c, now)
      BY <2>1 DEF Reserve, ReserveUnheard, Asked
    <3>2. now <= clock
      BY <2>0, <3>1, ReadingType DEF Asked
    <3>3. s = SubjectOf(c) /\ e \notin Pruned(s, now)
      BY <2>0, <3>1 DEF Asked, RunAdmission, Recorded, Types
    <3>4. ~(e.at > clock - Window)
      BY <2>0, <3>2, <3>3, OnlyTheOldArePruned
    <3>5. e.at \in Int /\ clock \in Int /\ Window \in Int
      BY <2>0, PoliciesAreValid DEF Types, Entry, Time
    <3> QED
      BY <3>4, <3>5
  <2>2. ASSUME NEW c \in Call, Refund(c)
        PROVE  s = Application /\ calls[e.call].phase = "refunding"
    BY <2>0, <2>2 DEF Refund, Types
  <2>3. ASSUME NEW c \in Call,
               Issue(c) \/ Deliver(c) \/ Abandon(c)
                 \/ \E email \in Email : Begin(c, email)
        PROVE  FALSE
    BY <2>3 DEF Issue, Deliver, Abandon, Begin
  <2>4. ~Tick
    BY DEF Tick
  <2> QED
    BY <2>1, <2>2, <2>3, <2>4 DEF Next
<1>2. Spec => [][Leaving]_vars
  BY <1>1, Invariant, PTL DEF Spec
<1> QED
  BY <1>2 DEF EntriesLeaveForCause, Leaving

-----------------------------------------------------------------------------
(***************************************************************************)
(* What a key without an expiry can cost.                                  *)
(***************************************************************************)

\* PEXPIRE precedes ZADD, so a set can be left without an expiry.  It then
\* holds one member and no more: the script that adds a second finds the first
\* and arms the key.
OnlyLoneMembersLinger ==
  \A s \in Subject : \A e, f \in window[s] : e # f => armed[s] # None

LEMMA LoneInit == Init => OnlyLoneMembersLinger
  BY DEF Init, OnlyLoneMembersLinger

\* A script arms the key of every set in which pruning left a member.
LEMMA ScriptLeavesLone ==
  ASSUME Types, OnlyLoneMembersLinger, NEW c \in Call, NEW now \in Time,
         SubjectOf(c) \in Subject, RunAdmission(c, now)
  PROVE  OnlyLoneMembersLinger'
<1> SUFFICES ASSUME NEW s \in Subject, NEW e \in window'[s], NEW f \in window'[s],
                    e # f
             PROVE  armed'[s] # None
  BY DEF OnlyLoneMembersLinger
<1> DEFINE t == SubjectOf(c)
<1>1. CASE s # t
  BY <1>1 DEF RunAdmission, Types, OnlyLoneMembersLinger
<1>2. CASE s = t
  <2>1. window'[s] = Recorded(c, s, now)
    BY <1>2 DEF RunAdmission, Types
  <2>2. Pruned(s, now) # {}
    BY <2>1 DEF Recorded
  <2>3. armed'[s] = clock
    BY <1>2, <2>2 DEF RunAdmission, Types
  <2>4. clock # None
    BY NoneIsNone DEF Types, Time
  <2> QED
    BY <2>3, <2>4
<1> QED
  BY <1>1, <1>2

\* Whatever is in Redis without an expiry is one member per subject, whichever
\* scripts ran, were repeated or were refunded.
THEOREM LoneMembersLinger == Spec => []OnlyLoneMembersLinger
<1>1. IInv /\ OnlyLoneMembersLinger /\ [Next]_vars => OnlyLoneMembersLinger'
  <2> SUFFICES ASSUME IInv, OnlyLoneMembersLinger, [Next]_vars
               PROVE  OnlyLoneMembersLinger'
    OBVIOUS
  <2>0. Types /\ CallsAreDated
    BY DEF IInv
  <2>1. ASSUME UNCHANGED <<window, armed>>
        PROVE  OnlyLoneMembersLinger'
    BY <2>1 DEF OnlyLoneMembersLinger
  <2>2. ASSUME NEW c \in Call, NEW now \in Time,
               Reserve(c, now) \/ ReserveUnheard(c, now)
        PROVE  OnlyLoneMembersLinger'
    <3>1. Asked(c, now)
      BY <2>2 DEF Reserve, ReserveUnheard, Asked
    <3>2. SubjectOf(c) \in Subject
      BY <2>0, <3>1, SubjectType DEF Asked
    <3> QED
      BY <2>0, <3>1, <3>2, ScriptLeavesLone DEF Asked
  <2>3. ASSUME NEW c \in Call, Refund(c)
        PROVE  OnlyLoneMembersLinger'
    <3>1. armed' = armed /\ \A s \in Subject : window'[s] \in SUBSET window[s]
      BY <2>0, <2>3 DEF Refund, Types
    <3> QED
      BY <3>1 DEF OnlyLoneMembersLinger
  <2>4. ASSUME NEW c \in Call,
               Issue(c) \/ Deliver(c) \/ Abandon(c)
                 \/ \E email \in Email : Begin(c, email)
        PROVE  UNCHANGED <<window, armed>>
    BY <2>4 DEF Issue, Deliver, Abandon, Begin
  <2>5. Tick \/ UNCHANGED vars => UNCHANGED <<window, armed>>
    BY DEF Tick, vars
  <2> QED
    BY <2>1, <2>2, <2>3, <2>4, <2>5 DEF Next
<1> QED
  BY <1>1, LoneInit, Invariant, PTL DEF Spec

=============================================================================
