--------------------------- MODULE EnrichmentProof ---------------------------
(***************************************************************************)
(* Proofs about Enrichment for every number of items and calls and every   *)
(* pair of retry limits.                                                   *)
(*                                                                         *)
(* What the properties say of a row, a task and a hand-over rests on how   *)
(* far each run of the handler has got.  A delivery number is used once    *)
(* (RunsTakeTurns), so a run writes its row once and queues at most one    *)
(* organization, afterwards (HandoversComeLast, SourcesAreTheirRuns); and a *)
(* run that tells the queue not to deliver again has recorded an outcome   *)
(* or found no row (VerdictsAreRecorded).                                  *)
(***************************************************************************)
EXTENDS Enrichment, TLAPS

\* What exists was saved: nothing runs, and nothing is asked for, before.
SavedFirst ==
  /\ \A i \in Item : item[i].state = "unsaved" => item[i] = NewRow
  /\ \A i \in Item : task[i].state # "none" => item[i].state # "unsaved"
  /\ \A r \in Run : run[r].phase # "idle" => item[r[1]].state # "unsaved"
  /\ \A d \in Demand : demand[d].phase \notin {"idle", "ended"} =>
       demand[d].item \in Item /\ item[demand[d].item].state # "unsaved"

PagesAndVerdictsAreKnown ==
  /\ \A r \in Run : run[r].phase = "recording" => run[r].page # None
  /\ \A r \in Run : run[r].phase = "reporting" => run[r].verdict # None
  /\ \A d \in Demand : demand[d].phase = "recording" => demand[d].page # None

\* A run whose number the task has not reached has not begun.
RunsTakeTurns ==
  \A r \in Run :
    (\/ r[2] > task[r[1]].retried
     \/ /\ r[2] = task[r[1]].retried
        /\ task[r[1]].state \in {"none", "due", "refused", "queued"}) =>
      run[r].phase = "idle"

HandoversComeLast ==
  \A r \in Run : handover[r].state # "none" =>
    run[r].phase \in {"reporting", "ended", "lost"}

SourcesAreTheirRuns ==
  \A i \in Item, r \in Run : item[i].source = r =>
    r[1] = i /\ run[r].phase \notin {"idle", "loading", "fetching", "recording"}

\* A verdict that ends the task was preceded by a record, or the row is gone.
VerdictsAreRecorded ==
  \A r \in Run :
    /\ Live(r[1])
    /\ \/ run[r].phase = "scheduling"
       \/ run[r].phase = "reporting" /\ run[r].verdict \in {"done", "skipRetry"}
    => item[r[1]].status # "pending"

HandoversHaveSources ==
  \A r \in Run :
    /\ item[r[1]].state # "deleted"
    /\ run[r].phase = "scheduling" \/ handover[r].state # "none"
    => item[r[1]].source # None

\* What a run hands over, it found a platform for.
SourcesHavePlatforms ==
  /\ \A i \in Item : item[i].source # None => item[i].status # "pending"
  /\ \A r \in Run :
       /\ item[r[1]].source = r
       /\ run[r].phase = "scheduling" \/ handover[r].state # "none"
       => item[r[1]].platform # None

Inv ==
  /\ TypeOK
  /\ SavedFirst
  /\ PagesAndVerdictsAreKnown
  /\ RunsTakeTurns
  /\ HandoversComeLast
  /\ SourcesAreTheirRuns
  /\ VerdictsAreRecorded
  /\ HandoversHaveSources
  /\ SourcesHavePlatforms
  /\ PendingIsExplained
  /\ CompletedIsHandedOver

---------------------------------------------------------------------------
(***************************************************************************)
(* Steps.                                                                  *)
(***************************************************************************)

LEMMA RunIsAPair ==
  ASSUME NEW r \in Run
  PROVE  r[1] \in Item /\ r[2] \in 0 .. EnrichmentMaxRetry /\ r = <<r[1], r[2]>>
  BY DEF Run

LEMMA PairIsARun ==
  ASSUME NEW i \in Item, NEW n \in 0 .. EnrichmentMaxRetry
  PROVE  /\ <<i, n>> \in Run
         /\ <<i, n>>[1] = i /\ <<i, n>>[2] = n
  BY DEF Run

LEMMA NoneIsNoValue ==
  /\ None \notin Platform /\ None \notin Readable
  /\ \A r \in Run : None # r
  /\ \A d \in Demand : None # d /\ d \notin Run
  /\ \A i \in Item : None # i
  BY NamesAreDistinct DEF Platform, Readable

LEMMA RecordedRow ==
  ASSUME NEW row \in ItemRow, NEW page \in Readable \cup Unreadable,
         NEW by \in Run \cup Demand
  PROVE  /\ Recorded(row, page, by) \in ItemRow
         /\ Recorded(row, page, by).state = row.state
         /\ Recorded(row, page, by).place = row.place
         /\ Recorded(row, page, by).moved = row.moved
         /\ Recorded(row, page, by).status =
              IF page \in Readable THEN "completed" ELSE "failed"
         /\ Recorded(row, page, by).source =
              IF page \in Readable THEN by ELSE row.source
         /\ Recorded(row, page, by).platform =
              IF page \in Platform THEN page
              ELSE IF page \in Readable THEN None ELSE row.platform
  BY DEF Recorded, Completed, Failed, ItemRow, Readable, Unreadable, Platform

---------------------------------------------------------------------------
(***************************************************************************)
(* Types.                                                                  *)
(***************************************************************************)

LEMMA InitInv == Init => Inv
<1> SUFFICES ASSUME Init PROVE Inv
  OBVIOUS
<1>1. TypeOK
  BY RetriesAreNumbers DEF Init, NewRow, TypeOK, ItemRow, TaskState, RunState,
     HandoverState, DemandState, Lifecycle, Ended, Working, Verdict, Platform
<1>2. /\ \A i \in Item : item[i] = NewRow /\ task[i].state = "none"
      /\ \A r \in Run : run[r].phase = "idle" /\ handover[r].state = "none"
      /\ \A d \in Demand : demand[d].phase = "idle"
  BY DEF Init
<1>3. SavedFirst /\ PagesAndVerdictsAreKnown /\ RunsTakeTurns /\ HandoversComeLast
  BY <1>2 DEF SavedFirst, PagesAndVerdictsAreKnown, RunsTakeTurns, HandoversComeLast
<1>4. SourcesAreTheirRuns
  BY <1>2, NoneIsNoValue DEF SourcesAreTheirRuns, NewRow
<1>5. VerdictsAreRecorded /\ HandoversHaveSources /\ SourcesHavePlatforms
  BY <1>2, RunIsAPair DEF VerdictsAreRecorded, HandoversHaveSources, SourcesHavePlatforms,
     NewRow
<1>6. PendingIsExplained /\ CompletedIsHandedOver
  BY <1>2, RunIsAPair DEF PendingIsExplained, CompletedIsHandedOver, Live, NewRow
<1> QED
  BY <1>1, <1>3, <1>4, <1>5, <1>6 DEF Inv

LEMMA ItemsStayTyped ==
  ASSUME Inv, Next
  PROVE  item' \in [Item -> ItemRow]
<1> USE DEF TypeOK
<1>1. ASSUME NEW i \in Item, ItemNext(i) \/ Deliver(i) \/ LeaseExpires(i)
      PROVE  item' \in [Item -> ItemRow]
  <2>1. NewRow \in ItemRow /\ [NewRow EXCEPT !.state = "deleted"] \in ItemRow
    BY DEF NewRow, ItemRow
  <2>2. CASE Save(i)
    BY <2>2 DEF Inv, Save, ItemRow
  <2>3. CASE Delete(i)
    BY <2>1, <2>3 DEF Inv, Delete
  <2>4. ASSUME NEW place \in {"Unsorted", "other"}, MoveByUser(i, place)
        PROVE  item' \in [Item -> ItemRow]
    BY <2>4, ZenonT(60) DEF Inv, MoveByUser, ItemRow
  <2> QED
    BY <1>1, <2>2, <2>3, <2>4 DEF Inv, ItemNext, EnqueueEnrichment, Deliver, LeaseExpires
<1>2. ASSUME NEW r \in Run, RunNext(r) \/ WorkerDies(r) \/ HandoverNext(r)
      PROVE  item' \in [Item -> ItemRow]
  <2>1. r[1] \in Item
    BY RunIsAPair
  <2>2. run[r].phase = "recording" =>
          Recorded(item[r[1]], run[r].page, r) \in ItemRow
    BY <2>1, RecordedRow DEF Inv, PagesAndVerdictsAreKnown, RunState
  <2>3. FiledByPlatform[r[1]] \in ItemRow
    <3>1. FiledByPlatform[r[1]] = [item[r[1]] EXCEPT !.place = "platform"]
      BY <2>1 DEF FiledByPlatform
    <3>2. item[r[1]] \in ItemRow
      BY <2>1 DEF Inv
    <3> QED
      BY <3>1, <3>2 DEF ItemRow
  <2> QED
    BY <1>2, <2>1, <2>2, <2>3 DEF Inv, RunNext, HandoverNext, Load, Fetch,
       RecordNothing, RecordSucceeds, RecordFails, Schedule, Report, WorkerDies,
       OrganizeNothing, OrganizeReserved, Organize, OrganizeFails
<1>3. ASSUME NEW d \in Demand, DemandNext(d) \/ \E i \in Item : BeginDemand(d, i)
      PROVE  item' \in [Item -> ItemRow]
  <2>1. demand[d].phase = "recording" =>
          /\ demand[d].item \in Item
          /\ Recorded(item[demand[d].item], demand[d].page, d) \in ItemRow
    BY RecordedRow DEF Inv, SavedFirst, PagesAndVerdictsAreKnown, DemandState
  <2> QED
    BY <1>3, <2>1 DEF Inv, DemandNext, LoadDemand, FetchDemand, RecordDemand, BeginDemand
<1> QED
  BY <1>1, <1>2, <1>3 DEF Next

LEMMA TasksStayTyped ==
  ASSUME Inv, Next
  PROVE  task' \in [Item -> TaskState]
<1> USE RetriesAreNumbers DEF TypeOK, TaskState, Lifecycle, Ended
<1>1. \A i \in Item : RetryOrArchive(i) \in [Item -> TaskState]
  BY DEF Inv, RetryOrArchive
<1>2. ASSUME NEW i \in Item, ItemNext(i) \/ Deliver(i) \/ LeaseExpires(i)
      PROVE  task' \in [Item -> TaskState]
  <2>1. CASE Save(i)
    BY <2>1 DEF Inv, Save
  <2>2. CASE EnqueueEnrichment(i)
    BY <2>2 DEF Inv, EnqueueEnrichment
  <2>3. CASE Deliver(i)
    BY <2>3 DEF Inv, Deliver
  <2>4. CASE LeaseExpires(i)
    BY <1>1, <2>4 DEF LeaseExpires
  <2> QED
    BY <1>2, <2>1, <2>2, <2>3, <2>4 DEF Inv, ItemNext, Delete, MoveByUser
<1>3. ASSUME NEW r \in Run, RunNext(r) \/ WorkerDies(r) \/ HandoverNext(r)
      PROVE  task' \in [Item -> TaskState]
  <2>1. r[1] \in Item
    BY RunIsAPair
  <2>2. run[r].phase = "reporting" => run[r].verdict \in Verdict
    BY DEF Inv, PagesAndVerdictsAreKnown, RunState
  <2>3. CASE Report(r)
    <3>1. \A s \in {"done", "rejected"} :
            [task EXCEPT ![r[1]].state = s] \in [Item -> TaskState]
      BY <2>1 DEF Inv
    <3> QED
      BY <1>1, <2>1, <2>2, <2>3, <3>1 DEF Inv, Report, Verdict
  <2> QED
    BY <1>3, <2>3 DEF Inv, RunNext, HandoverNext, Load, Fetch, RecordNothing,
       RecordSucceeds, RecordFails, Schedule, WorkerDies, OrganizeNothing,
       OrganizeReserved, Organize, OrganizeFails
<1>4. ASSUME NEW d \in Demand, DemandNext(d) \/ \E i \in Item : BeginDemand(d, i)
      PROVE  task' \in [Item -> TaskState]
  BY <1>4 DEF Inv, DemandNext, LoadDemand, FetchDemand, RecordDemand, BeginDemand
<1> QED
  BY <1>2, <1>3, <1>4 DEF Next

LEMMA RunsStayTyped ==
  ASSUME Inv, Next
  PROVE  run' \in [Run -> RunState]
<1> USE DEF TypeOK, RunState
<1>t. run \in [Run -> RunState]
  BY DEF Inv
<1>1. \A r \in Run, v \in Verdict :
        [run EXCEPT ![r] = [phase |-> "reporting", page |-> None, verdict |-> v]]
          \in [Run -> RunState]
  BY DEF Inv
<1>2. ASSUME NEW i \in Item, ItemNext(i) \/ Deliver(i) \/ LeaseExpires(i)
      PROVE  run' \in [Run -> RunState]
  <2>1. CASE Deliver(i)
    <3>1. <<i, task[i].retried>> \in Run
      BY PairIsARun DEF Inv, TaskState
    <3> QED
      BY <2>1, <3>1 DEF Inv, Deliver, Working
  <2> QED
    BY <1>2, <2>1 DEF Inv, ItemNext, Save, EnqueueEnrichment, Delete, MoveByUser,
       LeaseExpires
<1>3. ASSUME NEW r \in Run, RunNext(r) \/ WorkerDies(r) \/ HandoverNext(r)
      PROVE  run' \in [Run -> RunState]
  <2>1. CASE RecordSucceeds(r)
    <3>1. run[r].page \in Readable \cup Unreadable
      BY <2>1 DEF Inv, PagesAndVerdictsAreKnown, RecordSucceeds
    <3>2. CASE run[r].page \in Platform
      <4>1. run' = [run EXCEPT ![r].phase = "scheduling"]
        BY <2>1, <3>2 DEF RecordSucceeds, Platform
      <4> QED
        BY <4>1 DEF Inv, Working
    <3>3. CASE run[r].page \notin Platform
      <4>1. \E v \in Verdict : Decide(r, v)
        BY <2>1, <3>1, <3>3 DEF RecordSucceeds, Verdict, Readable, Unreadable
      <4> QED
        BY <1>1, <4>1 DEF Decide
    <3> QED
      BY <3>2, <3>3
  <2> QED
    BY <1>t, <1>1, <1>3, <2>1 DEF RunNext, HandoverNext, Load, Fetch, RecordNothing,
       RecordFails, Schedule, Report, WorkerDies, OrganizeNothing, OrganizeReserved,
       Organize, OrganizeFails, Decide, Verdict, Working
<1>4. ASSUME NEW d \in Demand, DemandNext(d) \/ \E i \in Item : BeginDemand(d, i)
      PROVE  run' \in [Run -> RunState]
  BY <1>4 DEF Inv, DemandNext, LoadDemand, FetchDemand, RecordDemand, BeginDemand
<1> QED
  BY <1>2, <1>3, <1>4 DEF Next

LEMMA HandoversStayTyped ==
  ASSUME Inv, Next
  PROVE  handover' \in [Run -> HandoverState]
<1> USE RetriesAreNumbers DEF TypeOK, HandoverState, Lifecycle, Ended
<1>1. ASSUME NEW i \in Item, ItemNext(i) \/ Deliver(i) \/ LeaseExpires(i)
      PROVE  handover' \in [Run -> HandoverState]
  BY <1>1 DEF Inv, ItemNext, Save, EnqueueEnrichment, Delete, MoveByUser, Deliver,
     LeaseExpires
<1>2. ASSUME NEW r \in Run, RunNext(r) \/ WorkerDies(r) \/ HandoverNext(r)
      PROVE  handover' \in [Run -> HandoverState]
  <2>1. \A s \in Lifecycle \ {"active"} :
          [handover EXCEPT ![r].state = s] \in [Run -> HandoverState]
    BY DEF Inv
  <2>2. CASE OrganizeFails(r)
    <3>1. handover[r].retried < OrganizationMaxRetry =>
            [handover EXCEPT ![r].retried = @ + 1] \in [Run -> HandoverState]
      BY DEF Inv
    <3> QED
      BY <2>1, <2>2, <3>1 DEF Inv, OrganizeFails
  <2>3. CASE OrganizeNothing(r) \/ OrganizeReserved(r) \/ Organize(r)
    <3>1. \E s \in {"done", "rejected"} : handover' = [handover EXCEPT ![r].state = s]
      BY <2>3 DEF OrganizeNothing, OrganizeReserved, Organize
    <3> QED
      BY <2>1, <3>1
  <2>4. CASE Schedule(r)
    BY <2>1, <2>4 DEF Schedule
  <2> QED
    BY <1>2, <2>2, <2>3, <2>4 DEF Inv, RunNext, HandoverNext, Load, Fetch,
       RecordNothing, RecordSucceeds, RecordFails, Report, WorkerDies
<1>3. ASSUME NEW d \in Demand, DemandNext(d) \/ \E i \in Item : BeginDemand(d, i)
      PROVE  handover' \in [Run -> HandoverState]
  BY <1>3 DEF Inv, DemandNext, LoadDemand, FetchDemand, RecordDemand, BeginDemand
<1> QED
  BY <1>1, <1>2, <1>3 DEF Next

LEMMA DemandsStayTyped ==
  ASSUME Inv, Next
  PROVE  demand' \in [Demand -> DemandState]
<1> USE DEF TypeOK, DemandState
<1>1. ASSUME NEW i \in Item, ItemNext(i) \/ Deliver(i) \/ LeaseExpires(i)
      PROVE  demand' \in [Demand -> DemandState]
  BY <1>1 DEF Inv, ItemNext, Save, EnqueueEnrichment, Delete, MoveByUser, Deliver,
     LeaseExpires
<1>2. ASSUME NEW r \in Run, RunNext(r) \/ WorkerDies(r) \/ HandoverNext(r)
      PROVE  demand' \in [Demand -> DemandState]
  BY <1>2 DEF Inv, RunNext, HandoverNext, Load, Fetch, RecordNothing,
     RecordSucceeds, RecordFails, Schedule, Report, WorkerDies, OrganizeNothing,
     OrganizeReserved, Organize, OrganizeFails
<1>3. ASSUME NEW d \in Demand, DemandNext(d) \/ \E i \in Item : BeginDemand(d, i)
      PROVE  demand' \in [Demand -> DemandState]
  BY <1>3 DEF Inv, DemandNext, LoadDemand, FetchDemand, RecordDemand, BeginDemand,
     EndDemand
<1> QED
  BY <1>1, <1>2, <1>3 DEF Next

LEMMA TypesArePreserved == Inv /\ Next => TypeOK'
  BY ItemsStayTyped, TasksStayTyped, RunsStayTyped, HandoversStayTyped,
     DemandsStayTyped DEF TypeOK

---------------------------------------------------------------------------
(***************************************************************************)
(* What one step does to one row, one task, one run and one hand-over.     *)
(***************************************************************************)

Filed(row) == [row EXCEPT !.place = "platform"]

\* Some call writes what it extracted.
RecordedBy(i, by, page) ==
  /\ Live(i)
  /\ page \in Readable \cup Unreadable
  /\ \/ /\ by \in Run /\ by[1] = i /\ page = run[by].page
        /\ RecordSucceeds(by) \/ RecordFails(by)
     \/ by \in Demand
  /\ item'[i] = Recorded(item[i], page, by)

ItemStep(i) ==
  \/ item'[i] = item[i]
  \/ Save(i) /\ item'[i] = [item[i] EXCEPT !.state = "live"]
  \/ Live(i) /\ item'[i] = [NewRow EXCEPT !.state = "deleted"]
  \/ /\ Live(i)
     /\ \E place \in {"Unsorted", "other"} :
          item'[i] = [item[i] EXCEPT !.place = place, !.moved = TRUE]
  \/ \E by \in Run \cup Demand, page \in Readable \cup Unreadable : RecordedBy(i, by, page)
  \/ ~NothingToOrganize(i) /\ item'[i] = Filed(item[i])

LEMMA ItemSteps ==
  ASSUME Inv, Next, NEW i \in Item
  PROVE  ItemStep(i)
<1>1. item \in [Item -> ItemRow]
  BY DEF Inv, TypeOK
<1>2. ASSUME NEW j \in Item, ItemNext(j) \/ Deliver(j) \/ LeaseExpires(j)
      PROVE  ItemStep(i)
  <2>1. CASE Save(j)
    BY <1>1, <2>1 DEF Save, ItemStep
  <2>2. CASE Delete(j)
    BY <1>1, <2>2 DEF Delete, ItemStep, Live
  <2>3. ASSUME NEW place \in {"Unsorted", "other"}, MoveByUser(j, place)
        PROVE  ItemStep(i)
    BY <1>1, <2>3 DEF MoveByUser, ItemStep, Live
  <2> QED
    BY <1>2, <2>1, <2>2, <2>3 DEF ItemNext, EnqueueEnrichment, Deliver,
       LeaseExpires, ItemStep
<1>3. ASSUME NEW r \in Run, RunNext(r) \/ WorkerDies(r) \/ HandoverNext(r)
      PROVE  ItemStep(i)
  <2>1. r[1] \in Item
    BY RunIsAPair
  <2>2. run[r].phase = "recording" => run[r].page \in Readable \cup Unreadable
    BY DEF Inv, TypeOK, PagesAndVerdictsAreKnown, RunState
  <2>3. CASE RecordSucceeds(r)
    <3>1. item' = [item EXCEPT ![r[1]] = Recorded(item[r[1]], run[r].page, r)]
      BY <2>3 DEF RecordSucceeds
    <3>2. i = r[1] => RecordedBy(i, r, run[r].page)
      BY <1>1, <2>1, <2>2, <2>3, <3>1 DEF RecordSucceeds, RecordedBy
    <3> QED
      BY <1>1, <2>1, <2>2, <2>3, <3>1, <3>2 DEF RecordSucceeds, ItemStep
  <2>4. CASE RecordFails(r)
    <3>1. item' = item \/ (Live(r[1]) /\
            item' = [item EXCEPT ![r[1]] = Recorded(item[r[1]], run[r].page, r)])
      BY <2>4 DEF RecordFails
    <3>2. item' # item /\ i = r[1] => RecordedBy(i, r, run[r].page)
      BY <1>1, <2>1, <2>2, <2>4, <3>1 DEF RecordFails, RecordedBy
    <3> QED
      BY <1>1, <2>1, <2>2, <2>4, <3>1, <3>2 DEF RecordFails, ItemStep
  <2>5. CASE Organize(r) \/ OrganizeFails(r)
    <3>1. FiledByPlatform[r[1]] = Filed(item[r[1]])
      BY <2>1 DEF FiledByPlatform, Filed
    <3>2. \/ item' = item
          \/ ~NothingToOrganize(r[1]) /\ item' = [item EXCEPT ![r[1]] = Filed(item[r[1]])]
      BY <2>5, <3>1 DEF Organize, OrganizeFails
    <3> QED
      BY <1>1, <2>1, <3>2 DEF ItemStep
  <2> QED
    BY <1>3, <2>3, <2>4, <2>5 DEF RunNext, HandoverNext, Load, Fetch, RecordNothing,
       Schedule, Report, WorkerDies, OrganizeNothing, OrganizeReserved, ItemStep
<1>4. ASSUME NEW d \in Demand, DemandNext(d) \/ \E j \in Item : BeginDemand(d, j)
      PROVE  ItemStep(i)
  <2>1. CASE RecordDemand(d)
    <3>1. /\ demand[d].item \in Item
          /\ demand[d].page \in Readable \cup Unreadable
      BY <2>1 DEF Inv, TypeOK, SavedFirst, PagesAndVerdictsAreKnown, DemandState,
         RecordDemand
    <3>2. item' = item \/ (Live(demand[d].item) /\ item' =
            [item EXCEPT ![demand[d].item] =
               Recorded(item[demand[d].item], demand[d].page, d)])
      BY <2>1 DEF RecordDemand
    <3>3. item' # item /\ i = demand[d].item => RecordedBy(i, d, demand[d].page)
      BY <1>1, <3>1, <3>2 DEF RecordedBy
    <3> QED
      BY <1>1, <3>1, <3>2, <3>3 DEF ItemStep
  <2> QED
    BY <1>4, <2>1 DEF DemandNext, LoadDemand, FetchDemand, BeginDemand, ItemStep
<1> QED
  BY <1>2, <1>3, <1>4 DEF Next

\* A row is never unsaved again, never pending again, never without the
\* metadata it once had, and stays what it is once it is deleted.
LEMMA RowsMoveOn ==
  ASSUME Inv, Next, NEW i \in Item
  PROVE  /\ item[i].state # "unsaved" => item'[i].state # "unsaved"
         /\ item'[i].state = "unsaved" => item'[i] = NewRow
         /\ item[i].state = "deleted" => item'[i] = item[i]
         /\ item[i].status # "pending" /\ Live(i)' => item'[i].status # "pending"
         /\ item[i].source # None /\ item'[i].state # "deleted" =>
              item'[i].source # None
<1>1. item[i] \in ItemRow
  BY DEF Inv, TypeOK
<1>2. ItemStep(i)
  BY ItemSteps
<1>3. item[i].state = "unsaved" => item[i] = NewRow
  BY DEF Inv, SavedFirst
<1>4. ASSUME NEW by \in Run \cup Demand, NEW page \in Readable \cup Unreadable,
             RecordedBy(i, by, page)
      PROVE  /\ item'[i].state = "live" /\ item[i].state = "live"
             /\ item'[i].status # "pending"
             /\ item[i].source # None => item'[i].source # None
  BY <1>1, <1>4, RecordedRow, NoneIsNoValue DEF RecordedBy, Live
<1>5. CASE \E by \in Run \cup Demand, page \in Readable \cup Unreadable :
             RecordedBy(i, by, page)
  BY <1>4, <1>5 DEF Live
<1>6. CASE ~\E by \in Run \cup Demand, page \in Readable \cup Unreadable :
             RecordedBy(i, by, page)
  BY <1>1, <1>2, <1>3, <1>6 DEF ItemStep, ItemRow, NewRow, Live, Filed, Save,
     NothingToOrganize
<1> QED
  BY <1>5, <1>6

LEMMA RunSteps ==
  ASSUME Inv, Next, NEW q \in Run
  PROVE  \/ run'[q] = run[q]
         \/ /\ Deliver(q[1]) /\ task[q[1]].retried = q[2]
            /\ run'[q] = [run[q] EXCEPT !.phase = "loading"]
         \/ RunNext(q)
         \/ WorkerDies(q)
<1>1. run \in [Run -> RunState] /\ task \in [Item -> TaskState]
  BY DEF Inv, TypeOK
<1>2. ASSUME NEW i \in Item, ItemNext(i) \/ Deliver(i) \/ LeaseExpires(i)
      PROVE  \/ run'[q] = run[q]
             \/ /\ Deliver(q[1]) /\ task[q[1]].retried = q[2]
                /\ run'[q] = [run[q] EXCEPT !.phase = "loading"]
  <2>1. CASE Deliver(i)
    <3>1. /\ <<i, task[i].retried>> \in Run
          /\ <<i, task[i].retried>>[1] = i
          /\ <<i, task[i].retried>>[2] = task[i].retried
      BY <1>1, PairIsARun DEF TaskState
    <3> DEFINE r == <<i, task[i].retried>>
    <3>2. run' = [run EXCEPT ![r] = [run[r] EXCEPT !.phase = "loading"]]
      BY <2>1 DEF Deliver
    <3> HIDE DEF r
    <3> QED
      BY <1>1, <2>1, <3>1, <3>2 DEF r
  <2> QED
    BY <1>2, <2>1 DEF ItemNext, Save, EnqueueEnrichment, Delete, MoveByUser, LeaseExpires
<1>3. ASSUME NEW r \in Run, RunNext(r) \/ WorkerDies(r) \/ HandoverNext(r)
      PROVE  run'[q] = run[q] \/ RunNext(q) \/ WorkerDies(q)
  <2>1. CASE q = r
    BY <1>3, <2>1 DEF HandoverNext, OrganizeNothing, OrganizeReserved, Organize,
       OrganizeFails
  <2>2. CASE q # r
    <3>1. \A row : [run EXCEPT ![r] = row][q] = run[q]
      BY <1>1, <2>2
    <3>2. CASE RecordSucceeds(r)
      <4>1. run[r].page \in Readable \cup Unreadable
        BY <3>2 DEF Inv, TypeOK, PagesAndVerdictsAreKnown, RunState, RecordSucceeds
      <4>2. \E row : run' = [run EXCEPT ![r] = row]
        BY <3>2, <4>1 DEF RecordSucceeds, Decide, Readable, Unreadable
      <4> QED
        BY <3>1, <4>2
    <3>3. CASE HandoverNext(r)
      BY <3>3 DEF HandoverNext, OrganizeNothing, OrganizeReserved, Organize, OrganizeFails
    <3>4. CASE (RunNext(r) /\ ~RecordSucceeds(r)) \/ WorkerDies(r)
      BY <1>1, <2>2, <3>4 DEF RunNext, Load, Fetch, RecordNothing, RecordFails,
         Schedule, Report, WorkerDies, Decide
    <3> QED
      BY <1>3, <3>2, <3>3, <3>4
  <2> QED
    BY <2>1, <2>2
<1>4. ASSUME NEW d \in Demand, DemandNext(d) \/ \E j \in Item : BeginDemand(d, j)
      PROVE  run'[q] = run[q]
  BY <1>4 DEF DemandNext, LoadDemand, FetchDemand, RecordDemand, BeginDemand
<1> QED
  BY <1>2, <1>3, <1>4 DEF Next

LEMMA HandoverSteps ==
  ASSUME Inv, Next, NEW q \in Run
  PROVE  handover'[q] = handover[q] \/ Schedule(q) \/ HandoverNext(q)
<1>1. handover \in [Run -> HandoverState]
  BY DEF Inv, TypeOK
<1>2. ASSUME NEW i \in Item, ItemNext(i) \/ Deliver(i) \/ LeaseExpires(i)
      PROVE  handover'[q] = handover[q]
  BY <1>2 DEF ItemNext, Save, EnqueueEnrichment, Delete, MoveByUser, Deliver, LeaseExpires
<1>3. ASSUME NEW r \in Run, RunNext(r) \/ WorkerDies(r) \/ HandoverNext(r)
      PROVE  handover'[q] = handover[q] \/ Schedule(q) \/ HandoverNext(q)
  <2>1. CASE Schedule(r) \/ HandoverNext(r)
    BY <1>1, <2>1 DEF Schedule, HandoverNext, OrganizeNothing, OrganizeReserved,
       Organize, OrganizeFails
  <2> QED
    BY <1>3, <2>1 DEF RunNext, Load, Fetch, RecordNothing, RecordSucceeds,
       RecordFails, Report, WorkerDies
<1>4. ASSUME NEW d \in Demand, DemandNext(d) \/ \E j \in Item : BeginDemand(d, j)
      PROVE  handover'[q] = handover[q]
  BY <1>4 DEF DemandNext, LoadDemand, FetchDemand, RecordDemand, BeginDemand
<1> QED
  BY <1>2, <1>3, <1>4 DEF Next

\* A task is numbered upwards, and is due or queued for a number once.
LEMMA TaskSteps ==
  ASSUME Inv, Next, NEW i \in Item
  PROVE  \/ task'[i] = task[i]
         \/ /\ Save(i)
            /\ task'[i] = [task[i] EXCEPT !.state = "due"]
         \/ /\ task[i].state = "due"
            /\ item' = item
            /\ \E answer \in {"queued", "refused"} :
                 task'[i] = [task[i] EXCEPT !.state = answer]
         \/ /\ task[i].state = "queued"
            /\ Deliver(i)
            /\ task'[i] = [task[i] EXCEPT !.state = "active"]
         \/ /\ task[i].state = "active"
            /\ item' = item
            /\ \/ /\ \/ task[i].retried < EnrichmentMaxRetry
                        /\ task'[i] = [state |-> "queued", retried |-> task[i].retried + 1]
                     \/ task'[i] = [task[i] EXCEPT !.state = "exhausted"]
               \/ \E r \in Run :
                    /\ r[1] = i /\ run[r].phase = "reporting"
                    /\ run[r].verdict \in {"done", "skipRetry"}
                    /\ \E s \in {"done", "rejected"} :
                         task'[i] = [task[i] EXCEPT !.state = s]
<1>1. task \in [Item -> TaskState]
  BY DEF Inv, TypeOK
<1>2. ASSUME NEW j \in Item
      PROVE  /\ i # j => RetryOrArchive(j)[i] = task[i]
             /\ i = j => \/ /\ task[i].retried < EnrichmentMaxRetry
                            /\ RetryOrArchive(j)[i] =
                                 [state |-> "queued", retried |-> task[i].retried + 1]
                         \/ RetryOrArchive(j)[i] = [task[i] EXCEPT !.state = "exhausted"]
  BY <1>1 DEF RetryOrArchive
<1>3. ASSUME NEW j \in Item, i # j,
             ItemNext(j) \/ Deliver(j) \/ LeaseExpires(j)
      PROVE  task'[i] = task[i]
  BY <1>1, <1>2, <1>3 DEF ItemNext, Save, EnqueueEnrichment, Delete, MoveByUser,
     Deliver, LeaseExpires
<1>4. CASE Save(i)
  BY <1>1, <1>4 DEF Save
<1>5. CASE EnqueueEnrichment(i)
  BY <1>1, <1>5 DEF EnqueueEnrichment
<1>6. CASE Deliver(i)
  BY <1>1, <1>6 DEF Deliver
<1>7. CASE LeaseExpires(i)
  BY <1>1, <1>2, <1>7 DEF LeaseExpires
<1>8. CASE Delete(i) \/ \E place \in {"Unsorted", "other"} : MoveByUser(i, place)
  BY <1>8 DEF Delete, MoveByUser
<1>9. ASSUME NEW r \in Run, Report(r), task'[i] # task[i]
      PROVE  /\ task[i].state = "active"
             /\ item' = item
             /\ \/ /\ \/ task[i].retried < EnrichmentMaxRetry
                         /\ task'[i] = [state |-> "queued", retried |-> task[i].retried + 1]
                      \/ task'[i] = [task[i] EXCEPT !.state = "exhausted"]
                \/ /\ r[1] = i /\ run[r].phase = "reporting"
                   /\ run[r].verdict \in {"done", "skipRetry"}
                   /\ \E s \in {"done", "rejected"} :
                        task'[i] = [task[i] EXCEPT !.state = s]
  <2>1. r[1] \in Item
    BY RunIsAPair
  <2>2. run[r].verdict \in Verdict
    BY <1>9 DEF Inv, TypeOK, PagesAndVerdictsAreKnown, RunState, Report
  <2>3. \/ /\ run[r].verdict = "done"
           /\ task' = [task EXCEPT ![r[1]].state = "done"]
        \/ /\ run[r].verdict = "skipRetry"
           /\ task' = [task EXCEPT ![r[1]].state = "rejected"]
        \/ task' = RetryOrArchive(r[1])
    BY <1>9, <2>2 DEF Report, Verdict
  <2>4. i = r[1]
    BY <1>1, <1>2, <1>9, <2>1, <2>3
  <2>5. task[i].state = "active" /\ item' = item /\ run[r].phase = "reporting"
    BY <1>9, <2>4 DEF Report
  <2>6. task' = RetryOrArchive(r[1]) =>
          \/ /\ task[i].retried < EnrichmentMaxRetry
             /\ task'[i] = [state |-> "queued", retried |-> task[i].retried + 1]
          \/ task'[i] = [task[i] EXCEPT !.state = "exhausted"]
    BY <1>2, <2>4
  <2>7. task' # RetryOrArchive(r[1]) =>
          /\ run[r].verdict \in {"done", "skipRetry"}
          /\ \E s \in {"done", "rejected"} : task'[i] = [task[i] EXCEPT !.state = s]
    BY <1>1, <2>1, <2>3, <2>4
  <2> QED
    BY <2>4, <2>5, <2>6, <2>7
<1>10. ASSUME NEW r \in Run, RunNext(r) \/ WorkerDies(r) \/ HandoverNext(r), ~Report(r)
       PROVE  task'[i] = task[i]
  BY <1>10 DEF RunNext, HandoverNext, Load, Fetch, RecordNothing, RecordSucceeds,
     RecordFails, Schedule, WorkerDies, OrganizeNothing, OrganizeReserved, Organize,
     OrganizeFails
<1>11. ASSUME NEW d \in Demand, DemandNext(d) \/ \E j \in Item : BeginDemand(d, j)
       PROVE  task'[i] = task[i]
  BY <1>11 DEF DemandNext, LoadDemand, FetchDemand, RecordDemand, BeginDemand
<1> QED
  BY <1>3, <1>4, <1>5, <1>6, <1>7, <1>8, <1>9, <1>10, <1>11 DEF Next, ItemNext
---------------------------------------------------------------------------
(***************************************************************************)
(* The invariant, conjunct by conjunct.                                    *)
(***************************************************************************)

LEMMA SavedFirstIsPreserved == Inv /\ Next => SavedFirst'
<1> SUFFICES ASSUME Inv, Next PROVE SavedFirst'
  OBVIOUS
<1>1. ASSUME NEW i \in Item
      PROVE  /\ item'[i].state = "unsaved" => item'[i] = NewRow
             /\ task'[i].state # "none" => item'[i].state # "unsaved"
  <2>1. task[i].state # "none" => item[i].state # "unsaved"
    BY DEF Inv, SavedFirst
  <2>2. task[i].state = "none" /\ task'[i].state # "none" => item'[i].state # "unsaved"
    <3>1. Save(i) => item'[i].state = "live"
      BY DEF Inv, TypeOK, Save
    <3> QED
      BY <3>1, TaskSteps DEF Inv, TypeOK, TaskState
  <2> QED
    BY <2>1, <2>2, RowsMoveOn
<1>2. ASSUME NEW r \in Run, run'[r].phase # "idle"
      PROVE  item'[r[1]].state # "unsaved"
  <2>1. r[1] \in Item
    BY RunIsAPair
  <2>2. run[r].phase # "idle" \/ Deliver(r[1])
    BY <1>2, RunSteps DEF RunNext, Load, Fetch, RecordNothing, RecordSucceeds,
       RecordFails, Schedule, Report, WorkerDies, Working
  <2>3. item[r[1]].state # "unsaved"
    BY <2>1, <2>2 DEF Inv, SavedFirst, Deliver
  <2> QED
    BY <2>1, <2>3, RowsMoveOn
<1>3. ASSUME NEW d \in Demand, demand'[d].phase \notin {"idle", "ended"}
      PROVE  demand'[d].item \in Item /\ item'[demand'[d].item].state # "unsaved"
  <2>1. \E i \in Item : demand'[d].item = i /\ item[i].state # "unsaved"
    <3>1. demand \in [Demand -> DemandState]
      BY DEF Inv, TypeOK
    <3>2. CASE demand'[d] = demand[d]
      BY <1>3, <3>2 DEF Inv, SavedFirst
    <3>3. ASSUME NEW i \in Item, BeginDemand(d, i)
          PROVE  demand'[d].item = i /\ item[i].state # "unsaved"
      BY <3>1, <3>3 DEF BeginDemand
    <3>4. CASE DemandNext(d)
      <4>1. /\ demand[d].phase \in {"loading", "fetching", "recording"}
            /\ demand'[d].phase = "ended" \/ demand'[d].item = demand[d].item
        <5>1. CASE LoadDemand(d) \/ RecordDemand(d)
          BY <3>1, <5>1 DEF LoadDemand, RecordDemand, EndDemand, DemandState
        <5>2. CASE FetchDemand(d)
          BY <3>1, <5>2 DEF FetchDemand, DemandState
        <5> QED
          BY <3>4, <5>1, <5>2 DEF DemandNext
      <4> QED
        BY <1>3, <4>1 DEF Inv, SavedFirst
    <3>5. \/ demand'[d] = demand[d] \/ DemandNext(d)
          \/ \E i \in Item : BeginDemand(d, i)
      <4>1. ASSUME NEW e \in Demand, e # d,
                   DemandNext(e) \/ \E i \in Item : BeginDemand(e, i)
            PROVE  demand'[d] = demand[d]
        BY <3>1, <4>1 DEF DemandNext, LoadDemand, FetchDemand, RecordDemand,
           EndDemand, BeginDemand
      <4>2. ASSUME NEW i \in Item, ItemNext(i) \/ Deliver(i) \/ LeaseExpires(i)
            PROVE  demand'[d] = demand[d]
        BY <4>2 DEF ItemNext, Save, EnqueueEnrichment, Delete, MoveByUser,
           Deliver, LeaseExpires
      <4>3. ASSUME NEW r \in Run, RunNext(r) \/ WorkerDies(r) \/ HandoverNext(r)
            PROVE  demand'[d] = demand[d]
        BY <4>3 DEF RunNext, HandoverNext, Load, Fetch, RecordNothing,
           RecordSucceeds, RecordFails, Schedule, Report, WorkerDies,
           OrganizeNothing, OrganizeReserved, Organize, OrganizeFails
      <4> QED
        BY <4>1, <4>2, <4>3 DEF Next
    <3> QED
      BY <3>2, <3>3, <3>4, <3>5
  <2> QED
    BY <2>1, RowsMoveOn
<1> QED
  BY <1>1, <1>2, <1>3 DEF SavedFirst

LEMMA PagesAndVerdictsArePreserved == Inv /\ Next => PagesAndVerdictsAreKnown'
<1> SUFFICES ASSUME Inv, Next PROVE PagesAndVerdictsAreKnown'
  OBVIOUS
<1>1. /\ run \in [Run -> RunState] /\ demand \in [Demand -> DemandState]
      /\ PagesAndVerdictsAreKnown
  BY DEF Inv, TypeOK
<1>2. None \notin Readable \cup Unreadable \cup Verdict
  BY NamesAreDistinct
<1>3. ASSUME NEW r \in Run
      PROVE  /\ run'[r].phase = "recording" => run'[r].page # None
             /\ run'[r].phase = "reporting" => run'[r].verdict # None
  <2>1. CASE run'[r] = run[r]
    BY <1>1, <2>1 DEF PagesAndVerdictsAreKnown
  <2>2. CASE run'[r] = [run[r] EXCEPT !.phase = "loading"]
    BY <1>1, <2>2 DEF RunState
  <2>3. CASE WorkerDies(r)
    BY <1>1, <2>3 DEF WorkerDies
  <2>4. CASE Fetch(r)
    BY <1>1, <1>2, <2>4 DEF Fetch, RunState
  <2>5. ASSUME NEW v \in Verdict, Decide(r, v)
        PROVE  /\ run'[r].phase = "recording" => run'[r].page # None
               /\ run'[r].phase = "reporting" => run'[r].verdict # None
    BY <1>1, <1>2, <2>5 DEF Decide
  <2>6. CASE RecordSucceeds(r)
    <3>1. run[r].page \in Readable \cup Unreadable
      BY <1>1, <2>6 DEF PagesAndVerdictsAreKnown, RunState, RecordSucceeds
    <3>2. \/ run' = [run EXCEPT ![r].phase = "scheduling"]
          \/ \E v \in Verdict : Decide(r, v)
      BY <2>6, <3>1 DEF RecordSucceeds, Readable, Unreadable, Verdict
    <3> QED
      BY <1>1, <2>5, <3>2 DEF RunState
  <2>7. CASE Load(r) \/ RecordNothing(r) \/ RecordFails(r) \/ Schedule(r)
    <3>1. \/ run' = [run EXCEPT ![r].phase = "fetching"]
          \/ \E v \in Verdict : Decide(r, v)
      BY <2>7 DEF Load, RecordNothing, RecordFails, Schedule, Verdict
    <3> QED
      BY <1>1, <2>5, <3>1 DEF RunState
  <2>8. CASE Report(r)
    BY <1>1, <2>8 DEF Report, RunState
  <2> QED
    BY <2>1, <2>2, <2>3, <2>4, <2>6, <2>7, <2>8, RunSteps DEF RunNext
<1>4. ASSUME NEW d \in Demand, demand'[d].phase = "recording"
      PROVE  demand'[d].page # None
  <2>1. ASSUME NEW e \in Demand, DemandNext(e) \/ \E i \in Item : BeginDemand(e, i)
        PROVE  demand'[d].page # None
    BY <1>1, <1>2, <1>4, <2>1 DEF DemandNext, LoadDemand, FetchDemand, RecordDemand,
       EndDemand, BeginDemand, PagesAndVerdictsAreKnown, DemandState
  <2>2. ASSUME NEW i \in Item, ItemNext(i) \/ Deliver(i) \/ LeaseExpires(i)
        PROVE  demand'[d].page # None
    BY <1>1, <1>4, <2>2 DEF ItemNext, Save, EnqueueEnrichment, Delete, MoveByUser,
       Deliver, LeaseExpires, PagesAndVerdictsAreKnown
  <2>3. ASSUME NEW r \in Run, RunNext(r) \/ WorkerDies(r) \/ HandoverNext(r)
        PROVE  demand'[d].page # None
    BY <1>1, <1>4, <2>3 DEF RunNext, HandoverNext, Load, Fetch, RecordNothing,
       RecordSucceeds, RecordFails, Schedule, Report, WorkerDies, OrganizeNothing,
       OrganizeReserved, Organize, OrganizeFails, PagesAndVerdictsAreKnown
  <2> QED
    BY <2>1, <2>2, <2>3 DEF Next
<1> QED
  BY <1>3, <1>4 DEF PagesAndVerdictsAreKnown

\* The statement that records is the last thing a run says of its page.
LEMMA RecordingEnds ==
  ASSUME Inv, Next, NEW r \in Run, RecordSucceeds(r) \/ RecordFails(r)
  PROVE  run'[r].phase \in {"scheduling", "reporting"}
<1>1. run \in [Run -> RunState]
  BY DEF Inv, TypeOK
<1>2. CASE RecordFails(r)
  BY <1>1, <1>2 DEF RecordFails, Decide
<1>3. CASE RecordSucceeds(r)
  <2>1. run[r].page \in Readable \cup Unreadable
    BY <1>3 DEF Inv, TypeOK, PagesAndVerdictsAreKnown, RunState, RecordSucceeds
  <2>2. CASE run[r].page \in Platform
    <3>1. run' = [run EXCEPT ![r].phase = "scheduling"]
      BY <1>3, <2>2 DEF RecordSucceeds, Platform
    <3> QED
      BY <1>1, <3>1 DEF RunState
  <2>3. CASE run[r].page \notin Platform
    <3>1. \E v \in Verdict : Decide(r, v)
      BY <1>3, <2>1, <2>3 DEF RecordSucceeds, Verdict, Readable, Unreadable
    <3> QED
      BY <1>1, <3>1 DEF Decide
  <2> QED
    BY <2>2, <2>3
<1> QED
  BY <1>2, <1>3

\* How the phase of a run can change, in one step of its own or of the queue.
LEMMA PhasesGoForward ==
  ASSUME Inv, Next, NEW r \in Run
  PROVE  \/ run'[r] = run[r]
         \/ /\ task[r[1]].state = "queued" /\ Deliver(r[1])
            /\ task[r[1]].retried = r[2] /\ run'[r].phase = "loading"
         \/ Load(r) /\ run[r].phase = "loading"
                    /\ run'[r].phase \in {"fetching", "reporting"}
         \/ Fetch(r) /\ run[r].phase = "fetching" /\ run'[r].phase = "recording"
         \/ RecordNothing(r) /\ run[r].phase = "recording" /\ run'[r].phase = "reporting"
         \/ RecordSucceeds(r) /\ run[r].phase = "recording"
                              /\ run'[r].phase \in {"scheduling", "reporting"}
         \/ RecordFails(r) /\ run[r].phase = "recording" /\ run'[r].phase = "reporting"
         \/ Schedule(r) /\ run[r].phase = "scheduling" /\ run'[r].phase = "reporting"
         \/ Report(r) /\ run[r].phase = "reporting" /\ run'[r].phase = "ended"
                      /\ run'[r].verdict = run[r].verdict
         \/ WorkerDies(r) /\ run[r].phase # "idle" /\ run'[r].phase = "lost"
<1>1. run \in [Run -> RunState]
  BY DEF Inv, TypeOK
<1>2. CASE RecordSucceeds(r)
  BY <1>2, RecordingEnds DEF RecordSucceeds
<1>3. CASE RunNext(r) /\ ~RecordSucceeds(r)
  <2>1. CASE Load(r) \/ Fetch(r)
    BY <1>1, <2>1 DEF Load, Fetch, Decide, RunState
  <2>2. CASE RecordNothing(r) \/ RecordFails(r) \/ Schedule(r)
    BY <1>1, <2>2 DEF RecordNothing, RecordFails, Schedule, Decide
  <2>3. CASE Report(r)
    BY <1>1, <2>3 DEF Report, RunState
  <2> QED
    BY <1>3, <2>1, <2>2, <2>3 DEF RunNext
<1>4. CASE WorkerDies(r)
  BY <1>1, <1>4 DEF WorkerDies, Working
<1>5. CASE Deliver(r[1]) /\ task[r[1]].retried = r[2]
             /\ run'[r] = [run[r] EXCEPT !.phase = "loading"]
  BY <1>1, <1>5 DEF Deliver, RunState
<1> QED
  BY <1>2, <1>3, <1>4, <1>5, RunSteps

NotBegun == {"none", "due", "refused", "queued"}

LEMMA TasksGoForward ==
  ASSUME Inv, Next, NEW i \in Item
  PROVE  \/ /\ task'[i].retried = task[i].retried
            /\ task'[i].state \in NotBegun => task[i].state \in NotBegun
         \/ task'[i].retried = task[i].retried + 1
<1>1. task[i] \in TaskState
  BY DEF Inv, TypeOK
<1>2. Save(i) => task[i].state = "none"
  BY DEF Inv, SavedFirst, Save
<1>3. \A s : /\ [task[i] EXCEPT !.state = s].state = s
             /\ [task[i] EXCEPT !.state = s].retried = task[i].retried
  BY <1>1 DEF TaskState
<1>4. CASE task[i].state = "active"
  <2>1. ASSUME NEW row, row = [state |-> "queued", retried |-> task[i].retried + 1]
        PROVE  row.retried = task[i].retried + 1
    BY <2>1
  <2>2. \/ task'[i] = task[i]
        \/ task'[i] = [state |-> "queued", retried |-> task[i].retried + 1]
        \/ \E s \in {"done", "rejected", "exhausted"} :
             task'[i] = [task[i] EXCEPT !.state = s]
    BY <1>2, <1>4, TaskSteps, ZenonT(60)
  <2> QED
    BY <1>3, <2>1, <2>2 DEF NotBegun
<1>5. CASE task[i].state # "active"
  <2>1. \/ task'[i] = task[i]
        \/ Save(i) /\ task'[i] = [task[i] EXCEPT !.state = "due"]
        \/ /\ task[i].state = "due"
           /\ \E answer \in {"queued", "refused"} :
                task'[i] = [task[i] EXCEPT !.state = answer]
        \/ task[i].state = "queued" /\ task'[i] = [task[i] EXCEPT !.state = "active"]
    BY <1>5, TaskSteps
  <2> QED
    BY <1>2, <1>3, <2>1 DEF NotBegun
<1> QED
  BY <1>4, <1>5

LEMMA TurnsArePreserved == Inv /\ Next => RunsTakeTurns'
<1> SUFFICES ASSUME Inv, Next, NEW r \in Run,
                    \/ r[2] > task'[r[1]].retried
                    \/ /\ r[2] = task'[r[1]].retried
                       /\ task'[r[1]].state \in NotBegun
             PROVE  run'[r].phase = "idle"
  BY DEF RunsTakeTurns, NotBegun
<1>1. r[1] \in Item /\ r[2] \in Nat
  BY RunIsAPair, RetriesAreNumbers
<1>2. task[r[1]] \in TaskState /\ task[r[1]].retried \in Nat
  BY <1>1, RetriesAreNumbers DEF Inv, TypeOK, TaskState
<1>3. \/ r[2] > task[r[1]].retried
      \/ /\ r[2] = task[r[1]].retried
         /\ task[r[1]].state \in NotBegun
  BY <1>1, <1>2, TasksGoForward DEF NotBegun
<1>4. run[r].phase = "idle"
  BY <1>3 DEF Inv, RunsTakeTurns, NotBegun
<1>5. ~(Deliver(r[1]) /\ task[r[1]].retried = r[2])
  <2>1. Deliver(r[1]) => task'[r[1]] = [task[r[1]] EXCEPT !.state = "active"]
    BY <1>1 DEF Deliver, Inv, TypeOK
  <2> QED
    BY <1>1, <1>2, <2>1 DEF TaskState, NotBegun
<1> QED
  BY <1>4, <1>5, PhasesGoForward

LEMMA HandoversComeLastIsPreserved == Inv /\ Next => HandoversComeLast'
<1> SUFFICES ASSUME Inv, Next, NEW r \in Run, handover'[r].state # "none"
             PROVE  run'[r].phase \in {"reporting", "ended", "lost"}
  BY DEF HandoversComeLast
<1>1. CASE Schedule(r)
  BY <1>1 DEF Schedule, Decide, Inv, TypeOK
<1>2. CASE ~Schedule(r)
  <2>1. handover[r].state # "none"
    BY <1>2, HandoverSteps DEF HandoverNext, OrganizeNothing, OrganizeReserved,
       Organize, OrganizeFails
  <2>2. run[r].phase \in {"reporting", "ended", "lost"}
    BY <2>1 DEF Inv, HandoversComeLast
  <2>3. ~(task[r[1]].state = "queued" /\ task[r[1]].retried = r[2])
    BY <2>2 DEF Inv, RunsTakeTurns, NotBegun
  <2> QED
    BY <2>2, <2>3, PhasesGoForward
<1> QED
  BY <1>1, <1>2

\* An extraction gets into a row by a statement of the call that made it.
LEMMA SourcesAreRecorded ==
  ASSUME Inv, Next, NEW i \in Item, NEW r \in Run,
         item'[i].source = r, item[i].source # r
  PROVE  /\ r[1] = i /\ Live(i)
         /\ run[r].page \in Readable
         /\ RecordSucceeds(r) \/ RecordFails(r)
         /\ item'[i] = Recorded(item[i], run[r].page, r)
<1>1. item[i] \in ItemRow
  BY DEF Inv, TypeOK
<1>2. \E by \in Run \cup Demand, page \in Readable \cup Unreadable : RecordedBy(i, by, page)
  <2>1. CASE ~\E by \in Run \cup Demand, page \in Readable \cup Unreadable :
                RecordedBy(i, by, page)
    <3>1. item'[i].source \in {item[i].source, None}
      BY <1>1, <2>1, ItemSteps DEF ItemStep, Filed, NewRow, ItemRow
    <3> QED
      BY <3>1, NoneIsNoValue
  <2> QED
    BY <2>1
<1>3. PICK by \in Run \cup Demand, page \in Readable \cup Unreadable : RecordedBy(i, by, page)
  BY <1>2
<1>4. /\ item'[i] = Recorded(item[i], page, by)
      /\ item'[i].source = IF page \in Readable THEN by ELSE item[i].source
  BY <1>1, <1>3, RecordedRow DEF RecordedBy
<1>5. page \in Readable /\ by = r
  BY <1>4
<1>6. r \notin Demand
  BY NoneIsNoValue
<1> QED
  BY <1>3, <1>4, <1>5, <1>6 DEF RecordedBy

LEMMA SourcesArePreserved == Inv /\ Next => SourcesAreTheirRuns'
<1> SUFFICES ASSUME Inv, Next, NEW i \in Item, NEW r \in Run, item'[i].source = r
             PROVE  /\ r[1] = i
                    /\ run'[r].phase \notin {"idle", "loading", "fetching", "recording"}
  BY DEF SourcesAreTheirRuns
<1>1. CASE item[i].source = r
  <2>1. r[1] = i /\ run[r].phase \notin {"idle", "loading", "fetching", "recording"}
    BY <1>1 DEF Inv, SourcesAreTheirRuns
  <2>2. ~(task[r[1]].state = "queued" /\ task[r[1]].retried = r[2])
    BY <2>1 DEF Inv, RunsTakeTurns
  <2> QED
    BY <2>1, <2>2, PhasesGoForward
<1>2. CASE item[i].source # r
  <2>1. r[1] = i /\ (RecordSucceeds(r) \/ RecordFails(r))
    BY <1>2, SourcesAreRecorded
  <2>2. run'[r].phase \in {"scheduling", "reporting"}
    BY <2>1, RecordingEnds
  <2> QED
    BY <2>1, <2>2
<1> QED
  BY <1>1, <1>2

LEMMA VerdictsArePreserved == Inv /\ Next => VerdictsAreRecorded'
<1> SUFFICES ASSUME Inv, Next, NEW r \in Run, Live(r[1])',
                    \/ run'[r].phase = "scheduling"
                    \/ run'[r].phase = "reporting" /\ run'[r].verdict \in {"done", "skipRetry"}
             PROVE  item'[r[1]].status # "pending"
  BY DEF VerdictsAreRecorded
<1>1. r[1] \in Item /\ item[r[1]] \in ItemRow /\ run \in [Run -> RunState]
  BY RunIsAPair DEF Inv, TypeOK
<1>2. item[r[1]].state # "deleted"
  BY <1>1, RowsMoveOn DEF Live
<1>3. run[r].phase # "idle" => Live(r[1])
  BY <1>1, <1>2 DEF Inv, SavedFirst, Live, ItemRow
<1>4. Live(r[1]) /\ item[r[1]].status # "pending" => item'[r[1]].status # "pending"
  BY <1>1, RowsMoveOn
<1>5. CASE run'[r] = run[r]
  BY <1>3, <1>4, <1>5 DEF Inv, VerdictsAreRecorded
<1>6. CASE Schedule(r)
  BY <1>3, <1>4, <1>6 DEF Inv, VerdictsAreRecorded, Schedule
<1>7. CASE RecordSucceeds(r)
  <2>1. run[r].page \in Readable \cup Unreadable
    BY <1>7 DEF Inv, TypeOK, PagesAndVerdictsAreKnown, RunState, RecordSucceeds
  <2>2. item'[r[1]] = Recorded(item[r[1]], run[r].page, r)
    BY <1>1, <1>7 DEF RecordSucceeds, Inv, TypeOK
  <2> QED
    BY <1>1, <2>1, <2>2, RecordedRow
<1>8. CASE Load(r) \/ RecordNothing(r) \/ RecordFails(r)
  BY <1>1, <1>3, <1>8 DEF Load, RecordNothing, RecordFails, Decide, RunState
<1> QED
  BY <1>5, <1>6, <1>7, <1>8, PhasesGoForward

LEMMA HandoversHaveSourcesIsPreserved == Inv /\ Next => HandoversHaveSources'
<1> SUFFICES ASSUME Inv, Next, NEW r \in Run, item'[r[1]].state # "deleted",
                    run'[r].phase = "scheduling" \/ handover'[r].state # "none"
             PROVE  item'[r[1]].source # None
  BY DEF HandoversHaveSources
<1>1. r[1] \in Item /\ item[r[1]] \in ItemRow
  BY RunIsAPair DEF Inv, TypeOK
<1>2. item[r[1]].state # "deleted"
  BY <1>1, RowsMoveOn
<1>3. CASE run[r].phase = "scheduling" \/ handover[r].state # "none"
  BY <1>1, <1>2, <1>3, RowsMoveOn DEF Inv, HandoversHaveSources
<1>4. CASE ~(run[r].phase = "scheduling" \/ handover[r].state # "none")
  <2>1. ~Schedule(r) /\ ~HandoverNext(r)
    BY <1>4 DEF Schedule, HandoverNext, OrganizeNothing, OrganizeReserved, Organize,
       OrganizeFails
  <2>2. run'[r].phase = "scheduling"
    BY <1>4, <2>1, HandoverSteps
  <2>3. RecordSucceeds(r)
    BY <1>4, <2>2, PhasesGoForward
  <2>4. run[r].page \in Platform
    <3>1. run[r].page \in Readable \cup Unreadable
      BY <2>3 DEF Inv, TypeOK, PagesAndVerdictsAreKnown, RunState, RecordSucceeds
    <3>2. run[r].page \notin Platform => \E v \in Verdict : Decide(r, v)
      BY <2>3, <3>1 DEF RecordSucceeds, Verdict, Readable, Unreadable
    <3> QED
      BY <2>2, <3>2 DEF Decide, Inv, TypeOK
  <2>5. item'[r[1]] = Recorded(item[r[1]], run[r].page, r)
    BY <1>1, <2>3 DEF RecordSucceeds, Inv, TypeOK
  <2>6. item'[r[1]].source = r
    BY <1>1, <2>4, <2>5, RecordedRow DEF Readable
  <2> QED
    BY <2>6, NoneIsNoValue
<1> QED
  BY <1>3, <1>4

LEMMA PendingStaysExplained == Inv /\ Next => PendingIsExplained'
<1> SUFFICES ASSUME Inv, Next, NEW i \in Item, Live(i)', item'[i].status = "pending"
             PROVE  task'[i].state \in {"due", "refused", "queued", "active", "exhausted"}
  BY DEF PendingIsExplained
<1>1. item[i] \in ItemRow /\ task[i] \in TaskState
  BY DEF Inv, TypeOK
<1>2. \A s : [task[i] EXCEPT !.state = s].state = s
  BY <1>1 DEF TaskState
<1>3. CASE item[i].state = "unsaved"
  <2>1. Save(i)
    BY <1>1, <1>3, ItemSteps DEF ItemStep, RecordedBy, NothingToOrganize, Live
  <2> QED
    BY <2>1 DEF Save, Inv, TypeOK, TaskState
<1>4. CASE Live(i)
  <2>1. item[i].status = "pending"
    BY <1>4, RowsMoveOn
  <2>2. task[i].state \in {"due", "refused", "queued", "active", "exhausted"}
    BY <1>4, <2>1 DEF Inv, PendingIsExplained
  <2>3. ASSUME NEW r \in Run, r[1] = i, run[r].phase = "reporting",
               run[r].verdict \in {"done", "skipRetry"}
        PROVE  FALSE
    BY <1>4, <2>1, <2>3 DEF Inv, VerdictsAreRecorded
  <2>4. CASE task[i].state = "active"
    <3>1. \/ task'[i] = task[i]
          \/ task'[i] = [state |-> "queued", retried |-> task[i].retried + 1]
          \/ task'[i] = [task[i] EXCEPT !.state = "exhausted"]
          \/ Save(i)
      BY <2>3, <2>4, TaskSteps
    <3>2. ~Save(i)
      BY <1>4 DEF Save, Live
    <3>3. task'[i] = [state |-> "queued", retried |-> task[i].retried + 1] =>
            task'[i].state = "queued"
      OBVIOUS
    <3> QED
      BY <1>2, <2>2, <3>1, <3>2, <3>3
  <2>5. CASE task[i].state # "active"
    <3>1. \/ task'[i] = task[i]
          \/ Save(i)
          \/ \E answer \in {"queued", "refused"} :
               task'[i] = [task[i] EXCEPT !.state = answer]
          \/ task'[i] = [task[i] EXCEPT !.state = "active"]
      BY <2>5, TaskSteps
    <3>2. ~Save(i)
      BY <1>4 DEF Save, Live
    <3> QED
      BY <1>2, <2>2, <3>1, <3>2
  <2> QED
    BY <2>4, <2>5
<1>5. CASE item[i].state = "deleted"
  BY <1>5, RowsMoveOn DEF Live
<1> QED
  BY <1>1, <1>3, <1>4, <1>5 DEF ItemRow, Live


\* A row that r completed, and another call writes afterwards, has only got worse.
LEMMA SourceStays ==
  ASSUME Inv, Next, NEW r \in Run,
         item[r[1]].source = r, item'[r[1]].source = r, Live(r[1])'
  PROVE  /\ Live(r[1])
         /\ item'[r[1]].platform = item[r[1]].platform
         /\ item'[r[1]].status \in {item[r[1]].status, "failed"}
         /\ item'[r[1]].place = "Unsorted" /\ ~item'[r[1]].moved =>
              item[r[1]].place = "Unsorted" /\ ~item[r[1]].moved
<1> DEFINE i == r[1]
<1>1. i \in Item /\ item[i] \in ItemRow
  BY RunIsAPair DEF Inv, TypeOK
<1>2. run[r].phase \notin {"idle", "loading", "fetching", "recording"}
  BY <1>1 DEF Inv, SourcesAreTheirRuns
<1>3. CASE \E by \in Run \cup Demand, page \in Readable \cup Unreadable :
             RecordedBy(i, by, page)
  <2>1. PICK by \in Run \cup Demand, page \in Readable \cup Unreadable :
          RecordedBy(i, by, page)
    BY <1>3
  <2>2. by # r
    BY <1>2, <2>1, NoneIsNoValue DEF RecordedBy, RecordSucceeds, RecordFails
  <2>3. page \notin Readable
    BY <1>1, <2>1, <2>2, RecordedRow DEF RecordedBy
  <2>4. page \notin Platform
    BY <2>3 DEF Readable
  <2> QED
    BY <1>1, <2>1, <2>3, <2>4, RecordedRow DEF RecordedBy
<1>4. CASE ~\E by \in Run \cup Demand, page \in Readable \cup Unreadable :
             RecordedBy(i, by, page)
  <2>1. r # None /\ item[i].source = r
    BY NoneIsNoValue
  <2>2. item[i].state = "unsaved" => item[i] = NewRow
    BY <1>1 DEF Inv, SavedFirst
  <2>3. ~Save(i)
    BY <2>1, <2>2 DEF Save, NewRow
  <2> QED
    BY <1>1, <1>4, <2>1, <2>3, ItemSteps DEF ItemStep, ItemRow, NewRow, Live, Filed,
       NothingToOrganize
<1> QED
  BY <1>3, <1>4

\* A completion that gets into the row with a platform is handed over next, unless its
\* answer was lost.
LEMMA SourceArrives ==
  ASSUME Inv, Next, NEW r \in Run, item[r[1]].source # r, item'[r[1]].source = r
  PROVE  /\ item'[r[1]].status = "completed"
         /\ handover'[r].state = "none"
         /\ \/ run'[r].phase = "scheduling" /\ item'[r[1]].platform # None
            \/ /\ run'[r].phase = "reporting"
               /\ item'[r[1]].platform # None => run'[r].verdict = "retry"
<1>1. /\ r[1] \in Item /\ item[r[1]] \in ItemRow
      /\ run \in [Run -> RunState] /\ handover \in [Run -> HandoverState]
  BY RunIsAPair DEF Inv, TypeOK
<1>2. /\ run[r].page \in Readable
      /\ RecordSucceeds(r) \/ RecordFails(r)
      /\ item'[r[1]] = Recorded(item[r[1]], run[r].page, r)
  BY <1>1, SourcesAreRecorded
<1>3. /\ item'[r[1]].status = "completed"
      /\ item'[r[1]].platform = IF run[r].page \in Platform THEN run[r].page ELSE None
  BY <1>1, <1>2, RecordedRow
<1>4. handover'[r].state = "none"
  BY <1>1, <1>2 DEF Inv, HandoversComeLast, RecordSucceeds, RecordFails
<1>5. CASE RecordFails(r)
  BY <1>1, <1>2, <1>3, <1>4, <1>5, NoneIsNoValue DEF RecordFails, Decide
<1>6. CASE RecordSucceeds(r) /\ run[r].page \in Platform
  <2>1. run' = [run EXCEPT ![r].phase = "scheduling"]
    BY <1>6 DEF RecordSucceeds, Platform
  <2> QED
    BY <1>1, <1>3, <1>4, <1>6, <2>1, NoneIsNoValue DEF RunState
<1>7. CASE RecordSucceeds(r) /\ run[r].page \notin Platform
  <2>1. Decide(r, "done")
    BY <1>2, <1>7 DEF RecordSucceeds, Readable
  <2> QED
    BY <1>1, <1>3, <1>4, <1>7, <2>1 DEF Decide
<1> QED
  BY <1>2, <1>5, <1>6, <1>7

LEMMA SourcesStayRecorded ==
  ASSUME Inv, Next, NEW i \in Item, item'[i].source # None
  PROVE  item'[i].status # "pending"
<1>1. item[i] \in ItemRow
  BY DEF Inv, TypeOK
<1>2. CASE \E by \in Run \cup Demand, page \in Readable \cup Unreadable :
             RecordedBy(i, by, page)
  BY <1>1, <1>2, RecordedRow DEF RecordedBy
<1>3. CASE ~\E by \in Run \cup Demand, page \in Readable \cup Unreadable :
             RecordedBy(i, by, page)
  BY <1>1, <1>3, ItemSteps DEF Inv, SourcesHavePlatforms, ItemStep, ItemRow, NewRow, Filed
<1> QED
  BY <1>2, <1>3

LEMMA PlatformsArePreserved == Inv /\ Next => SourcesHavePlatforms'
<1> SUFFICES ASSUME Inv, Next, NEW r \in Run, item'[r[1]].source = r,
                    run'[r].phase = "scheduling" \/ handover'[r].state # "none"
             PROVE  item'[r[1]].platform # None
  BY SourcesStayRecorded DEF SourcesHavePlatforms
<1>1. r[1] \in Item /\ item[r[1]] \in ItemRow
  BY RunIsAPair DEF Inv, TypeOK
<1>2. CASE item[r[1]].source # r
  <2>1. /\ handover'[r].state = "none"
        /\ \/ run'[r].phase = "scheduling" /\ item'[r[1]].platform # None
           \/ run'[r].phase = "reporting"
    BY <1>2, SourceArrives
  <2> QED
    BY <2>1
<1>3. CASE item[r[1]].source = r
  <2>1. run[r].phase \notin {"idle", "loading", "fetching", "recording"}
    BY <1>1, <1>3 DEF Inv, SourcesAreTheirRuns
  <2>2. run[r].phase = "scheduling" \/ handover[r].state # "none"
    <3>1. CASE Schedule(r)
      BY <3>1 DEF Schedule
    <3>2. CASE HandoverNext(r)
      BY <3>2 DEF HandoverNext, OrganizeNothing, OrganizeReserved, Organize, OrganizeFails
    <3>3. CASE handover'[r] = handover[r] /\ run'[r].phase = "scheduling"
      <4>1. ~(task[r[1]].state = "queued" /\ task[r[1]].retried = r[2])
        BY <2>1 DEF Inv, RunsTakeTurns
      <4> QED
        BY <2>1, <3>3, <4>1, PhasesGoForward
    <3> QED
      BY <3>1, <3>2, <3>3, HandoverSteps
  <2>3. item[r[1]].platform # None
    BY <1>3, <2>2 DEF Inv, SourcesHavePlatforms
  <2>4. CASE Live(r[1])'
    BY <1>3, <2>3, <2>4, SourceStays
  <2>5. CASE ~Live(r[1])'
    <3>1. item[r[1]].source # None /\ item'[r[1]].source # None
      BY <1>3, NoneIsNoValue
    <3>2. ~\E by \in Run \cup Demand, page \in Readable \cup Unreadable :
             RecordedBy(r[1], by, page)
      BY <1>1, <2>5, RecordedRow DEF RecordedBy, Live
    <3>3. item[r[1]].state # "unsaved"
      BY <1>1, <3>1 DEF Inv, SavedFirst, NewRow
    <3>4. item'[r[1]].platform = item[r[1]].platform
      BY <1>1, <2>5, <3>1, <3>2, <3>3, ItemSteps
      DEF ItemStep, ItemRow, NewRow, Live, Filed
    <3> QED
      BY <2>3, <3>4
  <2> QED
    BY <2>4, <2>5
<1> QED
  BY <1>2, <1>3

LEMMA CompletedStaysHandedOver == Inv /\ Next => CompletedIsHandedOver'
<1> SUFFICES ASSUME Inv, Next, NEW r \in Run,
                    Live(r[1])', item'[r[1]].place = "Unsorted", ~item'[r[1]].moved,
                    CompletedBy(r)'
             PROVE  \/ run'[r].phase = "scheduling"
                    \/ handover'[r].state \in {"queued", "refused", "rejected", "exhausted"}
                    \/ /\ handover'[r].state = "none"
                       /\ run'[r].phase = "lost" \/ run'[r].verdict = "retry"
                    \/ handover'[r].state = "done" /\ Overtaken(r)'
  BY DEF CompletedIsHandedOver
<1> DEFINE i == r[1]
<1>1. /\ i \in Item /\ item[i] \in ItemRow /\ item \in [Item -> ItemRow]
      /\ run \in [Run -> RunState] /\ handover \in [Run -> HandoverState]
  BY RunIsAPair DEF Inv, TypeOK
<1>t. handover'[r].state \in {"none", "queued", "refused", "done", "rejected", "exhausted"}
  BY TypesArePreserved DEF TypeOK, HandoverState, Lifecycle, Ended
<1>2. CASE item'[i].source # r
  BY <1>t, <1>2 DEF CompletedBy, Overtaken
<1>3. CASE item'[i].source = r /\ item[i].source # r
  <2>1. /\ handover'[r].state = "none"
        /\ \/ run'[r].phase = "scheduling"
           \/ /\ run'[r].phase = "reporting"
              /\ item'[i].platform # None => run'[r].verdict = "retry"
    BY <1>3, SourceArrives
  <2> QED
    BY <2>1 DEF CompletedBy
<1>4. CASE item'[i].source = r /\ item[i].source = r
  <2>1. run[r].phase \notin {"idle", "loading", "fetching", "recording"}
    BY <1>1, <1>4 DEF Inv, SourcesAreTheirRuns
  <2>2. item'[i].platform # None
    BY <1>4, PlatformsArePreserved DEF CompletedBy, SourcesHavePlatforms
  <2>3. /\ Live(i) /\ item[i].place = "Unsorted" /\ ~item[i].moved
        /\ item[i].platform # None
        /\ item'[i].status \in {item[i].status, "failed"}
    BY <1>4, <2>2, SourceStays
  <2>4. \/ run[r].phase = "scheduling"
        \/ handover[r].state \in {"queued", "refused", "rejected", "exhausted"}
        \/ /\ handover[r].state = "none"
           /\ run[r].phase = "lost" \/ run[r].verdict = "retry"
        \/ handover[r].state = "done" /\ item[i].status = "failed"
    BY <1>4, <2>3 DEF Inv, CompletedIsHandedOver, CompletedBy, Overtaken
  <2>6. CASE Schedule(r)
    BY <1>1, <2>6 DEF Schedule, HandoverState
  <2>7. CASE HandoverNext(r)
    <3>1. handover[r].state = "queued" /\ run' = run
      BY <2>7 DEF HandoverNext, OrganizeNothing, OrganizeReserved, Organize, OrganizeFails
    <3>2. CASE OrganizeNothing(r)
      <4>0. item[i].status # "pending"
        BY <1>1, <1>4, NoneIsNoValue DEF Inv, SourcesHavePlatforms
      <4>1. item[i].status \notin {"completed", "pending"} /\ item' = item
        BY <2>3, <3>2, <4>0 DEF OrganizeNothing, NothingToOrganize, Organizable
      <4>2. item'[i].status = "failed" /\ handover'[r].state = "done"
        BY <1>1, <3>2, <4>1 DEF OrganizeNothing, ItemRow, HandoverState
      <4> QED
        BY <4>2 DEF Overtaken
    <3>3. ~Organize(r)
      <4> SUFFICES ASSUME Organize(r) PROVE FALSE
        OBVIOUS
      <4>1. item' = [item EXCEPT ![i] = FiledByPlatform[i]]
        BY DEF Organize
      <4>2. FiledByPlatform[i] = Filed(item[i])
        BY <1>1 DEF FiledByPlatform, Filed
      <4> QED
        BY <1>1, <4>1, <4>2 DEF Filed, ItemRow
    <3>4. OrganizeReserved(r) => handover'[r].state = "rejected"
      BY <1>1 DEF OrganizeReserved, HandoverState
    <3>5. OrganizeFails(r) => handover'[r].state \in {"queued", "exhausted"}
      BY <1>1, <3>1 DEF OrganizeFails, HandoverState
    <3> QED
      BY <2>7, <3>2, <3>3, <3>4, <3>5 DEF HandoverNext
  <2>8. CASE handover'[r] = handover[r] /\ ~Schedule(r)
    <3>1. ~(task[r[1]].state = "queued" /\ task[r[1]].retried = r[2])
      BY <2>1 DEF Inv, RunsTakeTurns
    <3>2. \/ run'[r] = run[r]
          \/ run[r].phase = "reporting" /\ run'[r].verdict = run[r].verdict
          \/ run[r].phase # "idle" /\ run'[r].phase = "lost"
      BY <2>1, <2>8, <3>1, PhasesGoForward
    <3>3. run[r].phase = "scheduling" => handover[r].state = "none"
      BY DEF Inv, HandoversComeLast, HandoverState, Lifecycle, Ended
    <3>4. CASE handover[r].state = "done"
      BY <2>3, <2>4, <2>8, <3>3, <3>4 DEF Overtaken
    <3>5. CASE handover[r].state # "done"
      BY <2>4, <2>8, <3>2, <3>3, <3>5
    <3> QED
      BY <3>4, <3>5
  <2> QED
    BY <2>6, <2>7, <2>8, HandoverSteps
<1> QED
  BY <1>2, <1>3, <1>4

LEMMA StepInv == Inv /\ [Next]_vars => Inv'
<1> SUFFICES ASSUME Inv, [Next]_vars PROVE Inv'
  OBVIOUS
<1>1. CASE Next
  BY <1>1, TypesArePreserved, SavedFirstIsPreserved, PagesAndVerdictsArePreserved,
     TurnsArePreserved, HandoversComeLastIsPreserved, SourcesArePreserved,
     VerdictsArePreserved, HandoversHaveSourcesIsPreserved, PlatformsArePreserved,
     PendingStaysExplained, CompletedStaysHandedOver DEF Inv
<1>2. CASE UNCHANGED vars
  BY <1>2 DEF vars, Inv, TypeOK, SavedFirst, PagesAndVerdictsAreKnown, RunsTakeTurns,
     HandoversComeLast, SourcesAreTheirRuns, VerdictsAreRecorded, HandoversHaveSources,
     SourcesHavePlatforms, PendingIsExplained, CompletedIsHandedOver, CompletedBy,
     Overtaken, Live
<1> QED
  BY <1>1, <1>2

LEMMA InvHolds == Spec => []Inv
  BY InitInv, StepInv, PTL DEF Spec

---------------------------------------------------------------------------
(***************************************************************************)
(* Theorems.                                                               *)
(***************************************************************************)

\* Every variable stays within the states the code can write: rows, tasks,
\* runs, hand-overs and requests, through every failure and redelivery.
THEOREM TypeCorrect == Spec => []TypeOK
<1>1. Inv => TypeOK
  BY DEF Inv
<1> QED
  BY <1>1, InvHolds, PTL

\* The save queues its task after the item, the worker queues organization
\* after the metadata: no task ever names a row the database has not accepted.
THEOREM TasksAreCommittedFirst == Spec => []TasksNameCommittedRows
<1>1. Inv => TasksNameCommittedRows
  BY DEF Inv, SavedFirst, HandoversHaveSources, TasksNameCommittedRows
<1> QED
  BY <1>1, InvHolds, PTL

\* An item that still says pending has a task under way, was never given one,
\* or used up its attempts: the worker ends a task only after it recorded what
\* happened.
THEOREM PendingIsAlwaysExplained == Spec => []PendingIsExplained
<1>1. Inv => PendingIsExplained
  BY DEF Inv
<1> QED
  BY <1>1, InvHolds, PTL

\* An item that the worker completed with a platform, and that its user never moved,
\* is in Unsorted only while its organization is under way, because that was refused,
\* archived or lost with its run, or because the completion was overtaken by a failed
\* or another completed attempt before the organization looked.
THEOREM CompletedIsAlwaysHandedOver == Spec => []CompletedIsHandedOver
<1>1. Inv => CompletedIsHandedOver
  BY DEF Inv
<1> QED
  BY <1>1, InvHolds, PTL

\* Late, failed and repeated attempts touch neither what a user filed, nor a
\* deleted item, nor the metadata an earlier attempt found.
THEOREM LateWorkIsHarmless == Spec => LateWorkDoesNoHarm
<1> DEFINE Harmless ==
      \A i \in Item :
       /\ item[i].place = "other" => item'[i].place # "platform"
       /\ item[i].state = "deleted" => item'[i] = item[i]
       /\ item'[i].platform # item[i].platform /\ Live(i)' =>
            item'[i].status = "completed"
<1>1. Inv /\ Next => Harmless
  <2> SUFFICES ASSUME Inv, Next, NEW i \in Item
               PROVE  /\ item[i].place = "other" => item'[i].place # "platform"
                      /\ item[i].state = "deleted" => item'[i] = item[i]
                      /\ item'[i].platform # item[i].platform /\ Live(i)' =>
                           item'[i].status = "completed"
    OBVIOUS
  <2>1. item[i] \in ItemRow
    BY DEF Inv, TypeOK
  <2>2. ASSUME NEW by \in Run \cup Demand, NEW page \in Readable \cup Unreadable,
               RecordedBy(i, by, page)
        PROVE  /\ item'[i].place = item[i].place
               /\ item'[i].platform # item[i].platform => item'[i].status = "completed"
    BY <2>1, <2>2, RecordedRow DEF RecordedBy, Readable
  <2>3. CASE \E by \in Run \cup Demand, page \in Readable \cup Unreadable :
               RecordedBy(i, by, page)
    BY <2>2, <2>3 DEF RecordedBy, Live
  <2>4. CASE ~\E by \in Run \cup Demand, page \in Readable \cup Unreadable :
               RecordedBy(i, by, page)
    BY <2>1, <2>4, ItemSteps, RowsMoveOn DEF ItemStep, ItemRow, NewRow, Live, Filed,
       NothingToOrganize
  <2> QED
    BY <2>3, <2>4
<1>2. UNCHANGED vars => Harmless
  BY DEF vars, Live
<1>3. Inv /\ [Next]_vars => [Harmless]_vars
  BY <1>1, <1>2
<1> QED
  BY <1>3, InvHolds, PTL DEF Spec, LateWorkDoesNoHarm
=============================================================================
