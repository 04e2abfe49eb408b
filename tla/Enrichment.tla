----------------------------- MODULE Enrichment -----------------------------
(***************************************************************************)
(* From a save to a filed item: the request that saves an item and queues  *)
(* its enrichment, the worker that enriches it and queues its              *)
(* organization, the worker that files it, and the requests that enrich    *)
(* on demand, move and delete it meanwhile.                                *)
(*                                                                         *)
(* Rows are in PostgreSQL, tasks in Redis, and no transaction spans the    *)
(* two.  Every statement of these flows is its own transaction, except     *)
(* that organization is one transaction under the item's row lock: here    *)
(* one step, in module Filing statement by statement.                      *)
(*                                                                         *)
(* The queue (asynq) delivers a task, waits for the handler's verdict, and *)
(* delivers again after a retryable failure or when the lease of a         *)
(* delivery runs out: the process died, stalled, or the attempt exceeded   *)
(* its timeout.  A handler whose lease ran out may still be running, so    *)
(* two attempts at one item can overlap.  Deliveries of a task are         *)
(* numbered by its retry count, hence <<i, n>> names one run of the        *)
(* handler.                                                                *)
(*                                                                         *)
(* Abstracted: metadata to its platform and to the call that extracted it; *)
(* collections to Unsorted, the one the worker filed the item in           *)
(* ("platform"), and one its user chose ("other").                         *)
(***************************************************************************)
EXTENDS Naturals

CONSTANTS
  Item,                 \* saved items, each saved at most once
  Demand,               \* calls of POST /saved-items/{id}/enrich
  EnrichmentMaxRetry,
  OrganizationMaxRetry,
  None                  \* SQL NULL, no value

Run == Item \X (0 .. EnrichmentMaxRetry)

ASSUME RetriesAreNumbers ==
  EnrichmentMaxRetry \in Nat /\ OrganizationMaxRetry \in Nat

VARIABLES
  item,      \* saved_items
  task,      \* per item: its enrichment task
  run,       \* per delivery of an enrichment task: the handler's run
  handover,  \* per run: the organization task it queued
  demand     \* enrichment on demand

vars == <<item, task, run, handover, demand>>

\* The name of a platform is trimmed and compared; one that reads "unsorted"
\* is reserved.
Platform == {"platform", "reserved"}
Readable == Platform \cup {"bare"}             \* what a page that was read says
Unreadable == {"transient", "permanent"}       \* FailureFetch, FailureContent

\* source is the call whose extraction the metadata columns hold, stamped by
\* last_enriched_at; moved says that the user ever filed the item.
ItemRow ==
  [state : {"unsaved", "live", "deleted"},
   status : {"pending", "completed", "failed"},
   platform : Platform \cup {None}, source : Run \cup Demand \cup {None},
   place : {"Unsorted", "platform", "other"}, moved : BOOLEAN]

Ended == {"done", "rejected", "exhausted"}
Lifecycle == {"none", "queued", "active", "refused"} \cup Ended

\* "due": the item is committed, its task not yet queued.  "rejected" and
\* "exhausted" are the two ways into the archive.
TaskState == [state : {"due"} \cup Lifecycle, retried : 0 .. EnrichmentMaxRetry]
HandoverState == [state : Lifecycle \ {"active"}, retried : 0 .. OrganizationMaxRetry]

Working == {"loading", "fetching", "recording", "scheduling"}
Verdict == {"done", "skipRetry", "retry"}

ASSUME NamesAreDistinct ==
  /\ Demand \cap Run = {}
  /\ None \notin Demand \cup Run \cup Item \cup Readable \cup Unreadable \cup Verdict

RunState ==
  [phase : {"idle", "reporting", "ended", "lost"} \cup Working,
   page : Readable \cup Unreadable \cup {None}, verdict : Verdict \cup {None}]

DemandState ==
  [phase : {"idle", "loading", "fetching", "recording", "ended"},
   item : Item \cup {None}, page : Readable \cup Unreadable \cup {None}]

NewRow ==
  [state |-> "unsaved", status |-> "pending", platform |-> None,
   source |-> None, place |-> "Unsorted", moved |-> FALSE]

Init ==
  /\ item = [i \in Item |-> NewRow]
  /\ task = [i \in Item |-> [state |-> "none", retried |-> 0]]
  /\ run = [r \in Run |-> [phase |-> "idle", page |-> None, verdict |-> None]]
  /\ handover = [r \in Run |-> [state |-> "none", retried |-> 0]]
  /\ demand = [d \in Demand |-> [phase |-> "idle", item |-> None, page |-> None]]

Live(i) == item[i].state = "live"

---------------------------------------------------------------------------
(* Saving, moving and deleting.                                            *)

Save(i) ==
  /\ item[i].state = "unsaved"
  /\ item' = [item EXCEPT ![i].state = "live"]
  /\ task' = [task EXCEPT ![i].state = "due"]
  /\ UNCHANGED <<run, handover, demand>>

\* A refused enqueue is logged and swallowed; a process that dies here, or
\* one without an enqueuer, leaves the same item behind.
EnqueueEnrichment(i) ==
  /\ task[i].state = "due"
  /\ \E answer \in {"queued", "refused"} :
       task' = [task EXCEPT ![i].state = answer]
  /\ UNCHANGED <<item, run, handover, demand>>

MoveByUser(i, place) ==
  /\ Live(i)
  /\ item' = [item EXCEPT ![i].place = place, ![i].moved = TRUE]
  /\ UNCHANGED <<task, run, handover, demand>>

Delete(i) ==
  /\ Live(i)
  /\ item' = [item EXCEPT ![i] = [NewRow EXCEPT !.state = "deleted"]]
  /\ UNCHANGED <<task, run, handover, demand>>

---------------------------------------------------------------------------
(* What the enrichment statements write, for the worker and the API alike. *)

Completed(row, page, by) ==
  [row EXCEPT !.status = "completed", !.source = by,
              !.platform = IF page \in Platform THEN page ELSE None]

Failed(row) == [row EXCEPT !.status = "failed"]

\* A failure touches no metadata column and leaves last_enriched_at alone.
Recorded(row, page, by) ==
  IF page \in Readable THEN Completed(row, page, by) ELSE Failed(row)

---------------------------------------------------------------------------
(* A run of the enrichment handler.                                        *)

Deliver(i) ==
  /\ task[i].state = "queued"
  /\ task' = [task EXCEPT ![i].state = "active"]
  /\ run' = [run EXCEPT ![<<i, task[i].retried>>].phase = "loading"]
  /\ UNCHANGED <<item, handover, demand>>

Decide(r, verdict) ==
  run' = [run EXCEPT ![r] = [phase |-> "reporting", page |-> None,
                             verdict |-> verdict]]

\* A deleted item ends the task; a database failure is retried.
Load(r) ==
  /\ run[r].phase = "loading"
  /\ \/ Live(r[1]) /\ run' = [run EXCEPT ![r].phase = "fetching"]
     \/ ~Live(r[1]) /\ Decide(r, "done")
     \/ Decide(r, "retry")
  /\ UNCHANGED <<item, task, handover, demand>>

Fetch(r) ==
  /\ run[r].phase = "fetching"
  /\ \E page \in Readable \cup Unreadable :
       run' = [run EXCEPT ![r].phase = "recording", ![r].page = page]
  /\ UNCHANGED <<item, task, handover, demand>>

\* The item was deleted between the load and the write.
RecordNothing(r) ==
  /\ run[r].phase = "recording"
  /\ ~Live(r[1])
  /\ Decide(r, "done")
  /\ UNCHANGED <<item, task, handover, demand>>

RecordSucceeds(r) ==
  /\ run[r].phase = "recording"
  /\ Live(r[1])
  /\ item' = [item EXCEPT ![r[1]] = Recorded(@, run[r].page, r)]
  /\ CASE run[r].page \in Platform -> run' = [run EXCEPT ![r].phase = "scheduling"]
       [] run[r].page = "bare"      -> Decide(r, "done")
       [] run[r].page = "transient" -> Decide(r, "retry")
       [] run[r].page = "permanent" -> Decide(r, "skipRetry")
  /\ UNCHANGED <<task, handover, demand>>

\* The statement failed, or its answer was lost after it took effect: either
\* way the database's error replaces the page's, and the task is retried.
RecordFailsForgotten(r) ==
  /\ run[r].phase = "recording"
  /\ Decide(r, IF run[r].page = "permanent" THEN "skipRetry" ELSE "retry")
  /\ UNCHANGED <<item, task, handover, demand>>

RecordFails(r) ==
  /\ run[r].phase = "recording"
  /\ \/ UNCHANGED item
     \/ /\ Live(r[1])
        /\ item' = [item EXCEPT ![r[1]] = Recorded(@, run[r].page, r)]
  /\ Decide(r, "retry")
  /\ UNCHANGED <<task, handover, demand>>

\* A refused organization task is logged and swallowed.
Schedule(r) ==
  /\ run[r].phase = "scheduling"
  /\ \E answer \in {"queued", "refused"} :
       handover' = [handover EXCEPT ![r].state = answer]
  /\ Decide(r, "done")
  /\ UNCHANGED <<item, task, demand>>

---------------------------------------------------------------------------
(* The queue.                                                              *)

RetryOrArchive(i) ==
  IF task[i].retried < EnrichmentMaxRetry
    THEN [task EXCEPT ![i] = [state |-> "queued", retried |-> task[i].retried + 1]]
    ELSE [task EXCEPT ![i].state = "exhausted"]

\* Only the delivery that holds the task is heard.
Report(r) ==
  /\ run[r].phase = "reporting"
  /\ run' = [run EXCEPT ![r].phase = "ended"]
  /\ IF task[r[1]].state = "active" /\ task[r[1]].retried = r[2]
       THEN task' = CASE run[r].verdict = "done" ->
                           [task EXCEPT ![r[1]].state = "done"]
                      [] run[r].verdict = "skipRetry" ->
                           [task EXCEPT ![r[1]].state = "rejected"]
                      [] run[r].verdict = "retry" -> RetryOrArchive(r[1])
       ELSE UNCHANGED task
  /\ UNCHANGED <<item, handover, demand>>

LeaseExpiresForever(i) ==
  /\ task[i].state = "active"
  /\ task' = [task EXCEPT ![i].state = "queued"]
  /\ UNCHANGED <<item, run, handover, demand>>

LeaseExpires(i) ==
  /\ task[i].state = "active"
  /\ task' = RetryOrArchive(i)
  /\ UNCHANGED <<item, run, handover, demand>>

WorkerDies(r) ==
  /\ run[r].phase \in Working \cup {"reporting"}
  /\ run' = [run EXCEPT ![r] = [phase |-> "lost", page |-> None, verdict |-> None]]
  /\ UNCHANGED <<item, task, handover, demand>>

---------------------------------------------------------------------------
(* Automatic organization, decided on the locked row.                      *)

Organizable(i) == item[i].status = "completed" /\ item[i].platform # None

NothingToOrganizeAnywhere(i) == ~Live(i) \/ ~Organizable(i)

NothingToOrganize(i) ==
  ~Live(i) \/ ~Organizable(i) \/ item[i].place # "Unsorted"

FiledByPlatform == [i \in Item |-> [item[i] EXCEPT !.place = "platform"]]

OrganizeNothing(r) ==
  /\ handover[r].state = "queued"
  /\ NothingToOrganize(r[1])
  /\ handover' = [handover EXCEPT ![r].state = "done"]
  /\ UNCHANGED <<item, task, run, demand>>

\* A reserved name, and a collection of that name that is neither found nor can be
\* created (it was deleted in between), give the same error.
OrganizeReserved(r) ==
  /\ handover[r].state = "queued"
  /\ ~NothingToOrganize(r[1])
  /\ handover' = [handover EXCEPT ![r].state = "rejected"]
  /\ UNCHANGED <<item, task, run, demand>>

Organize(r) ==
  /\ handover[r].state = "queued"
  /\ ~NothingToOrganize(r[1])
  /\ item[r[1]].platform = "platform"
  /\ item' = [item EXCEPT ![r[1]] = FiledByPlatform[r[1]]]
  /\ handover' = [handover EXCEPT ![r].state = "done"]
  /\ UNCHANGED <<task, run, demand>>

\* A failed attempt is reported to the queue as finished.
OrganizeFailsSilently(r) ==
  /\ handover[r].state = "queued"
  /\ handover' = [handover EXCEPT ![r].state = "done"]
  /\ UNCHANGED <<item, task, run, demand>>

\* A database failure, a worker that died, or a commit whose answer was lost.
OrganizeFails(r) ==
  /\ handover[r].state = "queued"
  /\ \/ UNCHANGED item
     \/ /\ ~NothingToOrganize(r[1])
        /\ item[r[1]].platform = "platform"
        /\ item' = [item EXCEPT ![r[1]] = FiledByPlatform[r[1]]]
  /\ handover' = IF handover[r].retried < OrganizationMaxRetry
                   THEN [handover EXCEPT ![r].retried = @ + 1]
                   ELSE [handover EXCEPT ![r].state = "exhausted"]
  /\ UNCHANGED <<task, run, demand>>

---------------------------------------------------------------------------
(* Enrichment on demand: the same statements, and no organization.         *)

EndDemand(d) ==
  demand' = [demand EXCEPT ![d] = [phase |-> "ended", item |-> None, page |-> None]]

BeginDemand(d, i) ==
  /\ demand[d].phase = "idle"
  /\ item[i].state # "unsaved"
  /\ demand' = [demand EXCEPT ![d].phase = "loading", ![d].item = i]
  /\ UNCHANGED <<item, task, run, handover>>

LoadDemand(d) ==
  /\ demand[d].phase = "loading"
  /\ \/ /\ Live(demand[d].item)
        /\ demand' = [demand EXCEPT ![d].phase = "fetching"]
     \/ EndDemand(d)
  /\ UNCHANGED <<item, task, run, handover>>

FetchDemand(d) ==
  /\ demand[d].phase = "fetching"
  /\ \E page \in Readable \cup Unreadable :
       demand' = [demand EXCEPT ![d].phase = "recording", ![d].page = page]
  /\ UNCHANGED <<item, task, run, handover>>

RecordDemand(d) ==
  /\ demand[d].phase = "recording"
  /\ \/ /\ Live(demand[d].item)
        /\ item' = [item EXCEPT ![demand[d].item] = Recorded(@, demand[d].page, d)]
     \/ UNCHANGED item
  /\ EndDemand(d)
  /\ UNCHANGED <<task, run, handover>>

---------------------------------------------------------------------------
ItemNext(i) ==
  \/ Save(i) \/ EnqueueEnrichment(i) \/ Delete(i)
  \/ \E place \in {"Unsorted", "other"} : MoveByUser(i, place)

RunNext(r) ==
  \/ Load(r) \/ Fetch(r)
  \/ RecordNothing(r) \/ RecordSucceeds(r) \/ RecordFails(r)
  \/ Schedule(r) \/ Report(r)

HandoverNext(r) ==
  OrganizeNothing(r) \/ OrganizeReserved(r) \/ Organize(r) \/ OrganizeFails(r)

DemandNext(d) == LoadDemand(d) \/ FetchDemand(d) \/ RecordDemand(d)

Next ==
  \/ \E i \in Item : ItemNext(i) \/ Deliver(i) \/ LeaseExpires(i)
  \/ \E r \in Run : RunNext(r) \/ WorkerDies(r) \/ HandoverNext(r)
  \/ \E d \in Demand : DemandNext(d) \/ (\E i \in Item : BeginDemand(d, i))

Spec == Init /\ [][Next]_vars

\* A request goes on once it began.  A worker process is running, asynq
\* delivers what is queued, and a lease that nobody extends runs out.
Fairness ==
  /\ \A i \in Item : WF_vars(EnqueueEnrichment(i))
  /\ \A i \in Item : WF_vars(Deliver(i)) /\ WF_vars(LeaseExpires(i))
  /\ \A r \in Run : WF_vars(RunNext(r)) /\ WF_vars(HandoverNext(r))
  /\ \A d \in Demand : WF_vars(DemandNext(d))

FairSpec == Spec /\ Fairness

---------------------------------------------------------------------------
(* Properties.                                                             *)

\* Every variable stays within the states the code can write.
TypeOK ==
  /\ item \in [Item -> ItemRow]
  /\ task \in [Item -> TaskState]
  /\ run \in [Run -> RunState]
  /\ handover \in [Run -> HandoverState]
  /\ demand \in [Demand -> DemandState]

\* A task never names a row the database has not accepted: an enrichment task
\* exists only after its item was committed, an organization task only after
\* some extraction of that item was.
TasksNameCommittedRows ==
  /\ \A i \in Item : task[i].state # "none" => item[i].state # "unsaved"
  /\ \A r \in Run : handover[r].state # "none" /\ item[r[1]].state # "deleted" =>
       item[r[1]].source # None

\* An item that still says pending has a task that will be delivered again,
\* was never given one, or used up its attempts: a task that ended as finished
\* or as permanently failed is never the only record of what happened, however
\* its statements and its process failed.
PendingIsExplained ==
  \A i \in Item :
    Live(i) /\ item[i].status = "pending" =>
      task[i].state \in {"due", "refused", "queued", "active", "exhausted"}

\* r completed its item with a platform; it did so for good, once it is about to hand
\* the item over.
CompletedBy(r) ==
  \/ run[r].phase = "scheduling" \/ handover[r].state # "none"
  \/ item[r[1]].source = r /\ item[r[1]].platform # None

\* Another attempt, or a request on demand, has since failed or found another page.
Overtaken(r) == item[r[1]].status = "failed" \/ item[r[1]].source # r

\* An item that the worker completed with a platform and that its user never moved
\* is in Unsorted only while its organization is under way; because the enqueue was
\* refused, the run never got to it, or the task was archived; or because the
\* completion was overtaken before the organization looked, and that ended with
\* nothing to do.  The last is lasting: what failed then, or was completed on demand,
\* is queued by nobody.
CompletedIsHandedOver ==
  \A r \in Run :
    (/\ Live(r[1]) /\ item[r[1]].place = "Unsorted" /\ ~item[r[1]].moved
     /\ CompletedBy(r)) =>
       \/ run[r].phase = "scheduling"
       \/ handover[r].state \in {"queued", "refused", "rejected", "exhausted"}
       \/ /\ handover[r].state = "none"
          /\ run[r].phase = "lost" \/ run[r].verdict = "retry"
       \/ handover[r].state = "done" /\ Overtaken(r)

\* Automatic organization never takes an item out of a collection its user
\* put it in, a late attempt never revives a deleted item, and one that failed
\* never takes away what an earlier one found.
LateWorkDoesNoHarm ==
  [][\A i \in Item :
       /\ item[i].place = "other" => item'[i].place # "platform"
       /\ item[i].state = "deleted" => item'[i] = item[i]
       /\ item'[i].platform # item[i].platform /\ Live(i)' =>
            item'[i].status = "completed"]_vars

\* Every task that was queued ends, delivered a bounded number of times, and
\* so does every enrichment a client asked for.
WorkEnds ==
  /\ \A i \in Item : task[i].state = "queued" ~> task[i].state \in Ended
  /\ \A r \in Run : handover[r].state = "queued" ~> handover[r].state \in Ended
  /\ \A d \in Demand : demand[d].phase = "loading" ~> demand[d].phase = "ended"
=============================================================================
