------------------------------- MODULE Filing -------------------------------
(***************************************************************************)
(* One user's saved items and collections: filing an item                  *)
(* (PUT /saved-items/{id}/collection), automatic organization (the         *)
(* worker), and deleting a collection with its items, at the granularity   *)
(* of the PostgreSQL statements of their READ COMMITTED transactions.      *)
(*                                                                         *)
(* Item row locks, KEY SHARE locks on a collection and the exclusive lock  *)
(* of a DELETE are read off the transactions' states.  Writes are applied  *)
(* by the commit step: until then the rows they touch are locked.  What a  *)
(* request answers is the branch it ends by; only the rows remain of it.   *)
(*                                                                         *)
(* Bounds: Item and Collection are finite in a TLC model, so saves and new *)
(* collections run out; MaxConcurrent transactions are open at once.       *)
(***************************************************************************)
EXTENDS Naturals, FiniteSets

CONSTANTS
    Item, Collection, Name,     \* row identities; names as the index compares them
    Platform,                   \* the names that pages are of
    Unsorted, UnsortedName,     \* the collection with system_key 'unsorted'
    Filer, Organizer, Remover,  \* concurrent requests and worker tasks
    MaxConcurrent,              \* how many of them are in progress at once
    None                        \* SQL NULL, no value

ASSUME UnsortedAssumption ==
    /\ Unsorted \in Collection
    /\ UnsortedName \in Name

ASSUME PlatformAssumption == Platform \subseteq Name

ASSUME NoneAssumption == None \notin Item \cup Collection \cup Name

ASSUME HomeAssumption == {"unsaved", "gone"} \cap Collection = {}

ASSUME TxnAssumption ==
    /\ Filer \cap Organizer = {}
    /\ Filer \cap Remover = {}
    /\ Organizer \cap Remover = {}

VARIABLES
    item,       \* table saved_items
    coll,       \* table collections
    filing,     \* the transactions of Filer and Organizer
    removal     \* the transactions of Remover

vars == << item, coll, filing, removal >>

Mover == Filer \cup Organizer

RowState == {"unborn", "live", "deleted"}

\* platform is set once enrichment completed with a platform, None before.
ItemRow == [state : RowState, in : Collection, platform : Name \cup {None}]

CollRow == [state : RowState, name : Name]

Holding == {"find", "insert", "lookup", "move", "commit"}

Intent == {"existing", "create", "organize"}

FilingState ==
    [pc : {"idle", "lock"} \cup Holding, item : Item \cup {None},
     name : Name \cup {None}, intent : Intent, seen : Collection \cup {None},
     dest : Collection \cup {None}, made : Collection \cup {None}]

\* target is None for the action 'delete'.
RemovalState ==
    [pc : {"idle", "source", "target", "begin", "dispose", "delete", "restrict"},
     source : Collection \cup {None}, target : Collection \cup {None},
     scan : SUBSET Item, taken : SUBSET Item]

TypeOK ==
    /\ item \in [Item -> ItemRow]
    /\ coll \in [Collection -> CollRow]
    /\ filing \in [Mover -> FilingState]
    /\ removal \in [Remover -> RemovalState]

IdleFiling ==
    [pc |-> "idle", item |-> None, name |-> None, intent |-> "existing",
     seen |-> None, dest |-> None, made |-> None]

IdleRemoval ==
    [pc |-> "idle", source |-> None, target |-> None, scan |-> {}, taken |-> {}]

\* Nothing remains of a deleted row but that its identity is taken.
DeletedItem == [state |-> "deleted", in |-> Unsorted, platform |-> None]

DeletedColl == [state |-> "deleted", name |-> UnsortedName]

\* Migration 000022 and registration give every user an Unsorted collection.
Init ==
    /\ item = [i \in Item |->
          [state |-> "unborn", in |-> Unsorted, platform |-> None]]
    /\ coll = [c \in Collection |->
          [state |-> IF c = Unsorted THEN "live" ELSE "unborn",
           name |-> UnsortedName]]
    /\ filing = [p \in Mover |-> IdleFiling]
    /\ removal = [r \in Remover |-> IdleRemoval]

-----------------------------------------------------------------------------
(* Rows and locks                                                          *)

LiveItem(i) == item[i].state = "live"

LiveColl(c) == coll[c].state = "live"

Contents(c) == {i \in Item : LiveItem(i) /\ item[i].in = c}

\* Collections a statement's snapshot finds under name n, at most one.
Named(n) == {c \in Collection : LiveColl(c) /\ coll[c].name = n}

\* Faulty: the item is read without FOR UPDATE by organization.
HoldsItemUnlessOrganizing(p, i) ==
    IF p \in Remover THEN i \in removal[p].taken
    ELSE /\ p \in Filer
         /\ filing[p].pc \in Holding
         /\ filing[p].item = i

\* FOR UPDATE by a mover, UPDATE or DELETE by a remover.
HoldsItem(p, i) ==
    IF p \in Remover THEN i \in removal[p].taken
    ELSE filing[p].pc \in Holding /\ filing[p].item = i

ItemFree(i) == \A p \in Mover \cup Remover : ~HoldsItem(p, i)

\* Faulty: a deletion locks its collection before it visits the items.
DeletingFirst(r, c) ==
    removal[r].pc \in {"dispose", "delete", "restrict"} /\ removal[r].source = c

\* A DELETE of the collection row that has not committed.
Deleting(r, c) == removal[r].pc = "restrict" /\ removal[r].source = c

Undisturbed(c) == \A r \in Remover : ~Deleting(r, c)

\* FOR KEY SHARE, taken by the foreign key check of a row that references c.
Shares(p, c) ==
    IF p \in Remover
    THEN /\ removal[p].pc \in {"delete", "restrict"}
         /\ removal[p].target = c
         /\ removal[p].taken # {}
    ELSE /\ filing[p].pc = "commit"
         /\ filing[p].dest = c
         /\ filing[p].made # c

\* The name's index entry of a collection that p has inserted, uncommitted.
Claims(p, n) == filing[p].made # None /\ filing[p].name = n

Busy == {p \in Mover : filing[p].pc # "idle"}
            \cup {r \in Remover : removal[r].pc # "idle"}

MayBegin == Cardinality(Busy) < MaxConcurrent

FinishFiling(p) == filing' = [filing EXCEPT ![p] = IdleFiling]

FinishRemoval(r) == removal' = [removal EXCEPT ![r] = IdleRemoval]

-----------------------------------------------------------------------------
(* Saving, deleting and enriching one item: single statements              *)

\* CreateSavedItem, after an unlocked read of the user's Unsorted.
Save(i) ==
    /\ item[i].state = "unborn"
    /\ LiveColl(Unsorted)
    /\ item' = [item EXCEPT ![i] =
          [state |-> "live", in |-> Unsorted, platform |-> None]]
    /\ UNCHANGED << coll, filing, removal >>

DeleteItem(i) ==
    /\ LiveItem(i)
    /\ ItemFree(i)
    /\ item' = [item EXCEPT ![i] = DeletedItem]
    /\ UNCHANGED << coll, filing, removal >>

\* An enrichment attempt is recorded: n is the page's platform or None.
Enrich(i, n) ==
    /\ LiveItem(i)
    /\ ItemFree(i)
    /\ item' = [item EXCEPT ![i].platform = n]
    /\ UNCHANGED << coll, filing, removal >>

-----------------------------------------------------------------------------
(* Filing: PutSavedItemIntoUserCollection and OrganizeSavedItem            *)

\* Requests and tasks name rows that were there once; the identity of none is
\* answered like that of a deleted one.
BeginPut(p, i, n, intent) ==
    /\ MayBegin
    /\ p \in Filer
    /\ intent \in {"existing", "create"}
    /\ filing[p].pc = "idle"
    /\ item[i].state # "unborn"
    /\ filing' = [filing EXCEPT ![p] =
          [IdleFiling EXCEPT !.pc = "lock", !.item = i,
                             !.name = n, !.intent = intent]]
    /\ UNCHANGED << item, coll, removal >>

\* LockSavedItemForUser waits for the row and re-reads it.
LockItem(p) ==
    LET i == filing[p].item IN
    /\ p \in Filer
    /\ filing[p].pc = "lock"
    /\ ItemFree(i)
    /\ \/ /\ LiveItem(i)
          /\ filing' = [filing EXCEPT ![p].pc = "insert"]
       \/ /\ ~LiveItem(i)
          /\ FinishFiling(p)
    /\ UNCHANGED << item, coll, removal >>

\* A task names an item; the join reads the item's collection in the
\* statement's snapshot, before any wait for the row lock.
BeginOrganize(p, i) ==
    /\ MayBegin
    /\ p \in Organizer
    /\ filing[p].pc = "idle"
    /\ item[i].state # "unborn"
    /\ filing' = [filing EXCEPT ![p] =
          IF LiveItem(i)
          THEN [IdleFiling EXCEPT !.pc = "lock", !.item = i,
                             !.intent = "organize", !.seen = item[i].in]
          ELSE IdleFiling]
    /\ UNCHANGED << item, coll, removal >>

\* A row deleted or filed elsewhere during the wait no longer joins to the
\* collection that was read: no row.
OrganizeMissing(p) ==
    LET i == filing[p].item IN
    /\ p \in Organizer
    /\ filing[p].pc = "lock"
    /\ ItemFree(i)
    /\ ~LiveItem(i) \/ item[i].in # filing[p].seen
    /\ FinishFiling(p)
    /\ UNCHANGED << item, coll, removal >>

\* Nothing to do, a reserved name, or a platform to file under.
OrganizeDecides(p) ==
    LET i == filing[p].item
        n == item[i].platform
    IN
    /\ p \in Organizer
    /\ filing[p].pc = "lock"
    /\ ItemFree(i)
    /\ LiveItem(i)
    /\ item[i].in = filing[p].seen
    /\ \/ /\ n = None \/ item[i].in # Unsorted
          /\ FinishFiling(p)
       \/ /\ n = UnsortedName
          /\ item[i].in = Unsorted
          /\ FinishFiling(p)
       \/ /\ n \notin {None, UnsortedName}
          /\ item[i].in = Unsorted
          /\ filing' = [filing EXCEPT ![p].pc = "find", ![p].name = n]
    /\ UNCHANGED << item, coll, removal >>

\* GetCollectionByNameForOrganization before the insert.
Find(p) ==
    /\ filing[p].pc = "find"
    /\ \/ \E c \in Named(filing[p].name) :
             filing' = [filing EXCEPT ![p].pc = "move", ![p].dest = c]
       \/ /\ Named(filing[p].name) = {}
          /\ filing' = [filing EXCEPT ![p].pc = "insert"]
    /\ UNCHANGED << item, coll, removal >>

\* INSERT ... ON CONFLICT (user_id, name) DO NOTHING waits for an uncommitted
\* insert or delete of the name.
NameSettled(p) ==
    /\ \A q \in Mover \ {p} : ~Claims(q, filing[p].name)
    /\ \A c \in Named(filing[p].name) : Undisturbed(c)

\* Faulty: a check and an insert, with nothing to stop a second insert between.
InsertUnchecked(p, c) ==
    /\ filing[p].pc = "insert"
    /\ Named(filing[p].name) = {}
    /\ coll[c].state = "unborn"
    /\ \A q \in Mover : filing[q].made # c
    /\ filing' = [filing EXCEPT ![p].pc = "move", ![p].dest = c, ![p].made = c]
    /\ UNCHANGED << item, coll, removal >>

Insert(p, c) ==
    /\ filing[p].pc = "insert"
    /\ NameSettled(p)
    /\ Named(filing[p].name) = {}
    /\ coll[c].state = "unborn"
    /\ \A q \in Mover : filing[q].made # c
    /\ filing' = [filing EXCEPT ![p].pc = "move", ![p].dest = c, ![p].made = c]
    /\ UNCHANGED << item, coll, removal >>

\* The insert returned no row.
InsertConflicts(p) ==
    /\ filing[p].pc = "insert"
    /\ NameSettled(p)
    /\ Named(filing[p].name) # {}
    /\ IF filing[p].intent = "create"
       THEN FinishFiling(p)
       ELSE filing' = [filing EXCEPT ![p].pc = "lookup"]
    /\ UNCHANGED << item, coll, removal >>

\* The second statement has a snapshot of its own: the collection may be gone.
Lookup(p) ==
    /\ filing[p].pc = "lookup"
    /\ \/ \E c \in Named(filing[p].name) :
             filing' = [filing EXCEPT ![p].pc = "move", ![p].dest = c]
       \/ /\ Named(filing[p].name) = {}
          /\ FinishFiling(p)
    /\ UNCHANGED << item, coll, removal >>

AlreadyThere(p) ==
    /\ filing[p].pc = "move"
    /\ filing[p].dest = item[filing[p].item].in
    /\ FinishFiling(p)
    /\ UNCHANGED << item, coll, removal >>

\* The UPDATE and its foreign key check, which waits for a deletion of the
\* destination and fails if that committed.
Move(p) ==
    LET c == filing[p].dest IN
    /\ filing[p].pc = "move"
    /\ c # item[filing[p].item].in
    /\ Undisturbed(c)
    /\ \/ /\ LiveColl(c) \/ filing[p].made = c
          /\ filing' = [filing EXCEPT ![p].pc = "commit"]
       \/ /\ ~LiveColl(c) /\ filing[p].made # c
          /\ FinishFiling(p)
    /\ UNCHANGED << item, coll, removal >>

\* The new collection and the move become visible together. The client may not
\* learn of it.
CommitFiling(p) ==
    LET f == filing[p] IN
    /\ f.pc = "commit"
    /\ item' = [item EXCEPT ![f.item].in = f.dest]
    /\ coll' = IF f.made = None THEN coll
               ELSE [coll EXCEPT ![f.made] = [state |-> "live", name |-> f.name]]
    /\ FinishFiling(p)
    /\ UNCHANGED removal

AbortFiling(p) ==
    /\ filing[p].pc # "idle"
    /\ FinishFiling(p)
    /\ UNCHANGED << item, coll, removal >>

-----------------------------------------------------------------------------
(* DELETE /collections/{id}: DeleteCollection                              *)

\* target = None is the action 'delete'; the service refuses target = source.
BeginRemoval(r, source, target) ==
    /\ MayBegin
    /\ removal[r].pc = "idle"
    /\ target # source
    /\ coll[source].state # "unborn"
    /\ target # None => coll[target].state # "unborn"
    /\ removal' = [removal EXCEPT ![r] =
          [IdleRemoval EXCEPT !.pc = "source", !.source = source,
                              !.target = target]]
    /\ UNCHANGED << item, coll, filing >>

LoadSource(r) ==
    LET c == removal[r].source IN
    /\ removal[r].pc = "source"
    /\ \/ /\ ~LiveColl(c)
          /\ FinishRemoval(r)
       \/ /\ c = Unsorted
          /\ FinishRemoval(r)
       \/ /\ LiveColl(c) /\ c # Unsorted
          /\ removal' = [removal EXCEPT ![r].pc =
                IF removal[r].target = None THEN "begin" ELSE "target"]
    /\ UNCHANGED << item, coll, filing >>

LoadTarget(r) ==
    /\ removal[r].pc = "target"
    /\ IF LiveColl(removal[r].target)
       THEN removal' = [removal EXCEPT ![r].pc = "begin"]
       ELSE FinishRemoval(r)
    /\ UNCHANGED << item, coll, filing >>

\* The UPDATE or DELETE of the items sees those committed when it starts.
BeginDispose(r) ==
    /\ removal[r].pc = "begin"
    /\ removal' = [removal EXCEPT ![r].pc = "dispose",
                                  ![r].scan = Contents(removal[r].source)]
    /\ UNCHANGED << item, coll, filing >>

\* It visits them one at a time, waiting for each row and re-checking it.
Dispose(r, i) ==
    /\ removal[r].pc = "dispose"
    /\ i \in removal[r].scan
    /\ ItemFree(i)
    /\ removal' = [removal EXCEPT ![r].scan = @ \ {i},
          ![r].taken = IF i \in Contents(removal[r].source) THEN @ \cup {i} ELSE @]
    /\ UNCHANGED << item, coll, filing >>

\* The statement ends with the foreign key check of the moved rows, if any.
EndDispose(r) ==
    LET moves == removal[r].target # None /\ removal[r].taken # {}
    IN
    /\ removal[r].pc = "dispose"
    /\ removal[r].scan = {}
    /\ moves => Undisturbed(removal[r].target)
    /\ IF moves /\ ~LiveColl(removal[r].target)
       THEN FinishRemoval(r)
       ELSE removal' = [removal EXCEPT ![r].pc = "delete"]
    /\ UNCHANGED << item, coll, filing >>

\* Faulty: the row is deleted although others hold KEY SHARE on it.
DeleteRowUnshared(r) ==
    LET c == removal[r].source IN
    /\ removal[r].pc = "delete"
    /\ Undisturbed(c)
    /\ IF LiveColl(c)
       THEN removal' = [removal EXCEPT ![r].pc = "restrict"]
       ELSE FinishRemoval(r)
    /\ UNCHANGED << item, coll, filing >>

\* DeleteCollectionByIDForUser waits for whoever references or deletes the row.
DeleteRow(r) ==
    LET c == removal[r].source IN
    /\ removal[r].pc = "delete"
    /\ Undisturbed(c)
    /\ \A p \in Mover \cup Remover : ~Shares(p, c)
    /\ IF LiveColl(c)
       THEN removal' = [removal EXCEPT ![r].pc = "restrict"]
       ELSE FinishRemoval(r)
    /\ UNCHANGED << item, coll, filing >>

\* ON DELETE RESTRICT looks for an item that r has not disposed of.
Leftover(r) == Contents(removal[r].source) \ removal[r].taken

\* It waits for a FOR UPDATE or DELETE of such an item, not for an UPDATE.
RestrictWaitsFor(r, i, p) ==
    /\ i \in Leftover(r)
    /\ HoldsItem(p, i)
    /\ p \in Remover => removal[p].target = None

\* Faulty: a refused deletion starts over with the items that arrived.
RestrictRetries(r) ==
    /\ removal[r].pc = "restrict"
    /\ \E i \in Leftover(r) :
          \A p \in (Mover \cup Remover) \ {r} : ~RestrictWaitsFor(r, i, p)
    /\ removal' = [removal EXCEPT ![r].pc = "begin", ![r].taken = {}]
    /\ UNCHANGED << item, coll, filing >>

RestrictRefuses(r) ==
    /\ removal[r].pc = "restrict"
    /\ \E i \in Leftover(r) :
          \A p \in (Mover \cup Remover) \ {r} : ~RestrictWaitsFor(r, i, p)
    /\ FinishRemoval(r)
    /\ UNCHANGED << item, coll, filing >>

\* Faulty: ON DELETE NO ACTION, never checked.
CommitRemovalUnrestricted(r) ==
    LET x == removal[r] IN
    /\ x.pc = "restrict"
    /\ item' = [i \in Item |->
          IF i \notin x.taken THEN item[i]
          ELSE IF x.target = None THEN DeletedItem
          ELSE [item[i] EXCEPT !.in = x.target]]
    /\ coll' = [coll EXCEPT ![x.source] = DeletedColl]
    /\ FinishRemoval(r)
    /\ UNCHANGED filing

\* Nothing can be filed into the collection while its row is being deleted, so
\* the check that passed still holds at the commit.
CommitRemoval(r) ==
    LET x == removal[r] IN
    /\ x.pc = "restrict"
    /\ Leftover(r) = {}
    /\ item' = [i \in Item |->
          IF i \notin x.taken THEN item[i]
          ELSE IF x.target = None THEN DeletedItem
          ELSE [item[i] EXCEPT !.in = x.target]]
    /\ coll' = [coll EXCEPT ![x.source] = DeletedColl]
    /\ FinishRemoval(r)
    /\ UNCHANGED filing

AbortRemoval(r) ==
    /\ removal[r].pc # "idle"
    /\ FinishRemoval(r)
    /\ UNCHANGED << item, coll, filing >>

-----------------------------------------------------------------------------
(* Waits, and PostgreSQL's deadlock detector                               *)

WaitsForItem(p, q) ==
    \/ /\ p \in Mover
       /\ filing[p].pc = "lock"
       /\ HoldsItem(q, filing[p].item)
    \/ /\ p \in Remover
       /\ removal[p].pc = "dispose"
       /\ \E i \in removal[p].scan : HoldsItem(q, i)
    \/ /\ p \in Remover
       /\ removal[p].pc = "restrict"
       /\ \E i \in Item : RestrictWaitsFor(p, i, q)

WaitsForName(p, q) ==
    /\ p \in Mover
    /\ filing[p].pc = "insert"
    /\ \/ q \in Mover /\ Claims(q, filing[p].name)
       \/ q \in Remover /\ \E c \in Named(filing[p].name) : Deleting(q, c)

WaitsForColl(p, q) ==
    \/ /\ p \in Mover
       /\ filing[p].pc = "move"
       /\ q \in Remover
       /\ Deleting(q, filing[p].dest)
       /\ filing[p].dest # item[filing[p].item].in
    \/ /\ p \in Remover
       /\ removal[p].pc = "dispose"
       /\ removal[p].scan = {}
       /\ removal[p].target # None
       /\ removal[p].taken # {}
       /\ q \in Remover
       /\ Deleting(q, removal[p].target)
    \/ /\ p \in Remover
       /\ removal[p].pc = "delete"
       /\ Shares(q, removal[p].source)
    \/ /\ p \in Remover
       /\ removal[p].pc = "delete"
       /\ q \in Remover
       /\ Deleting(q, removal[p].source)

WaitsFor(p, q) ==
    p # q /\ (WaitsForItem(p, q) \/ WaitsForName(p, q) \/ WaitsForColl(p, q))

\* Each of these transactions waits for another of them.
Deadlocked(T) == \A p \in T : \E q \in T : WaitsFor(p, q)

Abort(p) == IF p \in Remover THEN AbortRemoval(p) ELSE AbortFiling(p)

Cycle(T) ==
    /\ Deadlocked(T)
    /\ \A U \in (SUBSET T) \ {{}, T} : ~Deadlocked(U)

\* The detector ends one transaction of a cycle.
ResolveDeadlock ==
    \E T \in (SUBSET Busy) \ {{}} :
        Cycle(T) /\ \E p \in T : Abort(p)

-----------------------------------------------------------------------------
ItemNext(i) ==
    \/ Save(i)
    \/ DeleteItem(i)
    \/ \E n \in Platform \cup {None} : Enrich(i, n)

FilingStep(p) ==
    \/ LockItem(p)
    \/ OrganizeMissing(p)
    \/ OrganizeDecides(p)
    \/ Find(p)
    \/ \E c \in Collection : Insert(p, c)
    \/ InsertConflicts(p)
    \/ Lookup(p)
    \/ AlreadyThere(p)
    \/ Move(p)
    \/ CommitFiling(p)

FilingNext(p) ==
    \/ \E i \in Item, n \in Name, intent \in Intent : BeginPut(p, i, n, intent)
    \/ \E i \in Item : BeginOrganize(p, i)
    \/ FilingStep(p)
    \/ AbortFiling(p)

RemovalStep(r) ==
    \/ LoadSource(r)
    \/ LoadTarget(r)
    \/ BeginDispose(r)
    \/ \E i \in Item : Dispose(r, i)
    \/ EndDispose(r)
    \/ DeleteRow(r)
    \/ RestrictRefuses(r)
    \/ CommitRemoval(r)

RemovalNext(r) ==
    \/ \E source \in Collection, target \in Collection \cup {None} :
          BeginRemoval(r, source, target)
    \/ RemovalStep(r)
    \/ AbortRemoval(r)

Next ==
    \/ \E i \in Item : ItemNext(i)
    \/ \E p \in Mover : FilingNext(p)
    \/ \E r \in Remover : RemovalNext(r)
    \/ ResolveDeadlock

Spec == Init /\ [][Next]_vars

(***************************************************************************)
(* Fairness.  A transaction whose next statement can run runs it; a lock   *)
(* that keeps becoming free is granted in the end, PostgreSQL's waiters    *)
(* being queued (SF); a deadlock is broken.  Nothing is assumed of         *)
(* clients, of the queue or of failures.                                   *)
(***************************************************************************)
\* Collection is finite in a model: an insert with no identity left fails.
RunsOut(p) ==
    /\ filing[p].pc = "insert"
    /\ NameSettled(p)
    /\ Named(filing[p].name) = {}
    /\ \A c \in Collection :
          coll[c].state # "unborn" \/ \E q \in Mover : filing[q].made = c
    /\ AbortFiling(p)

Fairness ==
    /\ \A p \in Mover : SF_vars(FilingStep(p) \/ RunsOut(p))
    /\ \A r \in Remover : SF_vars(RemovalStep(r))
    /\ WF_vars(ResolveDeadlock)

FairSpec == Spec /\ Fairness

-----------------------------------------------------------------------------
(* Properties                                                              *)

\* Two requests or tasks that create the same name at once leave one collection
\* of that name (collections_user_name_unique).
NamesAreUnique ==
    \A c, d \in Collection :
        LiveColl(c) /\ LiveColl(d) /\ coll[c].name = coll[d].name => c = d

\* What filing decides on under the item's lock stays true until it commits: the
\* item exists, and one being organized is still where saving put it.
FilingDecisionStands ==
    \A p \in Mover : filing[p].pc \in Holding =>
        /\ LiveItem(filing[p].item)
        /\ p \in Organizer => item[filing[p].item].in = Unsorted

\* Deleting a collection disposes of exactly the items that are in it at that
\* moment, all of them in the way that was asked for; nothing else moves.
RemovalTakesExactlyContents ==
    [][\A r \in Remover : CommitRemoval(r) =>
          LET x == removal[r] IN
          \A i \in Item :
              IF i \in Contents(x.source)
              THEN IF x.target = None THEN item'[i].state = "deleted"
                                      ELSE LiveItem(i)' /\ item'[i].in = x.target
              ELSE item'[i] = item[i]]_vars

\* Filing and organization do not deadlock among themselves. One that has locked
\* its item waits only for a deletion that is past its items and has taken its
\* collection's row; two deletions may cross on items or on collections.
DeadlocksNeedADeletion ==
    \A T \in SUBSET (Mover \cup Remover) : T # {} /\ Deadlocked(T) =>
        /\ T \cap Remover # {}
        /\ \A p \in T \cap Mover : filing[p].pc \in Holding =>
              \E r \in T \cap Remover : removal[r].pc = "restrict" /\ WaitsFor(p, r)

\* Every filing, organization and collection deletion ends, those included that
\* move their items into each other's collection: each is idle again and again.
TransactionsEnd ==
    /\ \A p \in Mover : []<>(filing[p].pc = "idle")
    /\ \A r \in Remover : []<>(removal[r].pc = "idle")

(***************************************************************************)
(* The statements implement the atomic moves of Shelving.                  *)
(***************************************************************************)
HomeOf(i) ==
    CASE item[i].state = "unborn"  -> "unsaved"
      [] item[i].state = "live"    -> item[i].in
      [] item[i].state = "deleted" -> "gone"

LabelOf(c) == IF LiveColl(c) THEN coll[c].name ELSE None

Shelves == INSTANCE Shelving WITH
    home  <- [i \in Item |-> HomeOf(i)],
    label <- [c \in Collection |-> LabelOf(c)]

ImplementsShelving == Shelves!ShelvingSpec
=============================================================================
