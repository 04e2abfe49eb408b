---------------------------- MODULE FilingProof ----------------------------
(***************************************************************************)
(* Proofs about Filing for every number of items, collections, names and   *)
(* transactions, and that its statements implement the atomic moves of     *)
(* Shelving.                                                               *)
(*                                                                         *)
(* What a transaction has read stays true because of the locks it holds:   *)
(* an item is held by one transaction at a time, a name by one uncommitted *)
(* insert, a collection's row is deleted by one transaction and by none    *)
(* while another one's foreign key check shares it (Apart).  Per           *)
(* transaction, FilingPart and RemovalPart say what it relies on.          *)
(***************************************************************************)
EXTENDS Filing, TLAPS

Txn == Mover \cup Remover

\* Between its lock and its commit a filing knows a live item, a name, and from
\* the move on a destination, which exists and is nobody's to delete, or which
\* it has inserted itself under a name nobody has.
FilingPart(p) ==
    LET f == filing[p] IN
    /\ f.pc \in {"lock"} \cup Holding => f.item \in Item
    /\ f.pc \in Holding \/ (f.pc = "lock" /\ p \in Filer) => f.name \in Name
    /\ f.pc \in Holding => LiveItem(f.item)
    /\ f.pc \in Holding /\ p \in Organizer => item[f.item].in = Unsorted
    /\ f.pc \in {"move", "commit"} => f.dest \in Collection /\ f.made \in {None, f.dest}
    /\ f.made # None =>
         /\ f.pc \in {"move", "commit"}
         /\ coll[f.made].state = "unborn"
         /\ Named(f.name) = {}
    /\ f.pc = "commit" /\ f.made = None => LiveColl(f.dest) /\ Undisturbed(f.dest)

RemovalPart(r) ==
    LET x == removal[r] IN
    /\ x.pc # "idle" => x.source \in Collection /\ x.target # x.source
    /\ x.pc \in {"target", "begin", "dispose", "delete", "restrict"} => x.source # Unsorted
    /\ x.pc \notin {"dispose", "delete", "restrict"} => x.taken = {}
    /\ \A i \in x.taken : LiveItem(i) /\ item[i].in = x.source
    /\ x.pc = "restrict" => LiveColl(x.source)
    /\ x.pc \in {"delete", "restrict"} /\ x.target # None /\ x.taken # {} =>
         LiveColl(x.target) /\ Undisturbed(x.target)

ItemsAreApart ==
    \A p \in Txn, q \in Txn, i \in Item :
        p # q => ~(HoldsItem(p, i) /\ HoldsItem(q, i))

ClaimsAreApart ==
    \A p \in Mover, q \in Mover :
        p # q /\ filing[p].made # None /\ filing[q].made # None =>
            filing[p].made # filing[q].made /\ filing[p].name # filing[q].name

DeletionsAreApart ==
    \A r \in Remover, s \in Remover, c \in Collection :
        r # s => ~(Deleting(r, c) /\ Deleting(s, c))

Inv ==
    /\ TypeOK
    /\ \A p \in Mover : FilingPart(p)
    /\ \A r \in Remover : RemovalPart(r)
    /\ ItemsAreApart
    /\ ClaimsAreApart
    /\ DeletionsAreApart
    /\ NamesAreUnique

LEMMA NoneIsNothing ==
    /\ None \notin Item /\ None \notin Collection /\ None \notin Name
    /\ Mover \cap Remover = {} /\ Filer \cap Organizer = {}
BY NoneAssumption, TxnAssumption DEF Mover

LEMMA InitInv == ASSUME Init PROVE Inv
<1> USE DEF Init, IdleFiling, IdleRemoval
<1>1. TypeOK
  BY UnsortedAssumption DEF TypeOK, ItemRow, CollRow, RowState, FilingState,
     RemovalState, Intent, Holding
<1>2. \A p \in Mover : FilingPart(p)
  BY DEF FilingPart, Holding
<1>3. \A r \in Remover : RemovalPart(r)
  BY DEF RemovalPart
<1>4. ItemsAreApart /\ ClaimsAreApart /\ DeletionsAreApart
  BY NoneIsNothing DEF ItemsAreApart, ClaimsAreApart, DeletionsAreApart, HoldsItem, Holding,
     Deleting, Txn
<1>5. NamesAreUnique
  BY DEF NamesAreUnique, LiveColl
<1> QED
  BY <1>1, <1>2, <1>3, <1>4, <1>5 DEF Inv

-----------------------------------------------------------------------------
(***************************************************************************)
(* Steps of a filing that write no row.                                    *)
(***************************************************************************)

QuietFiling(p) ==
    \/ \E i \in Item, n \in Name, intent \in Intent : BeginPut(p, i, n, intent)
    \/ \E i \in Item : BeginOrganize(p, i)
    \/ LockItem(p) \/ OrganizeMissing(p) \/ OrganizeDecides(p) \/ Find(p)
    \/ \E c \in Collection : Insert(p, c)
    \/ InsertConflicts(p) \/ Lookup(p) \/ AlreadyThere(p) \/ Move(p) \/ AbortFiling(p)

\* What such a step may gain: a free item, a name and an identity nobody has.
Gains(p) ==
    LET x == filing[p]  y == filing'[p] IN
    /\ UNCHANGED << item, coll, removal >>
    /\ filing' = [filing EXCEPT ![p] = y]
    /\ y \in FilingState
    /\ FilingPart(p)'
    /\ y.pc \in Holding =>
         y.item = x.item /\ (x.pc \in Holding \/ ItemFree(x.item))
    /\ y.made # None =>
         \/ y.made = x.made /\ y.name = x.name
         \/ \A q \in Mover \ {p} :
              filing[q].made # None => filing[q].made # y.made /\ filing[q].name # y.name

LEMMA QuietFilingGains ==
  ASSUME Inv, NEW p \in Mover, QuietFiling(p)
  PROVE  Gains(p)
<1> DEFINE x == filing[p]  y == filing'[p]
<1>1. /\ filing \in [Mover -> FilingState] /\ x \in FilingState /\ FilingPart(p)
      /\ item \in [Item -> ItemRow] /\ coll \in [Collection -> CollRow]
      /\ UnsortedName \in Name
  BY UnsortedAssumption DEF Inv, TypeOK
<1>2. \A f : [filing EXCEPT ![p] = f][p] = f
  BY <1>1
<1>3. IdleFiling \in FilingState /\ IdleFiling.pc = "idle" /\ IdleFiling.made = None
  BY DEF IdleFiling, FilingState, Intent
<1>4. ASSUME FinishFiling(p), UNCHANGED << item, coll, removal >>
      PROVE  Gains(p)
  <2>1. y = IdleFiling
    BY <1>2, <1>4 DEF FinishFiling
  <2> QED
    BY <1>3, <1>4, <2>1 DEF FinishFiling, Gains, FilingPart, Holding
<1>5. ASSUME NEW i \in Item, NEW n \in Name, NEW intent \in Intent, BeginPut(p, i, n, intent)
      PROVE  Gains(p)
  <2>1. y = [IdleFiling EXCEPT !.pc = "lock", !.item = i, !.name = n,
                                       !.intent = intent]
    BY <1>2, <1>5 DEF BeginPut
  <2>2. /\ y \in FilingState /\ y.pc = "lock" /\ y.item = i /\ y.name = n /\ y.made = None
    BY <2>1 DEF IdleFiling, FilingState
  <2> QED
    BY <1>5, <2>1, <2>2 DEF BeginPut, Gains, FilingPart, Holding
<1>6. ASSUME NEW i \in Item, BeginOrganize(p, i)
      PROVE  Gains(p)
  <2>1. CASE LiveItem(i)
    <3>1. y = [IdleFiling EXCEPT !.pc = "lock", !.item = i, !.intent = "organize",
                                         !.seen = item[i].in]
      BY <1>2, <1>6, <2>1 DEF BeginOrganize
    <3>2. y \in FilingState /\ y.pc = "lock" /\ y.item = i /\ y.made = None
      BY <1>1, <3>1, ZenonT(60) DEF IdleFiling, FilingState, Intent, ItemRow
    <3>3. p \notin Filer
      BY <1>6, NoneIsNothing DEF BeginOrganize
    <3> QED
      BY <1>2, <1>6, <2>1, <3>1, <3>2, <3>3 DEF BeginOrganize, Gains, FilingPart, Holding
  <2>2. CASE ~LiveItem(i)
    BY <1>4, <1>6, <2>2 DEF BeginOrganize, FinishFiling
  <2> QED
    BY <2>1, <2>2
<1>7. ASSUME LockItem(p) PROVE Gains(p)
  <2>1. CASE LiveItem(x.item)
    <3>1. CASE filing' = [filing EXCEPT ![p].pc = "insert"]
      <4>1. y = [x EXCEPT !.pc = "insert"] /\ y \in FilingState
        BY <1>1, <3>1 DEF FilingState, Holding
      <4> QED
        BY <1>1, <1>7, <2>1, <3>1, <4>1, NoneIsNothing DEF LockItem, Gains, FilingPart,
           FilingState, Holding, LiveItem
    <3> QED
      BY <1>4, <1>7, <2>1, <3>1 DEF LockItem
  <2> QED
    BY <1>4, <1>7, <2>1 DEF LockItem
<1>8. ASSUME OrganizeMissing(p) PROVE Gains(p)
  BY <1>4, <1>8 DEF OrganizeMissing
<1>9. ASSUME OrganizeDecides(p) PROVE Gains(p)
  <2>1. CASE filing' = [filing EXCEPT ![p].pc = "find", ![p].name = item[x.item].platform]
               /\ item[x.item].platform \notin {None, UnsortedName}
               /\ item[x.item].in = Unsorted
    <3>1. x.item \in Item
      BY <1>1, <1>9 DEF OrganizeDecides, FilingPart
    <3>2. item[x.item].platform \in Name
      BY <1>1, <2>1, <3>1 DEF ItemRow
    <3>3. y = [x EXCEPT !.pc = "find", !.name = item[x.item].platform] /\ y \in FilingState
      BY <1>1, <2>1, <3>2 DEF FilingState, Holding
    <3> QED
      BY <1>1, <1>9, <2>1, <3>1, <3>2, <3>3 DEF OrganizeDecides, Gains, FilingPart,
         FilingState, Holding, LiveItem
  <2> QED
    BY <1>4, <1>9, <2>1 DEF OrganizeDecides
<1>10. ASSUME NEW c \in Named(x.name), x.pc \in {"find", "lookup"},
              filing' = [filing EXCEPT ![p].pc = "move", ![p].dest = c],
              UNCHANGED << item, coll, removal >>
       PROVE  Gains(p)
  <2>1. c \in Collection /\ y = [x EXCEPT !.pc = "move", !.dest = c] /\ y \in FilingState
    BY <1>1, <1>10 DEF FilingState, Holding, Named
  <2> QED
    BY <1>1, <1>10, <2>1 DEF Gains, FilingPart, FilingState, Holding, LiveItem
<1>11. ASSUME NEW pc \in {"insert", "lookup"}, x.pc \in {"find", "insert"},
              filing' = [filing EXCEPT ![p].pc = pc],
              UNCHANGED << item, coll, removal >>
       PROVE  Gains(p)
  <2>1. y = [x EXCEPT !.pc = pc] /\ y \in FilingState
    BY <1>1, <1>11 DEF FilingState, Holding
  <2> QED
    BY <1>1, <1>11, <2>1 DEF Gains, FilingPart, FilingState, Holding, LiveItem
<1>12. ASSUME NEW c \in Collection, Insert(p, c) PROVE Gains(p)
  <2>1. y = [x EXCEPT !.pc = "move", !.dest = c, !.made = c] /\ y \in FilingState
    BY <1>1, <1>12 DEF Insert, FilingState, Holding
  <2>2. /\ y.pc = "move" /\ y.dest = c /\ y.made = c /\ y.name = x.name /\ y.item = x.item
    BY <1>1, <2>1 DEF FilingState
  <2>3. FilingPart(p)'
    BY <1>1, <1>12, <2>2 DEF Insert, FilingPart, Holding, Named, LiveColl, LiveItem
  <2> QED
    BY <1>12, <2>1, <2>2, <2>3 DEF Insert, NameSettled, Claims, Gains, Holding
<1>13. ASSUME Move(p) PROVE Gains(p)
  <2>1. CASE filing' = [filing EXCEPT ![p].pc = "commit"]
               /\ (LiveColl(x.dest) \/ x.made = x.dest)
    <3>1. y = [x EXCEPT !.pc = "commit"] /\ y \in FilingState
      BY <1>1, <2>1 DEF FilingState, Holding
    <3>2. /\ y.pc = "commit" /\ y.dest = x.dest /\ y.made = x.made /\ y.name = x.name
          /\ y.item = x.item
      BY <1>1, <3>1 DEF FilingState
    <3>3. FilingPart(p)'
      BY <1>1, <1>13, <2>1, <3>2, NoneIsNothing DEF Move, FilingPart, Holding, Named,
         LiveColl, LiveItem, Undisturbed, Deleting
    <3> QED
      BY <1>13, <2>1, <3>1, <3>2, <3>3 DEF Move, Gains, Holding
  <2> QED
    BY <1>4, <1>13, <2>1 DEF Move
<1>14. CASE AlreadyThere(p) \/ AbortFiling(p)
  BY <1>4, <1>14 DEF AlreadyThere, AbortFiling
<1>15. CASE InsertConflicts(p)
  BY <1>4, <1>11, <1>15 DEF InsertConflicts
<1>16. CASE Find(p) \/ Lookup(p)
  BY <1>4, <1>10, <1>11, <1>16 DEF Find, Lookup
<1> QED
  BY <1>5, <1>6, <1>7, <1>8, <1>9, <1>12, <1>13, <1>14, <1>15, <1>16 DEF QuietFiling

LEMMA QuietFilingKeepsInv ==
  ASSUME Inv, NEW p \in Mover, Gains(p)
  PROVE  Inv'
<1> DEFINE x == filing[p]  y == filing'[p]
<1> USE DEF Gains
<1>1. /\ filing \in [Mover -> FilingState] /\ p \notin Remover
      /\ filing' = [filing EXCEPT ![p] = y] /\ item' = item /\ coll' = coll /\ removal' = removal
  BY NoneIsNothing DEF Inv, TypeOK
<1>2. \A q \in Mover : q # p => filing'[q] = filing[q]
  BY <1>1
<1>3. TypeOK'
  BY <1>1 DEF Inv, TypeOK
<1>4. ASSUME NEW q \in Mover PROVE FilingPart(q)'
  <2>1. CASE q = p
    BY <2>1
  <2>2. CASE q # p
    BY <1>1, <1>2, <2>2 DEF Inv, FilingPart, LiveItem, LiveColl, Named, Undisturbed, Deleting
  <2> QED
    BY <2>1, <2>2
<1>5. \A r \in Remover : RemovalPart(r)'
  BY <1>1 DEF Inv, RemovalPart, LiveItem, LiveColl, Undisturbed, Deleting
<1>6. ItemsAreApart'
  <2>1. \A q \in Txn, i \in Item : q # p => HoldsItem(q, i)' = HoldsItem(q, i)
    BY <1>1, <1>2 DEF HoldsItem, Txn
  <2>2. ASSUME NEW i \in Item, HoldsItem(p, i)', ~HoldsItem(p, i)
        PROVE  ItemFree(i)
    BY <1>1, <2>2 DEF HoldsItem
  <2> QED
    BY <1>1, <2>1, <2>2 DEF Inv, ItemsAreApart, ItemFree, Txn
<1>7. ClaimsAreApart'
  <2>1. ASSUME NEW q \in Mover, NEW s \in Mover, q # s, filing'[q].made # None,
               filing'[s].made # None
        PROVE  filing'[q].made # filing'[s].made /\ filing'[q].name # filing'[s].name
    <3>1. CASE q # p /\ s # p
      BY <1>2, <2>1, <3>1 DEF Inv, ClaimsAreApart
    <3>2. CASE q = p
      BY <1>2, <2>1, <3>2 DEF Inv, ClaimsAreApart
    <3>3. CASE s = p
      BY <1>2, <2>1, <3>3 DEF Inv, ClaimsAreApart
    <3> QED
      BY <3>1, <3>2, <3>3
  <2> QED
    BY <2>1 DEF ClaimsAreApart
<1>8. DeletionsAreApart'
  BY <1>1 DEF Inv, DeletionsAreApart, Deleting
<1>9. NamesAreUnique'
  BY <1>1 DEF Inv, NamesAreUnique, LiveColl
<1> QED
  BY <1>3, <1>4, <1>5, <1>6, <1>7, <1>8, <1>9 DEF Inv

-----------------------------------------------------------------------------
(***************************************************************************)
(* Steps of a deletion that write no row.                                  *)
(***************************************************************************)

QuietRemoval(r) ==
    \/ \E source \in Collection, target \in Collection \cup {None} :
          BeginRemoval(r, source, target)
    \/ LoadSource(r) \/ LoadTarget(r) \/ BeginDispose(r)
    \/ \E i \in Item : Dispose(r, i)
    \/ EndDispose(r) \/ DeleteRow(r) \/ RestrictRefuses(r) \/ AbortRemoval(r)

\* What such a step may gain: a free item, and the row of a collection that
\* nobody else deletes or shares.
Takes(r) ==
    LET x == removal[r]  y == removal'[r] IN
    /\ UNCHANGED << item, coll, filing >>
    /\ removal' = [removal EXCEPT ![r] = y]
    /\ y \in RemovalState
    /\ RemovalPart(r)'
    /\ \A i \in y.taken : i \in x.taken \/ ItemFree(i)
    /\ y.pc = "restrict" => LET c == y.source IN
         Undisturbed(c) /\ \A q \in Txn : ~Shares(q, c)

LEMMA QuietRemovalTakes ==
  ASSUME Inv, NEW r \in Remover, QuietRemoval(r)
  PROVE  Takes(r)
<1> DEFINE x == removal[r]  y == removal'[r]
<1>1. /\ removal \in [Remover -> RemovalState] /\ x \in RemovalState /\ RemovalPart(r)
      /\ item \in [Item -> ItemRow] /\ coll \in [Collection -> CollRow]
  BY DEF Inv, TypeOK
<1>2. \A f : [removal EXCEPT ![r] = f][r] = f
  BY <1>1
<1>3. IdleRemoval \in RemovalState /\ IdleRemoval.pc = "idle" /\ IdleRemoval.taken = {}
  BY DEF IdleRemoval, RemovalState
<1>4. ASSUME FinishRemoval(r), UNCHANGED << item, coll, filing >>
      PROVE  Takes(r)
  <2>1. y = IdleRemoval
    BY <1>2, <1>4 DEF FinishRemoval
  <2> QED
    BY <1>3, <1>4, <2>1 DEF FinishRemoval, Takes, RemovalPart
\* Only the program counter moves.
<1>5. ASSUME NEW pc \in {"target", "begin", "delete", "restrict"},
             removal' = [removal EXCEPT ![r].pc = pc],
             UNCHANGED << item, coll, filing >>
      PROVE  /\ y = [x EXCEPT !.pc = pc] /\ y \in RemovalState
             /\ y.pc = pc /\ y.source = x.source /\ y.target = x.target /\ y.taken = x.taken
             /\ removal' = [removal EXCEPT ![r] = y]
  BY <1>1, <1>5 DEF RemovalState
<1>6. ASSUME NEW c \in Collection, NEW d \in Collection \cup {None}, BeginRemoval(r, c, d)
      PROVE  Takes(r)
  <2>1. y = [IdleRemoval EXCEPT !.pc = "source", !.source = c, !.target = d]
    BY <1>2, <1>6 DEF BeginRemoval
  <2>2. /\ y \in RemovalState /\ y.pc = "source" /\ y.source = c /\ y.target = d
        /\ y.taken = {}
    BY <2>1 DEF IdleRemoval, RemovalState
  <2> QED
    BY <1>6, <2>1, <2>2 DEF BeginRemoval, Takes, RemovalPart
<1>7. ASSUME LoadSource(r) PROVE Takes(r)
  <2>1. CASE ~LiveColl(x.source) \/ x.source = Unsorted
    BY <1>4, <1>7, <2>1 DEF LoadSource
  <2>2. CASE ~(~LiveColl(x.source) \/ x.source = Unsorted)
    <3>1. PICK pc \in {"target", "begin"} : removal' = [removal EXCEPT ![r].pc = pc]
      BY <1>7, <2>2 DEF LoadSource
    <3> QED
      BY <1>1, <1>5, <1>7, <2>2, <3>1 DEF LoadSource, Takes, RemovalPart, LiveItem
  <2> QED
    BY <2>1, <2>2
<1>8. ASSUME LoadTarget(r) PROVE Takes(r)
  <2>1. CASE removal' = [removal EXCEPT ![r].pc = "begin"]
    BY <1>1, <1>5, <1>8, <2>1 DEF LoadTarget, Takes, RemovalPart, LiveItem
  <2> QED
    BY <1>4, <1>8, <2>1 DEF LoadTarget
<1>9. ASSUME BeginDispose(r) PROVE Takes(r)
  <2>1. y = [x EXCEPT !.pc = "dispose", !.scan = Contents(x.source)]
    BY <1>1, <1>9 DEF BeginDispose
  <2>2. /\ y \in RemovalState /\ y.pc = "dispose" /\ y.source = x.source
        /\ y.target = x.target /\ y.taken = x.taken
    BY <1>1, <2>1 DEF RemovalState, Contents
  <2> QED
    BY <1>1, <1>9, <2>1, <2>2 DEF BeginDispose, Takes, RemovalPart, LiveItem
<1>10. ASSUME NEW i \in Item, Dispose(r, i) PROVE Takes(r)
  <2> DEFINE t == IF i \in Contents(x.source) THEN x.taken \cup {i} ELSE x.taken
  <2>1. y = [x EXCEPT !.scan = @ \ {i}, !.taken = t]
    BY <1>1, <1>10 DEF Dispose
  <2>2. /\ y \in RemovalState /\ y.pc = "dispose" /\ y.source = x.source
        /\ y.target = x.target /\ y.taken = t
    BY <1>1, <1>10, <2>1 DEF Dispose, RemovalState
  <2>3. removal' = [removal EXCEPT ![r] = y] /\ UNCHANGED << item, coll, filing >>
    BY <1>1, <1>10, <2>1 DEF Dispose
  <2>4. \A j \in t : LiveItem(j) /\ item[j].in = x.source
    BY <1>1 DEF RemovalPart, Contents
  <2>5. RemovalPart(r)'
    BY <1>1, <1>10, <2>2, <2>3, <2>4 DEF Dispose, RemovalPart, LiveItem
  <2>6. \A j \in t : j \in x.taken \/ ItemFree(j)
    BY <1>10 DEF Dispose
  <2> QED
    BY <2>2, <2>3, <2>5, <2>6 DEF Takes
<1>11. ASSUME EndDispose(r) PROVE Takes(r)
  <2>1. CASE removal' = [removal EXCEPT ![r].pc = "delete"]
             /\ (x.target # None /\ x.taken # {} => LiveColl(x.target) /\ Undisturbed(x.target))
    <3>1. /\ y \in RemovalState /\ y.pc = "delete" /\ y.source = x.source
          /\ y.target = x.target /\ y.taken = x.taken
          /\ removal' = [removal EXCEPT ![r] = y] /\ UNCHANGED << item, coll, filing >>
      BY <1>5, <1>11, <2>1 DEF EndDispose
    <3>2. x.target # None /\ x.taken # {} => LiveColl(x.target)' /\ Undisturbed(x.target)'
      BY <1>1, <2>1, <3>1 DEF LiveColl, Undisturbed, Deleting
    <3>3. RemovalPart(r)'
      BY <1>1, <1>11, <3>1, <3>2 DEF EndDispose, RemovalPart, LiveItem
    <3> QED
      BY <3>1, <3>3 DEF Takes
  <2> QED
    BY <1>4, <1>11, <2>1 DEF EndDispose
<1>12. ASSUME DeleteRow(r) PROVE Takes(r)
  <2>1. CASE removal' = [removal EXCEPT ![r].pc = "restrict"] /\ LiveColl(x.source)
    <3>1. /\ y \in RemovalState /\ y.pc = "restrict" /\ y.source = x.source
          /\ y.target = x.target /\ y.taken = x.taken
          /\ removal' = [removal EXCEPT ![r] = y] /\ UNCHANGED << item, coll, filing >>
      BY <1>5, <1>12, <2>1 DEF DeleteRow
    <3>2. x.target # None /\ x.taken # {} => LiveColl(x.target)' /\ Undisturbed(x.target)'
      <4>1. x.target # None /\ x.taken # {} => LiveColl(x.target) /\ Undisturbed(x.target)
        BY <1>1, <1>12 DEF DeleteRow, RemovalPart
      <4>2. x.target # x.source
        BY <1>1, <1>12 DEF DeleteRow, RemovalPart
      <4> QED
        BY <1>1, <3>1, <4>1, <4>2 DEF LiveColl, Undisturbed, Deleting
    <3>3. RemovalPart(r)'
      BY <1>1, <1>12, <2>1, <3>1, <3>2 DEF DeleteRow, RemovalPart, LiveItem, LiveColl
    <3> QED
      BY <1>12, <3>1, <3>3 DEF DeleteRow, Takes, Txn
  <2> QED
    BY <1>4, <1>12, <2>1 DEF DeleteRow
<1>13. CASE RestrictRefuses(r) \/ AbortRemoval(r)
  BY <1>4, <1>13 DEF RestrictRefuses, AbortRemoval
<1> QED
  BY <1>6, <1>7, <1>8, <1>9, <1>10, <1>11, <1>12, <1>13 DEF QuietRemoval

LEMMA QuietRemovalKeepsInv ==
  ASSUME Inv, NEW r \in Remover, Takes(r)
  PROVE  Inv'
<1> DEFINE x == removal[r]  y == removal'[r]
<1> USE DEF Takes
<1>1. /\ removal \in [Remover -> RemovalState] /\ r \notin Mover /\ Mover \cap Remover = {}
      /\ removal' = [removal EXCEPT ![r] = y] /\ item' = item /\ coll' = coll /\ filing' = filing
  BY NoneIsNothing DEF Inv, TypeOK
<1>2. \A s \in Remover : s # r => removal'[s] = removal[s]
  BY <1>1
<1>3. TypeOK'
  BY <1>1 DEF Inv, TypeOK
\* A row somebody relies on stays undisturbed, for he shares it.
<1>4. ASSUME NEW c \in Collection, Undisturbed(c), NEW q \in Txn, Shares(q, c)
      PROVE  Undisturbed(c)'
  BY <1>2, <1>4 DEF Undisturbed, Deleting
<1>5. ASSUME NEW p \in Mover PROVE FilingPart(p)'
  <2>1. FilingPart(p)
    BY DEF Inv
  <2>2. ASSUME filing[p].pc = "commit", filing[p].made = None
        PROVE  Undisturbed(filing[p].dest)'
    <3>1. filing[p].dest \in Collection /\ Undisturbed(filing[p].dest)
      BY <2>1, <2>2 DEF FilingPart
    <3>2. p \in Txn /\ Shares(p, filing[p].dest)
      BY <1>1, <2>2, <3>1, NoneIsNothing DEF Shares, Txn
    <3> QED
      BY <1>4, <3>1, <3>2
  <2> QED
    BY <1>1, <2>1, <2>2 DEF FilingPart, LiveItem, LiveColl, Named
<1>6. ASSUME NEW s \in Remover PROVE RemovalPart(s)'
  <2>1. CASE s = r
    BY <2>1
  <2>2. CASE s # r
    <3>1. RemovalPart(s) /\ removal'[s] = removal[s] /\ removal[s] \in RemovalState
      BY <1>1, <1>2, <2>2 DEF Inv
    <3>2. ASSUME NEW c \in Collection, removal[s].target = c,
                 removal[s].pc \in {"delete", "restrict"}, removal[s].taken # {}
          PROVE  Undisturbed(c)'
      <4>1. Undisturbed(c)
        BY <3>1, <3>2, NoneIsNothing DEF RemovalPart
      <4>2. s \in Txn /\ Shares(s, c)
        BY <3>2 DEF Shares, Txn
      <4> QED
        BY <1>4, <4>1, <4>2
    <3> QED
      <4>1. removal[s].target # None => removal[s].target \in Collection
        BY <3>1 DEF RemovalState
      <4> QED
        BY <1>1, <3>1, <3>2, <4>1 DEF RemovalPart, LiveItem, LiveColl
  <2> QED
    BY <2>1, <2>2
<1>7. ItemsAreApart'
  <2>1. \A q \in Txn, i \in Item : q # r => HoldsItem(q, i)' = HoldsItem(q, i)
    BY <1>1, <1>2 DEF HoldsItem, Txn
  <2>2. ASSUME NEW i \in Item, HoldsItem(r, i)', ~HoldsItem(r, i)
        PROVE  ItemFree(i)
    BY <1>1, <2>2 DEF HoldsItem
  <2> QED
    BY <1>1, <2>1, <2>2 DEF Inv, ItemsAreApart, ItemFree, Txn
<1>8. ClaimsAreApart'
  BY <1>1 DEF Inv, ClaimsAreApart
<1>9. DeletionsAreApart'
  <2>1. ASSUME NEW s \in Remover, NEW t \in Remover, NEW c \in Collection, s # t,
               Deleting(s, c)', Deleting(t, c)'
        PROVE  FALSE
    <3>1. CASE s # r /\ t # r
      BY <1>2, <2>1, <3>1 DEF Inv, DeletionsAreApart, Deleting
    <3>2. CASE s = r
      BY <1>2, <2>1, <3>2 DEF Undisturbed, Deleting
    <3>3. CASE t = r
      BY <1>2, <2>1, <3>3 DEF Undisturbed, Deleting
    <3> QED
      BY <3>1, <3>2, <3>3
  <2> QED
    BY <2>1 DEF DeletionsAreApart
<1>10. NamesAreUnique'
  BY <1>1 DEF Inv, NamesAreUnique, LiveColl
<1> QED
  BY <1>3, <1>5, <1>6, <1>7, <1>8, <1>9, <1>10 DEF Inv

-----------------------------------------------------------------------------
(***************************************************************************)
(* Steps that write rows.                                                  *)
(***************************************************************************)

LEMMA ItemStepKeepsInv ==
  ASSUME Inv, NEW i \in Item, ItemNext(i)
  PROVE  Inv'
<1>1. /\ item \in [Item -> ItemRow] /\ UnsortedName \in Name /\ Unsorted \in Collection
      /\ UNCHANGED << coll, filing, removal >>
  BY UnsortedAssumption DEF Inv, TypeOK, ItemNext, Save, DeleteItem, Enrich
<1>2. PICK row \in ItemRow : item' = [item EXCEPT ![i] = row]
  <2>1. CASE Save(i)
    BY <1>1, <2>1 DEF Save, ItemRow, RowState
  <2>2. CASE DeleteItem(i)
    BY <1>1, <2>2 DEF DeleteItem, DeletedItem, ItemRow, RowState
  <2>3. ASSUME NEW n \in Platform \cup {None}, Enrich(i, n)
        PROVE  \E row \in ItemRow : item' = [item EXCEPT ![i] = row]
    <3>1. item' = [item EXCEPT ![i] = [item[i] EXCEPT !.platform = n]]
      BY <1>1, <2>3 DEF Enrich
    <3>2. [item[i] EXCEPT !.platform = n] \in ItemRow
      BY <1>1, <2>3, PlatformAssumption DEF ItemRow
    <3> QED
      BY <3>1, <3>2
  <2> QED
    BY <2>1, <2>2, <2>3 DEF ItemNext
<1>3. \A j \in Item : j # i => item'[j] = item[j]
  BY <1>1, <1>2
\* Nobody depends on the row: it is new, or nobody holds it.
<1>4. ~LiveItem(i) \/ ItemFree(i)
  BY DEF ItemNext, Save, DeleteItem, Enrich, LiveItem
<1>5. TypeOK'
  BY <1>1, <1>2 DEF Inv, TypeOK
<1>6. ASSUME NEW p \in Mover PROVE FilingPart(p)'
  <2>1. FilingPart(p) /\ p \notin Remover
    BY NoneIsNothing DEF Inv
  <2>2. filing[p].pc \in Holding => filing[p].item # i
    BY <1>4, <2>1 DEF FilingPart, ItemFree, HoldsItem
  <2> QED
    BY <1>1, <1>3, <2>1, <2>2 DEF FilingPart, LiveItem, LiveColl, Named, Undisturbed, Deleting
<1>7. ASSUME NEW r \in Remover PROVE RemovalPart(r)'
  <2>1. RemovalPart(r) /\ removal[r] \in RemovalState
    BY DEF Inv, TypeOK
  <2>2. i \notin removal[r].taken /\ removal[r].taken \subseteq Item
    BY <1>4, <2>1 DEF RemovalPart, RemovalState, ItemFree, HoldsItem
  <2> QED
    BY <1>1, <1>3, <2>1, <2>2 DEF RemovalPart, LiveItem, LiveColl, Undisturbed, Deleting
<1>8. ItemsAreApart' /\ ClaimsAreApart' /\ DeletionsAreApart' /\ NamesAreUnique'
  BY <1>1 DEF Inv, ItemsAreApart, HoldsItem, ClaimsAreApart, DeletionsAreApart, Deleting,
     NamesAreUnique, LiveColl
<1> QED
  BY <1>5, <1>6, <1>7, <1>8 DEF Inv

\* What the commit of a filing finds, and what it leaves.
LEMMA CommittedFiling ==
  ASSUME Inv, NEW p \in Mover, CommitFiling(p)
  PROVE  LET f == filing[p] IN
         /\ f.item \in Item /\ LiveItem(f.item)
         /\ f.dest \in Collection
         /\ item' = [item EXCEPT ![f.item] = [item[f.item] EXCEPT !.in = f.dest]]
         /\ f.made = None => LiveColl(f.dest) /\ coll' = coll
         /\ f.made # None =>
              /\ f.made = f.dest /\ coll[f.dest].state = "unborn"
              /\ f.name \in Name /\ Named(f.name) = {}
              /\ coll' = [coll EXCEPT ![f.dest] = [state |-> "live", name |-> f.name]]
         /\ filing' = [filing EXCEPT ![p] = IdleFiling]
         /\ removal' = removal
<1> DEFINE f == filing[p]
<1>1. /\ FilingPart(p) /\ f.pc = "commit" /\ f.pc \in Holding
      /\ item \in [Item -> ItemRow] /\ coll \in [Collection -> CollRow]
  BY DEF Inv, TypeOK, CommitFiling, Holding
<1>2. f.item \in Item /\ LiveItem(f.item) /\ f.dest \in Collection /\ f.made \in {None, f.dest}
  BY <1>1 DEF FilingPart
<1>3. item' = [item EXCEPT ![f.item] = [item[f.item] EXCEPT !.in = f.dest]]
  BY <1>1, <1>2 DEF CommitFiling
<1>4. f.made = None => LiveColl(f.dest) /\ coll' = coll
  BY <1>1 DEF FilingPart, CommitFiling
<1>5. f.made # None =>
        /\ f.made = f.dest /\ coll[f.dest].state = "unborn"
        /\ f.name \in Name /\ Named(f.name) = {}
        /\ coll' = [coll EXCEPT ![f.dest] = [state |-> "live", name |-> f.name]]
  BY <1>1, <1>2 DEF FilingPart, CommitFiling
<1>6. filing' = [filing EXCEPT ![p] = IdleFiling]
  BY DEF CommitFiling, FinishFiling
<1> QED
  BY <1>2, <1>3, <1>4, <1>5, <1>6 DEF CommitFiling

LEMMA CommitFilingKeepsInv ==
  ASSUME Inv, NEW p \in Mover, CommitFiling(p)
  PROVE  Inv'
<1> DEFINE f == filing[p]
<1>1. /\ item \in [Item -> ItemRow] /\ coll \in [Collection -> CollRow] /\ p \notin Remover
      /\ filing \in [Mover -> FilingState] /\ f.pc \in Holding /\ p \in Txn
  BY NoneIsNothing DEF Inv, TypeOK, CommitFiling, Holding, Txn
<1>2. filing' = [filing EXCEPT ![p] = IdleFiling]
  BY CommittedFiling
<1>3. /\ filing'[p] = IdleFiling /\ filing'[p] \in FilingState
      /\ filing'[p].pc = "idle" /\ filing'[p].made = None
  BY <1>1, <1>2 DEF IdleFiling, FilingState, Intent
<1>4. \A q \in Mover : q # p => filing'[q] = filing[q]
  BY <1>1, <1>2
<1>5. /\ f.item \in Item /\ f.dest \in Collection /\ removal' = removal
      /\ item' = [item EXCEPT ![f.item] = [item[f.item] EXCEPT !.in = f.dest]]
  BY CommittedFiling
<1>6. (\A j \in Item : j # f.item => item'[j] = item[j])
      /\ \A j \in Item : item'[j].state = item[j].state
  BY <1>1, <1>5 DEF ItemRow
\* The collections: the same, or one more that has a name of its own.
<1>7. /\ f.made = None => coll' = coll
      /\ f.made # None =>
           /\ f.made = f.dest /\ coll[f.dest].state = "unborn"
           /\ f.name \in Name /\ Named(f.name) = {}
           /\ coll' = [coll EXCEPT ![f.dest] = [state |-> "live", name |-> f.name]]
           /\ coll'[f.made].name = f.name
  BY <1>1, <1>5, CommittedFiling
<1>8. \A c \in Collection : f.made # c => coll'[c] = coll[c]
  BY <1>1, CommittedFiling
<1>9. \A c \in Collection : LiveColl(c) => LiveColl(c)' /\ f.made # c /\ coll'[c] = coll[c]
  BY <1>1, <1>8, CommittedFiling, NoneIsNothing DEF LiveColl
<1>10. TypeOK'
  <2>1. item' \in [Item -> ItemRow]
    BY <1>1, <1>5 DEF ItemRow
  <2>2. coll' \in [Collection -> CollRow]
    <3>1. f.made # None => [state |-> "live", name |-> f.name] \in CollRow
      BY <1>7 DEF CollRow, RowState
    <3> QED
      BY <1>1, <1>5, <1>7, <3>1
  <2> QED
    BY <1>1, <1>2, <1>3, <1>5, <2>1, <2>2 DEF Inv, TypeOK
<1>11. ASSUME NEW q \in Mover PROVE FilingPart(q)'
  <2>1. CASE q = p
    BY <1>3, <2>1 DEF FilingPart, Holding
  <2>2. CASE q # p
    <3>1. FilingPart(q) /\ filing'[q] = filing[q] /\ q \notin Remover /\ q \in Txn
      BY <1>4, <2>2, NoneIsNothing DEF Inv, Txn
    <3>2. filing[q].pc \in Holding => filing[q].item \in Item /\ filing[q].item # f.item
      BY <1>1, <1>5, <2>2, <3>1 DEF FilingPart, Inv, ItemsAreApart, HoldsItem
    <3>3. filing[q].pc \in Holding =>
            LiveItem(filing[q].item)' /\ (q \in Organizer => item'[filing[q].item].in = Unsorted)
      BY <1>6, <3>1, <3>2 DEF FilingPart, LiveItem
    <3>4. ASSUME filing[q].made # None
          PROVE  coll'[filing[q].made].state = "unborn" /\ Named(filing[q].name)' = {}
      <4>1. /\ filing[q].made \in Collection /\ coll[filing[q].made].state = "unborn"
            /\ Named(filing[q].name) = {}
        BY <3>1, <3>4 DEF FilingPart
      <4>2. f.made # None => f.made # filing[q].made /\ f.name # filing[q].name
        BY <2>2, <3>4 DEF Inv, ClaimsAreApart
      <4>3. coll'[filing[q].made].state = "unborn"
        BY <1>8, <3>4, <4>1, <4>2
      <4>4. ASSUME NEW c \in Collection, LiveColl(c)', coll'[c].name = filing[q].name
            PROVE  FALSE
        <5>1. CASE f.made = c
          BY <1>7, <4>2, <4>4, <5>1, NoneIsNothing
        <5>2. CASE f.made # c
          BY <1>8, <4>1, <4>4, <5>2 DEF Named, LiveColl
        <5> QED
          BY <5>1, <5>2
      <4> QED
        BY <3>1, <4>3, <4>4 DEF Named
    <3>5. filing[q].pc = "commit" /\ filing[q].made = None =>
            LiveColl(filing[q].dest)' /\ Undisturbed(filing[q].dest)'
      BY <1>5, <1>9, <3>1 DEF FilingPart, Undisturbed, Deleting
    <3> QED
      BY <3>1, <3>3, <3>4, <3>5 DEF FilingPart
  <2> QED
    BY <2>1, <2>2
<1>12. ASSUME NEW r \in Remover PROVE RemovalPart(r)'
  <2>1. RemovalPart(r) /\ removal[r] \in RemovalState /\ r # p /\ r \in Txn
    BY <1>1 DEF Inv, TypeOK, Txn
  <2>2. f.item \notin removal[r].taken /\ removal[r].taken \subseteq Item
    BY <1>1, <1>5, <2>1 DEF RemovalState, Inv, ItemsAreApart, HoldsItem
  <2>3. \A i \in removal[r].taken : LiveItem(i)' /\ item'[i].in = removal[r].source
    BY <1>6, <2>1, <2>2 DEF RemovalPart, LiveItem
  <2>4. removal[r].target # None => removal[r].target \in Collection
    BY <2>1 DEF RemovalState
  <2> QED
    BY <1>5, <1>9, <2>1, <2>3, <2>4 DEF RemovalPart, Undisturbed, Deleting
<1>13. ItemsAreApart'
  <2>1. \A q \in Txn, i \in Item : HoldsItem(q, i)' => HoldsItem(q, i)
    BY <1>3, <1>4, <1>5 DEF HoldsItem, Holding, Txn
  <2> QED
    BY <2>1 DEF Inv, ItemsAreApart
<1>14. ClaimsAreApart'
  BY <1>3, <1>4 DEF Inv, ClaimsAreApart
<1>15. DeletionsAreApart'
  BY <1>5 DEF Inv, DeletionsAreApart, Deleting
<1>16. NamesAreUnique'
  <2>1. ASSUME NEW c \in Collection, NEW d \in Collection, c # d,
               LiveColl(c)', LiveColl(d)', coll'[c].name = coll'[d].name
        PROVE  FALSE
    <3>1. CASE f.made # c /\ f.made # d
      BY <1>8, <2>1, <3>1 DEF Inv, NamesAreUnique, LiveColl
    <3>2. CASE f.made = c
      BY <1>7, <1>8, <2>1, <3>2, NoneIsNothing DEF Named, LiveColl
    <3>3. CASE f.made = d
      BY <1>7, <1>8, <2>1, <3>3, NoneIsNothing DEF Named, LiveColl
    <3> QED
      BY <3>1, <3>2, <3>3
  <2> QED
    BY <2>1 DEF NamesAreUnique
<1> QED
  BY <1>10, <1>11, <1>12, <1>13, <1>14, <1>15, <1>16 DEF Inv

\* What the commit of a deletion finds, and what it leaves.
LEMMA CommittedRemoval ==
  ASSUME Inv, NEW r \in Remover, CommitRemoval(r)
  PROVE  LET x == removal[r] IN
         /\ x.source \in Collection /\ x.source # Unsorted /\ x.target # x.source
         /\ LiveColl(x.source) /\ x.taken \subseteq Item
         /\ x.taken = Contents(x.source)
         /\ x.target # None /\ x.taken # {} =>
              x.target \in Collection /\ LiveColl(x.target) /\ Undisturbed(x.target)
         /\ \A i \in Item : i \notin x.taken => item'[i] = item[i]
         /\ \A i \in x.taken :
              item'[i] = IF x.target = None THEN DeletedItem
                         ELSE [item[i] EXCEPT !.in = x.target]
         /\ item' \in [Item -> ItemRow]
         /\ coll' = [coll EXCEPT ![x.source] = DeletedColl]
         /\ removal' = [removal EXCEPT ![r] = IdleRemoval]
         /\ filing' = filing
<1> DEFINE x == removal[r]
           new(i) == IF i \notin x.taken THEN item[i]
                     ELSE IF x.target = None THEN DeletedItem
                     ELSE [item[i] EXCEPT !.in = x.target]
<1>1. /\ RemovalPart(r) /\ x.pc = "restrict" /\ x \in RemovalState
      /\ item \in [Item -> ItemRow] /\ coll \in [Collection -> CollRow]
  BY DEF Inv, TypeOK, CommitRemoval
<1>2. /\ x.source \in Collection /\ x.source # Unsorted /\ x.target # x.source
      /\ LiveColl(x.source) /\ x.taken \subseteq Item
      /\ x.target # None => x.target \in Collection
  BY <1>1 DEF RemovalPart, RemovalState
<1>3. x.taken = Contents(x.source)
  BY <1>1, <1>2 DEF CommitRemoval, Leftover, RemovalPart, Contents
<1>4. x.target # None /\ x.taken # {} => LiveColl(x.target) /\ Undisturbed(x.target)
  BY <1>1 DEF RemovalPart
<1>5. item' = [i \in Item |-> new(i)]
  BY DEF CommitRemoval
<1>6. ASSUME NEW i \in Item PROVE new(i) \in ItemRow
  BY <1>1, <1>2, UnsortedAssumption DEF ItemRow, RowState, DeletedItem
<1>7. item' \in [Item -> ItemRow]
  BY <1>5, <1>6
<1>8. coll' = [coll EXCEPT ![x.source] = DeletedColl]
  BY <1>1 DEF CommitRemoval
<1>9. removal' = [removal EXCEPT ![r] = IdleRemoval]
  BY DEF CommitRemoval, FinishRemoval
<1> QED
  BY <1>2, <1>3, <1>4, <1>5, <1>7, <1>8, <1>9 DEF CommitRemoval

LEMMA CommitRemovalKeepsInv ==
  ASSUME Inv, NEW r \in Remover, CommitRemoval(r)
  PROVE  Inv'
<1> DEFINE x == removal[r]
<1>1. /\ item \in [Item -> ItemRow] /\ coll \in [Collection -> CollRow] /\ r \notin Mover
      /\ removal \in [Remover -> RemovalState] /\ r \in Txn
      /\ x.source \in Collection /\ x.source # Unsorted /\ x.pc = "restrict"
  BY NoneIsNothing, CommittedRemoval DEF Inv, TypeOK, CommitRemoval, Txn
<1>2. removal' = [removal EXCEPT ![r] = IdleRemoval]
  BY CommittedRemoval
<1>3. /\ removal'[r] \in RemovalState
      /\ removal'[r].pc = "idle" /\ removal'[r].taken = {}
  BY <1>1, <1>2 DEF IdleRemoval, RemovalState
<1>4. \A s \in Remover : s # r => removal'[s] = removal[s]
  BY <1>1, <1>2
<1>5. \A i \in Item : i \notin x.taken => item'[i] = item[i]
  BY CommittedRemoval
<1>6. coll' = [coll EXCEPT ![x.source] = DeletedColl]
  BY CommittedRemoval
<1>7. \A c \in Collection : c # x.source => coll'[c] = coll[c]
  BY <1>1, <1>6
<1>8. coll'[x.source].state # "live" /\ LiveColl(x.source) /\ filing' = filing
  BY <1>1, <1>6, CommittedRemoval DEF CollRow, DeletedColl
<1>9. \A c \in Collection : Undisturbed(c) =>
        Undisturbed(c)' /\ c # x.source /\ coll'[c] = coll[c]
  BY <1>1, <1>3, <1>4, <1>7 DEF Undisturbed, Deleting
<1>10. TypeOK'
  <2>1. coll' \in [Collection -> CollRow]
    <3>1. DeletedColl \in CollRow
      BY <1>1, UnsortedAssumption DEF CollRow, RowState, DeletedColl
    <3> QED
      BY <1>1, <1>6, <3>1
  <2> QED
    BY <1>1, <1>2, <1>3, <2>1, CommittedRemoval DEF Inv, TypeOK
<1>11. ASSUME NEW p \in Mover PROVE FilingPart(p)'
  <2>1. FilingPart(p) /\ filing' = filing /\ p \notin Remover /\ p \in Txn
    BY CommittedRemoval, NoneIsNothing DEF Inv, Txn
  <2>2. filing[p].pc \in Holding => item'[filing[p].item] = item[filing[p].item]
    <3>1. filing[p].pc \in Holding => filing[p].item \in Item /\ filing[p].item \notin x.taken
      BY <1>1, <2>1 DEF FilingPart, Inv, ItemsAreApart, HoldsItem
    <3> QED
      BY <1>5, <3>1
  <2>3. ASSUME filing[p].made # None
        PROVE  coll'[filing[p].made].state = "unborn" /\ Named(filing[p].name)' = {}
    <3>1. /\ filing[p].made \in Collection /\ coll[filing[p].made].state = "unborn"
          /\ Named(filing[p].name) = {}
      BY <2>1, <2>3 DEF FilingPart
    <3>2. filing[p].made # x.source
      BY <1>8, <3>1 DEF LiveColl
    <3>3. \A c \in Collection : LiveColl(c)' => LiveColl(c) /\ coll'[c].name = coll[c].name
      BY <1>7, <1>8 DEF LiveColl
    <3> QED
      BY <1>7, <2>1, <3>1, <3>2, <3>3 DEF Named
  <2>4. ASSUME filing[p].pc = "commit", filing[p].made = None
        PROVE  LiveColl(filing[p].dest)' /\ Undisturbed(filing[p].dest)'
    <3>1. PICK c \in Collection : c = filing[p].dest /\ LiveColl(c) /\ Undisturbed(c)
      BY <2>1, <2>4 DEF FilingPart
    <3> QED
      BY <1>9, <2>1, <3>1 DEF LiveColl
  <2> QED
    BY <2>1, <2>2, <2>3, <2>4 DEF FilingPart, LiveItem
<1>12. ASSUME NEW s \in Remover PROVE RemovalPart(s)'
  <2>1. CASE s = r
    BY <1>3, <2>1 DEF RemovalPart
  <2>2. CASE s # r
    <3>1. RemovalPart(s) /\ removal[s] \in RemovalState /\ s \in Txn /\ removal'[s] = removal[s]
      BY <1>4, <2>2 DEF Inv, TypeOK, Txn
    <3>2. \A i \in removal[s].taken : i \in Item /\ i \notin x.taken
      BY <1>1, <2>2, <3>1 DEF RemovalState, Inv, ItemsAreApart, HoldsItem
    <3>3. \A i \in removal[s].taken : LiveItem(i)' /\ item'[i].in = removal[s].source
      BY <1>5, <3>1, <3>2 DEF RemovalPart, LiveItem
    <3>4. removal[s].pc = "restrict" => LiveColl(removal[s].source)'
      <4>1. removal[s].pc = "restrict" =>
              /\ removal[s].source \in Collection /\ removal[s].source # x.source
              /\ LiveColl(removal[s].source)
        BY <1>1, <2>2, <3>1 DEF RemovalPart, Inv, DeletionsAreApart, Deleting
      <4> QED
        BY <1>7, <3>1, <4>1 DEF LiveColl
    <3>5. ASSUME NEW c \in Collection, removal[s].target = c,
                 removal[s].pc \in {"delete", "restrict"}, removal[s].taken # {}
          PROVE  LiveColl(c)' /\ Undisturbed(c)'
      BY <1>9, <3>1, <3>5, NoneIsNothing DEF RemovalPart, LiveColl
    <3>6. removal[s].target # None => removal[s].target \in Collection
      BY <3>1 DEF RemovalState
    <3> QED
      BY <3>1, <3>3, <3>4, <3>5, <3>6 DEF RemovalPart
  <2> QED
    BY <2>1, <2>2
<1>13. ItemsAreApart'
  <2>1. \A q \in Txn, i \in Item : HoldsItem(q, i)' => HoldsItem(q, i)
    BY <1>1, <1>3, <1>4, CommittedRemoval DEF HoldsItem, Txn
  <2> QED
    BY <2>1 DEF Inv, ItemsAreApart
<1>14. ClaimsAreApart'
  BY <1>8 DEF Inv, ClaimsAreApart
<1>15. DeletionsAreApart'
  BY <1>3, <1>4 DEF Inv, DeletionsAreApart, Deleting
<1>16. NamesAreUnique'
  BY <1>7, <1>8 DEF Inv, NamesAreUnique, LiveColl
<1> QED
  BY <1>10, <1>11, <1>12, <1>13, <1>14, <1>15, <1>16 DEF Inv

-----------------------------------------------------------------------------
(***************************************************************************)
(* The invariant, and what follows from it.                                *)
(***************************************************************************)

\* Every step writes rows or is quiet.
LEMMA StepKinds ==
  ASSUME Next
  PROVE  \/ \E i \in Item : ItemNext(i)
         \/ \E p \in Mover : QuietFiling(p) \/ CommitFiling(p)
         \/ \E r \in Remover : QuietRemoval(r) \/ CommitRemoval(r)
<1>1. ASSUME NEW p \in Mover, FilingNext(p) PROVE QuietFiling(p) \/ CommitFiling(p)
  BY <1>1, Zenon DEF FilingNext, FilingStep, QuietFiling
<1>2. ASSUME NEW r \in Remover, RemovalNext(r) PROVE QuietRemoval(r) \/ CommitRemoval(r)
  BY <1>2, Zenon DEF RemovalNext, RemovalStep, QuietRemoval
<1>3. CASE ResolveDeadlock
  <2>1. PICK p \in Txn : Abort(p)
    BY <1>3 DEF ResolveDeadlock, Busy, Txn
  <2>2. CASE p \in Remover
    BY <2>1, <2>2 DEF Abort, QuietRemoval
  <2>3. CASE p \notin Remover
    BY <2>1, <2>3 DEF Abort, QuietFiling, Txn
  <2> QED
    BY <2>2, <2>3
<1> QED
  BY <1>1, <1>2, <1>3, Zenon DEF Next

LEMMA StepInv == ASSUME Inv, [Next]_vars PROVE Inv'
<1>1. CASE Next
  BY <1>1, StepKinds, ItemStepKeepsInv, QuietFilingGains, QuietFilingKeepsInv,
     CommitFilingKeepsInv, QuietRemovalTakes, QuietRemovalKeepsInv, CommitRemovalKeepsInv
<1>2. CASE UNCHANGED vars
  BY <1>2 DEF vars, Inv, TypeOK, FilingPart, RemovalPart, ItemsAreApart, ClaimsAreApart,
     DeletionsAreApart, NamesAreUnique, LiveItem, LiveColl, Named, Undisturbed, Deleting,
     HoldsItem
<1> QED
  BY <1>1, <1>2

\* The invariant holds in every reachable state.
THEOREM InvariantHolds == Spec => []Inv
  BY InitInv, StepInv, PTL DEF Spec

\* Rows and transactions have their types, whatever the number of users' requests.
THEOREM TypesHold == Spec => []TypeOK
<1>1. Inv => TypeOK
  BY DEF Inv
<1> QED
  BY <1>1, InvariantHolds, PTL

\* A user never has two collections of one name, however many requests and tasks
\* create it at once (INSERT ... ON CONFLICT, and the unique index behind it).
THEOREM NamesStayUnique == Spec => []NamesAreUnique
<1>1. Inv => NamesAreUnique
  BY DEF Inv
<1> QED
  BY <1>1, InvariantHolds, PTL

\* What a filing or an organization decides on under the item's row lock stays true
\* until it commits.
THEOREM DecisionsStand == Spec => []FilingDecisionStands
<1>1. Inv => FilingDecisionStands
  BY DEF Inv, FilingPart, FilingDecisionStands
<1> QED
  BY <1>1, InvariantHolds, PTL

\* A deletion commits for exactly the items that are in the collection then: those
\* filed or saved after its UPDATE or DELETE of the items make RESTRICT refuse it.
THEOREM RemovalIsExact == Spec => RemovalTakesExactlyContents
<1> DEFINE Exact ==
      \A r \in Remover : CommitRemoval(r) =>
          LET x == removal[r] IN
          \A i \in Item :
              IF i \in Contents(x.source)
              THEN IF x.target = None THEN item'[i].state = "deleted"
                                      ELSE LiveItem(i)' /\ item'[i].in = x.target
              ELSE item'[i] = item[i]
<1>1. Inv => Exact
  <2> SUFFICES ASSUME Inv, NEW r \in Remover, CommitRemoval(r), NEW i \in Item
               PROVE  LET x == removal[r] IN
                      IF i \in Contents(x.source)
                      THEN IF x.target = None THEN item'[i].state = "deleted"
                                              ELSE LiveItem(i)' /\ item'[i].in = x.target
                      ELSE item'[i] = item[i]
    OBVIOUS
  <2> DEFINE x == removal[r]
  <2>1. item[i] \in ItemRow
    BY DEF Inv, TypeOK
  <2>2. CASE i \notin Contents(x.source)
    BY <2>2, CommittedRemoval
  <2>3. CASE i \in Contents(x.source)
    <3>1. item'[i] = IF x.target = None THEN DeletedItem
                     ELSE [item[i] EXCEPT !.in = x.target]
      BY <2>3, CommittedRemoval, ZenonT(60)
    <3> QED
      BY <2>1, <2>3, <3>1 DEF ItemRow, DeletedItem, Contents, LiveItem
  <2> QED
    BY <2>2, <2>3
<1> QED
  BY <1>1, InvariantHolds, PTL DEF RemovalTakesExactlyContents

-----------------------------------------------------------------------------
(***************************************************************************)
(* Deadlocks.                                                              *)
(***************************************************************************)

\* Whoever has inserted a collection waits for nobody: no deletion has chosen it.
LEMMA ClaimantsDoNotWait ==
    ASSUME Inv, NEW p \in Mover, filing[p].made # None, NEW q
    PROVE  ~WaitsFor(p, q)
<1>1. /\ filing[p].pc \in {"move", "commit"} /\ filing[p].dest = filing[p].made
      /\ ~LiveColl(filing[p].dest)
  BY DEF Inv, FilingPart, LiveColl
<1>2. ASSUME NEW r \in Remover PROVE ~Deleting(r, filing[p].dest)
  BY <1>1, <1>2 DEF Inv, RemovalPart, Deleting
<1>3. p \notin Remover
  BY NoneIsNothing
<1> QED
  BY <1>1, <1>2, <1>3 DEF WaitsFor, WaitsForItem, WaitsForName, WaitsForColl

\* A filing that holds its item waits, if at all, for a deletion that has taken its
\* collection's row.
LEMMA HoldersWaitForDeletions ==
    ASSUME Inv, NEW p \in Mover, filing[p].pc \in Holding, NEW q \in Txn, WaitsFor(p, q)
    PROVE  \/ q \in Remover /\ removal[q].pc = "restrict"
           \/ q \in Mover /\ filing[q].made # None
<1>1. p \notin Remover
  BY NoneIsNothing
<1>2. WaitsForName(p, q) \/ WaitsForColl(p, q)
  BY <1>1 DEF WaitsFor, WaitsForItem, Holding
<1> QED
  BY <1>1, <1>2 DEF WaitsForName, WaitsForColl, Claims, Deleting

\* Filings and organizations close no cycle of waits without a deletion, and those that
\* hold an item wait for one that is at its RESTRICT check.
THEOREM DeadlocksInvolveADeletion == Spec => []DeadlocksNeedADeletion
<1>1. Inv => DeadlocksNeedADeletion
  <2> SUFFICES ASSUME Inv, NEW T \in SUBSET (Mover \cup Remover), T # {}, Deadlocked(T)
               PROVE  /\ T \cap Remover # {}
                      /\ \A p \in T \cap Mover : filing[p].pc \in Holding =>
                            \E r \in T \cap Remover :
                               removal[r].pc = "restrict" /\ WaitsFor(p, r)
    BY DEF DeadlocksNeedADeletion
  <2>1. \A p \in T : \E q \in T : WaitsFor(p, q)
    BY DEF Deadlocked
  <2>2. \A p \in T \cap Mover : filing[p].made = None
    BY <2>1, ClaimantsDoNotWait
  <2>3. ASSUME NEW p \in T \cap Mover, filing[p].pc \in Holding
        PROVE  \E r \in T \cap Remover : removal[r].pc = "restrict" /\ WaitsFor(p, r)
    <3>1. PICK q \in T : WaitsFor(p, q)
      BY <2>1
    <3>2. q \in Remover /\ removal[q].pc = "restrict"
      BY <2>2, <2>3, <3>1, HoldersWaitForDeletions DEF Txn
    <3> QED
      BY <3>1, <3>2
  <2>4. ASSUME T \cap Remover = {} PROVE FALSE
    <3>1. PICK p \in T : TRUE
      OBVIOUS
    <3>2. p \in Mover /\ p \notin Remover
      BY <2>4, <3>1
    <3>3. PICK q \in T : WaitsFor(p, q)
      BY <2>1
    <3>4. q \in Mover /\ q \notin Remover
      BY <2>4
    <3>5. filing[p].pc \notin Holding /\ filing[q].pc \notin Holding
      BY <2>3, <2>4, <3>2, <3>4
    <3>6. WaitsForItem(p, q)
      BY <3>2, <3>3, <3>5 DEF WaitsFor, WaitsForName, WaitsForColl, Holding
    <3> QED
      BY <3>2, <3>4, <3>5, <3>6 DEF WaitsForItem, HoldsItem
  <2> QED
    BY <2>3, <2>4
<1> QED
  BY <1>1, InvariantHolds, PTL

-----------------------------------------------------------------------------
(***************************************************************************)
(* The refinement: each write is one move of Shelving, the rest stutters.  *)
(***************************************************************************)

Home == [i \in Item |-> HomeOf(i)]

Label == [c \in Collection |-> LabelOf(c)]

LEMMA HomeIs ==
  ASSUME TypeOK
  PROVE  /\ \A i \in Item : Home[i] = HomeOf(i)
         /\ \A i \in Item : item[i].state = "unborn" => Home[i] = "unsaved"
         /\ \A i \in Item : LiveItem(i) => Home[i] = item[i].in /\ Home[i] \in Collection
         /\ \A i \in Item : item[i].state = "deleted" => Home[i] = "gone"
         /\ \A i \in Item, c \in Collection : Home[i] = c <=> i \in Contents(c)
<1>1. \A i \in Item : item[i] \in ItemRow
  BY DEF TypeOK
<1>2. \A i \in Item : Home[i] = HomeOf(i)
  BY DEF Home
<1>3. \A i \in Item :
        /\ item[i].state \in RowState /\ item[i].in \in Collection
        /\ item[i].state = "unborn" => Home[i] = "unsaved"
        /\ item[i].state = "live" => Home[i] = item[i].in
        /\ item[i].state = "deleted" => Home[i] = "gone"
  BY <1>1, <1>2 DEF ItemRow, RowState, HomeOf
<1> QED
  BY <1>2, <1>3, HomeAssumption DEF RowState, Contents, LiveItem

LEMMA LabelIs ==
  ASSUME TypeOK
  PROVE  /\ \A c \in Collection : LiveColl(c) => Label[c] = coll[c].name /\ Label[c] \in Name
         /\ \A c \in Collection : ~LiveColl(c) => Label[c] = None
         /\ \A c \in Collection : Label[c] # None <=> LiveColl(c)
<1>1. \A c \in Collection : coll[c] \in CollRow /\ Label[c] = LabelOf(c)
  BY DEF TypeOK, Label
<1> QED
  BY <1>1, NoneIsNothing DEF CollRow, LabelOf

\* A step that leaves places and names alone maps to a stutter.
LEMMA QuietStutters ==
  ASSUME UNCHANGED << item, coll >>
  PROVE  Home' = Home /\ Label' = Label
BY DEF Home, Label, HomeOf, LabelOf, LiveColl

\* An item that stays in its state and its collection stays at home.
LEMMA SameHome ==
  ASSUME NEW i \in Item, item'[i].state = item[i].state, item'[i].in = item[i].in
  PROVE  Home'[i] = Home[i]
<1>1. HomeOf(i)' = HomeOf(i)
  BY Zenon DEF HomeOf
<1> QED
  BY <1>1 DEF Home

LEMMA ItemStepMoves ==
  ASSUME Inv, Inv', NEW i \in Item, ItemNext(i)
  PROVE  \/ Shelves!Saved(i) \/ Shelves!Discarded(i)
         \/ Home' = Home /\ Label' = Label
<1>1. TypeOK /\ TypeOK' /\ item \in [Item -> ItemRow] /\ coll' = coll
  BY DEF Inv, TypeOK, ItemNext, Save, DeleteItem, Enrich
<1>2. Label' = Label
  BY <1>1 DEF Label, LabelOf, LiveColl
<1>3. \A j \in Item : j # i => item'[j] = item[j]
  BY <1>1 DEF ItemNext, Save, DeleteItem, Enrich
<1>4. \A j \in Item : j # i => Home'[j] = Home[j]
  BY <1>3, SameHome
<1>5. Home = [j \in Item |-> Home[j]] /\ Home' = [j \in Item |-> Home'[j]]
  BY DEF Home
<1>6. CASE Save(i)
  <2>1. item[i].state = "unborn" /\ item'[i].state = "live" /\ item'[i].in = Unsorted
    BY <1>1, <1>6 DEF Save
  <2>2. Home[i] = "unsaved" /\ Home'[i] = Unsorted
    BY <1>1, <2>1 DEF Home, HomeOf
  <2>3. Home' = [Home EXCEPT ![i] = Unsorted]
    BY <1>4, <1>5, <2>2
  <2>4. Shelves!Saved(i)
    BY <1>2, <2>2, <2>3 DEF Shelves!Saved, Home, Label
  <2> QED
    BY <2>4
<1>7. CASE DeleteItem(i)
  <2>1. LiveItem(i) /\ item'[i].state = "deleted"
    BY <1>1, <1>7 DEF DeleteItem, DeletedItem
  <2>2. Home[i] \in Collection /\ Home'[i] = "gone"
    BY <1>1, <2>1, HomeIs DEF Home, HomeOf
  <2>3. Home' = [Home EXCEPT ![i] = "gone"]
    BY <1>4, <1>5, <2>2
  <2>4. Shelves!Discarded(i)
    BY <1>2, <2>2, <2>3 DEF Shelves!Discarded, Home, Label
  <2> QED
    BY <2>4
<1>8. ASSUME NEW n \in Platform \cup {None}, Enrich(i, n)
      PROVE  Home' = Home
  <2>1. item'[i] = [item[i] EXCEPT !.platform = n]
    BY <1>1, <1>8 DEF Enrich
  <2>2. item'[i].state = item[i].state /\ item'[i].in = item[i].in
    BY <1>1, <2>1 DEF ItemRow
  <2>3. Home'[i] = Home[i]
    BY <2>2, SameHome
  <2> QED
    BY <1>4, <1>5, <2>3
<1> QED
  BY <1>2, <1>6, <1>7, <1>8 DEF ItemNext

LEMMA CommitFilingFiles ==
  ASSUME Inv, Inv', NEW p \in Mover, CommitFiling(p)
  PROVE  Shelves!Filed(filing[p].item, filing[p].dest)
<1> DEFINE f == filing[p]
<1>0. /\ f.item \in Item /\ f.dest \in Collection /\ LiveItem(f.item)
      /\ item' = [item EXCEPT ![f.item] = [item[f.item] EXCEPT !.in = f.dest]]
  BY CommittedFiling
<1>1. PICK i \in Item, c \in Collection :
        /\ i = f.item /\ c = f.dest /\ LiveItem(i)
        /\ item' = [item EXCEPT ![i] = [item[i] EXCEPT !.in = c]]
  BY <1>0
<1>2. TypeOK /\ item \in [Item -> ItemRow] /\ coll \in [Collection -> CollRow]
  BY DEF Inv, TypeOK
<1>3. Home[i] \in Collection
  BY <1>1, <1>2, HomeIs
<1>4. Home' = [Home EXCEPT ![i] = c]
  <2>1. item'[i].state = "live" /\ item'[i].in = c
    BY <1>1, <1>2 DEF ItemRow, LiveItem
  <2>2. \A j \in Item : j # i => item'[j] = item[j]
    BY <1>1, <1>2
  <2>3. Home'[i] = c /\ \A j \in Item : j # i => Home'[j] = Home[j]
    BY <2>1, <2>2, SameHome DEF Home, HomeOf
  <2>4. Home = [j \in Item |-> Home[j]] /\ Home' = [j \in Item |-> Home'[j]]
    BY DEF Home
  <2> QED
    BY <2>3, <2>4
<1>5. CASE f.made = None
  <2>1. LiveColl(c) /\ coll' = coll
    BY <1>1, <1>5, CommittedFiling
  <2>2. Label[c] # None /\ Label' = Label
    BY <1>2, <2>1, LabelIs DEF Label, LabelOf, LiveColl
  <2> QED
    BY <1>1, <1>3, <1>4, <2>2 DEF Shelves!Filed, Shelves!Exists, Home, Label
<1>6. CASE f.made # None
  <2>1. PICK n \in Name :
          /\ n = f.name /\ coll[c].state = "unborn" /\ Named(n) = {}
          /\ coll' = [coll EXCEPT ![c] = [state |-> "live", name |-> n]]
    BY <1>1, <1>6, CommittedFiling
  <2>2. Label[c] = None
    BY <1>2, <2>1, LabelIs DEF LiveColl
  <2>3. \A d \in Collection : Label[d] # n
    BY <1>2, <2>1, LabelIs, NoneIsNothing DEF Named
  <2>4. Label' = [Label EXCEPT ![c] = n]
    <3>1. coll'[c].state = "live" /\ coll'[c].name = n
      BY <1>2, <2>1
    <3>2. \A d \in Collection : d # c => coll'[d] = coll[d]
      BY <1>2, <2>1
    <3>3. Label'[c] = n /\ \A d \in Collection : d # c => Label'[d] = Label[d]
      BY <3>1, <3>2 DEF Label, LabelOf, LiveColl
    <3>4. Label = [d \in Collection |-> Label[d]] /\ Label' = [d \in Collection |-> Label'[d]]
      BY DEF Label
    <3> QED
      BY <3>3, <3>4
  <2> QED
    BY <1>1, <1>3, <1>4, <2>2, <2>3, <2>4 DEF Shelves!Filed, Shelves!Exists, Home, Label
<1> QED
  BY <1>5, <1>6

LEMMA CommitRemovalRemoves ==
  ASSUME Inv, Inv', NEW r \in Remover, CommitRemoval(r)
  PROVE  Shelves!Removed(removal[r].source)
<1> DEFINE x == removal[r]
<1>1. PICK c \in Collection, target \in Collection \cup {None}, taken \in SUBSET Item :
        c = x.source /\ target = x.target /\ taken = x.taken
  BY CommittedRemoval DEF Inv, TypeOK, RemovalState
<1>2. /\ c # Unsorted /\ target # c /\ LiveColl(c) /\ taken = Contents(c)
      /\ target # None /\ taken # {} => LiveColl(target)
      /\ \A i \in Item : i \notin taken => item'[i] = item[i]
      /\ coll' = [coll EXCEPT ![c] = DeletedColl]
  BY <1>1, CommittedRemoval
<1>3. \A i \in taken :
        item'[i] = IF target = None THEN DeletedItem
                   ELSE [item[i] EXCEPT !.in = target]
  BY <1>1, CommittedRemoval
<1>4. TypeOK /\ item \in [Item -> ItemRow] /\ coll \in [Collection -> CollRow]
  BY DEF Inv, TypeOK
<1>5. Label[c] # None
  BY <1>2, <1>4, LabelIs
<1>6. Label' = [Label EXCEPT ![c] = None]
  <2>1. coll'[c].state = "deleted" /\ \A d \in Collection : d # c => coll'[d] = coll[d]
    BY <1>2, <1>4 DEF CollRow, DeletedColl
  <2>2. Label'[c] = None /\ \A d \in Collection : d # c => Label'[d] = Label[d]
    BY <2>1 DEF Label, LabelOf, LiveColl
  <2>3. Label = [d \in Collection |-> Label[d]] /\ Label' = [d \in Collection |-> Label'[d]]
    BY DEF Label
  <2> QED
    BY <2>2, <2>3
<1>7. \A i \in Item : Home[i] = c <=> i \in taken
  BY <1>2, <1>4, HomeIs
<1>8. \A i \in Item : i \notin taken => Home'[i] = Home[i]
  BY <1>2, SameHome
<1>9. Home' = [i \in Item |-> Home'[i]]
  BY DEF Home
<1>10. CASE target = None \/ taken = {}
  <2>1. ASSUME NEW i \in taken PROVE Home'[i] = "gone"
    <3>1. item'[i].state = "deleted"
      <4>1. item'[i] = DeletedItem
        BY <1>3, <1>10, <2>1
      <4> QED
        BY <4>1 DEF DeletedItem
    <3> QED
      BY <2>1, <3>1 DEF Home, HomeOf
  <2>2. Home' = [i \in Item |-> IF Home[i] = c THEN "gone" ELSE Home[i]]
    BY <1>7, <1>8, <1>9, <2>1
  <2>3. Shelves!Removed(c)
    <3>1. \E new \in {"gone"} \cup {d \in Collection \ {c} : Label[d] # None} :
            Home' = [i \in Item |-> IF Home[i] = c THEN new ELSE Home[i]]
      BY <2>2
    <3> QED
      BY <1>2, <1>5, <1>6, <3>1 DEF Shelves!Removed, Shelves!Exists, Home, Label
  <2> QED
    BY <1>1, <2>3
<1>11. CASE target # None /\ taken # {}
  <2>1. target \in Collection \ {c} /\ Label[target] # None
    BY <1>2, <1>4, <1>11, LabelIs
  <2>2. ASSUME NEW i \in taken PROVE Home'[i] = target
    <3>1. LiveItem(i) /\ item'[i] = [item[i] EXCEPT !.in = target]
      BY <1>2, <1>3, <1>11, <2>2 DEF Contents
    <3>2. item'[i].state = "live" /\ item'[i].in = target
      BY <1>4, <2>2, <3>1 DEF ItemRow, LiveItem
    <3> QED
      BY <2>2, <3>2 DEF Home, HomeOf
  <2>3. Home' = [i \in Item |-> IF Home[i] = c THEN target ELSE Home[i]]
    BY <1>7, <1>8, <1>9, <2>2
  <2> QED
    <3>1. Shelves!Removed(c)
      <4>1. \E new \in {"gone"} \cup {d \in Collection \ {c} : Label[d] # None} :
              Home' = [i \in Item |-> IF Home[i] = c THEN new ELSE Home[i]]
        BY <2>1, <2>3
      <4> QED
        BY <1>2, <1>5, <1>6, <4>1 DEF Shelves!Removed, Shelves!Exists, Home, Label
    <3> QED
      BY <1>1, <3>1
<1> QED
  BY <1>10, <1>11

LEMMA ShelvingStep ==
  ASSUME Inv, [Next]_vars
  PROVE  [Shelves!ShelvingNext]_(Shelves!shelf)
<1> DEFINE Goal == Shelves!ShelvingNext \/ (Home' = Home /\ Label' = Label)
<1> SUFFICES Goal
  BY DEF Shelves!shelf, Home, Label
<1>1. Inv'
  BY StepInv
<1>2. ASSUME NEW i \in Item, ItemNext(i) PROVE Goal
  BY <1>1, <1>2, ItemStepMoves DEF Shelves!ShelvingNext
<1>3. ASSUME NEW p \in Mover, CommitFiling(p) PROVE Goal
  <2>1. PICK i \in Item, c \in Collection : Shelves!Filed(i, c)
    BY <1>1, <1>3, CommitFilingFiles, CommittedFiling
  <2> QED
    BY <2>1 DEF Shelves!ShelvingNext
<1>4. ASSUME NEW r \in Remover, CommitRemoval(r) PROVE Goal
  <2>1. PICK c \in Collection : Shelves!Removed(c)
    BY <1>1, <1>4, CommitRemovalRemoves, CommittedRemoval
  <2> QED
    BY <2>1 DEF Shelves!ShelvingNext
<1>5. ASSUME NEW p \in Mover, QuietFiling(p) PROVE Goal
  BY <1>5, QuietFilingGains, QuietStutters DEF Gains
<1>6. ASSUME NEW r \in Remover, QuietRemoval(r) PROVE Goal
  BY <1>6, QuietRemovalTakes, QuietStutters DEF Takes
<1>7. CASE UNCHANGED vars
  BY <1>7, QuietStutters DEF vars
<1> QED
  BY <1>2, <1>3, <1>4, <1>5, <1>6, <1>7, StepKinds

\* The statements of concurrent transactions appear to a user as single moves of
\* items between collections: no item is ever in a collection that is gone.
THEOREM Refinement == Spec => ImplementsShelving
<1>1. Init => Shelves!ShelvingInit
  BY UnsortedAssumption DEF Init, Shelves!ShelvingInit, HomeOf, LabelOf, LiveColl
<1>2. Inv /\ [Next]_vars => [Shelves!ShelvingNext]_(Shelves!shelf)
  BY ShelvingStep
<1> QED
  BY <1>1, <1>2, InvariantHolds, PTL DEF Spec, ImplementsShelving, Shelves!ShelvingSpec
=============================================================================
