------------------------------ MODULE MCFiling ------------------------------
(***************************************************************************)
(* Filing on small sets. Items, requests and tasks are interchangeable;    *)
(* collections and names are so apart from Unsorted's.                     *)
(***************************************************************************)
EXTENDS Filing, TLC

Symmetry ==
    Permutations(Item) \cup Permutations(Filer) \cup Permutations(Organizer)
        \cup Permutations(Remover) \cup Permutations(Collection \ {Unsorted})
        \cup Permutations(Name \ {UnsortedName})

(***************************************************************************)
(* The user has filed every item before, each into a collection of its     *)
(* own; further collections are yet to be created.                         *)
(***************************************************************************)
Injections(S, T) == {f \in [S -> T] : \A x, y \in S : f[x] = f[y] => x = y}

Home == CHOOSE f \in Injections(Item, Collection \ {Unsorted}) : TRUE

Existing == {Home[i] : i \in Item}

NameOf == CHOOSE f \in Injections(Existing, Name \ {UnsortedName}) : TRUE

FiledInit ==
    /\ item = [i \in Item |-> [state |-> "live", in |-> Home[i], platform |-> None]]
    /\ coll = [c \in Collection |->
          [state |-> IF c \in Existing \cup {Unsorted} THEN "live" ELSE "unborn",
           name |-> IF c \in Existing THEN NameOf[c] ELSE UnsortedName]]
    /\ filing = [p \in Mover |-> IdleFiling]
    /\ removal = [r \in Remover |-> IdleRemoval]

FiledSpec == FiledInit /\ [][Next]_vars /\ Fairness
=============================================================================
