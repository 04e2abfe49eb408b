------------------------------ MODULE Shelving ------------------------------
(***************************************************************************)
(* What saving, filing and deleting promise to a user: items move between  *)
(* labelled collections in single steps, and none is ever without one.     *)
(***************************************************************************)
CONSTANTS Item, Collection, Name, Unsorted, UnsortedName, None

VARIABLES
    home,   \* where each item is: a collection, "unsaved" or "gone"
    label   \* the name of each existing collection, None for the others

shelf == << home, label >>

Exists(c) == label[c] # None

ShelvingInit ==
    /\ home = [i \in Item |-> "unsaved"]
    /\ label = [c \in Collection |-> IF c = Unsorted THEN UnsortedName ELSE None]

Saved(i) ==
    /\ home[i] = "unsaved"
    /\ home' = [home EXCEPT ![i] = Unsorted]
    /\ UNCHANGED label

Discarded(i) ==
    /\ home[i] \in Collection
    /\ home' = [home EXCEPT ![i] = "gone"]
    /\ UNCHANGED label

\* An item is filed under an existing collection, or under one that is new,
\* with a name nothing else has.
Filed(i, c) ==
    /\ home[i] \in Collection
    /\ home' = [home EXCEPT ![i] = c]
    /\ \/ Exists(c) /\ UNCHANGED label
       \/ /\ ~Exists(c)
          /\ \E n \in Name :
                /\ \A d \in Collection : label[d] # n
                /\ label' = [label EXCEPT ![c] = n]

\* A collection goes with its items, or they all move to another one.
Removed(c) ==
    /\ c # Unsorted
    /\ Exists(c)
    /\ label' = [label EXCEPT ![c] = None]
    /\ \E new \in {"gone"} \cup {d \in Collection \ {c} : Exists(d)} :
          home' = [i \in Item |-> IF home[i] = c THEN new ELSE home[i]]

ShelvingNext ==
    \/ \E i \in Item : Saved(i) \/ Discarded(i)
    \/ \E i \in Item, c \in Collection : Filed(i, c)
    \/ \E c \in Collection : Removed(c)

ShelvingSpec == ShelvingInit /\ [][ShelvingNext]_shelf
=============================================================================
