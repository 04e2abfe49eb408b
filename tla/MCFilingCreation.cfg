SPECIFICATION Spec
CONSTANTS
    Item = {i1, i2}
    Collection = {inbox, c1, c2}
    Name = {unsorted, n1, n2}
    Platform = {unsorted, n1}
    Unsorted = inbox
    UnsortedName = unsorted
    Filer = {f1}
    Organizer = {o1}
    Remover = {r1}
    MaxConcurrent = 3
    None = None
    inbox = inbox
    unsorted = unsorted
    i1 = i1
    i2 = i2
    c1 = c1
    c2 = c2
    n1 = n1
    n2 = n2
    f1 = f1
    o1 = o1
    r1 = r1
SYMMETRY Symmetry
INVARIANTS NamesAreUnique FilingDecisionStands DeadlocksNeedADeletion
PROPERTIES RemovalTakesExactlyContents ImplementsShelving
CHECK_DEADLOCK FALSE
