SPECIFICATION FiledSpec
CONSTANTS
    Item = {i1, i2}
    Collection = {inbox, c1, c2}
    Name = {unsorted, n1, n2}
    Platform = {}
    Unsorted = inbox
    UnsortedName = unsorted
    Filer = {f1}
    Organizer = {}
    Remover = {r1, r2}
    MaxConcurrent = 2
    None = None
    inbox = inbox
    unsorted = unsorted
    i1 = i1
    i2 = i2
    c1 = c1
    c2 = c2
    n1 = n1
    n2 = n2
    f1 = f1
    r1 = r1
    r2 = r2
PROPERTIES TransactionsEnd
CHECK_DEADLOCK FALSE
