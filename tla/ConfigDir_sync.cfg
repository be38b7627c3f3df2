SPECIFICATION DirSpec
CONSTANTS
    p1 = p1
    p2 = p2
    r1 = r1
    Writers = {p1, p2}
    Readers = {r1}
    Lengths = {1, 2}
    Inodes = {1, 2, 3, 4, 5}
    NoFile = 0
    Operator = Operator
    MaxCalls = 3
    MaxCrashes = 1
    t1 = t1
    x1 = x1
    x2 = x2
    NFiles = 2
    Tags = {t1}
    ApiTags = {t1}
    Syncs = {x1, x2}
    Edits <- Moves
    MaxEvents = 2
INVARIANTS FileInv RowsTypeOK StatusHonest
PROPERTIES ImplementsAtomicFile InPlaceKept RowsFollow ClientsPersist
