SPECIFICATION Spec
CONSTANTS
    f1 = f1
    f2 = f2
    f3 = f3
    f4 = f4
    Set = set1
    Families <- MCFamilies
    Rank <- MCRank
    Uids = {1, 2, 3}
    Copies = {1, 2}
    MaxFiles = 4
    MaxBit = 6
    NoFamily = NoFamily
    RefUids = {1, 2, 3, 4}
INVARIANTS
    CardsFound
    DuplicatesRejected
    ResolvedFaithful
CHECK_DEADLOCK FALSE
