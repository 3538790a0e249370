SPECIFICATION Spec
CONSTANTS
    s1 = s1
    s2 = s2
    s3 = s3
    f1 = f1
    f2 = f2
    f3 = f3
    MaxUid = 2
    MaxBit = 9
    Sets <- MCSets
    Pos <- MCPos
    Families <- MCFamilies
    Rank <- MCRankTied
    Sources <- MCSources
    NoBit = NoBit
    NoFamily = NoFamily
INVARIANTS
    SourcesDecode
    RowsFollowBits
    ListedOnceIfChained
CHECK_DEADLOCK FALSE
