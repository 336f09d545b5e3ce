\* Lists of up to three rows; LIMIT 1 and LIMIT 2.
CONSTANTS
    Nil = Nil
    Rows = {r1, r2, r3}
    Owners = {u1, u2}
    Me = u1
    Asked <- MCAsked
    DefaultLimit = 1
    LogsLimit = 2
    MaxAt = 2
SPECIFICATION FairSpec
INVARIANTS
    TypeOK
    MissesOnlyForRemovals
PROPERTIES
    WalkEnds
