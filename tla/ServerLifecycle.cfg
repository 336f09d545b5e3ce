\* Two requests and one worker on a pool of one connection.
CONSTANTS
    Requests = {r1, r2}
    Workers = {w1}
    MaxOpenConns = 1
    MaxStatements = 2
SPECIFICATION FairSpec
CHECK_DEADLOCK FALSE
INVARIANTS
    TypeOK
    NothingCutOff
PROPERTIES
    SignalEndsServer
    DeafServerExits
    AcceptedEnds
