\* refresh.bru: a pair for a good token.
CONSTANTS
    Nil = Nil
    UnstoredId = UnstoredId
    Handlers = {h1}
    Tokens = {t1, t2}
    Users = {u1}
    TTL = 2
    PurgeAge = 0
    ReplacedByFK = TRUE
    MaxNow = 1
    Failures = FALSE
CHECK_DEADLOCK FALSE
SPECIFICATION Spec
PROPERTIES
    RefreshReturnsPair
