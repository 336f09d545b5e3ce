\* Two requests at a time.  A refused UPDATE of the migrated schema is one
\* of the failing UPDATEs of this instance.
CONSTANTS
    Nil = Nil
    UnstoredId = UnstoredId
    Handlers = {h1, h2}
    Tokens = {t1, t2, t3}
    Users = {u1}
    TTL = 2
    PurgeAge = 0
    ReplacedByFK = FALSE
    MaxNow = 3
    Failures = TRUE
SYMMETRY MCSymmetry
SPECIFICATION Spec
INVARIANTS
    AuthInv
    RotationAtomic
    NoLateRotation
    EndedStaysEnded
    WaitsEnd
PROPERTIES
    SessionEndsByHolder
    ImplementsTokenLineage
