\* Two requests on one link, with every failure and crashes.  Liveness is
\* checked with the rest, hence no symmetry.
CONSTANTS
    Nil = Nil
    Links = {l1}
    Keys = {k1, k2}
    Users = {u1, u2}
    Handlers = {h1, h2}
    ExpiresIn <- MCExpiresIn
    MaxNow = 1
    Failures = TRUE
SPECIFICATION FairSpec
INVARIANTS
    AuditInv
    NoLateDelivery
    DeletedStaysDeleted
    TextMatchesStatus
    NeverServesErased
    AuditComplete
    DeliveriesOverlap
PROPERTIES
    EndsForCause
    ImplementsOneTimeSecret
    ExpiryEnforced
