\* Viewing screen: the content is destroyed for good.
CONSTANTS
    Nil = Nil
    Links = {l1}
    Keys = {k1}
    Users = {u1}
    Handlers = {h1, h2}
    ExpiresIn <- MCShortExpiresIn
    MaxNow = 1
    Failures = FALSE
SPECIFICATION Spec
INVARIANTS
    ErasedOnceServed
