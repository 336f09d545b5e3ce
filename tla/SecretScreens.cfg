\* One sender, one reader and two requests at a time; a call for a first link
\* may be lost and repeated for a second.
CONSTANTS
    Nil = Nil
    Links = {l1, l2}
    AesKeys = {k1, k2}
    Keys <- MCKeys
    Users = {u1}
    Handlers = {h1, h2}
    Senders = {s1}
    Readers = {r1}
    ExpiresIn <- MCExpiry
    MaxNow = 1
    MaxShared = 1
    Failures = TRUE
SYMMETRY MCSymmetry
SPECIFICATION ScreensSpec
INVARIANTS
    ScreensInv
    OnlyTheKeyOpens
    RevealedIsGone
    RefusalIsTrue
    DoneShowsItsKey
