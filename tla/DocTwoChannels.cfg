\* README: channel 2 is the fragment.
CONSTANTS
    Nil = Nil
    Links = {l1}
    AesKeys = {k1}
    Keys <- MCKeys
    Users = {u1}
    Handlers = {h1}
    Senders = {s1}
    Readers = {r1}
    ExpiresIn <- MCExpiry
    MaxNow = 1
    MaxShared = 1
    Failures = FALSE
SPECIFICATION ScreensSpec
INVARIANT
    TwoChannelsOpen
