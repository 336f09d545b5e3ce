\* Two tabs with two calls at a time, by two accounts.
CONSTANTS
    Nil = Nil
    Tokens = {p1, p2, p3}
    Requests = {c1, c2}
    Tabs = {t1, t2}
    Users = {u1, u2}
SYMMETRY MCSymmetry
SPECIFICATION Spec
INVARIANTS
    TypeOK
    
PROPERTIES
    SignedOutStaysOut
    RefreshKeepsSession
    CallsEnd
