\* create-link.bru: authenticated users own the link.
CONSTANTS
    Nil = Nil
    Tokens = {p1, p2, p3}
    Requests = {c1, c2}
    Tabs = {t1}
    Users = {u1}
SYMMETRY MCSymmetry
SPECIFICATION Spec
INVARIANT
    CreatorsOwn
