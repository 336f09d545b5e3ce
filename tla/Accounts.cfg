\* Three requests at a time, by two people who may want the same name.
CONSTANTS
    Nil = Nil
    Ids = {u1, u2}
    Names = {n1, n2}
    Clients = {c1, c2}
    Handlers = {h1, h2, h3}
    Failures = TRUE
SYMMETRY MCSymmetry
SPECIFICATION Spec
INVARIANTS
    AccountsInv
    PairsGoToOwner
    RoleIsCurrent
PROPERTIES
    RolesByAdmins
