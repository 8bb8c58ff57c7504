SPECIFICATION Spec
CONSTANTS
    Product = product
    Variants = {v1}
    Units = {u1, u2}
    Rates = {1, 2}
    Categories = {c1, c2}
    NewCategories = {c2}
    Requests = {r1, r2}
    None = None
    Keep = Keep
SYMMETRY Symmetry
INVARIANTS TypeOK BaseIsCheapest ListsAgree
CHECK_DEADLOCK FALSE
