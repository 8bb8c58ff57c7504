SPECIFICATION Spec
CONSTANTS
    Parents = {p1, p2}
    Children = {c1, c2}
    Requests = {r1, r2}
    AddedByHand = {"is_active"}
    Absent = Absent
    Keep = Keep
SYMMETRY Symmetry
INVARIANTS TypeOK ShownWasThere
PROPERTIES OnlyStaleUndo
CHECK_DEADLOCK FALSE
