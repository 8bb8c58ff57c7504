SPECIFICATION Spec
CONSTANTS
    Requests = {r1, r2, r3}
    Serialized = TRUE
    InitialRows <- AllRows
    EditStatuses <- FormStatuses
    EditShippings <- FormShippings
SYMMETRY Alike
INVARIANTS HistoryInOrder
PROPERTIES ImplementsContract
CHECK_DEADLOCK FALSE
