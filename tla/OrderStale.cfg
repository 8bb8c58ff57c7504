SPECIFICATION Spec
CONSTANTS
    Requests = {r1, r2}
    Serialized = FALSE
    InitialRows <- RaceRows
    EditStatuses <- FormStatuses
    EditShippings <- FormShippings
SYMMETRY Alike
PROPERTIES StatusMovesAlongTable
CHECK_DEADLOCK FALSE
