SPECIFICATION Spec
CONSTANTS
    Requests = {r1, r2, r3}
    Serialized = FALSE
    InitialRows <- RaceRows
    EditStatuses <- FormStatuses
    EditShippings <- FormShippings
SYMMETRY Alike
INVARIANTS TypeOK StatusJustified ShippingJustified ParcelFollowsOrder HistoryIsTrue ChangesAreRecorded
CHECK_DEADLOCK FALSE
