SPECIFICATION Spec
CONSTANTS
    p1 = p1
    Processes = {p1, p2}
    Requests = {r1}
    Events = {e1, e2}
    Poison = {e1}
    Home <- OneCaller
    Prefetch = 1
    MaxFaults = 1
INVARIANTS TypeOK DataWasComputed OnlyRefusedLeak NothingLost RepeatedOnlyAfterLoss
PROPERTIES EveryRequestEnds MessagesAreServed
CHECK_DEADLOCK FALSE
