SPECIFICATION Spec
CONSTANTS
    p1 = p1
    Processes = {p1}
    Requests = {r1}
    Events = {}
    Poison = {}
    Home <- OneCaller
    Prefetch = 1
    MaxFaults = 1
PROPERTIES Reconnects
CHECK_DEADLOCK FALSE
