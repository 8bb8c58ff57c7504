SPECIFICATION Spec
CONSTANTS
    form = form
    other = other
    l1 = l1
    l2 = l2
    Requests = {form, other}
    Lines <- TwoForms
    Main = main
    Connections = {1, 2, 3, 4, 5}
    Pools <- SmallAndLarge
    Programs <- CartHandlers
    LinePrograms <- HandlersOfLines
    MaxDepth = 1
    LineDepth = 1
INVARIANTS TypeOK OneOwner NoIdleConnection NoDeadlock
PROPERTIES EveryRequestEnds
CHECK_DEADLOCK FALSE
