SPECIFICATION Spec
CONSTANTS
    apple = apple
    pear = pear
    Requests = {r1, r2, r3}
    Serialized = TRUE
    Items = {apple, pear}
    Price <- Prices
    Quantities = {2}
    InitialCarts <- SerialCarts
    FormStatuses = {"CART", "PENDING"}
SYMMETRY Alike
INVARIANTS OneLinePerItem NoOrphans CheckoutIsComplete OnlyRetriesShipTwice
PROPERTIES RefreshRepairs ImplementsContract
CHECK_DEADLOCK FALSE
