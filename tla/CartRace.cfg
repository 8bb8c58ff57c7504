SPECIFICATION Spec
CONSTANTS
    apple = apple
    pear = pear
    Requests = {r1, r2}
    Serialized = FALSE
    Items = {apple, pear}
    Price <- Prices
    Quantities = {1, 2}
    InitialCarts <- RaceCarts
    FormStatuses = {"CART", "PENDING"}
SYMMETRY Alike
INVARIANTS TypeOK TotalWasTrue PlacedByFullCheckout
CHECK_DEADLOCK FALSE
