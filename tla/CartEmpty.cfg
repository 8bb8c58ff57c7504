SPECIFICATION Spec
CONSTANTS
    apple = apple
    pear = pear
    Requests = {r1, r2}
    Serialized = TRUE
    Items = {apple, pear}
    Price <- Prices
    Quantities = {1, 2}
    InitialCarts <- RaceCarts
    FormStatuses = {"CART", "PENDING"}
SYMMETRY Alike
INVARIANTS CheckoutNeedsProducts
CHECK_DEADLOCK FALSE
