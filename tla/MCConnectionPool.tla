--------------------------- MODULE MCConnectionPool ---------------------------
(* A small instance of ConnectionPool for TLC: the handlers of CartService.  *)
EXTENDS ConnectionPool

CONSTANTS form, other, l1, l2

\* createCart: getCart, the order's save, its details in parallel, and the second save.
CreateCart == <<"begin", "query", "launch", "join", "query", "commit">>

\* createOrderDetail.
CreateLine == <<"begin", "query", "commit">>

\* checkoutCart: getCart, a parcel for each detail in parallel (a save), and the order's saves.
CheckoutCart == <<"begin", "launch", "join", "query", "commit">>
Parcel == <<"query">>

CartHandlers == {CreateCart, CheckoutCart}
HandlersOfLines == [p \in CartHandlers |-> IF p = CreateCart THEN {CreateLine} ELSE {Parcel}]

\* A form with up to two lines, and one without any.
TwoForms == [r \in Requests |-> IF r = form THEN {l1, l2} ELSE {}]

\* From one connection to as many as can be blocked, and enough.
SmallAndLarge == {1..n : n \in {1, 2, 3, 4, 5}}

=============================================================================
