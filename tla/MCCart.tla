------------------------------- MODULE MCCart -------------------------------
(* Small instances of Cart for TLC. *)
EXTENDS Cart, TLC

CONSTANTS apple, pear

Prices == [i \in Items |-> IF i = apple THEN 2 ELSE 3]

Fresh(i) == [item |-> i, quantity |-> 1, attached |-> TRUE]

\* An empty cart, and carts that addToCart filled.
RaceCarts == {NoLines, 1 :> Fresh(apple), (1 :> Fresh(apple)) @@ (2 :> Fresh(pear))}

\* Requests that come one at a time get from these to the third by themselves.
SerialCarts == RaceCarts \ {1 :> Fresh(apple)}

Alike == Permutations(Requests)

=============================================================================
