----------------------------- MODULE CartContract -----------------------------
(***************************************************************************)
(* What a cart promises a customer whose requests come one at a time: a    *)
(* basket with one line per item, whose lines are put in, changed and      *)
(* taken out one by one or all at once; a total that is brought up to date *)
(* at the end of a request; and an order that is placed once, when every   *)
(* line has been announced to the shippers, and changes no more after.     *)
(* Two failures show: a look-up that fails is taken for a line that is not *)
(* there, and a list that fails for an empty one.                          *)
(***************************************************************************)
EXTENDS Naturals, FiniteSetsExt

CONSTANTS Items, Price, Quantities,
          Baskets,        \* the baskets to start from
          FormStatuses    \* statuses updateCart's form may carry

VARIABLES
    basket,      \* the lines by id: item and quantity
    total,       \* the total that the customer is shown
    status, code,
    announced,   \* the lines with a shipping
    unseen,      \* the items a failed look-up has overlooked
    unlisted     \* whether a failed list has passed for an empty basket

contract == <<basket, total, status, code, announced, unseen, unlisted>>

Cost(b) == MapThenSumSet(LAMBDA id : Price[b[id].item] * b[id].quantity, DOMAIN b)

Init == /\ basket \in Baskets
        /\ total = Cost(basket)
        /\ status = "CART" /\ code = "cart"
        /\ announced = {}
        /\ unseen = {}
        /\ unlisted = FALSE

Open == status = "CART" /\ code = "cart"

Put(id, item, quantity) ==
    /\ id \notin DOMAIN basket
    /\ (\E k \in DOMAIN basket : basket[k].item = item) => item \in unseen
    /\ basket' = [k \in DOMAIN basket \cup {id} |->
                     IF k = id THEN [item |-> item, quantity |-> quantity] ELSE basket[k]]
    /\ UNCHANGED <<total, status, code, announced, unseen, unlisted>>

Change(id, quantity) ==
    /\ id \in DOMAIN basket
    /\ basket' = [basket EXCEPT ![id].quantity = quantity]
    /\ UNCHANGED <<total, status, code, announced, unseen, unlisted>>

\* What the customer takes out is not shipped.
TakeOut(ids) ==
    /\ basket' = [k \in DOMAIN basket \ ids |-> basket[k]]
    /\ announced' = announced \ ids
    /\ UNCHANGED <<total, status, code, unseen, unlisted>>

Announce(id) ==
    /\ id \in DOMAIN basket
    /\ announced' = announced \cup {id}
    /\ UNCHANGED <<basket, total, status, code, unseen, unlisted>>

Place == /\ announced = DOMAIN basket \/ unlisted
         /\ status' = "PENDING" /\ code' = "order"
         /\ UNCHANGED <<basket, total, announced, unseen, unlisted>>

Overlook(item) == /\ unseen' = unseen \cup {item}
                  /\ UNCHANGED <<basket, total, status, code, announced, unlisted>>

OverlookAll == /\ unlisted' = TRUE
               /\ UNCHANGED <<basket, total, status, code, announced, unseen>>

\* The end of a request; the only thing that still happens to an order.
Settle == /\ total' = Cost(basket)
          /\ (status' = status) \/ (Open /\ status' \in FormStatuses)
          /\ UNCHANGED <<basket, code, announced, unseen, unlisted>>

Shop == \/ \E id \in DOMAIN basket', item \in Items, quantity \in Quantities : Put(id, item, quantity)
        \/ \E id \in DOMAIN basket, quantity \in Quantities : Change(id, quantity)
        \/ \E id \in DOMAIN basket : TakeOut({id}) \/ Announce(id)
        \/ TakeOut(DOMAIN basket)
        \/ Place
        \/ \E item \in Items : Overlook(item)
        \/ OverlookAll

Next == (Open /\ Shop) \/ Settle

Spec == Init /\ [][Next]_contract

=============================================================================
