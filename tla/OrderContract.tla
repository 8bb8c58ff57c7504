----------------------------- MODULE OrderContract -----------------------------
(***************************************************************************)
(* What the status endpoints of an order promise: an order moves along its *)
(* two transition tables, one edge at a time, an editor may overwrite the  *)
(* columns of the edit form, and a deleted order does not change any more  *)
(* (no mutation restores one).                                             *)
(***************************************************************************)
EXTENDS OrderStatuses

CONSTANTS InitialRows,    \* the rows createOrder leaves behind
          EditStatuses,   \* statuses an editor's form carries
          EditShippings   \* shipping statuses an editor's form carries

VARIABLES status, shipping, deleted

order == <<status, shipping, deleted>>

Init == \E r \in InitialRows : /\ status = r.status
                               /\ shipping = r.shipping
                               /\ deleted = r.deleted

ChangeStatus == /\ status' \in ORDER_TRANSITIONS[status]
                /\ UNCHANGED <<shipping, deleted>>

ChangeShipping == /\ shipping' \in SHIPPING_TRANSITIONS[shipping]
                  /\ UNCHANGED <<status, deleted>>

Edit == /\ status' \in EditStatuses \cup {status}
        /\ shipping' \in EditShippings
        /\ UNCHANGED deleted

Delete == /\ deleted' = TRUE
          /\ UNCHANGED <<status, shipping>>

Next == /\ ~deleted
        /\ ChangeStatus \/ ChangeShipping \/ Edit \/ Delete

Spec == Init /\ [][Next]_order

=============================================================================
