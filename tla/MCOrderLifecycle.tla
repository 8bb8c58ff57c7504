--------------------------- MODULE MCOrderLifecycle ---------------------------
(* Small instances of OrderLifecycle for TLC. *)
EXTENDS OrderLifecycle, TLC

\* Orders as createOrder leaves them: its input sets both statuses freely.
Rows(statuses, shippings) == [status : statuses, shipping : shippings, deleted : {FALSE}]

RaceRows == Rows({"PENDING", "PROCESSING", "SHIPPED", "COMPLETED"}, {"NOT_REQUIRED", "CONFIRMED"})

AllRows == Rows(EOrderStatus, EShippingStatus)

\* The defaults of UpdateOrderInput, and a parcel confirmed by hand.
FormStatuses == {"PENDING"}
FormShippings == {"NOT_REQUIRED", "CONFIRMED"}

Alike == Permutations(Requests)

=============================================================================
