----------------------------- MODULE OrderStatuses -----------------------------
(***************************************************************************)
(* The status enums of an order and the two transition tables that         *)
(* OrderService consults.  A status without an entry in its table is       *)
(* terminal: validateStatusTransition refuses every target.                *)
(***************************************************************************)

EOrderStatus == {"CART", "PENDING", "CONFIRMED", "PROCESSING", "ON_HOLD", "SHIPPED",
                 "COMPLETED", "CANCELLED", "REFUNDED", "FAILED"}

EShippingStatus == {"NOT_REQUIRED", "PENDING", "CONFIRMED", "SHIPPED", "IN_TRANSIT",
                    "DELIVERED", "RETURNED", "LOST"}

ORDER_TRANSITIONS == [s \in EOrderStatus |->
    CASE s = "CART"       -> {"PENDING"}
      [] s = "PENDING"    -> {"CONFIRMED", "CANCELLED"}
      [] s = "CONFIRMED"  -> {"PROCESSING", "CANCELLED"}
      [] s = "PROCESSING" -> {"SHIPPED", "ON_HOLD", "CANCELLED"}
      [] s = "ON_HOLD"    -> {"PROCESSING", "CANCELLED"}
      [] s = "SHIPPED"    -> {"COMPLETED"}
      [] s = "COMPLETED"  -> {"REFUNDED"}
      [] OTHER            -> {}]

SHIPPING_TRANSITIONS == [s \in EShippingStatus |->
    CASE s = "NOT_REQUIRED" -> {"PENDING"}
      [] s = "PENDING"      -> {"CONFIRMED"}
      [] s = "CONFIRMED"    -> {"SHIPPED"}
      [] s = "SHIPPED"      -> {"IN_TRANSIT", "RETURNED"}
      [] s = "IN_TRANSIT"   -> {"DELIVERED", "RETURNED", "LOST"}
      [] s = "DELIVERED"    -> {"RETURNED"}
      [] OTHER              -> {}]

=============================================================================
