----------------------------- MODULE OrderStatus -----------------------------
(***************************************************************************)
(* The status vocabulary shared by the order modules: the workflow         *)
(* statuses of constants/orderWorkflow.js and the legacy `status` strings  *)
(* kept beside them on every order document.                               *)
(***************************************************************************)

WorkflowStatus ==
    {"CREATED", "SELLER_PENDING", "SELLER_ACCEPTED", "DELIVERY_SEARCH",
     "DELIVERY_ASSIGNED", "PICKUP_READY", "OUT_FOR_DELIVERY",
     "DELIVERED", "CANCELLED"}

LegacyStatuses ==
    {"pending", "confirmed", "packed", "out_for_delivery",
     "delivered", "cancelled"}

\* legacyStatusFromWorkflow: the legacy string written beside a workflow status.
LegacyStatus(w) ==
    CASE w \in {"CREATED", "SELLER_PENDING"} -> "pending"
      [] w \in {"SELLER_ACCEPTED", "DELIVERY_SEARCH",
                "DELIVERY_ASSIGNED", "PICKUP_READY"} -> "confirmed"
      [] w = "OUT_FOR_DELIVERY" -> "out_for_delivery"
      [] w = "DELIVERED" -> "delivered"
      [] w = "CANCELLED" -> "cancelled"

\* Statuses of an order whose goods are still meant for the customer.
LiveStatus == WorkflowStatus \ {"DELIVERED", "CANCELLED"}
=============================================================================
