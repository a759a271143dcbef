------------------------ MODULE PaymentStateMachine ------------------------
(***************************************************************************)
(* The two transition tables of the backend, as data: the one of a payment *)
(* attempt (payments/utils/payment-state-machine.ts) and the one of an     *)
(* order (the constants at the head of order/order.service.ts).            *)
(***************************************************************************)

\* payments/enums/payment.enum.ts, enum PaymentAttemptStatus
PaymentAttemptStatus ==
    {"PENDING", "PROCESSING", "PAID", "FAILED", "CANCELLED", "EXPIRED", "UNKNOWN"}

\* The forward transitions a payment attempt may take.
AllowedPaymentTransitions ==
    [s \in PaymentAttemptStatus |->
        CASE s = "PENDING" -> PaymentAttemptStatus \ {"PENDING"}
          [] s = "PROCESSING" -> {"PAID", "FAILED", "CANCELLED", "UNKNOWN"}
          [] s = "UNKNOWN" -> {"PAID", "FAILED", "CANCELLED", "PROCESSING"}
          [] s = "PAID" -> {}
          [] OTHER -> {"UNKNOWN"}]

AnyTransition(current, target) == current \in PaymentAttemptStatus   \* mutant: no table

\* Staying in the same state is always permitted.
CanTransition(current, target) ==
    current = target \/ target \in AllowedPaymentTransitions[current]

----------------------------------------------------------------------------
(* The statuses an order of the online-payment flow takes.  COMPLETED and   *)
(* FAILED are only reached through Stripe Checkout sessions; the warehouse  *)
(* statuses of the enum are the target of no transition of the table.       *)

OrderStatus ==
    {"PENDING", "ORDER_PLACED", "PROCESSING", "SHIPPED", "DELIVERED",
     "COMPLETED", "REJECTED", "CANCELLED", "RETURNED", "FAILED"}

AllowedOrderTransitions ==
    [s \in OrderStatus |->
        CASE s = "PENDING" -> {"ORDER_PLACED", "PROCESSING", "REJECTED", "CANCELLED"}
          [] s = "ORDER_PLACED" -> {"PROCESSING", "SHIPPED", "CANCELLED"}
          [] s = "PROCESSING" -> {"SHIPPED", "CANCELLED"}
          [] s = "SHIPPED" -> {"DELIVERED", "RETURNED"}
          [] s = "DELIVERED" -> {"RETURNED"}
          [] s = "COMPLETED" -> {"RETURNED"}
          [] OTHER -> {}]

\* An order in the first group has its items taken off the shelf, an order in
\* the second one has given them back.
DeductedStatusGroup ==
    {"PENDING", "ORDER_PLACED", "PROCESSING", "SHIPPED", "DELIVERED", "COMPLETED"}
RestockedStatusGroup == {"CANCELLED", "REJECTED", "RETURNED", "FAILED"}
============================================================================
