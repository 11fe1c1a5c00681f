--------------------------- MODULE OrderLifecycle ---------------------------
(***************************************************************************)
(* The order state machine (src/src/ordering/state-machine.ts): the status *)
(* vocabulary, the allow-list of transitions and the classes of statuses   *)
(* the services branch on.  A constant-level module: every component that  *)
(* moves an order does it through transitionOrder, which consults this     *)
(* table under a row lock.                                                 *)
(***************************************************************************)

Statuses ==
  {"CREATED", "PAYMENT_PENDING", "PAYMENT_CONFIRMED", "PAYMENT_FAILED",
   "PAYMENT_EXPIRED", "DISPATCHED", "DISPATCH_FAILED", "ACKNOWLEDGED",
   "PREPARING", "READY", "COLLECTED", "REJECTED", "CANCELLED",
   "REFUND_PENDING", "REFUNDED", "REFUND_FAILED", "RECONCILIATION_REQUIRED"}

Allowed ==
  [s \in Statuses |->
     CASE s = "CREATED" -> {"PAYMENT_PENDING", "CANCELLED"}
       [] s = "PAYMENT_PENDING" ->
            {"PAYMENT_CONFIRMED", "PAYMENT_FAILED", "PAYMENT_EXPIRED",
             "CANCELLED", "RECONCILIATION_REQUIRED"}
       [] s = "PAYMENT_CONFIRMED" ->
            {"DISPATCHED", "DISPATCH_FAILED", "RECONCILIATION_REQUIRED"}
       [] s = "DISPATCHED" ->
            {"ACKNOWLEDGED", "DISPATCH_FAILED", "REJECTED", "CANCELLED"}
       [] s = "ACKNOWLEDGED" -> {"PREPARING", "READY", "REJECTED"}
       [] s = "PREPARING" -> {"READY", "REJECTED"}
       [] s = "READY" -> {"COLLECTED"}
       [] s = "DISPATCH_FAILED" ->
            {"DISPATCHED", "CANCELLED", "REJECTED", "REFUND_PENDING"}
       [] s \in {"REJECTED", "CANCELLED"} -> {"REFUND_PENDING"}
       [] s = "REFUND_PENDING" -> {"REFUNDED", "REFUND_FAILED"}
       [] s = "REFUND_FAILED" -> {"REFUND_PENDING", "RECONCILIATION_REQUIRED"}
       [] s = "RECONCILIATION_REQUIRED" ->
            {"PAYMENT_CONFIRMED", "REFUND_PENDING", "CANCELLED", "COLLECTED"}
       [] OTHER -> {}]

CanTransition(from, to) == to \in Allowed[from]

(* transitionOrder treats a move to the current status as a success that   *)
(* changes nothing, and refuses every move the table does not list.        *)
TransitionAccepted(from, to) == from = to \/ CanTransition(from, to)

(* orderAlreadyConfirmed in applyEvent is the negation of this class.      *)
AwaitingPayment == {"CREATED", "PAYMENT_PENDING"}

(* A kitchen has committed to the order: the statuses claimCapturable asks *)
(* about.                                                                  *)
Committed == {"ACKNOWLEDGED", "PREPARING", "READY", "COLLECTED"}

(* Paid for and travelling towards the customer.                           *)
InKitchen == {"PAYMENT_CONFIRMED", "DISPATCHED", "DISPATCH_FAILED"} \cup Committed

(* cancelOrder's allow-list.                                               *)
Cancellable == {"CREATED", "PAYMENT_PENDING", "DISPATCHED", "DISPATCH_FAILED"}
=============================================================================
