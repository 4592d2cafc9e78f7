-------------------------- MODULE OrderStandalone --------------------------
(***************************************************************************)
(* The order service against a payment service that says anything it may   *)
(* say: any message about a payment of an existing order, in any order, a  *)
(* payment always being about the same order (which Checkout shows of the  *)
(* real payment service).                                                  *)
(***************************************************************************)
EXTENDS OrderService

CONSTANT MaxReports  \* bound: the messages the payment service sends

VARIABLE reported   \* the messages the payment service has sent

allvars == <<vars, reported>>

Init ==
  /\ ServiceInit
  /\ requestQueue = {}
  /\ statusQueue = NoMessages(StatusMessage)
  /\ reported = {}

PaymentReports(m) ==
  /\ Exists(m.orderId)
  /\ m \notin reported
  /\ Cardinality(reported) < MaxReports
  /\ \A r \in reported : r.paymentId = m.paymentId => r.orderId = m.orderId
  /\ reported' = reported \cup {m}
  /\ statusQueue' = Put(statusQueue, m)
  /\ UNCHANGED <<orders, memory, requestQueue, mailQueue, sellerQueue, budget, history>>

Rest == Quiescent /\ UNCHANGED allvars

Next ==
  \/ ServiceNext /\ UNCHANGED reported
  \/ \E m \in StatusMessage : PaymentReports(m)
  \/ Rest

Spec == Init /\ [][Next]_allvars
FairSpec == Spec /\ ServiceFairness

-----------------------------------------------------------------------------
\* The seller is asked to ship, and the user told so, only for an order whose
\* payment was reported successful: cancellations, updates, redeliveries and
\* crashes in between never make the consumer take one message for another.
ShippedOnlyIfPaid ==
  \A o \in Orders :
    \/ sellerQueue[o] > 0
    \/ mailQueue[[type |-> "CONFIRMATION", orderId |-> o]] > 0
    => \E p \in Payments : [type |-> "SUCCESS", orderId |-> o, paymentId |-> p] \in reported

\* "Order Successfully Cancelled !" (order.service.ts:182): an order whose user
\* was told so is never turned back into a successful one.
CancelledStaysCancelled ==
  [][\A o \in Orders :
       /\ orders[o].orderStatus = "FAILED"
       /\ mailQueue[[type |-> "CANCELLATION", orderId |-> o]] > 0
       => orders'[o].orderStatus = "FAILED"]_allvars

\* "Either 'status' or 'orderItems' must be provided to update the order."
\* (order.validation.ts:36): an update of the status alone is offered, so such a
\* call returns.
UpdateReturns == \A cl \in Clients : calls[cl].step = "update" ~> calls[cl].step # "update"

=============================================================================
