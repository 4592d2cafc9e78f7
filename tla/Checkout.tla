------------------------------ MODULE Checkout ------------------------------
(***************************************************************************)
(* The checkout: the order service and the payment service joined by       *)
(* order_request_queue and payment_order_queue, and the seller service at  *)
(* the end of seller_request_queue.  Each is the module that specifies it; *)
(* a step of the whole is a step of one of them.                           *)
(***************************************************************************)
EXTENDS Integers, FiniteSets, MessageQueue

CONSTANTS
  Orders, Payments, Codes, Baskets, Asked, None,
  PaymentClients, PaymentWorkers, MaxPaymentCalls, MaxPaymentFaults, MaxPaymentCrashes,
  OrderClients, OrderWorkers, MaxOrderCalls, MaxOrderFaults, MaxOrderCrashes,
  MaxSellerCrashes,
  MaxFailuresEach, \* bound: errors and crashes of one service together
  MaxFailures      \* bound: errors and crashes of the three services together

ASSUME BoundsAssumption ==
  /\ MaxPaymentCalls \in Nat /\ MaxPaymentFaults \in Nat /\ MaxPaymentCrashes \in Nat
  /\ MaxOrderCalls \in Nat /\ MaxOrderFaults \in Nat /\ MaxOrderCrashes \in Nat
  /\ MaxSellerCrashes \in Nat /\ MaxFailuresEach \in Nat /\ MaxFailures \in Nat

VARIABLES
  \* the payment service
  payments, codes, paymentCalls, paymentDeliveries, outbox, mailOutbox, paymentMails,
  accepted, completed, lost, paymentMade, paymentFaults, paymentCrashes,
  \* the order service
  orders, orderCalls, orderDeliveries, writes, requests, orderMails, sellerQueue,
  orderMade, orderFaults, orderCrashes, unrequested, untold, lostWrites,
  \* the seller service
  inHand, asked, sellerCrashes,
  \* the queues between them
  requestQueue, statusQueue

Payment == INSTANCE PaymentServiceProofs WITH
  Clients <- PaymentClients, Workers <- PaymentWorkers, MaxCalls <- MaxPaymentCalls,
  MaxFaults <- MaxPaymentFaults, MaxCrashes <- MaxPaymentCrashes,
  calls <- paymentCalls, deliveries <- paymentDeliveries, mailQueue <- paymentMails,
  made <- paymentMade, faults <- paymentFaults, crashes <- paymentCrashes

\* What the payment service may tell: to the order service it is a payment service
\* that has reported just this.
TrueNews == {m \in Payment!StatusMessage : Payment!MessageIsTrue(m)}

Order == INSTANCE OrderStandaloneProofs WITH
  Clients <- OrderClients, Workers <- OrderWorkers, MaxCalls <- MaxOrderCalls,
  MaxFaults <- MaxOrderFaults, MaxCrashes <- MaxOrderCrashes,
  calls <- orderCalls, deliveries <- orderDeliveries, mailQueue <- orderMails,
  made <- orderMade, faults <- orderFaults, crashes <- orderCrashes,
  reported <- TrueNews, MaxReports <- 0 \* not used: the payment service reports

Seller == INSTANCE SellerInbox WITH
  MaxCrashes <- MaxSellerCrashes, crashes <- sellerCrashes

ASSUME NoneAssumption ==
  /\ None \notin Orders /\ None \notin Payments /\ None \notin Codes
  /\ None \notin Baskets /\ None \notin Order!StatusMessage
ASSUME WorkersAssumption == Order!WorkersAssumption  \* OrderWorkers is finite
ASSUME AskedAssumption == Asked \subseteq Order!OrderStatus

paymentVars ==
  <<payments, codes, paymentCalls, paymentDeliveries, outbox, mailOutbox, paymentMails,
    accepted, completed, lost, paymentMade, paymentFaults, paymentCrashes>>
orderVars ==
  <<orders, orderCalls, orderDeliveries, writes, requests, orderMails,
    orderMade, orderFaults, orderCrashes, unrequested, untold, lostWrites>>
sellerVars == <<inHand, asked, sellerCrashes>>
vars == <<paymentVars, orderVars, sellerVars, requestQueue, statusQueue, sellerQueue>>

Init ==
  /\ Payment!ServiceInit
  /\ Order!ServiceInit
  /\ Seller!ServiceInit
  /\ requestQueue = {}
  /\ statusQueue = NoMessages(Order!StatusMessage)

PaymentStep(A) == UNCHANGED <<orderVars, sellerVars, sellerQueue>> /\ A
OrderStep(A) == UNCHANGED <<paymentVars, sellerVars>> /\ A
SellerStep(A) == UNCHANGED <<paymentVars, orderVars, requestQueue, statusQueue>> /\ A

Rest ==
  /\ Payment!Quiescent /\ Order!Quiescent /\ Seller!Quiescent
  /\ UNCHANGED vars

Next ==
  /\ \/ PaymentStep(Payment!ServiceNext)
     \/ OrderStep(Order!ServiceNext)
     \/ SellerStep(Seller!Next)
     \/ Rest
  /\ paymentFaults' + paymentCrashes' <= MaxFailuresEach
  /\ orderFaults' + orderCrashes' <= MaxFailuresEach
  /\ paymentFaults' + paymentCrashes' + orderFaults' + orderCrashes' + sellerCrashes'
       <= MaxFailures

Spec == Init /\ [][Next]_vars

\* Each service keeps running: while it has a promise that has settled, a message
\* that is ready or a publication that is due, it takes some such step.  The bounds
\* end every behaviour, so this asks no more than the fairness of the services'
\* own specifications; nothing below depends on the news of a failure.
Needed == [type : {"PENDING", "SUCCESS"}, orderId : Orders, paymentId : Payments]
PaymentWork ==
  \/ \E cl \in PaymentClients : Payment!Continue(cl)
  \/ \E w \in PaymentWorkers :
       Payment!Consume(w) \/ \E o \in Orders : Payment!Deliver(w, o)
  \/ \E m \in Needed : Payment!PublishStatus(m)
OrderWork ==
  \/ \E cl \in OrderClients : Order!Continue(cl)
  \/ \E w \in OrderWorkers :
       Order!Consume(w) \/ \E m \in Needed : Order!Deliver(w, m)
  \/ \E m \in Needed : Order!ApplyWrite(m)
  \/ \E o \in Orders : Order!SendRequest(o)
SellerWork == \E o \in Orders : Seller!Deliver(o) \/ Seller!Handle(o)
Fairness ==
  /\ WF_vars(PaymentStep(PaymentWork))
  /\ WF_vars(OrderStep(OrderWork))
  /\ WF_vars(SellerStep(SellerWork))
FairSpec == Spec /\ Fairness

\* What the gateway follows from a payment to its order (Payment.order and
\* Order.__resolveReference).
order(p) == Order!getOrderDirect(payments[p].orderId)

-----------------------------------------------------------------------------
(***************************************************************************)
(* Safety                                                                  *)
(***************************************************************************)
\* The payment an order is linked to is a payment of that order, although two
\* services write the two sides of the link from messages that crashes repeat
\* and unawaited updates reorder; hence no two orders ever claim one payment
\* and uq_payment_id never rejects an update.
LinkIsSound ==
  \A o \in Order!getOrders(Orders) : orders[o].paymentId # None =>
    \E p \in Payment!getPaymentById(orders[o].paymentId) : payments[p].orderId = o

\* Whoever is shown a payment finds its order, under the same user: a payment
\* exists only for an order that is stored, whatever became of the calls and
\* messages in between.
PaymentsHaveOrders ==
  \A placed \in SUBSET Orders : \A p \in Payment!getPaymentByUserId(placed) :
    order(p) # {} /\ order(p) \subseteq Order!getOrders(placed)

\* What either service answers, of an order or of a user, the other one's answers
\* bear out.
AnswersFit == LinkIsSound /\ PaymentsHaveOrders

\* An order that says it is paid was paid, with the payment it names, in the
\* database of the payment service, which never shows that payment as pending
\* again; and the seller is asked to ship, and the user told so, only for an order
\* that some payment completed.
PaidMeansCompleted ==
  \A o \in Orders :
    /\ orders[o].paymentStatus = "SUCCESS" =>
         /\ orders[o].paymentId \in completed
         /\ orders[o].paymentId \notin Payment!getPaymentByStatus("PENDING")
    /\ \/ Seller!AskedAbout(o)
       \/ orderMails[[type |-> "CONFIRMATION", orderId |-> o]] > 0
       => \E p \in completed : payments[p].orderId = o

(***************************************************************************)
(* Liveness                                                                *)
(***************************************************************************)
\* The news of the order's pending payment will never take effect: it died with the
\* payment service or its publication failed, or the order service acknowledged it
\* and died with the update it does not wait for.
PendingLost(o) == \E m \in lost \cup lostWrites : m.type = "PENDING" /\ m.orderId = o

\* A completed payment of the order was never announced.
SuccessLost(o) == \E m \in lost : m.type = "SUCCESS" /\ m.orderId = o

\* A stored order becomes and stays linked to a payment, whatever errors and
\* crashes the three services meet, unless one of them hits this very order: the
\* order service never sent its request (nothing in its database says that it has
\* to), or the news of the pending payment was lost.
OrderGetsPayment ==
  \A o \in Orders :
    <>[](Order!Exists(o) =>
           orders[o].paymentId # None \/ o \in unrequested \/ PendingLost(o))

\* A completed payment reaches the seller of the order through two queues, whatever
\* errors and crashes the three services meet, unless one of them hits this very
\* order: the payment service lost the announcement after the commit, or the
\* publication to the seller failed, an error the order service swallows.  (An
\* update that dies with the order service is no excuse here: the handler that
\* issued it had not acknowledged the message.)
PaidReachesSeller ==
  \A o \in Orders :
    <>[]((\E p \in completed : payments[p].orderId = o) =>
           o \in asked \/ o \in untold \/ SuccessLost(o))

=============================================================================
