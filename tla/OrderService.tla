---------------------------- MODULE OrderService ----------------------------
(***************************************************************************)
(* The order service: the GraphQL mutations createOrder, updateOrder and   *)
(* cancelOrder, the consumer of payment_order_queue and the orders table.  *)
(*                                                                         *)
(* The consumer issues the update of the order without awaiting it, so the *)
(* write is a process of its own: it lands before or after whatever the    *)
(* handler does next, the acknowledgement included.                        *)
(***************************************************************************)
EXTENDS Integers, FiniteSets, MessageQueue

CONSTANTS
  Orders,      \* order ids
  Payments,    \* payment ids that status messages name
  Baskets,     \* lists of items, with the price they add up to
  Asked,       \* bound: the statuses that updates ask for
  Clients,     \* GraphQL calls the service runs at a time
  Workers,     \* deliveries of payment_order_queue it runs at a time
  None,        \* null, and the empty list of items
  MaxCalls,    \* bound: GraphQL calls made in a behaviour
  MaxFaults,   \* bound: database or publish errors in a behaviour
  MaxCrashes   \* bound: crashes of the process that no error of ours causes

ASSUME BoundsAssumption ==
  /\ MaxCalls \in Nat
  /\ MaxFaults \in Nat
  /\ MaxCrashes \in Nat
ASSUME WorkersAssumption == IsFiniteSet(Workers)

OrderStatus == {"PENDING", "SUCCESS", "FAILED", "OUT_FOR_DELIVERY", "DELIVERED"}
ASSUME AskedAssumption == Asked \subseteq OrderStatus

VARIABLES
  orders,        \* the orders table with its items; no row yet: "ABSENT"
  calls,         \* the mutations in progress, one per client
  deliveries,    \* the handlers of payment_order_queue in progress
  writes,        \* updates of orders issued and not awaited, by their message
  requests,      \* orders whose payment request is being sent, not awaited
  requestQueue,  \* order_request_queue: orders whose (only) request is ready
  statusQueue,   \* payment_order_queue
  mailQueue,     \* order_confirmation_queue, by kind and order
  sellerQueue,   \* seller_request_queue, by order
  made, faults, crashes, \* what the bounds count
  \* what failures cost; recorded for the properties, nothing reads them:
  unrequested,   \* orders whose payment request will never be sent
  untold,        \* orders whose announcement to the seller failed
  lostWrites     \* acknowledged messages whose update died with the process

memory == <<calls, deliveries, writes, requests>>
queues == <<requestQueue, statusQueue, mailQueue, sellerQueue>>
budget == <<made, faults, crashes>>
history == <<unrequested, untold, lostWrites>>
vars   == <<orders, memory, queues, budget, history>>

StatusMessage ==
  [type : {"PENDING", "SUCCESS", "FAILED"}, orderId : Orders, paymentId : Payments]
ASSUME NoneAssumption ==
  None \notin Orders /\ None \notin Payments /\ None \notin Baskets /\ None \notin StatusMessage
Mail == [type : {"CONFIRMATION", "CANCELLATION"}, orderId : Orders]
Row == [orderStatus : OrderStatus \cup {"ABSENT"},
        paymentStatus : {"SUCCESS", "PENDING"},
        paymentId : Payments \cup {None},
        items : Baskets \cup {None},   \* what the item rows say
        total : Baskets \cup {None}]   \* the basket totalAmount was computed from
Call == [step : {"idle", "create", "update", "write", "mail"},
         order : Orders \cup {None}, basket : Baskets \cup {None},
         status : OrderStatus \cup {None}]
Delivery == [step : {"idle", "read", "mail", "seller", "ack"},
             message : StatusMessage \cup {None}]

NoRow == [orderStatus |-> "ABSENT", paymentStatus |-> "PENDING",
          paymentId |-> None, items |-> None, total |-> None]
IdleCall   == [step |-> "idle", order |-> None, basket |-> None, status |-> None]
NoDelivery == [step |-> "idle", message |-> None]

TypeOK ==
  /\ orders \in [Orders -> Row]
  /\ calls \in [Clients -> Call]
  /\ deliveries \in [Workers -> Delivery]
  /\ writes \in [StatusMessage -> Nat]
  /\ requests \subseteq Orders
  /\ requestQueue \subseteq Orders
  /\ statusQueue \in [StatusMessage -> Nat]
  /\ mailQueue \in [Mail -> Nat]
  /\ sellerQueue \in [Orders -> Nat]
  /\ made \in 0..MaxCalls
  /\ faults \in 0..MaxFaults
  /\ crashes \in 0..MaxCrashes
  /\ unrequested \subseteq Orders
  /\ untold \subseteq Orders
  /\ lostWrites \subseteq StatusMessage

ServiceInit ==
  /\ orders = [o \in Orders |-> NoRow]
  /\ calls = [cl \in Clients |-> IdleCall]
  /\ deliveries = [w \in Workers |-> NoDelivery]
  /\ writes = NoMessages(StatusMessage)
  /\ requests = {}
  /\ mailQueue = NoMessages(Mail)
  /\ sellerQueue = NoMessages(Orders)
  /\ made = 0
  /\ faults = 0
  /\ crashes = 0
  /\ unrequested = {}
  /\ untold = {}
  /\ lostWrites = {}

Exists(o) == orders[o].orderStatus # "ABSENT"
Fault == faults < MaxFaults /\ faults' = faults + 1
Return(cl) == calls' = [calls EXCEPT ![cl] = IdleCall]
Start(cl, call) ==
  /\ calls[cl].step = "idle"
  /\ made < MaxCalls
  /\ made' = made + 1
  /\ calls' = [calls EXCEPT ![cl] = call]

-----------------------------------------------------------------------------
(***************************************************************************)
(* createOrder                                                             *)
(***************************************************************************)
\* Validation passed (an order has at least one item); the product details are
\* requested and the call waits for them.
AskCreate(cl, b) ==
  /\ Start(cl, [step |-> "create", order |-> None, basket |-> b, status |-> None])
  /\ UNCHANGED <<orders, deliveries, writes, requests, queues, faults, crashes, history>>

\* The product service answers a request that names products; it refuses and
\* requeues an empty one for ever (product.service.ts:75), and nobody times out.
Answered(call) == call.basket # None

NewRow(b) == [orderStatus |-> "PENDING", paymentStatus |-> "PENDING",
              paymentId |-> None, items |-> b, total |-> b]

\* The details arrive and the transaction commits; the payment request starts.
CreateOrder(cl) ==
  /\ calls[cl].step = "create"
  /\ Answered(calls[cl])
  /\ \E o \in Orders :
       /\ ~Exists(o)
       /\ orders' = [orders EXCEPT ![o] = NewRow(calls[cl].basket)]
       /\ requests' = requests \cup {o}
  /\ Return(cl)
  /\ UNCHANGED <<deliveries, writes, queues, budget, history>>

\* The details lack a product, or the database fails; the transaction of a
\* failing database may have committed, and then no payment is ever requested.
CreateFails(cl) ==
  /\ calls[cl].step = "create"
  /\ Answered(calls[cl])
  /\ \/ UNCHANGED <<orders, faults, unrequested>>
     \/ /\ Fault
        /\ \E o \in Orders :
             /\ ~Exists(o)
             /\ orders' = [orders EXCEPT ![o] = NewRow(calls[cl].basket)]
             /\ unrequested' = unrequested \cup {o}
  /\ Return(cl)
  /\ UNCHANGED <<deliveries, writes, requests, queues, made, crashes, untold, lostWrites>>

\* requestPaymentInitiation: an error is logged and the request is lost.
SendRequest(o) ==
  /\ o \in requests
  /\ requests' = requests \ {o}
  /\ \/ requestQueue' = requestQueue \cup {o} /\ UNCHANGED <<faults, unrequested>>
     \/ Fault /\ unrequested' = unrequested \cup {o} /\ UNCHANGED requestQueue
  /\ UNCHANGED <<orders, calls, deliveries, writes, statusQueue, mailQueue, sellerQueue,
                 made, crashes, untold, lostWrites>>

-----------------------------------------------------------------------------
(***************************************************************************)
(* updateOrder and cancelOrder                                             *)
(***************************************************************************)
\* Validation asks for a status or for items; the details are requested even
\* when there are no items.
AskUpdate(cl, o, status, b) ==
  /\ status # None \/ b # None
  /\ Start(cl, [step |-> "update", order |-> o, basket |-> b, status |-> status])
  /\ UNCHANGED <<orders, deliveries, writes, requests, queues, faults, crashes, history>>

\* Mutant of Or: the default is forgotten.
NoDefault(value, default) == value

Or(value, default) == IF value = None THEN default ELSE value

\* The transaction reads the order and keeps what it will write back.
ReadForUpdate(cl) ==
  /\ calls[cl].step = "update"
  /\ Answered(calls[cl])
  /\ LET o == calls[cl].order IN
       \/ /\ Exists(o)
          /\ calls' = [calls EXCEPT
                ![cl].step = "write",
                ![cl].status = Or(calls[cl].status, orders[o].orderStatus),
                ![cl].basket = Or(calls[cl].basket, orders[o].total)]
       \/ ~Exists(o) /\ Return(cl)
  /\ UNCHANGED <<orders, deliveries, writes, requests, queues, budget, history>>

\* The updates of the item rows are built and never run (a Prisma query that is
\* neither awaited nor returned), so only the order's own row changes.
Updated(row, call) == [row EXCEPT !.orderStatus = call.status, !.total = call.basket]

WriteUpdate(cl) ==
  /\ calls[cl].step = "write"
  /\ LET o == calls[cl].order IN
       orders' = [orders EXCEPT ![o] = Updated(@, calls[cl])]
  /\ Return(cl)
  /\ UNCHANGED <<deliveries, writes, requests, queues, budget, history>>

\* cancelOrder writes whatever the order's status is.
Cancelled(row) == [row EXCEPT !.orderStatus = "FAILED"]

CancelOrder(cl, o) ==
  /\ Exists(o)
  /\ Start(cl, [step |-> "mail", order |-> o, basket |-> None, status |-> None])
  /\ orders' = [orders EXCEPT ![o] = Cancelled(@)]
  /\ UNCHANGED <<deliveries, writes, requests, queues, faults, crashes, history>>

\* requestOrderConfirmationMail swallows its errors.
SendMail(m) ==
  \/ mailQueue' = Put(mailQueue, m) /\ UNCHANGED faults
  \/ Fault /\ UNCHANGED mailQueue

CancelMail(cl) ==
  /\ calls[cl].step = "mail"
  /\ SendMail([type |-> "CANCELLATION", orderId |-> calls[cl].order])
  /\ Return(cl)
  /\ UNCHANGED <<orders, deliveries, writes, requests, requestQueue, statusQueue, sellerQueue,
                 made, crashes, history>>

\* A product of the request is unknown, or the database fails; a failing
\* transaction may have committed.
UpdateFails(cl) ==
  /\ \/ /\ calls[cl].step = "update"
        /\ Answered(calls[cl])
        /\ UNCHANGED <<orders, faults>>
     \/ /\ calls[cl].step = "write"
        /\ Fault
        /\ LET o == calls[cl].order IN
             \/ UNCHANGED orders
             \/ orders' = [orders EXCEPT ![o] = Updated(@, calls[cl])]
  /\ Return(cl)
  /\ UNCHANGED <<deliveries, writes, requests, queues, made, crashes, history>>

\* The cancellation is applied but reported as an error, and no mail goes out.
CancelFails(cl, o) ==
  /\ Exists(o)
  /\ Fault
  /\ calls[cl].step = "idle"
  /\ made < MaxCalls
  /\ made' = made + 1
  /\ orders' = [orders EXCEPT ![o] = Cancelled(@)]
  /\ UNCHANGED <<memory, queues, crashes, history>>

-----------------------------------------------------------------------------
(***************************************************************************)
(* The queries: each is one read of the table, answered with the orders it *)
(* finds.  A user is here the set of the orders they placed.               *)
(***************************************************************************)
Stored == {o \in Orders : Exists(o)}

\* findUnique: one order with its items, or an error when there is none.
getOrder(o) == Stored \cap {o}

\* The same for the consumer below and for the other services' references.
getOrderDirect(o) == Stored \cap {o}

\* A user without orders is answered with an empty list.
getOrders(placed) == Stored \cap placed

-----------------------------------------------------------------------------
(***************************************************************************)
(* The consumer of payment_order_queue                                     *)
(***************************************************************************)
\* Mutant of Deliver: a pending payment is handled like a successful one.
DeliverAsPaid(w, m) ==
  /\ deliveries[w].step = "idle"
  /\ statusQueue[m] > 0
  /\ statusQueue' = Take(statusQueue, m)
  /\ writes' = Put(writes, m)
  /\ deliveries' = [deliveries EXCEPT ![w] = [step |-> "read", message |-> m]]
  /\ UNCHANGED <<orders, calls, requests, requestQueue, mailQueue, sellerQueue, budget, history>>

\* One tick of the handler: a SUCCESS issues the update and goes on to read the
\* order, a PENDING issues it and is acknowledged at once, anything else is
\* acknowledged and dropped.
Deliver(w, m) ==
  /\ deliveries[w].step = "idle"
  /\ statusQueue[m] > 0
  /\ statusQueue' = Take(statusQueue, m)
  /\ writes' = IF m.type \in {"SUCCESS", "PENDING"} THEN Put(writes, m) ELSE writes
  /\ deliveries' = IF m.type = "SUCCESS"
                   THEN [deliveries EXCEPT ![w] = [step |-> "read", message |-> m]]
                   ELSE deliveries
  /\ UNCHANGED <<orders, calls, requests, requestQueue, mailQueue, sellerQueue, budget, history>>

\* updatePaymentStatus: one UPDATE sets all three columns, and the order's
\* status to SUCCESS even for a payment that is only pending.
Linked(row, m) ==
  [row EXCEPT !.paymentId = m.paymentId, !.paymentStatus = m.type, !.orderStatus = "SUCCESS"]

\* The update fails: no such order, or another order has this paymentId
\* (uq_payment_id).
Rejected(m) ==
  \/ ~Exists(m.orderId)
  \/ \E o \in Orders \ {m.orderId} : orders[o].paymentId = m.paymentId

\* Mutant of ApplyWrite: the update has no filter on the order's id.
LinkAnyOrder(m) ==
  /\ writes[m] > 0
  /\ ~Rejected(m)
  /\ writes' = Take(writes, m)
  /\ \E o \in Orders : Exists(o) /\ orders' = [orders EXCEPT ![o] = Linked(@, m)]
  /\ UNCHANGED <<calls, deliveries, requests, queues, budget, history>>

ApplyWrite(m) ==
  /\ writes[m] > 0
  /\ ~Rejected(m)
  /\ writes' = Take(writes, m)
  /\ orders' = [orders EXCEPT ![m.orderId] = Linked(@, m)]
  /\ UNCHANGED <<calls, deliveries, requests, queues, budget, history>>

StepTo(w, step) == deliveries' = [deliveries EXCEPT ![w].step = step]
OrderOf(w) == deliveries[w].message.orderId

\* getOrderDirect finds the order; its failure is an UnhandledRejection.
ReadOrder(w) ==
  /\ deliveries[w].step = "read"
  /\ getOrderDirect(OrderOf(w)) # {}
  /\ StepTo(w, "mail")
  /\ UNCHANGED <<orders, calls, writes, requests, queues, budget, history>>

ConfirmationMail(w) ==
  /\ deliveries[w].step = "mail"
  /\ SendMail([type |-> "CONFIRMATION", orderId |-> OrderOf(w)])
  /\ StepTo(w, "seller")
  /\ UNCHANGED <<orders, calls, writes, requests, requestQueue, statusQueue, sellerQueue,
                 made, crashes, history>>

\* requestSellerAckAboutOrder reads the items again, and swallows its errors.
TellSeller(w) ==
  /\ deliveries[w].step = "seller"
  /\ \/ sellerQueue' = Put(sellerQueue, OrderOf(w)) /\ UNCHANGED <<faults, untold>>
     \/ Fault /\ untold' = untold \cup {OrderOf(w)} /\ UNCHANGED sellerQueue
  /\ StepTo(w, "ack")
  /\ UNCHANGED <<orders, calls, writes, requests, requestQueue, statusQueue, mailQueue,
                 made, crashes, unrequested, lostWrites>>

AckStatus(w) ==
  /\ deliveries[w].step = "ack"
  /\ deliveries' = [deliveries EXCEPT ![w] = NoDelivery]
  /\ UNCHANGED <<orders, calls, writes, requests, queues, budget, history>>

-----------------------------------------------------------------------------
(***************************************************************************)
(* Crashes                                                                 *)
(***************************************************************************)
\* Mutant of Held: automatic acknowledgement, nothing comes back.
HeldNothing == [w \in Workers |-> None]

\* What each consumer's channel gives back to the broker.
Held == [w \in Workers |-> deliveries[w].message]

\* The process dies and is started again: what only its memory held is gone,
\* and the broker has the unacknowledged messages ready again.
Restart ==
  /\ calls' = [cl \in Clients |-> IdleCall]
  /\ deliveries' = [w \in Workers |-> NoDelivery]
  /\ statusQueue' = Requeue(statusQueue, Held)
  /\ writes' = NoMessages(StatusMessage)
  /\ requests' = {}
  /\ unrequested' = unrequested \cup requests
  /\ lostWrites' = lostWrites \cup ({m \in StatusMessage : writes[m] > 0}
                                     \ {Held[w] : w \in Workers})
  /\ UNCHANGED <<orders, requestQueue, mailQueue, sellerQueue, made, untold>>

\* Nothing catches what these promises throw, and an unhandled rejection ends
\* the process: the database fails an update nobody awaits, or the read of the
\* order.  (It would also end on a message that names no order or a payment
\* another order has: NotPoisoned states that none ever does.)
UnhandledRejection ==
  /\ Fault
  /\ \/ \E m \in StatusMessage : writes[m] > 0
     \/ \E w \in Workers : deliveries[w].step = "read"
  /\ Restart
  /\ UNCHANGED crashes

ServiceCrash ==
  /\ crashes < MaxCrashes
  /\ crashes' = crashes + 1
  /\ Restart
  /\ UNCHANGED faults

-----------------------------------------------------------------------------
Begin(cl) ==
  \/ \E b \in Baskets : AskCreate(cl, b)
  \/ \E o \in Orders, s \in Asked \cup {None}, b \in Baskets \cup {None} :
       AskUpdate(cl, o, s, b)
  \/ \E o \in Orders : CancelOrder(cl, o) \/ CancelFails(cl, o)
Continue(cl) ==
  \/ CreateOrder(cl) \/ CreateFails(cl)
  \/ ReadForUpdate(cl) \/ WriteUpdate(cl) \/ UpdateFails(cl)
  \/ CancelMail(cl)
Consume(w) == ReadOrder(w) \/ ConfirmationMail(w) \/ TellSeller(w) \/ AckStatus(w)

ServiceNext ==
  \/ \E cl \in Clients : Begin(cl) \/ Continue(cl)
  \/ \E w \in Workers, m \in StatusMessage : Deliver(w, m)
  \/ \E w \in Workers : Consume(w)
  \/ \E m \in StatusMessage : ApplyWrite(m)
  \/ \E o \in Orders : SendRequest(o)
  \/ UnhandledRejection
  \/ ServiceCrash

\* As in PaymentService: settled promises continue, ready messages are
\* delivered, users owe nothing.
ServiceFairness ==
  /\ \A cl \in Clients : WF_vars(Continue(cl))
  /\ \A m \in StatusMessage : WF_vars(\E w \in Workers : Deliver(w, m))
  /\ \A w \in Workers : WF_vars(Consume(w))
  /\ \A m \in StatusMessage : WF_vars(ApplyWrite(m))
  /\ \A o \in Orders : WF_vars(SendRequest(o))

-----------------------------------------------------------------------------
(***************************************************************************)
(* Properties of the service in any surroundings                           *)
(***************************************************************************)
\* A status message the service has not finished with.
InHand(m) ==
  \/ statusQueue[m] > 0
  \/ writes[m] > 0
  \/ \E w \in Workers : deliveries[w].message = m

\* No status message can make the consumer die, be redelivered and die again:
\* its order exists and no other order has its payment (the handler has no
\* try/catch, so either would end the process at every delivery).
NotPoisoned == \A m \in StatusMessage : InHand(m) => ~Rejected(m)

\* A call that waits for an answer the product service never gives.
Hung(call) == call.step = "update" /\ ~Answered(call)

\* Nothing is left to do until a user or the payment service acts.
Quiescent ==
  /\ \A cl \in Clients : calls[cl].step = "idle" \/ Hung(calls[cl])
  /\ \A w \in Workers : deliveries[w].step = "idle"
  /\ \A m \in StatusMessage : writes[m] = 0 /\ statusQueue[m] = 0
  /\ requests = {}

=============================================================================
