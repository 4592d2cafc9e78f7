------------------------ MODULE OrderStandaloneProofs ------------------------
(***************************************************************************)
(* Proofs about the order service for any sets of orders, payments,        *)
(* baskets and clients, any finite set of workers and any bounds: type     *)
(* correctness, NotPoisoned and ShippedOnlyIfPaid.                         *)
(*                                                                         *)
(* The inductive invariant OInv follows a status message through the       *)
(* service: what is in the queue, in a handler or in an update on its way  *)
(* was reported (NewsReported), what a row says of its payment was reported *)
(* about that row (RowsReported), and what the seller and the user are     *)
(* told follows from a reported success (ShipmentsPaid).                   *)
(***************************************************************************)
EXTENDS OrderStandalone, FiniteSetTheorems, TLAPS

\* Every report is about an order that exists, and the reports about a payment
\* all name the same order.
ReportsFit ==
  /\ reported \subseteq StatusMessage
  /\ \A m \in reported : Exists(m.orderId)
  /\ \A m, r \in reported : m.paymentId = r.paymentId => m.orderId = r.orderId

\* A call that has found an order works on a stored one, and what it will write
\* back is an order's status.
CallFits(call) ==
  /\ call.step \in {"update", "write", "mail"} => call.order \in Orders
  /\ call.step \in {"write", "mail"} => Exists(call.order)
  /\ call.step = "write" => call.status \in OrderStatus

\* A handler runs only for the news of a success.
DeliveryFits(d) == d.step # "idle" => d.message \in StatusMessage /\ d.message.type = "SUCCESS"

\* What the row of order o says of its payment was reported of o.
RowFits(row, o) ==
  /\ row.paymentId = None => row.paymentStatus = "PENDING"
  /\ row.paymentId # None =>
       \E m \in reported : /\ m.orderId = o
                           /\ m.paymentId = row.paymentId
                           /\ m.type = row.paymentStatus

WasPaid(o) == \E m \in reported : m.type = "SUCCESS" /\ m.orderId = o

\* The seller is being asked to ship the order or the user told that it is paid.
Confirmed(o) == [type |-> "CONFIRMATION", orderId |-> o]
Told(o) == sellerQueue[o] > 0 \/ mailQueue[Confirmed(o)] > 0

CallsFit == \A cl \in Clients : CallFits(calls[cl])
DeliveriesFit == \A w \in Workers : DeliveryFits(deliveries[w])
NewsReported ==
  \A m \in StatusMessage :
    /\ InHand(m) => m \in reported
    /\ writes[m] > 0 => m.type \in {"PENDING", "SUCCESS"}
RequestsFit == \A o \in Orders : o \in requests \/ o \in requestQueue => Exists(o)
RowsReported == \A o \in Orders : RowFits(orders[o], o)
ShipmentsPaid == \A o \in Orders : Told(o) => WasPaid(o)

OInv ==
  /\ TypeOK /\ ReportsFit /\ CallsFit /\ DeliveriesFit
  /\ NewsReported /\ RequestsFit /\ RowsReported /\ ShipmentsPaid

-----------------------------------------------------------------------------
(***************************************************************************)
(* Messages and queues                                                     *)
(***************************************************************************)
\* A status message is the record of its fields.
LEMMA MessageFields ==
  ASSUME NEW m \in StatusMessage
  PROVE  /\ m.orderId \in Orders
         /\ m.paymentId \in Payments
         /\ m.type \in {"PENDING", "SUCCESS", "FAILED"}
         /\ m = [type |-> m.type, orderId |-> m.orderId, paymentId |-> m.paymentId]
BY DEF StatusMessage

\* A cancellation is no confirmation, and mails about two orders are two mails.
LEMMA MailFields ==
  ASSUME NEW o \in Orders
  PROVE  /\ [type |-> "CANCELLATION", orderId |-> o] \in Mail
         /\ Confirmed(o) \in Mail
         /\ \A x \in Orders : Confirmed(x) # [type |-> "CANCELLATION", orderId |-> o]
         /\ \A x \in Orders : Confirmed(x) = Confirmed(o) => x = o
<1>1. \A x \in Orders : Confirmed(x).type = "CONFIRMATION" /\ Confirmed(x).orderId = x
  BY DEF Confirmed
<1>2. [type |-> "CANCELLATION", orderId |-> o].type = "CANCELLATION"
  OBVIOUS
<1> QED
  BY <1>1, <1>2 DEF Mail, Confirmed

\* Publishing a message keeps the shape of a queue, and what is in it
\* afterwards was there before or is the message.
LEMMA PutFacts ==
  ASSUME NEW Message, NEW queue \in [Message -> Nat], NEW m \in Message
  PROVE  /\ Put(queue, m) \in [Message -> Nat]
         /\ \A n \in Message : Put(queue, m)[n] > 0 => n = m \/ queue[n] > 0
BY DEF Put

\* Delivering a message keeps the shape of a queue and adds nothing to it.
LEMMA TakeFacts ==
  ASSUME NEW Message, NEW queue \in [Message -> Nat], NEW m \in Message, queue[m] > 0
  PROVE  /\ Take(queue, m) \in [Message -> Nat]
         /\ \A n \in Message : Take(queue, m)[n] > 0 => queue[n] > 0
BY DEF Take

\* What a dead channel gives back is what its handlers held.
LEMMA RequeueFacts ==
  ASSUME TypeOK
  PROVE  /\ Requeue(statusQueue, Held) \in [StatusMessage -> Nat]
         /\ \A m \in StatusMessage : Requeue(statusQueue, Held)[m] > 0 => InHand(m)
<1> DEFINE holders(m) == {w \in Workers : Held[w] = m}
<1>1. \A m \in StatusMessage : IsFiniteSet(holders(m)) /\ Cardinality(holders(m)) \in Nat
  BY FS_Subset, FS_CardinalityType, WorkersAssumption
<1>2. \A m \in StatusMessage :
        Requeue(statusQueue, Held)[m] = statusQueue[m] + Cardinality(holders(m))
  BY DEF Requeue, Held, TypeOK
<1>3. ASSUME NEW m \in StatusMessage, Cardinality(holders(m)) # 0
      PROVE  InHand(m)
  <2>1. holders(m) # {}
    BY <1>3, FS_EmptySet
  <2> QED
    BY <2>1 DEF InHand, Held
<1> HIDE DEF holders
<1>4. Requeue(statusQueue, Held) = [m \in StatusMessage |-> Requeue(statusQueue, Held)[m]]
  BY DEF Requeue, TypeOK
<1>5. \A m \in StatusMessage : statusQueue[m] \in Nat
  BY DEF TypeOK
<1>6. \A m \in StatusMessage : Requeue(statusQueue, Held)[m] \in Nat
  BY <1>1, <1>2, <1>5
<1>7. Requeue(statusQueue, Held) \in [StatusMessage -> Nat]
  BY <1>4, <1>6
<1>8. \A m \in StatusMessage : Requeue(statusQueue, Held)[m] > 0 => InHand(m)
  <2> SUFFICES ASSUME NEW m \in StatusMessage, Requeue(statusQueue, Held)[m] > 0
               PROVE  InHand(m)
    OBVIOUS
  <2>1. statusQueue[m] > 0 \/ Cardinality(holders(m)) # 0
    BY <1>1, <1>2, <1>5
  <2> QED
    BY <1>3, <2>1 DEF InHand
<1> QED
  BY <1>7, <1>8

-----------------------------------------------------------------------------
(***************************************************************************)
(* What a step has to keep                                                 *)
(***************************************************************************)
\* Rows stay, reports stay true of them, and a row that changes fits the reports.
RowsKept ==
  /\ ReportsFit' /\ reported \subseteq reported'
  /\ \A o \in Orders : Exists(o) => Exists(o)'
  /\ \A o \in Orders : orders'[o] = orders[o] \/ RowFits(orders[o], o)'

\* A call that moves fits the rows after the step.
CallsKept ==
  /\ calls' \in [Clients -> Call]
  /\ \A cl \in Clients : calls'[cl] = calls[cl] \/ CallFits(calls[cl])'

\* A status message that a step brings in, to a handler or to an update, was reported.
NewsKept ==
  /\ \A w \in Workers : deliveries'[w] = deliveries[w] \/ DeliveryFits(deliveries[w])'
  /\ \A m \in StatusMessage : InHand(m)' => InHand(m) \/ m \in reported'
  /\ \A m \in StatusMessage :
       writes'[m] > 0 => writes[m] > 0 \/ m.type \in {"PENDING", "SUCCESS"}

\* A payment is requested for a stored order.
RequestsKept ==
  \A o \in Orders : o \in requests' \/ o \in requestQueue' =>
    o \in requests \/ o \in requestQueue \/ Exists(o)'

\* A shipment or a confirmation that a step announces is of a paid order.
MailsKept == \A o \in Orders : Told(o)' => Told(o) \/ WasPaid(o)'

\* What every step does.
Preserved == OInv' /\ RowsKept

\* A step that adds nothing but what fits keeps the invariant.
LEMMA StepKeeps ==
  ASSUME OInv, TypeOK', RowsKept, CallsKept, NewsKept, RequestsKept, MailsKept
  PROVE  Preserved
<1>1. CallsFit'
  <2> SUFFICES ASSUME NEW cl \in Clients, calls'[cl] = calls[cl]
               PROVE  CallFits(calls[cl])'
    BY DEF CallsFit, CallsKept
  <2>1. CallFits(calls[cl])
    BY DEF OInv, CallsFit
  <2> QED
    BY <2>1 DEF CallFits, RowsKept
<1>2. DeliveriesFit'
  <2> SUFFICES ASSUME NEW w \in Workers, deliveries'[w] = deliveries[w]
               PROVE  DeliveryFits(deliveries[w])'
    BY DEF DeliveriesFit, NewsKept
  <2>1. DeliveryFits(deliveries[w])
    BY DEF OInv, DeliveriesFit
  <2> QED
    BY <2>1 DEF DeliveryFits
<1>3. NewsReported'
  BY DEF OInv, NewsReported, NewsKept, RowsKept
<1>4. RequestsFit'
  BY DEF OInv, RequestsFit, RequestsKept, RowsKept
<1>5. RowsReported'
  <2> SUFFICES ASSUME NEW o \in Orders, orders'[o] = orders[o]
               PROVE  RowFits(orders[o], o)'
    BY DEF RowsReported, RowsKept
  <2>1. RowFits(orders[o], o)
    BY DEF OInv, RowsReported
  <2> QED
    BY <2>1 DEF RowFits, RowsKept
<1>6. ShipmentsPaid'
  <2>1. \A o \in Orders : WasPaid(o) => WasPaid(o)'
    BY DEF WasPaid, RowsKept
  <2> QED
    BY <2>1 DEF OInv, ShipmentsPaid, MailsKept
<1> QED
  BY <1>1, <1>2, <1>3, <1>4, <1>5, <1>6 DEF OInv, Preserved, RowsKept

\* While the service works, what was reported stays what it was.
LEMMA ReportsKept ==
  ASSUME OInv, reported' = reported, \A o \in Orders : Exists(o) => Exists(o)'
  PROVE  ReportsFit' /\ reported \subseteq reported'
BY MessageFields DEF OInv, ReportsFit

\* A step that writes no row.
LEMMA RowsQuiet ==
  ASSUME OInv, UNCHANGED <<orders, reported>>
  PROVE  RowsKept
<1>1. \A o \in Orders : Exists(o) => Exists(o)'
  BY DEF Exists
<1> QED
  BY <1>1, ReportsKept DEF RowsKept

\* A step that writes one row of an order, and neither deletes it nor changes
\* what it says of its payment to something that was not reported.
LEMMA RowWritten ==
  ASSUME OInv, UNCHANGED reported, NEW o \in Orders, NEW row \in Row,
         orders' = [orders EXCEPT ![o] = row],
         row.orderStatus # "ABSENT", RowFits(row, o)
  PROVE  orders' \in [Orders -> Row] /\ RowsKept /\ Exists(o)'
<1>1. orders' \in [Orders -> Row] /\ orders'[o] = row
      /\ \A x \in Orders \ {o} : orders'[x] = orders[x]
  BY DEF OInv, TypeOK
<1>2. RowFits(orders[o], o)'
  BY <1>1 DEF RowFits
<1>3. Exists(o)' /\ \A x \in Orders : Exists(x) => Exists(x)'
  BY <1>1 DEF Exists
<1> QED
  BY <1>1, <1>2, <1>3, ReportsKept DEF RowsKept

\* A step that touches no status message, requests no payment, announces nothing.
LEMMA NewsQuiet ==
  ASSUME UNCHANGED <<deliveries, writes, statusQueue>>
  PROVE  NewsKept
BY DEF InHand, NewsKept

LEMMA RequestsQuiet ==
  ASSUME UNCHANGED <<requests, requestQueue>>
  PROVE  RequestsKept
BY DEF RequestsKept

LEMMA MailsQuiet ==
  ASSUME UNCHANGED <<mailQueue, sellerQueue>>
  PROVE  MailsKept
BY DEF Told, MailsKept

LEMMA CallsQuiet ==
  ASSUME TypeOK, UNCHANGED calls
  PROVE  CallsKept
BY DEF TypeOK, CallsKept

\* A call returns.
LEMMA ReturnFacts ==
  ASSUME TypeOK, NEW cl \in Clients, Return(cl)
  PROVE  CallsKept
BY DEF TypeOK, Return, IdleCall, Call, CallFits, CallsKept

\* A call starts.
LEMMA StartFacts ==
  ASSUME TypeOK, NEW cl \in Clients, NEW call \in Call, Start(cl, call), CallFits(call)'
  PROVE  CallsKept /\ made' \in 0..MaxCalls
<1>1. calls'[cl] = call /\ \A x \in Clients \ {cl} : calls'[x] = calls[x]
  BY DEF TypeOK, Start
<1>2. CallFits(calls[cl])'
  BY <1>1 DEF CallFits
<1>3. made' \in 0..MaxCalls
  BY BoundsAssumption DEF TypeOK, Start
<1> QED
  BY <1>1, <1>2, <1>3 DEF TypeOK, Start, CallsKept

LEMMA FaultFacts ==
  ASSUME TypeOK, Fault
  PROVE  faults' \in 0..MaxFaults
BY BoundsAssumption DEF TypeOK, Fault

-----------------------------------------------------------------------------
(***************************************************************************)
(* The mutations                                                           *)
(***************************************************************************)
\* createOrder: an order's row is new, knows of no payment, and only then is its
\* payment requested.
LEMMA CreateSteps ==
  ASSUME OInv, UNCHANGED reported, NEW cl \in Clients,
         (\E b \in Baskets : AskCreate(cl, b)) \/ CreateOrder(cl) \/ CreateFails(cl)
  PROVE  Preserved
<1> USE DEF OInv
<1>1. ASSUME NEW b \in Baskets, AskCreate(cl, b)
      PROVE  Preserved
  <2> DEFINE call == [step |-> "create", order |-> None, basket |-> b, status |-> None]
  <2>1. call \in Call /\ CallFits(call)'
    BY DEF Call, CallFits
  <2>2. CallsKept /\ made' \in 0..MaxCalls
    BY <1>1, <2>1, StartFacts DEF AskCreate
  <2>3. TypeOK'
    BY <1>1, <2>2 DEF AskCreate, TypeOK, CallsKept, queues, history
  <2> QED
    BY <1>1, <2>2, <2>3, RowsQuiet, NewsQuiet, RequestsQuiet, MailsQuiet, StepKeeps DEF AskCreate, queues
<1>2. ASSUME NEW b \in Baskets \cup {None}, b # None
      PROVE  NewRow(b) \in Row /\ NewRow(b).orderStatus # "ABSENT"
             /\ \A o \in Orders : RowFits(NewRow(b), o)
  BY <1>2 DEF NewRow, Row, OrderStatus, RowFits
<1>3. calls[cl].basket \in Baskets \cup {None}
  BY DEF TypeOK, Call
<1>4. ASSUME CreateOrder(cl)
      PROVE  Preserved
  <2>1. PICK o \in Orders : /\ orders' = [orders EXCEPT ![o] = NewRow(calls[cl].basket)]
                            /\ requests' = requests \cup {o}
    BY <1>4 DEF CreateOrder
  <2>2. orders' \in [Orders -> Row] /\ RowsKept /\ Exists(o)'
    BY <1>2, <1>3, <1>4, <2>1, RowWritten DEF CreateOrder, Answered
  <2>3. CallsKept
    BY <1>4, ReturnFacts DEF CreateOrder
  <2>4. TypeOK'
    BY <1>4, <2>1, <2>2, <2>3 DEF CreateOrder, TypeOK, CallsKept, queues, budget, history
  <2>5. RequestsKept
    BY <1>4, <2>1, <2>2 DEF CreateOrder, RequestsKept, queues
  <2> QED
    BY <1>4, <2>1, <2>2, <2>3, <2>4, <2>5, NewsQuiet, MailsQuiet, StepKeeps
       DEF CreateOrder, queues
<1>5. ASSUME CreateFails(cl)
      PROVE  Preserved
  <2>1. CallsKept
    BY <1>5, ReturnFacts DEF CreateFails
  <2>2. /\ orders' \in [Orders -> Row] /\ faults' \in 0..MaxFaults /\ RowsKept
        /\ unrequested' \subseteq Orders
    <3>1. CASE UNCHANGED <<orders, faults, unrequested>>
      BY <3>1, RowsQuiet DEF TypeOK
    <3>2. ASSUME Fault, NEW o \in Orders,
                 orders' = [orders EXCEPT ![o] = NewRow(calls[cl].basket)],
                 unrequested' = unrequested \cup {o}
          PROVE  /\ orders' \in [Orders -> Row] /\ faults' \in 0..MaxFaults /\ RowsKept
                 /\ unrequested' \subseteq Orders
      <4>1. orders' \in [Orders -> Row] /\ RowsKept
        BY <1>2, <1>3, <1>5, <3>2, RowWritten DEF CreateFails, Answered
      <4> QED
        BY <3>2, <4>1, FaultFacts DEF TypeOK
    <3> QED
      BY <1>5, <3>1, <3>2 DEF CreateFails
  <2>3. TypeOK'
    BY <1>5, <2>1, <2>2 DEF CreateFails, TypeOK, CallsKept, queues
  <2> QED
    <3>1. UNCHANGED <<deliveries, writes, requests, requestQueue, statusQueue, mailQueue, sellerQueue>>
      BY <1>5 DEF CreateFails, queues
    <3> QED
      BY <2>1, <2>2, <2>3, <3>1, NewsQuiet, RequestsQuiet, MailsQuiet, StepKeeps
<1> QED
  BY <1>1, <1>4, <1>5

\* updateOrder and cancelOrder: what they write back to a stored order leaves its
\* payment as it was.
LEMMA RewrittenRow ==
  ASSUME OInv, NEW o \in Orders, Exists(o), NEW row \in Row, row.orderStatus \in OrderStatus,
         row.paymentId = orders[o].paymentId, row.paymentStatus = orders[o].paymentStatus
  PROVE  row.orderStatus # "ABSENT" /\ RowFits(row, o)
<1>1. RowFits(orders[o], o)
  BY DEF OInv, RowsReported
<1> QED
  BY <1>1 DEF RowFits, OrderStatus

\* The row that a call of updateOrder writes.
LEMMA UpdatedRow ==
  ASSUME OInv, NEW cl \in Clients, calls[cl].step = "write"
  PROVE  /\ calls[cl].order \in Orders
         /\ Updated(orders[calls[cl].order], calls[cl]) \in Row
         /\ Updated(orders[calls[cl].order], calls[cl]).orderStatus # "ABSENT"
         /\ RowFits(Updated(orders[calls[cl].order], calls[cl]), calls[cl].order)
<1>1. calls[cl] \in Call /\ CallFits(calls[cl])
  BY DEF OInv, TypeOK, CallsFit
<1>2. PICK o \in Orders : o = calls[cl].order /\ Exists(o)
  BY <1>1 DEF CallFits
<1>3. calls[cl].status \in OrderStatus /\ calls[cl].basket \in Baskets \cup {None}
  BY <1>1 DEF CallFits, Call
<1>4. orders[o] \in Row
  BY DEF OInv, TypeOK
<1>5. PICK row : row = Updated(orders[o], calls[cl])
  OBVIOUS
<1>6. /\ row \in Row /\ row.orderStatus \in OrderStatus
      /\ row.paymentId = orders[o].paymentId /\ row.paymentStatus = orders[o].paymentStatus
  BY <1>3, <1>4, <1>5 DEF Updated, Row
<1> QED
  BY <1>2, <1>5, <1>6, RewrittenRow

\* The row that cancelOrder writes.
LEMMA CancelledRow ==
  ASSUME OInv, NEW o \in Orders, Exists(o)
  PROVE  /\ Cancelled(orders[o]) \in Row
         /\ Cancelled(orders[o]).orderStatus # "ABSENT"
         /\ RowFits(Cancelled(orders[o]), o)
<1>1. orders[o] \in Row
  BY DEF OInv, TypeOK
<1>2. PICK row : row = Cancelled(orders[o])
  OBVIOUS
<1>3. /\ row \in Row /\ row.orderStatus \in OrderStatus
      /\ row.paymentId = orders[o].paymentId /\ row.paymentStatus = orders[o].paymentStatus
  BY <1>1, <1>2 DEF Cancelled, Row, OrderStatus
<1> QED
  BY <1>2, <1>3, RewrittenRow

\* What a call remembers of the order it read is what it will write.
LEMMA ReadFacts ==
  ASSUME OInv, NEW cl \in Clients, ReadForUpdate(cl), UNCHANGED orders
  PROVE  CallsKept
<1>1. CASE Return(cl)
  BY <1>1, ReturnFacts DEF OInv
<1>2. CASE ~Return(cl)
  <2>1. PICK o \in Orders : o = calls[cl].order /\ Exists(o)
    <3>1. CallFits(calls[cl])
      BY DEF OInv, CallsFit
    <3> QED
      BY <1>2, <3>1 DEF ReadForUpdate, CallFits
  <2>2. PICK status, basket : /\ status = Or(calls[cl].status, orders[o].orderStatus)
                              /\ basket = Or(calls[cl].basket, orders[o].total)
    OBVIOUS
  <2>3. calls' = [calls EXCEPT ![cl].step = "write", ![cl].status = status,
                               ![cl].basket = basket]
    BY <1>2, <2>1, <2>2 DEF ReadForUpdate
  <2>4. calls[cl] \in Call /\ orders[o] \in Row
    BY DEF OInv, TypeOK
  <2>5. status \in OrderStatus \cup {None} /\ basket \in Baskets \cup {None}
    BY <2>1, <2>2, <2>4 DEF Or, Call, Row, Exists
  <2>6. status \in OrderStatus
    BY <2>1, <2>2, <2>4 DEF Or, Call, Row, Exists
  <2>7. /\ calls' \in [Clients -> Call]
        /\ calls'[cl].step = "write" /\ calls'[cl].order = o /\ calls'[cl].status = status
        /\ \A x \in Clients \ {cl} : calls'[x] = calls[x]
    BY <2>1, <2>3, <2>4, <2>5 DEF OInv, TypeOK, Call
  <2>8. CallFits(calls[cl])'
    BY <2>1, <2>6, <2>7 DEF CallFits, Exists
  <2> QED
    BY <2>7, <2>8 DEF CallsKept
<1> QED
  BY <1>1, <1>2

\* updateOrder.
LEMMA UpdateSteps ==
  ASSUME OInv, UNCHANGED reported, NEW cl \in Clients,
         \/ \E o \in Orders, s \in Asked \cup {None}, b \in Baskets \cup {None} :
              AskUpdate(cl, o, s, b)
         \/ ReadForUpdate(cl) \/ WriteUpdate(cl) \/ UpdateFails(cl)
  PROVE  Preserved
<1>t. TypeOK
  BY DEF OInv
<1>1. ASSUME NEW o \in Orders, NEW s \in Asked \cup {None}, NEW b \in Baskets \cup {None},
             AskUpdate(cl, o, s, b)
      PROVE  Preserved
  <2> DEFINE call == [step |-> "update", order |-> o, basket |-> b, status |-> s]
  <2>1. call \in Call /\ CallFits(call)'
    BY AskedAssumption DEF Call, CallFits
  <2>2. CallsKept /\ made' \in 0..MaxCalls
    BY <1>1, <1>t, <2>1, StartFacts DEF AskUpdate
  <2>3. TypeOK'
    BY <1>1, <1>t, <2>2 DEF AskUpdate, TypeOK, CallsKept, queues, history
  <2> QED
    BY <1>1, <2>2, <2>3, RowsQuiet, NewsQuiet, RequestsQuiet, MailsQuiet, StepKeeps DEF AskUpdate, queues
<1>2. ASSUME ReadForUpdate(cl)
      PROVE  Preserved
  <2>1. UNCHANGED <<orders, deliveries, writes, requests, queues, budget, history>>
    BY <1>2 DEF ReadForUpdate
  <2>2. CallsKept
    BY <1>2, <2>1, ReadFacts
  <2>3. TypeOK'
    BY <1>t, <2>1, <2>2 DEF TypeOK, CallsKept, queues, budget, history
  <2> QED
    BY <2>1, <2>2, <2>3, RowsQuiet, NewsQuiet, RequestsQuiet, MailsQuiet, StepKeeps DEF queues
<1>3. ASSUME WriteUpdate(cl) \/ UpdateFails(cl)
      PROVE  Preserved
  <2>1. UNCHANGED <<deliveries, writes, requests, queues, made, crashes, history>>
    BY <1>3 DEF WriteUpdate, UpdateFails, budget
  <2>2. faults' \in 0..MaxFaults
    <3>1. faults \in 0..MaxFaults
      BY <1>t DEF TypeOK
    <3>2. UNCHANGED faults \/ Fault
      BY <1>3 DEF WriteUpdate, UpdateFails, budget
    <3> QED
      BY <1>t, <3>1, <3>2, FaultFacts
  <2>3. CallsKept
    BY <1>3, <1>t, ReturnFacts DEF WriteUpdate, UpdateFails
  <2>4. orders' \in [Orders -> Row] /\ RowsKept
    <3>1. CASE UNCHANGED orders
      BY <1>t, <3>1, RowsQuiet DEF TypeOK
    <3>2. CASE calls[cl].step = "write"
               /\ orders' = [orders EXCEPT ![calls[cl].order] = Updated(@, calls[cl])]
      <4>1. PICK o \in Orders : o = calls[cl].order
        BY <3>2, UpdatedRow
      <4>2. PICK row \in Row : row = Updated(orders[o], calls[cl])
        BY <3>2, <4>1, UpdatedRow
      <4>3. row.orderStatus # "ABSENT" /\ RowFits(row, o)
        BY <3>2, <4>1, <4>2, UpdatedRow
      <4>4. orders' = [orders EXCEPT ![o] = row]
        BY <3>2, <4>1, <4>2
      <4> QED
        BY <4>3, <4>4, RowWritten
    <3> QED
      BY <1>3, <3>1, <3>2 DEF WriteUpdate, UpdateFails
  <2>5. TypeOK'
    BY <1>t, <2>1, <2>2, <2>3, <2>4 DEF TypeOK, CallsKept, queues, history
  <2>6. UNCHANGED <<requestQueue, statusQueue, mailQueue, sellerQueue>>
    BY <2>1 DEF queues
  <2> QED
    BY <2>1, <2>3, <2>4, <2>5, <2>6, NewsQuiet, RequestsQuiet, MailsQuiet, StepKeeps
<1> QED
  BY <1>1, <1>2, <1>3

\* A mail that is sent or lost.
LEMMA MailFacts ==
  ASSUME TypeOK, NEW m \in Mail, SendMail(m)
  PROVE  /\ mailQueue' \in [Mail -> Nat]
         /\ faults' \in 0..MaxFaults
         /\ \A n \in Mail : mailQueue'[n] > 0 => n = m \/ mailQueue[n] > 0
BY PutFacts, FaultFacts DEF TypeOK, SendMail

\* cancelOrder.
LEMMA CancelSteps ==
  ASSUME OInv, UNCHANGED reported, NEW cl \in Clients,
         (\E o \in Orders : CancelOrder(cl, o) \/ CancelFails(cl, o)) \/ CancelMail(cl)
  PROVE  Preserved
<1>t. TypeOK
  BY DEF OInv
<1>1. ASSUME NEW o \in Orders, Exists(o), orders' = [orders EXCEPT ![o] = Cancelled(@)]
      PROVE  orders' \in [Orders -> Row] /\ RowsKept
  <2>1. PICK row \in Row : row = Cancelled(orders[o])
    BY <1>1, CancelledRow
  <2>2. row.orderStatus # "ABSENT" /\ RowFits(row, o) /\ orders' = [orders EXCEPT ![o] = row]
    BY <1>1, <2>1, CancelledRow
  <2> QED
    BY <2>2, RowWritten
<1>2. ASSUME NEW o \in Orders, CancelOrder(cl, o)
      PROVE  Preserved
  <2> DEFINE call == [step |-> "mail", order |-> o, basket |-> None, status |-> None]
  <2>1. orders' \in [Orders -> Row] /\ RowsKept
    BY <1>1, <1>2 DEF CancelOrder
  <2>2. call \in Call /\ CallFits(call)'
    BY <1>2, <2>1 DEF Call, RowsKept, CallFits, CancelOrder
  <2>3. CallsKept /\ made' \in 0..MaxCalls
    BY <1>2, <1>t, <2>2, StartFacts DEF CancelOrder
  <2>4. UNCHANGED <<deliveries, writes, requests, requestQueue, statusQueue, mailQueue,
                    sellerQueue, faults, crashes, history>>
    BY <1>2 DEF CancelOrder, queues
  <2>5. TypeOK'
    BY <1>t, <2>1, <2>3, <2>4 DEF TypeOK, CallsKept, history
  <2> QED
    BY <2>1, <2>3, <2>4, <2>5, NewsQuiet, RequestsQuiet, MailsQuiet, StepKeeps
<1>3. ASSUME NEW o \in Orders, CancelFails(cl, o)
      PROVE  Preserved
  <2>1. orders' \in [Orders -> Row] /\ RowsKept
    BY <1>1, <1>3 DEF CancelFails
  <2>2. UNCHANGED <<calls, deliveries, writes, requests, requestQueue, statusQueue, mailQueue,
                    sellerQueue, crashes, history>>
    BY <1>3 DEF CancelFails, memory, queues
  <2>3. made' \in 0..MaxCalls /\ faults' \in 0..MaxFaults
    BY <1>3, <1>t, FaultFacts, BoundsAssumption DEF CancelFails, TypeOK
  <2>4. TypeOK'
    BY <1>t, <2>1, <2>2, <2>3 DEF TypeOK, history
  <2> QED
    BY <1>t, <2>1, <2>2, <2>4, CallsQuiet, NewsQuiet, RequestsQuiet, MailsQuiet, StepKeeps
<1>4. ASSUME CancelMail(cl)
      PROVE  Preserved
  <2>1. PICK o \in Orders : o = calls[cl].order
    BY <1>4 DEF CancelMail, OInv, CallsFit, CallFits
  <2>2. /\ mailQueue' \in [Mail -> Nat]
        /\ faults' \in 0..MaxFaults
        /\ \A n \in Mail : mailQueue'[n] > 0 =>
             n = [type |-> "CANCELLATION", orderId |-> o] \/ mailQueue[n] > 0
    BY <1>4, <1>t, <2>1, MailFacts, MailFields DEF CancelMail
  <2>3. UNCHANGED <<orders, deliveries, writes, requests, requestQueue, statusQueue, sellerQueue,
                    made, crashes, history>>
    BY <1>4 DEF CancelMail
  <2>4. MailsKept
    BY <2>1, <2>2, <2>3, MailFields DEF Told, MailsKept
  <2>5. CallsKept
    BY <1>4, <1>t, ReturnFacts DEF CancelMail
  <2>6. TypeOK'
    BY <1>t, <2>2, <2>3, <2>5 DEF TypeOK, CallsKept, history
  <2> QED
    BY <2>3, <2>4, <2>5, <2>6, RowsQuiet, NewsQuiet, RequestsQuiet, StepKeeps
<1> QED
  BY <1>2, <1>3, <1>4

\* requestPaymentInitiation: only for a stored order.
LEMMA RequestSteps ==
  ASSUME OInv, UNCHANGED reported, NEW o \in Orders, SendRequest(o)
  PROVE  Preserved
<1>t. TypeOK
  BY DEF OInv
<1>1. /\ requests' \subseteq requests
      /\ requestQueue' \subseteq requestQueue \cup requests
      /\ unrequested' \subseteq unrequested \cup requests
  BY DEF SendRequest
<1>2. faults' \in 0..MaxFaults
  BY <1>t, FaultFacts DEF SendRequest, TypeOK
<1>3. UNCHANGED <<orders, calls, deliveries, writes, statusQueue, mailQueue, sellerQueue,
                  made, crashes, untold, lostWrites>>
  BY DEF SendRequest
<1>4. TypeOK'
  BY <1>1, <1>2, <1>3, <1>t DEF TypeOK
<1> QED
  <2>1. RequestsKept
    BY <1>1 DEF RequestsKept
  <2> QED
    BY <1>t, <1>3, <1>4, <2>1, RowsQuiet, CallsQuiet, NewsQuiet, MailsQuiet, StepKeeps

-----------------------------------------------------------------------------
(***************************************************************************)
(* The consumer of payment_order_queue                                     *)
(***************************************************************************)
\* A message is handed over: what is in a handler, or in an update, was in the
\* queue.
LEMMA DeliverSteps ==
  ASSUME OInv, UNCHANGED reported, NEW w \in Workers, NEW m \in StatusMessage, Deliver(w, m)
  PROVE  Preserved
<1>t. TypeOK
  BY DEF OInv
<1>1. UNCHANGED <<orders, calls, requests, requestQueue, mailQueue, sellerQueue, budget, history>>
  BY DEF Deliver
<1>2. InHand(m) /\ m \in reported
  BY DEF Deliver, InHand, OInv, NewsReported
<1>3. /\ statusQueue' \in [StatusMessage -> Nat]
      /\ \A n \in StatusMessage : statusQueue'[n] > 0 => statusQueue[n] > 0
  BY <1>t, TakeFacts DEF Deliver, TypeOK
<1>4. /\ writes' \in [StatusMessage -> Nat]
      /\ \A n \in StatusMessage : writes'[n] > 0 =>
           writes[n] > 0 \/ (n = m /\ m.type \in {"PENDING", "SUCCESS"})
  <2>1. CASE m.type \in {"PENDING", "SUCCESS"}
    BY <1>t, <2>1, PutFacts DEF Deliver, TypeOK
  <2>2. CASE m.type \notin {"PENDING", "SUCCESS"}
    BY <1>t, <2>2 DEF Deliver, TypeOK
  <2> QED
    BY <2>1, <2>2
<1>5. /\ deliveries' \in [Workers -> Delivery]
      /\ \A v \in Workers :
           \/ deliveries'[v] = deliveries[v]
           \/ deliveries'[v].message = m /\ m.type = "SUCCESS"
  BY <1>t DEF Deliver, TypeOK, Delivery
<1>6. TypeOK'
  BY <1>1, <1>3, <1>4, <1>5, <1>t DEF TypeOK, budget, history
<1>7. NewsKept
  <2>1. \A v \in Workers : deliveries'[v] = deliveries[v] \/ DeliveryFits(deliveries[v])'
    BY <1>5 DEF DeliveryFits
  <2>2. \A n \in StatusMessage : InHand(n)' => InHand(n) \/ n \in reported'
    BY <1>2, <1>3, <1>4, <1>5 DEF InHand
  <2> QED
    BY <1>4, <2>1, <2>2 DEF NewsKept
<1> QED
  BY <1>1, <1>6, <1>7, <1>t, RowsQuiet, CallsQuiet, RequestsQuiet, MailsQuiet, StepKeeps

\* A handler that moves on keeps its message.
LEMMA HandlerMoves ==
  ASSUME OInv, NEW w \in Workers, NEW step \in {"mail", "seller", "ack"},
         deliveries[w].step # "idle", StepTo(w, step), UNCHANGED <<writes, statusQueue>>
  PROVE  deliveries' \in [Workers -> Delivery] /\ NewsKept
<1>1. /\ deliveries' \in [Workers -> Delivery]
      /\ deliveries'[w].message = deliveries[w].message
      /\ \A v \in Workers \ {w} : deliveries'[v] = deliveries[v]
  BY DEF OInv, TypeOK, StepTo, Delivery
<1>2. DeliveryFits(deliveries[w])
  BY DEF OInv, DeliveriesFit
<1>3. DeliveryFits(deliveries[w])'
  BY <1>1, <1>2 DEF DeliveryFits
<1>4. \A m \in StatusMessage : InHand(m)' => InHand(m)
  BY <1>1 DEF InHand
<1> QED
  BY <1>1, <1>3, <1>4 DEF NewsKept

\* What a handler works for was paid.
LEMMA HandlerPaid ==
  ASSUME OInv, NEW w \in Workers, deliveries[w].step # "idle"
  PROVE  OrderOf(w) \in Orders /\ WasPaid(OrderOf(w))
<1>1. PICK m \in StatusMessage : m = deliveries[w].message /\ m.type = "SUCCESS"
  BY DEF OInv, DeliveriesFit, DeliveryFits
<1>2. m \in reported
  BY <1>1 DEF OInv, NewsReported, InHand
<1> QED
  BY <1>1, <1>2, MessageFields DEF OrderOf, WasPaid

\* Every handler that runs announces the order it was given, and then is done.
LEMMA HandlerSteps ==
  ASSUME OInv, UNCHANGED reported, NEW w \in Workers, Consume(w)
  PROVE  Preserved
<1>t. TypeOK
  BY DEF OInv
<1>1. ASSUME ReadOrder(w)
      PROVE  Preserved
  <2>1. deliveries' \in [Workers -> Delivery] /\ NewsKept
    BY <1>1, HandlerMoves DEF ReadOrder, queues
  <2>2. UNCHANGED <<orders, calls, writes, requests, queues, budget, history>>
    BY <1>1 DEF ReadOrder
  <2>3. TypeOK'
    BY <1>t, <2>1, <2>2 DEF TypeOK, queues, budget, history
  <2> QED
    BY <1>t, <2>1, <2>2, <2>3, RowsQuiet, CallsQuiet, RequestsQuiet, MailsQuiet, StepKeeps
       DEF queues
<1>2. ASSUME ConfirmationMail(w)
      PROVE  Preserved
  <2>1. PICK o \in Orders : o = OrderOf(w) /\ WasPaid(o)
    BY <1>2, HandlerPaid DEF ConfirmationMail
  <2>2. /\ mailQueue' \in [Mail -> Nat]
        /\ faults' \in 0..MaxFaults
        /\ \A n \in Mail : mailQueue'[n] > 0 => n = Confirmed(o) \/ mailQueue[n] > 0
    BY <1>2, <1>t, <2>1, MailFacts, MailFields DEF ConfirmationMail, Confirmed
  <2>3. UNCHANGED <<orders, calls, writes, requests, requestQueue, statusQueue, sellerQueue,
                    made, crashes, history>>
    BY <1>2 DEF ConfirmationMail
  <2>4. MailsKept
    BY <2>1, <2>2, <2>3, MailFields DEF Told, MailsKept, WasPaid
  <2>5. deliveries' \in [Workers -> Delivery] /\ NewsKept
    BY <1>2, HandlerMoves DEF ConfirmationMail
  <2>6. TypeOK'
    BY <1>t, <2>2, <2>3, <2>5 DEF TypeOK, history
  <2> QED
    BY <1>t, <2>3, <2>4, <2>5, <2>6, RowsQuiet, CallsQuiet, RequestsQuiet, StepKeeps
<1>3. ASSUME TellSeller(w)
      PROVE  Preserved
  <2>1. PICK o \in Orders : o = OrderOf(w) /\ WasPaid(o)
    BY <1>3, HandlerPaid DEF TellSeller
  <2>2. /\ sellerQueue' \in [Orders -> Nat]
        /\ \A x \in Orders : sellerQueue'[x] > 0 => x = o \/ sellerQueue[x] > 0
    BY <1>3, <1>t, <2>1, PutFacts DEF TellSeller, TypeOK
  <2>3. faults' \in 0..MaxFaults /\ untold' \subseteq Orders
    BY <1>3, <1>t, <2>1, FaultFacts DEF TellSeller, TypeOK
  <2>4. UNCHANGED <<orders, calls, writes, requests, requestQueue, statusQueue, mailQueue,
                    made, crashes, unrequested, lostWrites>>
    BY <1>3 DEF TellSeller
  <2>5. MailsKept
    BY <2>1, <2>2, <2>4 DEF Told, MailsKept, WasPaid
  <2>6. deliveries' \in [Workers -> Delivery] /\ NewsKept
    BY <1>3, HandlerMoves DEF TellSeller
  <2>7. TypeOK'
    BY <1>t, <2>2, <2>3, <2>4, <2>6 DEF TypeOK
  <2> QED
    BY <1>t, <2>4, <2>5, <2>6, <2>7, RowsQuiet, CallsQuiet, RequestsQuiet, StepKeeps
<1>4. ASSUME AckStatus(w)
      PROVE  Preserved
  <2>1. /\ deliveries' \in [Workers -> Delivery]
        /\ \A v \in Workers : deliveries'[v] = deliveries[v]
             \/ (deliveries'[v].step = "idle" /\ deliveries'[v].message = None)
    BY <1>4, <1>t DEF AckStatus, TypeOK, Delivery, NoDelivery
  <2>2. UNCHANGED <<orders, calls, writes, requests, queues, budget, history>>
    BY <1>4 DEF AckStatus
  <2>3. NewsKept
    BY <2>1, <2>2, NoneAssumption DEF NewsKept, InHand, DeliveryFits, queues
  <2>4. TypeOK'
    BY <1>t, <2>1, <2>2 DEF TypeOK, queues, budget, history
  <2> QED
    BY <1>t, <2>2, <2>3, <2>4, RowsQuiet, CallsQuiet, RequestsQuiet, MailsQuiet, StepKeeps
       DEF queues
<1> QED
  BY <1>1, <1>2, <1>3, <1>4 DEF Consume

\* The update that nobody waits for lands, whenever it does, on the row of the
\* order that the message is about.
LEMMA WriteSteps ==
  ASSUME OInv, UNCHANGED reported, NEW m \in StatusMessage, ApplyWrite(m)
  PROVE  Preserved
<1>t. TypeOK
  BY DEF OInv
<1>1. m \in reported /\ m.type \in {"PENDING", "SUCCESS"}
  BY DEF ApplyWrite, InHand, OInv, NewsReported
<1>2. PICK o \in Orders, p \in Payments : o = m.orderId /\ p = m.paymentId
  BY MessageFields
<1>3. PICK row : row = Linked(orders[o], m)
  OBVIOUS
<1>4. /\ row \in Row /\ row.orderStatus = "SUCCESS"
      /\ row.paymentId = p /\ row.paymentStatus = m.type
  <2>1. orders[o] \in Row
    BY <1>t DEF TypeOK
  <2> QED
    BY <1>1, <1>2, <1>3, <2>1 DEF Linked, Row, OrderStatus
<1>5. RowFits(row, o)
  BY <1>1, <1>2, <1>4, NoneAssumption DEF RowFits
<1>6. orders' = [orders EXCEPT ![o] = row]
  BY <1>2, <1>3 DEF ApplyWrite
<1>7. orders' \in [Orders -> Row] /\ RowsKept
  BY <1>4, <1>5, <1>6, RowWritten
<1>8. /\ writes' \in [StatusMessage -> Nat]
      /\ \A n \in StatusMessage : writes'[n] > 0 => writes[n] > 0
  BY <1>t, TakeFacts DEF ApplyWrite, TypeOK
<1>9. UNCHANGED <<calls, deliveries, requests, queues, budget, history>>
  BY DEF ApplyWrite
<1>10. NewsKept
  BY <1>8, <1>9 DEF NewsKept, InHand, queues
<1>11. TypeOK'
  BY <1>7, <1>8, <1>9, <1>t DEF TypeOK, queues, budget, history
<1> QED
  BY <1>7, <1>9, <1>10, <1>11, <1>t, CallsQuiet, RequestsQuiet, MailsQuiet, StepKeeps DEF queues

-----------------------------------------------------------------------------
(***************************************************************************)
(* Crashes, and the service as a whole                                     *)
(***************************************************************************)
\* After a crash the queue holds what the handlers held; the calls, the updates
\* and the requests that were under way are gone.
LEMMA RestartSteps ==
  ASSUME OInv, UNCHANGED reported, UnhandledRejection \/ ServiceCrash
  PROVE  Preserved
<1>t. TypeOK
  BY DEF OInv
<1>1. Restart
  BY DEF UnhandledRejection, ServiceCrash
<1>2. faults' \in 0..MaxFaults /\ crashes' \in 0..MaxCrashes
  <2>1. CASE UnhandledRejection
    BY <1>t, <2>1, FaultFacts DEF UnhandledRejection, TypeOK
  <2>2. CASE ServiceCrash
    BY <1>t, <2>2, BoundsAssumption DEF ServiceCrash, TypeOK
  <2> QED
    BY <2>1, <2>2
<1>3. CallsKept
  BY <1>1 DEF Restart, CallsKept, IdleCall, Call, CallFits
<1>4. /\ deliveries' \in [Workers -> Delivery]
      /\ \A w \in Workers : deliveries'[w].step = "idle" /\ deliveries'[w].message = None
  BY <1>1 DEF Restart, Delivery, NoDelivery
<1>5. writes' \in [StatusMessage -> Nat] /\ \A m \in StatusMessage : writes'[m] = 0
  BY <1>1 DEF Restart, NoMessages
<1>6. /\ statusQueue' \in [StatusMessage -> Nat]
      /\ \A m \in StatusMessage : statusQueue'[m] > 0 => InHand(m)
  BY <1>1, <1>t, RequeueFacts DEF Restart
<1>7. NewsKept
  BY <1>4, <1>5, <1>6, NoneAssumption DEF NewsKept, InHand, DeliveryFits
<1>8. UNCHANGED <<orders, requestQueue, mailQueue, sellerQueue, made>> /\ requests' = {}
  BY <1>1 DEF Restart
<1>9. RequestsKept
  BY <1>8 DEF RequestsKept
<1>h. /\ unrequested' \subseteq Orders /\ untold' \subseteq Orders
      /\ lostWrites' \subseteq StatusMessage
  BY <1>1, <1>t DEF Restart, TypeOK
<1>10. TypeOK'
  BY <1>2, <1>3, <1>4, <1>5, <1>6, <1>8, <1>h, <1>t DEF TypeOK, CallsKept
<1> QED
  BY <1>3, <1>7, <1>8, <1>9, <1>10, RowsQuiet, MailsQuiet, StepKeeps

\* Every step of the service keeps the invariant.
LEMMA ServiceKeeps ==
  ASSUME OInv, UNCHANGED reported, ServiceNext
  PROVE  Preserved
BY CreateSteps, UpdateSteps, CancelSteps, RequestSteps, DeliverSteps, HandlerSteps, WriteSteps,
   RestartSteps
   DEF ServiceNext, Begin, Continue

\* So does every step of its surroundings that takes requests out of the queue or
\* puts them back, reports payments of stored orders, and asks the seller only to
\* ship what was paid.
LEMMA SurroundingsKeep ==
  ASSUME OInv, UNCHANGED <<orders, memory, mailQueue, budget, history>>, ReportsFit',
         reported \subseteq reported',
         requestQueue' \subseteq Orders, \A o \in requestQueue' : Exists(o),
         statusQueue' \in [StatusMessage -> Nat],
         \A m \in StatusMessage : statusQueue'[m] > 0 => statusQueue[m] > 0 \/ m \in reported',
         sellerQueue' \in [Orders -> Nat],
         \A o \in Orders : sellerQueue'[o] > 0 => Told(o) \/ WasPaid(o)'
  PROVE  Preserved
<1>t. TypeOK
  BY DEF OInv
<1>1. TypeOK'
  BY <1>t DEF TypeOK, memory, budget, history
<1>2. RowsKept
  BY DEF RowsKept, Exists
<1>3. NewsKept
  BY DEF NewsKept, InHand, memory
<1>4. RequestsKept
  BY DEF RequestsKept, memory, Exists
<1>5. MailsKept
  BY DEF MailsKept, Told
<1> QED
  BY <1>1, <1>2, <1>3, <1>4, <1>5, <1>t, CallsQuiet, StepKeeps DEF memory

-----------------------------------------------------------------------------
(***************************************************************************)
(* Theorems                                                                *)
(***************************************************************************)
\* The invariant holds of an empty table, an empty broker and a payment service
\* that has reported nothing.
LEMMA InitEstablishes ==
  ASSUME ServiceInit, requestQueue = {}, statusQueue = NoMessages(StatusMessage), ReportsFit
  PROVE  OInv
<1> USE DEF ServiceInit
<1>1. TypeOK
  BY BoundsAssumption
     DEF TypeOK, NoRow, Row, IdleCall, Call, NoDelivery, Delivery, NoMessages
<1>2. CallsFit /\ DeliveriesFit
  BY DEF CallsFit, DeliveriesFit, CallFits, DeliveryFits, IdleCall, NoDelivery
<1>3. NewsReported
  BY NoneAssumption DEF NewsReported, InHand, NoMessages, NoDelivery
<1>4. RequestsFit
  BY DEF RequestsFit
<1>5. RowsReported
  BY DEF RowsReported, RowFits, NoRow
<1>6. ShipmentsPaid
  <2> SUFFICES ASSUME NEW o \in Orders PROVE ~Told(o)
    BY DEF ShipmentsPaid
  <2>1. Confirmed(o) \in Mail
    BY MailFields
  <2>2. mailQueue[Confirmed(o)] = 0 /\ sellerQueue[o] = 0
    BY <2>1 DEF NoMessages
  <2> QED
    BY <2>2 DEF Told
<1> QED
  BY <1>1, <1>2, <1>3, <1>4, <1>5, <1>6 DEF OInv

\* A report about a payment that was never reported of another order fits.
LEMMA ReportSteps ==
  ASSUME OInv, NEW m \in StatusMessage, PaymentReports(m)
  PROVE  Preserved
<1>1. ReportsFit'
  BY DEF OInv, ReportsFit, PaymentReports, Exists
<1>2. /\ statusQueue' \in [StatusMessage -> Nat]
      /\ \A n \in StatusMessage : statusQueue'[n] > 0 => n = m \/ statusQueue[n] > 0
  BY PutFacts DEF OInv, TypeOK, PaymentReports
<1>3. sellerQueue' \in [Orders -> Nat]
      /\ \A o \in Orders : sellerQueue'[o] > 0 => Told(o)
  BY DEF OInv, TypeOK, PaymentReports, Told
<1>4. requestQueue' \subseteq Orders /\ \A o \in requestQueue' : Exists(o)
  BY DEF OInv, TypeOK, RequestsFit, PaymentReports
<1> QED
  BY <1>1, <1>2, <1>3, <1>4, SurroundingsKeep DEF PaymentReports

LEMMA NextPreserves == OInv /\ [Next]_allvars => Preserved
<1> SUFFICES ASSUME OInv, [Next]_allvars PROVE Preserved
  OBVIOUS
<1>1. CASE UNCHANGED allvars
  <2>1. UNCHANGED <<orders, memory, queues, budget, history, reported>>
    BY <1>1 DEF allvars, vars
  <2>2. ReportsFit' /\ reported \subseteq reported'
    BY <2>1, ReportsKept DEF Exists
  <2>3. requestQueue' \subseteq Orders /\ \A o \in requestQueue' : Exists(o)
    BY <2>1 DEF OInv, TypeOK, RequestsFit, queues
  <2> QED
    BY <2>1, <2>2, <2>3, SurroundingsKeep DEF queues, OInv, TypeOK, Told
<1>2. CASE ServiceNext /\ UNCHANGED reported
  BY <1>2, ServiceKeeps
<1>3. ASSUME NEW m \in StatusMessage, PaymentReports(m)
      PROVE  Preserved
  BY <1>3, ReportSteps
<1> QED
  BY <1>1, <1>2, <1>3 DEF Next, Rest

\* OInv is an inductive invariant.
THEOREM Invariance == Spec => []OInv
<1>1. Init => OInv
  BY InitEstablishes DEF Init, ReportsFit
<1>2. OInv /\ [Next]_allvars => OInv'
  BY NextPreserves DEF Preserved
<1> QED
  BY <1>1, <1>2, PTL DEF Spec

\* Every variable keeps the shape its table, queue or counter has in the service.
THEOREM TypeCorrect == Spec => []TypeOK
<1>1. OInv => TypeOK
  BY DEF OInv
<1> QED
  BY <1>1, Invariance, PTL

\* No message that the consumer may still be given, or has under way, can make it
\* die (getOrderDirect and uq_payment_id would end the process each time).
THEOREM NeverPoisoned == Spec => []NotPoisoned
<1>1. OInv => NotPoisoned
  <2> SUFFICES ASSUME OInv, NEW m \in StatusMessage, InHand(m) PROVE ~Rejected(m)
    BY DEF NotPoisoned
  <2>1. m \in reported /\ Exists(m.orderId)
    BY DEF OInv, NewsReported, ReportsFit
  <2>2. ASSUME NEW o \in Orders \ {m.orderId}, orders[o].paymentId = m.paymentId
        PROVE  FALSE
    <3>1. PICK r \in reported : r.orderId = o /\ r.paymentId = m.paymentId
      BY <2>2, MessageFields, NoneAssumption DEF OInv, RowsReported, RowFits
    <3> QED
      BY <2>1, <2>2, <3>1 DEF OInv, ReportsFit
  <2> QED
    BY <2>1, <2>2 DEF Rejected
<1> QED
  BY <1>1, Invariance, PTL

\* The seller is asked to ship, and the user told so, only for an order whose
\* payment was reported successful.
THEOREM ShippedIsPaid == Spec => []ShippedOnlyIfPaid
<1>1. OInv => ShippedOnlyIfPaid
  <2> SUFFICES ASSUME OInv, NEW o \in Orders, Told(o)
               PROVE  \E p \in Payments :
                        [type |-> "SUCCESS", orderId |-> o, paymentId |-> p] \in reported
    BY DEF ShippedOnlyIfPaid, Told, Confirmed
  <2>1. PICK m \in reported : m.type = "SUCCESS" /\ m.orderId = o
    BY DEF OInv, ShipmentsPaid, WasPaid
  <2>2. m \in StatusMessage
    BY DEF OInv, ReportsFit
  <2> QED
    BY <2>1, <2>2, MessageFields
<1> QED
  BY <1>1, Invariance, PTL

=============================================================================
