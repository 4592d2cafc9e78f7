--------------------------- MODULE CheckoutProofs ---------------------------
(***************************************************************************)
(* Proofs about Checkout for any instance of it: AnswersFit and            *)
(* PaidMeansCompleted, the agreement of the two services' databases.       *)
(*                                                                         *)
(* Each service was proved in surroundings of its own.  Here each is the    *)
(* surroundings of the other: a step of one keeps the other's invariant    *)
(* because it does no more than those surroundings may do                  *)
(* (SurroundingsKeep of either), and to the order service the payment      *)
(* service is one that has reported what is true (TrueNews).               *)
(***************************************************************************)
EXTENDS Checkout, TLAPS

\* The payment service only ever hears of orders that are stored.
OrdersKnown == \A o \in Orders : Payment!Knows(o) => Order!Exists(o)

\* The seller service was only ever asked to ship what was paid.
SellerFits ==
  /\ inHand \in [Orders -> Nat]
  /\ \A o \in Orders : inHand[o] > 0 \/ o \in asked => Order!WasPaid(o)

CInv == Payment!IInv /\ Order!OInv /\ OrdersKnown /\ SellerFits

-----------------------------------------------------------------------------
(***************************************************************************)
(* What the services ask of their constants                                *)
(***************************************************************************)
LEMMA PaymentConstants == Payment!BoundsAssumption /\ Payment!NoneAssumption
BY BoundsAssumption, NoneAssumption DEF Payment!BoundsAssumption, Payment!NoneAssumption

LEMMA OrderConstants ==
  /\ Order!BoundsAssumption /\ Order!WorkersAssumption
  /\ Order!NoneAssumption /\ Order!AskedAssumption
BY BoundsAssumption, WorkersAssumption, NoneAssumption, AskedAssumption
   DEF Order!BoundsAssumption, Order!NoneAssumption, Order!AskedAssumption

\* The services mean the same by a status message.
LEMMA SameMessages == Order!StatusMessage = Payment!StatusMessage
BY DEF Order!StatusMessage, Payment!StatusMessage

\* The fields of a true message.
LEMMA TrueFields ==
  ASSUME NEW m \in TrueNews
  PROVE  /\ m \in Payment!StatusMessage
         /\ m.paymentId \in Payments /\ m.orderId \in Orders
         /\ payments[m.paymentId].orderId = m.orderId
         /\ m.type = "SUCCESS" => m.paymentId \in completed
BY DEF TrueNews, Payment!MessageIsTrue, Payment!StatusMessage

-----------------------------------------------------------------------------
(***************************************************************************)
(* The steps of the checkout                                               *)
(***************************************************************************)
\* A true message is about a payment of a stored order, and about that one only.
LEMMA NewsFits ==
  ASSUME OrdersKnown
  PROVE  Order!ReportsFit
<1>1. TrueNews \subseteq Order!StatusMessage
  BY SameMessages DEF TrueNews
<1>2. \A m \in TrueNews : Order!Exists(m.orderId)
  BY TrueFields DEF OrdersKnown, Payment!Knows
<1>3. \A m, r \in TrueNews : m.paymentId = r.paymentId => m.orderId = r.orderId
  BY TrueFields
<1> QED
  BY <1>1, <1>2, <1>3 DEF Order!ReportsFit

\* While payments keep their rows, nothing true becomes false.
LEMMA TrueNewsGrows ==
  ASSUME Payment!TypeOK, Payment!Grow
  PROVE  TrueNews \subseteq TrueNews'
<1>1. \A m \in Payment!StatusMessage : Payment!MessageIsTrue(m) => Payment!MessageIsTrue(m)'
  BY Payment!NewsKept, PaymentConstants
<1> QED
  BY <1>1 DEF TrueNews

LEMMA TrueNewsSame ==
  ASSUME UNCHANGED <<payments, completed>>
  PROVE  TrueNews' = TrueNews
BY DEF TrueNews, Payment!MessageIsTrue

\* The seller service keeps what it has while the news only grows.
LEMMA SellerQuiet ==
  ASSUME SellerFits, UNCHANGED <<inHand, asked>>, TrueNews \subseteq TrueNews'
  PROVE  SellerFits'
BY DEF SellerFits, Order!WasPaid

\* A step of the payment service.
LEMMA PaymentSteps ==
  ASSUME CInv, PaymentStep(Payment!ServiceNext)
  PROVE  CInv'
<1> USE DEF CInv
<1>1. Payment!Preserved
  BY Payment!NextPreserves, PaymentConstants DEF PaymentStep, Payment!Next
<1>2. Payment!IInv' /\ Payment!Grow
  BY <1>1 DEF Payment!Preserved
<1>3. TrueNews \subseteq TrueNews'
  BY <1>2, TrueNewsGrows DEF Payment!IInv
<1>4. UNCHANGED <<orderVars, sellerVars, sellerQueue>>
  BY DEF PaymentStep
<1>5. OrdersKnown'
  <2>1. \A o \in Orders : Payment!Knows(o)' => Payment!Knows(o)
    BY Payment!NoOrderInvented, PaymentConstants DEF PaymentStep, Payment!Next
  <2> QED
    BY <1>4, <2>1 DEF OrdersKnown, orderVars, Order!Exists
<1>6. Order!ReportsFit'
  <2>1. OrdersKnown' => Order!ReportsFit'
    BY NewsFits, PTL
  <2> QED
    BY <1>5, <2>1
<1>7. requestQueue' \subseteq Orders /\ \A o \in requestQueue' : Order!Exists(o)
  <2>1. requestQueue' \subseteq Orders
    BY <1>2 DEF Payment!IInv, Payment!TypeOK
  <2>2. \A o \in Orders : Order!Exists(o)' => Order!Exists(o)
    BY <1>4 DEF orderVars, Order!Exists
  <2> QED
    BY <1>5, <2>1, <2>2 DEF OrdersKnown, Payment!Knows
<1>8. /\ statusQueue' \in [Order!StatusMessage -> Nat]
      /\ \A m \in Order!StatusMessage : statusQueue'[m] > 0 => m \in TrueNews'
  BY <1>2, SameMessages
     DEF Payment!IInv, Payment!TypeOK, Payment!NewsIsTrue, Payment!InTransit, TrueNews,
         Payment!MessageIsTrue
<1>9. sellerQueue' \in [Orders -> Nat] /\ \A o \in Orders : sellerQueue'[o] > 0 => Order!Told(o)
  BY <1>4 DEF Order!OInv, Order!TypeOK, Order!Told
<1>10. UNCHANGED <<orders, Order!memory, orderMails, Order!budget, Order!history>>
  BY <1>4 DEF orderVars, Order!memory, Order!budget, Order!history
<1>11. Order!Preserved
  BY <1>3, <1>6, <1>7, <1>8, <1>9, <1>10, Order!SurroundingsKeep, OrderConstants
<1>12. SellerFits'
  BY <1>3, <1>4, SellerQuiet DEF sellerVars
<1> QED
  BY <1>2, <1>5, <1>11, <1>12 DEF Order!Preserved

\* A step of the order service.
LEMMA OrderSteps ==
  ASSUME CInv, OrderStep(Order!ServiceNext)
  PROVE  CInv'
<1> USE DEF CInv
<1>1. UNCHANGED <<paymentVars, sellerVars>>
  BY DEF OrderStep
<1>2. TrueNews' = TrueNews
  BY <1>1, TrueNewsSame DEF paymentVars
<1>3. Order!Preserved
  BY <1>2, Order!ServiceKeeps, OrderConstants DEF OrderStep
<1>4. Order!OInv' /\ \A o \in Orders : Order!Exists(o) => Order!Exists(o)'
  BY <1>3 DEF Order!Preserved, Order!RowsKept
<1>5. UNCHANGED <<Payment!data, Payment!memory, paymentMails, Payment!history, Payment!budget>>
  BY <1>1 DEF paymentVars, Payment!data, Payment!memory, Payment!history, Payment!budget
<1>6. requestQueue' \subseteq Orders /\ statusQueue' \in [Payment!StatusMessage -> Nat]
  BY <1>4, SameMessages DEF Order!OInv, Order!TypeOK
<1>7. \A m \in Payment!StatusMessage : statusQueue'[m] > 0 => Payment!MessageIsTrue(m)
  BY <1>2, <1>4, SameMessages DEF Order!OInv, Order!NewsReported, Order!InHand, TrueNews
<1>8. Payment!Preserved
  BY <1>5, <1>6, <1>7, Payment!SurroundingsKeep, PaymentConstants
<1>9. OrdersKnown'
  <2>1. \A o \in Orders : o \in requestQueue' => Order!Exists(o)'
    BY <1>4 DEF Order!OInv, Order!RequestsFit
  <2>2. \A o \in Orders : Payment!Knows(o)' => o \in requestQueue' \/ Payment!Knows(o)
    BY <1>1 DEF Payment!Knows, paymentVars
  <2> QED
    BY <1>4, <2>1, <2>2 DEF OrdersKnown
<1>10. SellerFits'
  BY <1>1, <1>2, SellerQuiet DEF sellerVars
<1> QED
  BY <1>4, <1>8, <1>9, <1>10 DEF Payment!Preserved

\* A step of anyone that leaves both services' tables and their queues alone, and
\* asks the seller only to ship what was paid.
LEMMA ServicesQuiet ==
  ASSUME CInv, UNCHANGED <<paymentVars, orderVars, requestQueue, statusQueue>>,
         sellerQueue' \in [Orders -> Nat],
         \A o \in Orders : sellerQueue'[o] > 0 => Order!WasPaid(o)
  PROVE  Payment!IInv' /\ Order!OInv' /\ OrdersKnown' /\ TrueNews' = TrueNews
<1> USE DEF CInv
<1>1. TrueNews' = TrueNews
  BY TrueNewsSame DEF paymentVars
<1>2. OrdersKnown'
  BY DEF OrdersKnown, Payment!Knows, Order!Exists, paymentVars, orderVars
<1>3. Payment!IInv'
  <2>1. UNCHANGED <<Payment!data, Payment!memory, paymentMails, Payment!history, Payment!budget>>
    BY DEF paymentVars, Payment!data, Payment!memory, Payment!history, Payment!budget
  <2>2. requestQueue' \subseteq Orders /\ statusQueue' \in [Payment!StatusMessage -> Nat]
    BY DEF Payment!IInv, Payment!TypeOK
  <2>3. Payment!Preserved
    BY <2>1, <2>2, Payment!SurroundingsKeep, PaymentConstants
  <2> QED
    BY <2>3 DEF Payment!Preserved
<1>4. Order!OInv'
  <2>1. UNCHANGED <<orders, Order!memory, orderMails, Order!budget, Order!history>>
    BY DEF orderVars, Order!memory, Order!budget, Order!history
  <2>2. OrdersKnown' => Order!ReportsFit'
    BY NewsFits, PTL
  <2>3. Order!ReportsFit'
    BY <1>2, <2>2
  <2>4. requestQueue' \subseteq Orders /\ \A o \in requestQueue' : Order!Exists(o)
    BY DEF Order!OInv, Order!TypeOK, Order!RequestsFit
  <2>5. statusQueue' \in [Order!StatusMessage -> Nat]
    BY DEF Order!OInv, Order!TypeOK
  <2>6. \A o \in Orders : sellerQueue'[o] > 0 => Order!WasPaid(o)'
    BY <1>1 DEF Order!WasPaid
  <2>7. Order!Preserved
    BY <1>1, <2>1, <2>3, <2>4, <2>5, <2>6, Order!SurroundingsKeep, OrderConstants
  <2> QED
    BY <2>7 DEF Order!Preserved
<1> QED
  BY <1>1, <1>2, <1>3, <1>4

\* A step of the seller service moves an order from one of its places to another.
LEMMA SellerSteps ==
  ASSUME CInv, SellerStep(Seller!Next)
  PROVE  CInv'
<1>1. /\ sellerQueue \in [Orders -> Nat] /\ inHand \in [Orders -> Nat]
      /\ \A o \in Orders : sellerQueue[o] > 0 \/ inHand[o] > 0 \/ o \in asked => Order!WasPaid(o)
  BY DEF CInv, SellerFits, Order!OInv, Order!TypeOK, Order!ShipmentsPaid, Order!Told
<1> DEFINE Moved ==
      /\ sellerQueue' \in [Orders -> Nat] /\ inHand' \in [Orders -> Nat]
      /\ \A o \in Orders : sellerQueue'[o] > 0 \/ inHand'[o] > 0 \/ o \in asked' =>
           sellerQueue[o] > 0 \/ inHand[o] > 0 \/ o \in asked
<1>2. Moved
  <2>1. ASSUME NEW o \in Orders, Seller!Deliver(o)
        PROVE  Moved
    BY <1>1, <2>1 DEF Seller!Deliver, Seller!Put, Seller!Take
  <2>2. ASSUME NEW o \in Orders, Seller!Handle(o)
        PROVE  Moved
    BY <1>1, <2>2 DEF Seller!Handle, Seller!Take
  <2>3. ASSUME Seller!Crash
        PROVE  Moved
    BY <1>1, <2>3 DEF Seller!Crash, Seller!Returned, Seller!NoMessages
  <2> QED
    BY <2>1, <2>2, <2>3 DEF SellerStep, Seller!Next
<1>3. UNCHANGED <<paymentVars, orderVars, requestQueue, statusQueue>>
  BY DEF SellerStep
<1>4. Payment!IInv' /\ Order!OInv' /\ OrdersKnown' /\ TrueNews' = TrueNews
  BY <1>1, <1>2, <1>3, ServicesQuiet
<1>5. SellerFits'
  BY <1>1, <1>2, <1>4 DEF SellerFits, Order!WasPaid
<1> QED
  BY <1>4, <1>5 DEF CInv

LEMMA NextPreserves == CInv /\ [Next]_vars => CInv'
<1> SUFFICES ASSUME CInv, [Next]_vars PROVE CInv'
  OBVIOUS
<1>1. CASE UNCHANGED vars
  <2>1. UNCHANGED <<paymentVars, orderVars, requestQueue, statusQueue, sellerQueue, inHand, asked>>
    BY <1>1 DEF vars, sellerVars
  <2>2. sellerQueue' \in [Orders -> Nat] /\ \A o \in Orders : sellerQueue'[o] > 0 => Order!WasPaid(o)
    BY <2>1 DEF CInv, Order!OInv, Order!TypeOK, Order!ShipmentsPaid, Order!Told
  <2>3. Payment!IInv' /\ Order!OInv' /\ OrdersKnown' /\ TrueNews' = TrueNews
    BY <2>1, <2>2, ServicesQuiet
  <2>4. SellerFits'
    BY <2>1, <2>3, SellerQuiet DEF CInv
  <2> QED
    BY <2>3, <2>4 DEF CInv
<1> QED
  BY <1>1, PaymentSteps, OrderSteps, SellerSteps DEF Next, Rest

\* Nothing was sold yet.
LEMMA InitEstablishes == Init => CInv
<1> SUFFICES ASSUME Init PROVE CInv
  OBVIOUS
<1>1. Payment!IInv
  BY Payment!InitEstablishes, PaymentConstants DEF Init, NoMessages, Payment!NoMessages,
     Order!StatusMessage, Payment!StatusMessage
<1>2. OrdersKnown
  BY NoneAssumption
     DEF Init, OrdersKnown, Payment!Knows, Payment!ServiceInit, Payment!NoDelivery, Payment!NoRow
<1>3. Order!OInv
  BY <1>2, NewsFits, Order!InitEstablishes, OrderConstants DEF Init, Order!NoMessages, NoMessages
<1>4. SellerFits
  BY DEF Init, SellerFits, Seller!ServiceInit, Seller!NoMessages
<1> QED
  BY <1>1, <1>2, <1>3, <1>4 DEF CInv

-----------------------------------------------------------------------------
(***************************************************************************)
(* Theorems                                                                *)
(***************************************************************************)
\* The services' invariants hold of their composition, and tie their databases to
\* each other.
THEOREM Invariance == Spec => []CInv
BY InitEstablishes, NextPreserves, PTL DEF Spec

\* What either service answers, of an order or of a user, the other one's answers
\* bear out: a linked payment is a payment of that order, and a payment's order is
\* stored (updatePaymentStatus and createPayment write the two sides of the link).
THEOREM AnswersAlwaysFit == Spec => []AnswersFit
<1>1. CInv => LinkIsSound
  <2> SUFFICES ASSUME CInv, NEW o \in Orders, orders[o].paymentId # None
               PROVE  \E p \in Payment!getPaymentById(orders[o].paymentId) :
                        payments[p].orderId = o
    BY DEF LinkIsSound, Order!getOrders, Order!Stored
  <2>1. PICK m \in TrueNews : m.orderId = o /\ m.paymentId = orders[o].paymentId
    BY DEF CInv, Order!OInv, Order!RowsReported, Order!RowFits
  <2>2. PICK p \in Payments : p = orders[o].paymentId /\ payments[p].orderId = o
    BY <2>1, TrueFields
  <2>3. payments[p].status # "ABSENT"
    BY <2>2, NoneAssumption DEF CInv, Payment!IInv, Payment!WorkFitsRows, Payment!RowsFit
  <2> QED
    BY <2>2, <2>3 DEF Payment!getPaymentById, Payment!Stored
<1>2. CInv => PaymentsHaveOrders
  <2> SUFFICES ASSUME CInv, NEW placed \in SUBSET Orders,
                      NEW p \in Payment!getPaymentByUserId(placed)
               PROVE  order(p) # {} /\ order(p) \subseteq Order!getOrders(placed)
    BY DEF PaymentsHaveOrders
  <2>1. p \in Payments /\ payments[p].orderId \in placed
    BY DEF Payment!getPaymentByUserId, Payment!Stored
  <2>2. Order!Exists(payments[p].orderId)
    BY <2>1 DEF CInv, OrdersKnown, Payment!Knows
  <2> QED
    BY <2>1, <2>2 DEF order, Order!getOrderDirect, Order!getOrders, Order!Stored
<1> QED
  BY <1>1, <1>2, Invariance, PTL DEF AnswersFit

\* An order that says it is paid was paid, in the database of the other service,
\* and only such an order is shipped.
THEOREM PaidWasCompleted == Spec => []PaidMeansCompleted
<1>1. CInv => PaidMeansCompleted
  <2> SUFFICES ASSUME CInv, NEW o \in Orders
               PROVE  /\ orders[o].paymentStatus = "SUCCESS" =>
                           /\ orders[o].paymentId \in completed
                           /\ orders[o].paymentId \notin Payment!getPaymentByStatus("PENDING")
                      /\ \/ Seller!AskedAbout(o)
                         \/ orderMails[[type |-> "CONFIRMATION", orderId |-> o]] > 0
                         => \E p \in completed : payments[p].orderId = o
    BY DEF PaidMeansCompleted
  <2>1. ASSUME orders[o].paymentStatus = "SUCCESS"
        PROVE  /\ orders[o].paymentId \in completed
               /\ orders[o].paymentId \notin Payment!getPaymentByStatus("PENDING")
    <3>1. PICK m \in TrueNews : m.paymentId = orders[o].paymentId /\ m.type = "SUCCESS"
      BY <2>1 DEF CInv, Order!OInv, Order!RowsReported, Order!RowFits
    <3>2. PICK p \in Payments : p = orders[o].paymentId /\ p \in completed
      BY <3>1, TrueFields
    <3>3. payments[p].status # "PENDING"
      BY <3>2 DEF CInv, Payment!IInv, Payment!WorkFitsRows, Payment!RowsFit
    <3> QED
      BY <3>2, <3>3 DEF Payment!getPaymentByStatus, Payment!Stored
  <2>2. ASSUME \/ Seller!AskedAbout(o)
               \/ orderMails[[type |-> "CONFIRMATION", orderId |-> o]] > 0
        PROVE  \E p \in completed : payments[p].orderId = o
    <3>1. Order!WasPaid(o)
      BY <2>2
         DEF CInv, SellerFits, Seller!AskedAbout, Order!OInv, Order!ShipmentsPaid, Order!Told,
             Order!Confirmed
    <3> QED
      BY <3>1, TrueFields DEF Order!WasPaid
  <2> QED
    BY <2>1, <2>2
<1> QED
  BY <1>1, Invariance, PTL

=============================================================================
