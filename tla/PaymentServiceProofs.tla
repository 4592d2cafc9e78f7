------------------------ MODULE PaymentServiceProofs ------------------------
(***************************************************************************)
(* Proofs about PaymentService for any sets of orders, payments, codes,    *)
(* clients and workers and any bounds: type correctness, NewsIsTrue,       *)
(* RefundedWasPaid, PaymentNeverReopened, OneRowPerDelivery,               *)
(* AcceptedByFinders (for finitely many calls at a time) and               *)
(* LedgerUnlessOvertaken.                                                  *)
(*                                                                         *)
(* The inductive invariant is IInv.  Its part WorkFitsRows ties what a     *)
(* call or a handler remembers to the rows of the table; it survives       *)
(* because a row never changes its order (Grow), whoever writes it.  The   *)
(* rows of an order are counted with the one request that may still make   *)
(* a row (CountInv), the acceptances of a code with the calls that have    *)
(* found it (FewAccept).  For the ledger, a call's write is a step of it   *)
(* unless the call was overtaken (LedgerWrites), and a call is overtaken   *)
(* neither by its own step (OwnStep) nor by anything but a call's write    *)
(* (RowsElsewhere).                                                        *)
(***************************************************************************)
EXTENDS PaymentService, FiniteSetTheorems, TLAPS

IInv == TypeOK /\ WorkFitsRows /\ NewsIsTrue

-----------------------------------------------------------------------------
(***************************************************************************)
(* Queues                                                                  *)
(***************************************************************************)
\* Publishing a message keeps the shape of a queue, and what is in it
\* afterwards was there before or is the message.
LEMMA PutFacts ==
  ASSUME NEW Message, NEW queue \in [Message -> Nat], NEW m \in Message
  PROVE  /\ Put(queue, m) \in [Message -> Nat]
         /\ \A n \in Message : Put(queue, m)[n] > 0 => n = m \/ queue[n] > 0
BY DEF Put

\* Delivering a message keeps the shape of a queue and adds nothing to it.
LEMMA TakeFacts ==
  ASSUME NEW Message, NEW queue \in [Message -> Nat], NEW m \in Message, queue[m] > 0
  PROVE  /\ Take(queue, m) \in [Message -> Nat]
         /\ \A n \in Message : Take(queue, m)[n] > 0 => queue[n] > 0
BY DEF Take

\* A status message has the fields it was built from.
LEMMA StatusFacts ==
  ASSUME NEW type \in {"PENDING", "SUCCESS", "FAILED"}, NEW o \in Orders, NEW p \in Payments
  PROVE  /\ Status(type, o, p) \in StatusMessage
         /\ Status(type, o, p).type = type
         /\ Status(type, o, p).orderId = o
         /\ Status(type, o, p).paymentId = p
BY DEF Status, StatusMessage

\* A publication ends with the message in the queue or counted as lost.
LEMMA PublishFacts ==
  ASSUME TypeOK, NEW s \in StatusMessage, Publish(s)
  PROVE  /\ statusQueue' \in [StatusMessage -> Nat]
         /\ lost' \subseteq StatusMessage
         /\ faults' \in 0..MaxFaults
         /\ statusQueue' = Put(statusQueue, s) \/ statusQueue' = statusQueue
         /\ \A m \in StatusMessage : statusQueue'[m] > 0 => m = s \/ statusQueue[m] > 0
<1>1. statusQueue \in [StatusMessage -> Nat] /\ lost \subseteq StatusMessage
  BY DEF TypeOK
<1>2. /\ Put(statusQueue, s) \in [StatusMessage -> Nat]
      /\ \A m \in StatusMessage : Put(statusQueue, s)[m] > 0 => m = s \/ statusQueue[m] > 0
  BY <1>1, PutFacts
<1>3. faults' \in 0..MaxFaults
  BY BoundsAssumption DEF TypeOK, Publish, Fault
<1> QED
  BY <1>1, <1>2, <1>3 DEF Publish

\* No order id is null.
LEMMA OrdersNotNone == \A o \in Orders : o # None
BY NoneAssumption

-----------------------------------------------------------------------------
(***************************************************************************)
(* What a step leaves in place                                             *)
(***************************************************************************)
\* Rows keep their order and no completion is ever forgotten.
Grow ==
  /\ \A p \in Payments : payments[p].orderId # None =>
       payments'[p].orderId = payments[p].orderId
  /\ completed \subseteq completed'

\* A call that a step does not move still fits the rows after it, and a call
\* that is over fits any rows.
LEMMA CallsKept ==
  ASSUME WorkFitsRows, Grow, NEW cl \in Clients,
         calls'[cl] = calls[cl] \/ calls'[cl] = IdleCall
  PROVE  CallFits(calls[cl])'
<1>1. CASE calls'[cl] = calls[cl]
  <2>1. CallFits(calls[cl])
    BY DEF WorkFitsRows
  <2> QED
    BY <1>1, <2>1, OrdersNotNone DEF CallFits, Grow
<1>2. CASE calls'[cl] = IdleCall
  BY <1>2 DEF CallFits, IdleCall
<1> QED
  BY <1>1, <1>2

\* The same of the handler of a request.
LEMMA DeliveriesKept ==
  ASSUME WorkFitsRows, Grow, NEW w \in Workers,
         deliveries'[w] = deliveries[w] \/ deliveries'[w] = NoDelivery
  PROVE  DeliveryFits(deliveries[w])'
<1>1. CASE deliveries'[w] = deliveries[w]
  <2>1. DeliveryFits(deliveries[w])
    BY DEF WorkFitsRows
  <2> QED
    BY <1>1, <2>1, OrdersNotNone DEF DeliveryFits, Grow
<1>2. CASE deliveries'[w] = NoDelivery
  BY <1>2 DEF DeliveryFits, NoDelivery
<1> QED
  BY <1>1, <1>2

\* What NewsIsTrue says of one status message and of the mail about one order.
MessageIsTrue(m) ==
  /\ payments[m.paymentId].orderId = m.orderId
  /\ m.type = "SUCCESS" => m.paymentId \in completed
MailIsTrue(o) == \E p \in completed : payments[p].orderId = o

\* News that is true stays true.
LEMMA NewsKept ==
  ASSUME TypeOK, Grow
  PROVE  /\ \A m \in StatusMessage : MessageIsTrue(m) => MessageIsTrue(m)'
         /\ \A o \in Orders : MailIsTrue(o) => MailIsTrue(o)'
<1>1. ASSUME NEW m \in StatusMessage, MessageIsTrue(m)
      PROVE  MessageIsTrue(m)'
  <2>1. m.orderId \in Orders /\ m.paymentId \in Payments
    BY DEF StatusMessage
  <2> QED
    BY <1>1, <2>1, OrdersNotNone DEF MessageIsTrue, Grow
<1>2. ASSUME NEW o \in Orders, MailIsTrue(o)
      PROVE  MailIsTrue(o)'
  BY <1>2, OrdersNotNone DEF MailIsTrue, Grow, TypeOK
<1> QED
  BY <1>1, <1>2

\* A step that adds no news but true news keeps all news true.
LEMMA TrueNews ==
  ASSUME TypeOK, NewsIsTrue, Grow,
         \A m \in StatusMessage : InTransit(m)' => InTransit(m) \/ MessageIsTrue(m)',
         \A o \in Orders : (mailOutbox[o] > 0 \/ mailQueue[o] > 0)' =>
                             (mailOutbox[o] > 0 \/ mailQueue[o] > 0) \/ MailIsTrue(o)'
  PROVE  NewsIsTrue'
<1>1. \A m \in StatusMessage : InTransit(m)' => MessageIsTrue(m)'
  BY NewsKept DEF NewsIsTrue, MessageIsTrue
<1>2. \A o \in Orders : (mailOutbox[o] > 0 \/ mailQueue[o] > 0)' => MailIsTrue(o)'
  BY NewsKept DEF NewsIsTrue, MailIsTrue
<1> QED
  BY <1>1, <1>2 DEF NewsIsTrue, MessageIsTrue, MailIsTrue

-----------------------------------------------------------------------------
(***************************************************************************)
(* The steps of the service                                                *)
(***************************************************************************)
\* What every step does: the invariant holds after it, what was true of the rows
\* stays so, and no row is reopened.
Preserved == IInv' /\ Grow /\ NeverReopened

\* A step that writes no row and completes no payment.
LEMMA RowsQuiet ==
  ASSUME IInv, UNCHANGED <<payments, completed>>
  PROVE  Grow /\ NeverReopened /\ RowsFit'
BY DEF IInv, WorkFitsRows, RowsFit, Grow, NeverReopened

\* A step that publishes nothing.
LEMMA NewsQuiet ==
  ASSUME IInv, Grow, UNCHANGED <<outbox, mailOutbox, statusQueue, mailQueue>>
  PROVE  NewsIsTrue'
<1>1. \A m \in StatusMessage : InTransit(m)' => InTransit(m)
  BY DEF InTransit
<1> QED
  BY <1>1, TrueNews DEF IInv

\* A step that starts to publish one message, and the message is true.
LEMMA StatusAnnounced ==
  ASSUME IInv, Grow, NEW s \in StatusMessage, outbox' = Put(outbox, s), statusQueue' = statusQueue,
         MessageIsTrue(s)'
  PROVE  /\ outbox' \in [StatusMessage -> Nat]
         /\ \A m \in StatusMessage : InTransit(m)' => InTransit(m) \/ MessageIsTrue(m)'
<1>1. outbox \in [StatusMessage -> Nat]
  BY DEF IInv, TypeOK
<1>2. /\ Put(outbox, s) \in [StatusMessage -> Nat]
      /\ \A m \in StatusMessage : Put(outbox, s)[m] > 0 => m = s \/ outbox[m] > 0
  BY <1>1, PutFacts
<1> QED
  BY <1>2 DEF InTransit

\* A call moves to its next step and remembers what it knew.
LEMMA GoToFacts ==
  ASSUME TypeOK, NEW cl \in Clients, NEW step \in CallStep, GoTo(cl, step)
  PROVE  /\ calls' \in [Clients -> Call]
         /\ calls'[cl].step = step
         /\ calls'[cl].order = calls[cl].order
         /\ calls'[cl].payment = calls[cl].payment
         /\ calls'[cl].code = calls[cl].code
         /\ \A x \in Clients \ {cl} : calls'[x] = calls[x]
BY DEF TypeOK, GoTo, Call

\* A call returns.
LEMMA ReturnFacts ==
  ASSUME TypeOK, NEW cl \in Clients, Return(cl)
  PROVE  /\ calls' \in [Clients -> Call]
         /\ \A x \in Clients : calls'[x] = calls[x] \/ calls'[x] = IdleCall
BY DEF TypeOK, Return, IdleCall, Call, CallStep

\* A call starts.
LEMMA StartFacts ==
  ASSUME IInv, NEW cl \in Clients, NEW call \in Call, StartCall(cl, call), CallFits(call)'
  PROVE  Preserved
<1>1. TypeOK'
  BY BoundsAssumption DEF IInv, TypeOK, StartCall, data, queues, history
<1>2. Grow /\ NeverReopened /\ RowsFit'
  BY RowsQuiet DEF StartCall, data, history
<1>3. \A x \in Clients : CallFits(calls[x])'
  <2>1. calls'[cl] = call /\ \A x \in Clients \ {cl} : calls'[x] = calls[x]
    BY DEF IInv, TypeOK, StartCall
  <2>2. CallFits(calls[cl])'
    BY <2>1 DEF CallFits
  <2> QED
    BY <1>2, <2>1, <2>2, CallsKept DEF IInv
<1>4. \A w \in Workers : DeliveryFits(deliveries[w])'
  BY <1>2, DeliveriesKept DEF IInv, StartCall
<1>5. NewsIsTrue'
  BY <1>2, NewsQuiet DEF StartCall, queues
<1> QED
  BY <1>1, <1>2, <1>3, <1>4, <1>5 DEF Preserved, IInv, WorkFitsRows

\* validatePayment: the call that moves keeps its order, code and payment, which
\* the lookup made fit; only the commit writes a row, and only a committed
\* success is announced.
LEMMA ValidateSteps ==
  ASSUME IInv, NEW cl \in Clients,
         \/ ReadCode(cl) \/ DiscardCode(cl) \/ SpendCode(cl) \/ CheckPending(cl)
         \/ CommitPayment(cl) \/ ValidationFault(cl)
  PROVE  Preserved
<1> USE DEF IInv
<1>a. CallFits(calls[cl])
  BY DEF WorkFitsRows
<1>b. \A type \in {"SUCCESS", "FAILED"} : calls[cl].step \in {"readCode", "discard", "spend", "check", "commit"} =>
        /\ Status(type, calls[cl].order, calls[cl].payment) \in StatusMessage
        /\ Status(type, calls[cl].order, calls[cl].payment).type = type
        /\ Status(type, calls[cl].order, calls[cl].payment).orderId = calls[cl].order
        /\ Status(type, calls[cl].order, calls[cl].payment).paymentId = calls[cl].payment
  BY <1>a, StatusFacts DEF CallFits
<1>1. ASSUME ReadCode(cl)
      PROVE  Preserved
  <2>1. TypeOK'
    BY <1>1, GoToFacts, ReturnFacts
       DEF TypeOK, ReadCode, CallStep, data, queues, history, budget
  <2>2. Grow /\ NeverReopened /\ RowsFit'
    BY <1>1, RowsQuiet DEF ReadCode, data, history
  <2>3. \A x \in Clients : CallFits(calls[x])'
    <3>1. CASE Return(cl)
      BY <2>2, <3>1, ReturnFacts, CallsKept
    <3>2. ASSUME NEW step \in {"discard", "spend"}, GoTo(cl, step)
          PROVE  \A x \in Clients : CallFits(calls[x])'
      <4>1. CallFits(calls[cl])'
        BY <1>1, <1>a, <2>2, <3>2, GoToFacts, OrdersNotNone
           DEF CallFits, CallStep, Grow, ReadCode
      <4> QED
        BY <2>2, <3>2, <4>1, GoToFacts, CallsKept DEF CallStep
    <3> QED
      BY <1>1, <3>1, <3>2 DEF ReadCode
  <2>4. \A v \in Workers : DeliveryFits(deliveries[v])'
    BY <1>1, <2>2, DeliveriesKept DEF IInv, ReadCode
  <2>5. NewsIsTrue'
    BY <1>1, <2>2, NewsQuiet DEF ReadCode, queues
  <2> QED
    BY <2>1, <2>2, <2>3, <2>4, <2>5 DEF Preserved, IInv, WorkFitsRows
<1>2. ASSUME DiscardCode(cl)
      PROVE  Preserved
  <2>1. TypeOK'
    BY <1>2, ReturnFacts DEF TypeOK, DiscardCode, DeleteCode, queues, history, budget
  <2>2. Grow /\ NeverReopened /\ RowsFit'
    BY <1>2, RowsQuiet DEF DiscardCode, history
  <2>3. \A x \in Clients : CallFits(calls[x])'
    BY <1>2, <2>2, ReturnFacts, CallsKept DEF DiscardCode
  <2>4. \A v \in Workers : DeliveryFits(deliveries[v])'
    BY <1>2, <2>2, DeliveriesKept DEF IInv, DiscardCode
  <2>5. NewsIsTrue'
    BY <1>2, <2>2, NewsQuiet DEF DiscardCode, queues
  <2> QED
    BY <2>1, <2>2, <2>3, <2>4, <2>5 DEF Preserved, IInv, WorkFitsRows
<1>3. ASSUME SpendCode(cl)
      PROVE  Preserved
  <2>1. TypeOK'
    <3>1. accepted' \in [Codes -> Nat]
      BY <1>3, <1>a DEF TypeOK, SpendCode, CallFits
    <3>2. codes' \in [Codes -> {"absent", "live", "stale"}]
      BY <1>3 DEF TypeOK, SpendCode, DeleteCode
    <3>3. calls' \in [Clients -> Call]
      BY <1>3, GoToFacts DEF SpendCode, CallStep
    <3> QED
      BY <1>3, <3>1, <3>2, <3>3 DEF TypeOK, SpendCode, queues, budget
  <2>2. Grow /\ NeverReopened /\ RowsFit'
    BY <1>3, RowsQuiet DEF SpendCode
  <2>3. \A x \in Clients : CallFits(calls[x])'
    <3>1. CallFits(calls[cl])'
      BY <1>3, <1>a, <2>2, GoToFacts, OrdersNotNone DEF CallFits, CallStep, Grow, SpendCode
    <3> QED
      BY <1>3, <2>2, <3>1, GoToFacts, CallsKept DEF CallStep, SpendCode
  <2>4. \A v \in Workers : DeliveryFits(deliveries[v])'
    BY <1>3, <2>2, DeliveriesKept DEF IInv, SpendCode
  <2>5. NewsIsTrue'
    BY <1>3, <2>2, NewsQuiet DEF SpendCode, queues
  <2> QED
    BY <2>1, <2>2, <2>3, <2>4, <2>5 DEF Preserved, IInv, WorkFitsRows
<1>4. ASSUME CheckPending(cl)
      PROVE  Preserved
  <2>1. TypeOK'
    <3>1. outbox' \in [StatusMessage -> Nat]
      BY <1>4, <1>b, PutFacts DEF TypeOK, CheckPending, ReportFailure
    <3>2. calls' \in [Clients -> Call]
      BY <1>4, GoToFacts, ReturnFacts DEF CheckPending, ReportFailure, CallStep
    <3> QED
      BY <1>4, <3>1, <3>2 DEF TypeOK, CheckPending, data, queues, history, budget
  <2>2. Grow /\ NeverReopened /\ RowsFit'
    BY <1>4, RowsQuiet DEF CheckPending, data, history
  <2>3. \A x \in Clients : CallFits(calls[x])'
    <3>1. CASE Return(cl)
      BY <2>2, <3>1, ReturnFacts, CallsKept
    <3>2. CASE GoTo(cl, "commit")
      <4>1. CallFits(calls[cl])'
        BY <1>4, <1>a, <2>2, <3>2, GoToFacts, OrdersNotNone
           DEF CallFits, CallStep, Grow, CheckPending, ReportFailure
      <4> QED
        BY <2>2, <3>2, <4>1, GoToFacts, CallsKept DEF CallStep
    <3> QED
      BY <1>4, <3>1, <3>2 DEF CheckPending, ReportFailure
  <2>4. \A v \in Workers : DeliveryFits(deliveries[v])'
    BY <1>4, <2>2, DeliveriesKept DEF IInv, CheckPending
  <2>5. NewsIsTrue'
    <3>1. CASE outbox' = outbox
      BY <1>4, <2>2, <3>1, NewsQuiet DEF CheckPending, queues
    <3>2. CASE ReportFailure(cl)
      <4>1. PICK s \in StatusMessage :
              /\ outbox' = Put(outbox, s)
              /\ s.type = "FAILED" /\ s.orderId = calls[cl].order /\ s.paymentId = calls[cl].payment
        BY <1>4, <1>b, <3>2 DEF ReportFailure, CheckPending
      <4>2. MessageIsTrue(s)'
        BY <1>4, <1>a, <2>2, <4>1, OrdersNotNone DEF MessageIsTrue, CallFits, Grow, CheckPending
      <4>3. \A m \in StatusMessage : InTransit(m)' => InTransit(m) \/ MessageIsTrue(m)'
        BY <1>4, <2>2, <4>1, <4>2, StatusAnnounced DEF CheckPending, queues
      <4> QED
        BY <1>4, <2>2, <4>3, TrueNews DEF CheckPending, queues
    <3> QED
      BY <1>4, <3>1, <3>2 DEF CheckPending
  <2> QED
    BY <2>1, <2>2, <2>3, <2>4, <2>5 DEF Preserved, IInv, WorkFitsRows
<1>5. ASSUME CommitPayment(cl)
      PROVE  Preserved
  <2>1. TypeOK'
    <3>1. calls[cl].order \in Orders /\ calls[cl].payment \in Payments
      BY <1>5, <1>a DEF CommitPayment, CallFits
    <3>2. outbox' \in [StatusMessage -> Nat] /\ mailOutbox' \in [Orders -> Nat]
      BY <1>5, <1>b, <3>1, PutFacts DEF TypeOK, CommitPayment
    <3>3. payments' \in [Payments -> Row]
      BY <1>5, <3>1 DEF TypeOK, CommitPayment, CompletedRow, Row, PaymentStatus
    <3>4. calls' \in [Clients -> Call]
      BY <1>5, ReturnFacts DEF CommitPayment
    <3> QED
      BY <1>5, <3>1, <3>2, <3>3, <3>4 DEF TypeOK, CommitPayment, queues, budget
  <2>2. Grow /\ NeverReopened /\ RowsFit'
    BY <1>5, <1>a, OrdersNotNone
       DEF TypeOK, WorkFitsRows, RowsFit, CallFits, Grow, NeverReopened,
       CommitPayment, CompletedRow
  <2>3. \A x \in Clients : CallFits(calls[x])'
    BY <1>5, <2>2, ReturnFacts, CallsKept DEF CommitPayment
  <2>4. \A v \in Workers : DeliveryFits(deliveries[v])'
    BY <1>5, <2>2, DeliveriesKept DEF IInv, CommitPayment
  <2>5. NewsIsTrue'
    <3>1. /\ calls[cl].order \in Orders /\ calls[cl].payment \in Payments
          /\ payments'[calls[cl].payment].orderId = calls[cl].order
          /\ calls[cl].payment \in completed'
      BY <1>5, <1>a DEF TypeOK, CallFits, CommitPayment, CompletedRow
    <3>2. PICK s \in StatusMessage :
            /\ outbox' = Put(outbox, s)
            /\ s.type = "SUCCESS" /\ s.orderId = calls[cl].order /\ s.paymentId = calls[cl].payment
      BY <1>5, <1>b DEF CommitPayment
    <3>3. \A m \in StatusMessage : InTransit(m)' => InTransit(m) \/ MessageIsTrue(m)'
      <4>1. MessageIsTrue(s)'
        BY <3>1, <3>2 DEF MessageIsTrue
      <4> QED
        BY <1>5, <2>2, <3>2, <4>1, StatusAnnounced DEF CommitPayment, queues
    <3>4. PICK o \in Orders : o = calls[cl].order
      BY <3>1
    <3>5. MailIsTrue(o)'
      BY <3>1, <3>4 DEF MailIsTrue
    <3>6. \A n \in Orders : mailOutbox'[n] > 0 => n = o \/ mailOutbox[n] > 0
      BY <1>5, <3>4, PutFacts DEF TypeOK, CommitPayment
    <3> QED
      BY <1>5, <2>2, <3>3, <3>5, <3>6, TrueNews DEF CommitPayment, queues
  <2> QED
    BY <2>1, <2>2, <2>3, <2>4, <2>5 DEF Preserved, IInv, WorkFitsRows
<1>6. ASSUME ValidationFault(cl)
      PROVE  Preserved
  <2>1. TypeOK'
    <3>1. outbox' \in [StatusMessage -> Nat]
      BY <1>6, <1>b, PutFacts DEF TypeOK, ValidationFault, ReportFailure
    <3>2. calls' \in [Clients -> Call]
      BY <1>6, ReturnFacts DEF ValidationFault, ReportFailure
    <3>3. codes' \in [Codes -> {"absent", "live", "stale"}]
      BY <1>6 DEF TypeOK, ValidationFault, DeleteCode, data
    <3>4. payments' \in [Payments -> Row] /\ completed' \subseteq Payments
      BY <1>6, <1>a
         DEF TypeOK, ValidationFault, CallFits, CompletedRow, Row, PaymentStatus, data
    <3>5. faults' \in 0..MaxFaults
      BY <1>6, BoundsAssumption DEF TypeOK, ValidationFault, Fault
    <3>6. lost' \subseteq StatusMessage
      BY <1>6, <1>b DEF TypeOK, ValidationFault
    <3> QED
      BY <1>6, <3>1, <3>2, <3>3, <3>4, <3>5, <3>6 DEF TypeOK, ValidationFault, queues
  <2>2. Grow /\ NeverReopened /\ RowsFit'
    <3>1. CASE UNCHANGED <<payments, completed>>
      BY <3>1, RowsQuiet
    <3>2. CASE /\ calls[cl].step = "commit"
               /\ payments' = [payments EXCEPT ![calls[cl].payment] = CompletedRow(calls[cl])]
               /\ completed' = completed \cup {calls[cl].payment}
      BY <1>a, <3>2, OrdersNotNone
         DEF TypeOK, WorkFitsRows, RowsFit, CallFits, Grow, NeverReopened, CompletedRow
    <3> QED
      BY <1>6, <3>1, <3>2 DEF ValidationFault, data
  <2>3. \A x \in Clients : CallFits(calls[x])'
    BY <1>6, <2>2, ReturnFacts, CallsKept DEF ValidationFault, ReportFailure
  <2>4. \A v \in Workers : DeliveryFits(deliveries[v])'
    BY <1>6, <2>2, DeliveriesKept DEF IInv, ValidationFault
  <2>5. NewsIsTrue'
    <3>1. CASE outbox' = outbox
      BY <1>6, <2>2, <3>1, NewsQuiet DEF ValidationFault, queues
    <3>2. CASE ReportFailure(cl)
      <4>1. PICK s \in StatusMessage :
              /\ outbox' = Put(outbox, s)
              /\ s.type = "FAILED" /\ s.orderId = calls[cl].order /\ s.paymentId = calls[cl].payment
        BY <1>6, <1>b, <3>2 DEF ReportFailure, ValidationFault
      <4>2. MessageIsTrue(s)'
        BY <1>6, <1>a, <2>2, <4>1, OrdersNotNone
           DEF MessageIsTrue, CallFits, Grow, ValidationFault
      <4>3. \A m \in StatusMessage : InTransit(m)' => InTransit(m) \/ MessageIsTrue(m)'
        BY <1>6, <2>2, <4>1, <4>2, StatusAnnounced DEF ValidationFault, queues
      <4> QED
        BY <1>6, <2>2, <4>3, TrueNews DEF ValidationFault, queues
    <3> QED
      BY <1>6, <3>1, <3>2 DEF ValidationFault
  <2> QED
    BY <2>1, <2>2, <2>3, <2>4, <2>5 DEF Preserved, IInv, WorkFitsRows
<1> QED
  BY <1>1, <1>2, <1>3, <1>4, <1>5, <1>6

\* A call begins: the row that a lookup found belongs to the order it was asked
\* for.
LEMMA BeginSteps ==
  ASSUME IInv, NEW cl \in Clients, Begin(cl)
  PROVE  Preserved
<1>1. ASSUME NEW o \in Orders, NEW c \in Codes, Lookup(cl, o, c)
      PROVE  Preserved
  <2>1. PICK p \in Payments :
          /\ payments[p].orderId = o
          /\ StartCall(cl, [step |-> "readCode", order |-> o, payment |-> p, code |-> c])
    BY <1>1 DEF Lookup
  <2>2. [step |-> "readCode", order |-> o, payment |-> p, code |-> c] \in Call
    BY DEF Call, CallStep
  <2>3. CallFits([step |-> "readCode", order |-> o, payment |-> p, code |-> c])'
    BY <2>1 DEF CallFits, StartCall, data
  <2> QED
    BY <2>1, <2>2, <2>3, StartFacts
<1>2. ASSUME NEW p \in Payments, NEW step \in {"cancelRead", "refundRead"}, RequestChange(cl, step, p)
      PROVE  Preserved
  <2>1. [step |-> step, order |-> None, payment |-> p, code |-> None] \in Call
    BY DEF Call, CallStep
  <2>2. CallFits([step |-> step, order |-> None, payment |-> p, code |-> None])'
    BY DEF CallFits
  <2> QED
    BY <1>2, <2>1, <2>2, StartFacts DEF RequestChange
<1> QED
  BY <1>1, <1>2 DEF Begin

\* cancelPayment and refundPayment: their writes rely on a read that may be old,
\* but they write to a row that exists, and a refund to one that was completed.
LEMMA ChangeSteps ==
  ASSUME IInv, NEW cl \in Clients,
         CancelRead(cl) \/ CancelWrite(cl) \/ RefundRead(cl) \/ RefundWrite(cl) \/ ChangeFault(cl)
  PROVE  Preserved
<1> USE DEF IInv
<1>a. CallFits(calls[cl])
  BY DEF WorkFitsRows
<1>1. ASSUME CancelRead(cl)
      PROVE  Preserved
  <2>1. TypeOK'
    BY <1>1, GoToFacts, ReturnFacts
       DEF TypeOK, CancelRead, CheckedRead, CallStep, data, queues, history, budget
  <2>2. Grow /\ NeverReopened /\ RowsFit'
    BY <1>1, RowsQuiet DEF CancelRead, CheckedRead, data, history
  <2>3. \A x \in Clients : CallFits(calls[x])'
    <3>1. CASE Return(cl)
      BY <2>2, <3>1, ReturnFacts, CallsKept
    <3>2. CASE GoTo(cl, "cancelWrite") /\ payments[calls[cl].payment].status \in Cancellable
      <4>1. CallFits(calls[cl])'
        BY <1>1, <1>a, <2>2, <3>2, GoToFacts, OrdersNotNone
           DEF TypeOK, WorkFitsRows, RowsFit, CallFits, CallStep, Grow, CancelRead,
               CheckedRead, Cancellable, data, history
      <4> QED
        BY <2>2, <3>2, <4>1, GoToFacts, CallsKept DEF CallStep
    <3> QED
      BY <1>1, <3>1, <3>2 DEF CancelRead, CheckedRead
  <2>4. \A v \in Workers : DeliveryFits(deliveries[v])'
    BY <1>1, <2>2, DeliveriesKept DEF IInv, CancelRead, CheckedRead
  <2>5. NewsIsTrue'
    BY <1>1, <2>2, NewsQuiet DEF CancelRead, CheckedRead, queues
  <2> QED
    BY <2>1, <2>2, <2>3, <2>4, <2>5 DEF Preserved, IInv, WorkFitsRows
<1>2. ASSUME RefundRead(cl)
      PROVE  Preserved
  <2>1. TypeOK'
    BY <1>2, GoToFacts, ReturnFacts
       DEF TypeOK, RefundRead, CheckedRead, CallStep, data, queues, history, budget
  <2>2. Grow /\ NeverReopened /\ RowsFit'
    BY <1>2, RowsQuiet DEF RefundRead, CheckedRead, data, history
  <2>3. \A x \in Clients : CallFits(calls[x])'
    <3>1. CASE Return(cl)
      BY <2>2, <3>1, ReturnFacts, CallsKept
    <3>2. CASE GoTo(cl, "refundWrite") /\ payments[calls[cl].payment].status \in Refundable
      <4>1. CallFits(calls[cl])'
        BY <1>2, <1>a, <2>2, <3>2, GoToFacts, OrdersNotNone
           DEF TypeOK, WorkFitsRows, RowsFit, CallFits, CallStep, Grow, RefundRead,
               CheckedRead, Refundable, data, history
      <4> QED
        BY <2>2, <3>2, <4>1, GoToFacts, CallsKept DEF CallStep
    <3> QED
      BY <1>2, <3>1, <3>2 DEF RefundRead, CheckedRead
  <2>4. \A v \in Workers : DeliveryFits(deliveries[v])'
    BY <1>2, <2>2, DeliveriesKept DEF IInv, RefundRead, CheckedRead
  <2>5. NewsIsTrue'
    BY <1>2, <2>2, NewsQuiet DEF RefundRead, CheckedRead, queues
  <2> QED
    BY <2>1, <2>2, <2>3, <2>4, <2>5 DEF Preserved, IInv, WorkFitsRows
<1>3. ASSUME CancelWrite(cl)
      PROVE  Preserved
  <2>1. TypeOK'
    <3>1. payments' \in [Payments -> Row]
      BY <1>3 DEF TypeOK, CancelWrite, WriteBack, SetStatus, Row, PaymentStatus
    <3> QED
      BY <1>3, <3>1, ReturnFacts DEF TypeOK, CancelWrite, WriteBack, queues, history, budget
  <2>2. Grow /\ NeverReopened /\ RowsFit'
    BY <1>3, <1>a, OrdersNotNone
       DEF TypeOK, WorkFitsRows, RowsFit, CallFits, Grow, NeverReopened, CancelWrite,
           WriteBack, SetStatus, Row, history
  <2>3. \A x \in Clients : CallFits(calls[x])'
    BY <1>3, <2>2, ReturnFacts, CallsKept DEF CancelWrite, WriteBack
  <2>4. \A v \in Workers : DeliveryFits(deliveries[v])'
    BY <1>3, <2>2, DeliveriesKept DEF IInv, CancelWrite, WriteBack
  <2>5. NewsIsTrue'
    BY <1>3, <2>2, NewsQuiet DEF CancelWrite, WriteBack, queues
  <2> QED
    BY <2>1, <2>2, <2>3, <2>4, <2>5 DEF Preserved, IInv, WorkFitsRows
<1>4. ASSUME RefundWrite(cl)
      PROVE  Preserved
  <2>1. TypeOK'
    <3>1. payments' \in [Payments -> Row]
      BY <1>4 DEF TypeOK, RefundWrite, WriteBack, SetStatus, Row, PaymentStatus
    <3> QED
      BY <1>4, <3>1, ReturnFacts DEF TypeOK, RefundWrite, WriteBack, queues, history, budget
  <2>2. Grow /\ NeverReopened /\ RowsFit'
    BY <1>4, <1>a, OrdersNotNone
       DEF TypeOK, WorkFitsRows, RowsFit, CallFits, Grow, NeverReopened, RefundWrite,
           WriteBack, SetStatus, Row, history
  <2>3. \A x \in Clients : CallFits(calls[x])'
    BY <1>4, <2>2, ReturnFacts, CallsKept DEF RefundWrite, WriteBack
  <2>4. \A v \in Workers : DeliveryFits(deliveries[v])'
    BY <1>4, <2>2, DeliveriesKept DEF IInv, RefundWrite, WriteBack
  <2>5. NewsIsTrue'
    BY <1>4, <2>2, NewsQuiet DEF RefundWrite, WriteBack, queues
  <2> QED
    BY <2>1, <2>2, <2>3, <2>4, <2>5 DEF Preserved, IInv, WorkFitsRows
<1>5. ASSUME ChangeFault(cl)
      PROVE  Preserved
  <2>1. TypeOK'
    <3>1. payments' \in [Payments -> Row]
      BY <1>5 DEF TypeOK, ChangeFault, SetStatus, Row, PaymentStatus
    <3>2. faults' \in 0..MaxFaults
      BY <1>5, BoundsAssumption DEF TypeOK, ChangeFault, Fault
    <3> QED
      BY <1>5, <3>1, <3>2, ReturnFacts DEF TypeOK, ChangeFault, queues, history
  <2>2. Grow /\ NeverReopened /\ RowsFit'
    <3>1. CASE UNCHANGED payments
      BY <1>5, <3>1, RowsQuiet DEF ChangeFault, history
    <3>2. CASE calls[cl].step = "cancelWrite" /\ SetStatus(cl, "CANCELLED")
      BY <1>5, <1>a, <3>2, OrdersNotNone
         DEF TypeOK, WorkFitsRows, RowsFit, CallFits, Grow, NeverReopened, ChangeFault,
             SetStatus, Row, history
    <3>3. CASE calls[cl].step = "refundWrite" /\ SetStatus(cl, "REFUNDED")
      BY <1>5, <1>a, <3>3, OrdersNotNone
         DEF TypeOK, WorkFitsRows, RowsFit, CallFits, Grow, NeverReopened, ChangeFault,
             SetStatus, Row, history
    <3> QED
      BY <1>5, <3>1, <3>2, <3>3 DEF ChangeFault
  <2>3. \A x \in Clients : CallFits(calls[x])'
    BY <1>5, <2>2, ReturnFacts, CallsKept DEF ChangeFault
  <2>4. \A v \in Workers : DeliveryFits(deliveries[v])'
    BY <1>5, <2>2, DeliveriesKept DEF IInv, ChangeFault
  <2>5. NewsIsTrue'
    BY <1>5, <2>2, NewsQuiet DEF ChangeFault, queues
  <2> QED
    BY <2>1, <2>2, <2>3, <2>4, <2>5 DEF Preserved, IInv, WorkFitsRows
<1> QED
  BY <1>1, <1>2, <1>3, <1>4, <1>5

\* The consumer of order_request_queue: it opens rows of its own, so the rows
\* that others hold on to keep their orders.
LEMMA ConsumerSteps ==
  ASSUME IInv, NEW w \in Workers,
         \/ \E o \in Orders : Deliver(w, o)
         \/ IssueCode(w) \/ CreateRow(w) \/ ReportPending(w) \/ AckRequest(w) \/ NackRequest(w)
  PROVE  Preserved
<1> USE DEF IInv
<1>a. DeliveryFits(deliveries[w])
  BY DEF WorkFitsRows
<1>1. ASSUME NEW o \in Orders, Deliver(w, o)
      PROVE  Preserved
  <2>1. TypeOK'
    BY <1>1 DEF TypeOK, Deliver, Delivery, data, history, budget
  <2>2. Grow /\ NeverReopened /\ RowsFit'
    BY <1>1, RowsQuiet DEF Deliver, data, history
  <2>3. \A x \in Clients : CallFits(calls[x])'
    BY <1>1, <2>2, CallsKept DEF IInv, Deliver
  <2>4. \A v \in Workers : DeliveryFits(deliveries[v])'
    <3>1. DeliveryFits(deliveries[w])'
      BY <1>1, <1>a, <2>2, OrdersNotNone DEF TypeOK, DeliveryFits, Delivery, Grow, Deliver
    <3>2. \A v \in Workers \ {w} : deliveries'[v] = deliveries[v]
      BY <1>1 DEF TypeOK, Deliver
    <3> QED
      BY <2>2, <3>1, <3>2, DeliveriesKept
  <2>5. NewsIsTrue'
    BY <1>1, <2>2, NewsQuiet DEF Deliver
  <2> QED
    BY <2>1, <2>2, <2>3, <2>4, <2>5 DEF Preserved, IInv, WorkFitsRows
<1>2. ASSUME IssueCode(w)
      PROVE  Preserved
  <2>1. TypeOK'
    <3>1. codes' \in [Codes -> {"absent", "live", "stale"}] /\ accepted' \in [Codes -> Nat]
      BY <1>2 DEF TypeOK, IssueCode, StoreCode
    <3>2. deliveries' \in [Workers -> Delivery]
      BY <1>2 DEF TypeOK, IssueCode, Delivery
    <3> QED
      BY <1>2, <3>1, <3>2 DEF TypeOK, IssueCode, queues, budget
  <2>2. Grow /\ NeverReopened /\ RowsFit'
    BY <1>2, RowsQuiet DEF IssueCode
  <2>3. \A x \in Clients : CallFits(calls[x])'
    BY <1>2, <2>2, CallsKept DEF IInv, IssueCode
  <2>4. \A v \in Workers : DeliveryFits(deliveries[v])'
    <3>1. DeliveryFits(deliveries[w])'
      BY <1>2, <1>a, <2>2, OrdersNotNone DEF TypeOK, DeliveryFits, Delivery, Grow, IssueCode
    <3>2. \A v \in Workers \ {w} : deliveries'[v] = deliveries[v]
      BY <1>2 DEF TypeOK, IssueCode
    <3> QED
      BY <2>2, <3>1, <3>2, DeliveriesKept
  <2>5. NewsIsTrue'
    BY <1>2, <2>2, NewsQuiet DEF IssueCode, queues
  <2> QED
    BY <2>1, <2>2, <2>3, <2>4, <2>5 DEF Preserved, IInv, WorkFitsRows
<1>3. ASSUME NEW p \in Payments,
             deliveries[w].step = "createRow",
             InsertRow(p, deliveries[w].order),
             deliveries' = [deliveries EXCEPT ![w].step = "report", ![w].payment = p],
             UNCHANGED <<codes, calls, outbox, mailOutbox, queues, history, budget>>
      PROVE  Preserved
  <2>1. TypeOK'
    <3>1. deliveries[w].order \in Orders
      BY <1>3, <1>a DEF DeliveryFits
    <3>2. payments' \in [Payments -> Row]
      BY <1>3, <3>1 DEF TypeOK, InsertRow, Row, PaymentStatus
    <3>3. deliveries' \in [Workers -> Delivery]
      <4>1. deliveries \in [Workers -> Delivery]
        BY DEF TypeOK
      <4>2. [deliveries[w] EXCEPT !.step = "report", !.payment = p] \in Delivery
        BY <4>1 DEF Delivery
      <4> QED
        BY <1>3, <4>1, <4>2
    <3> QED
      BY <1>3, <3>2, <3>3 DEF TypeOK, queues, history, budget
  <2>2. Grow /\ NeverReopened /\ RowsFit'
    <3>1. deliveries[w].order \in Orders /\ payments[p].orderId = None
      BY <1>3, <1>a DEF WorkFitsRows, RowsFit, DeliveryFits, InsertRow
    <3>2. /\ payments'[p] = [status |-> "PENDING", orderId |-> deliveries[w].order]
          /\ \A q \in Payments \ {p} : payments'[q] = payments[q]
      BY <1>3 DEF TypeOK, InsertRow
    <3> QED
      BY <1>3, <3>1, <3>2, OrdersNotNone
         DEF WorkFitsRows, RowsFit, Grow, NeverReopened, InsertRow, history
  <2>3. \A x \in Clients : CallFits(calls[x])'
    BY <1>3, <2>2, CallsKept
  <2>4. \A v \in Workers : DeliveryFits(deliveries[v])'
    <3>1. /\ deliveries'[w].step = "report"
          /\ deliveries'[w].order = deliveries[w].order
          /\ deliveries'[w].payment = p
          /\ \A v \in Workers \ {w} : deliveries'[v] = deliveries[v]
      BY <1>3 DEF TypeOK, Delivery
    <3>2. payments'[p].orderId = deliveries[w].order
      BY <1>3 DEF TypeOK, InsertRow
    <3>3. DeliveryFits(deliveries[w])'
      BY <1>3, <1>a, <3>1, <3>2 DEF DeliveryFits
    <3> QED
      BY <2>2, <3>1, <3>3, DeliveriesKept
  <2>5. NewsIsTrue'
    BY <1>3, <2>2, NewsQuiet DEF queues
  <2> QED
    BY <2>1, <2>2, <2>3, <2>4, <2>5 DEF Preserved, IInv, WorkFitsRows
<1>4. ASSUME ReportPending(w)
      PROVE  Preserved
  <2>a. deliveries[w].order \in Orders /\ deliveries[w].payment \in Payments
    BY <1>4, <1>a DEF ReportPending, DeliveryFits
  <2>b. PICK s \in StatusMessage :
          /\ Publish(s)
          /\ s.type = "PENDING" /\ s.orderId = deliveries[w].order /\ s.paymentId = deliveries[w].payment
    BY <1>4, <2>a, StatusFacts DEF ReportPending
  <2>1. TypeOK'
    <3>1. /\ statusQueue' \in [StatusMessage -> Nat] /\ lost' \subseteq StatusMessage
          /\ faults' \in 0..MaxFaults
      BY <2>b, PublishFacts
    <3>2. deliveries' \in [Workers -> Delivery]
      BY <1>4 DEF TypeOK, ReportPending, Delivery
    <3> QED
      BY <1>4, <3>1, <3>2 DEF TypeOK, ReportPending, data
  <2>2. Grow /\ NeverReopened /\ RowsFit'
    BY <1>4, RowsQuiet DEF ReportPending, data
  <2>3. \A x \in Clients : CallFits(calls[x])'
    BY <1>4, <2>2, CallsKept DEF IInv, ReportPending
  <2>4. \A v \in Workers : DeliveryFits(deliveries[v])'
    <3>1. DeliveryFits(deliveries[w])'
      BY <1>4, <1>a, <2>2, OrdersNotNone DEF TypeOK, DeliveryFits, Delivery, Grow, ReportPending
    <3>2. \A v \in Workers \ {w} : deliveries'[v] = deliveries[v]
      BY <1>4 DEF TypeOK, ReportPending
    <3> QED
      BY <2>2, <3>1, <3>2, DeliveriesKept
  <2>5. NewsIsTrue'
    <3>1. MessageIsTrue(s)'
      BY <1>4, <1>a, <2>b DEF MessageIsTrue, DeliveryFits, ReportPending, data
    <3>2. \A m \in StatusMessage : statusQueue'[m] > 0 => m = s \/ statusQueue[m] > 0
      BY <2>b, PublishFacts
    <3>3. \A m \in StatusMessage : InTransit(m)' => InTransit(m) \/ MessageIsTrue(m)'
      BY <1>4, <3>1, <3>2 DEF InTransit, ReportPending
    <3> QED
      BY <1>4, <2>2, <3>3, TrueNews DEF ReportPending
  <2> QED
    BY <2>1, <2>2, <2>3, <2>4, <2>5 DEF Preserved, IInv, WorkFitsRows
<1>5. ASSUME AckRequest(w)
      PROVE  Preserved
  <2>1. TypeOK'
    BY <1>5 DEF TypeOK, AckRequest, NoDelivery, Delivery, data, queues, history, budget
  <2>2. Grow /\ NeverReopened /\ RowsFit'
    BY <1>5, RowsQuiet DEF AckRequest, data, history
  <2>3. \A x \in Clients : CallFits(calls[x])'
    BY <1>5, <2>2, CallsKept DEF IInv, AckRequest
  <2>4. \A v \in Workers : DeliveryFits(deliveries[v])'
    <3>1. \A v \in Workers : deliveries'[v] = deliveries[v] \/ deliveries'[v] = NoDelivery
      BY <1>5 DEF TypeOK, AckRequest
    <3> QED
      BY <2>2, <3>1, DeliveriesKept
  <2>5. NewsIsTrue'
    BY <1>5, <2>2, NewsQuiet DEF AckRequest, queues
  <2> QED
    BY <2>1, <2>2, <2>3, <2>4, <2>5 DEF Preserved, IInv, WorkFitsRows
<1>6. ASSUME NackRequest(w)
      PROVE  Preserved
  <2>1. TypeOK'
    <3>1. deliveries[w].order \in Orders
      BY <1>6, <1>a DEF NackRequest, DeliveryFits
    <3>2. payments' \in [Payments -> Row]
      BY <1>6, <3>1 DEF TypeOK, NackRequest, InsertRow, Row, PaymentStatus, data
    <3>3. codes' \in [Codes -> {"absent", "live", "stale"}] /\ accepted' \in [Codes -> Nat]
      BY <1>6 DEF TypeOK, NackRequest, StoreCode, data
    <3>4. deliveries' \in [Workers -> Delivery]
      BY <1>6 DEF TypeOK, NackRequest, NoDelivery, Delivery
    <3>5. faults' \in 0..MaxFaults
      BY <1>6, BoundsAssumption DEF TypeOK, NackRequest, Fault
    <3> QED
      BY <1>6, <3>1, <3>2, <3>3, <3>4, <3>5 DEF TypeOK, NackRequest
  <2>2. Grow /\ NeverReopened /\ RowsFit'
    <3>1. CASE UNCHANGED payments
      BY <1>6, <3>1, RowsQuiet DEF NackRequest
    <3>2. ASSUME NEW p \in Payments, InsertRow(p, deliveries[w].order), deliveries[w].step = "createRow"
          PROVE  Grow /\ NeverReopened /\ RowsFit'
      BY <1>6, <1>a, <3>2, OrdersNotNone
         DEF TypeOK, WorkFitsRows, RowsFit, DeliveryFits, Grow, NeverReopened, NackRequest,
             InsertRow, Row
    <3> QED
      BY <1>6, <3>1, <3>2 DEF NackRequest, data
  <2>3. \A x \in Clients : CallFits(calls[x])'
    BY <1>6, <2>2, CallsKept DEF IInv, NackRequest
  <2>4. \A v \in Workers : DeliveryFits(deliveries[v])'
    <3>1. \A v \in Workers : deliveries'[v] = deliveries[v] \/ deliveries'[v] = NoDelivery
      BY <1>6 DEF TypeOK, NackRequest
    <3> QED
      BY <2>2, <3>1, DeliveriesKept
  <2>5. NewsIsTrue'
    BY <1>6, <2>2, NewsQuiet DEF NackRequest
  <2> QED
    BY <2>1, <2>2, <2>3, <2>4, <2>5 DEF Preserved, IInv, WorkFitsRows
<1> QED
  BY <1>1, <1>2, <1>3, <1>4, <1>5, <1>6 DEF CreateRow

\* The publications, the passing of time, a crash, and a step of somebody else.
LEMMA OtherSteps ==
  ASSUME IInv,
         \/ \E m \in StatusMessage : PublishStatus(m)
         \/ \E o \in Orders : PublishMail(o)
         \/ \E c \in Codes : AgeCode(c)
         \/ ServiceCrash
         \/ UNCHANGED vars
  PROVE  Preserved
<1> USE DEF IInv
<1>1. ASSUME NEW m \in StatusMessage, PublishStatus(m)
      PROVE  Preserved
  <2>1. TypeOK'
    <3>1. outbox' \in [StatusMessage -> Nat]
      BY <1>1, TakeFacts DEF TypeOK, PublishStatus
    <3>2. /\ statusQueue' \in [StatusMessage -> Nat] /\ lost' \subseteq StatusMessage
          /\ faults' \in 0..MaxFaults
      BY <1>1, PublishFacts DEF PublishStatus
    <3> QED
      BY <1>1, <3>1, <3>2 DEF TypeOK, PublishStatus, data
  <2>2. Grow /\ NeverReopened /\ RowsFit'
    BY <1>1, RowsQuiet DEF PublishStatus, data
  <2>3. \A x \in Clients : CallFits(calls[x])'
    BY <1>1, <2>2, CallsKept DEF IInv, PublishStatus
  <2>4. \A v \in Workers : DeliveryFits(deliveries[v])'
    BY <1>1, <2>2, DeliveriesKept DEF IInv, PublishStatus
  <2>5. NewsIsTrue'
    <3>1. \A n \in StatusMessage : outbox'[n] > 0 => outbox[n] > 0
      BY <1>1, TakeFacts DEF TypeOK, PublishStatus
    <3>2. \A n \in StatusMessage : statusQueue'[n] > 0 => n = m \/ statusQueue[n] > 0
      BY <1>1, PublishFacts DEF PublishStatus
    <3>3. \A n \in StatusMessage : InTransit(n)' => InTransit(n)
      BY <1>1, <3>1, <3>2 DEF InTransit, PublishStatus
    <3> QED
      BY <1>1, <2>2, <3>3, TrueNews DEF PublishStatus
  <2> QED
    BY <2>1, <2>2, <2>3, <2>4, <2>5 DEF Preserved, IInv, WorkFitsRows
<1>2. ASSUME NEW o \in Orders, PublishMail(o)
      PROVE  Preserved
  <2>1. TypeOK'
    <3>1. mailOutbox' \in [Orders -> Nat]
      BY <1>2, TakeFacts DEF TypeOK, PublishMail
    <3>2. mailQueue' \in [Orders -> Nat]
      BY <1>2, PutFacts DEF TypeOK, PublishMail
    <3>3. faults' \in 0..MaxFaults
      BY <1>2, BoundsAssumption DEF TypeOK, PublishMail, Fault
    <3> QED
      BY <1>2, <3>1, <3>2, <3>3 DEF TypeOK, PublishMail, data, history
  <2>2. Grow /\ NeverReopened /\ RowsFit'
    BY <1>2, RowsQuiet DEF PublishMail, data, history
  <2>3. \A x \in Clients : CallFits(calls[x])'
    BY <1>2, <2>2, CallsKept DEF IInv, PublishMail
  <2>4. \A v \in Workers : DeliveryFits(deliveries[v])'
    BY <1>2, <2>2, DeliveriesKept DEF IInv, PublishMail
  <2>5. NewsIsTrue'
    <3>1. \A n \in Orders : mailOutbox'[n] > 0 => mailOutbox[n] > 0
      BY <1>2, TakeFacts DEF TypeOK, PublishMail
    <3>2. \A n \in Orders : mailQueue'[n] > 0 => n = o \/ mailQueue[n] > 0
      BY <1>2, PutFacts DEF TypeOK, PublishMail
    <3>3. \A m \in StatusMessage : InTransit(m)' => InTransit(m)
      BY <1>2 DEF InTransit, PublishMail
    <3>4. mailOutbox[o] > 0
      BY <1>2 DEF PublishMail
    <3> QED
      BY <2>2, <3>1, <3>2, <3>3, <3>4, TrueNews
  <2> QED
    BY <2>1, <2>2, <2>3, <2>4, <2>5 DEF Preserved, IInv, WorkFitsRows
<1>3. ASSUME NEW c \in Codes, AgeCode(c)
      PROVE  Preserved
  <2>1. TypeOK'
    BY <1>3 DEF TypeOK, AgeCode, memory, queues, history, budget
  <2>2. Grow /\ NeverReopened /\ RowsFit'
    BY <1>3, RowsQuiet DEF AgeCode, history
  <2>3. \A x \in Clients : CallFits(calls[x])'
    BY <1>3, <2>2, CallsKept DEF IInv, AgeCode, memory
  <2>4. \A v \in Workers : DeliveryFits(deliveries[v])'
    BY <1>3, <2>2, DeliveriesKept DEF IInv, AgeCode, memory
  <2>5. NewsIsTrue'
    BY <1>3, <2>2, NewsQuiet DEF AgeCode, memory, queues
  <2> QED
    BY <2>1, <2>2, <2>3, <2>4, <2>5 DEF Preserved, IInv, WorkFitsRows
<1>4. ASSUME ServiceCrash
      PROVE  Preserved
  <2>1. TypeOK'
    <3>1. calls' \in [Clients -> Call] /\ deliveries' \in [Workers -> Delivery]
      BY <1>4 DEF ServiceCrash, IdleCall, Call, CallStep, NoDelivery, Delivery
    <3>2. outbox' \in [StatusMessage -> Nat] /\ mailOutbox' \in [Orders -> Nat]
      BY <1>4 DEF ServiceCrash, NoMessages
    <3>3. requestQueue' \subseteq Orders
      BY <1>4 DEF ServiceCrash, Unacknowledged, TypeOK, WorkFitsRows, DeliveryFits
    <3>4. crashes' \in 0..MaxCrashes
      BY <1>4, BoundsAssumption DEF TypeOK, ServiceCrash
    <3>5. lost' \subseteq StatusMessage
      BY <1>4 DEF TypeOK, ServiceCrash
    <3> QED
      BY <1>4, <3>1, <3>2, <3>3, <3>4, <3>5 DEF TypeOK, ServiceCrash, data
  <2>2. Grow /\ NeverReopened /\ RowsFit'
    BY <1>4, RowsQuiet DEF ServiceCrash, data
  <2>3. \A x \in Clients : CallFits(calls[x])'
    BY <1>4, <2>2, CallsKept DEF IInv, ServiceCrash
  <2>4. \A v \in Workers : DeliveryFits(deliveries[v])'
    BY <1>4, <2>2, DeliveriesKept DEF IInv, ServiceCrash
  <2>5. NewsIsTrue'
    <3>1. \A m \in StatusMessage : InTransit(m)' => InTransit(m)
      BY <1>4 DEF InTransit, ServiceCrash, NoMessages
    <3>2. \A o \in Orders : (mailOutbox[o] > 0 \/ mailQueue[o] > 0)' => mailOutbox[o] > 0 \/ mailQueue[o] > 0
      BY <1>4 DEF ServiceCrash, NoMessages
    <3> QED
      BY <2>2, <3>1, <3>2, TrueNews
  <2> QED
    BY <2>1, <2>2, <2>3, <2>4, <2>5 DEF Preserved, IInv, WorkFitsRows
<1>5. ASSUME UNCHANGED vars
      PROVE  Preserved
  <2>1. TypeOK'
    BY <1>5 DEF TypeOK, vars, data, memory, queues, history, budget
  <2>2. Grow /\ NeverReopened /\ RowsFit'
    BY <1>5, RowsQuiet DEF vars, data, memory, queues, history, budget
  <2>3. \A x \in Clients : CallFits(calls[x])'
    BY <1>5, <2>2, CallsKept DEF IInv, vars, data, memory, queues, history, budget
  <2>4. \A v \in Workers : DeliveryFits(deliveries[v])'
    BY <1>5, <2>2, DeliveriesKept DEF IInv, vars, data, memory, queues, history, budget
  <2>5. NewsIsTrue'
    BY <1>5, <2>2, NewsQuiet DEF vars, data, memory, queues, history, budget
  <2> QED
    BY <2>1, <2>2, <2>3, <2>4, <2>5 DEF Preserved, IInv, WorkFitsRows
<1> QED
  BY <1>1, <1>2, <1>3, <1>4, <1>5

\* A step of the service's surroundings: whoever puts requests of orders into its
\* queue, and takes status messages from the other or puts true ones back.
LEMMA SurroundingsKeep ==
  ASSUME IInv, UNCHANGED <<data, memory, mailQueue, history, budget>>,
         requestQueue' \subseteq Orders, statusQueue' \in [StatusMessage -> Nat],
         \A m \in StatusMessage : statusQueue'[m] > 0 => statusQueue[m] > 0 \/ MessageIsTrue(m)
  PROVE  Preserved
<1>1. TypeOK'
  BY DEF IInv, TypeOK, data, memory, history, budget
<1>2. Grow /\ NeverReopened /\ RowsFit'
  BY RowsQuiet DEF data, history
<1>3. \A x \in Clients : CallFits(calls[x])'
  BY <1>2, CallsKept DEF IInv, memory
<1>4. \A v \in Workers : DeliveryFits(deliveries[v])'
  BY <1>2, DeliveriesKept DEF IInv, memory
<1>5. NewsIsTrue'
  <2>1. \A m \in StatusMessage : MessageIsTrue(m) => MessageIsTrue(m)'
    BY <1>2, NewsKept DEF IInv
  <2>2. \A m \in StatusMessage : InTransit(m)' => InTransit(m) \/ MessageIsTrue(m)'
    BY <2>1 DEF InTransit, memory
  <2> QED
    BY <1>2, <2>2, TrueNews DEF IInv, memory
<1> QED
  BY <1>1, <1>2, <1>3, <1>4, <1>5 DEF Preserved, IInv, WorkFitsRows

-----------------------------------------------------------------------------
(***************************************************************************)
(* Theorems                                                                *)
(***************************************************************************)
\* The invariant holds of an empty database and a process that has just started,
\* whatever requests it finds.
LEMMA InitEstablishes ==
  ASSUME ServiceInit, requestQueue \subseteq Orders, statusQueue = NoMessages(StatusMessage)
  PROVE  IInv
<1> USE DEF ServiceInit
<1>1. TypeOK
  BY BoundsAssumption
     DEF TypeOK, NoRow, Row, IdleCall, Call, CallStep, NoDelivery, Delivery, NoMessages
<1>2. WorkFitsRows
  BY OrdersNotNone
     DEF WorkFitsRows, RowsFit, CallFits, DeliveryFits, NoRow, IdleCall, NoDelivery
<1>3. NewsIsTrue
  BY DEF NewsIsTrue, InTransit, NoMessages
<1> QED
  BY <1>1, <1>2, <1>3 DEF IInv

\* Every step keeps the invariant and reopens no row.
LEMMA NextPreserves == IInv /\ [Next]_vars => Preserved
<1> SUFFICES ASSUME IInv, [Next]_vars PROVE Preserved
  OBVIOUS
<1>1. ASSUME NEW cl \in Clients, Begin(cl) \/ Continue(cl) \/ Fail(cl)
      PROVE  Preserved
  BY <1>1, BeginSteps, ValidateSteps, ChangeSteps DEF Continue, Fail
<1>2. ASSUME NEW w \in Workers, (\E o \in Orders : Deliver(w, o)) \/ Consume(w) \/ NackRequest(w)
      PROVE  Preserved
  BY <1>2, ConsumerSteps DEF Consume
<1>3. CASE \/ \E m \in StatusMessage : PublishStatus(m)
           \/ \E o \in Orders : PublishMail(o)
           \/ \E c \in Codes : AgeCode(c)
           \/ ServiceCrash
  BY <1>3, OtherSteps
<1>4. CASE Rest \/ UNCHANGED vars
  BY <1>4, OtherSteps DEF Rest
<1> QED
  BY <1>1, <1>2, <1>3, <1>4 DEF Next, ServiceNext

\* The orders the service has heard of and not forgotten.
Knows(o) ==
  \/ o \in requestQueue
  \/ \E w \in Workers : deliveries[w].step # "idle" /\ deliveries[w].order = o
  \/ \E p \in Payments : payments[p].orderId = o

\* The service hears of an order from its queue only: no step makes one up.
LEMMA NoOrderInvented == IInv /\ [Next]_vars => \A o \in Orders : Knows(o)' => Knows(o)
<1> SUFFICES ASSUME IInv, [Next]_vars, NEW o \in Orders, Knows(o)' PROVE Knows(o)
  OBVIOUS
<1>1. ASSUME NEW cl \in Clients, Begin(cl) \/ Continue(cl) \/ Fail(cl)
      PROVE  Knows(o)
  <2>1. UNCHANGED <<requestQueue, deliveries>>
    BY <1>1
       DEF Begin, Lookup, RequestChange, StartCall, Continue, Fail, ReadCode, DiscardCode,
           SpendCode, CheckPending, CommitPayment, ValidationFault, CancelRead, CancelWrite,
           RefundRead, RefundWrite, CheckedRead, WriteBack, ChangeFault, queues
  <2>2. \/ UNCHANGED payments
        \/ /\ calls[cl].step = "commit"
           /\ payments' = [payments EXCEPT ![calls[cl].payment] = CompletedRow(calls[cl])]
        \/ SetStatus(cl, "CANCELLED")
        \/ SetStatus(cl, "REFUNDED")
    BY <1>1
       DEF Begin, Lookup, RequestChange, StartCall, Continue, Fail, ReadCode, DiscardCode,
           SpendCode, CheckPending, CommitPayment, ValidationFault, CancelRead, CancelWrite,
           RefundRead, RefundWrite, CheckedRead, WriteBack, ChangeFault, data
  <2>3. \A p \in Payments : payments'[p].orderId = payments[p].orderId
    <3>1. CASE UNCHANGED payments
      BY <3>1
    <3>2. CASE /\ calls[cl].step = "commit"
               /\ payments' = [payments EXCEPT ![calls[cl].payment] = CompletedRow(calls[cl])]
      <4>1. payments[calls[cl].payment].orderId = calls[cl].order
        BY <3>2 DEF IInv, WorkFitsRows, CallFits
      <4> QED
        BY <3>2, <4>1 DEF IInv, TypeOK, CompletedRow
    <3>3. CASE SetStatus(cl, "CANCELLED") \/ SetStatus(cl, "REFUNDED")
      <4>1. PICK q, st : payments' = [payments EXCEPT ![q].status = st]
        BY <3>3 DEF SetStatus
      <4>2. \A p \in Payments : payments[p] \in Row
        BY DEF IInv, TypeOK
      <4>3. ASSUME NEW p \in Payments, p = q
            PROVE  payments'[p] = [payments[p] EXCEPT !.status = st]
        BY <4>1, <4>3 DEF IInv, TypeOK
      <4>4. ASSUME NEW p \in Payments, p # q
            PROVE  payments'[p] = payments[p]
        BY <4>1, <4>4 DEF IInv, TypeOK
      <4> QED
        BY <4>2, <4>3, <4>4 DEF Row
    <3> QED
      BY <2>2, <3>1, <3>2, <3>3
  <2> QED
    BY <2>1, <2>3 DEF Knows
<1>2. ASSUME NEW w \in Workers, NEW x \in Orders, Deliver(w, x)
      PROVE  Knows(o)
  BY <1>2 DEF IInv, TypeOK, Deliver, Knows, data
<1>3. ASSUME NEW w \in Workers, Consume(w) \/ NackRequest(w)
      PROVE  Knows(o)
  <2>1. /\ deliveries[w].step # "idle"
        /\ \A v \in Workers : \/ deliveries'[v].step = "idle"
                              \/ deliveries'[v].order = deliveries[v].order
                                 /\ (v = w \/ deliveries'[v].step = deliveries[v].step)
    BY <1>3
       DEF IInv, TypeOK, Delivery, Consume, IssueCode, CreateRow, ReportPending, AckRequest,
           NackRequest, NoDelivery
  <2>2. requestQueue' \subseteq requestQueue \cup {deliveries[w].order}
    BY <1>3 DEF Consume, IssueCode, CreateRow, ReportPending, AckRequest, NackRequest, queues
  <2>3. UNCHANGED payments \/ \E p \in Payments : InsertRow(p, deliveries[w].order)
    BY <1>3 DEF Consume, IssueCode, CreateRow, ReportPending, AckRequest, NackRequest, data
  <2>4. \A p \in Payments : payments'[p].orderId = payments[p].orderId
                            \/ payments'[p].orderId = deliveries[w].order
    BY <2>3 DEF IInv, TypeOK, InsertRow
  <2> QED
    BY <2>1, <2>2, <2>4 DEF Knows
<1>4. CASE ServiceCrash
  <2>1. requestQueue' = requestQueue \cup Unacknowledged /\ UNCHANGED payments
        /\ \A w \in Workers : deliveries'[w].step = "idle"
    BY <1>4 DEF ServiceCrash, NoDelivery, data
  <2> QED
    BY <2>1 DEF Knows, Unacknowledged
<1>5. CASE \/ \E m \in StatusMessage : PublishStatus(m)
           \/ \E x \in Orders : PublishMail(x)
           \/ \E c \in Codes : AgeCode(c)
           \/ Rest \/ UNCHANGED vars
  <2>1. UNCHANGED <<requestQueue, deliveries, payments>>
    BY <1>5 DEF PublishStatus, PublishMail, AgeCode, Rest, vars, data, memory, queues
  <2> QED
    BY <2>1 DEF Knows
<1> QED
  BY <1>1, <1>2, <1>3, <1>4, <1>5 DEF Next, ServiceNext

\* The inductive invariant is an invariant.
THEOREM Invariance == Spec => []IInv
<1>1. Init => IInv
  BY InitEstablishes DEF Init
<1>2. IInv /\ [Next]_vars => IInv'
  BY NextPreserves DEF Preserved
<1> QED
  BY <1>1, <1>2, PTL DEF Spec

\* Every variable keeps its type: in particular only orders of the shop are ever
\* put back into order_request_queue by a nack or a crash.
THEOREM TypeCorrect == Spec => []TypeOK
<1>1. IInv => TypeOK
  BY DEF IInv
<1> QED
  BY <1>1, Invariance, PTL

\* A call and a handler hold on to rows of the order they are about, between any
\* of their steps.
THEOREM WorkFits == Spec => []WorkFitsRows
<1>1. IInv => WorkFitsRows
  BY DEF IInv
<1> QED
  BY <1>1, Invariance, PTL

\* The order service and the user hear of a success only after the row of a
\* payment of that order was committed, for any number of racing calls, errors
\* and crashes.
THEOREM NewsIsAlwaysTrue == Spec => []NewsIsTrue
<1>1. IInv => NewsIsTrue
  BY DEF IInv
<1> QED
  BY <1>1, Invariance, PTL

\* Only money that was paid is refunded, although refundPayment relies on a read
\* that another call may have overtaken.
THEOREM RefundsArePaid == Spec => []RefundedWasPaid
<1>1. IInv => RefundedWasPaid
  BY DEF IInv, WorkFitsRows, RowsFit, RefundedWasPaid
<1> QED
  BY <1>1, Invariance, PTL

\* No step moves a payment to another order, deletes it, or has a payment that
\* left PENDING wait for a code again.
THEOREM NeverReopenedEver == Spec => PaymentNeverReopened
<1>1. IInv /\ [Next]_vars => [NeverReopened]_vars
  BY NextPreserves DEF Preserved
<1> QED
  BY <1>1, Invariance, PTL DEF Spec, PaymentNeverReopened

-----------------------------------------------------------------------------
(***************************************************************************)
(* One row per delivery                                                    *)
(***************************************************************************)
\* A request is in the queue or with one handler, never both and never with two:
\* the broker hands it out once, and a nack or a crash takes it from its handler.
HeldByOne ==
  /\ \A v, w \in Workers :
       /\ deliveries[v].step # "idle" /\ deliveries[w].step # "idle"
       /\ deliveries[v].order = deliveries[w].order
       => v = w
  /\ \A w \in Workers : deliveries[w].step # "idle" => deliveries[w].order \notin requestQueue

\* The bound of OneRowPerDelivery for one order, whose rows can be counted.
RowsCounted(o) ==
  /\ IsFiniteSet(RowsOf(o))
  /\ Cardinality(RowsOf(o)) + (IF BeforeRow(o) THEN 1 ELSE 0) <= 1 + faults + crashes

CountInv == HeldByOne /\ \A o \in Orders : RowsCounted(o)

\* The arithmetic of the bound: n rows, d requests to answer, after f errors and
\* c crashes; the same after a step.
LEMMA CountArithmetic ==
  ASSUME NEW n \in Nat, NEW d \in Nat, NEW f \in Nat, NEW c \in Nat,
         NEW nn \in Nat, NEW dd \in Nat, NEW ff \in Nat, NEW cc \in Nat,
         n + d <= 1 + f + c, dd <= 1,
         ff + cc = f + c \/ ff + cc = f + c + 1,
         \/ nn = n /\ (dd = 1 => d = 1 \/ ff + cc = f + c + 1)
         \/ nn <= n + 1 /\ d = 1 /\ (dd = 1 => ff + cc = f + c + 1)
  PROVE  nn + dd <= 1 + ff + cc
OBVIOUS

\* A row more is allowed when the order's request is then answered or when an
\* error was counted; a request to be answered again, when a crash was.
LEMMA CountKept ==
  ASSUME IInv, IInv', NEW o \in Orders, RowsCounted(o),
         \/ faults' + crashes' = faults + crashes
         \/ faults' + crashes' = faults + crashes + 1,
         \/ /\ RowsOf(o)' = RowsOf(o)
            /\ BeforeRow(o)' => BeforeRow(o) \/ faults' + crashes' = faults + crashes + 1
         \/ /\ \E p \in Payments : RowsOf(o)' = RowsOf(o) \cup {p}
            /\ BeforeRow(o)
            /\ BeforeRow(o)' => faults' + crashes' = faults + crashes + 1
  PROVE  RowsCounted(o)'
<1>1. PICK f \in Nat, c \in Nat, ff \in Nat, cc \in Nat :
        f = faults /\ c = crashes /\ ff = faults' /\ cc = crashes'
  BY BoundsAssumption DEF IInv, TypeOK
<1>2. ff + cc = f + c \/ ff + cc = f + c + 1
  BY <1>1
<1>3. PICK n \in Nat : n = Cardinality(RowsOf(o))
  BY FS_CardinalityType DEF RowsCounted
<1>4. PICK d \in Nat : d = IF BeforeRow(o) THEN 1 ELSE 0
  OBVIOUS
<1>5. PICK dd \in Nat : dd = (IF BeforeRow(o) THEN 1 ELSE 0)' /\ dd <= 1
  OBVIOUS
<1>6. n + d <= 1 + f + c
  BY <1>1, <1>3, <1>4 DEF RowsCounted
<1>7. dd = 1 => BeforeRow(o)'
  BY <1>5
<1>8. BeforeRow(o) => d = 1
  BY <1>4
<1>9. CASE RowsOf(o)' = RowsOf(o)
  <2>1. dd = 1 => d = 1 \/ ff + cc = f + c + 1
    BY <1>1, <1>7, <1>8, <1>9
  <2>2. n + dd <= 1 + ff + cc
    BY <1>2, <1>5, <1>6, <2>1, CountArithmetic
  <2> QED
    BY <1>1, <1>3, <1>5, <1>9, <2>2 DEF RowsCounted
<1>10. ASSUME NEW p \in Payments, RowsOf(o)' = RowsOf(o) \cup {p}, BeforeRow(o),
             BeforeRow(o)' => faults' + crashes' = faults + crashes + 1
      PROVE  RowsCounted(o)'
  <2>1. IsFiniteSet(RowsOf(o)')
    BY <1>10, FS_AddElement DEF RowsCounted
  <2>2. Cardinality(RowsOf(o)') = IF p \in RowsOf(o) THEN n ELSE n + 1
    BY <1>3, <1>10, FS_AddElement DEF RowsCounted
  <2>3. PICK nn \in Nat : nn = Cardinality(RowsOf(o)') /\ nn <= n + 1
    BY <2>2
  <2>4. d = 1 /\ (dd = 1 => ff + cc = f + c + 1)
    BY <1>1, <1>7, <1>8, <1>10
  <2>5. nn + dd <= 1 + ff + cc
    BY <1>2, <1>5, <1>6, <2>3, <2>4, CountArithmetic
  <2> QED
    BY <1>1, <1>5, <2>1, <2>3, <2>5 DEF RowsCounted
<1> QED
  BY <1>9, <1>10

\* What the rows' orders say of them.
LEMMA SameRows ==
  ASSUME NEW o \in Orders, \A p \in Payments : payments'[p].orderId = payments[p].orderId
  PROVE  RowsOf(o)' = RowsOf(o)
BY DEF RowsOf

\* A step that neither hands out requests nor opens rows.
LEMMA CountElsewhere ==
  ASSUME IInv, IInv', CountInv, UNCHANGED <<deliveries, requestQueue>>,
         faults' = faults \/ faults' = faults + 1, crashes' = crashes,
         \A p \in Payments : payments'[p].orderId = payments[p].orderId
  PROVE  CountInv'
<1>1. HeldByOne'
  BY DEF CountInv, HeldByOne
<1>2. ASSUME NEW o \in Orders PROVE RowsCounted(o)'
  <2>1. RowsOf(o)' = RowsOf(o) /\ (BeforeRow(o)' => BeforeRow(o))
    BY SameRows DEF BeforeRow
  <2>2. faults \in Nat /\ crashes \in Nat
    BY BoundsAssumption DEF IInv, TypeOK
  <2>3. faults' + crashes' = faults + crashes \/ faults' + crashes' = faults + crashes + 1
    BY <2>2
  <2> QED
    BY <2>1, <2>3, CountKept DEF CountInv
<1> QED
  BY <1>1, <1>2 DEF CountInv

\* The new row is the order's own and nobody else's.
LEMMA InsertedRow ==
  ASSUME IInv, NEW p \in Payments, NEW o \in Orders, InsertRow(p, o), NEW n \in Orders
  PROVE  RowsOf(n)' = IF n = o THEN RowsOf(n) \cup {p} ELSE RowsOf(n)
<1>1. payments[p].orderId = None
  BY DEF IInv, WorkFitsRows, RowsFit, InsertRow
<1>2. /\ payments'[p].orderId = o
      /\ \A q \in Payments \ {p} : payments'[q] = payments[q]
  BY DEF IInv, TypeOK, InsertRow
<1> QED
  BY <1>1, <1>2, OrdersNotNone DEF RowsOf

\* The consumer of order_request_queue and a crash of the process.
LEMMA CountConsumer ==
  ASSUME IInv, IInv', CountInv, NEW w \in Workers,
         \/ \E o \in Orders : Deliver(w, o)
         \/ IssueCode(w) \/ CreateRow(w) \/ ReportPending(w) \/ AckRequest(w) \/ NackRequest(w)
  PROVE  CountInv'
<1>a. /\ deliveries \in [Workers -> Delivery]
      /\ deliveries[w].step # "idle" => deliveries[w].order \in Orders
      /\ faults \in Nat /\ crashes \in Nat
  BY BoundsAssumption DEF IInv, TypeOK, WorkFitsRows, DeliveryFits
<1>1. ASSUME NEW o \in Orders, Deliver(w, o) PROVE CountInv'
  <2>1. /\ deliveries'[w].step = "issueCode" /\ deliveries'[w].order = o
        /\ \A v \in Workers \ {w} : deliveries'[v] = deliveries[v]
        /\ requestQueue' = requestQueue \ {o} /\ o \in requestQueue
        /\ payments' = payments /\ faults' = faults /\ crashes' = crashes
        /\ deliveries[w].step = "idle"
    BY <1>1, <1>a DEF Deliver, data, budget
  <2>2. HeldByOne'
    BY <2>1 DEF CountInv, HeldByOne
  <2>3. ASSUME NEW n \in Orders PROVE RowsCounted(n)'
    <3>1. BeforeRow(n)' => BeforeRow(n)
      BY <2>1 DEF BeforeRow
    <3>2. RowsOf(n)' = RowsOf(n)
      BY <2>1, SameRows
    <3> QED
      BY <1>a, <2>1, <3>1, <3>2, CountKept DEF CountInv
  <2> QED
    BY <2>2, <2>3 DEF CountInv
<1>2. ASSUME IssueCode(w) \/ ReportPending(w) PROVE CountInv'
  <2>1. /\ deliveries'[w].order = deliveries[w].order
        /\ deliveries[w].step = "issueCode" \/ deliveries'[w].step = "ack"
        /\ deliveries[w].step # "idle"
        /\ \A v \in Workers \ {w} : deliveries'[v] = deliveries[v]
        /\ requestQueue' = requestQueue /\ payments' = payments
        /\ faults' = faults \/ faults' = faults + 1
        /\ crashes' = crashes
    BY <1>2, <1>a DEF IssueCode, ReportPending, Publish, Fault, Delivery, data, queues, budget
  <2>2. HeldByOne'
    BY <2>1 DEF CountInv, HeldByOne
  <2>3. ASSUME NEW n \in Orders PROVE RowsCounted(n)'
    <3>1. BeforeRow(n)' => BeforeRow(n)
      BY <2>1 DEF BeforeRow
    <3>2. RowsOf(n)' = RowsOf(n)
      BY <2>1, SameRows
    <3>3. faults' + crashes' = faults + crashes \/ faults' + crashes' = faults + crashes + 1
      BY <1>a, <2>1
    <3> QED
      BY <3>1, <3>2, <3>3, CountKept DEF CountInv
  <2> QED
    BY <2>2, <2>3 DEF CountInv
<1>3. ASSUME CreateRow(w) PROVE CountInv'
  <2>1. PICK p \in Payments :
          /\ InsertRow(p, deliveries[w].order)
          /\ deliveries' = [deliveries EXCEPT ![w].step = "report", ![w].payment = p]
    BY <1>3 DEF CreateRow
  <2>2. /\ deliveries[w].step = "createRow" /\ deliveries'[w].step = "report"
        /\ deliveries'[w].order = deliveries[w].order
        /\ \A v \in Workers \ {w} : deliveries'[v] = deliveries[v]
        /\ requestQueue' = requestQueue /\ faults' = faults /\ crashes' = crashes
    BY <1>3, <1>a, <2>1 DEF CreateRow, Delivery, queues, budget
  <2>3. HeldByOne'
    BY <2>2 DEF CountInv, HeldByOne
  <2>4. ASSUME NEW n \in Orders PROVE RowsCounted(n)'
    <3>1. BeforeRow(n)' => BeforeRow(n)
      BY <2>2 DEF BeforeRow
    <3>2. CASE n # deliveries[w].order
      BY <1>a, <2>1, <2>2, <3>1, <3>2, InsertedRow, CountKept DEF CountInv
    <3>3. CASE n = deliveries[w].order
      <4>1. BeforeRow(n)
        BY <2>2, <3>3 DEF BeforeRow
      <4>2. ~BeforeRow(n)'
        BY <2>2, <3>3 DEF BeforeRow, CountInv, HeldByOne
      <4>3. RowsOf(n)' = RowsOf(n) \cup {p}
        BY <1>a, <2>1, <2>2, <3>3, InsertedRow
      <4> QED
        BY <1>a, <2>2, <4>1, <4>2, <4>3, CountKept DEF CountInv
    <3> QED
      BY <3>2, <3>3
  <2> QED
    BY <2>3, <2>4 DEF CountInv
<1>4. ASSUME AckRequest(w) PROVE CountInv'
  <2>1. /\ deliveries'[w] = NoDelivery
        /\ \A v \in Workers \ {w} : deliveries'[v] = deliveries[v]
        /\ requestQueue' = requestQueue /\ payments' = payments
        /\ faults' = faults /\ crashes' = crashes
    BY <1>4, <1>a DEF AckRequest, data, queues, budget
  <2>2. HeldByOne'
    BY <2>1 DEF CountInv, HeldByOne, NoDelivery
  <2>3. ASSUME NEW n \in Orders PROVE RowsCounted(n)'
    <3>1. BeforeRow(n)' => BeforeRow(n)
      BY <2>1 DEF BeforeRow, NoDelivery
    <3>2. RowsOf(n)' = RowsOf(n)
      BY <2>1, SameRows
    <3> QED
      BY <1>a, <2>1, <3>1, <3>2, CountKept DEF CountInv
  <2> QED
    BY <2>2, <2>3 DEF CountInv
<1>5. ASSUME NackRequest(w) PROVE CountInv'
  <2>1. /\ deliveries[w].step \in {"issueCode", "createRow"}
        /\ deliveries'[w] = NoDelivery
        /\ \A v \in Workers \ {w} : deliveries'[v] = deliveries[v]
        /\ requestQueue' = requestQueue \cup {deliveries[w].order}
        /\ faults' = faults + 1 /\ crashes' = crashes
    BY <1>5, <1>a DEF NackRequest, Fault
  <2>2. HeldByOne'
    BY <2>1 DEF CountInv, HeldByOne, NoDelivery
  <2>3. \A n \in Orders : BeforeRow(n)' => BeforeRow(n)
    BY <2>1 DEF BeforeRow, NoDelivery
  <2>4. CASE UNCHANGED payments
    BY <1>a, <2>1, <2>2, <2>3, <2>4, SameRows, CountKept DEF CountInv
  <2>5. ASSUME NEW p \in Payments, InsertRow(p, deliveries[w].order) PROVE CountInv'
    <3>1. ASSUME NEW n \in Orders PROVE RowsCounted(n)'
      <4>1. CASE n # deliveries[w].order
        BY <1>a, <2>1, <2>3, <2>5, <4>1, InsertedRow, CountKept DEF CountInv
      <4>2. CASE n = deliveries[w].order
        <5>1. BeforeRow(n)
          BY <2>1, <4>2 DEF BeforeRow
        <5>2. RowsOf(n)' = RowsOf(n) \cup {p}
          BY <1>a, <2>1, <2>5, <4>2, InsertedRow
        <5>3. faults' + crashes' = faults + crashes + 1
          BY <1>a, <2>1
        <5> QED
          BY <5>1, <5>2, <5>3, CountKept DEF CountInv
      <4> QED
        BY <4>1, <4>2
    <3> QED
      BY <2>2, <3>1 DEF CountInv
  <2> QED
    BY <1>5, <2>4, <2>5 DEF NackRequest, data
<1> QED
  BY <1>1, <1>2, <1>3, <1>4, <1>5

\* Every step of the service counts.
LEMMA NextCounts == IInv /\ IInv' /\ CountInv /\ [Next]_vars => CountInv'
<1> SUFFICES ASSUME IInv, IInv', CountInv, [Next]_vars PROVE CountInv'
  OBVIOUS
<1>1. ASSUME NEW cl \in Clients, Begin(cl) \/ Continue(cl) \/ Fail(cl) PROVE CountInv'
  <2>1. CallFits(calls[cl]) /\ payments \in [Payments -> Row]
    BY DEF IInv, WorkFitsRows, TypeOK
  <2>2. \A p \in Payments : payments'[p].orderId = payments[p].orderId
    <3>1. CASE payments' = payments
      BY <3>1
    <3>2. CASE /\ calls[cl].step = "commit"
               /\ payments' = [payments EXCEPT ![calls[cl].payment] = CompletedRow(calls[cl])]
      BY <2>1, <3>2 DEF CallFits, CompletedRow
    <3>3. ASSUME NEW status, SetStatus(cl, status)
          PROVE  \A p \in Payments : payments'[p].orderId = payments[p].orderId
      BY <2>1, <3>3 DEF SetStatus, Row
    <3> QED
      BY <1>1, <3>1, <3>2, <3>3
         DEF Begin, Lookup, RequestChange, StartCall, Continue, Fail, ReadCode, DiscardCode,
             SpendCode, CheckPending, CommitPayment, ValidationFault, CancelRead, CancelWrite,
             RefundRead, RefundWrite, CheckedRead, WriteBack, ChangeFault, data
  <2>3. /\ UNCHANGED <<deliveries, requestQueue, crashes>>
        /\ faults' = faults \/ faults' = faults + 1
    BY <1>1
       DEF Begin, Lookup, RequestChange, StartCall, Continue, Fail, ReadCode, DiscardCode,
           SpendCode, CheckPending, CommitPayment, ValidationFault, CancelRead, CancelWrite,
           RefundRead, RefundWrite, CheckedRead, WriteBack, ChangeFault, Fault, queues, budget
  <2> QED
    BY <2>2, <2>3, CountElsewhere
<1>2. ASSUME NEW w \in Workers, (\E o \in Orders : Deliver(w, o)) \/ Consume(w) \/ NackRequest(w)
      PROVE  CountInv'
  BY <1>2, CountConsumer DEF Consume
<1>3. CASE \/ \E m \in StatusMessage : PublishStatus(m)
           \/ \E o \in Orders : PublishMail(o)
           \/ \E c \in Codes : AgeCode(c)
           \/ Rest \/ UNCHANGED vars
  <2>1. /\ UNCHANGED <<payments, deliveries, requestQueue, crashes>>
        /\ faults' = faults \/ faults' = faults + 1
    BY <1>3
       DEF PublishStatus, Publish, PublishMail, AgeCode, Rest, Fault, vars, data, memory,
           queues, budget
  <2> QED
    BY <2>1, CountElsewhere
<1>4. CASE ServiceCrash
  <2>1. HeldByOne'
    BY <1>4 DEF ServiceCrash, HeldByOne, NoDelivery
  <2>2. ASSUME NEW o \in Orders PROVE RowsCounted(o)'
    <3>1. RowsOf(o)' = RowsOf(o)
      BY <1>4, SameRows DEF ServiceCrash, data
    <3>2. faults' + crashes' = faults + crashes + 1
      BY <1>4, BoundsAssumption DEF ServiceCrash, IInv, TypeOK
    <3> QED
      BY <3>1, <3>2, CountKept DEF CountInv
  <2> QED
    BY <2>1, <2>2 DEF CountInv
<1> QED
  BY <1>1, <1>2, <1>3, <1>4 DEF Next, ServiceNext

\* An order gets one payment row, and one more only for an error or a crash that
\* had its request handled again (payment.service.ts acknowledges last).
THEOREM OneRowPerDeliveryEver == Spec => []OneRowPerDelivery
<1>1. Init => CountInv
  <2> SUFFICES ASSUME Init PROVE CountInv
    OBVIOUS
  <2>1. HeldByOne
    BY DEF Init, ServiceInit, HeldByOne, NoDelivery
  <2>2. ASSUME NEW o \in Orders PROVE RowsCounted(o)
    <3>1. RowsOf(o) = {} /\ faults = 0 /\ crashes = 0
      BY OrdersNotNone DEF Init, ServiceInit, RowsOf, NoRow
    <3>2. IsFiniteSet(RowsOf(o)) /\ Cardinality(RowsOf(o)) = 0
      BY <3>1, FS_EmptySet
    <3> QED
      BY <3>1, <3>2 DEF RowsCounted
  <2> QED
    BY <2>1, <2>2 DEF CountInv
<1>2. CountInv => OneRowPerDelivery
  BY DEF CountInv, RowsCounted, OneRowPerDelivery
<1> QED
  BY <1>1, <1>2, NextCounts, Invariance, PTL DEF Spec

-----------------------------------------------------------------------------
(***************************************************************************)
(* The codes                                                               *)
(***************************************************************************)
\* A step of one call moves no other.
LEMMA CallsMoveAlone ==
  ASSUME TypeOK, NEW cl \in Clients, Begin(cl) \/ Continue(cl) \/ Fail(cl)
  PROVE  \A other \in Clients \ {cl} : calls'[other] = calls[other]
<1>1. calls \in [Clients -> Call]
  BY DEF TypeOK
<1>2. \/ Return(cl) \/ (\E step \in CallStep : GoTo(cl, step))
      \/ (\E call \in Call : StartCall(cl, call)) \/ UNCHANGED calls
  <2>1. CASE Begin(cl)
    <3>1. ASSUME NEW o \in Orders, NEW c \in Codes, Lookup(cl, o, c)
          PROVE  \E call \in Call : StartCall(cl, call)
      BY <3>1 DEF Lookup, Call, CallStep
    <3>2. ASSUME NEW p \in Payments, NEW step \in {"cancelRead", "refundRead"},
                 RequestChange(cl, step, p)
          PROVE  \E call \in Call : StartCall(cl, call)
      BY <3>2 DEF RequestChange, Call, CallStep
    <3> QED
      BY <2>1, <3>1, <3>2 DEF Begin
  <2>2. CASE Continue(cl) \/ Fail(cl)
    BY <2>2
       DEF Continue, Fail, ReadCode, DiscardCode, SpendCode, CheckPending, ReportFailure,
           CommitPayment, ValidationFault, CancelRead, CancelWrite, RefundRead, RefundWrite,
           CheckedRead, WriteBack, ChangeFault, CallStep
  <2> QED
    BY <2>1, <2>2
<1> QED
  BY <1>1, <1>2 DEF Return, GoTo, StartCall

\* What AcceptedByFinders says of one code.
FewAccept(c) ==
  /\ accepted[c] > 0 => codes[c] = "absent"
  /\ accepted[c] + Cardinality(Finders(c)) <= Cardinality(Clients)

\* The finders of a code can be counted and are no more than the calls.
LEMMA FindersCounted ==
  ASSUME IsFiniteSet(Clients), NEW c \in Codes
  PROVE  /\ IsFiniteSet(Finders(c)) /\ Cardinality(Finders(c)) \in Nat
         /\ Cardinality(Finders(c)) <= Cardinality(Clients)
         /\ Cardinality(Clients) \in Nat
<1>1. Finders(c) \subseteq Clients
  BY DEF Finders
<1> QED
  BY <1>1, FS_Subset, FS_CardinalityType

\* A code is issued anew, loses finders, gains some before it is accepted, or is
\* accepted by one of its finders.
LEMMA FewAcceptKept ==
  ASSUME IsFiniteSet(Clients), IInv, NEW c \in Codes, FewAccept(c),
         \/ accepted'[c] = 0
         \/ /\ accepted'[c] = accepted[c]
            /\ codes[c] = "absent" => codes'[c] = "absent"
            /\ Finders(c)' \subseteq Finders(c) \/ codes[c] # "absent"
         \/ /\ accepted'[c] = accepted[c] + 1
            /\ codes'[c] = "absent"
            /\ \E cl \in Finders(c) : Finders(c)' = Finders(c) \ {cl}
  PROVE  FewAccept(c)'
<1>1. PICK n \in Nat, a \in Nat, f \in Nat :
        n = Cardinality(Clients) /\ a = accepted[c] /\ f = Cardinality(Finders(c))
  BY FindersCounted DEF IInv, TypeOK
<1>2. IsFiniteSet(Finders(c)) /\ a + f <= n /\ (a > 0 => codes[c] = "absent")
  BY <1>1, FindersCounted DEF FewAccept
<1>3. Finders(c)' \subseteq Clients
  BY DEF Finders
<1>4. PICK g \in Nat : g = Cardinality(Finders(c)') /\ g <= n
  BY <1>1, <1>3, FS_Subset, FS_CardinalityType
<1>5. CASE accepted'[c] = 0
  BY <1>1, <1>4, <1>5 DEF FewAccept
<1>6. CASE /\ accepted'[c] = accepted[c]
           /\ codes[c] = "absent" => codes'[c] = "absent"
           /\ Finders(c)' \subseteq Finders(c) \/ codes[c] # "absent"
  <2>1. Finders(c)' \subseteq Finders(c) => g <= f
    BY <1>1, <1>2, <1>4, FS_Subset
  <2>2. codes[c] # "absent" => a = 0
    BY <1>2
  <2>3. a + g <= n
    BY <1>2, <1>4, <1>6, <2>1, <2>2
  <2> QED
    BY <1>1, <1>2, <1>4, <1>6, <2>3 DEF FewAccept
<1>7. CASE /\ accepted'[c] = accepted[c] + 1
           /\ codes'[c] = "absent"
           /\ \E cl \in Finders(c) : Finders(c)' = Finders(c) \ {cl}
  <2>1. PICK cl \in Finders(c) : Finders(c)' = Finders(c) \ {cl}
    BY <1>7
  <2>2. Cardinality(Finders(c) \ {cl}) = Cardinality(Finders(c)) - 1
    BY <1>2, <2>1, FS_RemoveElement
  <2>3. g = f - 1
    BY <1>1, <1>4, <2>1, <2>2
  <2>4. accepted'[c] + g <= n
    BY <1>1, <1>2, <1>7, <2>3
  <2> QED
    BY <1>1, <1>4, <1>7, <2>4 DEF FewAccept
<1> QED
  BY <1>5, <1>6, <1>7

\* A step of somebody else than a call: codes may be issued or age, calls may end.
LEMMA FewAcceptElsewhere ==
  ASSUME IsFiniteSet(Clients), IInv, AcceptedByFinders,
         \A cl \in Clients : calls'[cl] = calls[cl] \/ calls'[cl] = IdleCall,
         \/ UNCHANGED <<codes, accepted>>
         \/ \E c \in Codes : StoreCode(c)
         \/ (\E c \in Codes : AgeCode(c)) /\ UNCHANGED accepted
  PROVE  AcceptedByFinders'
<1>1. ASSUME NEW c \in Codes PROVE FewAccept(c)'
  <2>1. Finders(c)' \subseteq Finders(c)
    BY DEF Finders, IdleCall
  <2>2. \/ accepted'[c] = 0
        \/ accepted'[c] = accepted[c] /\ (codes[c] = "absent" => codes'[c] = "absent")
    BY DEF IInv, TypeOK, StoreCode, AgeCode
  <2>3. FewAccept(c)
    BY DEF AcceptedByFinders, FewAccept
  <2> QED
    BY <2>1, <2>2, <2>3, FewAcceptKept
<1> QED
  BY <1>1 DEF AcceptedByFinders, FewAccept

\* A call finds the code it was given only where Redis still has it, and accepts it
\* as it stops being a finder.
LEMMA FewAcceptCall ==
  ASSUME IsFiniteSet(Clients), IInv, AcceptedByFinders, NEW cl \in Clients,
         Begin(cl) \/ Continue(cl) \/ Fail(cl)
  PROVE  AcceptedByFinders'
<1>a. /\ calls \in [Clients -> Call] /\ CallFits(calls[cl])
      /\ codes \in [Codes -> {"absent", "live", "stale"}] /\ accepted \in [Codes -> Nat]
  BY DEF IInv, WorkFitsRows, TypeOK
<1>b. /\ Return(cl) => calls'[cl] = IdleCall
      /\ \A step \in CallStep : GoTo(cl, step) =>
           calls'[cl].step = step /\ calls'[cl].code = calls[cl].code
      /\ \A call : StartCall(cl, call) => calls'[cl] = call
  BY <1>a DEF Return, GoTo, StartCall, Call
<1>c. \A other \in Clients \ {cl} : calls'[other] = calls[other]
  BY CallsMoveAlone DEF IInv
<1>1. ASSUME NEW c \in Codes, SpendCode(cl) PROVE FewAccept(c)'
  <2>1. FewAccept(c)
    BY DEF AcceptedByFinders, FewAccept
  <2>2. calls[cl].code \in Codes /\ calls[cl].step = "spend" /\ calls'[cl].step = "check"
    BY <1>a, <1>b, <1>1 DEF SpendCode, CallFits, CallStep
  <2>3. CASE c = calls[cl].code
    <3>1. accepted'[c] = accepted[c] + 1 /\ codes'[c] = "absent"
      BY <1>a, <1>1, <2>3 DEF SpendCode, DeleteCode
    <3>2. cl \in Finders(c) /\ Finders(c)' = Finders(c) \ {cl}
      BY <1>c, <2>2, <2>3 DEF Finders
    <3> QED
      BY <2>1, <3>1, <3>2, FewAcceptKept
  <2>4. CASE c # calls[cl].code
    <3>1. accepted'[c] = accepted[c] /\ codes'[c] = codes[c]
      BY <1>a, <1>1, <2>4 DEF SpendCode, DeleteCode
    <3>2. Finders(c)' \subseteq Finders(c)
      BY <1>c, <2>2 DEF Finders
    <3> QED
      BY <2>1, <3>1, <3>2, FewAcceptKept
  <2> QED
    BY <2>3, <2>4
<1>2. ASSUME NEW c \in Codes, ~SpendCode(cl) PROVE FewAccept(c)'
  <2>1. FewAccept(c)
    BY DEF AcceptedByFinders, FewAccept
  <2>2. accepted' = accepted /\ (codes[c] = "absent" => codes'[c] = "absent")
    BY <1>a, <1>2
       DEF Begin, Lookup, RequestChange, StartCall, Continue, Fail, ReadCode, DiscardCode,
           DeleteCode, CheckPending, CommitPayment, ValidationFault, CancelRead, CancelWrite,
           RefundRead, RefundWrite, CheckedRead, WriteBack, ChangeFault, data, history
  <2>3. CASE calls'[cl].step # "spend"
    <3>1. Finders(c)' \subseteq Finders(c)
      BY <1>c, <2>3 DEF Finders
    <3> QED
      BY <2>1, <2>2, <3>1, FewAcceptKept
  <2>4. CASE ReadCode(cl) /\ GoTo(cl, "spend") /\ codes[calls[cl].code] = "live"
    <3>1. Finders(c)' \subseteq Finders(c) \/ codes[c] # "absent"
      BY <1>b, <1>c, <2>4 DEF Finders, CallStep
    <3> QED
      BY <2>1, <2>2, <3>1, FewAcceptKept
  <2>5. CASE Begin(cl)
    <3>1. ASSUME NEW o \in Orders, NEW k \in Codes, Lookup(cl, o, k) PROVE calls'[cl].step # "spend"
      BY <1>b, <3>1 DEF Lookup
    <3>2. ASSUME NEW p \in Payments, NEW step \in {"cancelRead", "refundRead"},
                 RequestChange(cl, step, p)
          PROVE  calls'[cl].step # "spend"
      BY <1>b, <3>2 DEF RequestChange
    <3> QED
      BY <2>3, <2>5, <3>1, <3>2 DEF Begin
  <2>6. IdleCall.step # "spend"
    BY DEF IdleCall
  <2>7. CASE ReadCode(cl) \/ DiscardCode(cl) \/ CheckPending(cl)
    BY <1>b, <2>3, <2>4, <2>6, <2>7 DEF ReadCode, DiscardCode, CheckPending, ReportFailure, CallStep
  <2>8. CASE CancelRead(cl) \/ RefundRead(cl)
    BY <1>b, <2>3, <2>6, <2>8 DEF CancelRead, RefundRead, CheckedRead, CallStep
  <2>9. CASE CommitPayment(cl) \/ CancelWrite(cl) \/ RefundWrite(cl) \/ Fail(cl)
    BY <1>b, <2>3, <2>6, <2>9
       DEF CommitPayment, CancelWrite, RefundWrite, WriteBack, Fail, ValidationFault,
           ReportFailure, ChangeFault
  <2> QED
    BY <1>2, <2>5, <2>7, <2>8, <2>9 DEF Continue
<1> QED
  BY <1>1, <1>2 DEF AcceptedByFinders, FewAccept

\* Every step keeps the count of acceptances.
LEMMA FewAcceptPreserved ==
  ASSUME IsFiniteSet(Clients)
  PROVE  IInv /\ AcceptedByFinders /\ [Next]_vars => AcceptedByFinders'
<1> SUFFICES ASSUME IInv, AcceptedByFinders, [Next]_vars PROVE AcceptedByFinders'
  OBVIOUS
<1>1. ASSUME NEW cl \in Clients, Begin(cl) \/ Continue(cl) \/ Fail(cl)
      PROVE  AcceptedByFinders'
  BY <1>1, FewAcceptCall
<1>2. ASSUME NEW w \in Workers, (\E o \in Orders : Deliver(w, o)) \/ Consume(w) \/ NackRequest(w)
      PROVE  AcceptedByFinders'
  <2>1. calls' = calls /\ (UNCHANGED <<codes, accepted>> \/ \E c \in Codes : StoreCode(c))
    BY <1>2
       DEF Deliver, Consume, NackRequest, IssueCode, CreateRow, ReportPending, AckRequest,
           data, history
  <2> QED
    BY <2>1, FewAcceptElsewhere
<1>3. CASE \E c \in Codes : AgeCode(c)
  <2>1. calls' = calls /\ accepted' = accepted
    BY <1>3 DEF AgeCode, memory, history
  <2> QED
    BY <1>3, <2>1, FewAcceptElsewhere
<1>4. CASE \/ \E m \in StatusMessage : PublishStatus(m)
           \/ \E o \in Orders : PublishMail(o)
           \/ ServiceCrash \/ Rest \/ UNCHANGED vars
  <2>1. /\ \A cl \in Clients : calls'[cl] = calls[cl] \/ calls'[cl] = IdleCall
        /\ UNCHANGED <<codes, accepted>>
    BY <1>4 DEF PublishStatus, PublishMail, ServiceCrash, Rest, vars, data, memory, history
  <2> QED
    BY <2>1, FewAcceptElsewhere
<1> QED
  BY <1>1, <1>2, <1>3, <1>4 DEF Next, ServiceNext

\* Whatever calls overlap and whatever errors, crashes and further codes come in
\* between, nobody finds a code that was accepted, and it is accepted no more often
\* than calls run at a time: once for calls that come one by one, though not once
\* for two that found it before either deleted it.
THEOREM AcceptedByFindersEver ==
  ASSUME IsFiniteSet(Clients)
  PROVE  Spec => []AcceptedByFinders
<1>1. Init => AcceptedByFinders
  <2> SUFFICES ASSUME Init PROVE AcceptedByFinders
    OBVIOUS
  <2>1. \A c \in Codes : accepted[c] = 0
    BY DEF Init, ServiceInit
  <2>2. \A c \in Codes : Cardinality(Finders(c)) <= Cardinality(Clients) /\ Cardinality(Finders(c)) \in Nat
    BY FindersCounted
  <2> QED
    BY <2>1, <2>2 DEF AcceptedByFinders
<1>2. IInv /\ AcceptedByFinders /\ [Next]_vars => AcceptedByFinders'
  BY FewAcceptPreserved
<1> QED
  BY <1>1, <1>2, Invariance, PTL DEF Spec

-----------------------------------------------------------------------------
(***************************************************************************)
(* The ledger                                                              *)
(***************************************************************************)
\* The status the ledger sees of one payment changes and no other's.
LEMMA StatusMoves ==
  ASSUME NEW p \in Payments, \A q \in Payments \ {p} : payments'[q].status = payments[q].status
  PROVE  [q \in Payments |-> payments[q].status]' =
           [[q \in Payments |-> payments[q].status] EXCEPT ![p] = payments'[p].status]
OBVIOUS

\* What the ledger sees of the announcements, as Ledger maps it.
Heard == {p \in Payments : \E o \in Orders : statusQueue[Status("SUCCESS", o, p)] > 0}

\* A step that leaves the rows alone announces at most one completed payment.
LEMMA LedgerHears ==
  ASSUME IInv, UNCHANGED <<payments, completed>>, NEW s \in StatusMessage,
         InTransit(s) \/ s.type # "SUCCESS",
         statusQueue' = Put(statusQueue, s)
  PROVE  LedgerStep
<1>1. /\ \A m \in StatusMessage \ {s} : statusQueue'[m] = statusQueue[m]
      /\ statusQueue'[s] = statusQueue[s] + 1 /\ statusQueue[s] \in Nat
  BY DEF IInv, TypeOK, Put
<1>2. /\ s.orderId \in Orders /\ s.paymentId \in Payments
      /\ s.type = "SUCCESS" => s = Status("SUCCESS", s.orderId, s.paymentId)
  BY DEF StatusMessage, Status
<1>3. CASE s.type = "SUCCESS"
  <2>1. s.paymentId \in completed
    BY <1>3 DEF IInv, NewsIsTrue
  <2>2. Heard' = Heard \cup {s.paymentId}
    <3>1. \A o \in Orders, p \in Payments :
            /\ Status("SUCCESS", o, p) \in StatusMessage
            /\ Status("SUCCESS", o, p) = s => p = s.paymentId
      BY StatusFacts
    <3>2. s = Status("SUCCESS", s.orderId, s.paymentId)
      BY <1>2, <1>3
    <3>3. statusQueue'[Status("SUCCESS", s.orderId, s.paymentId)] > 0
      BY <1>1, <3>2
    <3>4. s.paymentId \in Heard'
      BY <1>2, <3>3 DEF Heard
    <3>5. \A p \in Heard' : p \in Heard \cup {s.paymentId}
      BY <1>1, <3>1 DEF Heard
    <3>6. \A p \in Heard : p \in Heard'
      BY <1>1, <3>1 DEF Heard
    <3> QED
      BY <3>4, <3>5, <3>6
  <2>3. Ledger!Announce(s.paymentId)
    BY <2>1, <2>2 DEF Ledger!Announce, Heard
  <2> QED
    BY <1>2, <2>3 DEF LedgerStep, Ledger!Next
<1>4. CASE s.type # "SUCCESS"
  <2>1. \A o \in Orders, p \in Payments : Status("SUCCESS", o, p) \in StatusMessage \ {s}
    BY <1>4, StatusFacts
  <2>2. Heard' = Heard
    BY <1>1, <2>1 DEF Heard
  <2> QED
    BY <2>2 DEF LedgerStep, Ledger!vars, Heard
<1> QED
  BY <1>3, <1>4

\* A step that neither writes a row nor publishes is none of the ledger's.
LEMMA LedgerStutters ==
  ASSUME UNCHANGED <<payments, completed, statusQueue>>
  PROVE  LedgerStep
BY DEF LedgerStep, Ledger!vars

\* A new row is an opened payment.
LEMMA LedgerOpens ==
  ASSUME IInv, NEW p \in Payments, NEW o \in Orders, InsertRow(p, o),
         UNCHANGED <<completed, statusQueue>>
  PROVE  LedgerStep
<1>1. payments'[p].status = "PENDING" /\ \A q \in Payments \ {p} : payments'[q] = payments[q]
  BY DEF IInv, TypeOK, InsertRow
<1>2. Ledger!Open(p)
  BY <1>1, StatusMoves DEF InsertRow, Ledger!Open, Ledger!Move
<1> QED
  BY <1>2 DEF LedgerStep, Ledger!Next

\* The writes of a call: a completion, a cancellation, a refund.
RowWrite(cl) ==
  \/ /\ calls[cl].step = "commit"
     /\ payments' = [payments EXCEPT ![calls[cl].payment] = CompletedRow(calls[cl])]
     /\ completed' = completed \cup {calls[cl].payment}
  \/ /\ calls[cl].step = "cancelWrite"
     /\ SetStatus(cl, "CANCELLED")
     /\ completed' = completed
  \/ /\ calls[cl].step = "refundWrite"
     /\ SetStatus(cl, "REFUNDED")
     /\ completed' = completed

\* What the ledger can see of a call is that it ends with its write.
LEMMA CallWrites ==
  ASSUME NEW cl \in Clients, Begin(cl) \/ Continue(cl) \/ Fail(cl)
  PROVE  /\ UNCHANGED statusQueue
         /\ UNCHANGED <<payments, completed>> \/ (RowWrite(cl) /\ Return(cl))
<1>1. UNCHANGED statusQueue
  BY DEF Begin, Lookup, RequestChange, StartCall, Continue, Fail, ReadCode, DiscardCode,
         SpendCode, CheckPending, CommitPayment, ValidationFault, CancelRead, CancelWrite,
         RefundRead, RefundWrite, CheckedRead, WriteBack, ChangeFault, queues
<1>2. CASE Begin(cl) \/ ReadCode(cl) \/ DiscardCode(cl) \/ SpendCode(cl) \/ CheckPending(cl)
           \/ CancelRead(cl) \/ RefundRead(cl)
  <2>1. UNCHANGED <<payments, completed>>
    BY <1>2 DEF Begin, Lookup, RequestChange, StartCall, ReadCode, DiscardCode, SpendCode,
                CheckPending, CancelRead, RefundRead, CheckedRead, data, history
  <2> QED
    BY <1>1, <2>1
<1>3. CASE CommitPayment(cl) \/ CancelWrite(cl) \/ RefundWrite(cl)
  BY <1>1, <1>3 DEF CommitPayment, CancelWrite, RefundWrite, WriteBack, RowWrite, history
<1>4. CASE Fail(cl)
  BY <1>1, <1>4 DEF Fail, ValidationFault, ReportFailure, ChangeFault, RowWrite, data, history
<1> QED
  BY <1>2, <1>3, <1>4 DEF Continue

\* The write of a call is a write to its payment and to nothing else, which is
\* there.
LEMMA WriteFacts ==
  ASSUME IInv, NEW cl \in Clients, RowWrite(cl), Return(cl)
  PROVE  /\ calls[cl].payment \in Payments
         /\ Writes(cl, calls[cl].payment)
         /\ payments[calls[cl].payment].status # "ABSENT"
         /\ payments'[calls[cl].payment].status =
              CASE calls[cl].step = "commit" -> "SUCCESS"
                [] calls[cl].step = "cancelWrite" -> "CANCELLED"
                [] calls[cl].step = "refundWrite" -> "REFUNDED"
<1>1. /\ payments \in [Payments -> Row] /\ calls \in [Clients -> Call]
      /\ CallFits(calls[cl]) /\ RowsFit
      /\ calls[cl].step \in {"commit", "cancelWrite", "refundWrite"}
  BY DEF IInv, TypeOK, WorkFitsRows, RowWrite
<1>2. PICK p \in Payments : p = calls[cl].payment
  BY <1>1 DEF CallFits
<1>3. payments[p].status # "ABSENT"
  BY <1>1, <1>2, OrdersNotNone DEF CallFits, RowsFit
<1>4. \A q \in Payments \ {p} : payments'[q] = payments[q]
  BY <1>1, <1>2 DEF RowWrite, SetStatus
<1>5. calls'[cl] = IdleCall
  BY <1>1 DEF Return
<1>6. CASE calls[cl].step = "commit"
  <2>1. payments'[p].status = "SUCCESS"
    BY <1>1, <1>2, <1>6 DEF RowWrite, CompletedRow
  <2> QED
    BY <1>1, <1>2, <1>3, <1>4, <1>5, <1>6, <2>1 DEF Writes
<1>7. CASE calls[cl].step = "cancelWrite"
  <2>1. payments'[p].status = "CANCELLED"
    BY <1>1, <1>2, <1>7 DEF RowWrite, SetStatus, Row
  <2> QED
    BY <1>1, <1>2, <1>3, <1>4, <1>5, <1>7, <2>1 DEF Writes
<1>8. CASE calls[cl].step = "refundWrite"
  <2>1. payments'[p].status = "REFUNDED"
    BY <1>1, <1>2, <1>8 DEF RowWrite, SetStatus, Row
  <2> QED
    BY <1>1, <1>2, <1>3, <1>4, <1>5, <1>8, <2>1 DEF Writes
<1> QED
  BY <1>1, <1>6, <1>7, <1>8

\* The write of a call that nobody overtook is a completion, a cancellation or a
\* refund the ledger allows.
LEMMA LedgerWrites ==
  ASSUME IInv, NEW cl \in Clients, RowWrite(cl), Return(cl), UNCHANGED statusQueue
  PROVE  LedgerStep \/ LostUpdate
<1>1. PICK p \in Payments : p = calls[cl].payment
  BY WriteFacts
<1>2. Writes(cl, p)
  BY <1>1, WriteFacts
<1>3. CASE Overtaken(cl)
  BY <1>2, <1>3 DEF LostUpdate
<1>4. CASE ~Overtaken(cl)
  <2>1. [q \in Payments |-> payments[q].status]' =
          [[q \in Payments |-> payments[q].status] EXCEPT ![p] = payments'[p].status]
    <3>1. \A q \in Payments \ {p} : payments'[q].status = payments[q].status
      BY <1>2 DEF Writes
    <3> QED
      BY <3>1, StatusMoves
  <2>2. CASE calls[cl].step = "commit"
    <3>1. payments[p].status = "PENDING" /\ payments'[p].status = "SUCCESS" /\ completed' = completed \cup {p}
      BY <1>1, <1>4, <2>2, WriteFacts DEF Overtaken, RowWrite
    <3>2. Ledger!Complete(p)
      BY <2>1, <3>1 DEF Ledger!Complete, Ledger!Move
    <3> QED
      BY <3>2 DEF LedgerStep, Ledger!Next
  <2>3. CASE calls[cl].step = "cancelWrite"
    <3>1. /\ payments[p].status \in {"PENDING", "REFUNDED"} /\ payments'[p].status = "CANCELLED"
          /\ completed' = completed
      BY <1>1, <1>4, <2>3, WriteFacts DEF Overtaken, RowWrite
    <3>2. Ledger!Cancel(p)
      BY <2>1, <3>1 DEF Ledger!Cancel, Ledger!Move
    <3> QED
      BY <3>2 DEF LedgerStep, Ledger!Next
  <2>4. CASE calls[cl].step = "refundWrite"
    <3>1. /\ payments[p].status = "SUCCESS" /\ payments'[p].status = "REFUNDED"
          /\ completed' = completed
      BY <1>1, <1>4, <2>4, WriteFacts DEF Overtaken, RowWrite
    <3>2. Ledger!Refund(p)
      BY <2>1, <3>1 DEF Ledger!Refund, Ledger!Move
    <3> QED
      BY <3>2 DEF LedgerStep, Ledger!Next
  <2> QED
    BY <1>2, <2>2, <2>3, <2>4 DEF Writes
<1> QED
  BY <1>3, <1>4

\* No row of the table is ever FAILED: a failure is only announced.
NoneFailed == \A p \in Payments : payments[p].status # "FAILED"

\* What a step of somebody else than a call does to the rows: it opens one or none.
LEMMA RowsElsewhere ==
  ASSUME IInv,
         \/ \E w \in Workers : (\E o \in Orders : Deliver(w, o)) \/ Consume(w) \/ NackRequest(w)
         \/ \E m \in StatusMessage : PublishStatus(m)
         \/ \E o \in Orders : PublishMail(o)
         \/ \E c \in Codes : AgeCode(c)
         \/ ServiceCrash \/ Rest \/ UNCHANGED vars
  PROVE  /\ LedgerStep
         /\ \A p \in Payments :
              \/ payments'[p] = payments[p]
              \/ payments[p].status = "ABSENT" /\ payments'[p].status = "PENDING"
         /\ \A cl \in Clients : calls'[cl] = calls[cl] \/ calls'[cl] = IdleCall
<1> DEFINE Opens ==
             \A p \in Payments :
               \/ payments'[p] = payments[p]
               \/ payments[p].status = "ABSENT" /\ payments'[p].status = "PENDING"
<1>1. ASSUME NEW w \in Workers, (\E o \in Orders : Deliver(w, o)) \/ Consume(w) \/ NackRequest(w)
      PROVE  LedgerStep /\ Opens /\ calls' = calls
  <2>1. DeliveryFits(deliveries[w])
    BY DEF IInv, WorkFitsRows
  <2>2. calls' = calls
    BY <1>1
       DEF Deliver, Consume, NackRequest, IssueCode, CreateRow, ReportPending, AckRequest
  <2>3. CASE UNCHANGED <<payments, completed, statusQueue>>
    BY <2>2, <2>3, LedgerStutters
  <2>4. ASSUME NEW p \in Payments, InsertRow(p, deliveries[w].order),
               deliveries[w].step = "createRow", UNCHANGED <<completed, statusQueue>>
        PROVE  LedgerStep /\ Opens
    <3>1. LedgerStep
      BY <2>1, <2>4, LedgerOpens DEF DeliveryFits
    <3>2. Opens
      BY <2>4 DEF IInv, TypeOK, InsertRow
    <3> QED
      BY <3>1, <3>2
  <2>5. CASE ReportPending(w)
    <3>1. PICK s \in StatusMessage :
            /\ statusQueue' = Put(statusQueue, s) \/ statusQueue' = statusQueue
            /\ s.type = "PENDING"
      BY <2>1, <2>5, StatusFacts DEF ReportPending, Publish, DeliveryFits
    <3>2. UNCHANGED <<payments, completed>>
      BY <2>5 DEF ReportPending, data
    <3>3. LedgerStep
      BY <3>1, <3>2, LedgerHears, LedgerStutters
    <3> QED
      BY <2>2, <3>2, <3>3
  <2> QED
    BY <1>1, <2>2, <2>3, <2>4, <2>5
       DEF Deliver, Consume, NackRequest, IssueCode, CreateRow, AckRequest, data, history, queues
<1>2. ASSUME NEW m \in StatusMessage, PublishStatus(m)
      PROVE  LedgerStep /\ Opens /\ calls' = calls
  <2>1. UNCHANGED <<payments, completed, calls>> /\ InTransit(m)
    BY <1>2 DEF PublishStatus, InTransit, data
  <2>2. statusQueue' = Put(statusQueue, m) \/ statusQueue' = statusQueue
    BY <1>2 DEF PublishStatus, Publish
  <2>3. LedgerStep
    BY <2>1, <2>2, LedgerHears, LedgerStutters
  <2> QED
    BY <2>1, <2>3
<1>3. CASE \/ \E o \in Orders : PublishMail(o)
           \/ \E c \in Codes : AgeCode(c)
           \/ ServiceCrash \/ Rest \/ UNCHANGED vars
  <2>1. /\ UNCHANGED <<payments, completed, statusQueue>>
        /\ \A cl \in Clients : calls'[cl] = calls[cl] \/ calls'[cl] = IdleCall
    BY <1>3 DEF PublishMail, AgeCode, ServiceCrash, Rest, vars, data, memory, history, queues
  <2>2. LedgerStep
    BY <2>1, LedgerStutters
  <2> QED
    BY <2>1, <2>2
<1> QED
  BY <1>1, <1>2, <1>3

\* Every step keeps the table free of FAILED rows.
LEMMA NoneFailedPreserved == IInv /\ NoneFailed /\ [Next]_vars => NoneFailed'
<1> SUFFICES ASSUME IInv, NoneFailed, [Next]_vars PROVE NoneFailed'
  OBVIOUS
<1>1. ASSUME NEW cl \in Clients, Begin(cl) \/ Continue(cl) \/ Fail(cl)
      PROVE  NoneFailed'
  <2>1. CASE UNCHANGED payments
    BY <2>1 DEF NoneFailed
  <2>2. CASE RowWrite(cl) /\ Return(cl)
    <3>1. PICK p \in Payments : p = calls[cl].payment
      BY <2>2, WriteFacts
    <3>2. payments'[p].status # "FAILED" /\ \A q \in Payments \ {p} : payments'[q] = payments[q]
      BY <2>2, <3>1, WriteFacts DEF Writes
    <3> QED
      BY <3>2 DEF NoneFailed
  <2> QED
    BY <1>1, <2>1, <2>2, CallWrites
<1>2. CASE \/ \E w \in Workers : (\E o \in Orders : Deliver(w, o)) \/ Consume(w) \/ NackRequest(w)
           \/ \E m \in StatusMessage : PublishStatus(m)
           \/ \E o \in Orders : PublishMail(o)
           \/ \E c \in Codes : AgeCode(c)
           \/ ServiceCrash \/ Rest \/ UNCHANGED vars
  BY <1>2, RowsElsewhere DEF NoneFailed
<1> QED
  BY <1>1, <1>2 DEF Next, ServiceNext

\* A call is not overtaken by its own step: it goes on to a write only from a row
\* that allows it.
LEMMA OwnStep ==
  ASSUME IInv, NoneFailed, NEW cl \in Clients, Begin(cl) \/ Continue(cl) \/ Fail(cl)
  PROVE  ~Overtaken(cl)'
<1>a. calls \in [Clients -> Call]
  BY DEF IInv, TypeOK
<1>b. /\ Return(cl) => calls'[cl] = IdleCall
      /\ \A step \in CallStep : GoTo(cl, step) =>
           calls'[cl].step = step /\ calls'[cl].payment = calls[cl].payment
      /\ \A call : StartCall(cl, call) => calls'[cl] = call
  BY <1>a DEF Return, GoTo, StartCall, Call
<1>1. CASE calls'[cl].step \notin {"commit", "cancelWrite", "refundWrite"}
  BY <1>1 DEF Overtaken
<1>2. IdleCall.step = "idle"
  BY DEF IdleCall
<1>3. CASE Begin(cl)
  <2>1. ASSUME NEW o \in Orders, NEW c \in Codes, Lookup(cl, o, c)
        PROVE  calls'[cl].step = "readCode"
    BY <1>b, <2>1 DEF Lookup
  <2>2. ASSUME NEW p \in Payments, NEW step \in {"cancelRead", "refundRead"},
               RequestChange(cl, step, p)
        PROVE  calls'[cl].step = step
    BY <1>b, <2>2 DEF RequestChange
  <2> QED
    BY <1>1, <1>3, <2>1, <2>2 DEF Begin
<1>4. CASE ReadCode(cl) \/ DiscardCode(cl) \/ SpendCode(cl)
  BY <1>1, <1>2, <1>4, <1>b DEF ReadCode, DiscardCode, SpendCode, CallStep
<1>5. CASE CheckPending(cl)
  <2>1. CASE GoTo(cl, "commit") /\ payments[calls[cl].payment].status = "PENDING"
    BY <1>5, <1>b, <2>1 DEF Overtaken, CheckPending, CallStep, data
  <2> QED
    BY <1>1, <1>2, <1>5, <1>b, <2>1 DEF CheckPending, ReportFailure
<1>6. CASE CancelRead(cl)
  <2>1. CASE GoTo(cl, "cancelWrite") /\ payments[calls[cl].payment].status \in Cancellable
    <3>1. calls[cl].payment \in Payments
      BY <1>6 DEF IInv, WorkFitsRows, CallFits, CancelRead, CheckedRead
    <3>2. payments[calls[cl].payment].status \in {"PENDING", "REFUNDED"}
      BY <2>1, <3>1 DEF Cancellable, NoneFailed
    <3> QED
      BY <1>6, <1>b, <2>1, <3>2 DEF Overtaken, CancelRead, CheckedRead, CallStep, data
  <2> QED
    BY <1>1, <1>2, <1>6, <1>b, <2>1 DEF CancelRead, CheckedRead
<1>7. CASE RefundRead(cl)
  <2>1. CASE GoTo(cl, "refundWrite") /\ payments[calls[cl].payment].status \in Refundable
    BY <1>7, <1>b, <2>1 DEF Overtaken, RefundRead, CheckedRead, Refundable, CallStep, data
  <2> QED
    BY <1>1, <1>2, <1>7, <1>b, <2>1 DEF RefundRead, CheckedRead
<1>8. CASE CommitPayment(cl) \/ CancelWrite(cl) \/ RefundWrite(cl) \/ Fail(cl)
  BY <1>1, <1>2, <1>8, <1>b
     DEF CommitPayment, CancelWrite, RefundWrite, WriteBack, Fail, ValidationFault,
         ReportFailure, ChangeFault
<1> QED
  BY <1>3, <1>4, <1>5, <1>6, <1>7, <1>8 DEF Continue

\* A call that is about to write remembers a payment that is there.
LEMMA WriterFits ==
  ASSUME IInv, NEW cl \in Clients, calls[cl].step \in {"commit", "cancelWrite", "refundWrite"}
  PROVE  calls[cl].payment \in Payments /\ payments[calls[cl].payment].status # "ABSENT"
<1>1. CallFits(calls[cl]) /\ RowsFit
  BY DEF IInv, WorkFitsRows
<1> QED
  BY <1>1, OrdersNotNone DEF CallFits, RowsFit

\* Every step of the service is a step of the ledger, none, or a lost update, and
\* only the write of another call to the same payment overtakes a call.
LEMMA LedgerSteps ==
  IInv /\ NoneFailed /\ [Next]_vars => (LedgerStep \/ LostUpdate) /\ OvertakenByCall
<1> SUFFICES ASSUME IInv, NoneFailed, [Next]_vars
             PROVE  (LedgerStep \/ LostUpdate) /\ OvertakenByCall
  OBVIOUS
<1>1. ASSUME NEW cl \in Clients, Begin(cl) \/ Continue(cl) \/ Fail(cl)
      PROVE  (LedgerStep \/ LostUpdate) /\ OvertakenByCall
  <2>1. LedgerStep \/ LostUpdate
    BY <1>1, CallWrites, LedgerWrites, LedgerStutters
  <2>2. ASSUME NEW x \in Clients, ~Overtaken(x), Overtaken(x)'
        PROVE  \E other \in Clients \ {x} : Writes(other, calls[x].payment)
    <3>1. x # cl
      BY <1>1, <2>2, OwnStep
    <3>2. calls'[x] = calls[x]
      BY <1>1, <3>1, CallsMoveAlone DEF IInv
    <3>3. calls[x].step \in {"commit", "cancelWrite", "refundWrite"}
      BY <2>2, <3>2 DEF Overtaken
    <3>4. calls[x].payment \in Payments
      BY <3>3, WriterFits
    <3>5. payments'[calls[x].payment].status # payments[calls[x].payment].status
      BY <2>2, <3>2 DEF Overtaken
    <3>6. RowWrite(cl) /\ Return(cl)
      BY <1>1, <3>5, CallWrites
    <3>7. Writes(cl, calls[cl].payment)
      BY <3>6, WriteFacts
    <3>8. calls[x].payment = calls[cl].payment
      BY <3>4, <3>5, <3>7 DEF Writes
    <3> QED
      BY <3>1, <3>7, <3>8
  <2> QED
    BY <2>1, <2>2 DEF OvertakenByCall
<1>2. CASE \/ \E w \in Workers : (\E o \in Orders : Deliver(w, o)) \/ Consume(w) \/ NackRequest(w)
           \/ \E m \in StatusMessage : PublishStatus(m)
           \/ \E o \in Orders : PublishMail(o)
           \/ \E c \in Codes : AgeCode(c)
           \/ ServiceCrash \/ Rest \/ UNCHANGED vars
  <2>1. LedgerStep
    BY <1>2, RowsElsewhere
  <2>2. ASSUME NEW x \in Clients, ~Overtaken(x), Overtaken(x)'
        PROVE  FALSE
    <3>1. calls'[x] = calls[x]
      <4>1. calls'[x] = calls[x] \/ calls'[x] = IdleCall
        BY <1>2, RowsElsewhere
      <4> QED
        BY <2>2, <4>1 DEF Overtaken, IdleCall
    <3>2. calls[x].step \in {"commit", "cancelWrite", "refundWrite"}
      BY <2>2, <3>1 DEF Overtaken
    <3>3. payments'[calls[x].payment] = payments[calls[x].payment]
      BY <1>2, <3>2, RowsElsewhere, WriterFits
    <3> QED
      BY <2>2, <3>1, <3>3 DEF Overtaken
  <2> QED
    BY <2>1, <2>2 DEF OvertakenByCall
<1> QED
  BY <1>1, <1>2 DEF Next, ServiceNext

\* With any number of calls, errors, crashes and redeliveries at a time, the
\* service departs from the ledger its exceptions promise ("Couldn't cancelled
\* payment since it is already SUCCESS", payment.repository.ts:145) only by writes
\* of calls that another call's write to the same payment overtook, between the
\* check of the row and the write that relies on it.
THEOREM LedgerUnlessOvertakenEver == Spec => LedgerUnlessOvertaken
<1>1. Init => Ledger!Init
  <2> SUFFICES ASSUME Init PROVE Ledger!Init
    OBVIOUS
  <2>1. \A o \in Orders, p \in Payments : ~ (statusQueue[Status("SUCCESS", o, p)] > 0)
    BY StatusFacts DEF Init, NoMessages
  <2> QED
    BY <2>1 DEF Init, ServiceInit, NoRow, Ledger!Init
<1>2. Init => NoneFailed
  BY DEF Init, ServiceInit, NoRow, NoneFailed
<1>3. IInv /\ NoneFailed /\ [Next]_vars => NoneFailed'
  BY NoneFailedPreserved
<1>4. IInv /\ NoneFailed /\ [Next]_vars => (LedgerStep \/ LostUpdate) /\ OvertakenByCall
  BY LedgerSteps
<1> QED
  BY <1>1, <1>2, <1>3, <1>4, Invariance, PTL DEF Spec, LedgerUnlessOvertaken

=============================================================================
