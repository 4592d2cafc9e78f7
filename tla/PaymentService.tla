--------------------------- MODULE PaymentService ---------------------------
(***************************************************************************)
(* The payment service: the GraphQL mutations validatePayment,             *)
(* cancelPayment and refundPayment, the consumer of order_request_queue,   *)
(* the payments table (Postgres) and the redeemable codes (Redis).         *)
(*                                                                         *)
(* One step is what the service does between two awaits, so a check of a   *)
(* row and the write that relies on it are two steps: Prisma runs its      *)
(* interactive transactions at READ COMMITTED, which does not order them.  *)
(***************************************************************************)
EXTENDS Integers, FiniteSets, MessageQueue

CONSTANTS
  Orders,      \* order ids
  Payments,    \* payment ids (uuids) not yet handed out, or handed out
  Codes,       \* the values a generated six-digit code can take
  Clients,     \* GraphQL calls the service runs at a time
  Workers,     \* deliveries of order_request_queue it runs at a time
  None,        \* null
  MaxCalls,    \* bound: GraphQL calls made in a behaviour
  MaxFaults,   \* bound: database, Redis or publish errors in a behaviour
  MaxCrashes   \* bound: crashes of the process in a behaviour

ASSUME BoundsAssumption ==
  /\ MaxCalls \in Nat
  /\ MaxFaults \in Nat
  /\ MaxCrashes \in Nat
ASSUME NoneAssumption == None \notin Orders \cup Payments \cup Codes

VARIABLES
  payments,      \* the payments table; a row not yet created is "ABSENT"
  codes,         \* Redis: "live", "stale" (past its expiration, TTL not hit), "absent"
  calls,         \* the mutations in progress, one per client
  deliveries,    \* the handlers of order_request_queue in progress
  outbox,        \* status messages being published by promises nobody awaits
  mailOutbox,    \* likewise the confirmation mails
  requestQueue,  \* order_request_queue: orders whose (only) request is ready
  statusQueue,   \* payment_order_queue
  mailQueue,     \* payment_mail_queue, by order
  accepted,      \* history: how often a code was accepted since it was issued
  completed,     \* history: the payments that were ever set to SUCCESS
  lost,          \* history: the status messages that failed to reach the broker
  made, faults, crashes  \* what the bounds count

data    == <<payments, codes>>
memory  == <<calls, deliveries, outbox, mailOutbox>>
queues  == <<requestQueue, statusQueue, mailQueue>>
history == <<accepted, completed, lost>>
budget  == <<made, faults, crashes>>
vars    == <<data, memory, queues, history, budget>>

PaymentStatus == {"PENDING", "FAILED", "SUCCESS", "REFUNDED", "CANCELLED"}
Row == [status : PaymentStatus \cup {"ABSENT"}, orderId : Orders \cup {None}]
StatusMessage ==
  [type : {"PENDING", "SUCCESS", "FAILED"}, orderId : Orders, paymentId : Payments]
CallStep ==
  {"idle", "readCode", "discard", "spend", "check", "commit",
   "cancelRead", "cancelWrite", "refundRead", "refundWrite"}
Call == [step : CallStep, order : Orders \cup {None},
         payment : Payments \cup {None}, code : Codes \cup {None}]
Delivery == [step : {"idle", "issueCode", "createRow", "report", "ack"},
             order : Orders \cup {None}, payment : Payments \cup {None}]

NoRow      == [status |-> "ABSENT", orderId |-> None]
IdleCall   == [step |-> "idle", order |-> None, payment |-> None, code |-> None]
NoDelivery == [step |-> "idle", order |-> None, payment |-> None]
Status(type, o, p) == [type |-> type, orderId |-> o, paymentId |-> p]

TypeOK ==
  /\ payments \in [Payments -> Row]
  /\ codes \in [Codes -> {"absent", "live", "stale"}]
  /\ calls \in [Clients -> Call]
  /\ deliveries \in [Workers -> Delivery]
  /\ outbox \in [StatusMessage -> Nat]
  /\ mailOutbox \in [Orders -> Nat]
  /\ requestQueue \subseteq Orders
  /\ statusQueue \in [StatusMessage -> Nat]
  /\ mailQueue \in [Orders -> Nat]
  /\ accepted \in [Codes -> Nat]
  /\ completed \subseteq Payments
  /\ lost \subseteq StatusMessage
  /\ made \in 0..MaxCalls
  /\ faults \in 0..MaxFaults
  /\ crashes \in 0..MaxCrashes

\* An empty database and a process that has just started.
ServiceInit ==
  /\ payments = [p \in Payments |-> NoRow]
  /\ codes = [c \in Codes |-> "absent"]
  /\ calls = [cl \in Clients |-> IdleCall]
  /\ deliveries = [w \in Workers |-> NoDelivery]
  /\ outbox = NoMessages(StatusMessage)
  /\ mailOutbox = NoMessages(Orders)
  /\ mailQueue = NoMessages(Orders)
  /\ accepted = [c \in Codes |-> 0]
  /\ completed = {}
  /\ lost = {}
  /\ made = 0
  /\ faults = 0
  /\ crashes = 0

\* On its own, the service finds one request per order in its queue.
Init ==
  /\ ServiceInit
  /\ requestQueue = Orders
  /\ statusQueue = NoMessages(StatusMessage)

-----------------------------------------------------------------------------
(***************************************************************************)
(* validatePayment(orderId, code)                                          *)
(***************************************************************************)
\* A call starts: what the client sent is all it knows.
StartCall(cl, call) ==
  /\ calls[cl].step = "idle"
  /\ made < MaxCalls
  /\ made' = made + 1
  /\ calls' = [calls EXCEPT ![cl] = call]
  /\ UNCHANGED <<data, deliveries, outbox, mailOutbox, queues, history, faults, crashes>>

Return(cl) == calls' = [calls EXCEPT ![cl] = IdleCall]
GoTo(cl, step) == calls' = [calls EXCEPT ![cl].step = step]

\* Mutant of Lookup: the filter on the order is forgotten.
LookupAnyRow(cl, o, c) ==
  \E p \in Payments :
    StartCall(cl, [step |-> "readCode", order |-> o, payment |-> p, code |-> c])

\* getPaymentByOrderId: findFirst takes any row of the order.  An order without
\* a row makes the call throw and changes nothing.
Lookup(cl, o, c) ==
  \E p \in Payments :
    /\ payments[p].orderId = o
    /\ StartCall(cl, [step |-> "readCode", order |-> o, payment |-> p, code |-> c])

\* RedisCache.get(code), the not-found return and the expiration check.
ReadCode(cl) ==
  /\ calls[cl].step = "readCode"
  /\ \/ /\ codes[calls[cl].code] = "absent"
        /\ Return(cl)
     \/ /\ codes[calls[cl].code] = "stale"
        /\ GoTo(cl, "discard")
     \/ /\ codes[calls[cl].code] = "live"
        /\ GoTo(cl, "spend")
  /\ UNCHANGED <<data, deliveries, outbox, mailOutbox, queues, history, budget>>

\* Mutant of DeleteCode: the code stays redeemable.
KeepCode(c) == UNCHANGED codes

DeleteCode(c) == codes' = [codes EXCEPT ![c] = "absent"]

DiscardCode(cl) ==
  /\ calls[cl].step = "discard"
  /\ DeleteCode(calls[cl].code)
  /\ Return(cl)
  /\ UNCHANGED <<payments, deliveries, outbox, mailOutbox, queues, history, budget>>

\* RedisCache.del(code) says nothing of whether the key was still there.
SpendCode(cl) ==
  /\ calls[cl].step = "spend"
  /\ DeleteCode(calls[cl].code)
  /\ accepted' = [accepted EXCEPT ![calls[cl].code] = @ + 1]
  /\ GoTo(cl, "check")
  /\ UNCHANGED <<payments, deliveries, outbox, mailOutbox, queues, completed, lost, budget>>

\* The catch block: a FAILED message goes out, unawaited, and the call throws.
ReportFailure(cl) ==
  /\ outbox' = Put(outbox, Status("FAILED", calls[cl].order, calls[cl].payment))
  /\ Return(cl)

\* Mutant of CheckPending: the success is announced before it is committed.
AnnounceEarly(cl) ==
  /\ calls[cl].step = "check"
  /\ payments[calls[cl].payment].status = "PENDING"
  /\ GoTo(cl, "commit")
  /\ outbox' = Put(outbox, Status("SUCCESS", calls[cl].order, calls[cl].payment))
  /\ UNCHANGED <<data, deliveries, mailOutbox, queues, history, budget>>

\* completePayment reads the row and refuses one that is not PENDING.
CheckPending(cl) ==
  /\ calls[cl].step = "check"
  /\ \/ /\ payments[calls[cl].payment].status = "PENDING"
        /\ GoTo(cl, "commit")
        /\ UNCHANGED outbox
     \/ /\ payments[calls[cl].payment].status # "PENDING"
        /\ ReportFailure(cl)
  /\ UNCHANGED <<data, deliveries, mailOutbox, queues, history, budget>>

CompletedRow(call) == [status |-> "SUCCESS", orderId |-> call.order]

\* Mutant of CommitPayment: nobody is told.
CommitSilently(cl) ==
  /\ calls[cl].step = "commit"
  /\ payments' = [payments EXCEPT ![calls[cl].payment] = CompletedRow(calls[cl])]
  /\ completed' = completed \cup {calls[cl].payment}
  /\ Return(cl)
  /\ UNCHANGED <<codes, deliveries, outbox, mailOutbox, queues, accepted, lost, budget>>

\* The update of the row commits; the status message and the mail start.
CommitPayment(cl) ==
  /\ calls[cl].step = "commit"
  /\ payments' = [payments EXCEPT ![calls[cl].payment] = CompletedRow(calls[cl])]
  /\ completed' = completed \cup {calls[cl].payment}
  /\ outbox' = Put(outbox, Status("SUCCESS", calls[cl].order, calls[cl].payment))
  /\ mailOutbox' = Put(mailOutbox, calls[cl].order)
  /\ Return(cl)
  /\ UNCHANGED <<codes, deliveries, queues, accepted, lost, budget>>

Fault == faults < MaxFaults /\ faults' = faults + 1

\* An error of Redis or of the database, whose operation may still have
\* happened: the reply is what got lost, and of a payment that is completed all
\* the same only the failure is announced.
ValidationFault(cl) ==
  /\ Fault
  /\ calls[cl].step \in {"readCode", "discard", "spend", "check", "commit"}
  /\ \/ UNCHANGED <<data, completed, lost>>
     \/ /\ calls[cl].step \in {"discard", "spend"}
        /\ DeleteCode(calls[cl].code)
        /\ UNCHANGED <<payments, completed, lost>>
     \/ /\ calls[cl].step = "commit"
        /\ payments' = [payments EXCEPT ![calls[cl].payment] = CompletedRow(calls[cl])]
        /\ completed' = completed \cup {calls[cl].payment}
        /\ lost' = lost \cup {Status("SUCCESS", calls[cl].order, calls[cl].payment)}
        /\ UNCHANGED codes
  /\ ReportFailure(cl)
  /\ UNCHANGED <<deliveries, mailOutbox, queues, accepted, made, crashes>>

-----------------------------------------------------------------------------
(***************************************************************************)
(* cancelPayment(paymentId) and refundPayment(paymentId)                   *)
(***************************************************************************)
RequestChange(cl, step, p) ==
  StartCall(cl, [step |-> step, order |-> None, payment |-> p, code |-> None])

\* The read of a transition, and its guard: throw, or go on to the write.
CheckedRead(cl, read, allowed, write) ==
  /\ calls[cl].step = read
  /\ \/ /\ payments[calls[cl].payment].status \in allowed
        /\ GoTo(cl, write)
     \/ /\ payments[calls[cl].payment].status \notin allowed
        /\ Return(cl)
  /\ UNCHANGED <<data, deliveries, outbox, mailOutbox, queues, history, budget>>

SetStatus(cl, status) ==
  payments' = [payments EXCEPT ![calls[cl].payment].status = status]

WriteBack(cl, write, status) ==
  /\ calls[cl].step = write
  /\ SetStatus(cl, status)
  /\ Return(cl)
  /\ UNCHANGED <<codes, deliveries, outbox, mailOutbox, queues, history, budget>>

\* Mutant of Cancellable: a paid payment can be cancelled.
CancellablePaid == {"PENDING", "FAILED", "SUCCESS", "REFUNDED"}

Cancellable == {"PENDING", "FAILED", "REFUNDED"}
CancelRead(cl)  == CheckedRead(cl, "cancelRead", Cancellable, "cancelWrite")
CancelWrite(cl) == WriteBack(cl, "cancelWrite", "CANCELLED")

\* Mutant of Refundable: a payment that waits for its code can be refunded.
RefundablePending == {"PENDING", "SUCCESS"}

Refundable == {"SUCCESS"}
RefundRead(cl)  == CheckedRead(cl, "refundRead", Refundable, "refundWrite")
RefundWrite(cl) == WriteBack(cl, "refundWrite", "REFUNDED")

\* The database fails; a failing write may have been applied.
ChangeFault(cl) ==
  /\ Fault
  /\ calls[cl].step \in {"cancelRead", "cancelWrite", "refundRead", "refundWrite"}
  /\ \/ UNCHANGED payments
     \/ calls[cl].step = "cancelWrite" /\ SetStatus(cl, "CANCELLED")
     \/ calls[cl].step = "refundWrite" /\ SetStatus(cl, "REFUNDED")
  /\ Return(cl)
  /\ UNCHANGED <<codes, deliveries, outbox, mailOutbox, queues, history, made, crashes>>

-----------------------------------------------------------------------------
(***************************************************************************)
(* The consumer of order_request_queue                                     *)
(***************************************************************************)
Deliver(w, o) ==
  /\ deliveries[w].step = "idle"
  /\ o \in requestQueue
  /\ requestQueue' = requestQueue \ {o}
  /\ deliveries' = [deliveries EXCEPT
                      ![w] = [step |-> "issueCode", order |-> o, payment |-> None]]
  /\ UNCHANGED <<data, calls, outbox, mailOutbox, statusQueue, mailQueue, history, budget>>

StoreCode(c) ==
  /\ codes' = [codes EXCEPT ![c] = "live"]
  /\ accepted' = [accepted EXCEPT ![c] = 0]

\* generateQRCode: a random code overwrites whatever Redis holds under it.
IssueCode(w) ==
  /\ deliveries[w].step = "issueCode"
  /\ \E c \in Codes : StoreCode(c)
  /\ deliveries' = [deliveries EXCEPT ![w].step = "createRow"]
  /\ UNCHANGED <<payments, calls, outbox, mailOutbox, queues, completed, lost, budget>>

\* Mutant of InsertRow: an id that is taken is written over.
UpsertRow(p, o) == payments' = [payments EXCEPT ![p] = [status |-> "PENDING", orderId |-> o]]

InsertRow(p, o) ==
  /\ payments[p].status = "ABSENT"
  /\ payments' = [payments EXCEPT ![p] = [status |-> "PENDING", orderId |-> o]]

\* createPayment: no constraint of the table makes an order's row unique.
CreateRow(w) ==
  /\ deliveries[w].step = "createRow"
  /\ \E p \in Payments :
       /\ InsertRow(p, deliveries[w].order)
       /\ deliveries' = [deliveries EXCEPT ![w].step = "report", ![w].payment = p]
  /\ UNCHANGED <<codes, calls, outbox, mailOutbox, queues, history, budget>>

\* responsePaymentStatusToOrder: an error is logged and the message is lost.
Publish(m) ==
  \/ /\ statusQueue' = Put(statusQueue, m)
     /\ UNCHANGED <<lost, faults>>
  \/ /\ Fault
     /\ lost' = lost \cup {m}
     /\ UNCHANGED statusQueue

\* The publication is awaited here, but no error of it comes out.
ReportPending(w) ==
  /\ deliveries[w].step = "report"
  /\ Publish(Status("PENDING", deliveries[w].order, deliveries[w].payment))
  /\ deliveries' = [deliveries EXCEPT ![w].step = "ack"]
  /\ UNCHANGED <<data, calls, outbox, mailOutbox, requestQueue, mailQueue,
                 accepted, completed, made, crashes>>

\* Mutant of AckRequest: the message is given back instead.
NackAnswered(w) ==
  /\ deliveries[w].step = "ack"
  /\ deliveries' = [deliveries EXCEPT ![w] = NoDelivery]
  /\ requestQueue' = requestQueue \cup {deliveries[w].order}
  /\ UNCHANGED <<data, calls, outbox, mailOutbox, statusQueue, mailQueue, history, budget>>

AckRequest(w) ==
  /\ deliveries[w].step = "ack"
  /\ deliveries' = [deliveries EXCEPT ![w] = NoDelivery]
  /\ UNCHANGED <<data, calls, outbox, mailOutbox, queues, history, budget>>

\* An error before the report: nack with requeue, keeping what was done so far,
\* which may include the operation that failed.
NackRequest(w) ==
  /\ Fault
  /\ \/ /\ deliveries[w].step \in {"issueCode", "createRow"}
        /\ UNCHANGED <<data, accepted>>
     \/ /\ deliveries[w].step = "issueCode"
        /\ \E c \in Codes : StoreCode(c)
        /\ UNCHANGED payments
     \/ /\ deliveries[w].step = "createRow"
        /\ \E p \in Payments : InsertRow(p, deliveries[w].order)
        /\ UNCHANGED <<codes, accepted>>
  /\ requestQueue' = requestQueue \cup {deliveries[w].order}
  /\ deliveries' = [deliveries EXCEPT ![w] = NoDelivery]
  /\ UNCHANGED <<calls, outbox, mailOutbox, statusQueue, mailQueue, completed, lost,
                 made, crashes>>

-----------------------------------------------------------------------------
(***************************************************************************)
(* The unawaited publications, time, and crashes                           *)
(***************************************************************************)
PublishStatus(m) ==
  /\ outbox[m] > 0
  /\ outbox' = Take(outbox, m)
  /\ Publish(m)
  /\ UNCHANGED <<data, calls, deliveries, mailOutbox, requestQueue, mailQueue,
                 accepted, completed, made, crashes>>

\* requestPaymentConfirmationMail: an error is logged and the mail is lost.
PublishMail(o) ==
  /\ mailOutbox[o] > 0
  /\ mailOutbox' = Take(mailOutbox, o)
  /\ \/ mailQueue' = Put(mailQueue, o) /\ UNCHANGED faults
     \/ Fault /\ UNCHANGED mailQueue
  /\ UNCHANGED <<data, calls, deliveries, outbox, requestQueue, statusQueue, history,
                 made, crashes>>

\* The TTL is as long as the expiration but starts when Redis stores the key, so
\* a code outlives its expiration for a moment.
AgeCode(c) ==
  /\ \/ codes[c] = "live"  /\ codes' = [codes EXCEPT ![c] = "stale"]
     \/ codes[c] = "stale" /\ codes' = [codes EXCEPT ![c] = "absent"]
  /\ UNCHANGED <<payments, memory, queues, history, budget>>

\* Mutant of Unacknowledged: automatic acknowledgement, nothing comes back.
AutoAcknowledged == {}

\* Mutant of Unacknowledged: idle consumers give back a message as well.
EveryDelivery == {deliveries[w].order : w \in Workers}

\* What the broker makes ready again when the consumers' channels die.
Unacknowledged == {deliveries[w].order : w \in {v \in Workers : deliveries[v].step # "idle"}}

\* The process dies and is started again: its promises are gone, the requests
\* it had not acknowledged are ready again, databases and broker keep theirs.
ServiceCrash ==
  /\ crashes < MaxCrashes
  /\ crashes' = crashes + 1
  /\ calls' = [cl \in Clients |-> IdleCall]
  /\ requestQueue' = requestQueue \cup Unacknowledged
  /\ deliveries' = [w \in Workers |-> NoDelivery]
  /\ lost' = lost \cup {m \in StatusMessage : outbox[m] > 0}
  /\ outbox' = NoMessages(StatusMessage)
  /\ mailOutbox' = NoMessages(Orders)
  /\ UNCHANGED <<data, statusQueue, mailQueue, accepted, completed, made, faults>>

\* Nothing is left to do until a user asks for something.
Quiescent ==
  /\ \A cl \in Clients : calls[cl].step = "idle"
  /\ \A w \in Workers : deliveries[w].step = "idle"
  /\ \A m \in StatusMessage : outbox[m] = 0
  /\ \A o \in Orders : mailOutbox[o] = 0
  /\ requestQueue = {}
Rest == Quiescent /\ UNCHANGED vars

-----------------------------------------------------------------------------
(***************************************************************************)
(* The queries: each is one read of the table, answered with the payments  *)
(* it finds.  A row keeps the user who came with its order, so that a user  *)
(* is here the set of the orders they placed.                              *)
(***************************************************************************)
Stored == {p \in Payments : payments[p].status # "ABSENT"}

\* findUnique: one payment, or an error when there is none.
getPaymentById(p) == Stored \cap {p}

getPaymentByUserId(placed) == {p \in Stored : payments[p].orderId \in placed}
getPaymentByStatus(status) == {p \in Stored : payments[p].status = status}

\* getPaymentByOrderId answers any of these; when there are none, it throws.
RowsOf(o) == {p \in Payments : payments[p].orderId = o}

-----------------------------------------------------------------------------
Begin(cl) ==
  \/ \E o \in Orders, c \in Codes : Lookup(cl, o, c)
  \/ \E p \in Payments, step \in {"cancelRead", "refundRead"} : RequestChange(cl, step, p)
Continue(cl) ==
  \/ ReadCode(cl) \/ DiscardCode(cl) \/ SpendCode(cl) \/ CheckPending(cl) \/ CommitPayment(cl)
  \/ CancelRead(cl) \/ CancelWrite(cl) \/ RefundRead(cl) \/ RefundWrite(cl)
Fail(cl) == ValidationFault(cl) \/ ChangeFault(cl)
Consume(w) == IssueCode(w) \/ CreateRow(w) \/ ReportPending(w) \/ AckRequest(w)

ServiceNext ==
  \/ \E cl \in Clients : Begin(cl) \/ Continue(cl) \/ Fail(cl)
  \/ \E w \in Workers, o \in Orders : Deliver(w, o)
  \/ \E w \in Workers : Consume(w) \/ NackRequest(w)
  \/ \E m \in StatusMessage : PublishStatus(m)
  \/ \E o \in Orders : PublishMail(o)
  \/ \E c \in Codes : AgeCode(c)
  \/ ServiceCrash
Next == ServiceNext \/ Rest

Spec == Init /\ [][Next]_vars

\* The event loop runs the continuation of every promise that settles and the
\* broker hands every ready message to a consumer; users owe nothing.
ServiceFairness ==
  /\ \A cl \in Clients : WF_vars(Continue(cl))
  /\ \A o \in Orders : WF_vars(\E w \in Workers : Deliver(w, o))
  /\ \A w \in Workers : WF_vars(Consume(w))
  /\ \A m \in StatusMessage : WF_vars(PublishStatus(m))
  /\ \A o \in Orders : WF_vars(PublishMail(o))
FairSpec == Spec /\ ServiceFairness

-----------------------------------------------------------------------------
(***************************************************************************)
(* Safety                                                                  *)
(***************************************************************************)
\* A status message on its way: published, or being published.
InTransit(m) == outbox[m] > 0 \/ statusQueue[m] > 0

\* Whatever the order service hears names the order its payment belongs to, and
\* it hears of a success, as the user does by mail, only after the row was
\* committed (qr.service.ts sends both after completePayment returned).
NewsIsTrue ==
  /\ \A m \in StatusMessage : InTransit(m) =>
       /\ payments[m.paymentId].orderId = m.orderId
       /\ m.type = "SUCCESS" => m.paymentId \in completed
  /\ \A o \in Orders : mailOutbox[o] > 0 \/ mailQueue[o] > 0 =>
       \E p \in completed : payments[p].orderId = o

\* A refund gives back money that was paid: the guard of refundPayment is read
\* in one step and relied on in a later one, and concurrent cancellations,
\* redeliveries and crashes in between never make it refund an unpaid payment.
RefundedWasPaid == \A p \in Payments : payments[p].status = "REFUNDED" => p \in completed

\* The calls that found the code and are about to accept it.
Finders(c) == {cl \in Clients : calls[cl].step = "spend" /\ calls[cl].code = c}

BeforeRow(o) ==
  \/ o \in requestQueue
  \/ \E w \in Workers : /\ deliveries[w].order = o
                        /\ deliveries[w].step \in {"issueCode", "createRow"}

\* An order gets one payment row, and one more only for a delivery of its
\* request that was refused or lost in a crash (nothing in createPayment looks
\* for an earlier row; only the acknowledgement keeps the handler from running
\* again).
OneRowPerDelivery ==
  \A o \in Orders :
    Cardinality(RowsOf(o)) + (IF BeforeRow(o) THEN 1 ELSE 0) <= 1 + faults + crashes

\* Nobody finds a code that was accepted ("Code not found or already used",
\* qr.service.ts:121), and of the calls that had found it before, which the
\* deletion does not stop, each accepts it once: a code is accepted no more often
\* than there are calls running at a time, so once where they run one by one.
AcceptedByFinders ==
  \A c \in Codes :
    /\ accepted[c] > 0 => codes[c] = "absent"
    /\ accepted[c] + Cardinality(Finders(c)) <= Cardinality(Clients)

\* What keeps NewsIsTrue and RefundedWasPaid true at every step, whatever
\* errors, crashes and races happen: a row has an order as long as it exists and
\* was completed if it says so; a call in progress and the handler of a request
\* hold on to a row of the order they were asked about.
RowsFit ==
  \A p \in Payments :
    /\ payments[p].status = "ABSENT" <=> payments[p].orderId = None
    /\ payments[p].status \in {"SUCCESS", "REFUNDED"} => p \in completed
    /\ p \in completed => payments[p].status \notin {"ABSENT", "PENDING"}
CallFits(call) ==
  /\ call.step \in {"readCode", "discard", "spend", "check", "commit"} =>
       /\ call.order \in Orders
       /\ call.code \in Codes
       /\ call.payment \in Payments
       /\ payments[call.payment].orderId = call.order
  /\ call.step \in {"cancelRead", "cancelWrite", "refundRead", "refundWrite"} =>
       call.payment \in Payments
  /\ call.step = "cancelWrite" => payments[call.payment].orderId # None
  /\ call.step = "refundWrite" => call.payment \in completed
DeliveryFits(d) ==
  /\ d.step # "idle" => d.order \in Orders
  /\ d.step \in {"report", "ack"} =>
       /\ d.payment \in Payments
       /\ payments[d.payment].orderId = d.order
WorkFitsRows ==
  /\ RowsFit
  /\ \A cl \in Clients : CallFits(calls[cl])
  /\ \A w \in Workers : DeliveryFits(deliveries[w])

(***************************************************************************)
(* Action properties                                                       *)
(***************************************************************************)
\* A payment never moves to another order, is never deleted, and once it has
\* left PENDING never waits for a code again, whatever call was decided on an
\* old read of it.
NeverReopened ==
  \A p \in Payments : payments[p].status # "ABSENT" =>
    /\ payments'[p].orderId = payments[p].orderId
    /\ payments'[p].status # "ABSENT"
    /\ payments[p].status # "PENDING" => payments'[p].status # "PENDING"
PaymentNeverReopened == [][NeverReopened]_vars

\* "Couldn't cancelled payment since it is already SUCCESS"
\* (payment.repository.ts:145): a paid payment is refunded, never cancelled.
PaidNeverCancelled ==
  [][\A p \in Payments : payments[p].status = "SUCCESS" =>
       payments'[p].status # "CANCELLED"]_vars

\* The ledger the exceptions of the service promise.
Ledger == INSTANCE PaymentLedger WITH
  status    <- [p \in Payments |-> payments[p].status],
  paid      <- completed,
  announced <- {p \in Payments : \E o \in Orders : statusQueue[Status("SUCCESS", o, p)] > 0}

\* A call about to write a payment that the ledger would not let it write: the
\* row it read is no longer what the table holds.
Overtaken(cl) ==
  LET status == payments[calls[cl].payment].status IN
  \/ calls[cl].step = "commit"      /\ status # "PENDING"
  \/ calls[cl].step = "cancelWrite" /\ status \notin {"PENDING", "REFUNDED"}
  \/ calls[cl].step = "refundWrite" /\ status # "SUCCESS"

\* The call ends with its write to the payment p, and to nothing else.
Writes(cl, p) ==
  /\ calls[cl].step \in {"commit", "cancelWrite", "refundWrite"}
  /\ calls[cl].payment = p
  /\ calls'[cl] = IdleCall
  /\ \A q \in Payments \ {p} : payments'[q] = payments[q]

LedgerStep == Ledger!Next \/ UNCHANGED Ledger!vars
LostUpdate == \E cl \in Clients, p \in Payments : Overtaken(cl) /\ Writes(cl, p)
OvertakenByCall ==
  \A cl \in Clients : ~Overtaken(cl) /\ Overtaken(cl)' =>
    \E other \in Clients \ {cl} : Writes(other, calls[cl].payment)

\* The service implements the ledger, with any number of calls, errors, crashes
\* and redeliveries at a time, but for one kind of step, the lost update: the
\* write of a call that was overtaken, and what overtakes a call is only ever the
\* write of another call to the same payment.  (Hence calls that do not overlap
\* implement the ledger as it is.)
LedgerUnlessOvertaken ==
  /\ Ledger!Init
  /\ [][(LedgerStep \/ LostUpdate) /\ OvertakenByCall]_vars

(***************************************************************************)
(* Liveness                                                                *)
(***************************************************************************)
\* Every request that reached the broker ends in a payment the order's user can
\* pay, whatever errors and crashes interrupt its handling.
RequestsAnswered == \A o \in Orders : o \in requestQueue ~> RowsOf(o) # {}

Announced(p) == \E o \in Orders : statusQueue[Status("SUCCESS", o, p)] > 0

\* The announcement of the payment's success failed to reach the broker.
SuccessLost(p) == \E o \in Orders : Status("SUCCESS", o, p) \in lost

\* A completed payment is announced to the order service, whatever errors and
\* crashes hit the service before, after and beside its announcement: only an
\* error or a crash that hits the announcement of this very payment can keep it
\* from the broker (nothing retries it, intermessage.service.ts:129).
PaidIsAnnounced ==
  \A p \in Payments : p \in completed ~> Announced(p) \/ SuccessLost(p)

=============================================================================
