------------------------ MODULE NotificationService ------------------------
(***************************************************************************)
(* The notification service: the consumers of order_confirmation_queue and *)
(* payment_mail_queue.  A letter is handled by asking the user service for *)
(* the details of its user, over a reply queue of the query's own, and     *)
(* rendering the mail (sending it is commented out in email.service.ts).   *)
(* The handler waits for the answer without a timeout.                     *)
(***************************************************************************)
EXTENDS Naturals, FiniteSets, Sequences, MessageQueue

CONSTANTS
  Users,        \* user ids that orders and payments name
  Kinds,        \* bound: the kinds of letter that are posted
  Queries,      \* correlation ids, each with the reply queue of the same query
  Workers,      \* letters the service handles at a time
  None,
  MaxLetters,   \* bound: letters posted of a kind to a user in a behaviour
  MaxFailures   \* bound: errors and crashes of either service in a behaviour

VARIABLES
  bound,         \* order_confirmation_queue exists: the service has run before
  letterQueue,   \* order_confirmation_queue and payment_mail_queue
  deliveries,    \* the handlers in progress
  declared,      \* user.details.request exists
  queryQueue,    \* user.details.request
  replyQueues,   \* the exclusive reply queues that exist
  replies,       \* what each reply queue holds, oldest first
  lost,          \* history: queries the broker dropped, of this run of the service
  dropped, acked, rendered,  \* history: how many of each letter
  crashed,       \* history: this service has crashed
  posted, failures  \* what the bounds count; posted is by letter

queues == <<letterQueue, queryQueue, replyQueues, replies>>
history == <<lost, dropped, acked, rendered, crashed>>
vars == <<bound, deliveries, declared, queues, history, posted, failures>>

Letter == [kind : Kinds, userId : Users]
User == [userId : Users, addresses : Nat]
Query == [id : Queries, userId : Users]
Delivery == [step : {"idle", "ask", "wait", "render", "ack"}, letter : Letter \cup {None},
             id : Queries \cup {None}, data : User \cup {None}]

NoDelivery == [step |-> "idle", letter |-> None, id |-> None, data |-> None]

ServiceTypeOK ==
  /\ bound \in BOOLEAN
  /\ letterQueue \in [Letter -> Nat]
  /\ deliveries \in [Workers -> Delivery]
  /\ lost \subseteq Queries
  /\ {dropped, acked, rendered} \subseteq [Letter -> Nat]
  /\ crashed \in BOOLEAN
  /\ posted \in [Letter -> 0..MaxLetters]
  /\ failures \in 0..MaxFailures

ServiceInit ==
  /\ bound = FALSE
  /\ letterQueue = NoMessages(Letter)
  /\ deliveries = [w \in Workers |-> NoDelivery]
  /\ queryQueue = NoMessages(Query)
  /\ replyQueues = {}
  /\ replies = [id \in Queries |-> <<>>]
  /\ lost = {}
  /\ dropped = NoMessages(Letter)
  /\ acked = NoMessages(Letter)
  /\ rendered = NoMessages(Letter)
  /\ crashed = FALSE
  /\ posted = NoMessages(Letter)
  /\ failures = 0

-----------------------------------------------------------------------------
(***************************************************************************)
(* Letters arrive                                                          *)
(***************************************************************************)
\* The first start of the service binds the (durable) queue of order mails.
Bind ==
  /\ ~bound
  /\ bound' = TRUE
  /\ UNCHANGED <<deliveries, declared, queues, history, posted, failures>>

\* The order service declares only the exchange it publishes to, so its letters
\* are dropped until the queue is bound; the payment service binds its own.
Kept(l) == bound \/ l.kind = "PAYMENT"

\* The order service or the payment service publishes a letter.
Post(l) ==
  /\ posted[l] < MaxLetters
  /\ posted' = Put(posted, l)
  /\ \/ Kept(l) /\ letterQueue' = Put(letterQueue, l) /\ UNCHANGED dropped
     \/ ~Kept(l) /\ dropped' = Put(dropped, l) /\ UNCHANGED letterQueue
  /\ UNCHANGED <<bound, deliveries, declared, queryQueue, replyQueues, replies,
                 lost, acked, rendered, crashed, failures>>

-----------------------------------------------------------------------------
(***************************************************************************)
(* setupConsumer and requestUserDetails: a letter is handled               *)
(***************************************************************************)
Deliver(w, l) ==
  /\ bound
  /\ deliveries[w].step = "idle"
  /\ letterQueue[l] > 0
  /\ letterQueue' = Take(letterQueue, l)
  /\ deliveries' = [deliveries EXCEPT ![w] = [NoDelivery EXCEPT !.step = "ask", !.letter = l]]
  /\ UNCHANGED <<bound, declared, queryQueue, replyQueues, replies, history,
                 posted, failures>>

\* The reply queue has been made; the query is published and the handler waits.
\* The broker drops a query to a queue that the user service never declared.
Ask(w, id) ==
  /\ deliveries[w].step = "ask"
  /\ replyQueues' = replyQueues \cup {id}
  /\ LET query == [id |-> id, userId |-> deliveries[w].letter.userId] IN
       \/ declared /\ queryQueue' = Put(queryQueue, query) /\ lost' = lost \ {id}
       \/ ~declared /\ UNCHANGED queryQueue /\ lost' = lost \cup {id}
  /\ deliveries' = [deliveries EXCEPT ![w].step = "wait", ![w].id = id]
  /\ UNCHANGED <<bound, declared, letterQueue, replies, dropped, acked, rendered, crashed,
                 posted, failures>>

\* The replies a handler takes for its own: those of its reply queue, which the
\* correlation id confirms.  Mutant: one reply queue and no correlation id.
AnyReply(w) == Queries
Expected(w) == {deliveries[w].id}

Receive(w) ==
  /\ deliveries[w].step = "wait"
  /\ \E id \in Expected(w) :
       /\ replies[id] # <<>>
       /\ replies' = [replies EXCEPT ![id] = Tail(@)]
       /\ deliveries' = [deliveries EXCEPT ![w].step = "render", ![w].data = Head(replies[id])]
  /\ UNCHANGED <<bound, declared, letterQueue, queryQueue, replyQueues, history,
                 posted, failures>>

\* The consumer of a reply queue outlives the query: it takes a second answer,
\* and resolves a promise that is settled.
TakeSecondReply(id) ==
  /\ replies[id] # <<>>
  /\ \A w \in Workers : deliveries[w].step = "wait" => deliveries[w].id # id
  /\ replies' = [replies EXCEPT ![id] = Tail(@)]
  /\ UNCHANGED <<bound, deliveries, declared, letterQueue, queryQueue, replyQueues, history,
                 posted, failures>>

\* An order's confirmation shows an address of the user; without one the mail
\* cannot be written.
Writable(w) == deliveries[w].letter.kind = "CONFIRMATION" => deliveries[w].data.addresses > 0

Render(w) ==
  /\ deliveries[w].step = "render"
  /\ Writable(w)
  /\ rendered' = Put(rendered, deliveries[w].letter)
  /\ deliveries' = [deliveries EXCEPT ![w].step = "ack"]
  /\ UNCHANGED <<bound, declared, queues, lost, dropped, acked, crashed, posted, failures>>

\* Mutant of AckLetter: the consumer acknowledges, then handles.
AckUnread(w) ==
  /\ deliveries[w].step = "ask"
  /\ acked' = Put(acked, deliveries[w].letter)
  /\ deliveries' = [deliveries EXCEPT ![w] = NoDelivery]
  /\ UNCHANGED <<bound, declared, queues, lost, dropped, rendered, crashed, posted, failures>>

AckLetter(w) ==
  /\ deliveries[w].step = "ack"
  /\ acked' = Put(acked, deliveries[w].letter)
  /\ deliveries' = [deliveries EXCEPT ![w] = NoDelivery]
  /\ UNCHANGED <<bound, declared, queues, lost, dropped, rendered, crashed, posted, failures>>

Fails == failures < MaxFailures /\ failures' = failures + 1

\* The handler threw: the letter goes back and is delivered again at once.
Nack(w) ==
  /\ letterQueue' = Put(letterQueue, deliveries[w].letter)
  /\ deliveries' = [deliveries EXCEPT ![w] = NoDelivery]
  /\ UNCHANGED <<bound, declared, queryQueue, replyQueues, replies, history, posted>>

RenderFails(w) ==
  /\ deliveries[w].step = "render"
  /\ ~Writable(w)
  /\ Nack(w)
  /\ UNCHANGED failures

\* Mutant of HandlerFails: what follows the writing of the mail can throw as well.
SendingFails(w) ==
  /\ deliveries[w].step \in {"ask", "render", "ack"}
  /\ Fails
  /\ Nack(w)

\* The broker refuses the reply queue, or the template cannot be read.
HandlerFails(w) ==
  /\ deliveries[w].step \in {"ask", "render"}
  /\ Fails
  /\ Nack(w)

\* What each consumer's channel gives back to the broker.
Held == [w \in Workers |-> deliveries[w].letter]

\* The process dies and is started again; its exclusive queues die with it.
ServiceCrash ==
  /\ Fails
  /\ deliveries' = [w \in Workers |-> NoDelivery]
  /\ letterQueue' = Requeue(letterQueue, Held)
  /\ replyQueues' = {}
  /\ replies' = [id \in Queries |-> <<>>]
  /\ lost' = {}
  /\ crashed' = TRUE
  /\ UNCHANGED <<bound, declared, queryQueue, dropped, acked, rendered, posted>>

-----------------------------------------------------------------------------
Handle(w) == Receive(w) \/ Render(w) \/ RenderFails(w) \/ AckLetter(w)

ServiceNext ==
  \/ Bind
  \/ \E w \in Workers, l \in Letter : Deliver(w, l)
  \/ \E w \in Workers : Handle(w) \/ HandlerFails(w)
  \/ \E id \in Queries : TakeSecondReply(id)
  \/ ServiceCrash

\* A letter the service has not finished with.
Outstanding(l) == letterQueue[l] > 0 \/ \E w \in Workers : deliveries[w].letter = l

\* A handler whose query the broker dropped waits until the process ends.
Unheard(w) == deliveries[w].step = "wait" /\ deliveries[w].id \in lost

=============================================================================
