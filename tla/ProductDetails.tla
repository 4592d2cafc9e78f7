---------------------------- MODULE ProductDetails ----------------------------
(***************************************************************************)
(* How an order gets the details of its products: the order service asks   *)
(* over product_request_queue, on a reply queue of its own for each call,  *)
(* and the product service answers.  The asker's channel is the field      *)
(* _channel of one object, which the constructor, the consumer of payment  *)
(* messages and the first calls each may set: the reply queue is made, and *)
(* a message acknowledged, on whatever channel the field holds by then.    *)
(***************************************************************************)
EXTENDS Naturals, FiniteSets, MessageQueue

CONSTANTS
  Calls,       \* calls of createOrder and updateOrder, with their correlation ids
  Empty,       \* the calls that name no product: updates of a status alone
  Channels,    \* channels of the order service
  Answerers,   \* requests the product service works on at a time
  None,
  MaxReplies,  \* bound: answers in a reply queue
  MaxFailures  \* bound: errors and crashes of either service in a behaviour

ASSUME EmptyAssumption == Empty \subseteq Calls
ASSUME NoneAssumption == None \notin Calls \cup Channels

VARIABLES
  channel,     \* _channel
  listening,   \* the channel on which payment messages are consumed
  opening,     \* who is opening a connection, and how far
  calls,       \* the calls, and the channel each made its reply queue on
  doomed,      \* a channel error is on its way, and nobody listens for it
  declared,    \* product_request_queue exists: the product service has run before
  requests,    \* product_request_queue
  lost,        \* history: calls whose request the broker dropped
  replies,     \* how many answers each reply queue holds
  answers,     \* the requests the product service is working on
  failures     \* what the bound counts

orderService == <<channel, listening, opening, calls, doomed>>
productService == <<declared, answers>>
broker == <<requests, lost, replies>>
vars == <<orderService, productService, broker, failures>>

\* The constructor connects, and so does the listener it starts without waiting.
Starters == {"constructor", "listener"}
Openers == Starters \cup Calls
ASSUME StartersAssumption == Starters \cap Calls = {}
OpenStep == {"no", "connect", "declare", "listen"}

NoAnswer == [step |-> "idle", call |-> None]
Answer == {NoAnswer} \cup [step : {"read", "reply", "ack"}, call : Calls]

\* A call has the channel of its reply queue, while there is such a queue.
Call == [step : {"unused", "ensure", "opening", "assert", "returned", "failed"}, on : {None}]
          \cup [step : {"send", "wait", "returned"}, on : Channels]
At(c, step) == calls[c].step = step
InProgress(c) == calls[c].step \notin {"unused", "returned", "failed"}

TypeOK ==
  /\ {channel, listening} \subseteq Channels \cup {None}
  /\ opening \in [Openers -> OpenStep]
  /\ calls \in [Calls -> Call]
  /\ doomed \in BOOLEAN
  /\ declared \in BOOLEAN
  /\ requests \in [Calls -> Nat]
  /\ lost \subseteq Calls
  /\ replies \in [Calls -> 0..MaxReplies]
  /\ answers \in [Answerers -> Answer]
  /\ failures \in 0..MaxFailures

Starting == [o \in Openers |-> IF o \in Starters THEN "connect" ELSE "no"]

Init ==
  /\ channel = None /\ listening = None
  /\ opening = Starting
  /\ calls = [c \in Calls |-> [step |-> "unused", on |-> None]]
  /\ doomed = FALSE
  /\ declared \in BOOLEAN
  /\ requests = NoMessages(Calls)
  /\ lost = {}
  /\ replies = [c \in Calls |-> 0]
  /\ answers = [w \in Answerers |-> NoAnswer]
  /\ failures = 0

Fails == failures < MaxFailures /\ failures' = failures + 1

-----------------------------------------------------------------------------
(***************************************************************************)
(* createConnection, ensureChannel, listenForPaymentRequests               *)
(***************************************************************************)
InUse == {channel, listening} \cup {calls[c].on : c \in Calls}
NewChannel == CHOOSE k \in Channels : k \notin InUse

\* A connection and its channel are there: the field now holds this one.
OpenChannel(o) ==
  /\ opening[o] = "connect"
  /\ ~(Channels \subseteq InUse)
  /\ channel' = NewChannel
  /\ opening' = [opening EXCEPT ![o] = "declare"]
  /\ UNCHANGED <<listening, calls, doomed, productService, broker, failures>>

\* order_reply_queue is there, and createConnection returns.
DeclareReplyQueue(o) ==
  /\ opening[o] = "declare"
  /\ opening' = [opening EXCEPT ![o] = IF o = "listener" THEN "listen" ELSE "no"]
  /\ calls' = IF o \in Calls THEN [calls EXCEPT ![o].step = "assert"] ELSE calls
  /\ UNCHANGED <<channel, listening, doomed, productService, broker, failures>>

\* payment_order_queue is there, and is consumed on what is the channel by now.
Listen ==
  /\ opening["listener"] = "listen"
  /\ listening' = channel
  /\ opening' = [opening EXCEPT !["listener"] = "no"]
  /\ UNCHANGED <<channel, calls, doomed, productService, broker, failures>>

\* A payment message was delivered on one channel and is acknowledged on another.
AckPaymentElsewhere ==
  /\ listening \notin {None, channel}
  /\ ~doomed
  /\ doomed' = TRUE
  /\ UNCHANGED <<channel, listening, opening, calls, productService, broker, failures>>

-----------------------------------------------------------------------------
(***************************************************************************)
(* requestProductDetails                                                   *)
(***************************************************************************)
StepTo(c, step) == calls' = [calls EXCEPT ![c].step = step]

StartCall(c) ==
  /\ At(c, "unused")
  /\ StepTo(c, "ensure")
  /\ UNCHANGED <<channel, listening, opening, doomed, productService, broker, failures>>

\* Mutants of HasChannel: ensureChannel is not awaited, or connects every time.
NotAwaited == TRUE
Reconnected == FALSE
HasChannel == channel # None

EnsureChannel(c) ==
  /\ At(c, "ensure")
  /\ IF HasChannel
     THEN StepTo(c, "assert") /\ UNCHANGED opening
     ELSE StepTo(c, "opening") /\ opening' = [opening EXCEPT ![c] = "connect"]
  /\ UNCHANGED <<channel, listening, doomed, productService, broker, failures>>

\* The exclusive reply queue belongs to the connection of the present channel.
AssertReplyQueue(c) ==
  /\ At(c, "assert")
  /\ calls' = [calls EXCEPT ![c] = [step |-> "send", on |-> channel]]
  /\ UNCHANGED <<channel, listening, opening, doomed, productService, broker, failures>>

\* The request goes out; the broker drops it when there is no queue for it.
Publish(c) ==
  \/ declared /\ requests' = Put(requests, c) /\ UNCHANGED lost
  \/ ~declared /\ lost' = lost \cup {c} /\ UNCHANGED requests

Send(c) ==
  /\ At(c, "send")
  /\ calls[c].on = channel
  /\ StepTo(c, "wait")
  /\ Publish(c)
  /\ UNCHANGED <<channel, listening, opening, doomed, productService, replies, failures>>

\* The channel was replaced meanwhile: the queue is another connection's, the
\* broker refuses its consumer and closes the channel the request went out on.
SendElsewhere(c) ==
  /\ At(c, "send")
  /\ calls[c].on # channel
  /\ StepTo(c, "wait")
  /\ doomed' = TRUE
  /\ UNCHANGED <<channel, listening, opening, productService, broker, failures>>

\* The answer is acknowledged on the present channel, and the promise resolved.
\* The consumer outlives the call, and takes a second answer in the same way.
Receive(c) ==
  /\ replies[c] > 0
  /\ replies' = [replies EXCEPT ![c] = @ - 1]
  /\ calls' = IF At(c, "wait") THEN [calls EXCEPT ![c].step = "returned"] ELSE calls
  /\ doomed' = (doomed \/ calls[c].on # channel)
  /\ UNCHANGED <<channel, listening, opening, productService, requests, lost, failures>>

\* The broker refuses the connection a call opens, or its reply queue.
CallFails(c) ==
  /\ calls[c].step \in {"opening", "assert"}
  /\ Fails
  /\ calls' = [calls EXCEPT ![c] = [step |-> "failed", on |-> None]]
  /\ opening' = [opening EXCEPT ![c] = "no"]
  /\ UNCHANGED <<channel, listening, doomed, productService, broker>>

\* The process ends and is started again; its reply queues end with it.
Restart ==
  /\ channel' = None /\ listening' = None
  /\ opening' = Starting
  /\ calls' = [c \in Calls |-> IF InProgress(c) THEN [step |-> "failed", on |-> None]
                                              ELSE [calls[c] EXCEPT !.on = None]]
  /\ doomed' = FALSE
  /\ replies' = [c \in Calls |-> 0]
  /\ UNCHANGED <<productService, requests, lost>>

Die == doomed /\ Restart /\ UNCHANGED failures
OrderServiceCrash == Fails /\ Restart

-----------------------------------------------------------------------------
(***************************************************************************)
(* listenForProductRequests                                                *)
(***************************************************************************)
Declare ==
  /\ ~declared
  /\ declared' = TRUE
  /\ UNCHANGED <<orderService, answers, broker, failures>>

GoTo(w, step) == answers' = [answers EXCEPT ![w].step = step]

Deliver(w, c) ==
  /\ declared
  /\ answers[w].step = "idle"
  /\ requests[c] > 0
  /\ requests' = Take(requests, c)
  /\ answers' = [answers EXCEPT ![w] = [step |-> "read", call |-> c]]
  /\ UNCHANGED <<orderService, declared, lost, replies, failures>>

\* One query per product; those that do not exist are left out of the answer.
GetProductsByIds(w) ==
  /\ answers[w].step = "read"
  /\ answers[w].call \notin Empty
  /\ GoTo(w, "reply")
  /\ UNCHANGED <<orderService, declared, broker, failures>>

\* Mutant of Nack: the refused request is not requeued.
NackForGood(w) ==
  /\ answers' = [answers EXCEPT ![w] = NoAnswer]
  /\ UNCHANGED <<orderService, declared, requests, lost, replies>>

\* The request goes back to the queue, and is delivered again at once.
Nack(w) ==
  /\ requests' = Put(requests, answers[w].call)
  /\ answers' = [answers EXCEPT ![w] = NoAnswer]
  /\ UNCHANGED <<orderService, declared, lost, replies>>

\* "Product IDs are required.", however often it is delivered.
RefuseEmpty(w) ==
  /\ answers[w].step = "read"
  /\ answers[w].call \in Empty
  /\ Nack(w)
  /\ UNCHANGED failures

ReadFails(w) ==
  /\ answers[w].step = "read"
  /\ Fails
  /\ Nack(w)

\* The broker drops an answer to a reply queue that is gone.
HasReplyQueue(c) == calls[c].step \in {"wait", "returned"} /\ calls[c].on # None

Reply(w) ==
  /\ answers[w].step = "reply"
  /\ replies[answers[w].call] < MaxReplies
  /\ replies' = IF HasReplyQueue(answers[w].call)
                THEN [replies EXCEPT ![answers[w].call] = @ + 1] ELSE replies
  /\ GoTo(w, "ack")
  /\ UNCHANGED <<orderService, declared, requests, lost, failures>>

AckRequest(w) ==
  /\ answers[w].step = "ack"
  /\ answers' = [answers EXCEPT ![w] = NoAnswer]
  /\ UNCHANGED <<orderService, declared, broker, failures>>

\* What the consumer's channel gives back; mutant: automatic acknowledgement.
HeldNothing == [w \in Answerers |-> None]
Held == [w \in Answerers |-> answers[w].call]

ProductServiceCrash ==
  /\ Fails
  /\ requests' = Requeue(requests, Held)
  /\ answers' = [w \in Answerers |-> NoAnswer]
  /\ UNCHANGED <<orderService, declared, lost, replies>>

-----------------------------------------------------------------------------
Open(o) == OpenChannel(o) \/ DeclareReplyQueue(o)
Continue(c) ==
  EnsureChannel(c) \/ AssertReplyQueue(c) \/ Send(c) \/ SendElsewhere(c) \/ Receive(c)
Serve(w) == GetProductsByIds(w) \/ RefuseEmpty(w) \/ Reply(w) \/ AckRequest(w)

InFlight(c) == requests[c] > 0 \/ \E w \in Answerers : answers[w].call = c

\* Nothing is left to do until a client calls or a process crashes.
Quiescent ==
  /\ declared /\ ~doomed
  /\ \A o \in Openers : opening[o] = "no"
  /\ \A c \in Calls : InProgress(c) => At(c, "wait")
  /\ \A c \in Calls : ~InFlight(c) /\ replies[c] = 0
Rest == Quiescent /\ UNCHANGED vars

Next ==
  \/ \E o \in Openers : Open(o)
  \/ Listen \/ AckPaymentElsewhere
  \/ \E c \in Calls : StartCall(c) \/ Continue(c) \/ CallFails(c)
  \/ Die \/ OrderServiceCrash
  \/ Declare
  \/ \E w \in Answerers, c \in Calls : Deliver(w, c)
  \/ \E w \in Answerers : Serve(w) \/ ReadFails(w)
  \/ ProductServiceCrash
  \/ Rest

Spec == Init /\ [][Next]_vars

\* Both processes are started, what was awaited continues, the broker delivers.
\* A request is not passed over for ever although another one keeps coming back.
Fairness ==
  /\ \A o \in Openers : WF_vars(Open(o))
  /\ WF_vars(Listen) /\ WF_vars(Die) /\ WF_vars(Declare)
  /\ \A c \in Calls : WF_vars(Continue(c))
  /\ \A c \in Calls : SF_vars(\E w \in Answerers : Deliver(w, c))
  /\ \A w \in Answerers : WF_vars(Serve(w))
FairSpec == Spec /\ Fairness

-----------------------------------------------------------------------------
(***************************************************************************)
(* Properties                                                              *)
(***************************************************************************)

\* A call that waits has its request in flight or its answer in its queue,
\* wherever the services crashed: unless it asked before the product service had
\* ever run, or its channel was replaced and the process is about to end.
WaiterIsServed ==
  \A c \in Calls : At(c, "wait") => InFlight(c) \/ replies[c] > 0 \/ c \in lost \/ doomed

\* Everybody uses the same channel, and nobody is about to replace it.
Settled ==
  /\ \A o \in Openers : opening[o] = "no"
  /\ channel # None /\ listening = channel /\ ~doomed
  /\ \A c \in Calls : calls[c].on \in {None, channel}

\* The channels can only be mixed up while the order service starts: from the
\* moment everybody uses the same one they do until the process ends.
SettledStaysSettled == [][Settled => Settled' \/ channel' = None]_vars

\* A call that asks for products gets an answer or an error, whatever requests the
\* product service refuses for ever beside it, unless it asked a service that had
\* never run.
AskReturns ==
  \A c \in Calls \ Empty : InProgress(c) ~> ~InProgress(c) \/ c \in lost

=============================================================================
