-------------------------- MODULE ProductDetailsProofs --------------------------
(***************************************************************************)
(* Theorems about ProductDetails, for any number of calls, channels and    *)
(* answerers and any bounds: type correctness, that a call which waits is  *)
(* served, and that the channels can be mixed up only while the order      *)
(* service starts.                                                         *)
(*                                                                         *)
(* WaiterIsServed is not inductive: an answerer that only has to           *)
(* acknowledge counts as a request in flight, so the invariant says that   *)
(* its answer is there by then (Served).  The action property needs that   *)
(* an answer is only ever in the queue of a call that has one (QueueOwned) *)
(* and that nobody goes on without the channel it waited for (ChannelThere).*)
(***************************************************************************)
EXTENDS ProductDetails, FiniteSetTheorems, TLAPS

Working(c) ==
  \E w \in Answerers : answers[w].call = c /\ answers[w].step \in {"read", "reply"}

Served ==
  \A c \in Calls : At(c, "wait") =>
    requests[c] > 0 \/ Working(c) \/ replies[c] > 0 \/ c \in lost \/ doomed

QueueOwned == \A c \in Calls : replies[c] > 0 => calls[c].on # None

OpenersWait == \A c \in Calls : opening[c] # "no" => At(c, "opening")

ChannelThere ==
  /\ \A o \in Openers : opening[o] = "declare" => channel # None
  /\ \A c \in Calls : At(c, "assert") => channel # None

Opening == OpenersWait /\ ChannelThere

IInv == TypeOK /\ Opening /\ Served /\ QueueOwned

\* What the theorems ask of the constants.
Bounds == MaxReplies \in Nat /\ MaxFailures \in Nat /\ IsFiniteSet(Answerers)

-----------------------------------------------------------------------------
(***************************************************************************)
(* Calls, answers and queues                                               *)
(***************************************************************************)
WithQueue == [step : {"send", "wait", "returned"}, on : Channels]
NoQueue == [step : {"unused", "ensure", "opening", "assert", "returned", "failed"}, on : {None}]

\* A call has a channel while it has a reply queue.
LEMMA CallFacts ==
  ASSUME NEW call \in Call
  PROVE  /\ call.on \in Channels \cup {None}
         /\ call.step \in {"send", "wait"} => call \in WithQueue /\ call.on \in Channels
         /\ call.step \in {"unused", "ensure", "opening", "assert", "failed"} =>
              call \in NoQueue /\ call.on = None
         /\ call.on = None \/ call \in WithQueue
BY NoneAssumption DEF Call, WithQueue, NoQueue

\* The steps of a call keep it well-formed.
LEMMA StepFacts ==
  ASSUME NEW call \in Call, NEW step,
         \/ call.step = "unused" /\ step = "ensure"
         \/ call.step = "ensure" /\ step \in {"assert", "opening"}
         \/ call.step = "opening" /\ step = "assert"
         \/ call.step = "send" /\ step = "wait"
         \/ call.step = "wait" /\ step = "returned"
  PROVE  /\ [call EXCEPT !.step = step] \in Call
         /\ [call EXCEPT !.step = step].step = step
         /\ [call EXCEPT !.step = step].on = call.on
<1>1. CASE call.step \in {"send", "wait"}
  <2>1. call \in WithQueue
    BY <1>1, CallFacts
  <2> QED
    BY <1>1, <2>1 DEF Call, WithQueue
<1>2. CASE call.step \in {"unused", "ensure", "opening"}
  <2>1. call \in NoQueue
    BY <1>2, CallFacts
  <2> QED
    BY <1>2, <2>1 DEF Call, NoQueue
<1> QED
  BY <1>1, <1>2

\* A call that ended loses its reply queue and keeps its end.
LEMMA WithoutQueue ==
  ASSUME NEW call \in Call, call.step \in {"unused", "returned", "failed"}
  PROVE  [call EXCEPT !.on = None] \in Call /\ [call EXCEPT !.on = None].step = call.step
BY DEF Call

LEMMA AnswerFacts ==
  ASSUME NEW answer \in Answer
  PROVE  answer = NoAnswer \/ answer \in [step : {"read", "reply", "ack"}, call : Calls]
BY DEF Answer

LEMMA PutFacts ==
  ASSUME NEW queue \in [Calls -> Nat], NEW c \in Calls
  PROVE  /\ Put(queue, c) \in [Calls -> Nat]
         /\ Put(queue, c)[c] > 0
         /\ \A d \in Calls : queue[d] > 0 => Put(queue, c)[d] > 0
BY DEF Put

LEMMA TakeFacts ==
  ASSUME NEW queue \in [Calls -> Nat], NEW c \in Calls, queue[c] > 0
  PROVE  /\ Take(queue, c) \in [Calls -> Nat]
         /\ \A d \in Calls \ {c} : Take(queue, c)[d] = queue[d]
BY DEF Take

\* What is given back is in the queue again.
LEMMA RequeueFacts ==
  ASSUME Bounds, NEW queue \in [Calls -> Nat]
  PROVE  /\ Requeue(queue, Held) \in [Calls -> Nat]
         /\ \A c \in Calls : queue[c] > 0 \/ Working(c) => Requeue(queue, Held)[c] > 0
<1> DEFINE holders(c) == {w \in Answerers : Held[w] = c}
<1>1. ASSUME NEW c \in Calls
      PROVE  IsFiniteSet(holders(c)) /\ Cardinality(holders(c)) \in Nat
  BY FS_Subset, FS_CardinalityType DEF Bounds
<1>2. ASSUME NEW c \in Calls
      PROVE  Requeue(queue, Held)[c] = queue[c] + Cardinality(holders(c))
  BY DEF Requeue, Held
<1>3. ASSUME NEW c \in Calls, Working(c) PROVE Cardinality(holders(c)) # 0
  <2>1. PICK w \in Answerers : answers[w].call = c
    BY <1>3 DEF Working
  <2>2. w \in holders(c)
    BY <2>1 DEF Held
  <2> QED
    BY <1>1, <2>2, FS_EmptySet
<1> HIDE DEF holders
<1>4. Requeue(queue, Held) = [c \in Calls |-> Requeue(queue, Held)[c]]
  BY DEF Requeue
<1>5. \A c \in Calls : Requeue(queue, Held)[c] \in Nat
  BY <1>1, <1>2
<1>6. Requeue(queue, Held) \in [Calls -> Nat]
  BY <1>4, <1>5
<1> QED
  BY <1>1, <1>2, <1>3, <1>6

-----------------------------------------------------------------------------
(***************************************************************************)
(* The order service                                                       *)
(***************************************************************************)
\* A call that moves, but not to wait, and keeps its reply queue if it has one,
\* changes nothing for those who wait.
LEMMA OthersServed ==
  ASSUME TypeOK, Served, QueueOwned, NEW c \in Calls, NEW call \in Call,
         calls' = [calls EXCEPT ![c] = call], call.step # "wait",
         calls[c].on = None \/ call.on = calls[c].on,
         UNCHANGED <<requests, lost, replies, answers>>, doomed => doomed'
  PROVE  Served' /\ QueueOwned'
<1>1. /\ calls'[c] = call
      /\ \A d \in Calls \ {c} : calls'[d] = calls[d]
  BY DEF TypeOK
<1>2. Served'
  BY <1>1 DEF Served, Working, At
<1>3. QueueOwned'
  BY <1>1 DEF QueueOwned
<1> QED
  BY <1>2, <1>3

LEMMA ChannelFacts ==
  ASSUME TypeOK PROVE channel # None => channel \in Channels
BY DEF TypeOK

LEMMA OpenChannelKeeps ==
  ASSUME IInv, NEW o \in Openers, OpenChannel(o) PROVE IInv'
<1>1. TypeOK /\ opening[o] = "connect" /\ opening' = [opening EXCEPT ![o] = "declare"]
      /\ UNCHANGED <<listening, calls, doomed, declared, answers, requests, lost, replies,
                     failures>>
  BY DEF IInv, OpenChannel, productService, broker
<1>2. channel' \in Channels
  BY DEF OpenChannel, NewChannel
<1>3. channel' # None
  BY <1>2, NoneAssumption
<1>4. TypeOK'
  BY <1>1, <1>2 DEF TypeOK, OpenStep
<1>5. Opening'
  <2>1. OpenersWait'
    BY <1>1 DEF IInv, Opening, OpenersWait, TypeOK, Openers, At
  <2>2. ChannelThere'
    BY <1>3 DEF ChannelThere
  <2> QED
    BY <2>1, <2>2 DEF Opening
<1>6. Served' /\ QueueOwned'
  BY <1>1 DEF IInv, Served, QueueOwned, Working, At
<1> QED
  BY <1>4, <1>5, <1>6 DEF IInv

LEMMA DeclareReplyQueueKeeps ==
  ASSUME IInv, NEW o \in Openers, DeclareReplyQueue(o) PROVE IInv'
<1>1. TypeOK /\ opening[o] = "declare"
      /\ opening' = [opening EXCEPT ![o] = IF o = "listener" THEN "listen" ELSE "no"]
      /\ UNCHANGED <<channel, listening, doomed, declared, answers, requests, lost, replies,
                     failures>>
  BY DEF IInv, DeclareReplyQueue, productService, broker
<1>2. channel # None
  BY <1>1 DEF IInv, Opening, ChannelThere
<1>3. opening' \in [Openers -> OpenStep]
  BY <1>1 DEF TypeOK, OpenStep
<1>4. CASE o \in Calls
  <2> DEFINE call == [calls[o] EXCEPT !.step = "assert"]
  <2>1. calls[o] \in Call /\ calls[o].step = "opening" /\ calls' = [calls EXCEPT ![o] = call]
    BY <1>1, <1>4 DEF IInv, TypeOK, Opening, OpenersWait, At, DeclareReplyQueue
  <2>2. call \in Call /\ call.step = "assert" /\ call.on = calls[o].on
    BY <2>1, StepFacts
  <2> HIDE DEF call
  <2>3. TypeOK'
    BY <1>1, <1>3, <2>1, <2>2 DEF TypeOK
  <2>4. o # "listener"
    BY <1>4, StartersAssumption DEF Starters
  <2>5. OpenersWait'
    BY <1>1, <1>4, <2>1, <2>4 DEF IInv, Opening, OpenersWait, TypeOK, Openers, At
  <2>6. ChannelThere'
    BY <1>1, <1>2 DEF ChannelThere
  <2>7. Served' /\ QueueOwned'
    BY <1>1, <1>4, <2>1, <2>2, OthersServed DEF IInv
  <2> QED
    BY <2>3, <2>5, <2>6, <2>7 DEF IInv, Opening
<1>5. CASE o \notin Calls
  <2>1. calls' = calls
    BY <1>5 DEF DeclareReplyQueue
  <2>2. TypeOK'
    BY <1>1, <1>3, <2>1 DEF TypeOK
  <2>3. OpenersWait'
    BY <1>1, <1>5, <2>1 DEF IInv, Opening, OpenersWait, TypeOK, Openers, At
  <2>4. ChannelThere'
    BY <1>1, <1>2 DEF ChannelThere
  <2>5. Served' /\ QueueOwned'
    BY <1>1, <2>1 DEF IInv, Served, QueueOwned, Working, At
  <2> QED
    BY <2>2, <2>3, <2>4, <2>5 DEF IInv, Opening
<1> QED
  BY <1>4, <1>5

\* Listening, being doomed and declaring the request queue concern no call.
LEMMA ListenOrDeclareKeeps ==
  ASSUME IInv, Listen \/ AckPaymentElsewhere \/ Declare PROVE IInv'
<1>1. TypeOK /\ UNCHANGED <<channel, calls, answers, requests, lost, replies, failures>>
      /\ doomed' \in BOOLEAN /\ (doomed => doomed')
  BY DEF IInv, TypeOK, Listen, AckPaymentElsewhere, Declare, orderService, productService, broker
<1>2. /\ opening' \in [Openers -> OpenStep] /\ declared' \in BOOLEAN
      /\ listening' \in Channels \cup {None}
      /\ \A o \in Openers : opening'[o] # "no" => opening'[o] = opening[o]
  BY <1>1 DEF TypeOK, OpenStep, Listen, AckPaymentElsewhere, Declare, orderService,
     productService, broker
<1>3. TypeOK'
  BY <1>1, <1>2 DEF TypeOK
<1>4. Opening'
  BY <1>1, <1>2 DEF IInv, Opening, OpenersWait, ChannelThere, Openers, At
<1>5. Served' /\ QueueOwned'
  BY <1>1 DEF IInv, Served, QueueOwned, Working, At
<1> QED
  BY <1>3, <1>4, <1>5 DEF IInv

LEMMA StartCallKeeps == ASSUME IInv, NEW c \in Calls, StartCall(c) PROVE IInv'
<1> DEFINE call == [calls[c] EXCEPT !.step = "ensure"]
<1>1. TypeOK /\ calls[c] \in Call /\ calls[c].step = "unused"
      /\ calls' = [calls EXCEPT ![c] = call]
      /\ UNCHANGED <<channel, listening, opening, doomed, declared, answers, requests, lost,
                     replies, failures>>
  BY DEF IInv, TypeOK, StartCall, StepTo, At, productService, broker
<1>2. call \in Call /\ call.step = "ensure" /\ call.on = calls[c].on
  BY <1>1, StepFacts
<1> HIDE DEF call
<1>3. TypeOK'
  BY <1>1, <1>2 DEF TypeOK
<1>4. Opening'
  BY <1>1, <1>2 DEF IInv, Opening, OpenersWait, ChannelThere, TypeOK, At
<1>5. Served' /\ QueueOwned'
  BY <1>1, <1>2, OthersServed DEF IInv
<1> QED
  BY <1>3, <1>4, <1>5 DEF IInv

LEMMA EnsureChannelKeeps == ASSUME IInv, NEW c \in Calls, EnsureChannel(c) PROVE IInv'
<1>1. TypeOK /\ calls[c] \in Call /\ calls[c].step = "ensure"
      /\ UNCHANGED <<channel, listening, doomed, declared, answers, requests, lost, replies,
                     failures>>
  BY DEF IInv, TypeOK, EnsureChannel, At, productService, broker
<1>2. ASSUME NEW step \in {"assert", "opening"}, StepTo(c, step),
             step = "assert" => channel # None /\ opening' = opening,
             step = "opening" => opening' = [opening EXCEPT ![c] = "connect"]
      PROVE  IInv'
  <2> DEFINE call == [calls[c] EXCEPT !.step = step]
  <2>1. call \in Call /\ call.step = step /\ call.on = calls[c].on
    BY <1>1, StepFacts
  <2>2. calls' = [calls EXCEPT ![c] = call]
    BY <1>2 DEF StepTo
  <2> HIDE DEF call
  <2>3. TypeOK'
    BY <1>1, <1>2, <2>1, <2>2 DEF TypeOK, OpenStep
  <2>4. opening[c] = "no"
    BY <1>1 DEF IInv, Opening, OpenersWait, At
  <2>5. OpenersWait'
    BY <1>1, <1>2, <2>1, <2>2, <2>4 DEF IInv, Opening, OpenersWait, TypeOK, Openers, At
  <2>6. ChannelThere'
    BY <1>1, <1>2, <2>1, <2>2 DEF IInv, Opening, ChannelThere, TypeOK, At
  <2>7. Served' /\ QueueOwned'
    BY <1>1, <2>1, <2>2, OthersServed DEF IInv
  <2> QED
    BY <2>3, <2>5, <2>6, <2>7 DEF IInv, Opening
<1> QED
  BY <1>2 DEF EnsureChannel, HasChannel

LEMMA AssertReplyQueueKeeps == ASSUME IInv, NEW c \in Calls, AssertReplyQueue(c) PROVE IInv'
<1> DEFINE call == [step |-> "send", on |-> channel]
<1>1. TypeOK /\ calls[c] \in Call /\ calls[c].step = "assert"
      /\ calls' = [calls EXCEPT ![c] = call]
      /\ UNCHANGED <<channel, listening, opening, doomed, declared, answers, requests, lost,
                     replies, failures>>
  BY DEF IInv, TypeOK, AssertReplyQueue, At, productService, broker
<1>2. channel \in Channels
  BY <1>1, ChannelFacts DEF IInv, Opening, ChannelThere, At
<1>3. call \in Call /\ call.step = "send"
  BY <1>2 DEF Call
<1>4. calls[c].on = None
  BY <1>1, CallFacts
<1> HIDE DEF call
<1>5. TypeOK'
  BY <1>1, <1>3 DEF TypeOK
<1>6. Opening'
  BY <1>1, <1>3 DEF IInv, Opening, OpenersWait, ChannelThere, TypeOK, At
<1>7. Served' /\ QueueOwned'
  BY <1>1, <1>3, <1>4, OthersServed DEF IInv
<1> QED
  BY <1>5, <1>6, <1>7 DEF IInv

\* The request is on its way, or was dropped, or the process is about to end.
LEMMA SendKeeps ==
  ASSUME IInv, NEW c \in Calls, Send(c) \/ SendElsewhere(c) PROVE IInv'
<1> DEFINE call == [calls[c] EXCEPT !.step = "wait"]
<1>1. TypeOK /\ calls[c] \in Call /\ calls[c].step = "send"
      /\ calls' = [calls EXCEPT ![c] = call]
      /\ UNCHANGED <<channel, listening, opening, declared, answers, replies, failures>>
      /\ doomed' \in BOOLEAN /\ (doomed => doomed')
  BY DEF IInv, TypeOK, Send, SendElsewhere, StepTo, At, productService, broker
<1>2. call \in Call /\ call.step = "wait" /\ call.on = calls[c].on
  BY <1>1, StepFacts
<1> HIDE DEF call
<1>3. /\ requests' \in [Calls -> Nat] /\ lost' \subseteq Calls
      /\ \A d \in Calls : requests[d] > 0 => requests'[d] > 0
      /\ lost \subseteq lost'
      /\ requests'[c] > 0 \/ c \in lost' \/ doomed'
  BY <1>1, PutFacts DEF TypeOK, Send, SendElsewhere, Publish, broker
<1>4. TypeOK'
  BY <1>1, <1>2, <1>3 DEF TypeOK
<1>5. Opening'
  BY <1>1, <1>2 DEF IInv, Opening, OpenersWait, ChannelThere, TypeOK, At
<1>6. \A d \in Calls \ {c} : calls'[d] = calls[d]
  BY <1>1 DEF TypeOK
<1>7. Served'
  BY <1>1, <1>3, <1>6 DEF IInv, Served, Working, At
<1>8. QueueOwned'
  BY <1>1, <1>2, <1>6 DEF IInv, QueueOwned, TypeOK
<1> QED
  BY <1>4, <1>5, <1>7, <1>8 DEF IInv

\* Who takes an answer waits no more.
LEMMA ReceiveKeeps == ASSUME Bounds, IInv, NEW c \in Calls, Receive(c) PROVE IInv'
<1>1. TypeOK /\ calls[c] \in Call /\ replies[c] > 0
      /\ replies' = [replies EXCEPT ![c] = @ - 1]
      /\ UNCHANGED <<channel, listening, opening, declared, answers, requests, lost, failures>>
      /\ doomed' \in BOOLEAN /\ (doomed => doomed')
  BY DEF IInv, TypeOK, Receive, productService
<1>2. /\ replies' \in [Calls -> 0..MaxReplies]
      /\ \A d \in Calls \ {c} : replies'[d] = replies[d]
  BY <1>1 DEF TypeOK, Bounds
<1>3. /\ calls' \in [Calls -> Call]
      /\ calls'[c].step # "wait"
      /\ calls[c].step = "wait" => calls'[c].step = "returned"
      /\ calls[c].step # "wait" => calls'[c].step = calls[c].step
      /\ \A d \in Calls : calls'[d].on = calls[d].on
      /\ \A d \in Calls \ {c} : calls'[d] = calls[d]
  <2>1. CASE At(c, "wait")
    <3> DEFINE call == [calls[c] EXCEPT !.step = "returned"]
    <3>1. call \in Call /\ call.step = "returned" /\ call.on = calls[c].on
      BY <1>1, <2>1, StepFacts DEF At
    <3>2. calls' = [calls EXCEPT ![c] = call]
      BY <2>1 DEF Receive
    <3> HIDE DEF call
    <3> QED
      BY <1>1, <2>1, <3>1, <3>2 DEF TypeOK, At
  <2>2. CASE ~At(c, "wait")
    <3>1. calls' = calls
      BY <2>2 DEF Receive
    <3> QED
      BY <1>1, <2>2, <3>1 DEF TypeOK, At
  <2> QED
    BY <2>1, <2>2
<1>4. TypeOK'
  BY <1>1, <1>2, <1>3 DEF TypeOK
<1>5. Opening'
  BY <1>1, <1>3 DEF IInv, Opening, OpenersWait, ChannelThere, At
<1>6. Served'
  BY <1>1, <1>2, <1>3 DEF IInv, Served, Working, At
<1>7. QueueOwned'
  BY <1>1, <1>2, <1>3 DEF IInv, QueueOwned
<1> QED
  BY <1>4, <1>5, <1>6, <1>7 DEF IInv

LEMMA CallFailsKeeps == ASSUME Bounds, IInv, NEW c \in Calls, CallFails(c) PROVE IInv'
<1> DEFINE call == [step |-> "failed", on |-> None]
<1>1. TypeOK /\ calls[c] \in Call /\ calls[c].step \in {"opening", "assert"}
      /\ calls' = [calls EXCEPT ![c] = call]
      /\ opening' = [opening EXCEPT ![c] = "no"]
      /\ UNCHANGED <<channel, listening, doomed, declared, answers, requests, lost, replies>>
      /\ failures' \in 0..MaxFailures
  BY DEF IInv, TypeOK, CallFails, Fails, productService, broker, Bounds
<1>2. call \in Call /\ call.step = "failed"
  BY DEF Call
<1>3. calls[c].on = None
  BY <1>1, CallFacts
<1> HIDE DEF call
<1>4. TypeOK'
  BY <1>1, <1>2 DEF TypeOK, OpenStep
<1>5. OpenersWait'
  BY <1>1, <1>2 DEF IInv, Opening, OpenersWait, TypeOK, Openers, At
<1>6. ChannelThere'
  BY <1>1, <1>2 DEF IInv, Opening, ChannelThere, TypeOK, Openers, At
<1>7. Served' /\ QueueOwned'
  BY <1>1, <1>2, <1>3, OthersServed DEF IInv
<1> QED
  BY <1>4, <1>5, <1>6, <1>7 DEF IInv, Opening

\* Nobody waits in a process that starts.
LEMMA RestartKeeps ==
  ASSUME Bounds, IInv, Die \/ OrderServiceCrash PROVE IInv'
<1>1. TypeOK /\ Restart /\ failures' \in 0..MaxFailures
  BY DEF IInv, TypeOK, Die, OrderServiceCrash, Fails, Bounds
<1>2. /\ channel' = None /\ listening' = None /\ opening' = Starting /\ doomed' = FALSE
      /\ replies' = [c \in Calls |-> 0]
      /\ UNCHANGED <<declared, answers, requests, lost>>
  BY <1>1 DEF Restart, productService
<1>3. ASSUME NEW c \in Calls
      PROVE  calls'[c] \in Call /\ calls'[c].step \in {"unused", "returned", "failed"}
  <2>1. calls[c] \in Call /\ [step |-> "failed", on |-> None] \in Call
    BY <1>1 DEF TypeOK, Call
  <2>2. CASE InProgress(c)
    BY <1>1, <2>1, <2>2 DEF Restart
  <2>3. CASE ~InProgress(c)
    <3>1. calls'[c] = [calls[c] EXCEPT !.on = None]
      BY <1>1, <2>3 DEF Restart
    <3> QED
      BY <2>1, <2>3, <3>1, WithoutQueue DEF InProgress
  <2> QED
    BY <2>2, <2>3
<1>4. calls' \in [Calls -> Call]
  <2>1. calls' = [c \in Calls |-> calls'[c]]
    BY <1>1 DEF Restart
  <2> QED
    BY <1>3, <2>1
<1>5. opening' \in [Openers -> OpenStep] /\ \A c \in Calls : opening'[c] = "no"
  BY <1>2, StartersAssumption DEF Starting, OpenStep, Openers
<1>6. \A o \in Openers : opening'[o] # "declare"
  BY <1>2 DEF Starting
<1>7. TypeOK'
  <2>1. replies' \in [Calls -> 0..MaxReplies]
    BY <1>2 DEF Bounds
  <2> QED
    BY <1>1, <1>2, <1>4, <1>5, <2>1 DEF TypeOK
<1>8. Opening'
  BY <1>3, <1>5, <1>6 DEF Opening, OpenersWait, ChannelThere, At
<1>9. Served' /\ QueueOwned'
  BY <1>2, <1>3 DEF Served, QueueOwned, At
<1> QED
  BY <1>7, <1>8, <1>9 DEF IInv

-----------------------------------------------------------------------------
(***************************************************************************)
(* The product service                                                     *)
(***************************************************************************)
\* An answerer's step leaves the order service alone: what remains to be shown is
\* that it drops nobody.
LEMMA AnswererKeeps ==
  ASSUME IInv, UNCHANGED <<channel, listening, opening, calls, doomed, declared, lost>>,
         answers' \in [Answerers -> Answer], requests' \in [Calls -> Nat],
         replies' \in [Calls -> 0..MaxReplies], failures' \in 0..MaxFailures,
         \A c \in Calls : At(c, "wait") =>
           (requests[c] > 0 \/ Working(c) \/ replies[c] > 0 =>
              requests'[c] > 0 \/ Working(c)' \/ replies'[c] > 0),
         \A c \in Calls : replies'[c] > 0 => replies[c] > 0 \/ calls[c].on # None
  PROVE  IInv'
<1>1. TypeOK'
  BY DEF IInv, TypeOK
<1>2. Opening'
  BY DEF IInv, Opening, OpenersWait, ChannelThere, At
<1>3. Served' /\ QueueOwned'
  BY DEF IInv, Served, QueueOwned, At
<1> QED
  BY <1>1, <1>2, <1>3 DEF IInv

LEMMA DeliverKeeps ==
  ASSUME IInv, NEW w \in Answerers, NEW c \in Calls, Deliver(w, c) PROVE IInv'
<1> DEFINE answer == [step |-> "read", call |-> c]
<1>1. TypeOK /\ requests[c] > 0 /\ answers[w].step = "idle"
      /\ requests' = Take(requests, c)
      /\ answers' = [answers EXCEPT ![w] = answer]
      /\ UNCHANGED <<channel, listening, opening, calls, doomed, declared, lost, replies, failures>>
  BY DEF IInv, Deliver, orderService
<1>2. requests' \in [Calls -> Nat] /\ \A d \in Calls \ {c} : requests'[d] = requests[d]
  BY <1>1, TakeFacts DEF TypeOK
<1>3. answer \in Answer
  BY DEF Answer
<1>4. /\ answers' \in [Answerers -> Answer] /\ answers'[w] = answer
      /\ \A v \in Answerers \ {w} : answers'[v] = answers[v]
  BY <1>1, <1>3 DEF TypeOK
<1>5. Working(c)' /\ \A d \in Calls : Working(d) => Working(d)'
  BY <1>1, <1>4 DEF Working
<1> QED
  BY <1>1, <1>2, <1>4, <1>5, AnswererKeeps DEF TypeOK

LEMMA GetProductsByIdsKeeps ==
  ASSUME IInv, NEW w \in Answerers, GetProductsByIds(w) PROVE IInv'
<1> DEFINE answer == [answers[w] EXCEPT !.step = "reply"]
<1>1. TypeOK /\ answers[w] \in Answer /\ answers[w].step = "read"
      /\ answers' = [answers EXCEPT ![w] = answer]
      /\ UNCHANGED <<channel, listening, opening, calls, doomed, declared, lost, replies, failures,
                     requests>>
  BY DEF IInv, TypeOK, GetProductsByIds, GoTo, orderService, broker
<1>2. answer \in Answer /\ answer.step = "reply" /\ answer.call = answers[w].call
  BY <1>1, AnswerFacts DEF Answer, NoAnswer
<1> HIDE DEF answer
<1>3. /\ answers' \in [Answerers -> Answer] /\ answers'[w] = answer
      /\ \A v \in Answerers \ {w} : answers'[v] = answers[v]
  BY <1>1, <1>2 DEF TypeOK
<1>4. \A d \in Calls : Working(d) => Working(d)'
  BY <1>2, <1>3 DEF Working
<1> QED
  BY <1>1, <1>3, <1>4, AnswererKeeps DEF TypeOK

\* The refused request is in the queue again.
LEMMA NackKeeps ==
  ASSUME Bounds, IInv, NEW w \in Answerers, RefuseEmpty(w) \/ ReadFails(w) PROVE IInv'
<1> DEFINE c == answers[w].call
<1>1. TypeOK /\ answers[w] \in Answer /\ answers[w].step = "read"
      /\ requests' = Put(requests, c)
      /\ answers' = [answers EXCEPT ![w] = NoAnswer]
      /\ failures' \in 0..MaxFailures
      /\ UNCHANGED <<channel, listening, opening, calls, doomed, declared, lost, replies>>
  BY DEF IInv, TypeOK, RefuseEmpty, ReadFails, Nack, Fails, orderService, Bounds
<1>2. c \in Calls
  BY <1>1, AnswerFacts DEF NoAnswer
<1>3. /\ requests' \in [Calls -> Nat] /\ requests'[c] > 0
      /\ \A d \in Calls : requests[d] > 0 => requests'[d] > 0
  BY <1>1, <1>2, PutFacts DEF TypeOK
<1>4. /\ answers' \in [Answerers -> Answer]
      /\ \A v \in Answerers \ {w} : answers'[v] = answers[v]
  BY <1>1 DEF TypeOK, Answer
<1>5. \A d \in Calls : Working(d) => d = c \/ Working(d)'
  BY <1>4 DEF Working
<1> QED
  BY <1>1, <1>3, <1>4, <1>5, AnswererKeeps DEF TypeOK

\* The answer is in the reply queue of a caller that waits.
LEMMA ReplyKeeps ==
  ASSUME Bounds, IInv, NEW w \in Answerers, Reply(w) PROVE IInv'
<1> DEFINE c == answers[w].call
           answer == [answers[w] EXCEPT !.step = "ack"]
<1>1. TypeOK /\ answers[w] \in Answer /\ answers[w].step = "reply" /\ replies[c] < MaxReplies
  BY DEF IInv, TypeOK, Reply
<1>2. replies' = IF HasReplyQueue(c) THEN [replies EXCEPT ![c] = @ + 1] ELSE replies
  BY DEF Reply
<1>3. /\ answers' = [answers EXCEPT ![w] = answer]
      /\ UNCHANGED <<channel, listening, opening, calls, doomed, declared, lost, requests, failures>>
  BY DEF Reply, GoTo, orderService
<1>4. c \in Calls /\ answer \in Answer
  BY <1>1, AnswerFacts DEF Answer, NoAnswer
<1> HIDE DEF answer
<1>5. /\ answers' \in [Answerers -> Answer]
      /\ \A v \in Answerers \ {w} : answers'[v] = answers[v]
  BY <1>1, <1>3, <1>4 DEF TypeOK
<1>6. \A d \in Calls : Working(d) => d = c \/ Working(d)'
  BY <1>5 DEF Working
<1>7. /\ replies' \in [Calls -> 0..MaxReplies]
      /\ \A d \in Calls : replies[d] > 0 => replies'[d] > 0
      /\ HasReplyQueue(c) => replies'[c] > 0
      /\ \A d \in Calls : replies'[d] > 0 => replies[d] > 0 \/ HasReplyQueue(d)
  <2>1. replies \in [Calls -> 0..MaxReplies]
    BY <1>1 DEF TypeOK
  <2>2. CASE HasReplyQueue(c)
    <3>1. replies' = [replies EXCEPT ![c] = replies[c] + 1]
      BY <1>2, <2>2
    <3> HIDE DEF c
    <3> QED
      BY <1>1, <1>4, <2>1, <2>2, <3>1 DEF Bounds
  <2>3. CASE ~HasReplyQueue(c)
    BY <1>2, <2>1, <2>3
  <2> QED
    BY <2>2, <2>3
<1>8. At(c, "wait") => HasReplyQueue(c)
  BY <1>1, <1>4, CallFacts, NoneAssumption DEF TypeOK, At, HasReplyQueue
<1>9. \A d \in Calls : HasReplyQueue(d) => calls[d].on # None
  BY DEF HasReplyQueue
<1>10. requests' \in [Calls -> Nat] /\ failures' \in 0..MaxFailures
  BY <1>1, <1>3 DEF TypeOK
<1> HIDE DEF c
<1>11. \A d \in Calls : At(d, "wait") =>
         (requests[d] > 0 \/ Working(d) \/ replies[d] > 0 =>
            requests'[d] > 0 \/ Working(d)' \/ replies'[d] > 0)
  BY <1>3, <1>6, <1>7, <1>8
<1>12. \A d \in Calls : replies'[d] > 0 => replies[d] > 0 \/ calls[d].on # None
  BY <1>7, <1>9
<1> QED
  BY <1>3, <1>5, <1>7, <1>10, <1>11, <1>12, AnswererKeeps

LEMMA AckRequestKeeps ==
  ASSUME IInv, NEW w \in Answerers, AckRequest(w) PROVE IInv'
<1>1. TypeOK /\ answers[w].step = "ack" /\ answers' = [answers EXCEPT ![w] = NoAnswer]
      /\ UNCHANGED <<channel, listening, opening, calls, doomed, declared, lost, replies, failures,
                     requests>>
  BY DEF IInv, AckRequest, orderService, broker
<1>2. /\ answers' \in [Answerers -> Answer]
      /\ \A v \in Answerers \ {w} : answers'[v] = answers[v]
  BY <1>1 DEF TypeOK, Answer
<1>3. \A d \in Calls : Working(d) => Working(d)'
  BY <1>1, <1>2 DEF Working
<1> QED
  BY <1>1, <1>2, <1>3, AnswererKeeps DEF TypeOK

\* Every request that was being worked on is in the queue again.
LEMMA ProductServiceCrashKeeps ==
  ASSUME Bounds, IInv, ProductServiceCrash PROVE IInv'
<1>1. TypeOK /\ requests' = Requeue(requests, Held)
      /\ answers' = [w \in Answerers |-> NoAnswer] /\ failures' \in 0..MaxFailures
      /\ UNCHANGED <<channel, listening, opening, calls, doomed, declared, lost, replies>>
  BY DEF IInv, TypeOK, ProductServiceCrash, Fails, orderService, Bounds
<1>2. /\ requests' \in [Calls -> Nat]
      /\ \A c \in Calls : requests[c] > 0 \/ Working(c) => requests'[c] > 0
  BY <1>1, RequeueFacts DEF TypeOK
<1>3. answers' \in [Answerers -> Answer]
  BY <1>1 DEF Answer
<1> QED
  BY <1>1, <1>2, <1>3, AnswererKeeps DEF TypeOK

-----------------------------------------------------------------------------
(***************************************************************************)
(* The invariant                                                           *)
(***************************************************************************)
LEMMA InitInvariant == ASSUME Bounds PROVE Init => IInv
<1> SUFFICES ASSUME Init PROVE IInv
  OBVIOUS
<1>1. /\ opening = Starting /\ calls = [c \in Calls |-> [step |-> "unused", on |-> None]]
      /\ replies = [c \in Calls |-> 0] /\ requests = NoMessages(Calls)
      /\ answers = [w \in Answerers |-> NoAnswer]
  BY DEF Init
<1>2. [step |-> "unused", on |-> None] \in Call /\ NoAnswer \in Answer
  BY DEF Call, Answer
<1>3. /\ opening \in [Openers -> OpenStep]
      /\ \A o \in Openers : opening[o] # "declare"
      /\ \A c \in Calls : opening[c] = "no"
  BY <1>1, StartersAssumption DEF Starting, OpenStep, Openers
<1>4. /\ calls \in [Calls -> Call]
      /\ \A c \in Calls : calls[c].step = "unused"
  BY <1>1, <1>2
<1>5. requests \in [Calls -> Nat] /\ replies \in [Calls -> 0..MaxReplies]
      /\ \A c \in Calls : replies[c] = 0
  BY <1>1 DEF NoMessages, Bounds
<1>6. /\ channel = None /\ listening = None /\ doomed = FALSE /\ declared \in BOOLEAN
      /\ lost = {} /\ failures \in 0..MaxFailures
  BY DEF Init, Bounds
<1>7. answers \in [Answerers -> Answer]
  BY <1>1, <1>2
<1>8. TypeOK
  BY <1>3, <1>4, <1>5, <1>6, <1>7 DEF TypeOK
<1>9. Opening
  BY <1>3, <1>4 DEF Opening, OpenersWait, ChannelThere, At
<1>10. Served /\ QueueOwned
  BY <1>4, <1>5 DEF Served, QueueOwned, At
<1> QED
  BY <1>8, <1>9, <1>10 DEF IInv

LEMMA StutterKeeps == ASSUME IInv, UNCHANGED vars PROVE IInv'
<1>1. UNCHANGED <<channel, listening, opening, calls, doomed, declared, answers, requests, lost,
                  replies, failures>>
  BY DEF vars, orderService, productService, broker
<1>2. TypeOK'
  BY <1>1 DEF IInv, TypeOK
<1>3. Opening' /\ Served' /\ QueueOwned'
  BY <1>1 DEF IInv, Opening, OpenersWait, ChannelThere, Served, QueueOwned, Working, At
<1> QED
  BY <1>2, <1>3 DEF IInv

LEMMA NextKeeps == ASSUME Bounds PROVE IInv /\ [Next]_vars => IInv'
<1> SUFFICES ASSUME IInv, Next PROVE IInv'
  BY StutterKeeps
<1>1. CASE \E o \in Openers : Open(o)
  BY <1>1, OpenChannelKeeps, DeclareReplyQueueKeeps DEF Open
<1>2. CASE \E c \in Calls : StartCall(c) \/ Continue(c) \/ CallFails(c)
  BY <1>2, StartCallKeeps, EnsureChannelKeeps, AssertReplyQueueKeeps, SendKeeps, ReceiveKeeps,
     CallFailsKeeps DEF Continue
<1>3. CASE \E w \in Answerers : Serve(w) \/ ReadFails(w)
  BY <1>3, GetProductsByIdsKeeps, NackKeeps, ReplyKeeps, AckRequestKeeps DEF Serve
<1>4. CASE Rest
  BY <1>4, StutterKeeps DEF Rest
<1> QED
  BY <1>1, <1>2, <1>3, <1>4, ListenOrDeclareKeeps, RestartKeeps, DeliverKeeps,
     ProductServiceCrashKeeps DEF Next

LEMMA ServedIsServed == IInv => WaiterIsServed
BY DEF IInv, Served, WaiterIsServed, Working, InFlight

-----------------------------------------------------------------------------
(***************************************************************************)
(* The channels                                                            *)
(***************************************************************************)
\* What has to be shown of a step between two states of one process.
LEMMA SettledBy ==
  ASSUME Settled, UNCHANGED <<channel, listening, opening>>, doomed' = doomed,
         \A c \in Calls : calls'[c].on \in {None, channel}
  PROVE  Settled'
BY DEF Settled

LEMMA SettledStep ==
  ASSUME IInv, Settled, Next PROVE Settled' \/ channel' = None
<1>1. TypeOK
  BY DEF IInv
<1>2. /\ \A o \in Openers : opening[o] = "no"
      /\ channel # None /\ listening = channel /\ ~doomed
      /\ \A c \in Calls : calls[c].on \in {None, channel}
  BY DEF Settled
<1>3. "listener" \in Openers
  BY DEF Openers, Starters
<1>4. ASSUME NEW c \in Calls, NEW step, StepTo(c, step)
      PROVE  \A d \in Calls : calls'[d].on \in {None, channel}
  <2>1. calls[c] \in Call
    BY <1>1 DEF TypeOK
  <2>2. [calls[c] EXCEPT !.step = step].on = calls[c].on
    BY <2>1 DEF Call
  <2> QED
    BY <1>1, <1>2, <1>4, <2>2 DEF TypeOK, StepTo
<1>5. CASE \E o \in Openers : Open(o)
  BY <1>2, <1>5 DEF Open, OpenChannel, DeclareReplyQueue
<1>6. CASE Listen \/ AckPaymentElsewhere
  BY <1>2, <1>3, <1>6 DEF Listen, AckPaymentElsewhere
<1>7. ASSUME NEW c \in Calls, StartCall(c) PROVE Settled'
  BY <1>4, <1>7, SettledBy DEF StartCall
<1>8. ASSUME NEW c \in Calls, EnsureChannel(c) PROVE Settled'
  BY <1>2, <1>4, <1>8, SettledBy DEF EnsureChannel, HasChannel
<1>9. ASSUME NEW c \in Calls, AssertReplyQueue(c) PROVE Settled'
  <2>1. \A d \in Calls : calls'[d].on \in {None, channel}
    BY <1>1, <1>2, <1>9 DEF AssertReplyQueue, TypeOK
  <2> QED
    BY <1>9, <2>1, SettledBy DEF AssertReplyQueue
<1>10. ASSUME NEW c \in Calls, Send(c) PROVE Settled'
  BY <1>4, <1>10, SettledBy DEF Send
<1>11. ASSUME NEW c \in Calls, SendElsewhere(c) PROVE FALSE
  <2>1. calls[c].on \in Channels
    BY <1>1, <1>11, CallFacts DEF SendElsewhere, At, TypeOK
  <2> QED
    BY <1>2, <1>11, <2>1, NoneAssumption DEF SendElsewhere
<1>12. ASSUME NEW c \in Calls, Receive(c) PROVE Settled'
  <2>1. calls[c].on = channel
    BY <1>2, <1>12 DEF Receive, IInv, QueueOwned
  <2>2. doomed' = doomed /\ UNCHANGED <<channel, listening, opening>>
    BY <1>1, <1>2, <1>12, <2>1 DEF Receive, TypeOK
  <2>3. \A d \in Calls : calls'[d].on \in {None, channel}
    BY <1>2, <1>4, <1>12 DEF Receive, StepTo
  <2> QED
    BY <2>2, <2>3, SettledBy
<1>13. ASSUME NEW c \in Calls, CallFails(c) PROVE Settled'
  <2>1. opening' = opening
    <3>1. opening[c] = "no" /\ c \in Openers
      BY <1>2 DEF Openers
    <3> QED
      BY <1>1, <1>13, <3>1 DEF CallFails, TypeOK
  <2>2. \A d \in Calls : calls'[d].on \in {None, channel}
    BY <1>1, <1>2, <1>13 DEF CallFails, TypeOK
  <2> QED
    BY <1>13, <2>1, <2>2, SettledBy DEF CallFails
<1>14. CASE Die \/ OrderServiceCrash
  BY <1>14 DEF Die, OrderServiceCrash, Restart
<1>15. ASSUME UNCHANGED orderService PROVE Settled'
  BY <1>2, <1>15, SettledBy DEF orderService
<1>16. CASE Declare \/ (\E w \in Answerers, c \in Calls : Deliver(w, c))
         \/ (\E w \in Answerers : Serve(w) \/ ReadFails(w)) \/ ProductServiceCrash \/ Rest
  BY <1>15, <1>16 DEF Declare, Deliver, Serve, GetProductsByIds, RefuseEmpty, Reply, AckRequest,
     ReadFails, Nack, ProductServiceCrash, Rest, vars
<1> QED
  BY <1>5, <1>6, <1>7, <1>8, <1>9, <1>10, <1>11, <1>12, <1>13, <1>14, <1>16 DEF Next, Continue

-----------------------------------------------------------------------------
(***************************************************************************)
(* The theorems                                                            *)
(***************************************************************************)
\* The queues, the calls and the channels keep their types.
THEOREM TypeCorrect == ASSUME Bounds PROVE Spec => []TypeOK
<1>1. IInv => TypeOK
  BY DEF IInv
<1> QED
  BY <1>1, InitInvariant, NextKeeps, PTL DEF Spec

\* Whichever service crashes, whenever: who waits for product details is served,
\* was dropped before the product service ever ran, or ends with its process
\* (WaiterIsServed).
THEOREM NobodyWaitsInVain == ASSUME Bounds PROVE Spec => []WaiterIsServed
BY InitInvariant, NextKeeps, ServedIsServed, PTL DEF Spec

\* Once everybody uses one channel nobody replaces it (SettledStaysSettled).
THEOREM ChannelsStaySettled == ASSUME Bounds PROVE Spec => SettledStaysSettled
<1>1. IInv /\ [Next]_vars => [Settled => Settled' \/ channel' = None]_vars
  BY SettledStep
<1> QED
  BY <1>1, InitInvariant, NextKeeps, PTL DEF Spec, SettledStaysSettled

=============================================================================
