---------------------------- MODULE MessageQueue ----------------------------
(***************************************************************************)
(* The broker as the services use it through amqplib: a durable queue holds *)
(* its ready messages, a message delivered to a consumer is gone from the   *)
(* ready ones until the consumer acknowledges it, and it becomes ready      *)
(* again when the consumer refuses it (nack with requeue) or its channel    *)
(* dies.  No consumer of the repository sets a prefetch count and every one *)
(* of them awaits in its callback, so the handlers of several messages run  *)
(* interleaved: a queue is a bag, [Message -> number of ready copies].      *)
(***************************************************************************)
EXTENDS Naturals, FiniteSets

NoMessages(Message) == [m \in Message |-> 0]

\* channel.publish / channel.sendToQueue
Put(queue, m) == [queue EXCEPT ![m] = @ + 1]

\* The broker hands one copy to a consumer; only where queue[m] > 0.
Take(queue, m) == [queue EXCEPT ![m] = @ - 1]

\* The channel of all consumers died: what each of them held is ready again.
Requeue(queue, held) ==
  [m \in DOMAIN queue |->
     queue[m] + Cardinality({w \in DOMAIN held : held[w] = m})]

=============================================================================
