----------------------------- MODULE SellerInbox -----------------------------
(***************************************************************************)
(* The seller service's end of seller_request_queue.  The handler only     *)
(* notes that it was asked (the call that would save the order's id for    *)
(* the seller is commented out) and acknowledges; as it throws nothing, it  *)
(* never gives a message back but by dying.                                *)
(***************************************************************************)
EXTENDS Naturals, MessageQueue

CONSTANTS
  Orders,     \* order ids
  MaxCrashes  \* bound: crashes of the process in a behaviour

VARIABLES
  sellerQueue,  \* seller_request_queue, by order
  inHand,       \* what the handler was given and has not acknowledged
  asked,        \* history: the orders the seller service finished handling
  crashes       \* what the bound counts

\* Everything but the queue, which the order service fills.
ServiceInit ==
  /\ inHand = NoMessages(Orders)
  /\ asked = {}
  /\ crashes = 0

\* The channel's prefetch is unlimited: a message is handed over at once.
Deliver(o) ==
  /\ sellerQueue[o] > 0
  /\ sellerQueue' = Take(sellerQueue, o)
  /\ inHand' = Put(inHand, o)
  /\ UNCHANGED <<asked, crashes>>

\* handleProcessingRequest, and the acknowledgement.
Handle(o) ==
  /\ inHand[o] > 0
  /\ inHand' = Take(inHand, o)
  /\ asked' = asked \cup {o}
  /\ UNCHANGED <<sellerQueue, crashes>>

\* Mutant of Returned: automatic acknowledgement, nothing comes back.
NothingReturned(queue) == queue

\* The queue with what the dead channel had not acknowledged.
Returned(queue) == [o \in Orders |-> queue[o] + inHand[o]]

\* The process dies and is started again.
Crash ==
  /\ crashes < MaxCrashes
  /\ crashes' = crashes + 1
  /\ sellerQueue' = Returned(sellerQueue)
  /\ inHand' = NoMessages(Orders)
  /\ UNCHANGED asked

Next == (\E o \in Orders : Deliver(o) \/ Handle(o)) \/ Crash

Quiescent == \A o \in Orders : sellerQueue[o] = 0 /\ inHand[o] = 0

\* Ever asked, or being asked, to ship the order.
AskedAbout(o) == sellerQueue[o] > 0 \/ inHand[o] > 0 \/ o \in asked

=============================================================================
