------------------------------ MODULE Mailing ------------------------------
(***************************************************************************)
(* Mail about orders and payments: the notification service asks the user  *)
(* service for the details of each letter's user, over user.details.request*)
(* and a reply queue per query.  Each service is the module that specifies *)
(* it; a step of the whole is a step of one of them.                       *)
(***************************************************************************)
EXTENDS Integers, FiniteSets, Sequences, MessageQueue

CONSTANTS
  Users, Kinds, Queries, Workers, Answerers, None,
  MaxLetters, MaxAddresses, MaxReplies, MaxEdits, MaxFailures

ASSUME BoundsAssumption ==
  {MaxLetters, MaxAddresses, MaxReplies, MaxEdits, MaxFailures} \subseteq Nat
ASSUME KindsAssumption == Kinds \subseteq {"CONFIRMATION", "CANCELLATION", "PAYMENT"}

VARIABLES
  \* the notification service
  bound, letterQueue, deliveries, lost, dropped, acked, rendered, crashed, posted,
  \* the user service
  users, answers, edits,
  \* what is between them
  declared, queryQueue, replyQueues, replies,
  failures   \* errors and crashes of either

Notices == INSTANCE NotificationService

Accounts == INSTANCE UserService

noticeVars == <<bound, letterQueue, deliveries, lost, dropped, acked, rendered, crashed, posted>>
accountVars == <<users, answers, edits>>
vars == <<noticeVars, accountVars, declared, queryQueue, replyQueues, replies, failures>>

Letter == Notices!Letter
Query == Accounts!Query

ASSUME WorkersAssumption == IsFiniteSet(Workers) /\ IsFiniteSet(Answerers)
ASSUME NoneAssumption ==
  /\ None \notin Users \cup Queries
  /\ None \notin Letter /\ None \notin Query /\ None \notin Accounts!User

TypeOK ==
  /\ Notices!ServiceTypeOK
  /\ Accounts!ServiceTypeOK

Init ==
  /\ Notices!ServiceInit
  /\ Accounts!ServiceInit

NoticeStep(A) == A /\ UNCHANGED accountVars
AccountStep(A) == A /\ UNCHANGED noticeVars

\* A query somewhere on its way to an answer.
InFlight(q) == queryQueue[q] > 0 \/ \E a \in Answerers : answers[a].query = q

\* A correlation id that has left no trace is as good as a fresh uuid.
Fresh(id) ==
  /\ \A w \in Workers : deliveries[w].id # id
  /\ \A q \in Query : q.id = id => ~InFlight(q)
  /\ replies[id] = <<>>
AskAfresh(w) == \E id \in Queries : Fresh(id) /\ NoticeStep(Notices!Ask(w, id))

\* The id of a user who registers is one that no order names yet.
Register(u) ==
  /\ \A l \in Letter : l.userId = u => posted[l] = 0
  /\ AccountStep(Accounts!CreateUser(u))

\* Nothing is left to do until a user acts or a process crashes.
Quiescent ==
  /\ bound /\ declared
  /\ \A w \in Workers : deliveries[w].step = "idle" \/ Notices!Unheard(w)
  /\ \A l \in Letter : letterQueue[l] = 0
  /\ \A q \in Query : ~InFlight(q)
  /\ \A id \in Queries : replies[id] = <<>>
Rest == Quiescent /\ UNCHANGED vars

Next ==
  \/ \E l \in Letter : NoticeStep(Notices!Post(l))
  \/ \E w \in Workers : AskAfresh(w)
  \/ NoticeStep(Notices!ServiceNext)
  \/ \E u \in Users : Register(u)
  \/ AccountStep(Accounts!ServiceNext)
  \/ Rest

Spec == Init /\ [][Next]_vars

\* Both processes are started and restarted, a settled promise continues and a
\* ready message is delivered; shops and users owe nothing.  A handler, an
\* answerer and an id are always to be had in the code, which bounds none of them:
\* whoever needs one of the model's few is not passed over for ever (SF).
Fairness ==
  /\ WF_vars(NoticeStep(Notices!Bind))
  /\ \A l \in Letter : SF_vars(NoticeStep(\E w \in Workers : Notices!Deliver(w, l)))
  /\ \A w \in Workers : SF_vars(AskAfresh(w)) /\ WF_vars(NoticeStep(Notices!Handle(w)))
  /\ \A id \in Queries : WF_vars(NoticeStep(Notices!TakeSecondReply(id)))
  /\ WF_vars(AccountStep(Accounts!Declare))
  /\ \A q \in Query : SF_vars(AccountStep(\E a \in Answerers : Accounts!Deliver(a, q)))
  /\ \A a \in Answerers : WF_vars(AccountStep(Accounts!Serve(a)))
FairSpec == Spec /\ Fairness

-----------------------------------------------------------------------------
(***************************************************************************)
(* Safety                                                                  *)
(***************************************************************************)
\* Handlers that run interleaved and queries that are answered twice, late or to
\* a dead queue never mix up answers: a letter is written with the details of its
\* own user.
DetailsAreTheUsers ==
  \A w \in Workers : deliveries[w].data # None =>
    deliveries[w].data.userId = deliveries[w].letter.userId

\* A handler that waits has its query in flight or its answer in its queue,
\* wherever the two processes crashed, unless it asked before the user service
\* had ever run.
WaiterIsServed ==
  \A w \in Workers : deliveries[w].step = "wait" =>
    \/ InFlight([id |-> deliveries[w].id, userId |-> deliveries[w].letter.userId])
    \/ replies[deliveries[w].id] # <<>>
    \/ Notices!Unheard(w)

\* Every letter that was not dropped at its publication is ready, in a handler or
\* done with, and only a letter whose mail was written is done with.
LettersAreKept ==
  \A l \in Letter :
    /\ posted[l] = dropped[l] + letterQueue[l] + acked[l]
                     + Cardinality({w \in Workers : deliveries[w].letter = l})
    /\ acked[l] <= rendered[l]

\* Answers that come twice and refused letters never have a mail written a second
\* time: only a crash between the writing and the acknowledgement does.
WrittenOnceUnlessCrash ==
  ~crashed =>
    \A l \in Letter :
      rendered[l] = acked[l] + Cardinality({w \in Workers :
        deliveries[w].letter = l /\ deliveries[w].step = "ack"})

(***************************************************************************)
(* Liveness                                                                *)
(***************************************************************************)
\* A query about a user who does not exist ends the user service at each delivery.
Poison == \E q \in Query : users[q.userId] = None /\ InFlight(q)

\* What keeps a letter from ever being handled.
Blocked(l) ==
  \/ Poison
  \/ /\ l.kind = "CONFIRMATION"
     /\ users[l.userId] # None
     /\ users[l.userId].addresses = 0
  \/ \E w \in Workers : deliveries[w].letter = l /\ Notices!Unheard(w)

\* Every letter in the queue is handled, through errors and crashes of both
\* services, unless for ever some query poisons the user service, the user of an
\* order has no address, or the handler asked before the user service ever ran.
LettersAreHandled ==
  \A l \in Letter :
    Notices!Outstanding(l) ~> ~Notices!Outstanding(l) \/ []Blocked(l)

=============================================================================
