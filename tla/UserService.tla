---------------------------- MODULE UserService ----------------------------
(***************************************************************************)
(* The part of the user service that other services depend on: the user    *)
(* and address tables, the mutations that change them, and the consumer of *)
(* user.details.request, which answers each query on the reply queue that  *)
(* the query names.  The consumer has no try/catch: an error in it ends    *)
(* the process.                                                            *)
(***************************************************************************)
EXTENDS Naturals, FiniteSets, Sequences, MessageQueue

CONSTANTS
  Users,         \* user ids that orders and payments name
  Queries,       \* correlation ids, each with the reply queue of the same query
  Answerers,     \* deliveries of user.details.request handled at a time
  None,
  MaxAddresses,  \* bound: addresses of a user
  MaxReplies,    \* bound: answers in a reply queue
  MaxEdits,      \* bound: mutations of accounts in a behaviour
  MaxFailures    \* bound: errors and crashes of either service in a behaviour

VARIABLES
  users,         \* the user table with its addresses; None: no such user
  declared,      \* user.details.request exists: the service has run before
  queryQueue,    \* user.details.request
  answers,       \* the handlers of user.details.request in progress
  replyQueues,   \* the exclusive reply queues that exist
  replies,       \* what each reply queue holds, oldest first
  edits, failures  \* what the bounds count

accounts == <<users, edits>>
vars == <<accounts, declared, queryQueue, answers, replyQueues, replies, failures>>

\* The row of a user, with how many addresses it has.
User == [userId : Users, addresses : Nat]
Query == [id : Queries, userId : Users]
Answer == [step : {"idle", "read", "reply", "ack"},
           query : Query \cup {None}, data : User \cup {None}]

NoAnswer == [step |-> "idle", query |-> None, data |-> None]

ServiceTypeOK ==
  /\ users \in [Users -> User \cup {None}]
  /\ \A u \in Users : users[u] # None => users[u].userId = u
  /\ declared \in BOOLEAN
  /\ queryQueue \in [Query -> Nat]
  /\ answers \in [Answerers -> Answer]
  /\ replyQueues \subseteq Queries
  /\ replies \in [Queries -> Seq(User)]
  /\ edits \in 0..MaxEdits
  /\ failures \in 0..MaxFailures

NewUser(u) == [userId |-> u, addresses |-> 0]

\* The database has what earlier runs left in it: users with one address or none.
ServiceInit ==
  /\ \E known \in SUBSET Users, housed \in SUBSET Users :
       users = [u \in Users |->
                  IF u \notin known THEN None
                  ELSE [NewUser(u) EXCEPT !.addresses = IF u \in housed THEN 1 ELSE 0]]
  /\ declared = FALSE
  /\ answers = [a \in Answerers |-> NoAnswer]
  /\ edits = 0
  /\ failures = 0

-----------------------------------------------------------------------------
(***************************************************************************)
(* The mutations of accounts: each ends in one statement of the database,  *)
(* and one that is refused (no such user, a mail address or phone number   *)
(* that is taken) changes nothing.  No operation removes a user; updateUser *)
(* and updateAddress change what the model does not look at.               *)
(***************************************************************************)
Edit ==
  /\ edits < MaxEdits
  /\ edits' = edits + 1
  /\ UNCHANGED <<declared, queryQueue, answers, replyQueues, replies, failures>>

\* The id is a fresh uuid, whatever the input says: one that nobody knows yet.
CreateUser(u) ==
  /\ users[u] = None
  /\ users' = [users EXCEPT ![u] = NewUser(u)]
  /\ Edit

\* addAddress; the foreign key refuses an unknown user.
AddAddress(u) ==
  /\ users[u] # None
  /\ users[u].addresses < MaxAddresses
  /\ users' = [users EXCEPT ![u].addresses = @ + 1]
  /\ Edit

DeleteAddress(u) ==
  /\ users[u] # None
  /\ users[u].addresses > 0
  /\ users' = [users EXCEPT ![u].addresses = @ - 1]
  /\ Edit

-----------------------------------------------------------------------------
(***************************************************************************)
(* serveUserResponse: the consumer of user.details.request                 *)
(***************************************************************************)
\* The first start of the service asserts the (durable) queue.
Declare ==
  /\ ~declared
  /\ declared' = TRUE
  /\ UNCHANGED <<accounts, queryQueue, answers, replyQueues, replies, failures>>

GoTo(a, step) == answers' = [answers EXCEPT ![a].step = step]

Deliver(a, q) ==
  /\ declared
  /\ answers[a].step = "idle"
  /\ queryQueue[q] > 0
  /\ queryQueue' = Take(queryQueue, q)
  /\ answers' = [answers EXCEPT ![a] = [step |-> "read", query |-> q, data |-> None]]
  /\ UNCHANGED <<accounts, declared, replyQueues, replies, failures>>

\* Mutant of ReadDetails: a user who does not exist is not an error.
ReadUnchecked(a) ==
  /\ answers[a].step = "read"
  /\ answers' = [answers EXCEPT ![a].step = "reply",
                                ![a].data = users[answers[a].query.userId]]
  /\ UNCHANGED <<accounts, declared, queryQueue, replyQueues, replies, failures>>

\* getUserDetails finds the user; when it does not, it throws (see Poisoned).
ReadDetails(a) ==
  /\ answers[a].step = "read"
  /\ users[answers[a].query.userId] # None
  /\ answers' = [answers EXCEPT ![a].step = "reply",
                                ![a].data = users[answers[a].query.userId]]
  /\ UNCHANGED <<accounts, declared, queryQueue, replyQueues, replies, failures>>

\* The broker drops an answer to a reply queue that is gone.
Reply(a) ==
  /\ answers[a].step = "reply"
  /\ Len(replies[answers[a].query.id]) < MaxReplies
  /\ replies' = IF answers[a].query.id \in replyQueues
                THEN [replies EXCEPT ![answers[a].query.id] = Append(@, answers[a].data)]
                ELSE replies
  /\ GoTo(a, "ack")
  /\ UNCHANGED <<accounts, declared, queryQueue, replyQueues, failures>>

AckQuery(a) ==
  /\ answers[a].step = "ack"
  /\ answers' = [answers EXCEPT ![a] = NoAnswer]
  /\ UNCHANGED <<accounts, declared, queryQueue, replyQueues, replies, failures>>

-----------------------------------------------------------------------------
(***************************************************************************)
(* The end of the process, and its restart                                 *)
(***************************************************************************)
\* What the consumer's channel gives back; mutant: automatic acknowledgement.
HeldNothing == [a \in Answerers |-> None]
Held == [a \in Answerers |-> answers[a].query]

Fails == failures < MaxFailures /\ failures' = failures + 1

Restart ==
  /\ answers' = [a \in Answerers |-> NoAnswer]
  /\ queryQueue' = Requeue(queryQueue, Held)
  /\ UNCHANGED <<accounts, declared, replyQueues, replies>>

\* The query is about nobody: getUserDetails throws inside the callback, the
\* rejection is unhandled, and the query is ready for the next start.
Poisoned(a) ==
  /\ answers[a].step = "read"
  /\ users[answers[a].query.userId] = None
  /\ Restart
  /\ UNCHANGED failures

\* The database fails the read, which ends the process in the same way.
ReadFails(a) ==
  /\ answers[a].step = "read"
  /\ Fails
  /\ Restart

ServiceCrash == Fails /\ Restart

-----------------------------------------------------------------------------
Update == \E u \in Users : AddAddress(u) \/ DeleteAddress(u)
Serve(a) == ReadDetails(a) \/ Reply(a) \/ AckQuery(a) \/ Poisoned(a)

ServiceNext ==
  \/ Update
  \/ Declare
  \/ \E a \in Answerers, q \in Query : Deliver(a, q)
  \/ \E a \in Answerers : Serve(a) \/ ReadFails(a)
  \/ ServiceCrash

=============================================================================
