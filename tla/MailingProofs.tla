----------------------------- MODULE MailingProofs -----------------------------
(***************************************************************************)
(* Theorems about Mailing, for any number of users, queries, handlers and  *)
(* answerers and any bounds: type correctness, that a letter is written    *)
(* with the details of its own user, that a waiting handler is served,      *)
(* that no letter is lost, and that only a crash has one written twice.    *)
(*                                                                         *)
(* DetailsAreTheUsers needs that whatever bears the correlation id of a    *)
(* waiting handler, on its way to the user service or back, is about that  *)
(* handler's user (Traces), and that no two handlers wait under one id.    *)
(* WaiterIsServed is not inductive: an answerer that only has to           *)
(* acknowledge counts as a query in flight, so the invariant says that the *)
(* answer is there by then (Due), in a queue that exists.                  *)
(***************************************************************************)
EXTENDS Mailing, SequenceTheorems, FiniteSetTheorems, TLAPS

InHand(l) == {w \in Workers : deliveries[w].letter = l}
Written(l) == {w \in Workers : deliveries[w].letter = l /\ deliveries[w].step = "ack"}

\* What a handler carries, by the step it is at.
HandlerFits(d) ==
  /\ d.step = "idle" <=> d.letter = None
  /\ d.step = "wait" => d.id \in Queries
  /\ d.step \in {"idle", "ask", "wait"} => d.data = None
  /\ d.step \in {"render", "ack"} => d.data # None /\ d.data.userId = d.letter.userId
HandlersFit == \A w \in Workers : HandlerFits(deliveries[w])

\* What an answerer carries.
AnswerFits(e) ==
  /\ e.step = "idle" <=> e.query = None
  /\ e.step \in {"reply", "ack"} => e.data # None /\ e.data.userId = e.query.userId
AnswersFit == \A a \in Answerers : AnswerFits(answers[a])

\* Whatever bears the id is about the user.
Traces(id, u) ==
  /\ \A q \in Query : q.id = id /\ InFlight(q) => q.userId = u
  /\ \A i \in 1..Len(replies[id]) : replies[id][i].userId = u

Waits(w) == deliveries[w].step = "wait"
QueryOf(w) == [id |-> deliveries[w].id, userId |-> deliveries[w].letter.userId]

AnswersMatch ==
  \A w \in Workers : Waits(w) =>
    /\ Traces(deliveries[w].id, deliveries[w].letter.userId)
    /\ deliveries[w].id \in replyQueues
    /\ \A v \in Workers : Waits(v) /\ deliveries[v].id = deliveries[w].id => v = w

Working(q) ==
  \E a \in Answerers : answers[a].query = q /\ answers[a].step \in {"read", "reply"}

\* An answer is there or will be, or the broker dropped the query.
Due(q) == queryQueue[q] > 0 \/ Working(q) \/ replies[q.id] # <<>> \/ q.id \in lost
Served == \A w \in Workers : Waits(w) => Due(QueryOf(w))

\* The letters of a kind to a user are all accounted for.
Balanced(l) ==
  /\ posted[l] = dropped[l] + letterQueue[l] + acked[l] + Cardinality(InHand(l))
  /\ acked[l] + Cardinality(Written(l)) <= rendered[l]
  /\ ~crashed => rendered[l] = acked[l] + Cardinality(Written(l))
LettersCounted == \A l \in Letter : Balanced(l)

IInv == TypeOK /\ HandlersFit /\ AnswersFit /\ AnswersMatch /\ Served /\ LettersCounted

-----------------------------------------------------------------------------
(***************************************************************************)
(* Types                                                                   *)
(***************************************************************************)
LEMMA Types ==
  TypeOK <=>
    /\ bound \in BOOLEAN /\ crashed \in BOOLEAN /\ declared \in BOOLEAN
    /\ letterQueue \in [Letter -> Nat]
    /\ deliveries \in [Workers -> Notices!Delivery]
    /\ lost \subseteq Queries
    /\ dropped \in [Letter -> Nat] /\ acked \in [Letter -> Nat] /\ rendered \in [Letter -> Nat]
    /\ posted \in [Letter -> 0..MaxLetters]
    /\ failures \in 0..MaxFailures
    /\ users \in [Users -> Accounts!User \cup {None}]
    /\ \A u \in Users : users[u] # None => users[u].userId = u
    /\ queryQueue \in [Query -> Nat]
    /\ answers \in [Answerers -> Accounts!Answer]
    /\ replyQueues \subseteq Queries
    /\ replies \in [Queries -> Seq(Accounts!User)]
    /\ edits \in 0..MaxEdits
BY DEF TypeOK, Notices!ServiceTypeOK, Accounts!ServiceTypeOK, Letter, Query

LEMMA TypesAfter ==
  TypeOK' <=>
    /\ bound' \in BOOLEAN /\ crashed' \in BOOLEAN /\ declared' \in BOOLEAN
    /\ letterQueue' \in [Letter -> Nat]
    /\ deliveries' \in [Workers -> Notices!Delivery]
    /\ lost' \subseteq Queries
    /\ dropped' \in [Letter -> Nat] /\ acked' \in [Letter -> Nat] /\ rendered' \in [Letter -> Nat]
    /\ posted' \in [Letter -> 0..MaxLetters]
    /\ failures' \in 0..MaxFailures
    /\ users' \in [Users -> Accounts!User \cup {None}]
    /\ \A u \in Users : users'[u] # None => users'[u].userId = u
    /\ queryQueue' \in [Query -> Nat]
    /\ answers' \in [Answerers -> Accounts!Answer]
    /\ replyQueues' \subseteq Queries
    /\ replies' \in [Queries -> Seq(Accounts!User)]
    /\ edits' \in 0..MaxEdits
BY DEF TypeOK, Notices!ServiceTypeOK, Accounts!ServiceTypeOK, Letter, Query

\* The modules of the two services read a queue as this one does.
LEMMA QueueOperators ==
  /\ \A queue, m : Notices!Put(queue, m) = Put(queue, m)
  /\ \A queue, m : Accounts!Take(queue, m) = Take(queue, m)
  /\ \A queue, m : Notices!Take(queue, m) = Take(queue, m)
  /\ \A queue, held : Notices!Requeue(queue, held) = Requeue(queue, held)
  /\ \A queue, held : Accounts!Requeue(queue, held) = Requeue(queue, held)
  /\ \A Message : Notices!NoMessages(Message) = NoMessages(Message)
<1>1. \A S : Notices!Cardinality(S) = Cardinality(S) /\ Accounts!Cardinality(S) = Cardinality(S)
  BY DEF Notices!Cardinality, Accounts!Cardinality, Cardinality
<1> QED
  BY <1>1 DEF Notices!Put, Put, Notices!Take, Accounts!Take, Take, Notices!Requeue, Requeue,
              Accounts!Requeue, Notices!NoMessages, NoMessages

LEMMA PutFacts ==
  ASSUME NEW Message, NEW queue \in [Message -> Nat], NEW m \in Message
  PROVE  /\ Put(queue, m) \in [Message -> Nat]
         /\ Put(queue, m)[m] = queue[m] + 1
         /\ \A n \in Message \ {m} : Put(queue, m)[n] = queue[n]
BY DEF Put

LEMMA TakeFacts ==
  ASSUME NEW Message, NEW queue \in [Message -> Nat], NEW m \in Message, queue[m] > 0
  PROVE  /\ Take(queue, m) \in [Message -> Nat]
         /\ Take(queue, m)[m] = queue[m] - 1
         /\ \A n \in Message \ {m} : Take(queue, m)[n] = queue[n]
BY DEF Take

Holders(S, held, m) == {w \in S : held[w] = m}

LEMMA HoldersFacts ==
  ASSUME NEW S, IsFiniteSet(S), NEW held, NEW m
  PROVE  /\ Cardinality(Holders(S, held, m)) \in Nat
         /\ Cardinality(Holders(S, held, m)) = 0 <=> \A w \in S : held[w] # m
<1>1. Holders(S, held, m) \in SUBSET S
  BY DEF Holders
<1>2. IsFiniteSet(Holders(S, held, m)) /\ Cardinality(Holders(S, held, m)) \in Nat
  BY <1>1, FS_Subset, FS_CardinalityType
<1>3. Cardinality(Holders(S, held, m)) = 0 <=> Holders(S, held, m) = {}
  BY <1>2, FS_EmptySet
<1> QED
  BY <1>2, <1>3 DEF Holders

LEMMA RequeueFacts ==
  ASSUME NEW Message, NEW queue \in [Message -> Nat], NEW S, IsFiniteSet(S),
         NEW held, DOMAIN held = S
  PROVE  /\ Requeue(queue, held) \in [Message -> Nat]
         /\ \A m \in Message :
              Requeue(queue, held)[m] = queue[m] + Cardinality(Holders(S, held, m))
<1>1. Requeue(queue, held) =
        [m \in Message |-> queue[m] + Cardinality(Holders(S, held, m))]
  BY DEF Requeue, Holders
<1>2. \A m \in Message : queue[m] + Cardinality(Holders(S, held, m)) \in Nat
  BY HoldersFacts
<1> QED
  BY <1>1, <1>2

-----------------------------------------------------------------------------
(***************************************************************************)
(* Letters are counted                                                     *)
(***************************************************************************)
\* Two subsets of a finite set that differ in one element at most.
LEMMA CountOne ==
  ASSUME NEW S, IsFiniteSet(S), NEW w \in S, NEW A \in SUBSET S, NEW B \in SUBSET S,
         A \ {w} = B \ {w}
  PROVE  /\ (w \in A <=> w \in B) => Cardinality(B) = Cardinality(A)
         /\ w \notin A /\ w \in B => Cardinality(B) = Cardinality(A) + 1
         /\ w \in A /\ w \notin B => Cardinality(B) = Cardinality(A) - 1
<1> DEFINE C == A \ {w}
<1>1. IsFiniteSet(A) /\ IsFiniteSet(B) /\ IsFiniteSet(C)
  BY FS_Subset
<1>2. Cardinality(A) \in Nat /\ Cardinality(B) \in Nat /\ Cardinality(C) \in Nat
  BY <1>1, FS_CardinalityType
<1>3. Cardinality(C) = IF w \in A THEN Cardinality(A) - 1 ELSE Cardinality(A)
  BY <1>1, FS_RemoveElement
<1>4. Cardinality(C) = IF w \in B THEN Cardinality(B) - 1 ELSE Cardinality(B)
  BY <1>1, FS_RemoveElement
<1> HIDE DEF C
<1>5. PICK a \in Nat, b \in Nat, c \in Nat :
        Cardinality(A) = a /\ Cardinality(B) = b /\ Cardinality(C) = c
  BY <1>2
<1> QED
  BY <1>3, <1>4, <1>5

\* What a step adds to the numbers of a letter.
Shift(l, po, dr, qu, ac, ha, wr, re) ==
  /\ posted'[l] = posted[l] + po
  /\ dropped'[l] = dropped[l] + dr
  /\ letterQueue'[l] = letterQueue[l] + qu
  /\ acked'[l] = acked[l] + ac
  /\ Cardinality(InHand(l)') = Cardinality(InHand(l)) + ha
  /\ Cardinality(Written(l)') = Cardinality(Written(l)) + wr
  /\ rendered'[l] = rendered[l] + re

LEMMA Counts ==
  ASSUME TypeOK, NEW l \in Letter
  PROVE  /\ posted[l] \in Nat /\ dropped[l] \in Nat /\ letterQueue[l] \in Nat
         /\ acked[l] \in Nat /\ rendered[l] \in Nat
         /\ Cardinality(InHand(l)) \in Nat /\ Cardinality(Written(l)) \in Nat
<1>1. InHand(l) \in SUBSET Workers /\ Written(l) \in SUBSET Workers
  BY DEF InHand, Written
<1>2. IsFiniteSet(InHand(l)) /\ IsFiniteSet(Written(l))
  BY <1>1, WorkersAssumption, FS_Subset
<1>3. MaxLetters \in Nat
  BY BoundsAssumption
<1> QED
  BY <1>2, <1>3, FS_CardinalityType, Types

LEMMA ShiftKeeps ==
  ASSUME TypeOK, NEW l \in Letter, Balanced(l),
         NEW po \in Int, NEW dr \in Int, NEW qu \in Int, NEW ac \in Int, NEW ha \in Int,
         NEW wr \in Int, NEW re \in Int,
         Shift(l, po, dr, qu, ac, ha, wr, re),
         po = dr + qu + ac + ha, ac + wr <= re,
         crashed' \/ (ac + wr = re /\ crashed' = crashed)
  PROVE  Balanced(l)'
<1>1. PICK p \in Nat, d \in Nat, q \in Nat, a \in Nat, h \in Nat, w \in Nat, r \in Nat :
        /\ posted[l] = p /\ dropped[l] = d /\ letterQueue[l] = q /\ acked[l] = a
        /\ Cardinality(InHand(l)) = h /\ Cardinality(Written(l)) = w /\ rendered[l] = r
  BY Counts
<1>2. p = d + q + a + h /\ a + w <= r /\ (~crashed => r = a + w)
  BY <1>1 DEF Balanced
<1>3. /\ p + po = (d + dr) + (q + qu) + (a + ac) + (h + ha)
      /\ (a + ac) + (w + wr) <= r + re
      /\ ~crashed' => r + re = (a + ac) + (w + wr)
  BY <1>2
<1>4. /\ posted'[l] = p + po /\ dropped'[l] = d + dr /\ letterQueue'[l] = q + qu
      /\ acked'[l] = a + ac /\ Cardinality(InHand(l)') = h + ha
      /\ Cardinality(Written(l)') = w + wr /\ rendered'[l] = r + re
  BY <1>1 DEF Shift
<1> QED
  BY <1>3, <1>4 DEF Balanced

\* A step of one handler changes the counts of its letters alone.
LEMMA HandMoves ==
  ASSUME NEW w \in Workers, \A v \in Workers \ {w} : deliveries'[v] = deliveries[v], NEW l
  PROVE  /\ (deliveries[w].letter = l <=> deliveries'[w].letter = l) =>
              Cardinality(InHand(l)') = Cardinality(InHand(l))
         /\ deliveries[w].letter # l /\ deliveries'[w].letter = l =>
              Cardinality(InHand(l)') = Cardinality(InHand(l)) + 1
         /\ deliveries[w].letter = l /\ deliveries'[w].letter # l =>
              Cardinality(InHand(l)') = Cardinality(InHand(l)) - 1
<1>1. /\ InHand(l) \in SUBSET Workers /\ InHand(l)' \in SUBSET Workers
      /\ InHand(l) \ {w} = InHand(l)' \ {w}
      /\ w \in InHand(l) <=> deliveries[w].letter = l
      /\ w \in InHand(l)' <=> deliveries'[w].letter = l
  BY DEF InHand
<1> QED
  BY <1>1, WorkersAssumption, CountOne

LEMMA WrittenMoves ==
  ASSUME NEW w \in Workers, \A v \in Workers \ {w} : deliveries'[v] = deliveries[v], NEW l
  PROVE  /\ (w \in Written(l) <=> w \in Written(l)') =>
              Cardinality(Written(l)') = Cardinality(Written(l))
         /\ w \notin Written(l) /\ w \in Written(l)' =>
              Cardinality(Written(l)') = Cardinality(Written(l)) + 1
         /\ w \in Written(l) /\ w \notin Written(l)' =>
              Cardinality(Written(l)') = Cardinality(Written(l)) - 1
<1>1. /\ Written(l) \in SUBSET Workers /\ Written(l)' \in SUBSET Workers
      /\ Written(l) \ {w} = Written(l)' \ {w}
  BY DEF Written
<1> QED
  BY <1>1, WorkersAssumption, CountOne

\* The numbers of the letters but one stay as they are.
OnlyAbout(m) ==
  \A l \in Letter \ {m} :
    /\ posted'[l] = posted[l] /\ dropped'[l] = dropped[l] /\ letterQueue'[l] = letterQueue[l]
    /\ acked'[l] = acked[l] /\ rendered'[l] = rendered[l]

LEMMA OthersKeep ==
  ASSUME TypeOK, LettersCounted, NEW w \in Workers,
         \A v \in Workers \ {w} : deliveries'[v] = deliveries[v],
         NEW m \in Letter, deliveries[w].letter \in {m, None}, deliveries'[w].letter \in {m, None},
         OnlyAbout(m), crashed' = crashed, Balanced(m)'
  PROVE  LettersCounted'
<1> SUFFICES ASSUME NEW l \in Letter, l # m PROVE Balanced(l)'
  BY DEF LettersCounted
<1>1. deliveries[w].letter # l /\ deliveries'[w].letter # l
  BY NoneAssumption
<1>2. Cardinality(InHand(l)') = Cardinality(InHand(l))
  BY <1>1, HandMoves
<1>3. w \notin Written(l) /\ w \notin Written(l)'
  BY <1>1 DEF Written
<1>4. Cardinality(Written(l)') = Cardinality(Written(l))
  BY <1>3, WrittenMoves
<1> QED
  BY <1>2, <1>4 DEF OnlyAbout, LettersCounted, Balanced

-----------------------------------------------------------------------------
(***************************************************************************)
(* What a step leaves of queries and answers                               *)
(***************************************************************************)
TracesKept == \A id \in Queries, u \in Users : Traces(id, u) => Traces(id, u)'
WaitersKept == \A w \in Workers : Waits(w)' => deliveries'[w] = deliveries[w]
DueKept ==
  \A w \in Workers : Waits(w)' =>
    \A q \in Query : q.id = deliveries[w].id /\ Due(q) => Due(q)'

\* What a handler carries.
LEMMA DeliveryFacts ==
  ASSUME IInv, NEW w \in Workers
  PROVE  /\ deliveries[w] \in Notices!Delivery
         /\ HandlerFits(deliveries[w])
         /\ deliveries[w].step # "idle" =>
              deliveries[w].letter \in Letter /\ deliveries[w].letter.userId \in Users
         /\ deliveries[w].step = "idle" => deliveries[w].letter = None
         /\ deliveries[w].letter \in Letter \cup {None}
         /\ Waits(w) => deliveries[w].id \in Queries /\ QueryOf(w) \in Query
<1>1. deliveries[w] \in Notices!Delivery /\ HandlerFits(deliveries[w])
  BY Types DEF IInv, HandlersFit
<1>2. deliveries[w].letter \in Letter \cup {None}
  BY <1>1 DEF Notices!Delivery, Letter
<1>3. deliveries[w].step # "idle" => deliveries[w].letter \in Letter
  BY <1>1, <1>2 DEF HandlerFits
<1>4. \A l \in Letter : l.userId \in Users
  BY DEF Letter, Notices!Letter
<1>5. Waits(w) => deliveries[w].id \in Queries /\ QueryOf(w) \in Query
  BY <1>1, <1>3, <1>4 DEF Waits, HandlerFits, QueryOf, Query, Accounts!Query
<1> QED
  BY <1>1, <1>2, <1>3, <1>4, <1>5 DEF HandlerFits

LEMMA MatchKept ==
  ASSUME IInv, WaitersKept, TracesKept, replyQueues \subseteq replyQueues'
  PROVE  AnswersMatch'
<1> SUFFICES ASSUME NEW w \in Workers, Waits(w)'
             PROVE  /\ Traces(deliveries[w].id, deliveries[w].letter.userId)'
                    /\ deliveries'[w].id \in replyQueues'
                    /\ \A v \in Workers : Waits(v)' /\ deliveries'[v].id = deliveries'[w].id => v = w
  BY DEF AnswersMatch
<1>1. \A v \in Workers : Waits(v)' => Waits(v) /\ deliveries'[v] = deliveries[v]
  BY DEF WaitersKept, Waits
<1>2. deliveries[w].id \in Queries /\ deliveries[w].letter.userId \in Users
  BY <1>1, DeliveryFacts DEF Waits
<1>3. /\ Traces(deliveries[w].id, deliveries[w].letter.userId)
      /\ deliveries[w].id \in replyQueues
      /\ \A v \in Workers : Waits(v) /\ deliveries[v].id = deliveries[w].id => v = w
  BY <1>1 DEF IInv, AnswersMatch
<1>4. PICK id \in Queries, u \in Users :
        id = deliveries[w].id /\ u = deliveries[w].letter.userId
  BY <1>2
<1>5. Traces(id, u)'
  BY <1>3, <1>4 DEF TracesKept
<1>6. deliveries'[w].id = id /\ deliveries'[w].letter.userId = u
  BY <1>1, <1>4
<1>7. Traces(deliveries[w].id, deliveries[w].letter.userId)'
  BY <1>5, <1>6 DEF Traces
<1> QED
  BY <1>1, <1>3, <1>7

LEMMA ServedKept ==
  ASSUME IInv, WaitersKept, DueKept PROVE Served'
<1> SUFFICES ASSUME NEW w \in Workers, Waits(w)' PROVE Due(QueryOf(w))'
  BY DEF Served
<1>1. Waits(w) /\ deliveries'[w] = deliveries[w]
  BY DEF WaitersKept, Waits
<1>2. PICK q \in Query : q = QueryOf(w) /\ q.id = deliveries[w].id
  BY <1>1, DeliveryFacts DEF QueryOf
<1>3. Due(q)
  BY <1>1, <1>2 DEF IInv, Served
<1>4. Due(q)'
  BY <1>2, <1>3 DEF DueKept
<1>5. QueryOf(w)' = q
  BY <1>1, <1>2 DEF QueryOf
<1> QED
  BY <1>4, <1>5 DEF Due, Working

\* The rest of a queue is about whom the queue was about.
LEMMA TracesShrink ==
  ASSUME TypeOK, \A q \in Query : InFlight(q)' => InFlight(q),
         \A id \in Queries : \/ replies'[id] = replies[id]
                             \/ replies'[id] = <<>>
                             \/ replies[id] # <<>> /\ replies'[id] = Tail(replies[id])
  PROVE  TracesKept
<1> SUFFICES ASSUME NEW id \in Queries, NEW u \in Users, Traces(id, u) PROVE Traces(id, u)'
  BY DEF TracesKept
<1>1. \A q \in Query : q.id = id /\ InFlight(q)' => q.userId = u
  BY DEF Traces
<1>2. replies[id] \in Seq(Accounts!User)
  BY Types
<1>3. CASE replies'[id] = replies[id]
  BY <1>1, <1>3 DEF Traces
<1>4. CASE replies'[id] = <<>>
  BY <1>1, <1>4 DEF Traces
<1>5. CASE replies[id] # <<>> /\ replies'[id] = Tail(replies[id])
  <2>1. /\ Len(replies'[id]) = Len(replies[id]) - 1 /\ Len(replies[id]) \in Nat
        /\ \A i \in 1..Len(replies'[id]) : replies'[id][i] = replies[id][i + 1]
    BY <1>2, <1>5, HeadTailProperties, LenProperties
  <2>2. PICK n \in Nat : n = Len(replies[id])
    BY <2>1
  <2>3. \A i \in 1..(n - 1) : i + 1 \in 1..n
    BY <2>2
  <2>4. \A i \in 1..Len(replies'[id]) : replies'[id][i].userId = u
    BY <2>1, <2>2, <2>3 DEF Traces
  <2> QED
    BY <1>1, <2>4 DEF Traces
<1> QED
  BY <1>3, <1>4, <1>5

-----------------------------------------------------------------------------
(***************************************************************************)
(* The steps of the notification service                                   *)
(***************************************************************************)
\* What every step of it leaves alone, but for its crash.
NoticeOnly ==
  UNCHANGED <<users, answers, edits, declared, queryQueue>>

NoticeTypes ==
  /\ bound' \in BOOLEAN
  /\ letterQueue' \in [Letter -> Nat]
  /\ dropped' \in [Letter -> Nat] /\ acked' \in [Letter -> Nat] /\ rendered' \in [Letter -> Nat]
  /\ posted' \in [Letter -> 0..MaxLetters]
  /\ failures' \in 0..MaxFailures

\* A step that moves one handler, to anything but a query, and may take an answer.
LEMMA HandlerStep ==
  ASSUME IInv, NEW w \in Workers, NEW d \in Notices!Delivery, HandlerFits(d), d.step # "wait",
         deliveries' = [deliveries EXCEPT ![w] = d],
         NoticeOnly, UNCHANGED <<replyQueues, lost, crashed>>, NoticeTypes,
         \/ replies' = replies
         \/ /\ Waits(w) /\ replies[deliveries[w].id] # <<>>
            /\ replies' = [replies EXCEPT ![deliveries[w].id] = Tail(@)],
         LettersCounted'
  PROVE  IInv'
<1>1. TypeOK
  BY DEF IInv
<1>2. /\ deliveries' \in [Workers -> Notices!Delivery]
      /\ deliveries'[w] = d
      /\ \A v \in Workers \ {w} : deliveries'[v] = deliveries[v]
  BY <1>1, Types
<1>3. /\ replies' \in [Queries -> Seq(Accounts!User)]
      /\ \A id \in Queries : \/ replies'[id] = replies[id]
                             \/ replies[id] # <<>> /\ replies'[id] = Tail(replies[id])
      /\ \A id \in Queries : replies'[id] = replies[id] \/ (Waits(w) /\ id = deliveries[w].id)
  <2>1. CASE replies' = replies
    BY <1>1, <2>1, Types
  <2>2. CASE /\ Waits(w) /\ replies[deliveries[w].id] # <<>>
             /\ replies' = [replies EXCEPT ![deliveries[w].id] = Tail(@)]
    <3>1. PICK i \in Queries : i = deliveries[w].id
      BY <2>2, DeliveryFacts
    <3>2. replies[i] \in Seq(Accounts!User) /\ replies[i] # <<>>
      BY <1>1, <2>2, <3>1, Types
    <3>3. Tail(replies[i]) \in Seq(Accounts!User)
      BY <3>2, HeadTailProperties
    <3> QED
      BY <1>1, <2>2, <3>1, <3>2, <3>3, Types
  <2> QED
    BY <2>1, <2>2
<1>4. TypeOK'
  BY <1>1, <1>2, <1>3, Types, TypesAfter DEF NoticeOnly, NoticeTypes
<1>5. HandlersFit'
  BY <1>2 DEF HandlersFit, IInv
<1>6. AnswersFit'
  BY DEF NoticeOnly, IInv, AnswersFit
<1>7. WaitersKept
  BY <1>2 DEF WaitersKept, Waits
<1>8. \A q \in Query : InFlight(q)' => InFlight(q)
  BY DEF NoticeOnly, InFlight
<1>9. TracesKept
  BY <1>1, <1>3, <1>8, TracesShrink
<1>10. DueKept
  <2> SUFFICES ASSUME NEW v \in Workers, Waits(v)', NEW q \in Query, q.id = deliveries[v].id, Due(q)
               PROVE  Due(q)'
    BY DEF DueKept
  <2>1. v # w /\ Waits(v)
    BY <1>2 DEF Waits
  <2>2. ~(Waits(w) /\ q.id = deliveries[w].id)
    BY <2>1 DEF IInv, AnswersMatch
  <2>3. q.id \in Queries
    BY DEF Query, Accounts!Query
  <2>4. replies'[q.id] = replies[q.id]
    BY <1>3, <2>2, <2>3
  <2> QED
    BY <2>4 DEF Due, Working, NoticeOnly
<1>11. AnswersMatch' /\ Served'
  BY <1>7, <1>9, <1>10, MatchKept, ServedKept
<1> QED
  BY <1>4, <1>5, <1>6, <1>11 DEF IInv

LEMMA IdleFacts ==
  /\ Notices!NoDelivery \in Notices!Delivery /\ HandlerFits(Notices!NoDelivery)
  /\ Notices!NoDelivery.step = "idle" /\ Notices!NoDelivery.letter = None
  /\ Notices!NoDelivery.id = None /\ Notices!NoDelivery.data = None
BY DEF Notices!NoDelivery, Notices!Delivery, HandlerFits

\* A letter is handed to a handler: from the queue it goes into its hands.
LEMMA DeliverKeeps ==
  ASSUME IInv, NEW w \in Workers, NEW l \in Letter, NoticeStep(Notices!Deliver(w, l)) PROVE IInv'
<1> DEFINE d == [Notices!NoDelivery EXCEPT !.step = "ask", !.letter = l]
<1>1. /\ deliveries[w].step = "idle" /\ letterQueue[l] > 0
      /\ letterQueue' = Take(letterQueue, l)
      /\ deliveries' = [deliveries EXCEPT ![w] = d]
      /\ UNCHANGED <<bound, dropped, acked, rendered, posted, failures, replies>>
      /\ UNCHANGED <<replyQueues, lost, crashed>> /\ NoticeOnly
  BY QueueOperators DEF NoticeStep, Notices!Deliver, Notices!history, accountVars, NoticeOnly
<1>2. d \in Notices!Delivery /\ HandlerFits(d) /\ d.step = "ask" /\ d.letter = l
  <2>1. l \in Notices!Letter /\ l # None
    BY NoneAssumption DEF Letter
  <2>2. /\ d \in Notices!Delivery
        /\ d.step = "ask" /\ d.letter = l /\ d.id = None /\ d.data = None
    BY <2>1, IdleFacts DEF Notices!Delivery
  <2> QED
    BY <2>1, <2>2 DEF HandlerFits
<1> HIDE DEF d
<1>3. /\ TypeOK /\ LettersCounted /\ deliveries \in [Workers -> Notices!Delivery]
      /\ letterQueue \in [Letter -> Nat]
  BY Types DEF IInv
<1>4. letterQueue' \in [Letter -> Nat] /\ letterQueue'[l] = letterQueue[l] - 1
      /\ \A m \in Letter \ {l} : letterQueue'[m] = letterQueue[m]
  BY <1>1, <1>3, TakeFacts
<1>5. deliveries[w].letter = None /\ deliveries'[w] = d
      /\ \A v \in Workers \ {w} : deliveries'[v] = deliveries[v]
  BY <1>1, <1>3, DeliveryFacts
<1>6. Balanced(l)'
  <2>1. Cardinality(InHand(l)') = Cardinality(InHand(l)) + 1
    BY <1>2, <1>5, HandMoves, NoneAssumption
  <2>2. w \notin Written(l) /\ w \notin Written(l)'
    BY <1>1, <1>2, <1>5 DEF Written
  <2>3. Cardinality(Written(l)') = Cardinality(Written(l))
    BY <1>5, <2>2, WrittenMoves
  <2>4. Shift(l, 0, 0, -1, 0, 1, 0, 0)
    BY <1>1, <1>3, <1>4, <2>1, <2>3, Counts DEF Shift
  <2> QED
    BY <1>1, <1>3, <2>4, ShiftKeeps DEF LettersCounted
<1>7. OnlyAbout(l)
  BY <1>1, <1>4 DEF OnlyAbout
<1>8. LettersCounted'
  BY <1>1, <1>2, <1>3, <1>5, <1>6, <1>7, OthersKeep
<1>9. NoticeTypes
  BY <1>1, <1>3, <1>4, Types DEF NoticeTypes
<1> QED
  BY <1>1, <1>2, <1>8, <1>9, HandlerStep

\* The answer taken is about the user of the letter: its id was the handler's own.
LEMMA ReceiveKeeps ==
  ASSUME IInv, NEW w \in Workers, NoticeStep(Notices!Receive(w)) PROVE IInv'
<1> DEFINE id == deliveries[w].id
           d == [deliveries[w] EXCEPT !.step = "render", !.data = Head(replies[id])]
<1>1. /\ Waits(w) /\ replies[id] # <<>>
      /\ replies' = [replies EXCEPT ![id] = Tail(@)]
      /\ deliveries' = [deliveries EXCEPT ![w] = d]
      /\ UNCHANGED <<bound, letterQueue, dropped, acked, rendered, posted, failures>>
      /\ UNCHANGED <<replyQueues, lost, crashed>> /\ NoticeOnly
  <2>1. Notices!Receive(w) /\ UNCHANGED accountVars
    BY DEF NoticeStep
  <2>2. deliveries' = [deliveries EXCEPT ![w].step = "render", ![w].data = Head(replies[id])]
    BY <2>1 DEF Notices!Receive, Notices!Expected
  <2>3. deliveries \in [Workers -> Notices!Delivery]
    BY Types DEF IInv
  <2>4. deliveries' = [deliveries EXCEPT ![w] = d]
    BY <2>2, <2>3
  <2> HIDE DEF d
  <2> QED
    BY <2>1, <2>4
       DEF Notices!Receive, Notices!Expected, Notices!history, accountVars, NoticeOnly, Waits
<1>2. TypeOK /\ LettersCounted /\ deliveries \in [Workers -> Notices!Delivery]
  BY Types DEF IInv
<1>3. /\ id \in Queries
      /\ replies[id] \in Seq(Accounts!User)
      /\ deliveries[w].letter \in Letter
      /\ deliveries[w] \in Notices!Delivery
  BY <1>1, <1>2, DeliveryFacts, Types DEF Waits
<1>4. /\ Head(replies[id]) \in Accounts!User
      /\ Head(replies[id]).userId = deliveries[w].letter.userId
  <2>1. Head(replies[id]) = replies[id][1] /\ 1 \in 1..Len(replies[id])
    BY <1>1, <1>3
  <2>2. replies[id][1] \in Accounts!User
    BY <1>3, <2>1, ElementOfSeq
  <2>3. replies[id][1].userId = deliveries[w].letter.userId
    BY <1>1, <2>1 DEF IInv, AnswersMatch, Traces
  <2> QED
    BY <2>1, <2>2, <2>3
<1>5. /\ d \in Notices!Delivery /\ d.step = "render" /\ d.letter = deliveries[w].letter
      /\ d.data = Head(replies[id])
  <2>1. PICK h \in Notices!User : h = Head(replies[id])
    BY <1>4 DEF Accounts!User, Notices!User
  <2> QED
    BY <1>3, <2>1 DEF Notices!Delivery
<1>6. HandlerFits(d)
  BY <1>3, <1>4, <1>5, NoneAssumption DEF HandlerFits
<1> HIDE DEF d
<1>7. deliveries'[w] = d /\ \A v \in Workers \ {w} : deliveries'[v] = deliveries[v]
  BY <1>1, <1>2
<1>8. LettersCounted'
  <2> SUFFICES ASSUME NEW l \in Letter PROVE Balanced(l)'
    BY DEF LettersCounted
  <2>1. Cardinality(InHand(l)') = Cardinality(InHand(l))
    BY <1>5, <1>7, HandMoves
  <2>2. w \notin Written(l) /\ w \notin Written(l)'
    BY <1>1, <1>5, <1>7 DEF Written, Waits
  <2>3. Cardinality(Written(l)') = Cardinality(Written(l))
    BY <1>7, <2>2, WrittenMoves
  <2> QED
    BY <1>1, <1>2, <2>1, <2>3 DEF LettersCounted, Balanced
<1>9. NoticeTypes
  BY <1>1, <1>2, Types DEF NoticeTypes
<1> QED
  BY <1>1, <1>5, <1>6, <1>8, <1>9, HandlerStep

\* The mail is written.
LEMMA RenderKeeps ==
  ASSUME IInv, NEW w \in Workers, NoticeStep(Notices!Render(w)) PROVE IInv'
<1> DEFINE d == [deliveries[w] EXCEPT !.step = "ack"]
<1>1. TypeOK /\ LettersCounted /\ deliveries \in [Workers -> Notices!Delivery]
      /\ rendered \in [Letter -> Nat]
  BY Types DEF IInv
<1>2. /\ deliveries[w].step = "render"
      /\ rendered' = Put(rendered, deliveries[w].letter)
      /\ deliveries' = [deliveries EXCEPT ![w] = d]
      /\ UNCHANGED <<bound, letterQueue, dropped, acked, posted, failures, replies>>
      /\ UNCHANGED <<replyQueues, lost, crashed>> /\ NoticeOnly
  BY <1>1, QueueOperators DEF NoticeStep, Notices!Render, Notices!queues, accountVars, NoticeOnly
<1>3. PICK l \in Letter : l = deliveries[w].letter
  BY <1>2, DeliveryFacts
<1>4. /\ deliveries[w] \in Notices!Delivery
      /\ deliveries[w].data # None /\ deliveries[w].data.userId = l.userId
  BY <1>2, <1>3, DeliveryFacts DEF HandlerFits
<1>5. /\ d \in Notices!Delivery /\ d.step = "ack" /\ d.letter = l
      /\ d.data = deliveries[w].data
  BY <1>3, <1>4 DEF Notices!Delivery
<1>6. HandlerFits(d)
  BY <1>4, <1>5, NoneAssumption DEF HandlerFits
<1> HIDE DEF d
<1>7. deliveries'[w] = d /\ \A v \in Workers \ {w} : deliveries'[v] = deliveries[v]
  BY <1>1, <1>2
<1>8. /\ rendered' \in [Letter -> Nat] /\ rendered'[l] = rendered[l] + 1
      /\ \A m \in Letter \ {l} : rendered'[m] = rendered[m]
  BY <1>1, <1>2, <1>3, PutFacts
<1>9. Balanced(l)'
  <2>1. Cardinality(InHand(l)') = Cardinality(InHand(l))
    BY <1>3, <1>5, <1>7, HandMoves
  <2>2. w \notin Written(l) /\ w \in Written(l)'
    BY <1>2, <1>5, <1>7 DEF Written
  <2>3. Cardinality(Written(l)') = Cardinality(Written(l)) + 1
    BY <1>7, <2>2, WrittenMoves
  <2>4. Shift(l, 0, 0, 0, 0, 0, 1, 1)
    BY <1>1, <1>2, <1>8, <2>1, <2>3, Counts DEF Shift
  <2> QED
    BY <1>1, <1>2, <2>4, ShiftKeeps DEF LettersCounted
<1>10. OnlyAbout(l)
  BY <1>2, <1>8 DEF OnlyAbout
<1>11. LettersCounted'
  BY <1>1, <1>2, <1>3, <1>5, <1>7, <1>9, <1>10, OthersKeep
<1>12. NoticeTypes
  BY <1>1, <1>2, <1>8, Types DEF NoticeTypes
<1> QED
  BY <1>2, <1>5, <1>6, <1>11, <1>12, HandlerStep

\* A handler lets go of its letter.
LEMMA Released ==
  ASSUME IInv, NEW w \in Workers, deliveries[w].step \in {"ask", "render", "ack"},
         deliveries' = [deliveries EXCEPT ![w] = Notices!NoDelivery]
  PROVE  \E l \in Letter :
           /\ l = deliveries[w].letter /\ deliveries'[w].letter = None
           /\ \A v \in Workers \ {w} : deliveries'[v] = deliveries[v]
           /\ Cardinality(InHand(l)') = Cardinality(InHand(l)) - 1
           /\ deliveries[w].step = "ack" => Cardinality(Written(l)') = Cardinality(Written(l)) - 1
           /\ deliveries[w].step # "ack" => Cardinality(Written(l)') = Cardinality(Written(l))
<1>1. PICK l \in Letter : l = deliveries[w].letter
  BY DeliveryFacts
<1>2. /\ deliveries'[w] = Notices!NoDelivery
      /\ \A v \in Workers \ {w} : deliveries'[v] = deliveries[v]
  BY Types DEF IInv
<1>3. deliveries'[w].letter = None /\ l # None
  BY <1>2, IdleFacts, NoneAssumption
<1>4. Cardinality(InHand(l)') = Cardinality(InHand(l)) - 1
  BY <1>1, <1>2, <1>3, HandMoves
<1>5. w \notin Written(l)' /\ (w \in Written(l) <=> deliveries[w].step = "ack")
  BY <1>1, <1>3 DEF Written
<1>6. /\ deliveries[w].step = "ack" => Cardinality(Written(l)') = Cardinality(Written(l)) - 1
      /\ deliveries[w].step # "ack" => Cardinality(Written(l)') = Cardinality(Written(l))
  BY <1>2, <1>5, WrittenMoves
<1> QED
  BY <1>1, <1>2, <1>3, <1>4, <1>6

\* The letter is done with.
LEMMA AckLetterKeeps ==
  ASSUME IInv, NEW w \in Workers, NoticeStep(Notices!AckLetter(w)) PROVE IInv'
<1>1. TypeOK /\ LettersCounted /\ acked \in [Letter -> Nat]
  BY Types DEF IInv
<1>2. /\ deliveries[w].step = "ack"
      /\ acked' = Put(acked, deliveries[w].letter)
      /\ deliveries' = [deliveries EXCEPT ![w] = Notices!NoDelivery]
      /\ UNCHANGED <<bound, letterQueue, dropped, rendered, posted, failures, replies>>
      /\ UNCHANGED <<replyQueues, lost, crashed>> /\ NoticeOnly
  BY <1>1, QueueOperators
     DEF NoticeStep, Notices!AckLetter, Notices!queues, accountVars, NoticeOnly
<1>3. PICK l \in Letter :
        /\ l = deliveries[w].letter /\ deliveries'[w].letter = None
        /\ \A v \in Workers \ {w} : deliveries'[v] = deliveries[v]
        /\ Cardinality(InHand(l)') = Cardinality(InHand(l)) - 1
        /\ Cardinality(Written(l)') = Cardinality(Written(l)) - 1
  BY <1>2, Released
<1>4. /\ acked' \in [Letter -> Nat] /\ acked'[l] = acked[l] + 1
      /\ \A m \in Letter \ {l} : acked'[m] = acked[m]
  BY <1>1, <1>2, <1>3, PutFacts
<1>5. Shift(l, 0, 0, 0, 1, -1, -1, 0)
  BY <1>1, <1>2, <1>3, <1>4, Counts DEF Shift
<1>6. Balanced(l)'
  BY <1>1, <1>2, <1>5, ShiftKeeps DEF LettersCounted
<1>7. OnlyAbout(l)
  BY <1>2, <1>4 DEF OnlyAbout
<1>8. LettersCounted'
  BY <1>1, <1>2, <1>3, <1>6, <1>7, OthersKeep
<1>9. NoticeTypes
  BY <1>1, <1>2, <1>4, Types DEF NoticeTypes
<1> QED
  BY <1>2, <1>8, <1>9, IdleFacts, HandlerStep

\* A letter that could not be handled goes back.
LEMMA NackKeeps ==
  ASSUME IInv, NEW w \in Workers,
         NoticeStep(Notices!RenderFails(w)) \/ NoticeStep(Notices!HandlerFails(w))
  PROVE  IInv'
<1>1. TypeOK /\ LettersCounted /\ letterQueue \in [Letter -> Nat] /\ failures \in 0..MaxFailures
      /\ MaxFailures \in Nat
  BY Types, BoundsAssumption DEF IInv
<1>2. /\ deliveries[w].step \in {"ask", "render"}
      /\ letterQueue' = Put(letterQueue, deliveries[w].letter)
      /\ deliveries' = [deliveries EXCEPT ![w] = Notices!NoDelivery]
      /\ UNCHANGED <<bound, dropped, acked, rendered, posted, replies>>
      /\ UNCHANGED <<replyQueues, lost, crashed>> /\ NoticeOnly
  BY QueueOperators
     DEF NoticeStep, Notices!RenderFails, Notices!HandlerFails, Notices!Nack, Notices!history,
         accountVars, NoticeOnly
<1>3. failures' \in 0..MaxFailures
  BY <1>1 DEF NoticeStep, Notices!RenderFails, Notices!HandlerFails, Notices!Fails
<1>4. PICK l \in Letter :
        /\ l = deliveries[w].letter /\ deliveries'[w].letter = None
        /\ \A v \in Workers \ {w} : deliveries'[v] = deliveries[v]
        /\ Cardinality(InHand(l)') = Cardinality(InHand(l)) - 1
        /\ Cardinality(Written(l)') = Cardinality(Written(l))
  BY <1>2, Released
<1>5. /\ letterQueue' \in [Letter -> Nat] /\ letterQueue'[l] = letterQueue[l] + 1
      /\ \A m \in Letter \ {l} : letterQueue'[m] = letterQueue[m]
  BY <1>1, <1>2, <1>4, PutFacts
<1>6. Shift(l, 0, 0, 1, 0, -1, 0, 0)
  BY <1>1, <1>2, <1>4, <1>5, Counts DEF Shift
<1>7. Balanced(l)'
  BY <1>1, <1>2, <1>6, ShiftKeeps DEF LettersCounted
<1>8. OnlyAbout(l)
  BY <1>2, <1>5 DEF OnlyAbout
<1>9. LettersCounted'
  BY <1>1, <1>2, <1>4, <1>7, <1>8, OthersKeep
<1>10. NoticeTypes
  BY <1>1, <1>2, <1>3, <1>5, Types DEF NoticeTypes
<1> QED
  BY <1>2, <1>9, <1>10, IdleFacts, HandlerStep

\* A step that moves no handler and no query.
LEMMA HandlersRest ==
  ASSUME IInv, UNCHANGED <<deliveries, lost, replyQueues>>, NoticeOnly, NoticeTypes,
         crashed' = crashed,
         replies' \in [Queries -> Seq(Accounts!User)],
         \A id \in Queries :
           \/ replies'[id] = replies[id]
           \/ /\ replies[id] # <<>> /\ replies'[id] = Tail(replies[id])
              /\ \A w \in Workers : Waits(w) => deliveries[w].id # id,
         LettersCounted'
  PROVE  IInv'
<1>1. TypeOK
  BY DEF IInv
<1>2. TypeOK'
  BY <1>1, Types, TypesAfter DEF NoticeOnly, NoticeTypes
<1>3. HandlersFit' /\ AnswersFit'
  BY DEF HandlersFit, AnswersFit, IInv, NoticeOnly
<1>4. WaitersKept
  BY DEF WaitersKept
<1>5. \A q \in Query : InFlight(q)' => InFlight(q)
  BY DEF NoticeOnly, InFlight
<1>6. TracesKept
  BY <1>1, <1>5, TracesShrink
<1>7. DueKept
  <2> SUFFICES ASSUME NEW v \in Workers, Waits(v)', NEW q \in Query, q.id = deliveries[v].id, Due(q)
               PROVE  Due(q)'
    BY DEF DueKept
  <2>1. Waits(v) /\ q.id \in Queries
    BY DEF Waits, Query, Accounts!Query
  <2>2. replies'[q.id] = replies[q.id]
    BY <2>1
  <2> QED
    BY <2>2 DEF Due, Working, NoticeOnly
<1>8. AnswersMatch' /\ Served'
  BY <1>4, <1>6, <1>7, MatchKept, ServedKept
<1> QED
  BY <1>2, <1>3, <1>8 DEF IInv

LEMMA CountsRest ==
  ASSUME LettersCounted,
         UNCHANGED <<deliveries, posted, dropped, letterQueue, acked, rendered, crashed>>
  PROVE  LettersCounted'
BY DEF LettersCounted, Balanced, InHand, Written

\* A second answer is taken by nobody's handler.
LEMMA TakeSecondReplyKeeps ==
  ASSUME IInv, NEW id \in Queries, NoticeStep(Notices!TakeSecondReply(id)) PROVE IInv'
<1>1. TypeOK /\ LettersCounted /\ replies \in [Queries -> Seq(Accounts!User)]
  BY Types DEF IInv
<1>2. /\ replies[id] # <<>>
      /\ \A w \in Workers : Waits(w) => deliveries[w].id # id
      /\ replies' = [replies EXCEPT ![id] = Tail(@)]
      /\ UNCHANGED <<bound, deliveries, letterQueue, lost, dropped, acked, rendered, crashed>>
      /\ UNCHANGED <<posted, failures, replyQueues>> /\ NoticeOnly
  BY DEF NoticeStep, Notices!TakeSecondReply, Notices!history, accountVars, NoticeOnly, Waits
<1>3. Tail(replies[id]) \in Seq(Accounts!User)
  BY <1>1, <1>2, HeadTailProperties
<1>4. /\ replies' \in [Queries -> Seq(Accounts!User)]
      /\ replies'[id] = Tail(replies[id])
      /\ \A j \in Queries \ {id} : replies'[j] = replies[j]
  BY <1>1, <1>2, <1>3
<1>5. NoticeTypes
  BY <1>1, <1>2, Types DEF NoticeTypes
<1>6. LettersCounted'
  BY <1>1, <1>2, CountsRest
<1> QED
  BY <1>2, <1>4, <1>5, <1>6, HandlersRest

LEMMA BindKeeps == ASSUME IInv, NoticeStep(Notices!Bind) PROVE IInv'
<1>1. TypeOK /\ LettersCounted /\ replies \in [Queries -> Seq(Accounts!User)]
  BY Types DEF IInv
<1>2. /\ bound' = TRUE
      /\ UNCHANGED <<deliveries, letterQueue, lost, dropped, acked, rendered, crashed, replies>>
      /\ UNCHANGED <<posted, failures, replyQueues>> /\ NoticeOnly
  BY DEF NoticeStep, Notices!Bind, Notices!history, Notices!queues, accountVars, NoticeOnly
<1>3. NoticeTypes
  BY <1>1, <1>2, Types DEF NoticeTypes
<1>4. LettersCounted'
  BY <1>1, <1>2, CountsRest
<1> QED
  BY <1>1, <1>2, <1>3, <1>4, HandlersRest

\* A letter is published: it is in the queue, or dropped before there is one.
LEMMA PostKeeps ==
  ASSUME IInv, NEW l \in Letter, NoticeStep(Notices!Post(l)) PROVE IInv'
<1>1. TypeOK /\ LettersCounted /\ replies \in [Queries -> Seq(Accounts!User)]
      /\ letterQueue \in [Letter -> Nat] /\ dropped \in [Letter -> Nat]
      /\ posted \in [Letter -> 0..MaxLetters] /\ MaxLetters \in Nat
  BY Types, BoundsAssumption DEF IInv
<1>2. /\ posted[l] < MaxLetters /\ posted' = Put(posted, l)
      /\ \/ letterQueue' = Put(letterQueue, l) /\ dropped' = dropped
         \/ dropped' = Put(dropped, l) /\ letterQueue' = letterQueue
      /\ UNCHANGED <<bound, deliveries, lost, acked, rendered, crashed, replies>>
      /\ UNCHANGED <<failures, replyQueues>> /\ NoticeOnly
  BY QueueOperators DEF NoticeStep, Notices!Post, accountVars, NoticeOnly
<1>3. /\ posted' \in [Letter -> 0..MaxLetters] /\ posted'[l] = posted[l] + 1
      /\ \A m \in Letter \ {l} : posted'[m] = posted[m]
  <2>1. posted[l] + 1 \in 0..MaxLetters
    BY <1>1, <1>2
  <2> QED
    BY <1>1, <1>2, <2>1 DEF Put
<1>4. \/ /\ letterQueue' \in [Letter -> Nat] /\ letterQueue'[l] = letterQueue[l] + 1
         /\ \A m \in Letter \ {l} : letterQueue'[m] = letterQueue[m]
         /\ dropped' = dropped
      \/ /\ dropped' \in [Letter -> Nat] /\ dropped'[l] = dropped[l] + 1
         /\ \A m \in Letter \ {l} : dropped'[m] = dropped[m]
         /\ letterQueue' = letterQueue
  <2>1. ASSUME letterQueue' = Put(letterQueue, l)
        PROVE  /\ letterQueue' \in [Letter -> Nat] /\ letterQueue'[l] = letterQueue[l] + 1
               /\ \A m \in Letter \ {l} : letterQueue'[m] = letterQueue[m]
    <3>1. letterQueue \in [Letter -> Nat]
      BY <1>1
    <3> QED
      BY <2>1, <3>1, PutFacts
  <2>2. ASSUME dropped' = Put(dropped, l)
        PROVE  /\ dropped' \in [Letter -> Nat] /\ dropped'[l] = dropped[l] + 1
               /\ \A m \in Letter \ {l} : dropped'[m] = dropped[m]
    BY <1>1, <2>2, PutFacts
  <2> QED
    BY <1>2, <2>1, <2>2
<1>5. NoticeTypes
  BY <1>1, <1>2, <1>3, <1>4, Types DEF NoticeTypes
<1>6. \A m : InHand(m)' = InHand(m) /\ Written(m)' = Written(m)
  BY <1>2 DEF InHand, Written
<1>7. LettersCounted'
  <2>1. Shift(l, 1, 0, 1, 0, 0, 0, 0) \/ Shift(l, 1, 1, 0, 0, 0, 0, 0)
    BY <1>1, <1>2, <1>3, <1>4, <1>6, Counts DEF Shift
  <2>2. Balanced(l)'
    BY <1>1, <1>2, <2>1, ShiftKeeps DEF LettersCounted
  <2>3. \A m \in Letter \ {l} : Balanced(m)'
    BY <1>1, <1>2, <1>3, <1>4, <1>6 DEF LettersCounted, Balanced
  <2> QED
    BY <2>2, <2>3 DEF LettersCounted
<1> QED
  BY <1>1, <1>2, <1>5, <1>7, HandlersRest

\* A query under a fresh id: nothing else bears it.
LEMMA AskKeeps ==
  ASSUME IInv, NEW w \in Workers, NEW id \in Queries, Fresh(id), NoticeStep(Notices!Ask(w, id))
  PROVE  IInv'
<1> DEFINE d == [deliveries[w] EXCEPT !.step = "wait", !.id = id]
           query == [id |-> id, userId |-> deliveries[w].letter.userId]
<1>1. /\ TypeOK /\ LettersCounted /\ deliveries \in [Workers -> Notices!Delivery]
      /\ queryQueue \in [Query -> Nat] /\ replies \in [Queries -> Seq(Accounts!User)]
      /\ replyQueues \subseteq Queries /\ lost \subseteq Queries
  BY Types DEF IInv
<1>2. /\ deliveries[w].step = "ask"
      /\ replyQueues' = replyQueues \cup {id}
      /\ \/ queryQueue' = Put(queryQueue, query) /\ lost' = lost \ {id}
         \/ queryQueue' = queryQueue /\ lost' = lost \cup {id}
      /\ UNCHANGED <<bound, declared, letterQueue, replies, dropped, acked, rendered, crashed>>
      /\ UNCHANGED <<posted, failures, users, answers, edits>>
  BY QueueOperators DEF NoticeStep, Notices!Ask, accountVars
<1>3. deliveries' = [deliveries EXCEPT ![w] = d]
  BY <1>1 DEF NoticeStep, Notices!Ask
<1>4. deliveries[w].letter \in Letter /\ deliveries[w].letter.userId \in Users
      /\ deliveries[w].data = None /\ deliveries[w] \in Notices!Delivery
  BY <1>2, DeliveryFacts DEF HandlerFits
<1>5. /\ d \in Notices!Delivery /\ d.step = "wait" /\ d.letter = deliveries[w].letter
      /\ d.id = id /\ d.data = None
  BY <1>4 DEF Notices!Delivery
<1>6. HandlerFits(d)
  BY <1>4, <1>5, NoneAssumption DEF HandlerFits
<1> HIDE DEF d
<1>7. /\ deliveries' \in [Workers -> Notices!Delivery] /\ deliveries'[w] = d
      /\ \A v \in Workers \ {w} : deliveries'[v] = deliveries[v]
  BY <1>1, <1>3, <1>5
<1>8. PICK u \in Users, q0 \in Query :
        /\ u = deliveries[w].letter.userId
        /\ q0 = query /\ q0.id = id /\ q0.userId = u
  <2>1. query \in Query /\ query.id = id /\ query.userId = deliveries[w].letter.userId
    BY <1>4 DEF Query, Accounts!Query
  <2> QED
    BY <1>4, <2>1
<1> HIDE DEF query
<1>9. /\ queryQueue' \in [Query -> Nat]
      /\ queryQueue'[q0] > 0 \/ id \in lost'
      /\ \A q \in Query \ {q0} : queryQueue'[q] = queryQueue[q]
      /\ \A i \in Queries \ {id} : i \in lost' <=> i \in lost
      /\ lost' \subseteq Queries
  <2>1. CASE queryQueue' = Put(queryQueue, query) /\ lost' = lost \ {id}
    <3>1. /\ queryQueue' \in [Query -> Nat] /\ queryQueue'[q0] = queryQueue[q0] + 1
          /\ \A q \in Query \ {q0} : queryQueue'[q] = queryQueue[q]
      <4>1. queryQueue' = Put(queryQueue, q0) /\ queryQueue \in [Query -> Nat]
        BY <1>1, <1>8, <2>1
      <4> QED
        BY <4>1, PutFacts
    <3>2. queryQueue[q0] \in Nat
      BY <1>1
    <3> QED
      BY <1>1, <2>1, <3>1, <3>2
  <2>2. CASE queryQueue' = queryQueue /\ lost' = lost \cup {id}
    BY <1>1, <2>2
  <2> QED
    BY <1>2, <2>1, <2>2
<1>10. TypeOK'
  BY <1>1, <1>2, <1>7, <1>9, Types, TypesAfter
<1>11. HandlersFit' /\ AnswersFit'
  BY <1>2, <1>6, <1>7 DEF HandlersFit, AnswersFit, IInv
<1>12. \A q \in Query : q # q0 => (InFlight(q)' => InFlight(q))
  BY <1>2, <1>9 DEF InFlight
<1>13. /\ \A v \in Workers : deliveries[v].id # id
       /\ \A q \in Query : q.id = id => ~InFlight(q)
       /\ replies[id] = <<>>
  BY DEF Fresh
<1>14. ASSUME NEW v \in Workers \ {w}, Waits(v)'
       PROVE  /\ Waits(v) /\ deliveries'[v] = deliveries[v]
              /\ deliveries[v].id \in Queries \ {id}
  BY <1>7, <1>13, <1>14, DeliveryFacts DEF Waits
<1>15. AnswersMatch'
  <2>1. Traces(id, u)'
    <3>1. \A q \in Query : q.id = id /\ InFlight(q)' => q.userId = u
      BY <1>8, <1>12, <1>13
    <3>2. \A i \in 1..Len(replies'[id]) : replies'[id][i].userId = u
      BY <1>2, <1>13
    <3> QED
      BY <3>1, <3>2 DEF Traces
  <2>2. Traces(deliveries[w].id, deliveries[w].letter.userId)'
    BY <1>5, <1>7, <1>8, <2>1 DEF Traces
  <2>3. ASSUME NEW v \in Workers \ {w}, Waits(v)'
        PROVE  Traces(deliveries[v].id, deliveries[v].letter.userId)'
    <3>1. Traces(deliveries[v].id, deliveries[v].letter.userId)
      BY <1>14, <2>3 DEF IInv, AnswersMatch
    <3>2. deliveries[v].id # id
      BY <1>14, <2>3
    <3>3. \A q \in Query : q.id = deliveries[v].id /\ InFlight(q)' =>
            q.userId = deliveries[v].letter.userId
      BY <1>8, <1>12, <3>1, <3>2 DEF Traces
    <3> QED
      BY <1>2, <1>7, <3>1, <3>3 DEF Traces
  <2>4. \A v \in Workers : Waits(v)' => deliveries'[v].id \in replyQueues'
    BY <1>2, <1>5, <1>7, <1>14 DEF IInv, AnswersMatch
  <2>5. \A v \in Workers, x \in Workers :
          Waits(v)' /\ Waits(x)' /\ deliveries'[v].id = deliveries'[x].id => v = x
    BY <1>5, <1>7, <1>14 DEF IInv, AnswersMatch
  <2> QED
    BY <2>2, <2>3, <2>4, <2>5 DEF AnswersMatch
<1>16. Served'
  <2>1. QueryOf(w)' = q0
    BY <1>5, <1>7, <1>8 DEF QueryOf, query
  <2>2. Due(q0)'
    BY <1>8, <1>9 DEF Due
  <2>3. Due(QueryOf(w))'
    BY <2>1, <2>2 DEF Due, Working
  <2>4. ASSUME NEW v \in Workers \ {w}, Waits(v)' PROVE Due(QueryOf(v))'
    <3>1. Waits(v) /\ Due(QueryOf(v))
      BY <1>14, <2>4 DEF IInv, Served
    <3>2. PICK q \in Query : q = QueryOf(v) /\ q.id = deliveries[v].id
      BY <3>1, DeliveryFacts DEF QueryOf
    <3>3. q # q0 /\ q.id \in Queries \ {id}
      BY <1>8, <1>14, <2>4, <3>2
    <3>4. Due(q)'
      BY <1>2, <1>9, <3>1, <3>2, <3>3 DEF Due, Working
    <3>5. QueryOf(v)' = q
      BY <1>14, <2>4, <3>2 DEF QueryOf
    <3> QED
      BY <3>4, <3>5 DEF Due, Working
  <2> QED
    BY <2>3, <2>4 DEF Served
<1>17. LettersCounted'
  <2> SUFFICES ASSUME NEW l \in Letter PROVE Balanced(l)'
    BY DEF LettersCounted
  <2>1. Cardinality(InHand(l)') = Cardinality(InHand(l))
    BY <1>5, <1>7, HandMoves
  <2>2. w \notin Written(l) /\ w \notin Written(l)'
    BY <1>2, <1>5, <1>7 DEF Written
  <2>3. Cardinality(Written(l)') = Cardinality(Written(l))
    BY <1>7, <2>2, WrittenMoves
  <2> QED
    BY <1>1, <1>2, <2>1, <2>3 DEF LettersCounted, Balanced
<1> QED
  BY <1>10, <1>11, <1>15, <1>16, <1>17 DEF IInv

\* The service dies: nobody waits any more, and the letters in hand go back.
LEMMA NoticeCrashKeeps == ASSUME IInv, NoticeStep(Notices!ServiceCrash) PROVE IInv'
<1>1. /\ TypeOK /\ LettersCounted /\ deliveries \in [Workers -> Notices!Delivery]
      /\ letterQueue \in [Letter -> Nat] /\ failures \in 0..MaxFailures /\ MaxFailures \in Nat
  BY Types, BoundsAssumption DEF IInv
<1>2. /\ failures' \in 0..MaxFailures
      /\ deliveries' = [w \in Workers |-> Notices!NoDelivery]
      /\ letterQueue' = Requeue(letterQueue, Notices!Held)
      /\ replyQueues' = {} /\ replies' = [id \in Queries |-> <<>>] /\ lost' = {}
      /\ crashed' = TRUE
      /\ UNCHANGED <<bound, dropped, acked, rendered, posted>> /\ NoticeOnly
  BY <1>1, QueueOperators DEF NoticeStep, Notices!ServiceCrash, Notices!Fails, accountVars, NoticeOnly
<1>3. /\ letterQueue' \in [Letter -> Nat]
      /\ \A l \in Letter : letterQueue'[l] = letterQueue[l] + Cardinality(InHand(l))
  <2>1. /\ Notices!Held \in [Workers -> Letter \cup {None}]
        /\ \A w \in Workers : Notices!Held[w] = deliveries[w].letter
    BY DeliveryFacts DEF Notices!Held
  <2>2. \A l : Holders(Workers, Notices!Held, l) = InHand(l)
    BY <2>1 DEF InHand, Holders
  <2>3. PICK queue \in [Letter -> Nat], held \in [Workers -> Letter \cup {None}] :
          queue = letterQueue /\ held = Notices!Held
    BY <1>1, <2>1
  <2>4. IsFiniteSet(Workers) /\ DOMAIN held = Workers
    BY WorkersAssumption
  <2>5. /\ Requeue(queue, held) \in [Letter -> Nat]
        /\ \A l \in Letter :
             Requeue(queue, held)[l] = queue[l] + Cardinality(Holders(Workers, held, l))
    BY <2>4, RequeueFacts
  <2>6. letterQueue' = Requeue(queue, held)
    BY <1>2, <2>3
  <2>7. \A l \in Letter : Holders(Workers, held, l) = InHand(l) /\ queue[l] = letterQueue[l]
    BY <2>2, <2>3
  <2> QED
    BY <2>5, <2>6, <2>7
<1>4. \A w \in Workers : deliveries'[w] = Notices!NoDelivery
  BY <1>2
<1>5. <<>> \in Seq(Accounts!User)
  BY EmptySeq
<1>6. TypeOK'
  BY <1>1, <1>2, <1>3, <1>5, IdleFacts, Types, TypesAfter DEF NoticeOnly
<1>7. HandlersFit' /\ AnswersFit'
  BY <1>2, <1>4, IdleFacts DEF HandlersFit, AnswersFit, IInv, NoticeOnly
<1>8. AnswersMatch' /\ Served'
  BY <1>4, IdleFacts DEF AnswersMatch, Served, Waits
<1>9. LettersCounted'
  <2> SUFFICES ASSUME NEW l \in Letter PROVE Balanced(l)'
    BY DEF LettersCounted
  <2>1. InHand(l)' = {} /\ Written(l)' = {}
    BY <1>4, IdleFacts, NoneAssumption DEF InHand, Written
  <2>2. Cardinality(InHand(l)') = 0 /\ Cardinality(Written(l)') = 0
    BY <2>1, FS_EmptySet
  <2>3. PICK h \in Nat, wr \in Nat :
          Cardinality(InHand(l)) = h /\ Cardinality(Written(l)) = wr
    BY <1>1, Counts
  <2>4. Shift(l, 0, 0, h, 0, 0 - h, 0 - wr, 0)
    BY <1>1, <1>2, <1>3, <2>2, <2>3, Counts DEF Shift
  <2>5. h \in Int /\ 0 - h \in Int /\ 0 - wr \in Int /\ 0 = 0 + h + 0 + (0 - h)
        /\ 0 + (0 - wr) <= 0
    BY <2>3
  <2> QED
    BY <1>1, <1>2, <2>4, <2>5, ShiftKeeps DEF LettersCounted
<1> QED
  BY <1>6, <1>7, <1>8, <1>9 DEF IInv

-----------------------------------------------------------------------------
(***************************************************************************)
(* The steps of the user service                                           *)
(***************************************************************************)
\* What is due to an open reply queue stays so.
StillDue == \A q \in Query : q.id \in replyQueues /\ Due(q) => Due(q)'

LEMMA AccountStepKeeps ==
  ASSUME IInv, UNCHANGED noticeVars, UNCHANGED replyQueues, TypeOK', AnswersFit', TracesKept, StillDue
  PROVE  IInv'
<1>1. /\ UNCHANGED <<deliveries, posted, dropped, letterQueue, acked, rendered, crashed, lost>>
      /\ LettersCounted
  BY DEF noticeVars, IInv
<1>2. HandlersFit' /\ LettersCounted'
  BY <1>1, CountsRest DEF HandlersFit, IInv
<1>3. WaitersKept
  BY <1>1 DEF WaitersKept
<1>4. DueKept
  <2> SUFFICES ASSUME NEW w \in Workers, Waits(w)', NEW q \in Query, q.id = deliveries[w].id, Due(q)
               PROVE  Due(q)'
    BY DEF DueKept
  <2>1. Waits(w)
    BY <1>1 DEF Waits
  <2>2. q.id \in replyQueues
    BY <2>1 DEF IInv, AnswersMatch
  <2> QED
    BY <2>2 DEF StillDue
<1>5. AnswersMatch' /\ Served'
  BY <1>3, <1>4, MatchKept, ServedKept
<1> QED
  BY <1>2, <1>5 DEF IInv

TypedUsers ==
  /\ users' \in [Users -> Accounts!User \cup {None}]
  /\ \A u \in Users : users'[u] # None => users'[u].userId = u

\* Nothing of the letters, queries and answers hangs on the tables.
LEMMA TablesKeep ==
  ASSUME IInv, UNCHANGED noticeVars, UNCHANGED <<queryQueue, answers, replyQueues, replies>>,
         TypedUsers, declared' \in BOOLEAN, edits' \in 0..MaxEdits, failures' \in 0..MaxFailures
  PROVE  IInv'
<1>1. TypeOK
  BY DEF IInv
<1>2. TypeOK'
  BY <1>1, Types, TypesAfter DEF noticeVars, TypedUsers
<1>3. AnswersFit'
  BY DEF AnswersFit, IInv
<1>4. TracesKept
  BY DEF TracesKept, Traces, InFlight
<1>5. StillDue
  BY DEF StillDue, Due, Working, noticeVars
<1> QED
  BY <1>2, <1>3, <1>4, <1>5, AccountStepKeeps

LEMMA EditKeeps ==
  ASSUME IInv, UNCHANGED noticeVars, Accounts!Edit, NEW u \in Users, NEW row \in Accounts!User,
         row.userId = u, users' = [users EXCEPT ![u] = row]
  PROVE  IInv'
<1>1. TypeOK
  BY DEF IInv
<1>2. /\ users \in [Users -> Accounts!User \cup {None}] /\ edits \in 0..MaxEdits
      /\ \A v \in Users : users[v] # None => users[v].userId = v
      /\ declared \in BOOLEAN /\ failures \in 0..MaxFailures /\ MaxEdits \in Nat
  BY <1>1, Types, BoundsAssumption
<1>3. TypedUsers
  BY <1>2 DEF TypedUsers
<1>4. edits' \in 0..MaxEdits
  BY <1>2 DEF Accounts!Edit
<1> QED
  BY <1>2, <1>3, <1>4, TablesKeep DEF Accounts!Edit

LEMMA RegisterKeeps == ASSUME IInv, NEW u \in Users, Register(u) PROVE IInv'
<1>1. /\ UNCHANGED noticeVars /\ Accounts!Edit
      /\ users' = [users EXCEPT ![u] = Accounts!NewUser(u)]
  BY DEF Register, AccountStep, Accounts!CreateUser
<1>2. Accounts!NewUser(u) \in Accounts!User /\ Accounts!NewUser(u).userId = u
  BY DEF Accounts!NewUser, Accounts!User
<1> QED
  BY <1>1, <1>2, EditKeeps

LEMMA UpdateKeeps == ASSUME IInv, AccountStep(Accounts!Update) PROVE IInv'
<1>1. PICK u \in Users : Accounts!AddAddress(u) \/ Accounts!DeleteAddress(u)
  BY DEF AccountStep, Accounts!Update
<1>2. UNCHANGED noticeVars /\ Accounts!Edit /\ users[u] # None
  BY <1>1 DEF AccountStep, Accounts!AddAddress, Accounts!DeleteAddress
<1>3. /\ users \in [Users -> Accounts!User \cup {None}]
      /\ users[u] \in Accounts!User /\ users[u].userId = u
  BY <1>2, Types DEF IInv
<1>4. users[u].addresses \in Nat
  BY <1>3 DEF Accounts!User
<1>5. \E n \in Nat : users' = [users EXCEPT ![u].addresses = n]
  <2>1. CASE Accounts!AddAddress(u)
    <3>1. users' = [users EXCEPT ![u].addresses = users[u].addresses + 1]
      BY <1>3, <2>1 DEF Accounts!AddAddress
    <3>2. users[u].addresses + 1 \in Nat
      BY <1>4
    <3> QED
      BY <3>1, <3>2
  <2>2. CASE Accounts!DeleteAddress(u)
    <3>1. /\ users' = [users EXCEPT ![u].addresses = users[u].addresses - 1]
          /\ users[u].addresses > 0
      BY <1>3, <2>2 DEF Accounts!DeleteAddress
    <3>2. users[u].addresses - 1 \in Nat
      BY <1>4, <3>1
    <3> QED
      BY <3>1, <3>2
  <2> QED
    BY <1>1, <2>1, <2>2
<1>6. PICK n \in Nat : users' = [users EXCEPT ![u].addresses = n]
  BY <1>5
<1>7. PICK row \in Accounts!User : row.userId = u /\ users' = [users EXCEPT ![u] = row]
  <2> DEFINE changed == [users[u] EXCEPT !.addresses = n]
  <2>1. changed \in Accounts!User /\ changed.userId = u
    BY <1>3 DEF Accounts!User
  <2>2. users' = [users EXCEPT ![u] = changed]
    BY <1>3, <1>6
  <2> QED
    BY <2>1, <2>2
<1> QED
  BY <1>2, <1>7, EditKeeps

LEMMA DeclareKeeps == ASSUME IInv, AccountStep(Accounts!Declare) PROVE IInv'
<1>1. TypeOK /\ UNCHANGED noticeVars
  BY DEF IInv, AccountStep
<1>2. /\ declared' = TRUE
      /\ UNCHANGED <<users, edits, failures>>
      /\ UNCHANGED <<queryQueue, answers, replyQueues, replies>>
  BY DEF AccountStep, Accounts!Declare, Accounts!accounts
<1>3. TypedUsers
  BY <1>1, <1>2, Types DEF TypedUsers
<1>4. edits' \in 0..MaxEdits /\ failures' \in 0..MaxFailures /\ declared' \in BOOLEAN
  BY <1>1, <1>2, Types
<1> QED
  BY <1>1, <1>2, <1>3, <1>4, TablesKeep

\* What the answerers' steps leave alone.
AnswersOnly == UNCHANGED noticeVars /\ UNCHANGED <<users, edits, declared, failures, replyQueues>>

\* A step that moves one answerer.
LEMMA AnswererTypes ==
  ASSUME IInv, NEW a \in Answerers, NEW e \in Accounts!Answer, AnswerFits(e),
         answers' = [answers EXCEPT ![a] = e], AnswersOnly,
         queryQueue' \in [Query -> Nat], replies' \in [Queries -> Seq(Accounts!User)]
  PROVE  /\ TypeOK' /\ AnswersFit'
         /\ answers'[a] = e /\ \A b \in Answerers \ {a} : answers'[b] = answers[b]
<1>1. TypeOK /\ answers \in [Answerers -> Accounts!Answer]
  BY Types DEF IInv
<1>2. /\ answers' \in [Answerers -> Accounts!Answer]
      /\ answers'[a] = e /\ \A b \in Answerers \ {a} : answers'[b] = answers[b]
  BY <1>1
<1>3. AnswersFit'
  BY <1>2 DEF AnswersFit, IInv
<1>4. TypeOK'
  BY <1>1, <1>2, Types, TypesAfter DEF AnswersOnly, noticeVars
<1> QED
  BY <1>2, <1>3, <1>4

LEMMA NoAnswerFacts ==
  /\ Accounts!NoAnswer \in Accounts!Answer /\ AnswerFits(Accounts!NoAnswer)
  /\ Accounts!NoAnswer.step = "idle" /\ Accounts!NoAnswer.query = None
BY DEF Accounts!NoAnswer, Accounts!Answer, AnswerFits

\* What an answerer carries.
LEMMA AnswererFacts ==
  ASSUME IInv, NEW a \in Answerers
  PROVE  /\ answers[a] \in Accounts!Answer /\ AnswerFits(answers[a])
         /\ answers[a].query \in Query \cup {None}
         /\ answers[a].step # "idle" =>
              /\ answers[a].query \in Query
              /\ answers[a].query.id \in Queries /\ answers[a].query.userId \in Users
         /\ answers[a].step = "idle" => answers[a].query = None
         /\ answers[a].step = "reply" =>
              answers[a].data \in Accounts!User /\ answers[a].data.userId = answers[a].query.userId
<1>1. answers[a] \in Accounts!Answer /\ AnswerFits(answers[a])
  BY Types DEF IInv, AnswersFit
<1>2. answers[a].query \in Query \cup {None} /\ answers[a].data \in Accounts!User \cup {None}
  BY <1>1 DEF Accounts!Answer, Query
<1>3. \A q \in Query : q.id \in Queries /\ q.userId \in Users
  BY DEF Query, Accounts!Query
<1> QED
  BY <1>1, <1>2, <1>3 DEF AnswerFits

\* An answerer takes a query: it is in flight as it was.
LEMMA TakeQueryKeeps ==
  ASSUME IInv, NEW a \in Answerers, NEW q \in Query, AccountStep(Accounts!Deliver(a, q)) PROVE IInv'
<1> DEFINE e == [step |-> "read", query |-> q, data |-> None]
<1>1. /\ TypeOK /\ queryQueue \in [Query -> Nat] /\ replies \in [Queries -> Seq(Accounts!User)]
  BY Types DEF IInv
<1>2. /\ answers[a].step = "idle" /\ queryQueue[q] > 0 /\ queryQueue' = Take(queryQueue, q)
      /\ answers' = [answers EXCEPT ![a] = e]
      /\ AnswersOnly /\ replies' = replies
  BY QueueOperators DEF AccountStep, Accounts!Deliver, Accounts!accounts, AnswersOnly
<1>3. /\ e \in Accounts!Answer /\ AnswerFits(e) /\ e.step = "read" /\ e.query = q
  BY NoneAssumption DEF Accounts!Answer, AnswerFits, Query
<1> HIDE DEF e
<1>4. /\ queryQueue' \in [Query -> Nat]
      /\ \A p \in Query \ {q} : queryQueue'[p] = queryQueue[p]
  BY <1>1, <1>2, TakeFacts
<1>5. /\ TypeOK' /\ AnswersFit'
      /\ answers'[a] = e /\ \A b \in Answerers \ {a} : answers'[b] = answers[b]
  BY <1>1, <1>2, <1>3, <1>4, AnswererTypes
<1>6. \A p \in Query : InFlight(p)' => InFlight(p)
  BY <1>2, <1>3, <1>4, <1>5 DEF InFlight
<1>7. TracesKept
  BY <1>1, <1>2, <1>6, TracesShrink
<1>8. StillDue
  <2>1. Working(q)'
    BY <1>3, <1>5 DEF Working
  <2>2. \A p \in Query : Working(p) => Working(p)'
    BY <1>2, <1>5 DEF Working
  <2>3. \A p \in Query \ {q} : queryQueue[p] > 0 => queryQueue'[p] > 0
    BY <1>4
  <2> QED
    BY <1>2, <2>1, <2>2, <2>3 DEF StillDue, Due, AnswersOnly, noticeVars
<1> QED
  BY <1>2, <1>5, <1>7, <1>8, AccountStepKeeps DEF AnswersOnly

\* The row read is that of the query's user.
LEMMA ReadKeeps ==
  ASSUME IInv, NEW a \in Answerers, AccountStep(Accounts!ReadDetails(a)) PROVE IInv'
<1> DEFINE e == [answers[a] EXCEPT !.step = "reply", !.data = users[answers[a].query.userId]]
<1>1. /\ TypeOK /\ queryQueue \in [Query -> Nat] /\ replies \in [Queries -> Seq(Accounts!User)]
      /\ answers \in [Answerers -> Accounts!Answer]
      /\ users \in [Users -> Accounts!User \cup {None}]
      /\ \A u \in Users : users[u] # None => users[u].userId = u
  BY Types DEF IInv
<1>2. /\ answers[a].step = "read" /\ users[answers[a].query.userId] # None
      /\ answers' = [answers EXCEPT ![a] = e]
      /\ AnswersOnly /\ replies' = replies /\ queryQueue' = queryQueue
  BY <1>1 DEF AccountStep, Accounts!ReadDetails, Accounts!accounts, AnswersOnly
<1>3. /\ answers[a] \in Accounts!Answer
      /\ answers[a].query \in Query /\ answers[a].query.userId \in Users
  BY <1>2, AnswererFacts
<1>4. PICK row \in Accounts!User :
        row = users[answers[a].query.userId] /\ row.userId = answers[a].query.userId
  BY <1>1, <1>2, <1>3
<1>5. e \in Accounts!Answer /\ e.step = "reply" /\ e.query = answers[a].query /\ e.data = row
  BY <1>3, <1>4 DEF Accounts!Answer
<1>6. AnswerFits(e)
  BY <1>3, <1>4, <1>5, NoneAssumption DEF AnswerFits
<1> HIDE DEF e
<1>7. /\ TypeOK' /\ AnswersFit'
      /\ answers'[a] = e /\ \A b \in Answerers \ {a} : answers'[b] = answers[b]
  BY <1>1, <1>2, <1>5, <1>6, AnswererTypes
<1>8. \A p \in Query : InFlight(p)' => InFlight(p)
  BY <1>2, <1>5, <1>7 DEF InFlight
<1>9. TracesKept
  BY <1>1, <1>2, <1>8, TracesShrink
<1>10. \A p \in Query : Working(p) => Working(p)'
  BY <1>2, <1>5, <1>7 DEF Working
<1>11. StillDue
  BY <1>2, <1>10 DEF StillDue, Due, AnswersOnly, noticeVars
<1> QED
  BY <1>2, <1>7, <1>9, <1>11, AccountStepKeeps DEF AnswersOnly

\* The answer goes to the queue of the query, if that is there still.
LEMMA ReplyKeeps ==
  ASSUME IInv, NEW a \in Answerers, AccountStep(Accounts!Reply(a)) PROVE IInv'
<1> DEFINE e == [answers[a] EXCEPT !.step = "ack"]
<1>1. /\ TypeOK /\ queryQueue \in [Query -> Nat] /\ replies \in [Queries -> Seq(Accounts!User)]
      /\ answers \in [Answerers -> Accounts!Answer]
  BY Types DEF IInv
<1>2. /\ answers[a].step = "reply"
      /\ replies' = IF answers[a].query.id \in replyQueues
                    THEN [replies EXCEPT ![answers[a].query.id] = Append(@, answers[a].data)]
                    ELSE replies
      /\ answers' = [answers EXCEPT ![a] = e]
      /\ AnswersOnly /\ queryQueue' = queryQueue
  BY <1>1 DEF AccountStep, Accounts!Reply, Accounts!GoTo, Accounts!accounts, AnswersOnly
<1>3. PICK q \in Query, i \in Queries, u \in Users, row \in Accounts!User :
        /\ q = answers[a].query /\ i = q.id /\ u = q.userId
        /\ row = answers[a].data /\ row.userId = u
  BY <1>2, AnswererFacts
<1>4. e \in Accounts!Answer /\ AnswerFits(e) /\ e.step = "ack" /\ e.query = q
  <2>1. answers[a] \in Accounts!Answer /\ AnswerFits(answers[a])
    BY AnswererFacts
  <2>2. e \in Accounts!Answer /\ e.step = "ack" /\ e.query = q /\ e.data = row
    BY <1>3, <2>1 DEF Accounts!Answer
  <2> QED
    BY <1>3, <2>2, NoneAssumption DEF AnswerFits
<1> HIDE DEF e
<1>5. \A j \in Queries :
        \/ replies'[j] = replies[j] /\ ~(j = i /\ i \in replyQueues)
        \/ j = i /\ i \in replyQueues /\ replies'[j] = Append(replies[j], row)
  BY <1>1, <1>2, <1>3
<1>6. replies' \in [Queries -> Seq(Accounts!User)]
  <2>1. Append(replies[i], row) \in Seq(Accounts!User)
    BY <1>1, AppendProperties
  <2> QED
    BY <1>1, <1>2, <1>3, <2>1
<1>7. /\ TypeOK' /\ AnswersFit'
      /\ answers'[a] = e /\ \A b \in Answerers \ {a} : answers'[b] = answers[b]
  BY <1>1, <1>2, <1>4, <1>6, AnswererTypes
<1>8. \A p \in Query : InFlight(p)' => InFlight(p)
  BY <1>2, <1>3, <1>4, <1>7 DEF InFlight
<1>9. TracesKept
  <2> SUFFICES ASSUME NEW j \in Queries, NEW v \in Users, Traces(j, v) PROVE Traces(j, v)'
    BY DEF TracesKept
  <2>1. \A p \in Query : p.id = j /\ InFlight(p)' => p.userId = v
    BY <1>8 DEF Traces
  <2>2. \A k \in 1..Len(replies'[j]) : replies'[j][k].userId = v
    <3>1. CASE replies'[j] = replies[j]
      BY <3>1 DEF Traces
    <3>2. CASE j = i /\ replies'[j] = Append(replies[j], row)
      <4>1. InFlight(q)
        BY <1>3 DEF InFlight
      <4>2. row.userId = v
        BY <1>3, <3>2, <4>1 DEF Traces
      <4>3. PICK seq \in Seq(Accounts!User) : seq = replies[j]
        BY <1>1
      <4>4. \A k \in 1..Len(seq) : seq[k].userId = v
        BY <4>3 DEF Traces
      <4>5. \A k \in 1..Len(Append(seq, row)) :
              k \in 1..Len(seq) \/ Append(seq, row)[k] = row
        BY AppendProperties, LenProperties
      <4>6. \A k \in 1..Len(seq) : Append(seq, row)[k] = seq[k]
        BY AppendProperties
      <4>7. \A k \in 1..Len(Append(seq, row)) : Append(seq, row)[k].userId = v
        BY <4>2, <4>4, <4>5, <4>6
      <4> QED
        BY <3>2, <4>3, <4>7
    <3> QED
      BY <1>5, <3>1, <3>2
  <2> QED
    BY <2>1, <2>2 DEF Traces
<1>10. StillDue
  <2> SUFFICES ASSUME NEW p \in Query, p.id \in replyQueues, Due(p) PROVE Due(p)'
    BY DEF StillDue
  <2>1. CASE Working(p) /\ p # q
    <3>1. Working(p)'
      BY <1>3, <1>7, <2>1 DEF Working
    <3> QED
      BY <3>1 DEF Due
  <2>2. CASE p = q
    <3>1. replies'[i] = Append(replies[i], row) /\ replies[i] \in Seq(Accounts!User)
      BY <1>1, <1>3, <1>5, <2>2
    <3>2. replies'[i] # <<>>
      BY <3>1, AppendProperties
    <3> QED
      BY <1>3, <2>2, <3>2 DEF Due
  <2>3. CASE replies[p.id] # <<>>
    <3>1. p.id \in Queries
      BY DEF Query, Accounts!Query
    <3>2. replies'[p.id] # <<>>
      BY <1>1, <1>5, <2>3, <3>1, AppendProperties
    <3> QED
      BY <3>2 DEF Due
  <2>4. CASE queryQueue[p] > 0 \/ p.id \in lost
    BY <1>2, <2>4 DEF Due, AnswersOnly, noticeVars
  <2> QED
    BY <2>1, <2>2, <2>3, <2>4 DEF Due
<1> QED
  BY <1>2, <1>7, <1>9, <1>10, AccountStepKeeps DEF AnswersOnly

LEMMA AckQueryKeeps ==
  ASSUME IInv, NEW a \in Answerers, AccountStep(Accounts!AckQuery(a)) PROVE IInv'
<1>1. /\ TypeOK /\ queryQueue \in [Query -> Nat] /\ replies \in [Queries -> Seq(Accounts!User)]
  BY Types DEF IInv
<1>2. /\ answers[a].step = "ack" /\ answers' = [answers EXCEPT ![a] = Accounts!NoAnswer]
      /\ AnswersOnly /\ queryQueue' = queryQueue /\ replies' = replies
  BY DEF AccountStep, Accounts!AckQuery, Accounts!accounts, AnswersOnly
<1>3. /\ TypeOK' /\ AnswersFit'
      /\ answers'[a] = Accounts!NoAnswer /\ \A b \in Answerers \ {a} : answers'[b] = answers[b]
  BY <1>1, <1>2, NoAnswerFacts, AnswererTypes
<1>4. \A p \in Query : InFlight(p)' => InFlight(p)
  BY <1>2, <1>3, NoAnswerFacts, NoneAssumption DEF InFlight
<1>5. TracesKept
  BY <1>1, <1>2, <1>4, TracesShrink
<1>6. \A p \in Query : Working(p) => Working(p)'
  BY <1>2, <1>3 DEF Working
<1>7. StillDue
  BY <1>2, <1>6 DEF StillDue, Due, AnswersOnly, noticeVars
<1> QED
  BY <1>2, <1>3, <1>5, <1>7, AccountStepKeeps DEF AnswersOnly

\* The service ends: the queries in hand are ready again.
LEMMA RestartKeeps ==
  ASSUME IInv, AccountStep(Accounts!Restart), failures' \in 0..MaxFailures PROVE IInv'
<1>1. /\ TypeOK /\ queryQueue \in [Query -> Nat]
  BY Types DEF IInv
<1>2. /\ answers' = [a \in Answerers |-> Accounts!NoAnswer]
      /\ queryQueue' = Requeue(queryQueue, Accounts!Held)
      /\ UNCHANGED noticeVars /\ UNCHANGED <<users, edits, declared, replyQueues, replies>>
  BY QueueOperators DEF AccountStep, Accounts!Restart, Accounts!accounts
<1>3. /\ queryQueue' \in [Query -> Nat]
      /\ \A q \in Query : queryQueue'[q] > 0 <=> InFlight(q)
  <2>0. /\ Accounts!Held \in [Answerers -> Query \cup {None}]
        /\ \A a \in Answerers : Accounts!Held[a] = answers[a].query
    BY AnswererFacts DEF Accounts!Held
  <2>1. PICK queue \in [Query -> Nat], held \in [Answerers -> Query \cup {None}] :
          /\ queue = queryQueue /\ held = Accounts!Held
          /\ \A a \in Answerers : held[a] = answers[a].query
    BY <1>1, <2>0
  <2>2. IsFiniteSet(Answerers) /\ DOMAIN held = Answerers
    BY WorkersAssumption
  <2>3. /\ Requeue(queue, held) \in [Query -> Nat]
        /\ \A q \in Query :
             Requeue(queue, held)[q] = queue[q] + Cardinality(Holders(Answerers, held, q))
    BY <2>2, RequeueFacts
  <2>4. ASSUME NEW q \in Query
        PROVE  Requeue(queue, held)[q] > 0 <=> queue[q] > 0 \/ \E a \in Answerers : held[a] = q
    <3>1. PICK n \in Nat, h \in Nat : n = queue[q] /\ h = Cardinality(Holders(Answerers, held, q))
      BY <2>2, HoldersFacts
    <3>2. h = 0 <=> \A a \in Answerers : held[a] # q
      BY <2>2, <3>1, HoldersFacts
    <3>3. n + h > 0 <=> n > 0 \/ h # 0
      BY <3>1
    <3> QED
      BY <2>3, <3>1, <3>2, <3>3
  <2>5. queryQueue' = Requeue(queue, held)
    BY <1>2, <2>1
  <2> QED
    BY <2>1, <2>3, <2>4, <2>5 DEF InFlight
<1>4. TypeOK'
  BY <1>1, <1>2, <1>3, NoAnswerFacts, Types, TypesAfter DEF noticeVars
<1>5. AnswersFit'
  BY <1>2, NoAnswerFacts DEF AnswersFit
<1>6. \A q \in Query : InFlight(q)' => InFlight(q)
  BY <1>2, <1>3, NoAnswerFacts, NoneAssumption DEF InFlight
<1>7. TracesKept
  BY <1>1, <1>2, <1>6, TracesShrink
<1>8. \A q \in Query : queryQueue[q] > 0 \/ Working(q) => queryQueue'[q] > 0
  BY <1>3 DEF InFlight, Working
<1>9. StillDue
  BY <1>2, <1>8 DEF StillDue, Due, noticeVars
<1> QED
  BY <1>2, <1>4, <1>5, <1>7, <1>9, AccountStepKeeps

-----------------------------------------------------------------------------
(***************************************************************************)
(* The invariant                                                           *)
(***************************************************************************)
LEMMA InitHolds == Init => IInv
<1> SUFFICES ASSUME Init PROVE IInv
  OBVIOUS
<1>1. /\ Notices!ServiceInit /\ Accounts!ServiceInit
      /\ letterQueue = NoMessages(Letter) /\ queryQueue = NoMessages(Query)
      /\ dropped = NoMessages(Letter) /\ acked = NoMessages(Letter)
      /\ rendered = NoMessages(Letter) /\ posted = NoMessages(Letter)
  BY QueueOperators DEF Init, Notices!ServiceInit, Letter, Query, Accounts!Query, Notices!Query
<1>2. /\ \A w \in Workers : deliveries[w] = Notices!NoDelivery
      /\ \A a \in Answerers : answers[a] = Accounts!NoAnswer
      /\ crashed = FALSE
  BY <1>1 DEF Notices!ServiceInit, Accounts!ServiceInit
<1>3. users \in [Users -> Accounts!User \cup {None}]
      /\ \A u \in Users : users[u] # None => users[u].userId = u
  BY <1>1 DEF Accounts!ServiceInit, Accounts!NewUser, Accounts!User
<1>4. TypeOK
  <2>1. /\ NoMessages(Letter) \in [Letter -> Nat] /\ NoMessages(Query) \in [Query -> Nat]
        /\ MaxLetters \in Nat => NoMessages(Letter) \in [Letter -> 0..MaxLetters]
    BY DEF NoMessages
  <2>2. /\ bound = FALSE /\ declared = FALSE /\ lost = {} /\ replyQueues = {}
        /\ edits = 0 /\ failures = 0
        /\ deliveries = [w \in Workers |-> Notices!NoDelivery]
        /\ answers = [a \in Answerers |-> Accounts!NoAnswer]
        /\ replies = [id \in Queries |-> <<>>]
    BY <1>1 DEF Notices!ServiceInit, Accounts!ServiceInit
  <2>3. <<>> \in Seq(Accounts!User)
    BY EmptySeq
  <2>4. /\ MaxLetters \in Nat /\ edits \in 0..MaxEdits /\ failures \in 0..MaxFailures
    BY <2>2, BoundsAssumption
  <2>5. /\ deliveries \in [Workers -> Notices!Delivery]
        /\ answers \in [Answerers -> Accounts!Answer]
        /\ replies \in [Queries -> Seq(Accounts!User)]
    BY <2>2, <2>3, IdleFacts, NoAnswerFacts
  <2>6. /\ letterQueue \in [Letter -> Nat] /\ queryQueue \in [Query -> Nat]
        /\ dropped \in [Letter -> Nat] /\ acked \in [Letter -> Nat]
        /\ rendered \in [Letter -> Nat] /\ posted \in [Letter -> 0..MaxLetters]
    BY <1>1, <2>1, <2>4
  <2> QED
    BY <1>2, <1>3, <2>2, <2>4, <2>5, <2>6, Types
<1>5. HandlersFit /\ AnswersFit
  BY <1>2, IdleFacts, NoAnswerFacts DEF HandlersFit, AnswersFit
<1>6. AnswersMatch /\ Served
  BY <1>2, IdleFacts DEF AnswersMatch, Served, Waits
<1>7. LettersCounted
  <2> SUFFICES ASSUME NEW l \in Letter PROVE Balanced(l)
    BY DEF LettersCounted
  <2>1. InHand(l) = {} /\ Written(l) = {}
    BY <1>2, IdleFacts, NoneAssumption DEF InHand, Written
  <2>2. Cardinality(InHand(l)) = 0 /\ Cardinality(Written(l)) = 0
    BY <2>1, FS_EmptySet
  <2>3. /\ posted[l] = 0 /\ dropped[l] = 0 /\ letterQueue[l] = 0
        /\ acked[l] = 0 /\ rendered[l] = 0
    BY <1>1 DEF NoMessages
  <2> QED
    BY <2>2, <2>3 DEF Balanced
<1> QED
  BY <1>4, <1>5, <1>6, <1>7 DEF IInv

LEMMA NoticesKeep == ASSUME IInv, NoticeStep(Notices!ServiceNext) PROVE IInv'
<1>1. CASE NoticeStep(Notices!Bind)
  BY <1>1, BindKeeps
<1>2. ASSUME NEW w \in Workers, NEW l \in Letter, NoticeStep(Notices!Deliver(w, l)) PROVE IInv'
  BY <1>2, DeliverKeeps
<1>3. ASSUME NEW w \in Workers, NoticeStep(Notices!Receive(w)) PROVE IInv'
  BY <1>3, ReceiveKeeps
<1>4. ASSUME NEW w \in Workers, NoticeStep(Notices!Render(w)) PROVE IInv'
  BY <1>4, RenderKeeps
<1>5. ASSUME NEW w \in Workers,
             NoticeStep(Notices!RenderFails(w)) \/ NoticeStep(Notices!HandlerFails(w))
      PROVE  IInv'
  BY <1>5, NackKeeps
<1>6. ASSUME NEW w \in Workers, NoticeStep(Notices!AckLetter(w)) PROVE IInv'
  BY <1>6, AckLetterKeeps
<1>7. ASSUME NEW id \in Queries, NoticeStep(Notices!TakeSecondReply(id)) PROVE IInv'
  BY <1>7, TakeSecondReplyKeeps
<1>8. CASE NoticeStep(Notices!ServiceCrash)
  BY <1>8, NoticeCrashKeeps
<1> QED
  BY <1>1, <1>2, <1>3, <1>4, <1>5, <1>6, <1>7, <1>8
     DEF NoticeStep, Notices!ServiceNext, Notices!Handle, Letter

LEMMA AccountsKeep == ASSUME IInv, AccountStep(Accounts!ServiceNext) PROVE IInv'
<1>1. CASE AccountStep(Accounts!Update)
  BY <1>1, UpdateKeeps
<1>2. CASE AccountStep(Accounts!Declare)
  BY <1>2, DeclareKeeps
<1>3. ASSUME NEW a \in Answerers, NEW q \in Query, AccountStep(Accounts!Deliver(a, q)) PROVE IInv'
  BY <1>3, TakeQueryKeeps
<1>4. ASSUME NEW a \in Answerers, AccountStep(Accounts!ReadDetails(a)) PROVE IInv'
  BY <1>4, ReadKeeps
<1>5. ASSUME NEW a \in Answerers, AccountStep(Accounts!Reply(a)) PROVE IInv'
  BY <1>5, ReplyKeeps
<1>6. ASSUME NEW a \in Answerers, AccountStep(Accounts!AckQuery(a)) PROVE IInv'
  BY <1>6, AckQueryKeeps
<1>7. failures \in 0..MaxFailures /\ MaxFailures \in Nat
  BY Types, BoundsAssumption DEF IInv
<1>8. ASSUME NEW a \in Answerers, AccountStep(Accounts!Poisoned(a)) PROVE IInv'
  <2>1. AccountStep(Accounts!Restart) /\ failures' = failures
    BY <1>8 DEF AccountStep, Accounts!Poisoned
  <2> QED
    BY <1>7, <2>1, RestartKeeps
<1>9. ASSUME AccountStep(Accounts!Fails /\ Accounts!Restart) PROVE IInv'
  <2>1. /\ AccountStep(Accounts!Restart)
        /\ failures < MaxFailures /\ failures' = failures + 1
    BY <1>9 DEF AccountStep, Accounts!Fails
  <2>2. failures' \in 0..MaxFailures
    BY <1>7, <2>1
  <2> QED
    BY <2>1, <2>2, RestartKeeps
<1> QED
  BY <1>1, <1>2, <1>3, <1>4, <1>5, <1>6, <1>8, <1>9
     DEF AccountStep, Accounts!ServiceNext, Accounts!Serve, Accounts!ReadFails,
         Accounts!ServiceCrash, Query

LEMMA StutterKeeps == ASSUME IInv, UNCHANGED vars PROVE IInv'
<1>1. /\ UNCHANGED noticeVars /\ UNCHANGED <<queryQueue, answers, replyQueues, replies>>
      /\ UNCHANGED <<users, declared, edits, failures>>
  BY DEF vars, accountVars
<1>2. TypedUsers /\ declared' \in BOOLEAN /\ edits' \in 0..MaxEdits /\ failures' \in 0..MaxFailures
  BY <1>1, Types DEF TypedUsers, IInv
<1> QED
  BY <1>1, <1>2, TablesKeep

LEMMA NextKeeps == IInv /\ [Next]_vars => IInv'
<1> SUFFICES ASSUME IInv, [Next]_vars PROVE IInv'
  OBVIOUS
<1>1. ASSUME NEW l \in Letter, NoticeStep(Notices!Post(l)) PROVE IInv'
  BY <1>1, PostKeeps
<1>2. ASSUME NEW w \in Workers, AskAfresh(w) PROVE IInv'
  <2>1. PICK id \in Queries : Fresh(id) /\ NoticeStep(Notices!Ask(w, id))
    BY <1>2 DEF AskAfresh
  <2> QED
    BY <2>1, AskKeeps
<1>3. CASE NoticeStep(Notices!ServiceNext)
  BY <1>3, NoticesKeep
<1>4. ASSUME NEW u \in Users, Register(u) PROVE IInv'
  BY <1>4, RegisterKeeps
<1>5. CASE AccountStep(Accounts!ServiceNext)
  BY <1>5, AccountsKeep
<1>6. CASE Rest \/ UNCHANGED vars
  BY <1>6, StutterKeeps DEF Rest
<1> QED
  BY <1>1, <1>2, <1>3, <1>4, <1>5, <1>6 DEF Next

\* The invariant holds of every behaviour of the two services.
THEOREM Invariance == Spec => []IInv
<1>1. Init => IInv
  BY InitHolds
<1>2. IInv /\ [Next]_vars => IInv'
  BY NextKeeps
<1> QED
  BY <1>1, <1>2, PTL DEF Spec

\* The tables, the queues and what the handlers carry have their types throughout.
THEOREM TypeCorrect == Spec => []TypeOK
<1>1. IInv => TypeOK
  BY DEF IInv
<1> QED
  BY <1>1, Invariance, PTL

\* However the handlers of the notification service run interleaved, and whichever
\* queries are answered twice or after a crash, the details that requestUserDetails
\* resolves with are those of the letter's own user.
THEOREM DetailsAlwaysTheUsers == Spec => []DetailsAreTheUsers
<1>1. ASSUME IInv PROVE DetailsAreTheUsers
  <2> SUFFICES ASSUME NEW w \in Workers, deliveries[w].data # None
               PROVE  deliveries[w].data.userId = deliveries[w].letter.userId
    BY DEF DetailsAreTheUsers
  <2>1. HandlerFits(deliveries[w]) /\ deliveries[w] \in Notices!Delivery
    BY <1>1, DeliveryFacts
  <2>2. deliveries[w].step \in {"idle", "ask", "wait", "render", "ack"}
    BY <2>1 DEF Notices!Delivery
  <2> QED
    BY <2>1, <2>2 DEF HandlerFits
<1> QED
  BY <1>1, Invariance, PTL

\* The promise of requestUserDetails, which has no timeout, is not left behind by a
\* crash of either service: the query is in flight or its answer in the reply queue,
\* unless the broker dropped the query for want of a queue.
THEOREM WaiterAlwaysServed == Spec => []WaiterIsServed
<1>1. ASSUME IInv PROVE WaiterIsServed
  <2> SUFFICES ASSUME NEW w \in Workers, Waits(w)
               PROVE  \/ InFlight(QueryOf(w))
                      \/ replies[deliveries[w].id] # <<>>
                      \/ Notices!Unheard(w)
    BY DEF WaiterIsServed, Waits, QueryOf
  <2>1. Due(QueryOf(w)) /\ QueryOf(w).id = deliveries[w].id
    BY <1>1 DEF IInv, Served, QueryOf
  <2>2. Working(QueryOf(w)) => InFlight(QueryOf(w))
    BY DEF Working, InFlight
  <2> QED
    BY <2>1, <2>2 DEF Due, InFlight, Notices!Unheard, Waits
<1> QED
  BY <1>1, Invariance, PTL

\* Every letter published is in its queue, in a handler, acknowledged or was dropped
\* before the queue was bound; none is acknowledged before its mail is written.
THEOREM LettersAlwaysKept == Spec => []LettersAreKept
<1>1. ASSUME IInv PROVE LettersAreKept
  <2> SUFFICES ASSUME NEW l \in Letter
               PROVE  /\ posted[l] = dropped[l] + letterQueue[l] + acked[l] + Cardinality(InHand(l))
                      /\ acked[l] <= rendered[l]
    BY DEF LettersAreKept, InHand
  <2>1. TypeOK /\ Balanced(l)
    BY <1>1 DEF IInv, LettersCounted
  <2>2. PICK k \in Nat, r \in Nat, c \in Nat :
          k = acked[l] /\ r = rendered[l] /\ c = Cardinality(Written(l))
    BY <2>1, Counts
  <2>3. k + c <= r
    BY <2>1, <2>2 DEF Balanced
  <2>4. k <= r
    BY <2>3
  <2> QED
    BY <2>1, <2>2, <2>4 DEF Balanced
<1> QED
  BY <1>1, Invariance, PTL

\* Until the notification service crashes, the mails written are those of the letters
\* acknowledged and of the handlers about to acknowledge: nacks and second answers
\* make none.
THEOREM WrittenOnce == Spec => []WrittenOnceUnlessCrash
<1>1. IInv => WrittenOnceUnlessCrash
  BY DEF IInv, LettersCounted, Balanced, Written, WrittenOnceUnlessCrash
<1> QED
  BY <1>1, Invariance, PTL

================================================================================
