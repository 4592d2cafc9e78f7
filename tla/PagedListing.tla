---------------------------- MODULE PagedListing ----------------------------
(***************************************************************************)
(* The listings of the relational stores that are read page by page, with  *)
(* skip and take, while the table they list changes: getAllOrders,          *)
(* getAllUsers, getAllSellers and searchUsers.  A reader walks through one  *)
(* of them from its first row to the first page that is not full.          *)
(*                                                                         *)
(* Each listing has an order (createdAt for orders, and the primary key,   *)
(* which Prisma adds to every query with skip or take), so a page is a     *)
(* section of one sequence.  A new row may come anywhere in it: ids are     *)
(* random, and an order is dated before its transaction commits.           *)
(***************************************************************************)
EXTENDS Integers, FiniteSets, Sequences, SequencesExt

CONSTANTS
  Listings,    \* those of "orders", "users", "sellers", "search" that are walked through
  MaxRows,     \* bound: rows there ever are
  MaxTake      \* bound: rows of a page

VARIABLES
  listing,   \* the one that is walked through
  table,     \* its rows in their order: 1 is the oldest row
  walk,      \* where the reader is, and the page it was given
  seen,      \* how often it was shown each row
  listed,    \* how many rows there were when it began: 1..listed
  inserted, deleted,  \* rows that came and went since
  vanished   \* rows that went between the two statements of an answer

vars == <<listing, table, walk, seen, listed, inserted, deleted, vanished>>

RowIds == 1..MaxRows
Smaller(a, b) == IF a < b THEN a ELSE b
Walk == [step : {"ask", "count", "answered", "end"}, skip : Nat, take : 1..MaxTake,
         page : Seq(RowIds), total : Nat]

TypeOK ==
  /\ listing \in Listings
  /\ table \in Seq(RowIds)
  /\ walk \in Walk
  /\ seen \in [RowIds -> Nat]
  /\ listed \in Nat /\ inserted \in Nat /\ deleted \in Nat /\ vanished \in Nat

\* PaginationSchema: take is positive and skip is not negative.
Init ==
  /\ listing \in Listings
  /\ listed \in 0..MaxRows
  /\ table = [i \in 1..listed |-> i]
  /\ \E take \in 1..MaxTake :
       walk = [step |-> "ask", skip |-> 0, take |-> take, page |-> <<>>, total |-> 0]
  /\ seen = [r \in RowIds |-> 0]
  /\ inserted = 0 /\ deleted = 0 /\ vanished = 0

-----------------------------------------------------------------------------
(***************************************************************************)
(* The answer to one page                                                  *)
(***************************************************************************)
\* Mutant of Section: a page that begins a row too late.
SectionAfter(skip, take) == SubSeq(table, skip + 2, Smaller(skip + take, Len(table)))

\* findMany with skip and take.
Section(skip, take) == SubSeq(table, skip + 1, Smaller(skip + take, Len(table)))

\* count, as its own statement.
Count == Len(table)

\* searchUserByQueryString takes no notice of the pagination it is given.
Page == IF listing = "search" THEN table ELSE Section(walk.skip, walk.take)

\* The users' total is that of the page; orders and sellers are counted after the
\* page was read, in one transaction that sees what others commit in between.
CountsAll == listing \in {"orders", "sellers"}

\* No row is twice in a page.
Shown(page) == [r \in RowIds |-> IF r \in ToSet(page) THEN seen[r] + 1 ELSE seen[r]]

ReadPage ==
  /\ walk.step = "ask"
  /\ walk' = [walk EXCEPT !.step = IF CountsAll THEN "count" ELSE "answered",
                          !.page = Page, !.total = Len(Page)]
  /\ seen' = Shown(Page)
  /\ vanished' = 0
  /\ UNCHANGED <<listing, table, listed, inserted, deleted>>

CountRows ==
  /\ walk.step = "count"
  /\ walk' = [walk EXCEPT !.step = "answered", !.total = Count]
  /\ UNCHANGED <<listing, table, seen, listed, inserted, deleted, vanished>>

\* The reader asks for the rows after the ones it was shown, until a page is not
\* full.  That an empty page of users is answered with an error (resolveType looks
\* at the first row) ends its walk as well.
TurnPage ==
  /\ walk.step = "answered"
  /\ walk.skip <= MaxRows
  /\ walk' = [walk EXCEPT !.step = IF Len(walk.page) < walk.take THEN "end" ELSE "ask",
                          !.skip = @ + walk.take, !.page = <<>>, !.total = 0]
  /\ UNCHANGED <<listing, table, seen, listed, inserted, deleted, vanished>>

-----------------------------------------------------------------------------
(***************************************************************************)
(* What others do meanwhile                                                *)
(***************************************************************************)
Used == listed + inserted

\* createOrder, createUser, createSeller commit a row.
Insert ==
  /\ walk.step # "end"
  /\ Used < MaxRows
  /\ \E i \in 1..(Len(table) + 1) : table' = InsertAt(table, i, Used + 1)
  /\ inserted' = inserted + 1
  /\ UNCHANGED <<listing, walk, seen, listed, deleted, vanished>>

\* deleteSeller; nothing deletes an order or a user.
Delete ==
  /\ walk.step # "end"
  /\ listing = "sellers"
  /\ \E i \in DOMAIN table : table' = RemoveAt(table, i)
  /\ deleted' = deleted + 1
  /\ vanished' = IF walk.step = "count" THEN vanished + 1 ELSE vanished
  /\ UNCHANGED <<listing, walk, seen, listed, inserted>>

Next == ReadPage \/ CountRows \/ TurnPage \/ Insert \/ Delete

Spec == Init /\ [][Next]_vars

-----------------------------------------------------------------------------
(***************************************************************************)
(* Properties                                                              *)
(***************************************************************************)
Paged == listing # "search"
Missed == {r \in 1..listed : r \in ToSet(table) /\ seen[r] = 0}
\* The showings of a row after its first one.
Repeats == UNION {{r} \X (2..seen[r]) : r \in RowIds}

\* Rows that come and go between the pages move the others across the page's
\* border: a walk misses a row for each that was deleted at most, so it shows every
\* order and every user, and repeats one for each that was inserted at most.
WalksMissAndRepeatLittle ==
  Paged => /\ walk.step = "end" => Cardinality(Missed) <= deleted
           /\ Cardinality(Repeats) <= inserted

\* The total never falls short of the rows that the reader was shown so far, except
\* by the sellers deleted while it was counted.
TotalCoversPages ==
  CountsAll /\ walk.step = "answered" /\ walk.page # <<>> =>
    walk.skip + Len(walk.page) <= walk.total + vanished

\* Pages that are read while the table changes add up to what was there.
PagesAddUp == WalksMissAndRepeatLittle /\ TotalCoversPages

=============================================================================
