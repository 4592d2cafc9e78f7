---------------------------- MODULE ProductCatalog ----------------------------
(***************************************************************************)
(* The products of the product service, in a DynamoDB table whose key is   *)
(* the id and the category together, while every reader looks for an id    *)
(* alone and takes the first row it finds.  A batch may be carried out in  *)
(* part, and a list of deletions is several batches.                       *)
(*                                                                         *)
(* What a row holds beside its key is left out.  A statement that fails, or *)
(* fails after it took effect, changes the answer and no more, except in a *)
(* list of deletions, where it also ends the list.                         *)
(***************************************************************************)
EXTENDS Naturals, Sequences, FiniteSets

CONSTANTS
  Products,    \* ids of products (uuid: never used twice)
  Categories,  \* names of categories
  Clients,     \* lists of deletions the service works on at a time
  BatchLimit,  \* requests in a batch (25)
  MaxList,     \* bound: length of a list
  MaxCalls     \* bound: calls in a behaviour

VARIABLES
  rows,      \* the keys that have a row
  batches,   \* the batches each list of deletions has left
  named,     \* the keys each of these lists names
  gone,      \* history: products whose row was deleted
  reported,  \* history: products a createProducts was said to have created
  confirmed, \* history: keys a deleteProducts was said to have deleted
  skipped,   \* history: keys DynamoDB returned as unprocessed from a deletion
  made       \* what the bound counts

histories == <<gone, reported, confirmed, skipped>>
vars == <<rows, batches, named, histories, made>>

Key == Products \X Categories

TypeOK ==
  /\ rows \subseteq Key
  /\ batches \in [Clients -> Seq(Seq(Key))]
  /\ named \in [Clients -> SUBSET Key]
  /\ gone \subseteq Products
  /\ reported \subseteq Products
  /\ confirmed \subseteq Key
  /\ skipped \subseteq Key
  /\ made \in Nat

\* Products may have been created before.
Init ==
  /\ \E S \in SUBSET Products : \E f \in [S -> Categories] :
       rows = {<<p, f[p]>> : p \in S}
  /\ batches = [cl \in Clients |-> <<>>]
  /\ named = [cl \in Clients |-> {}]
  /\ gone = {} /\ reported = {} /\ confirmed = {} /\ skipped = {}
  /\ made = 0

Stored == {k[1] : k \in rows}
Fresh == Products \ (Stored \cup gone)
CallMade == made < MaxCalls /\ made' = made + 1

CreateProduct(p, c) ==
  /\ CallMade
  /\ p \in Fresh
  /\ rows' = rows \cup {<<p, c>>}
  /\ UNCHANGED <<batches, named, histories>>

\* Mutant of Processed: whatever was sent is taken to be stored.
AllSent(sent, unprocessed) == sent

Processed(sent, unprocessed) == sent \ unprocessed

\* All in one batch: DynamoDB refuses what does not fit one.
Sendable(f) == DOMAIN f \subseteq Fresh /\ Cardinality(DOMAIN f) \in 1..BatchLimit

\* Some of the batch DynamoDB may give back undone.
CreateProducts(f) ==
  /\ CallMade
  /\ Sendable(f)
  /\ \E unprocessed \in SUBSET DOMAIN f :
       /\ rows' = rows \cup {<<p, f[p]>> : p \in DOMAIN f \ unprocessed}
       /\ reported' = reported \cup Processed(DOMAIN f, unprocessed)
  /\ UNCHANGED <<batches, named, gone, confirmed, skipped>>

\* The batch was carried out in part, and the answer to it was lost.
CreateProductsFails(f) ==
  /\ CallMade
  /\ Sendable(f)
  /\ \E stored \in SUBSET DOMAIN f : rows' = rows \cup {<<p, f[p]>> : p \in stored}
  /\ UNCHANGED <<batches, named, histories>>

\* Mutant of Updated: without the condition, the update makes the row it misses.
Upserted(k) == rows \cup {k}

\* The condition on the key: an update of what is not there is refused.
Updated(k) == rows

UpdateProduct(k) ==
  /\ CallMade
  /\ rows' = Updated(k)
  /\ UNCHANGED <<batches, named, histories>>

\* Deletes nothing, and says it did, when the category is not the product's.
Without(keys) ==
  /\ rows' = rows \ keys
  /\ gone' = gone \cup {k[1] : k \in keys \cap rows}

DeleteProduct(k) ==
  /\ CallMade
  /\ Without({k})
  /\ UNCHANGED <<batches, named, reported, confirmed, skipped>>

-----------------------------------------------------------------------------
(***************************************************************************)
(* deleteProducts                                                          *)
(***************************************************************************)
Smaller(a, b) == IF a < b THEN a ELSE b

\* Mutant of chunkArray: the elements that do not fill a chunk are lost.
fullChunks(array, size) ==
  [i \in 1..(Len(array) \div size) |-> SubSeq(array, (i - 1) * size + 1, i * size)]

chunkArray(array, size) ==
  [i \in 1..((Len(array) + size - 1) \div size) |->
     SubSeq(array, (i - 1) * size + 1, Smaller(i * size, Len(array)))]

Elements(s) == {s[i] : i \in DOMAIN s}

DeleteProducts(cl, list) ==
  /\ CallMade
  /\ batches[cl] = <<>> /\ named[cl] = {}
  /\ batches' = [batches EXCEPT ![cl] = chunkArray(list, BatchLimit)]
  /\ named' = [named EXCEPT ![cl] = Elements(list)]
  /\ UNCHANGED <<rows, histories>>

\* DynamoDB refuses a batch that names a key twice.
Distinct(batch) == \A i, j \in DOMAIN batch : batch[i] = batch[j] => i = j

\* What DynamoDB did not process is neither sent again nor reported.
DeleteBatch(cl) ==
  /\ batches[cl] # <<>>
  /\ Distinct(Head(batches[cl]))
  /\ \E unprocessed \in SUBSET Elements(Head(batches[cl])) :
       /\ Without(Elements(Head(batches[cl])) \ unprocessed)
       /\ skipped' = skipped \cup unprocessed
  /\ batches' = [batches EXCEPT ![cl] = Tail(@)]
  /\ UNCHANGED <<named, reported, confirmed, made>>

ConfirmDeletion(cl) ==
  /\ batches[cl] = <<>> /\ named[cl] # {}
  /\ confirmed' = confirmed \cup named[cl]
  /\ named' = [named EXCEPT ![cl] = {}]
  /\ UNCHANGED <<rows, batches, gone, reported, skipped, made>>

\* The batch is refused, its answer is lost, or the service crashes: the batches
\* before it stay deleted.
DeleteProductsFails(cl) ==
  /\ batches[cl] # <<>>
  /\ \E done \in SUBSET Elements(Head(batches[cl])) :
       /\ Distinct(Head(batches[cl])) \/ done = {}
       /\ Without(done)
  /\ batches' = [batches EXCEPT ![cl] = <<>>]
  /\ named' = [named EXCEPT ![cl] = {}]
  /\ UNCHANGED <<reported, confirmed, skipped, made>>

\* Clients know the ids of the products there are or were.
Known == (Stored \cup gone) \X Categories
List == UNION {[1..n -> Known] : n \in 0..MaxList}

Next ==
  \/ \E p \in Products, c \in Categories : CreateProduct(p, c)
  \/ \E S \in SUBSET Products : \E f \in [S -> Categories] :
       CreateProducts(f) \/ CreateProductsFails(f)
  \/ \E k \in Known : UpdateProduct(k) \/ DeleteProduct(k)
  \/ \E cl \in Clients :
       \/ \E list \in List : DeleteProducts(cl, list)
       \/ DeleteBatch(cl) \/ ConfirmDeletion(cl) \/ DeleteProductsFails(cl)

Spec == Init /\ [][Next]_vars

-----------------------------------------------------------------------------
(***************************************************************************)
(* Properties                                                              *)
(***************************************************************************)

\* An id has one row, although the key would allow one in each category: the
\* first row that getProductById and getProductsByIds find is the product.
OneRowPerId == \A k, l \in rows : k[1] = l[1] => k = l

\* What createProducts says it created was stored, though the batch was carried
\* out in part; what deleteProducts says it deleted is gone, unless DynamoDB gave
\* it back: no batch of the list was left out, and nothing came back since.
BatchAnswersAreTrue ==
  /\ reported \subseteq Stored \cup gone
  /\ confirmed \cap rows \subseteq skipped

Quiescent == \A cl \in Clients : batches[cl] = <<>> /\ named[cl] = {}

=============================================================================
