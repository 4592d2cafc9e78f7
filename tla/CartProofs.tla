------------------------------ MODULE CartProofs ------------------------------
(***************************************************************************)
(* Theorems about Cart, for every set of users, items and clients: type    *)
(* correctness, that the two-statement mutations implement the one-step    *)
(* mutations of CartLedger, and that only a user's first additions refuse  *)
(* one another.                                                            *)
(*                                                                         *)
(* The refinement needs PriceHeld: what a call read before another one got *)
(* in between is still true of the row, if there is such a row.  The bound *)
(* on refusals needs FewRace: a cart is created only once, and who has not *)
(* seen it by then is counted.                                             *)
(***************************************************************************)
EXTENDS Cart, FiniteSetTheorems, TLAPS

PriceHeld ==
  \A cl \in Clients : calls[cl].step = "updateItem" =>
    /\ calls[cl].item \in DOMAIN items \cup gone
    /\ calls[cl].item \in DOMAIN items =>
         calls[cl].price = items[calls[cl].item].productPrice

Racing(u) == {cl \in Clients : calls[cl].step = "createCart" /\ calls[cl].userId = u}

FewRace ==
  \A u \in Users :
    /\ u \notin carts => refused[u] = 0
    /\ u \in carts => refused[u] + Cardinality(Racing(u)) < Cardinality(Clients)

IInv == TypeOK /\ PriceHeld

\* What the theorems ask of the constants: numbers to calculate with.
Numbers == Quantities \subseteq Int /\ Prices \subseteq Int /\ MaxCalls \in Nat /\ MaxFaults \in Nat

-----------------------------------------------------------------------------
(***************************************************************************)
(* The calls                                                               *)
(***************************************************************************)
\* What a call carries, by the step it is at.
LEMMA CallFacts ==
  ASSUME NEW call \in Call
  PROVE  /\ call.step \in {"findCart", "createCart", "createItem"} =>
              call.userId \in Users /\ call.quantity \in Quantities /\ call.price \in Prices
         /\ call.step = "findItem" => call.item \in Items /\ call.quantity \in Quantities
         /\ call.step = "updateItem" =>
              call.item \in Items /\ call.quantity \in Quantities /\ call.price \in Prices
         /\ call.step \in {"findRemoved", "deleteItem"} => call.item \in Items
         /\ call.step \in {"findCleared", "deleteItems"} => call.userId \in Users
BY DEF Call, IdleCall, AddCall, UpdateCall, RemoveCall, ClearCall

\* GoTo moves a call on and leaves it what it carries.
LEMMA GoToFacts ==
  ASSUME NEW call \in Call, NEW step,
         \/ call.step = "findCart" /\ step \in {"createCart", "createItem"}
         \/ call.step = "createCart" /\ step = "createItem"
         \/ call.step = "findRemoved" /\ step = "deleteItem"
         \/ call.step = "findCleared" /\ step = "deleteItems"
  PROVE  /\ [call EXCEPT !.step = step] \in Call
         /\ [call EXCEPT !.step = step].step = step
         /\ call.step = "findCart" => [call EXCEPT !.step = step].userId = call.userId
<1>1. CASE call.step \in {"findCart", "createCart"}
  <2>1. call \in AddCall
    BY <1>1 DEF Call, IdleCall, UpdateCall, RemoveCall, ClearCall
  <2> QED
    BY <1>1, <2>1 DEF Call, AddCall
<1>2. CASE call.step = "findRemoved"
  <2>1. call \in RemoveCall
    BY <1>2 DEF Call, IdleCall, UpdateCall, AddCall, ClearCall
  <2> QED
    BY <1>2, <2>1 DEF Call, RemoveCall
<1>3. CASE call.step = "findCleared"
  <2>1. call \in ClearCall
    BY <1>3 DEF Call, IdleCall, UpdateCall, AddCall, RemoveCall
  <2> QED
    BY <1>3, <2>1 DEF Call, ClearCall
<1> QED
  BY <1>1, <1>2, <1>3

\* A quantity times a price is a number.
LEMMA ProductOfNumbers == ASSUME NEW a \in Int, NEW b \in Int PROVE a * b \in Int
OBVIOUS

\* What an update leaves of a row.
LEMMA UpdatedRow ==
  ASSUME NEW r \in Row, NEW q, NEW t
  PROVE  [r EXCEPT !.quantity = q, !.totalPrice = t] =
           [userId |-> r.userId, quantity |-> q, productPrice |-> r.productPrice,
            totalPrice |-> t]
<1> DEFINE s == [r EXCEPT !.quantity = q]
<1>1. s = [userId |-> r.userId, quantity |-> q, productPrice |-> r.productPrice,
           totalPrice |-> r.totalPrice]
  BY DEF Row
<1> HIDE DEF s
<1>2. [s EXCEPT !.totalPrice = t] =
        [userId |-> r.userId, quantity |-> q, productPrice |-> r.productPrice,
         totalPrice |-> t]
  BY <1>1
<1> QED
  BY <1>2 DEF s

-----------------------------------------------------------------------------
(***************************************************************************)
(* The statements that write                                               *)
(***************************************************************************)
TablesOK ==
  /\ carts \subseteq Users
  /\ DOMAIN items \subseteq Items
  /\ items \in [DOMAIN items -> Row]
  /\ gone \subseteq Items

\* Nothing that is or was in a cart is forgotten, returns, or changes its price.
RowsKept ==
  \A i \in DOMAIN items \cup gone :
    /\ i \in DOMAIN items' \cup gone'
    /\ i \in DOMAIN items' =>
         i \in DOMAIN items /\ items'[i].productPrice = items[i].productPrice

LedgerStep == [Ledger!Next]_<<items, gone>>

\* What every statement of the database does to the tables.
Good == TablesOK' /\ RowsKept /\ LedgerStep

LEMMA NothingWritten == ASSUME TypeOK, UNCHANGED tables PROVE Good
BY DEF TypeOK, TablesOK, RowsKept, LedgerStep, Good, tables

LEMMA InsertCartIsGood == ASSUME IInv, NEW cl \in Clients, InsertCart(cl) PROVE Good
<1>1. calls[cl] \in Call /\ calls[cl].step = "createCart" /\ TypeOK
  BY DEF IInv, TypeOK, InsertCart
<1>2. calls[cl].userId \in Users
  BY <1>1, CallFacts
<1>3. items' = items /\ gone' = gone /\ carts' = carts \cup {calls[cl].userId}
  BY DEF InsertCart
<1> QED
  BY <1>1, <1>2, <1>3 DEF TypeOK, TablesOK, RowsKept, LedgerStep, Good

\* A new item has an id of its own, and the price its caller names.
LEMMA InsertItemIsGood ==
  ASSUME Numbers, IInv, NEW cl \in Clients, InsertItem(cl) PROVE Good
<1> DEFINE call == calls[cl]
<1>1. call \in Call /\ call.step = "createItem" /\ TypeOK
  BY DEF IInv, TypeOK, InsertItem
<1>2. call.userId \in Users /\ call.quantity \in Quantities /\ call.price \in Prices
  BY <1>1, CallFacts
<1>3. PICK i \in Items \ (DOMAIN items \cup gone) :
        items' = [j \in DOMAIN items \cup {i} |-> IF j = i THEN NewRow(call) ELSE items[j]]
  BY DEF InsertItem
<1>4. carts' = carts /\ gone' = gone
  BY DEF InsertItem
<1>5. call.quantity * call.price \in Int
  BY <1>2, ProductOfNumbers DEF Numbers
<1>6. NewRow(call) \in Row
  BY <1>2, <1>5 DEF NewRow, Row
<1>7. /\ DOMAIN items' = DOMAIN items \cup {i}
      /\ items'[i] = NewRow(call)
      /\ \A j \in DOMAIN items : items'[j] = items[j]
  BY <1>3
<1>8. TablesOK'
  <2>1. \A j \in DOMAIN items' : items'[j] \in Row
    BY <1>1, <1>6, <1>7 DEF TypeOK
  <2>2. items' = [j \in DOMAIN items' |-> items'[j]]
    BY <1>3
  <2> QED
    BY <1>1, <1>3, <1>4, <1>7, <2>1, <2>2 DEF TypeOK, TablesOK
<1>9. RowsKept
  BY <1>3, <1>4, <1>7 DEF RowsKept
<1>10. Ledger!AddItem(i, call.userId, call.quantity, call.price)
  BY <1>3, <1>4 DEF Ledger!AddItem, Ledger!Priced, NewRow
<1> QED
  BY <1>2, <1>3, <1>8, <1>9, <1>10 DEF Good, LedgerStep, Ledger!Next

\* The price the call read is the row's, or the row is gone and nothing is written.
LEMMA WriteQuantityIsGood ==
  ASSUME Numbers, IInv, NEW cl \in Clients, WriteQuantity(cl) PROVE Good
<1> DEFINE call == calls[cl]
           i == call.item
           row == [items[i] EXCEPT !.quantity = call.quantity,
                                   !.totalPrice = call.quantity * call.price]
<1>1. call \in Call /\ call.step = "updateItem" /\ TypeOK /\ i \in DOMAIN items
  BY DEF IInv, TypeOK, WriteQuantity
<1>2. i \in Items /\ call.quantity \in Quantities /\ call.price \in Prices
  BY <1>1, CallFacts
<1>3. items' = [items EXCEPT ![i] = row] /\ carts' = carts /\ gone' = gone
  BY DEF WriteQuantity
<1>4. items[i] \in Row /\ call.price = items[i].productPrice
  BY <1>1 DEF IInv, TypeOK, PriceHeld
<1>5. call.quantity * call.price \in Int
  BY <1>2, ProductOfNumbers DEF Numbers
<1>6. row \in Row /\ row.productPrice = items[i].productPrice
  BY <1>2, <1>4, <1>5 DEF Row
<1>7. row = Ledger!Priced(items[i].userId, call.quantity, items[i].productPrice)
  <2>1. row = [userId |-> items[i].userId, quantity |-> call.quantity,
               productPrice |-> items[i].productPrice,
               totalPrice |-> call.quantity * call.price]
    BY <1>4, UpdatedRow
  <2> QED
    BY <1>4, <2>1 DEF Ledger!Priced
<1> HIDE DEF row
<1>8. TablesOK' /\ RowsKept
  BY <1>1, <1>3, <1>6 DEF TypeOK, TablesOK, RowsKept
<1>9. Ledger!SetQuantity(i, call.quantity)
  BY <1>1, <1>3, <1>7 DEF Ledger!SetQuantity
<1> QED
  BY <1>2, <1>8, <1>9 DEF Good, LedgerStep, Ledger!Next

\* Whatever set of items is deleted, the others keep their rows.
LEMMA DeleteKeepsOthers ==
  ASSUME TypeOK, NEW S \in SUBSET DOMAIN items, Delete(S)
  PROVE  TablesOK' /\ RowsKept /\ Ledger!TakeOut(S)
<1>1. /\ DOMAIN items' = DOMAIN items \ S
      /\ \A j \in DOMAIN items \ S : items'[j] = items[j]
      /\ items' = [j \in DOMAIN items \ S |-> items[j]]
      /\ gone' = gone \cup S /\ carts' = carts
  BY DEF Delete
<1>2. TablesOK'
  BY <1>1 DEF TypeOK, TablesOK
<1>3. RowsKept
  BY <1>1 DEF RowsKept
<1> QED
  BY <1>1, <1>2, <1>3 DEF Ledger!TakeOut

LEMMA LastWriteIsGood ==
  ASSUME Numbers, IInv, NEW cl \in Clients, LastWrite(cl) PROVE Good
<1>1. CASE WriteQuantity(cl)
  BY <1>1, WriteQuantityIsGood
<1>2. CASE DeleteItem(cl)
  <2>1. calls[cl] \in Call /\ calls[cl].step = "deleteItem" /\ TypeOK
    BY <1>2 DEF IInv, TypeOK, DeleteItem
  <2>2. calls[cl].item \in Items /\ calls[cl].item \in DOMAIN items
    BY <1>2, <2>1, CallFacts DEF DeleteItem
  <2>3. TablesOK' /\ RowsKept /\ Ledger!TakeOut({calls[cl].item})
    BY <1>2, <2>1, <2>2, DeleteKeepsOthers DEF DeleteItem
  <2> QED
    BY <2>2, <2>3 DEF Good, LedgerStep, Ledger!Next, Ledger!RemoveItem
<1>3. CASE DeleteItems(cl)
  <2> DEFINE S == {i \in DOMAIN items : items[i].userId = calls[cl].userId}
  <2>1. calls[cl] \in Call /\ calls[cl].step = "deleteItems" /\ TypeOK /\ Delete(S)
    BY <1>3 DEF IInv, TypeOK, DeleteItems
  <2>2. calls[cl].userId \in Users
    BY <2>1, CallFacts
  <2>3. TablesOK' /\ RowsKept /\ Ledger!TakeOut(S)
    <3>1. S \in SUBSET DOMAIN items
      OBVIOUS
    <3> HIDE DEF S
    <3> QED
      BY <2>1, <3>1, DeleteKeepsOthers
  <2>4. Ledger!ClearCart(calls[cl].userId)
    BY <2>3 DEF Ledger!ClearCart
  <2> QED
    BY <2>2, <2>3, <2>4 DEF Good, LedgerStep, Ledger!Next
<1> QED
  BY <1>1, <1>2, <1>3 DEF LastWrite

-----------------------------------------------------------------------------
(***************************************************************************)
(* What every step does, to the tables, to the calls and to the refusals   *)
(***************************************************************************)
Typed ==
  /\ calls' \in [Clients -> Call]
  /\ refused' \in [Users -> Nat]
  /\ made' \in Nat /\ faults' \in Nat

\* A call goes on as it is, or with what it has just read.
Follows(cl) ==
  \/ calls'[cl] = calls[cl]
  \/ /\ calls'[cl].step = "updateItem" =>
          /\ calls'[cl].item \in DOMAIN items
          /\ calls'[cl].price = items[calls'[cl].item].productPrice
     /\ calls'[cl].step = "createCart" => calls'[cl].userId \notin carts

\* The call that creates its cart, or is refused, does not race any more.
Wins(cl) == InsertCart(cl) /\ refused' = refused
Loses(cl) ==
  /\ calls[cl].step = "createCart"
  /\ calls[cl].userId \in carts
  /\ carts' = carts
  /\ refused' = [refused EXCEPT ![calls[cl].userId] = @ + 1]
Races ==
  \/ carts' = carts /\ refused' = refused
  \/ \E cl \in Clients :
       /\ calls'[cl].step \in {"idle", "createItem"}
       /\ Wins(cl) \/ Loses(cl)

Step == Good /\ Typed /\ (\A cl \in Clients : Follows(cl)) /\ Races

LEMMA StartIsStep ==
  ASSUME Numbers, IInv, NEW cl \in Clients, NEW call \in Call,
         call.step \notin {"updateItem", "createCart"}, Start(cl, call)
  PROVE  Step
<1>1. TypeOK /\ UNCHANGED tables /\ UNCHANGED <<refused, faults>>
      /\ calls' = [calls EXCEPT ![cl] = call] /\ made' = made + 1
  BY DEF IInv, Start
<1>2. Good
  BY <1>1, NothingWritten
<1>3. Typed
  BY <1>1 DEF TypeOK, Typed
<1>4. \A c \in Clients : Follows(c)
  BY <1>1 DEF TypeOK, Follows
<1>5. Races
  BY <1>1 DEF Races, tables
<1> QED
  BY <1>2, <1>3, <1>4, <1>5 DEF Step

LEMMA BeginIsStep ==
  ASSUME Numbers, IInv, NEW cl \in Clients, Begin(cl) PROVE Step
<1>1. ASSUME NEW u \in Users, NEW q \in Quantities, NEW p \in Prices, AddItemToCart(cl, u, q, p)
      PROVE  Step
  <2> DEFINE call == [step |-> "findCart", userId |-> u, quantity |-> q, price |-> p]
  <2>1. call \in Call /\ call.step = "findCart"
    BY DEF Call, AddCall
  <2>2. Start(cl, call)
    BY <1>1 DEF AddItemToCart
  <2> HIDE DEF call
  <2> QED
    BY <2>1, <2>2, StartIsStep
<1>2. ASSUME NEW i \in Items, NEW q \in Quantities, UpdateItemQuantity(cl, i, q)
      PROVE  Step
  <2> DEFINE call == [step |-> "findItem", item |-> i, quantity |-> q]
  <2>1. call \in Call /\ call.step = "findItem"
    BY DEF Call, UpdateCall
  <2>2. Start(cl, call)
    BY <1>2 DEF UpdateItemQuantity
  <2> HIDE DEF call
  <2> QED
    BY <2>1, <2>2, StartIsStep
<1>3. ASSUME NEW i \in Items, RemoveItemFromCart(cl, i)
      PROVE  Step
  <2> DEFINE call == [step |-> "findRemoved", item |-> i]
  <2>1. call \in Call /\ call.step = "findRemoved"
    BY DEF Call, RemoveCall
  <2>2. Start(cl, call)
    BY <1>3 DEF RemoveItemFromCart
  <2> HIDE DEF call
  <2> QED
    BY <2>1, <2>2, StartIsStep
<1>4. ASSUME NEW u \in Users, ClearCart(cl, u)
      PROVE  Step
  <2> DEFINE call == [step |-> "findCleared", userId |-> u]
  <2>1. call \in Call /\ call.step = "findCleared"
    BY DEF Call, ClearCall
  <2>2. Start(cl, call)
    BY <1>4 DEF ClearCart
  <2> HIDE DEF call
  <2> QED
    BY <2>1, <2>2, StartIsStep
<1>5. DOMAIN items \cup gone \subseteq Items
  BY DEF IInv, TypeOK
<1> QED
  BY <1>1, <1>2, <1>3, <1>4, <1>5 DEF Begin

\* A look that moves the call of one client on.
LEMMA GoToIsStep ==
  ASSUME Numbers, IInv, NEW cl \in Clients, NEW step,
         \/ calls[cl].step = "findCart" /\ step = "createCart" /\ calls[cl].userId \notin carts
         \/ calls[cl].step = "findCart" /\ step = "createItem"
         \/ calls[cl].step = "findRemoved" /\ step = "deleteItem"
         \/ calls[cl].step = "findCleared" /\ step = "deleteItems",
         GoTo(cl, step), UNCHANGED <<tables, refused, made, faults>>
  PROVE  Step
<1> DEFINE call == [calls[cl] EXCEPT !.step = step]
<1>1. TypeOK /\ calls[cl] \in Call
  BY DEF IInv, TypeOK
<1>2. /\ call \in Call
      /\ call.step = step
      /\ calls[cl].step = "findCart" => call.userId = calls[cl].userId
  BY <1>1, GoToFacts
<1>3. calls' = [calls EXCEPT ![cl] = call]
  BY DEF GoTo
<1> HIDE DEF call
<1>4. Good
  BY <1>1, NothingWritten
<1>5. Typed
  BY <1>1, <1>2, <1>3 DEF TypeOK, Typed
<1>6. \A c \in Clients : Follows(c)
  BY <1>1, <1>2, <1>3 DEF TypeOK, Follows
<1>7. Races
  BY DEF Races, tables
<1> QED
  BY <1>4, <1>5, <1>6, <1>7 DEF Step

\* A call that ends, with a write or without one.
LEMMA ReturnIsStep ==
  ASSUME Numbers, IInv, NEW cl \in Clients, Good, Return(cl),
         made' = made, faults' \in Nat,
         \/ carts' = carts /\ refused' = refused
         \/ Wins(cl)
         \/ Loses(cl)
  PROVE  Step
<1>1. TypeOK /\ calls[cl] \in Call /\ IdleCall \in Call /\ IdleCall.step = "idle"
  BY DEF IInv, TypeOK, Call, IdleCall
<1>2. calls' = [calls EXCEPT ![cl] = IdleCall]
  BY DEF Return
<1>3. refused' \in [Users -> Nat]
  BY <1>1 DEF Wins, Loses, TypeOK
<1>4. Typed
  BY <1>1, <1>2, <1>3 DEF TypeOK, Typed
<1>5. \A c \in Clients : Follows(c)
  BY <1>1, <1>2 DEF TypeOK, Follows
<1>6. calls'[cl].step = "idle"
  BY <1>1, <1>2 DEF TypeOK
<1>7. Races
  BY <1>6 DEF Races
<1> QED
  BY <1>4, <1>5, <1>7 DEF Step

LEMMA ContinueIsStep ==
  ASSUME Numbers, IInv, NEW cl \in Clients, Continue(cl) PROVE Step
<1>1. TypeOK /\ calls[cl] \in Call
  BY DEF IInv, TypeOK
<1>2. ASSUME UNCHANGED <<tables, refused, made, faults>>, Return(cl) PROVE Step
  <2>1. Good
    BY <1>1, <1>2, NothingWritten
  <2>2. /\ made' = made /\ faults' \in Nat
        /\ carts' = carts /\ refused' = refused
    BY <1>1, <1>2 DEF tables, TypeOK
  <2> QED
    BY <1>2, <2>1, <2>2, ReturnIsStep
<1>3. CASE FindCart(cl)
  BY <1>3, GoToIsStep DEF FindCart
<1>4. CASE CreateCart(cl)
  <2> DEFINE call == [calls[cl] EXCEPT !.step = "createItem"]
  <2>1. calls[cl].step = "createCart" /\ Wins(cl) /\ UNCHANGED <<made, faults>>
        /\ calls' = [calls EXCEPT ![cl] = call]
    BY <1>4 DEF CreateCart, InsertCart, Wins, GoTo
  <2>2. call \in Call /\ call.step = "createItem"
    BY <1>1, <2>1, GoToFacts
  <2> HIDE DEF call
  <2>3. Good
    BY <2>1, InsertCartIsGood DEF Wins
  <2>4. Typed
    BY <1>1, <2>1, <2>2 DEF TypeOK, Typed, Wins
  <2>5. \A c \in Clients : Follows(c)
    BY <1>1, <2>1, <2>2 DEF TypeOK, Follows
  <2>6. Races
    BY <1>1, <2>1, <2>2 DEF Races, TypeOK
  <2> QED
    BY <2>3, <2>4, <2>5, <2>6 DEF Step
<1>5. CASE CreateCartRefused(cl)
  <2>1. Loses(cl) /\ Return(cl) /\ made' = made /\ faults' \in Nat /\ UNCHANGED tables
    BY <1>1, <1>5 DEF CreateCartRefused, Loses, tables, TypeOK
  <2> QED
    BY <1>1, <2>1, NothingWritten, ReturnIsStep
<1>6. CASE CreateItem(cl)
  <2>1. InsertItem(cl) /\ Return(cl) /\ carts' = carts /\ refused' = refused /\ made' = made
        /\ faults' \in Nat
    BY <1>1, <1>6 DEF CreateItem, InsertItem, TypeOK
  <2> QED
    BY <2>1, InsertItemIsGood, ReturnIsStep
<1>7. CASE FindItem(cl)
  <2> DEFINE i == calls[cl].item
             call == [step |-> "updateItem", item |-> i, quantity |-> calls[cl].quantity,
                      price |-> items[i].productPrice]
  <2>1. CASE i \in DOMAIN items
    <3>1. calls[cl].step = "findItem" /\ calls' = [calls EXCEPT ![cl] = call]
          /\ UNCHANGED <<tables, refused, made, faults>>
      BY <1>7, <2>1 DEF FindItem
    <3>2. items[i].productPrice \in Prices
      BY <1>1, <2>1 DEF TypeOK, Row
    <3>3. call \in Call /\ call.step = "updateItem" /\ call.item = i
          /\ call.price = items[i].productPrice
      BY <1>1, <3>1, <3>2, CallFacts DEF Call, UpdateCall
    <3> HIDE DEF call
    <3>4. Good
      BY <1>1, <3>1, NothingWritten
    <3>5. Typed
      BY <1>1, <3>1, <3>3 DEF TypeOK, Typed
    <3>6. \A c \in Clients : Follows(c)
      BY <1>1, <2>1, <3>1, <3>3 DEF TypeOK, Follows
    <3>7. Races
      BY <3>1 DEF Races, tables
    <3> QED
      BY <3>4, <3>5, <3>6, <3>7 DEF Step
  <2>2. CASE i \notin DOMAIN items
    BY <1>2, <1>7, <2>2 DEF FindItem
  <2> QED
    BY <2>1, <2>2
<1>8. CASE FindRemoved(cl)
  BY <1>2, <1>8, GoToIsStep DEF FindRemoved
<1>9. CASE FindCleared(cl)
  BY <1>2, <1>9, GoToIsStep DEF FindCleared
<1>10. CASE Finish(cl)
  <2>1. LastWrite(cl) /\ Return(cl) /\ refused' = refused /\ made' = made /\ faults' \in Nat
    BY <1>1, <1>10 DEF Finish, TypeOK
  <2>2. carts' = carts
    BY <2>1 DEF LastWrite, WriteQuantity, DeleteItem, DeleteItems, Delete
  <2> QED
    BY <2>1, <2>2, LastWriteIsGood, ReturnIsStep
<1>11. CASE Vanished(cl)
  BY <1>2, <1>11 DEF Vanished
<1> QED
  BY <1>3, <1>4, <1>5, <1>6, <1>7, <1>8, <1>9, <1>10, <1>11 DEF Continue

LEMMA StatementFailsIsStep ==
  ASSUME Numbers, IInv, NEW cl \in Clients, StatementFails(cl) PROVE Step
<1>1. TypeOK /\ Return(cl) /\ refused' = refused /\ made' = made /\ faults' \in Nat
  BY DEF IInv, TypeOK, StatementFails, Fault
<1>2. CASE UNCHANGED tables
  BY <1>1, <1>2, NothingWritten, ReturnIsStep DEF tables
<1>3. CASE InsertCart(cl)
  BY <1>1, <1>3, InsertCartIsGood, ReturnIsStep DEF Wins
<1>4. CASE InsertItem(cl)
  <2>1. carts' = carts
    BY <1>4 DEF InsertItem
  <2> QED
    BY <1>1, <1>4, <2>1, InsertItemIsGood, ReturnIsStep
<1>5. CASE LastWrite(cl)
  <2>1. carts' = carts
    BY <1>5 DEF LastWrite, WriteQuantity, DeleteItem, DeleteItems, Delete
  <2> QED
    BY <1>1, <1>5, <2>1, LastWriteIsGood, ReturnIsStep
<1> QED
  BY <1>2, <1>3, <1>4, <1>5 DEF StatementFails

LEMMA CrashIsStep == ASSUME Numbers, IInv, Crash PROVE Step
<1>1. TypeOK /\ UNCHANGED <<tables, refused, made>> /\ faults' \in Nat
      /\ calls' = [cl \in Clients |-> IdleCall]
  BY DEF IInv, TypeOK, Crash, Fault
<1>2. IdleCall \in Call /\ IdleCall.step = "idle"
  BY DEF Call, IdleCall
<1>3. Good
  BY <1>1, NothingWritten
<1>4. Typed
  BY <1>1, <1>2 DEF TypeOK, Typed
<1>5. \A c \in Clients : Follows(c)
  BY <1>1, <1>2 DEF Follows
<1>6. Races
  BY <1>1 DEF Races, tables
<1> QED
  BY <1>3, <1>4, <1>5, <1>6 DEF Step

LEMMA NextIsStep == ASSUME Numbers, IInv, Next PROVE Step
BY BeginIsStep, ContinueIsStep, StatementFailsIsStep, CrashIsStep DEF Next

-----------------------------------------------------------------------------
(***************************************************************************)
(* The invariants                                                          *)
(***************************************************************************)
LEMMA InitInvariant == ASSUME Numbers PROVE Init => IInv /\ FewRace
<1> SUFFICES ASSUME Init PROVE IInv /\ FewRace
  OBVIOUS
<1>1. DOMAIN items = {} /\ items \in [DOMAIN items -> Row]
  BY DEF Init
<1>2. IdleCall \in Call /\ IdleCall.step = "idle"
  BY DEF Call, IdleCall
<1>3. TypeOK
  BY <1>1, <1>2 DEF Init, TypeOK
<1>4. PriceHeld /\ FewRace
  BY <1>2 DEF Init, PriceHeld, FewRace
<1> QED
  BY <1>3, <1>4 DEF IInv

LEMMA StepKeepsInvariant == ASSUME IInv, Step PROVE IInv'
<1>1. TypeOK'
  BY DEF Step, Good, TablesOK, Typed, TypeOK
<1>2. PriceHeld'
  <2> SUFFICES ASSUME NEW cl \in Clients, calls'[cl].step = "updateItem"
               PROVE  /\ calls'[cl].item \in DOMAIN items' \cup gone'
                      /\ calls'[cl].item \in DOMAIN items' =>
                           calls'[cl].price = items'[calls'[cl].item].productPrice
    BY DEF PriceHeld
  <2>1. /\ calls'[cl].item \in DOMAIN items \cup gone
        /\ calls'[cl].item \in DOMAIN items =>
             calls'[cl].price = items[calls'[cl].item].productPrice
    BY DEF Step, Follows, IInv, PriceHeld
  <2> QED
    BY <2>1 DEF Step, Good, RowsKept
<1> QED
  BY <1>1, <1>2 DEF IInv

\* A cart is created once; from then on every refusal is one racer fewer.
LEMMA StepKeepsFewRace ==
  ASSUME IsFiniteSet(Clients), IInv, FewRace, Step PROVE FewRace'
<1>1. /\ TypeOK /\ (\A cl \in Clients : Follows(cl))
      /\ Typed /\ Races
  BY DEF IInv, Step
<1>2. ASSUME NEW u \in Users
      PROVE  /\ IsFiniteSet(Racing(u)) /\ Cardinality(Racing(u)) \in Nat
             /\ IsFiniteSet(Racing(u)') /\ Cardinality(Racing(u)') \in Nat
  <2>1. Racing(u) \subseteq Clients /\ Racing(u)' \subseteq Clients
    BY DEF Racing
  <2> QED
    BY <2>1, FS_Subset, FS_CardinalityType
<1>3. Cardinality(Clients) \in Nat
  BY FS_CardinalityType
<1>4. ASSUME NEW u \in carts PROVE Racing(u)' \subseteq Racing(u)
  <2> SUFFICES ASSUME NEW cl \in Clients, calls'[cl].step = "createCart", calls'[cl].userId = u
               PROVE  cl \in Racing(u)
    BY DEF Racing
  <2> QED
    BY <1>1 DEF Follows, Racing
<1>5. ASSUME NEW u \in Users, u \in carts
      PROVE  Cardinality(Racing(u)') <= Cardinality(Racing(u))
  BY <1>2, <1>4, <1>5, FS_Subset
<1>6. CASE carts' = carts /\ refused' = refused
  <2> SUFFICES ASSUME NEW u \in Users
               PROVE  /\ u \notin carts' => refused'[u] = 0
                      /\ u \in carts' =>
                           refused'[u] + Cardinality(Racing(u)') < Cardinality(Clients)
    BY DEF FewRace, Racing
  <2>1. refused[u] \in Nat
    BY <1>1 DEF TypeOK
  <2> QED
    BY <1>2, <1>3, <1>5, <1>6, <2>1 DEF FewRace
<1>7. ASSUME NEW cl \in Clients, calls'[cl].step \in {"idle", "createItem"}, Wins(cl)
      PROVE  FewRace'
  <2>1. /\ calls[cl].userId \notin carts /\ carts' = carts \cup {calls[cl].userId}
        /\ refused' = refused
    BY <1>7 DEF Wins, InsertCart
  <2> SUFFICES ASSUME NEW u \in Users
               PROVE  /\ u \notin carts' => refused'[u] = 0
                      /\ u \in carts' =>
                           refused'[u] + Cardinality(Racing(u)') < Cardinality(Clients)
    BY DEF FewRace, Racing
  <2>2. refused[u] \in Nat
    BY <1>1 DEF TypeOK
  <2>3. CASE u = calls[cl].userId
    <3>1. Racing(u)' \subseteq Clients \ {cl}
      BY <1>7 DEF Racing
    <3>2. IsFiniteSet(Clients \ {cl}) /\ Cardinality(Clients \ {cl}) = Cardinality(Clients) - 1
      BY FS_RemoveElement
    <3>3. Cardinality(Racing(u)') <= Cardinality(Clients \ {cl})
      BY <3>1, <3>2, FS_Subset
    <3>4. refused'[u] = 0
      BY <2>1, <2>3 DEF FewRace
    <3> QED
      BY <1>2, <1>3, <2>1, <2>3, <3>2, <3>3, <3>4
  <2>4. CASE u # calls[cl].userId
    BY <1>2, <1>3, <1>5, <2>1, <2>2, <2>4 DEF FewRace
  <2> QED
    BY <2>3, <2>4
<1>8. ASSUME NEW cl \in Clients, calls'[cl].step \in {"idle", "createItem"}, Loses(cl)
      PROVE  FewRace'
  <2>1. /\ calls[cl].step = "createCart" /\ calls[cl].userId \in carts /\ carts' = carts
        /\ refused' = [refused EXCEPT ![calls[cl].userId] = @ + 1]
    BY <1>8 DEF Loses
  <2> SUFFICES ASSUME NEW u \in Users
               PROVE  /\ u \notin carts' => refused'[u] = 0
                      /\ u \in carts' =>
                           refused'[u] + Cardinality(Racing(u)') < Cardinality(Clients)
    BY DEF FewRace, Racing
  <2>2. refused \in [Users -> Nat] /\ refused[u] \in Nat
    BY <1>1 DEF TypeOK
  <2>3. CASE u = calls[cl].userId
    <3>1. cl \in Racing(u) /\ Racing(u)' \subseteq Racing(u) \ {cl}
      BY <1>4, <1>8, <2>1, <2>3 DEF Racing
    <3>2. IsFiniteSet(Racing(u) \ {cl}) /\ Cardinality(Racing(u) \ {cl}) = Cardinality(Racing(u)) - 1
      BY <1>2, <3>1, FS_RemoveElement
    <3>3. Cardinality(Racing(u)') <= Cardinality(Racing(u) \ {cl})
      BY <3>1, <3>2, FS_Subset
    <3>4. refused'[u] = refused[u] + 1
      BY <2>1, <2>2, <2>3
    <3>5. refused[u] + Cardinality(Racing(u)) < Cardinality(Clients)
      BY <2>1, <2>3 DEF FewRace
    <3> QED
      BY <1>2, <1>3, <2>1, <2>2, <2>3, <3>2, <3>3, <3>4, <3>5
  <2>4. CASE u # calls[cl].userId
    <3>1. refused'[u] = refused[u]
      BY <2>1, <2>2, <2>4
    <3> QED
      BY <1>2, <1>3, <1>5, <2>1, <2>2, <3>1 DEF FewRace
  <2> QED
    BY <2>3, <2>4
<1> QED
  BY <1>1, <1>6, <1>7, <1>8 DEF Races

LEMMA StutterKeeps == ASSUME UNCHANGED vars PROVE (IInv => IInv') /\ (FewRace => FewRace')
BY DEF vars, tables, IInv, TypeOK, PriceHeld, FewRace, Racing

LEMMA NextKeepsInvariant == ASSUME Numbers PROVE IInv /\ [Next]_vars => IInv'
BY NextIsStep, StepKeepsInvariant, StutterKeeps

-----------------------------------------------------------------------------
(***************************************************************************)
(* The theorems                                                            *)
(***************************************************************************)
\* The tables and the calls keep their types, whatever the calls interleave to.
THEOREM TypeCorrect == ASSUME Numbers PROVE Spec => []TypeOK
<1>1. Init => IInv
  BY InitInvariant
<1>2. IInv /\ [Next]_vars => IInv'
  BY NextKeepsInvariant
<1>3. IInv => TypeOK
  BY DEF IInv
<1> QED
  BY <1>1, <1>2, <1>3, PTL DEF Spec

\* The mutations of cart.repository.ts, two statements each, change the items as
\* if each were one step (LedgerSpec), for any number of calls at a time.
THEOREM CartImplementsLedger == ASSUME Numbers PROVE Spec => LedgerSpec
<1>1. Init => IInv /\ Ledger!Init
  BY InitInvariant DEF Init, Ledger!Init
<1>2. IInv /\ [Next]_vars => IInv'
  BY NextKeepsInvariant
<1>3. IInv /\ [Next]_vars => [Ledger!Next]_(Ledger!vars)
  <2>1. CASE UNCHANGED vars
    BY <2>1 DEF vars, tables, Ledger!vars
  <2>2. ASSUME IInv, Next PROVE [Ledger!Next]_(Ledger!vars)
    BY <2>2, NextIsStep DEF Step, Good, LedgerStep, Ledger!vars
  <2> QED
    BY <2>1, <2>2
<1> QED
  BY <1>1, <1>2, <1>3, PTL DEF Spec, LedgerSpec, Ledger!Spec

\* However many users add however often: of the additions to one cart fewer than
\* the calls at a time are ever refused, and none before there is a cart
\* (RefusedOnlyAtFirst).
THEOREM FewAreRefused ==
  ASSUME Numbers, IsFiniteSet(Clients), Clients # {}
  PROVE  Spec => []RefusedOnlyAtFirst
<1>1. Init => IInv /\ FewRace
  BY InitInvariant
<1>2. IInv /\ FewRace /\ [Next]_vars => IInv' /\ FewRace'
  BY NextIsStep, StepKeepsInvariant, StepKeepsFewRace, StutterKeeps
<1>3. IInv /\ FewRace => RefusedOnlyAtFirst
  <2> SUFFICES ASSUME IInv, FewRace, NEW u \in Users
               PROVE  /\ refused[u] < Cardinality(Clients)
                      /\ refused[u] > 0 => getCartDetails(u) # {}
    BY DEF RefusedOnlyAtFirst
  <2>1. Cardinality(Clients) \in Nat /\ Cardinality(Clients) # 0 /\ refused[u] \in Nat
    BY FS_CardinalityType, FS_EmptySet DEF IInv, TypeOK
  <2>2. Racing(u) \subseteq Clients
    BY DEF Racing
  <2>3. Cardinality(Racing(u)) \in Nat
    BY <2>2, FS_Subset, FS_CardinalityType
  <2>4. CASE u \in carts
    <3>1. {i \in DOMAIN items : items[i].userId = u} \in getCartDetails(u)
      BY <2>4 DEF getCartDetails
    <3> QED
      BY <2>1, <2>3, <2>4, <3>1 DEF FewRace
  <2>5. CASE u \notin carts
    BY <2>1, <2>5 DEF FewRace
  <2> QED
    BY <2>4, <2>5
<1> QED
  BY <1>1, <1>2, <1>3, PTL DEF Spec

=============================================================================
