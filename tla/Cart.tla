-------------------------------- MODULE Cart --------------------------------
(***************************************************************************)
(* The shopping carts of the user service.  Every mutation looks a row up  *)
(* and then writes in a statement of its own, outside any transaction, so  *)
(* the calls of several clients interleave between the two.                *)
(***************************************************************************)
EXTENDS Integers, FiniteSets

CONSTANTS
  Users,       \* users with an account
  Items,       \* ids of cart items (cuid: never used twice)
  Quantities,  \* what clients ask for; updates are not validated
  Prices,      \* the price of a product, as the client names it
  Clients,     \* calls the service runs at a time
  MaxCalls,    \* bound: calls in a behaviour
  MaxFaults    \* bound: database errors and crashes in a behaviour

VARIABLES
  carts,    \* the users who have a ShoppingCart row
  items,    \* the CartItem rows, by id
  gone,     \* history: ids of the rows that were deleted
  calls,    \* the mutations in progress, one per client
  refused,  \* history: how many additions ended at the unique userId of a cart
  made, faults  \* what the bounds count

tables == <<carts, items, gone>>
vars == <<tables, calls, refused, made, faults>>

Row == [userId : Users, quantity : Quantities, productPrice : Prices, totalPrice : Int]
IdleCall == [step |-> "idle"]
AddCall == [step : {"findCart", "createCart", "createItem"},
            userId : Users, quantity : Quantities, price : Prices]
UpdateCall == [step : {"findItem"}, item : Items, quantity : Quantities]
                \cup [step : {"updateItem"}, item : Items, quantity : Quantities,
                      price : Prices]
RemoveCall == [step : {"findRemoved", "deleteItem"}, item : Items]
ClearCall == [step : {"findCleared", "deleteItems"}, userId : Users]
Call == {IdleCall} \cup AddCall \cup UpdateCall \cup RemoveCall \cup ClearCall

TypeOK ==
  /\ carts \subseteq Users
  /\ DOMAIN items \subseteq Items
  /\ items \in [DOMAIN items -> Row]
  /\ gone \subseteq Items
  /\ calls \in [Clients -> Call]
  /\ refused \in [Users -> Nat]
  /\ made \in Nat
  /\ faults \in Nat

Init ==
  /\ carts = {}
  /\ items = << >>
  /\ gone = {}
  /\ calls = [cl \in Clients |-> IdleCall]
  /\ refused = [u \in Users |-> 0]
  /\ made = 0
  /\ faults = 0

Start(cl, call) ==
  /\ calls[cl].step = "idle"
  /\ made < MaxCalls
  /\ made' = made + 1
  /\ calls' = [calls EXCEPT ![cl] = call]
  /\ UNCHANGED <<tables, refused, faults>>

Return(cl) == calls' = [calls EXCEPT ![cl] = IdleCall]
GoTo(cl, step) == calls' = [calls EXCEPT ![cl].step = step]

-----------------------------------------------------------------------------
(***************************************************************************)
(* addItemToCart                                                           *)
(***************************************************************************)
AddItemToCart(cl, u, q, p) ==
  /\ q >= 1
  /\ Start(cl, [step |-> "findCart", userId |-> u, quantity |-> q, price |-> p])

\* Mutant of FindCart: the cart is created without a look.
AssumeNoCart(cl) ==
  /\ calls[cl].step = "findCart"
  /\ GoTo(cl, "createCart")
  /\ UNCHANGED <<tables, refused, made, faults>>

FindCart(cl) ==
  /\ calls[cl].step = "findCart"
  /\ GoTo(cl, IF calls[cl].userId \in carts THEN "createItem" ELSE "createCart")
  /\ UNCHANGED <<tables, refused, made, faults>>

InsertCart(cl) ==
  /\ calls[cl].step = "createCart"
  /\ calls[cl].userId \notin carts
  /\ carts' = carts \cup {calls[cl].userId}
  /\ UNCHANGED <<items, gone>>

CreateCart(cl) ==
  /\ InsertCart(cl)
  /\ GoTo(cl, "createItem")
  /\ UNCHANGED <<refused, made, faults>>

\* Another call created the cart since this one looked: the unique userId
\* refuses the second cart, and the item is not added.
CreateCartRefused(cl) ==
  /\ calls[cl].step = "createCart"
  /\ calls[cl].userId \in carts
  /\ refused' = [refused EXCEPT ![calls[cl].userId] = @ + 1]
  /\ Return(cl)
  /\ UNCHANGED <<tables, made, faults>>

NewRow(call) ==
  [userId |-> call.userId, quantity |-> call.quantity, productPrice |-> call.price,
   totalPrice |-> call.quantity * call.price]

\* The same product may be in a cart several times: every addition is a row.
InsertItem(cl) ==
  /\ calls[cl].step = "createItem"
  /\ \E i \in Items \ (DOMAIN items \cup gone) :
       items' = [j \in DOMAIN items \cup {i} |->
                   IF j = i THEN NewRow(calls[cl]) ELSE items[j]]
  /\ UNCHANGED <<carts, gone>>

CreateItem(cl) ==
  /\ InsertItem(cl)
  /\ Return(cl)
  /\ UNCHANGED <<refused, made, faults>>

-----------------------------------------------------------------------------
(***************************************************************************)
(* updateItemQuantity, removeItemFromCart, clearCart                       *)
(***************************************************************************)
UpdateItemQuantity(cl, i, q) ==
  Start(cl, [step |-> "findItem", item |-> i, quantity |-> q])

\* The price is kept from here to the update.
FindItem(cl) ==
  /\ calls[cl].step = "findItem"
  /\ LET i == calls[cl].item IN
       IF i \in DOMAIN items
       THEN calls' = [calls EXCEPT ![cl] =
              [step |-> "updateItem", item |-> i, quantity |-> calls[cl].quantity,
               price |-> items[i].productPrice]]
       ELSE Return(cl)
  /\ UNCHANGED <<tables, refused, made, faults>>

\* Mutant of WriteQuantity: the row is written back although it was deleted.
UpsertQuantity(cl) ==
  /\ calls[cl].step = "updateItem"
  /\ \E u \in Users :
       items' = [j \in DOMAIN items \cup {calls[cl].item} |->
                   IF j = calls[cl].item
                   THEN NewRow([userId |-> u, quantity |-> calls[cl].quantity,
                                price |-> calls[cl].price])
                   ELSE items[j]]
  /\ UNCHANGED <<carts, gone>>

\* The update fails when the row was deleted since FindItem (see Vanished).
WriteQuantity(cl) ==
  /\ calls[cl].step = "updateItem"
  /\ calls[cl].item \in DOMAIN items
  /\ items' = [items EXCEPT ![calls[cl].item].quantity = calls[cl].quantity,
                            ![calls[cl].item].totalPrice =
                               calls[cl].quantity * calls[cl].price]
  /\ UNCHANGED <<carts, gone>>

RemoveItemFromCart(cl, i) == Start(cl, [step |-> "findRemoved", item |-> i])

FindRemoved(cl) ==
  /\ calls[cl].step = "findRemoved"
  /\ IF calls[cl].item \in DOMAIN items THEN GoTo(cl, "deleteItem") ELSE Return(cl)
  /\ UNCHANGED <<tables, refused, made, faults>>

Delete(S) ==
  /\ items' = [j \in DOMAIN items \ S |-> items[j]]
  /\ gone' = gone \cup S
  /\ UNCHANGED carts

DeleteItem(cl) ==
  /\ calls[cl].step = "deleteItem"
  /\ calls[cl].item \in DOMAIN items
  /\ Delete({calls[cl].item})

\* The row was deleted between the two statements, and the second one throws.
Vanished(cl) ==
  /\ calls[cl].step \in {"updateItem", "deleteItem"}
  /\ calls[cl].item \notin DOMAIN items
  /\ Return(cl)
  /\ UNCHANGED <<tables, refused, made, faults>>

ClearCart(cl, u) == Start(cl, [step |-> "findCleared", userId |-> u])

FindCleared(cl) ==
  /\ calls[cl].step = "findCleared"
  /\ IF calls[cl].userId \in carts THEN GoTo(cl, "deleteItems") ELSE Return(cl)
  /\ UNCHANGED <<tables, refused, made, faults>>

\* deleteMany takes what is in the cart by then; the cart itself stays.
DeleteItems(cl) ==
  /\ calls[cl].step = "deleteItems"
  /\ Delete({i \in DOMAIN items : items[i].userId = calls[cl].userId})

\* The last statement of these three.
LastWrite(cl) == WriteQuantity(cl) \/ DeleteItem(cl) \/ DeleteItems(cl)

Finish(cl) ==
  /\ LastWrite(cl)
  /\ Return(cl)
  /\ UNCHANGED <<refused, made, faults>>

-----------------------------------------------------------------------------
Fault == faults < MaxFaults /\ faults' = faults + 1

\* The database fails a statement, which may have had its effect.
StatementFails(cl) ==
  /\ calls[cl].step # "idle"
  /\ Fault
  /\ \/ UNCHANGED tables
     \/ InsertCart(cl) \/ InsertItem(cl) \/ LastWrite(cl)
  /\ Return(cl)
  /\ UNCHANGED <<refused, made>>

Crash ==
  /\ Fault
  /\ calls' = [cl \in Clients |-> IdleCall]
  /\ UNCHANGED <<tables, refused, made>>

Begin(cl) ==
  \/ \E u \in Users, q \in Quantities, p \in Prices : AddItemToCart(cl, u, q, p)
  \/ \E i \in DOMAIN items \cup gone :
       \/ \E q \in Quantities : UpdateItemQuantity(cl, i, q)
       \/ RemoveItemFromCart(cl, i)
  \/ \E u \in Users : ClearCart(cl, u)
Continue(cl) ==
  \/ FindCart(cl) \/ CreateCart(cl) \/ CreateCartRefused(cl) \/ CreateItem(cl)
  \/ FindItem(cl) \/ FindRemoved(cl) \/ FindCleared(cl) \/ Finish(cl) \/ Vanished(cl)

Next ==
  \/ \E cl \in Clients : Begin(cl) \/ Continue(cl) \/ StatementFails(cl)
  \/ Crash

Spec == Init /\ [][Next]_vars

\* The query: a user's cart with its items, or none, which is an error.
getCartDetails(u) == {{i \in DOMAIN items : items[i].userId = v} : v \in carts \cap {u}}

-----------------------------------------------------------------------------
(***************************************************************************)
(* Properties                                                              *)
(***************************************************************************)
Ledger == INSTANCE CartLedger

\* Although every mutation is a look and a write that others get between, the
\* rows change as if each were one step: no update brings a removed item back,
\* multiplies with a price the item does not have, or undoes a clearing.
LedgerSpec == Ledger!Spec

\* An addition that is refused for the cart's sake is one that raced the very
\* first addition of its user: there are fewer of them than calls at a time, none
\* once those are over, and whoever was refused has a cart to be shown all the same.
RefusedOnlyAtFirst ==
  \A u \in Users :
    /\ refused[u] < Cardinality(Clients)
    /\ refused[u] > 0 => getCartDetails(u) # {}

Quiescent == \A cl \in Clients : calls[cl].step = "idle"

=============================================================================
