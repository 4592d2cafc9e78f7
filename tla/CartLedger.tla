----------------------------- MODULE CartLedger -----------------------------
(***************************************************************************)
(* What the mutations of a shopping cart promise (cart.repository.ts), each *)
(* as one step: an item is put into its user's cart once, is multiplied out *)
(* with the price it was added at, and never returns once it was taken out. *)
(***************************************************************************)
EXTENDS Integers

CONSTANTS Users, Items, Quantities, Prices

VARIABLES
  items,  \* the items in carts, by id
  gone    \* the ids that were taken out

vars == <<items, gone>>

Priced(u, q, p) ==
  [userId |-> u, quantity |-> q, productPrice |-> p, totalPrice |-> q * p]

Init == items = << >> /\ gone = {}

AddItem(i, u, q, p) ==
  /\ i \notin DOMAIN items \cup gone
  /\ items' = [j \in DOMAIN items \cup {i} |-> IF j = i THEN Priced(u, q, p) ELSE items[j]]
  /\ UNCHANGED gone

SetQuantity(i, q) ==
  /\ i \in DOMAIN items
  /\ items' = [items EXCEPT ![i] = Priced(@.userId, q, @.productPrice)]
  /\ UNCHANGED gone

\* Takes out a set of items that share a cart: one of them or all of them.
TakeOut(S) ==
  /\ gone' = gone \cup S
  /\ items' = [j \in DOMAIN items \ S |-> items[j]]

RemoveItem(i) == i \in DOMAIN items /\ TakeOut({i})
ClearCart(u) == TakeOut({i \in DOMAIN items : items[i].userId = u})

Next ==
  \/ \E i \in Items, u \in Users, q \in Quantities, p \in Prices : AddItem(i, u, q, p)
  \/ \E i \in Items, q \in Quantities : SetQuantity(i, q)
  \/ \E i \in Items : RemoveItem(i)
  \/ \E u \in Users : ClearCart(u)

Spec == Init /\ [][Next]_vars

=============================================================================
