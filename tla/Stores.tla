-------------------------------- MODULE Stores --------------------------------
(***************************************************************************)
(* The stores whose services share nothing with one another but their      *)
(* clients: carts, accounts, sellers, categories and products, and a       *)
(* reader who walks through a listing.  No step of one depends on the      *)
(* state of another, so a behaviour of all shows, of each, a behaviour of   *)
(* its own: here one is in use at a time, the same one throughout, and all *)
(* are checked by the same run.  The categories share their table with the *)
(* products, whose rows are then any.                                      *)
(***************************************************************************)
EXTENDS Integers, FiniteSets

CONSTANTS
  Users, Items, Quantities, Prices,   \* of the carts
  Homes, Texts, Blank, None,          \* of the accounts, with Users
  Sellers, Fields, Values, PoolSize,  \* of the sellers
  Ids, Names,                         \* of the categories
  Products, BatchLimit, Limits,       \* of the products, with Names
  Listings, MaxRows, MaxTake,         \* of the listings
  Clients, Deleters, MaxFaults, MaxList,
  MaxCartCalls, MaxAccountCalls, MaxSellerCalls, MaxCategoryCalls, MaxProductCalls

ASSUME BoundsAssumption ==
  {MaxFaults, MaxList, MaxRows, MaxTake, MaxCartCalls, MaxAccountCalls, MaxSellerCalls,
   MaxCategoryCalls, MaxProductCalls} \subseteq Nat
ASSUME NumbersAssumption == Quantities \subseteq Int /\ Prices \subseteq Int
ASSUME ClientsAssumption == IsFiniteSet(Clients) /\ Clients # {}
ASSUME LimitsAssumption == {PoolSize, BatchLimit} \subseteq Nat \ {0}
\* A table has finitely many rows, and readers ask for at least one of them.
ASSUME TableAssumption ==
  /\ IsFiniteSet(Ids) /\ IsFiniteSet(Names) /\ IsFiniteSet(Products)
  /\ Limits \subseteq Nat \ {0}

VARIABLES
  carts, items, takenOut, cartCalls, refused, cartMade, cartFaults,
  accountRows, accountCalls, goneAddresses, certain, accountMade, accountFaults,
  sellers, orphans, sellerCalls, overtaken, sellerMade, sellerFaults,
  categoryRows, nameOf, goneCategories, categoryMade,
  productRows, batches, named, goneProducts, reported, confirmed, skipped, productMade,
  listing, table, walk, seen, listed, inserted, deleted, vanished,
  inUse  \* the store that is called

cartVars == <<carts, items, takenOut, cartCalls, refused, cartMade, cartFaults>>
accountVars ==
  <<accountRows, accountCalls, goneAddresses, certain, accountMade, accountFaults>>
sellerVars == <<sellers, orphans, sellerCalls, overtaken, sellerMade, sellerFaults>>
categoryVars == <<categoryRows, nameOf, goneCategories, categoryMade>>
productVars ==
  <<productRows, batches, named, goneProducts, reported, confirmed, skipped, productMade>>
listingVars == <<listing, table, walk, seen, listed, inserted, deleted, vanished>>
vars ==
  <<cartVars, accountVars, sellerVars, categoryVars, productVars, listingVars, inUse>>

\* Where a store has a module of theorems, it is that one that is instantiated, so
\* that the theorems are here as well.
Carts == INSTANCE CartProofs
  WITH gone <- takenOut, calls <- cartCalls, made <- cartMade, faults <- cartFaults,
       MaxCalls <- MaxCartCalls
Accounts == INSTANCE AccountStoreProofs
  WITH rows <- accountRows, calls <- accountCalls, gone <- goneAddresses,
       made <- accountMade, faults <- accountFaults, MaxCalls <- MaxAccountCalls
SellerTable == INSTANCE SellerStore
  WITH calls <- sellerCalls, made <- sellerMade, faults <- sellerFaults,
       MaxCalls <- MaxSellerCalls
CategoryTable == INSTANCE CategoryStore
  WITH rows <- categoryRows, gone <- goneCategories, made <- categoryMade,
       MaxCalls <- MaxCategoryCalls
ProductTable == INSTANCE ProductCatalog
  WITH Categories <- Names, Clients <- Deleters, rows <- productRows,
       gone <- goneProducts, made <- productMade, MaxCalls <- MaxProductCalls
Listing == INSTANCE PagedListing
\* The one table that categories and products are rows of.
Shop == INSTANCE Catalogue WITH rows <- categoryRows, gone <- goneCategories

\* None is no row, and names none.
ASSUME TextsAssumption ==
  /\ Texts # {}
  /\ None \notin Accounts!Key
  /\ \A k \in Accounts!Key : None \notin Accounts!Row(k)

TypeOK ==
  /\ Carts!TypeOK
  /\ Accounts!TypeOK
  /\ SellerTable!TypeOK
  /\ CategoryTable!TypeOK
  /\ ProductTable!TypeOK
  /\ Listing!TypeOK

\* A store that is not in use may as well be empty.
Init ==
  /\ inUse \in {"carts", "accounts", "sellers", "categories", "products", "listing"}
  /\ Carts!Init
  /\ Accounts!Init
  /\ inUse # "accounts" => \A k \in Accounts!Key : accountRows[k] = None
  /\ SellerTable!Init /\ (inUse # "sellers" => DOMAIN sellers = {})
  \* The values are interchangeable: the sellers that are there have the same.
  /\ \A s, t \in DOMAIN sellers, f, g \in Fields : sellers[s][f] = sellers[t][g]
  /\ CategoryTable!Init /\ (inUse # "categories" => DOMAIN nameOf = {})
  /\ ProductTable!Init /\ (inUse \notin {"categories", "products"} => productRows = {})
  /\ Listing!Init
  /\ inUse # "listing" => table = <<>> /\ walk.take = MaxTake /\ listing = "orders"

CartStep ==
  /\ inUse = "carts" /\ Carts!Next
  /\ UNCHANGED <<accountVars, sellerVars, categoryVars, productVars, listingVars, inUse>>
AccountStep ==
  /\ inUse = "accounts" /\ Accounts!Next
  /\ UNCHANGED <<cartVars, sellerVars, categoryVars, productVars, listingVars, inUse>>
SellerStep ==
  /\ inUse = "sellers" /\ SellerTable!Next
  /\ UNCHANGED <<cartVars, accountVars, categoryVars, productVars, listingVars, inUse>>
CategoryStep ==
  /\ inUse = "categories" /\ CategoryTable!Next
  /\ UNCHANGED <<cartVars, accountVars, sellerVars, productVars, listingVars, inUse>>
ProductStep ==
  /\ inUse = "products" /\ ProductTable!Next
  /\ UNCHANGED <<cartVars, accountVars, sellerVars, categoryVars, listingVars, inUse>>
ListingStep ==
  /\ inUse = "listing" /\ Listing!Next
  /\ UNCHANGED <<cartVars, accountVars, sellerVars, categoryVars, productVars, inUse>>

\* Nothing is left to do until a client calls.
Rest ==
  /\ Carts!Quiescent /\ Accounts!Quiescent /\ SellerTable!Quiescent /\ ProductTable!Quiescent
  /\ UNCHANGED vars

Next ==
  \/ CartStep \/ AccountStep \/ SellerStep \/ CategoryStep \/ ProductStep \/ ListingStep
  \/ Rest

Spec == Init /\ [][Next]_vars /\ SellerTable!Fairness

-----------------------------------------------------------------------------
(***************************************************************************)
(* Properties: those of the stores, under the names they have there        *)
(***************************************************************************)

\* Carts change as if each mutation were one step (cart.repository.ts).
LedgerSpec == Carts!LedgerSpec

\* Additions fail for the cart's sake only beside the user's very first one.
RefusedOnlyAtFirst == Carts!RefusedOnlyAtFirst

\* No call brings a deleted seller back (seller.repository.ts).
DeletedStaysDeleted == SellerTable!DeletedStaysDeleted

\* updateSeller undoes nothing but an update that overlapped it.
OnlyOverlapsUndoUpdates == SellerTable!OnlyOverlapsUndoUpdates

\* Calls that wait for each other's connections come to an end all the same.
CallsReturn == SellerTable!CallsReturn

\* At most one row passes for a category (category.repository.ts).
OneFullRowPerId == CategoryTable!OneFullRowPerId

\* A living category is never a row without an id.
GhostsHaveNoCategory == CategoryTable!GhostsHaveNoCategory

\* The first row found under a product's id is its only one (product.repository.ts).
OneRowPerId == ProductTable!OneRowPerId

\* createProducts and deleteProducts report what they did, batch by batch.
BatchAnswersAreTrue == ProductTable!BatchAnswersAreTrue

\* A confirmed change of an account stands until another call is about the same
\* field (user.repository.ts).
ConfirmedChangesStand == Accounts!ConfirmedChangesStand

\* A walk through orders, users or sellers misses a row for each that was deleted
\* meanwhile and repeats one for each that was inserted, at most; the total that
\* comes with a page covers the rows shown so far.
PagesAddUp == Listing!PagesAddUp

\* What a list shows of a product is what its id leads to; a query of the catalogue
\* fails only for want of rows or because others fill the page, and a list of
\* categories only for a row that an update left without an id.
QueriesAgree == Shop!QueriesAgree

=============================================================================
