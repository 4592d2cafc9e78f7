------------------------------ MODULE StoresProofs ------------------------------
(***************************************************************************)
(* What is proved of each store holds when all of them are there: a step    *)
(* of one is a step of it, and stutters for the others.  Carts and accounts *)
(* have modules of theorems of their own; the invariants of the sellers,   *)
(* the categories, the products and the listings are found here.           *)
(***************************************************************************)
EXTENDS Stores, SequenceTheorems, FiniteSetTheorems, TLAPS

\* What the invariants of the sellers and the products ask of the constants.
SellersBounds == MaxSellerCalls \in Nat /\ MaxFaults \in Nat
ProductBounds == BatchLimit \in Nat \ {0} /\ MaxProductCalls \in Nat

\* The assumptions of this module are those that the stores' theorems need.
LEMMA Assumed ==
  /\ Carts!Numbers
  /\ Accounts!Bounds
  /\ SellersBounds
  /\ MaxCategoryCalls \in Nat
  /\ ProductBounds
BY BoundsAssumption, NumbersAssumption, LimitsAssumption, TextsAssumption
   DEF Carts!Numbers, Accounts!Bounds, SellersBounds, ProductBounds

LEMMA CartsRun == Spec => Carts!Spec
<1>1. Init => Carts!Init
  BY DEF Init
<1>2. [Next]_vars => [Carts!Next]_(Carts!vars)
  BY DEF Next, CartStep, AccountStep, SellerStep, CategoryStep, ProductStep, ListingStep,
         Rest, vars, cartVars, Carts!vars, Carts!tables
<1> QED
  BY <1>1, <1>2, PTL DEF Spec, Carts!Spec

LEMMA AccountsRun == Spec => Accounts!Spec
<1>1. Init => Accounts!Init
  BY DEF Init
<1>2. [Next]_vars => [Accounts!Next]_(Accounts!vars)
  BY DEF Next, CartStep, AccountStep, SellerStep, CategoryStep, ProductStep, ListingStep,
         Rest, vars, accountVars, Accounts!vars
<1> QED
  BY <1>1, <1>2, PTL DEF Spec, Accounts!Spec

LEMMA SellersRun == Spec => SellerTable!Spec
<1>1. Init => SellerTable!Init
  BY DEF Init
<1>2. [Next]_vars => [SellerTable!Next]_(SellerTable!vars)
  BY DEF Next, CartStep, AccountStep, SellerStep, CategoryStep, ProductStep, ListingStep,
         Rest, vars, sellerVars, SellerTable!vars, SellerTable!rows
<1> QED
  BY <1>1, <1>2, PTL DEF Spec, SellerTable!Spec

LEMMA CategoriesRun == Spec => CategoryTable!Spec
<1>1. Init => CategoryTable!Init
  BY DEF Init
<1>2. [Next]_vars => [CategoryTable!Next]_(CategoryTable!vars)
  BY DEF Next, CartStep, AccountStep, SellerStep, CategoryStep, ProductStep, ListingStep,
         Rest, vars, categoryVars, CategoryTable!vars
<1> QED
  BY <1>1, <1>2, PTL DEF Spec, CategoryTable!Spec

LEMMA ProductsRun == Spec => ProductTable!Spec
<1>1. Init => ProductTable!Init
  BY DEF Init
<1>2. [Next]_vars => [ProductTable!Next]_(ProductTable!vars)
  BY DEF Next, CartStep, AccountStep, SellerStep, CategoryStep, ProductStep, ListingStep,
         Rest, vars, productVars, ProductTable!vars, ProductTable!histories
<1> QED
  BY <1>1, <1>2, PTL DEF Spec, ProductTable!Spec

LEMMA ListingRuns == Spec => Listing!Spec
<1>1. Init => Listing!Init
  BY DEF Init
<1>2. [Next]_vars => [Listing!Next]_(Listing!vars)
  BY DEF Next, CartStep, AccountStep, SellerStep, CategoryStep, ProductStep, ListingStep,
         Rest, vars, listingVars, Listing!vars
<1> QED
  BY <1>1, <1>2, PTL DEF Spec, Listing!Spec

-----------------------------------------------------------------------------
(***************************************************************************)
(* The listings keep their types                                           *)
(***************************************************************************)
\* A section of the table is a sequence of its rows.
LEMMA PageTyped == ASSUME Listing!TypeOK PROVE Listing!Page \in Seq(Listing!RowIds)
<1> DEFINE m == walk.skip + 1
           n == IF walk.skip + walk.take < Len(table) THEN walk.skip + walk.take ELSE Len(table)
<1>1. walk.skip \in Nat /\ walk.take \in Int /\ table \in Seq(Listing!RowIds)
  BY BoundsAssumption DEF Listing!TypeOK, Listing!Walk
<1>2. m \in 1..(Len(table) + m) /\ n \in Int /\ n <= Len(table)
  BY <1>1
<1>3. \A i \in m..n : table[i] \in Listing!RowIds
  BY <1>1, <1>2
<1>4. SubSeq(table, m, n) \in Seq(Listing!RowIds)
  BY <1>1, <1>2, <1>3
<1> QED
  BY <1>1, <1>4 DEF Listing!Page, Listing!Section, Listing!Smaller

\* Every step of a reader and of those who change the table keeps the types.
LEMMA ListingTyped == Listing!Spec => []Listing!TypeOK
<1>1. ASSUME Listing!Init PROVE Listing!TypeOK
  <2>1. listed \in 0..MaxRows /\ table = [i \in 1..listed |-> i] /\ MaxRows \in Nat
    BY <1>1, BoundsAssumption DEF Listing!Init
  <2>2. table \in Seq(Listing!RowIds)
    BY <2>1 DEF Listing!RowIds
  <2>3. walk \in Listing!Walk
    BY <1>1 DEF Listing!Init, Listing!Walk
  <2>4. listing \in Listings /\ seen = [r \in Listing!RowIds |-> 0]
        /\ inserted = 0 /\ deleted = 0 /\ vanished = 0
    BY <1>1 DEF Listing!Init
  <2> QED
    BY <2>1, <2>2, <2>3, <2>4 DEF Listing!TypeOK
<1>2. ASSUME Listing!TypeOK, [Listing!Next]_(Listing!vars) PROVE Listing!TypeOK'
  <2>1. /\ listing \in Listings /\ table \in Seq(Listing!RowIds)
        /\ walk \in Listing!Walk /\ seen \in [Listing!RowIds -> Nat]
        /\ listed \in Nat /\ inserted \in Nat /\ deleted \in Nat /\ vanished \in Nat
        /\ MaxRows \in Nat /\ MaxTake \in Nat
    BY <1>2, BoundsAssumption DEF Listing!TypeOK
  <2>2. CASE Listing!ReadPage
    <3>1. Listing!Page \in Seq(Listing!RowIds)
      BY <1>2, PageTyped
    <3>2. PICK step \in {"count", "answered"} :
            walk' = [walk EXCEPT !.step = step, !.page = Listing!Page, !.total = Len(Listing!Page)]
      BY <2>2 DEF Listing!ReadPage
    <3>3. walk' \in Listing!Walk
      <4>1. walk' = [step |-> step, skip |-> walk.skip, take |-> walk.take,
                     page |-> Listing!Page, total |-> Len(Listing!Page)]
        BY <2>1, <3>2 DEF Listing!Walk
      <4>2. Len(Listing!Page) \in Nat /\ walk.skip \in Nat /\ walk.take \in 1..MaxTake
        BY <2>1, <3>1 DEF Listing!Walk
      <4> QED
        BY <3>1, <4>1, <4>2 DEF Listing!Walk
    <3>4. seen' \in [Listing!RowIds -> Nat]
      BY <2>1, <2>2 DEF Listing!ReadPage, Listing!Shown
    <3> QED
      BY <2>1, <2>2, <3>3, <3>4 DEF Listing!ReadPage, Listing!TypeOK
  <2>3. CASE Listing!CountRows
    <3>1. Len(table) \in Nat /\ walk' = [walk EXCEPT !.step = "answered", !.total = Len(table)]
      BY <2>1, <2>3 DEF Listing!CountRows, Listing!Count
    <3>2. walk' \in Listing!Walk
      BY <2>1, <3>1 DEF Listing!Walk
    <3> QED
      BY <2>1, <2>3, <3>2 DEF Listing!CountRows, Listing!TypeOK
  <2>4. CASE Listing!TurnPage
    <3>1. PICK step \in {"end", "ask"} :
            walk' = [walk EXCEPT !.step = step, !.skip = walk.skip + walk.take,
                                 !.page = <<>>, !.total = 0]
      BY <2>4 DEF Listing!TurnPage
    <3>2. walk' = [step |-> step, skip |-> walk.skip + walk.take, take |-> walk.take,
                   page |-> <<>>, total |-> 0]
      BY <2>1, <3>1 DEF Listing!Walk
    <3>3. walk.skip + walk.take \in Nat /\ walk.take \in 1..MaxTake
      BY <2>1 DEF Listing!Walk
    <3>4. walk' \in Listing!Walk
      BY <3>2, <3>3 DEF Listing!Walk
    <3> QED
      BY <2>1, <2>4, <3>4 DEF Listing!TurnPage, Listing!TypeOK
  <2>5. CASE Listing!Insert
    <3>1. Listing!Used + 1 \in Listing!RowIds
      BY <2>1, <2>5 DEF Listing!Insert, Listing!Used, Listing!RowIds
    <3>2. PICK i \in 1..(Len(table) + 1) : table' = Listing!InsertAt(table, i, Listing!Used + 1)
      BY <2>5 DEF Listing!Insert
    <3>3. /\ SubSeq(table, 1, i - 1) \in Seq(Listing!RowIds)
          /\ SubSeq(table, i, Len(table)) \in Seq(Listing!RowIds)
      BY <2>1, <3>2, SubSeqProperties
    <3>4. table' \in Seq(Listing!RowIds)
      BY <3>1, <3>2, <3>3 DEF Listing!InsertAt
    <3> QED
      BY <2>1, <2>5, <3>4 DEF Listing!Insert, Listing!TypeOK
  <2>6. CASE Listing!Delete
    <3>1. PICK i \in DOMAIN table : table' = Listing!RemoveAt(table, i)
      BY <2>6 DEF Listing!Delete
    <3>2. /\ SubSeq(table, 1, i - 1) \in Seq(Listing!RowIds)
          /\ SubSeq(table, i + 1, Len(table)) \in Seq(Listing!RowIds)
      BY <2>1, <3>1, SubSeqProperties
    <3>3. table' \in Seq(Listing!RowIds)
      BY <3>1, <3>2 DEF Listing!RemoveAt
    <3> QED
      BY <2>1, <2>6, <3>3 DEF Listing!Delete, Listing!TypeOK
  <2>7. CASE UNCHANGED Listing!vars
    BY <1>2, <2>7 DEF Listing!vars, Listing!TypeOK
  <2> QED
    BY <1>2, <2>2, <2>3, <2>4, <2>5, <2>6, <2>7 DEF Listing!Next
<1> QED
  BY <1>1, <1>2, PTL DEF Listing!Spec

-----------------------------------------------------------------------------
(***************************************************************************)
(* Sellers.  That updateSeller takes back nothing but what an update that  *)
(* overlapped it wrote needs HeldRow: what an update will write, its own    *)
(* fields apart, is what the row holds, unless somebody wrote the row      *)
(* meanwhile.  It survives the creation of sellers because no id is used   *)
(* twice (HeldIsKnown).                                                    *)
(***************************************************************************)
\* No id is both there and gone.
SellersApart == DOMAIN sellers \cap orphans = {}

HeldIsKnown ==
  \A cl \in Clients : SellerTable!At(cl, "write")
    => sellerCalls[cl].seller \in DOMAIN sellers \cup orphans

HeldRow ==
  \A cl \in Clients :
    SellerTable!At(cl, "write") /\ sellerCalls[cl].seller \in DOMAIN sellers
      /\ cl \notin overtaken =>
      \A f \in Fields \ DOMAIN sellerCalls[cl].change :
        sellerCalls[cl].row[f] = sellers[sellerCalls[cl].seller][f]

SellersInv == SellerTable!TypeOK /\ SellersApart /\ HeldIsKnown /\ HeldRow

\* What a call carries, by the step it is at.
LEMMA SellerCallFacts ==
  ASSUME NEW call \in SellerTable!Call
  PROVE  /\ call.step \in {"insert", "lateInsert"} => call.row \in SellerTable!Seller
         /\ call.step \in {"read", "write"} => call.seller \in Sellers
            /\ call.change \in SellerTable!Change
         /\ call.step = "write" => call.row \in SellerTable!Seller
         /\ call.step \in {"delete", "lateDelete"} => call.seller \in Sellers
BY DEF SellerTable!Call, SellerTable!IdleCall, SellerTable!CreateCall, SellerTable!ListCall,
       SellerTable!UpdateCall, SellerTable!DeleteCall

\* GoTo moves a call on to the next step of its kind.
LEMMA SellerGoToFacts ==
  ASSUME NEW call \in SellerTable!Call, NEW step,
         \/ call.step = "beginCreate" /\ step = "insert"
         \/ call.step = "insert" /\ step \in {"lateInsert", "commit"}
         \/ call.step = "delete" /\ step \in {"lateDelete", "commit"}
         \/ call.step = "checkUpdate" /\ step = "read"
         \/ call.step = "checkDelete" /\ step = "find"
         \/ call.step = "find" /\ step = "beginDelete"
         \/ call.step = "beginDelete" /\ step = "delete"
         \/ call.step = "beginList" /\ step = "count"
  PROVE  [call EXCEPT !.step = step] \in SellerTable!Call
         /\ [call EXCEPT !.step = step].step = step
<1>1. CASE call.step \in {"beginCreate", "insert"}
  <2>1. call \in SellerTable!CreateCall
    BY <1>1
       DEF SellerTable!Call, SellerTable!IdleCall, SellerTable!ListCall, SellerTable!UpdateCall,
           SellerTable!DeleteCall
  <2> QED
    BY <1>1, <2>1 DEF SellerTable!Call, SellerTable!CreateCall
<1>2. CASE call.step = "checkUpdate"
  <2>1. call \in [step : {"checkUpdate", "read"}, seller : Sellers, change : SellerTable!Change]
    BY <1>2
       DEF SellerTable!Call, SellerTable!IdleCall, SellerTable!CreateCall, SellerTable!ListCall,
           SellerTable!UpdateCall, SellerTable!DeleteCall
  <2> QED
    BY <1>2, <2>1 DEF SellerTable!Call, SellerTable!UpdateCall
<1>3. CASE call.step \in {"checkDelete", "find", "beginDelete", "delete"}
  <2>1. call \in SellerTable!DeleteCall
    BY <1>3
       DEF SellerTable!Call, SellerTable!IdleCall, SellerTable!CreateCall, SellerTable!ListCall,
           SellerTable!UpdateCall
  <2> QED
    BY <1>3, <2>1 DEF SellerTable!Call, SellerTable!DeleteCall
<1>4. CASE call.step = "beginList"
  <2>1. call \in SellerTable!ListCall
    BY <1>4
       DEF SellerTable!Call, SellerTable!IdleCall, SellerTable!CreateCall,
           SellerTable!UpdateCall, SellerTable!DeleteCall
  <2> QED
    BY <1>4, <2>1 DEF SellerTable!Call, SellerTable!ListCall
<1> QED
  BY <1>1, <1>2, <1>3, <1>4

\* What the caller did not name comes from the row, and the whole is a row.
LEMMA NamedFacts ==
  ASSUME NEW change \in SellerTable!Change, NEW row \in SellerTable!Seller
  PROVE  /\ SellerTable!Named(change, row) \in SellerTable!Seller
         /\ \A f \in Fields \ DOMAIN change : SellerTable!Named(change, row)[f] = row[f]
<1>1. PICK F \in SUBSET Fields : change \in [F -> Values]
  BY DEF SellerTable!Change
<1>2. DOMAIN change = F /\ \A f \in F : change[f] \in Values
  BY <1>1
<1> QED
  BY <1>2 DEF SellerTable!Named, SellerTable!Seller

SellersTyped ==
  /\ DOMAIN sellers' \subseteq Sellers
  /\ sellers' \in [DOMAIN sellers' -> SellerTable!Seller]
  /\ orphans' \subseteq Sellers
  /\ sellerCalls' \in [Clients -> SellerTable!Call]
  /\ overtaken' \subseteq Clients
  /\ sellerMade' \in Nat /\ sellerFaults' \in Nat

\* A seller is never forgotten and never returns.
IdsKept ==
  /\ DOMAIN sellers \cup orphans \subseteq DOMAIN sellers' \cup orphans'
  /\ \A s \in DOMAIN sellers \cup orphans : s \in DOMAIN sellers' => s \in DOMAIN sellers
  /\ DOMAIN sellers' \cap orphans' = {}

\* A call that is about to write was so before, or has just read the row.
Follows(cl) ==
  sellerCalls'[cl].step = "write" =>
    \/ sellerCalls'[cl] = sellerCalls[cl] /\ (cl \in overtaken => cl \in overtaken')
    \/ /\ sellers' = sellers
       /\ sellerCalls'[cl].seller \in DOMAIN sellers
       /\ \A f \in Fields \ DOMAIN sellerCalls'[cl].change :
            sellerCalls'[cl].row[f] = sellers[sellerCalls'[cl].seller][f]

\* Only a call that writes its row, and ends, changes one there was before.
Overwrites(cl) ==
  /\ SellerTable!WriteRow(cl)
  /\ sellerCalls'[cl].step = "idle"
  /\ SellerTable!Overtakes(cl) \subseteq overtaken'
FieldsKept ==
  \/ \A s \in DOMAIN sellers \cap DOMAIN sellers' : sellers'[s] = sellers[s]
  \/ \E cl \in Clients : Overwrites(cl)

SellersEffect == SellersTyped /\ IdsKept /\ (\A cl \in Clients : Follows(cl)) /\ FieldsKept

\* What a statement does to the rows alone.
SellerRowsTyped ==
  /\ DOMAIN sellers' \subseteq Sellers
  /\ sellers' \in [DOMAIN sellers' -> SellerTable!Seller]
  /\ orphans' \subseteq Sellers
SellerRowsGood == SellerRowsTyped /\ IdsKept

LEMMA NoSellerWritten ==
  ASSUME SellersInv, UNCHANGED SellerTable!rows PROVE SellerRowsGood /\ FieldsKept
BY DEF SellersInv, SellerTable!TypeOK, SellersApart, SellerTable!rows, SellerRowsGood,
       SellerRowsTyped, IdsKept, FieldsKept

\* A new seller has an id that nobody has or had.
LEMMA InsertRowFacts ==
  ASSUME SellersInv, NEW cl \in Clients, SellerTable!InsertRow(cl)
  PROVE  SellerRowsGood /\ FieldsKept
<1>1. sellerCalls[cl] \in SellerTable!Call /\ sellerCalls[cl].row \in SellerTable!Seller
      /\ SellerTable!TypeOK
  BY SellerCallFacts DEF SellersInv, SellerTable!TypeOK, SellerTable!InsertRow, SellerTable!At
<1>2. PICK s \in Sellers \ (DOMAIN sellers \cup orphans) :
        sellers' = [t \in DOMAIN sellers \cup {s} |->
                      IF t = s THEN sellerCalls[cl].row ELSE sellers[t]]
  BY DEF SellerTable!InsertRow, SellerTable!Unused
<1>3. /\ DOMAIN sellers' = DOMAIN sellers \cup {s}
      /\ sellers'[s] = sellerCalls[cl].row
      /\ \A t \in DOMAIN sellers : sellers'[t] = sellers[t]
      /\ orphans' = orphans
  BY <1>2 DEF SellerTable!InsertRow
<1>4. SellerRowsTyped
  <2>1. \A t \in DOMAIN sellers' : sellers'[t] \in SellerTable!Seller
    BY <1>1, <1>3 DEF SellerTable!TypeOK
  <2>2. sellers' = [t \in DOMAIN sellers' |-> sellers'[t]]
    BY <1>2
  <2> QED
    BY <1>1, <1>2, <1>3, <2>1, <2>2 DEF SellerTable!TypeOK, SellerRowsTyped
<1>5. IdsKept
  BY <1>2, <1>3 DEF SellersInv, SellersApart, IdsKept
<1>6. FieldsKept
  BY <1>3 DEF FieldsKept
<1> QED
  BY <1>4, <1>5, <1>6 DEF SellerRowsGood

LEMMA DeleteRowFacts ==
  ASSUME SellersInv, NEW cl \in Clients, SellerTable!DeleteRow(cl)
  PROVE  SellerRowsGood /\ FieldsKept
<1>1. SellerTable!TypeOK /\ sellerCalls[cl].seller \in DOMAIN sellers
  BY DEF SellersInv, SellerTable!DeleteRow
<1>2. /\ DOMAIN sellers' = DOMAIN sellers \ {sellerCalls[cl].seller}
      /\ \A t \in DOMAIN sellers' : sellers'[t] = sellers[t]
      /\ sellers' = [t \in DOMAIN sellers \ {sellerCalls[cl].seller} |-> sellers[t]]
      /\ orphans' = orphans \cup {sellerCalls[cl].seller}
  BY DEF SellerTable!DeleteRow
<1>3. SellerRowsTyped
  BY <1>1, <1>2 DEF SellerTable!TypeOK, SellerRowsTyped
<1>4. IdsKept
  BY <1>1, <1>2 DEF SellersInv, SellersApart, IdsKept
<1>5. FieldsKept
  BY <1>2 DEF FieldsKept
<1> QED
  BY <1>3, <1>4, <1>5 DEF SellerRowsGood

LEMMA WriteRowFacts ==
  ASSUME SellersInv, NEW cl \in Clients, SellerTable!WriteRow(cl) PROVE SellerRowsGood
<1>1. sellerCalls[cl] \in SellerTable!Call /\ sellerCalls[cl].row \in SellerTable!Seller
      /\ SellerTable!TypeOK
  BY SellerCallFacts DEF SellersInv, SellerTable!TypeOK, SellerTable!WriteRow, SellerTable!At
<1>2. /\ sellerCalls[cl].seller \in DOMAIN sellers
      /\ sellers' = [sellers EXCEPT ![sellerCalls[cl].seller] = sellerCalls[cl].row]
      /\ orphans' = orphans
  BY DEF SellerTable!WriteRow
<1>3. SellerRowsTyped
  BY <1>1, <1>2 DEF SellerTable!TypeOK, SellerRowsTyped
<1>4. IdsKept
  BY <1>2 DEF SellersInv, SellersApart, IdsKept
<1> QED
  BY <1>3, <1>4 DEF SellerRowsGood

\* A step that moves one call, to anything but a write, and writes over no row.
LEMMA MoveIsEffect ==
  ASSUME SellersInv, NEW cl \in Clients, NEW call \in SellerTable!Call, call.step # "write",
         sellerCalls' = [sellerCalls EXCEPT ![cl] = call],
         overtaken \ {cl} \subseteq overtaken', overtaken' \subseteq overtaken,
         SellerRowsGood, FieldsKept, sellerMade' \in Nat, sellerFaults' \in Nat
  PROVE  SellersEffect
<1>1. SellerTable!TypeOK
  BY DEF SellersInv
<1>2. SellersTyped
  BY <1>1 DEF SellerTable!TypeOK, SellersTyped, SellerRowsGood, SellerRowsTyped
<1>3. \A c \in Clients : Follows(c)
  BY <1>1 DEF SellerTable!TypeOK, Follows
<1> QED
  BY <1>2, <1>3 DEF SellersEffect, SellerRowsGood

LEMMA StartIsEffect ==
  ASSUME SellersInv, NEW cl \in Clients, NEW call \in SellerTable!Call, call.step # "write",
         SellerTable!Start(cl, call)
  PROVE  SellersEffect
<1>1. /\ sellerCalls' = [sellerCalls EXCEPT ![cl] = call]
      /\ UNCHANGED <<SellerTable!rows, overtaken>>
      /\ sellerMade' \in Nat /\ sellerFaults' \in Nat
  BY DEF SellerTable!Start, SellersInv, SellerTable!TypeOK
<1>2. SellerRowsGood /\ FieldsKept
  BY <1>1, NoSellerWritten
<1> QED
  BY <1>1, <1>2, MoveIsEffect

\* The call ends: what it did to the rows, it did without writing over one.
LEMMA ReturnIsEffect ==
  ASSUME SellersInv, NEW cl \in Clients,
         sellerCalls' = [sellerCalls EXCEPT ![cl] = SellerTable!IdleCall],
         overtaken' = overtaken \ {cl}, SellerRowsGood, FieldsKept,
         sellerMade' = sellerMade, sellerFaults' \in Nat
  PROVE  SellersEffect
<1>1. SellerTable!IdleCall \in SellerTable!Call /\ SellerTable!IdleCall.step # "write"
  BY DEF SellerTable!Call, SellerTable!IdleCall
<1> QED
  BY <1>1, MoveIsEffect DEF SellersInv, SellerTable!TypeOK

\* The call ends with a write over the row.
LEMMA WriteIsEffect ==
  ASSUME SellersInv, NEW cl \in Clients, SellerTable!WriteRow(cl),
         sellerCalls' = [sellerCalls EXCEPT ![cl] = SellerTable!IdleCall],
         overtaken' = (overtaken \ {cl}) \cup SellerTable!Overtakes(cl),
           sellerMade' = sellerMade, sellerFaults' \in Nat
  PROVE  SellersEffect
<1>1. SellerTable!TypeOK /\ SellerTable!IdleCall \in SellerTable!Call
      /\ SellerTable!IdleCall.step = "idle" /\ SellerTable!Overtakes(cl) \subseteq Clients
  BY DEF SellersInv, SellerTable!Call, SellerTable!IdleCall, SellerTable!Overtakes
<1>2. SellerRowsGood
  BY WriteRowFacts
<1>3. SellersTyped
  BY <1>1, <1>2 DEF SellerTable!TypeOK, SellersTyped, SellerRowsGood, SellerRowsTyped
<1>4. \A c \in Clients : Follows(c)
  BY <1>1 DEF SellerTable!TypeOK, Follows
<1>5. Overwrites(cl)
  BY <1>1 DEF SellerTable!TypeOK, Overwrites
<1> QED
  BY <1>2, <1>3, <1>4, <1>5 DEF SellersEffect, SellerRowsGood, FieldsKept

LEMMA GoToIsEffect ==
  ASSUME SellersInv, NEW cl \in Clients, NEW step,
         \/ sellerCalls[cl].step = "beginCreate" /\ step = "insert"
         \/ sellerCalls[cl].step = "insert" /\ step \in {"lateInsert", "commit"}
         \/ sellerCalls[cl].step = "delete" /\ step \in {"lateDelete", "commit"}
         \/ sellerCalls[cl].step = "checkUpdate" /\ step = "read"
         \/ sellerCalls[cl].step = "checkDelete" /\ step = "find"
         \/ sellerCalls[cl].step = "find" /\ step = "beginDelete"
         \/ sellerCalls[cl].step = "beginDelete" /\ step = "delete"
         \/ sellerCalls[cl].step = "beginList" /\ step = "count",
         SellerTable!GoTo(cl, step), SellerRowsGood, FieldsKept, UNCHANGED <<sellerMade,
           sellerFaults>>
  PROVE  SellersEffect
<1> DEFINE call == [sellerCalls[cl] EXCEPT !.step = step]
<1>1. sellerCalls[cl] \in SellerTable!Call /\ sellerMade' \in Nat /\ sellerFaults' \in Nat
  BY DEF SellersInv, SellerTable!TypeOK
<1>2. call \in SellerTable!Call /\ call.step = step
  BY <1>1, SellerGoToFacts
<1>3. sellerCalls' = [sellerCalls EXCEPT ![cl] = call] /\ overtaken' = overtaken
  BY DEF SellerTable!GoTo
<1>4. call.step # "write"
  BY <1>2
<1> HIDE DEF call
<1> QED
  BY <1>1, <1>2, <1>3, <1>4, MoveIsEffect

LEMMA StartCallIsEffect ==
  ASSUME SellersInv, NEW cl \in Clients, SellerTable!StartCall(cl) PROVE SellersEffect
<1>1. ASSUME NEW row \in SellerTable!Seller, SellerTable!CreateSeller(cl, row)
             PROVE SellersEffect
  <2> DEFINE call == [step |-> "beginCreate", row |-> row]
  <2>1. call \in SellerTable!Call /\ call.step # "write"
    BY DEF SellerTable!Call, SellerTable!CreateCall
  <2>2. SellerTable!Start(cl, call)
    BY <1>1 DEF SellerTable!CreateSeller
  <2> HIDE DEF call
  <2> QED
    BY <2>1, <2>2, StartIsEffect
<1>2. ASSUME NEW s \in Sellers, NEW change \in SellerTable!Change, SellerTable!UpdateSeller(cl,
             s, change) PROVE SellersEffect
  <2> DEFINE call == [step |-> "checkUpdate", seller |-> s, change |-> change]
  <2>1. call \in SellerTable!Call /\ call.step # "write"
    BY DEF SellerTable!Call, SellerTable!UpdateCall
  <2>2. SellerTable!Start(cl, call)
    BY <1>2 DEF SellerTable!UpdateSeller
  <2> HIDE DEF call
  <2> QED
    BY <2>1, <2>2, StartIsEffect
<1>3. ASSUME NEW s \in Sellers, SellerTable!DeleteSeller(cl, s) PROVE SellersEffect
  <2> DEFINE call == [step |-> "checkDelete", seller |-> s]
  <2>1. call \in SellerTable!Call /\ call.step # "write"
    BY DEF SellerTable!Call, SellerTable!DeleteCall
  <2>2. SellerTable!Start(cl, call)
    BY <1>3 DEF SellerTable!DeleteSeller
  <2> HIDE DEF call
  <2> QED
    BY <2>1, <2>2, StartIsEffect
<1>4. CASE SellerTable!GetAllSellers(cl)
  <2> DEFINE call == [step |-> "beginList"]
  <2>1. call \in SellerTable!Call /\ call.step # "write"
    BY DEF SellerTable!Call, SellerTable!ListCall
  <2>2. SellerTable!Start(cl, call)
    BY <1>4 DEF SellerTable!GetAllSellers
  <2> HIDE DEF call
  <2> QED
    BY <2>1, <2>2, StartIsEffect
<1>5. DOMAIN sellers \cup orphans \subseteq Sellers
  BY DEF SellersInv, SellerTable!TypeOK
<1> QED
  BY <1>1, <1>2, <1>3, <1>4, <1>5 DEF SellerTable!StartCall

LEMMA BeginIsEffect ==
  ASSUME SellersInv, NEW cl \in Clients,
         \/ SellerTable!Begin(cl, "beginCreate", "insert")
         \/ SellerTable!Begin(cl, "beginDelete", "delete")
         \/ SellerTable!Begin(cl, "beginList", "count")
  PROVE  SellersEffect
BY NoSellerWritten, GoToIsEffect DEF SellerTable!Begin, SellerTable!At

LEMMA LookUpIsEffect ==
  ASSUME SellersInv, NEW cl \in Clients,
         \/ SellerTable!LookUp(cl, "checkUpdate", "read")
         \/ SellerTable!LookUp(cl, "checkDelete", "find")
         \/ SellerTable!LookUp(cl, "find", "beginDelete")
  PROVE  SellersEffect
<1>1. SellerRowsGood /\ FieldsKept /\ UNCHANGED <<sellerMade, sellerFaults>>
  BY NoSellerWritten DEF SellerTable!LookUp
<1>2. CASE SellerTable!Return(cl)
  BY <1>1, <1>2, ReturnIsEffect DEF SellerTable!Return, SellersInv, SellerTable!TypeOK
<1>3. CASE ~SellerTable!Return(cl)
  BY <1>1, <1>3, GoToIsEffect DEF SellerTable!LookUp, SellerTable!At
<1> QED
  BY <1>2, <1>3

\* What the repository read is what it will write, but for the fields named.
LEMMA ReadRowIsEffect ==
  ASSUME SellersInv, NEW cl \in Clients, SellerTable!ReadRow(cl) PROVE SellersEffect
<1> DEFINE s == sellerCalls[cl].seller
           row == SellerTable!Named(sellerCalls[cl].change, sellers[s])
           call == [step |-> "write", seller |-> s, change |-> sellerCalls[cl].change,
             row |-> row]
<1>1. SellerTable!TypeOK /\ sellerCalls[cl] \in SellerTable!Call
      /\ sellerCalls[cl].step = "read" /\ s \in DOMAIN sellers
      /\ sellerCalls' = [sellerCalls EXCEPT ![cl] = call] /\ UNCHANGED <<SellerTable!rows,
         overtaken, sellerMade, sellerFaults>>
  BY DEF SellersInv, SellerTable!TypeOK, SellerTable!ReadRow, SellerTable!At
<1>2. s \in Sellers /\ sellerCalls[cl].change \in SellerTable!Change
      /\ sellers[s] \in SellerTable!Seller
  BY <1>1, SellerCallFacts DEF SellerTable!TypeOK
<1>3. row \in SellerTable!Seller
      /\ \A f \in Fields \ DOMAIN sellerCalls[cl].change : row[f] = sellers[s][f]
  BY <1>2, NamedFacts
<1> HIDE DEF row
<1>4. call \in SellerTable!Call
  BY <1>2, <1>3 DEF SellerTable!Call, SellerTable!UpdateCall
<1>5. call.seller = s /\ call.change = sellerCalls[cl].change /\ call.row = row
  OBVIOUS
<1> HIDE DEF call
<1>6. SellerRowsGood /\ FieldsKept
  BY <1>1, NoSellerWritten
<1>7. SellersTyped
  BY <1>1, <1>4, <1>6 DEF SellerTable!TypeOK, SellersTyped, SellerRowsGood, SellerRowsTyped
<1>8. \A c \in Clients : Follows(c)
  BY <1>1, <1>3, <1>5 DEF SellerTable!TypeOK, Follows, SellerTable!rows
<1> QED
  BY <1>6, <1>7, <1>8 DEF SellersEffect, SellerRowsGood

LEMMA ContinueIsEffect ==
  ASSUME SellersInv, NEW cl \in Clients, SellerTable!Continue(cl) PROVE SellersEffect
<1>1. CASE SellerTable!Insert(cl)
  BY <1>1, InsertRowFacts, GoToIsEffect
     DEF SellerTable!Insert, SellerTable!At
<1>2. CASE SellerTable!Delete(cl)
  BY <1>2, DeleteRowFacts, GoToIsEffect
     DEF SellerTable!Delete, SellerTable!At
<1>3. CASE SellerTable!Write(cl)
  BY <1>3, WriteIsEffect DEF SellerTable!Write, SellersInv, SellerTable!TypeOK
<1>4. CASE SellerTable!Commit(cl) \/ SellerTable!Vanished(cl) \/ SellerTable!Count(cl)
  BY <1>4, NoSellerWritten, ReturnIsEffect
     DEF SellerTable!Commit, SellerTable!Vanished, SellerTable!Count, SellerTable!Return,
         SellersInv, SellerTable!TypeOK
<1>5. CASE SellerTable!LateStatement(cl)
  BY <1>5, InsertRowFacts, DeleteRowFacts, ReturnIsEffect
     DEF SellerTable!LateStatement, SellerTable!Return, SellersInv, SellerTable!TypeOK
<1> QED
  BY <1>1, <1>2, <1>3, <1>4, <1>5, BeginIsEffect, LookUpIsEffect, ReadRowIsEffect
     DEF SellerTable!Continue

LEMMA TimeOutIsEffect ==
  ASSUME SellersInv, NEW cl \in Clients, SellerTable!TimeOut(cl) PROVE SellersEffect
<1>1. SellerRowsGood /\ FieldsKept /\ UNCHANGED <<sellerMade, sellerFaults>>
  BY NoSellerWritten DEF SellerTable!TimeOut
<1>2. CASE SellerTable!Return(cl)
  BY <1>1, <1>2, ReturnIsEffect DEF SellerTable!Return, SellersInv, SellerTable!TypeOK
<1>3. CASE ~SellerTable!Return(cl)
  BY <1>1, <1>3, GoToIsEffect DEF SellerTable!TimeOut, SellerTable!At
<1> QED
  BY <1>2, <1>3

LEMMA StatementFailsIsEffect ==
  ASSUME SellersBounds, SellersInv, NEW cl \in Clients, SellerTable!StatementFails(cl)
  PROVE  SellersEffect
<1>1. sellerCalls' = [sellerCalls EXCEPT ![cl] = SellerTable!IdleCall]
      /\ sellerMade' = sellerMade /\ sellerFaults' \in Nat
  BY DEF SellerTable!StatementFails, SellerTable!Fault, SellersInv, SellerTable!TypeOK
<1>2. CASE UNCHANGED SellerTable!rows /\ overtaken' = overtaken \ {cl}
  BY <1>1, <1>2, NoSellerWritten, ReturnIsEffect
<1>3. CASE SellerTable!InsertRow(cl) /\ overtaken' = overtaken \ {cl}
  BY <1>1, <1>3, InsertRowFacts, ReturnIsEffect
<1>4. CASE SellerTable!DeleteRow(cl) /\ overtaken' = overtaken \ {cl}
  BY <1>1, <1>4, DeleteRowFacts, ReturnIsEffect
<1>5. CASE SellerTable!WriteRow(cl)
      /\ overtaken' = (overtaken \ {cl}) \cup SellerTable!Overtakes(cl)
  BY <1>1, <1>5, WriteIsEffect
<1> QED
  BY <1>2, <1>3, <1>4, <1>5 DEF SellerTable!StatementFails

LEMMA CrashIsEffect == ASSUME SellersInv, SellerTable!Crash PROVE SellersEffect
<1>1. SellerTable!TypeOK /\ UNCHANGED <<SellerTable!rows, sellerMade>>
      /\ sellerCalls' = [cl \in Clients |-> SellerTable!IdleCall]
      /\ overtaken' = {} /\ sellerFaults' \in Nat
  BY DEF SellersInv, SellerTable!TypeOK, SellerTable!Crash, SellerTable!Fault
<1>2. SellerTable!IdleCall \in SellerTable!Call /\ SellerTable!IdleCall.step = "idle"
  BY DEF SellerTable!Call, SellerTable!IdleCall
<1>3. SellerRowsGood /\ FieldsKept
  BY <1>1, NoSellerWritten
<1>4. SellersTyped
  BY <1>1, <1>2, <1>3 DEF SellerTable!TypeOK, SellersTyped, SellerRowsGood, SellerRowsTyped
<1>5. \A c \in Clients : Follows(c)
  BY <1>1, <1>2 DEF Follows
<1> QED
  BY <1>3, <1>4, <1>5 DEF SellersEffect, SellerRowsGood

LEMMA SellersNextIsEffect ==
  ASSUME SellersBounds, SellersInv, SellerTable!Next PROVE SellersEffect
BY StartCallIsEffect, ContinueIsEffect, TimeOutIsEffect, StatementFailsIsEffect, CrashIsEffect
   DEF SellerTable!Next

LEMMA SellersInit == ASSUME SellersBounds PROVE SellerTable!Init => SellersInv
<1> SUFFICES ASSUME SellerTable!Init PROVE SellersInv
  OBVIOUS
<1>1. PICK S \in SUBSET Sellers : sellers \in [S -> SellerTable!Seller]
  BY DEF SellerTable!Init
<1>2. SellerTable!IdleCall \in SellerTable!Call /\ SellerTable!IdleCall.step = "idle"
  BY DEF SellerTable!Call, SellerTable!IdleCall
<1>3. SellerTable!TypeOK
  BY <1>1, <1>2 DEF SellerTable!Init, SellerTable!TypeOK
<1> QED
  BY <1>2, <1>3
     DEF SellerTable!Init, SellersInv, SellersApart, HeldIsKnown, HeldRow, SellerTable!At

LEMMA SellersEffectKeeps == ASSUME SellersInv, SellersEffect PROVE SellersInv'
<1>1. SellerTable!TypeOK' /\ SellersApart'
  BY DEF SellersEffect, SellersTyped, SellerTable!TypeOK, IdsKept, SellersApart
<1>2. HeldIsKnown'
  <2> SUFFICES ASSUME NEW cl \in Clients, sellerCalls'[cl].step = "write"
               PROVE  sellerCalls'[cl].seller \in DOMAIN sellers' \cup orphans'
    BY DEF HeldIsKnown, SellerTable!At
  <2>1. sellerCalls'[cl].seller \in DOMAIN sellers \cup orphans
    BY DEF SellersEffect, Follows, SellersInv, HeldIsKnown, SellerTable!At
  <2> QED
    BY <2>1 DEF SellersEffect, IdsKept
<1>3. HeldRow'
  <2> SUFFICES ASSUME NEW cl \in Clients, sellerCalls'[cl].step = "write",
                      sellerCalls'[cl].seller \in DOMAIN sellers', cl \notin overtaken',
                      NEW f \in Fields \ DOMAIN sellerCalls'[cl].change
               PROVE  sellerCalls'[cl].row[f] = sellers'[sellerCalls'[cl].seller][f]
    BY DEF HeldRow, SellerTable!At
  <2>1. CASE sellerCalls'[cl] = sellerCalls[cl] /\ (cl \in overtaken => cl \in overtaken')
    <3>1. sellerCalls[cl].seller \in DOMAIN sellers
      BY <2>1 DEF SellersEffect, IdsKept, SellersInv, HeldIsKnown, SellerTable!At
    <3>2. sellerCalls[cl].row[f] = sellers[sellerCalls[cl].seller][f]
      BY <2>1, <3>1 DEF SellersInv, HeldRow, SellerTable!At
    <3>3. CASE \A s \in DOMAIN sellers \cap DOMAIN sellers' : sellers'[s] = sellers[s]
      BY <2>1, <3>1, <3>2, <3>3
    <3>4. ASSUME NEW c \in Clients, Overwrites(c)
          PROVE  sellerCalls'[cl].row[f] = sellers'[sellerCalls'[cl].seller][f]
      <4>1. c # cl /\ sellerCalls[c].seller # sellerCalls[cl].seller
        BY <2>1, <3>4 DEF Overwrites, SellerTable!Overtakes, SellerTable!At
      <4>2. sellers'[sellerCalls[cl].seller] = sellers[sellerCalls[cl].seller]
        BY <3>1, <3>4, <4>1 DEF Overwrites, SellerTable!WriteRow
      <4> QED
        BY <2>1, <3>2, <4>2
    <3> QED
      BY <3>3, <3>4 DEF SellersEffect, FieldsKept
  <2> QED
    BY <2>1 DEF SellersEffect, Follows
<1> QED
  BY <1>1, <1>2, <1>3 DEF SellersInv

LEMMA SellersNextKeeps ==
  ASSUME SellersBounds PROVE SellersInv /\ [SellerTable!Next]_(SellerTable!vars) => SellersInv'
<1>1. ASSUME SellersInv, UNCHANGED SellerTable!vars PROVE SellersInv'
  BY <1>1
     DEF SellerTable!vars, SellerTable!rows, SellersInv, SellerTable!TypeOK, SellersApart,
         HeldIsKnown, HeldRow, SellerTable!At
<1> QED
  BY <1>1, SellersNextIsEffect, SellersEffectKeeps

\* The invariant of the sellers.
LEMMA SellersInvariant == Spec => []SellersInv
BY Assumed, SellersRun, SellersInit, SellersNextKeeps, PTL DEF SellerTable!Spec

-----------------------------------------------------------------------------
(***************************************************************************)
(* Categories.  At most one row passes for a category because a full row   *)
(* is only ever made by createCategory, under an id that was not used      *)
(* before: that is the extra part of the invariant, stated with the        *)
(* history of what was created.                                            *)
(***************************************************************************)
FullWasCreated ==
  \A i \in Ids : \A n \in Names :
    categoryRows[<<i, n>>] = "full" => i \in DOMAIN nameOf /\ n = nameOf[i]

CategoryInv == CategoryTable!TypeOK /\ FullWasCreated /\ CategoryTable!GhostsHaveNoCategory

\* The invariant gives what the runs check: two full rows of an id are under the
\* one name it was created with.
LEMMA CategoryFromInv == CategoryInv => CategoryTable!OneFullRowPerId
BY DEF CategoryInv, FullWasCreated, CategoryTable!OneFullRowPerId

\* The first state: the rows there are were created before.
LEMMA CategoryInit == ASSUME MaxCategoryCalls \in Nat PROVE CategoryTable!Init => CategoryInv
<1> SUFFICES ASSUME MaxCategoryCalls \in Nat, CategoryTable!Init PROVE CategoryInv
  OBVIOUS
<1>1. PICK S \in SUBSET Ids : nameOf \in [S -> Names]
  BY DEF CategoryTable!Init
<1>2. DOMAIN nameOf \subseteq Ids /\ nameOf \in [DOMAIN nameOf -> Names]
  BY <1>1
<1>3. \A i \in Ids : \A n \in Names :
        categoryRows[<<i, n>>] = IF i \in DOMAIN nameOf
          /\ n = nameOf[i] THEN "full" ELSE "absent"
  BY DEF CategoryTable!Init, CategoryTable!Key
<1>4. CategoryTable!TypeOK
  BY <1>2 DEF CategoryTable!Init, CategoryTable!TypeOK, CategoryTable!Content, CategoryTable!Key
<1>5. FullWasCreated
  BY <1>3 DEF FullWasCreated
<1>6. CategoryTable!GhostsHaveNoCategory
  BY <1>2, <1>3 DEF CategoryTable!GhostsHaveNoCategory
<1> QED
  BY <1>4, <1>5, <1>6 DEF CategoryInv

\* createCategory: the id is fresh, so no row of it was full before.
LEMMA CreateCategoryKeeps ==
  ASSUME CategoryInv, NEW i \in Ids, NEW n \in Names, CategoryTable!CreateCategory(i, n)
  PROVE  CategoryInv'
<1> DEFINE names == [j \in DOMAIN nameOf \cup {i} |-> IF j = i THEN n ELSE nameOf[j]]
<1>1. /\ i \notin DOMAIN nameOf
      /\ categoryRows' = [categoryRows EXCEPT ![<<i, n>>] = "full"]
      /\ nameOf' = names
      /\ goneCategories' = goneCategories /\ categoryMade' = categoryMade + 1
  BY DEF CategoryTable!CreateCategory, CategoryTable!CallMade
<1>2. CategoryTable!TypeOK
  BY DEF CategoryInv
<1>3. /\ categoryRows' \in [CategoryTable!Key -> CategoryTable!Content]
      /\ \A j \in Ids : \A m \in Names :
           categoryRows'[<<j, m>>] = IF j = i /\ m = n THEN "full" ELSE categoryRows[<<j, m>>]
  BY <1>1, <1>2 DEF CategoryTable!TypeOK, CategoryTable!Key, CategoryTable!Content
<1>4. /\ DOMAIN names = DOMAIN nameOf \cup {i}
      /\ names[i] = n
      /\ \A j \in DOMAIN nameOf : names[j] = nameOf[j]
  BY <1>1
<1>5. names \in [DOMAIN names -> Names] /\ DOMAIN names \subseteq Ids
  BY <1>2, <1>4 DEF CategoryTable!TypeOK
<1>6. CategoryTable!TypeOK'
  BY <1>1, <1>2, <1>3, <1>5 DEF CategoryTable!TypeOK
<1>7. FullWasCreated'
  <2> SUFFICES ASSUME NEW j \in Ids, NEW m \in Names, categoryRows'[<<j, m>>] = "full"
               PROVE  j \in DOMAIN names /\ m = names[j]
    BY <1>1 DEF FullWasCreated
  <2>1. CASE j = i /\ m = n
    BY <2>1, <1>4
  <2>2. CASE ~(j = i /\ m = n)
    <3>1. j \in DOMAIN nameOf /\ m = nameOf[j]
      BY <2>2, <1>3 DEF CategoryInv, FullWasCreated
    <3> QED
      BY <3>1, <1>4
  <2> QED
    BY <2>1, <2>2
<1>8. CategoryTable!GhostsHaveNoCategory'
  <2> SUFFICES ASSUME NEW j \in DOMAIN names, j \notin goneCategories
               PROVE  categoryRows'[<<j, names[j]>>] = "full"
    BY <1>1 DEF CategoryTable!GhostsHaveNoCategory
  <2>1. CASE j = i
    BY <2>1, <1>3, <1>4
  <2>2. CASE j # i
    <3>1. j \in DOMAIN nameOf /\ nameOf[j] \in Names /\ j \in Ids
      BY <2>2, <1>2, <1>4 DEF CategoryTable!TypeOK
    <3>2. categoryRows[<<j, nameOf[j]>>] = "full"
      BY <3>1 DEF CategoryInv, CategoryTable!GhostsHaveNoCategory
    <3> QED
      BY <2>2, <3>1, <3>2, <1>3, <1>4
  <2> QED
    BY <2>1, <2>2
<1> QED
  BY <1>6, <1>7, <1>8 DEF CategoryInv

\* updateCategory: a full row stays full, any other becomes a ghost.
LEMMA UpdateCategoryKeeps ==
  ASSUME CategoryInv, NEW i \in Ids, NEW n \in Names, CategoryTable!UpdateCategory(i, n)
  PROVE  CategoryInv'
<1> DEFINE content == CategoryTable!SetFields(categoryRows[<<i, n>>])
<1>1. /\ categoryRows' = [categoryRows EXCEPT ![<<i, n>>] = content]
      /\ nameOf' = nameOf /\ goneCategories' = goneCategories
         /\ categoryMade' = categoryMade + 1
  BY DEF CategoryTable!UpdateCategory, CategoryTable!CallMade
<1>2. CategoryTable!TypeOK
  BY DEF CategoryInv
<1>3. content \in CategoryTable!Content /\ (content = "full" <=> categoryRows[<<i,
      n>>] = "full")
  BY DEF CategoryTable!SetFields, CategoryTable!Content
<1>4. /\ categoryRows' \in [CategoryTable!Key -> CategoryTable!Content]
      /\ \A j \in Ids : \A m \in Names :
           categoryRows'[<<j, m>>] = IF j = i /\ m = n THEN content ELSE categoryRows[<<j, m>>]
  <2> HIDE DEF content
  <2> QED
    BY <1>1, <1>2, <1>3 DEF CategoryTable!TypeOK, CategoryTable!Key
<1>5. \A j \in Ids : \A m \in Names : categoryRows'[<<j, m>>] = "full" <=> categoryRows[<<j,
      m>>] = "full"
  BY <1>3, <1>4
<1>6. CategoryTable!TypeOK'
  BY <1>1, <1>2, <1>4 DEF CategoryTable!TypeOK
<1>7. FullWasCreated'
  BY <1>1, <1>5 DEF CategoryInv, FullWasCreated
<1>8. CategoryTable!GhostsHaveNoCategory'
  <2> SUFFICES ASSUME NEW j \in DOMAIN nameOf, j \notin goneCategories
               PROVE  categoryRows'[<<j, nameOf[j]>>] = "full"
    BY <1>1 DEF CategoryTable!GhostsHaveNoCategory
  <2>1. j \in Ids /\ nameOf[j] \in Names
    BY <1>2 DEF CategoryTable!TypeOK
  <2> QED
    BY <2>1, <1>5 DEF CategoryInv, CategoryTable!GhostsHaveNoCategory
<1> QED
  BY <1>6, <1>7, <1>8 DEF CategoryInv

\* deleteCategory: the full row that goes takes its category with it.
LEMMA DeleteCategoryKeeps ==
  ASSUME CategoryInv, NEW i \in Ids, NEW n \in Names, CategoryTable!DeleteCategory(i, n)
  PROVE  CategoryInv'
<1>1. /\ categoryRows' = [categoryRows EXCEPT ![<<i, n>>] = "absent"]
      /\ goneCategories' = IF categoryRows[<<i,
         n>>] = "full" THEN goneCategories \cup {i} ELSE goneCategories
      /\ nameOf' = nameOf /\ categoryMade' = categoryMade + 1
  BY DEF CategoryTable!DeleteCategory, CategoryTable!CallMade
<1>2. CategoryTable!TypeOK
  BY DEF CategoryInv
<1>3. /\ categoryRows' \in [CategoryTable!Key -> CategoryTable!Content]
      /\ \A j \in Ids : \A m \in Names :
           categoryRows'[<<j, m>>] = IF j = i /\ m = n THEN "absent" ELSE categoryRows[<<j, m>>]
  BY <1>1, <1>2 DEF CategoryTable!TypeOK, CategoryTable!Key, CategoryTable!Content
<1>4. CategoryTable!TypeOK'
  BY <1>1, <1>2, <1>3 DEF CategoryTable!TypeOK
<1>5. FullWasCreated'
  BY <1>1, <1>3 DEF CategoryInv, FullWasCreated
<1>6. CategoryTable!GhostsHaveNoCategory'
  <2> SUFFICES ASSUME NEW j \in DOMAIN nameOf, j \notin goneCategories'
               PROVE  categoryRows'[<<j, nameOf[j]>>] = "full"
    BY <1>1 DEF CategoryTable!GhostsHaveNoCategory
  <2>1. j \in Ids /\ nameOf[j] \in Names /\ j \notin goneCategories
    BY <1>1, <1>2 DEF CategoryTable!TypeOK
  <2>2. categoryRows[<<j, nameOf[j]>>] = "full"
    BY <2>1 DEF CategoryInv, CategoryTable!GhostsHaveNoCategory
  <2>3. ~(j = i /\ nameOf[j] = n)
    BY <1>1, <2>2
  <2> QED
    BY <2>1, <2>2, <2>3, <1>3
<1> QED
  BY <1>4, <1>5, <1>6 DEF CategoryInv

LEMMA CategoryNextKeeps ==
  CategoryInv /\ [CategoryTable!Next]_(CategoryTable!vars) => CategoryInv'
<1> SUFFICES ASSUME CategoryInv, [CategoryTable!Next]_(CategoryTable!vars) PROVE CategoryInv'
  OBVIOUS
<1>1. CASE UNCHANGED CategoryTable!vars
  BY <1>1
     DEF CategoryTable!vars, CategoryInv, CategoryTable!TypeOK, FullWasCreated,
         CategoryTable!GhostsHaveNoCategory
<1>2. CASE CategoryTable!Next
  BY <1>2, CreateCategoryKeeps, UpdateCategoryKeeps, DeleteCategoryKeeps DEF CategoryTable!Next
<1> QED
  BY <1>1, <1>2

\* The invariant of the categories.
LEMMA CategoriesInvariant == Spec => []CategoryInv
BY Assumed, CategoriesRun, CategoryInit, CategoryNextKeeps, PTL DEF CategoryTable!Spec

-----------------------------------------------------------------------------
(***************************************************************************)
(* Products.  That the answers to batches are true needs that chunkArray   *)
(* loses nothing of a list (ChunksCover) and, of a list of deletions in    *)
(* progress, that what it names and still has a row is in a batch it has   *)
(* left, or was skipped (NamedIsLeft).                                     *)
(***************************************************************************)
\* The chunk a place of the list falls into, and that there are so many chunks.
LEMMA ChunkOfPlace ==
  ASSUME NEW n \in Nat, NEW size \in Nat \ {0}, NEW p \in 1..n
  PROVE  \E i \in 1..((n + size - 1) \div size) :
           p \in ((i - 1) * size + 1)..ProductTable!Smaller(i * size, n)
<1> DEFINE q == (p - 1) \div size
<1>1. q \in Nat /\ q * size <= p - 1 /\ p - 1 < (q + 1) * size
  OBVIOUS
<1>2. (q + 1) * size = q * size + size
  BY <1>1
<1>3. (q + 1) * size <= n + size - 1
  BY <1>1, <1>2
<1>4. q + 1 <= (n + size - 1) \div size
  <2> DEFINE r == (n + size - 1) \div size
  <2>1. r \in Nat /\ n + size - 1 < (r + 1) * size
    OBVIOUS
  <2>2. (q + 1) * size < (r + 1) * size
    BY <1>1, <1>3, <2>1
  <2>3. q + 1 < r + 1
    BY <1>1, <2>1, <2>2
  <2> QED
    BY <1>1, <2>1, <2>3
<1>5. (q + 1 - 1) * size + 1 <= p /\ p <= (q + 1) * size
  BY <1>1
<1> WITNESS q + 1 \in 1..((n + size - 1) \div size)
<1> QED
  BY <1>1, <1>5 DEF ProductTable!Smaller

\* An element that is in one of a list's batches.
In(k, list) == \E i \in DOMAIN list : k \in ProductTable!Elements(list[i])

\* Every chunk is a list of the same kind, and no element is lost.
LEMMA ChunksCover ==
  ASSUME NEW S, NEW array \in Seq(S), NEW size \in Nat \ {0}
  PROVE  /\ ProductTable!chunkArray(array, size) \in Seq(Seq(S))
         /\ \A k \in ProductTable!Elements(array) : In(k, ProductTable!chunkArray(array, size))
<1> DEFINE n == (Len(array) + size - 1) \div size
           low(i) == (i - 1) * size + 1
           high(i) == ProductTable!Smaller(i * size, Len(array))
           chunk(i) == SubSeq(array, low(i), high(i))
<1>1. Len(array) \in Nat /\ DOMAIN array = 1..Len(array)
      /\ \A p \in 1..Len(array) : array[p] \in S
  BY LenProperties, ElementOfSeq
<1>2. n \in Nat
  BY <1>1
<1>3. ASSUME NEW i \in 1..n
      PROVE  /\ low(i) \in Nat \ {0} /\ high(i) \in Int /\ high(i) <= Len(array)
             /\ chunk(i) \in Seq(S)
             /\ \A p \in low(i)..high(i) : array[p] \in ProductTable!Elements(chunk(i))
  <2>1. (i - 1) * size \in Nat /\ i * size \in Nat
    BY <1>2
  <2>2. low(i) \in Nat \ {0} /\ high(i) \in Int /\ high(i) <= Len(array)
    BY <1>1, <2>1 DEF ProductTable!Smaller
  <2> HIDE DEF low, high
  <2>3. \A p \in low(i)..high(i) : array[p] \in S
    BY <1>1, <2>2
  <2>4. /\ chunk(i) \in Seq(S)
        /\ Len(chunk(i)) = IF low(i) <= high(i) THEN high(i) - low(i) + 1 ELSE 0
        /\ \A j \in 1..(high(i) - low(i) + 1) : chunk(i)[j] = array[low(i) + j - 1]
    BY <2>2, <2>3, SubSeqProperties
  <2> HIDE DEF chunk
  <2>5. ASSUME NEW p \in low(i)..high(i) PROVE array[p] \in ProductTable!Elements(chunk(i))
    <3>1. p - low(i) + 1 \in 1..(high(i) - low(i) + 1) /\ low(i) <= high(i)
      BY <2>2
    <3>2. p - low(i) + 1 \in DOMAIN chunk(i)
      BY <2>4, <3>1, LenProperties
    <3>3. chunk(i)[p - low(i) + 1] = array[p]
      BY <2>2, <2>4, <3>1
    <3> QED
      BY <3>2, <3>3 DEF ProductTable!Elements
  <2> QED
    BY <2>2, <2>4, <2>5
<1>4. ProductTable!chunkArray(array, size) = [i \in 1..n |-> chunk(i)]
  BY DEF ProductTable!chunkArray
<1> HIDE DEF n, low, high, chunk
<1>5. ProductTable!chunkArray(array, size) \in [1..n -> Seq(S)]
  BY <1>3, <1>4
<1>6. ProductTable!chunkArray(array, size) \in Seq(Seq(S))
  BY <1>2, <1>5, SeqDef
<1>7. ASSUME NEW k \in ProductTable!Elements(array) PROVE In(k, ProductTable!chunkArray(array,
             size))
  <2>1. PICK p \in 1..Len(array) : array[p] = k
    BY <1>1 DEF ProductTable!Elements
  <2>2. PICK i \in 1..n : p \in low(i)..high(i)
    BY <1>1, ChunkOfPlace DEF n, low, high
  <2>3. k \in ProductTable!Elements(chunk(i))
    BY <1>3, <2>1, <2>2
  <2>4. i \in DOMAIN ProductTable!chunkArray(array, size) /\ ProductTable!chunkArray(array,
        size)[i] = chunk(i)
    BY <1>4
  <2> QED
    BY <2>3, <2>4 DEF In
<1> QED
  BY <1>6, <1>7

\* What is in a list of batches is in its head or in its tail.
LEMMA HeadOrTail ==
  ASSUME NEW S, NEW list \in Seq(Seq(S)), list # <<>>
  PROVE  /\ Head(list) \in Seq(S) /\ Tail(list) \in Seq(Seq(S))
         /\ \A k : In(k, list) => k \in ProductTable!Elements(Head(list)) \/ In(k, Tail(list))
<1>1. /\ Head(list) \in Seq(S) /\ Tail(list) \in Seq(Seq(S))
      /\ Len(Tail(list)) = Len(list) - 1
      /\ \A i \in 1..Len(Tail(list)) : Tail(list)[i] = list[i + 1]
  BY HeadTailProperties
<1>2. /\ Len(list) \in Nat /\ DOMAIN list = 1..Len(list)
      /\ DOMAIN Tail(list) = 1..Len(Tail(list))
  BY <1>1, LenProperties
<1>3. Head(list) = list[1]
  OBVIOUS
<1>4. ASSUME NEW k, In(k, list), k \notin ProductTable!Elements(Head(list)) PROVE In(k,
             Tail(list))
  <2>1. PICK i \in 1..Len(list) : k \in ProductTable!Elements(list[i])
    BY <1>2, <1>4 DEF In
  <2>2. i # 1
    BY <1>3, <1>4, <2>1
  <2>3. i - 1 \in 1..Len(Tail(list)) /\ Tail(list)[i - 1] = list[i]
    BY <1>1, <1>2, <2>2
  <2> QED
    BY <1>2, <2>1, <2>3 DEF In
<1> QED
  BY <1>1, <1>4

\* The elements of a list are of its kind.
LEMMA ElementsFacts ==
  ASSUME NEW S, NEW list \in Seq(S) PROVE ProductTable!Elements(list) \subseteq S
BY LenProperties, ElementOfSeq DEF ProductTable!Elements

Ever == ProductTable!Stored \cup goneProducts

AnswersKnown ==
  /\ \A cl \in Deleters : \A k \in named[cl] : k[1] \in Ever
  /\ \A k \in confirmed : k[1] \in Ever

NamedIsLeft ==
  \A cl \in Deleters : \A k \in named[cl] \cap productRows : k \in skipped \/ In(k, batches[cl])

ProductInv == ProductTable!TypeOK /\ ProductTable!OneRowPerId /\ AnswersKnown /\ NamedIsLeft
  /\ ProductTable!BatchAnswersAreTrue

\* What every step does to the rows: an id that was ever used gets no new row.
RowsStep ==
  /\ productRows' \subseteq ProductTable!Key /\ goneProducts' \subseteq Products
  /\ ProductTable!OneRowPerId'
  /\ Ever \subseteq Ever'
  /\ \A k \in productRows' : k \in productRows \/ k[1] \notin Ever

LEMMA NothingChanged ==
  ASSUME ProductInv, UNCHANGED <<productRows, goneProducts>> PROVE RowsStep
BY
   DEF ProductInv, ProductTable!TypeOK, ProductTable!OneRowPerId, RowsStep, Ever,
       ProductTable!Stored

LEMMA RowsAdded ==
  ASSUME ProductInv, NEW new \in SUBSET ProductTable!Key,
         \A k \in new : k[1] \in ProductTable!Fresh,
         \A k, l \in new : k[1] = l[1] => k = l,
         productRows' = productRows \cup new, goneProducts' = goneProducts
  PROVE  RowsStep
<1>1. ProductTable!TypeOK /\ ProductTable!OneRowPerId
  BY DEF ProductInv
<1>2. \A k \in new : \A l \in productRows : k[1] # l[1]
  BY DEF ProductTable!Fresh, ProductTable!Stored
<1>3. ProductTable!OneRowPerId'
  BY <1>1, <1>2 DEF ProductTable!OneRowPerId
<1>4. Ever \subseteq Ever'
  BY DEF Ever, ProductTable!Stored
<1>5. \A k \in new : k[1] \notin Ever
  BY DEF ProductTable!Fresh, Ever
<1> QED
  BY <1>1, <1>3, <1>4, <1>5 DEF RowsStep, ProductTable!TypeOK

LEMMA RowsTaken == ASSUME ProductInv, NEW keys, ProductTable!Without(keys) PROVE RowsStep
<1>1. /\ ProductTable!TypeOK /\ ProductTable!OneRowPerId
      /\ productRows' = productRows \ keys
         /\ goneProducts' = goneProducts \cup {k[1] : k \in keys \cap productRows}
  BY DEF ProductInv, ProductTable!Without
<1>2. productRows' \subseteq ProductTable!Key /\ ProductTable!OneRowPerId'
  BY <1>1 DEF ProductTable!TypeOK, ProductTable!OneRowPerId
<1>3. goneProducts' \subseteq Products
  BY <1>1 DEF ProductTable!TypeOK, ProductTable!Key
<1>4. Ever \subseteq Ever'
  <2> SUFFICES ASSUME NEW p \in Ever PROVE p \in Ever'
    OBVIOUS
  <2>1. CASE p \in goneProducts
    BY <1>1, <2>1 DEF Ever
  <2>2. ASSUME NEW k \in productRows, k[1] = p PROVE p \in Ever'
    BY <1>1, <2>2 DEF Ever, ProductTable!Stored
  <2> QED
    BY <2>1, <2>2 DEF Ever, ProductTable!Stored
<1> QED
  BY <1>1, <1>2, <1>3, <1>4 DEF RowsStep

\* What is left to show of a step once it is known what it does to the rows.
LEMMA ProductStepKeeps ==
  ASSUME ProductInv, RowsStep,
         batches' \in [Deleters -> Seq(Seq(ProductTable!Key))],
           named' \in [Deleters -> SUBSET ProductTable!Key],
         skipped \subseteq skipped', skipped' \subseteq ProductTable!Key,
           confirmed' \subseteq ProductTable!Key,
         reported' \subseteq Products, reported' \subseteq Ever', productMade' \in Nat,
         \A cl \in Deleters : \A k \in named'[cl] :
           k[1] \in Ever /\ (k \in productRows' => k \in skipped' \/ In(k, batches'[cl])),
         \A k \in confirmed' : k[1] \in Ever /\ (k \in productRows' => k \in skipped')
  PROVE  ProductInv'
<1>1. ProductTable!TypeOK'
  BY DEF RowsStep, ProductTable!TypeOK, ProductInv
<1>2. AnswersKnown'
  BY DEF RowsStep, AnswersKnown
<1>3. NamedIsLeft'
  BY DEF NamedIsLeft
<1>4. ProductTable!BatchAnswersAreTrue'
  BY DEF ProductTable!BatchAnswersAreTrue, Ever
<1> QED
  BY <1>1, <1>2, <1>3, <1>4 DEF ProductInv, RowsStep

\* What was named or confirmed before is, after a step on the rows, no worse off.
LEMMA OldNames ==
  ASSUME ProductInv, RowsStep
  PROVE  /\ \A cl \in Deleters : \A k \in named[cl] :
              k[1] \in Ever /\ (k \in productRows' => k \in skipped \/ In(k, batches[cl]))
         /\ \A k \in confirmed : k[1] \in Ever /\ (k \in productRows' => k \in skipped)
         /\ reported \subseteq Ever'
BY DEF ProductInv, RowsStep, AnswersKnown, NamedIsLeft, ProductTable!BatchAnswersAreTrue, Ever

\* A step that has nothing to do with the lists of deletions.
LEMMA UnlistedKeeps ==
  ASSUME ProductInv, RowsStep, UNCHANGED <<batches, named, confirmed, skipped>>,
         reported' \subseteq Products, reported' \subseteq Ever', productMade' \in Nat
  PROVE  ProductInv'
<1>1. ProductTable!TypeOK
  BY DEF ProductInv
<1> QED
  BY <1>1, OldNames, ProductStepKeeps DEF ProductTable!TypeOK

LEMMA CreateProductKeeps ==
  ASSUME ProductBounds, ProductInv, NEW p \in Products, NEW c \in Names,
         ProductTable!CreateProduct(p, c)
  PROVE  ProductInv'
<1>1. ProductTable!TypeOK /\ p \in ProductTable!Fresh /\ productRows' = productRows \cup {<<p,
      c>>} /\ goneProducts' = goneProducts
      /\ UNCHANGED <<batches, named, confirmed, skipped, reported>> /\ productMade' \in Nat
  BY
     DEF ProductInv, ProductTable!TypeOK, ProductTable!CreateProduct, ProductTable!CallMade,
         ProductTable!histories
<1>2. /\ {<<p, c>>} \in SUBSET ProductTable!Key
      /\ \A k \in {<<p, c>>} : k[1] \in ProductTable!Fresh
      /\ \A k, l \in {<<p, c>>} : k[1] = l[1] => k = l
  BY <1>1 DEF ProductTable!Key
<1>3. RowsStep
  BY <1>1, <1>2, RowsAdded
<1>4. reported' \subseteq Products /\ reported' \subseteq Ever'
  BY <1>1, <1>3, OldNames DEF ProductTable!TypeOK
<1> QED
  BY <1>1, <1>3, <1>4, UnlistedKeeps

\* The rows of a batch of new products, whichever of them were stored.
LEMMA BatchStored ==
  ASSUME ProductInv, NEW S \in SUBSET Products, NEW f \in [S -> Names],
         ProductTable!Sendable(f),
         NEW stored \in SUBSET DOMAIN f,
         productRows' = productRows \cup {<<p, f[p]>> : p \in stored},
           goneProducts' = goneProducts
  PROVE  RowsStep /\ stored \subseteq Ever'
<1> DEFINE new == {<<p, f[p]>> : p \in stored}
<1>1. DOMAIN f = S /\ S \subseteq ProductTable!Fresh /\ \A p \in S : f[p] \in Names
  BY DEF ProductTable!Sendable
<1>2. new \in SUBSET ProductTable!Key
  BY <1>1 DEF ProductTable!Key
<1>3. \A k \in new : k[1] \in ProductTable!Fresh
  BY <1>1
<1>4. \A k, l \in new : k[1] = l[1] => k = l
  OBVIOUS
<1>5. ASSUME NEW p \in stored PROVE \E k \in new : k[1] = p
  <2>1. <<p, f[p]>> \in new /\ <<p, f[p]>>[1] = p
    OBVIOUS
  <2> QED
    BY <2>1
<1>6. productRows' = productRows \cup new
  OBVIOUS
<1> HIDE DEF new
<1>7. RowsStep
  BY <1>2, <1>3, <1>4, <1>6, RowsAdded
<1>8. stored \subseteq Ever'
  BY <1>5, <1>6 DEF Ever, ProductTable!Stored
<1> QED
  BY <1>7, <1>8

LEMMA CreateProductsKeeps ==
  ASSUME ProductBounds, ProductInv, NEW S \in SUBSET Products, NEW f \in [S -> Names],
         ProductTable!CreateProducts(f) \/ ProductTable!CreateProductsFails(f)
  PROVE  ProductInv'
<1>1. ProductTable!TypeOK /\ ProductTable!Sendable(f) /\ goneProducts' = goneProducts
      /\ UNCHANGED <<batches, named, confirmed, skipped>> /\ productMade' \in Nat
  BY
     DEF ProductInv, ProductTable!TypeOK, ProductTable!CreateProducts,
         ProductTable!CreateProductsFails, ProductTable!CallMade, ProductTable!histories
<1>2. DOMAIN f \subseteq Products
  OBVIOUS
<1>3. ASSUME NEW stored \in SUBSET DOMAIN f,
             productRows' = productRows \cup {<<p, f[p]>> : p \in stored},
             reported' \subseteq reported \cup stored
      PROVE  ProductInv'
  <2>1. RowsStep /\ stored \subseteq Ever'
    BY <1>1, <1>3, BatchStored
  <2>2. reported' \subseteq Products /\ reported' \subseteq Ever'
    BY <1>1, <1>2, <1>3, <2>1, OldNames DEF ProductTable!TypeOK
  <2> QED
    BY <1>1, <2>1, <2>2, UnlistedKeeps
<1>4. CASE ProductTable!CreateProducts(f)
  <2>1. PICK unprocessed \in SUBSET DOMAIN f :
          /\ productRows' = productRows \cup {<<p, f[p]>> : p \in DOMAIN f \ unprocessed}
          /\ reported' = reported \cup (DOMAIN f \ unprocessed)
    BY <1>4 DEF ProductTable!CreateProducts, ProductTable!Processed
  <2> QED
    BY <1>3, <2>1
<1>5. CASE ProductTable!CreateProductsFails(f)
  BY <1>3, <1>5 DEF ProductTable!CreateProductsFails, ProductTable!histories
<1> QED
  BY <1>4, <1>5

LEMMA UpdateOrDeleteKeeps ==
  ASSUME ProductBounds, ProductInv, NEW k, ProductTable!UpdateProduct(k)
         \/ ProductTable!DeleteProduct(k)
  PROVE  ProductInv'
<1>1. ProductTable!TypeOK /\ UNCHANGED <<batches, named, confirmed, skipped, reported>>
      /\ productMade' \in Nat
  BY
     DEF ProductInv, ProductTable!TypeOK, ProductTable!UpdateProduct,
         ProductTable!DeleteProduct, ProductTable!CallMade, ProductTable!histories
<1>2. RowsStep
  BY NothingChanged, RowsTaken
     DEF ProductTable!UpdateProduct, ProductTable!Updated, ProductTable!DeleteProduct,
         ProductTable!histories
<1>3. reported' \subseteq Products /\ reported' \subseteq Ever'
  BY <1>1, <1>2, OldNames DEF ProductTable!TypeOK
<1> QED
  BY <1>1, <1>2, <1>3, UnlistedKeeps

\* Clients name keys of products that there are or were.
LEMMA ListFacts ==
  ASSUME ProductInv, NEW list \in ProductTable!List
  PROVE  list \in Seq(ProductTable!Key)
         /\ \A k \in ProductTable!Elements(list) : k \in ProductTable!Key /\ k[1] \in Ever
<1>1. ProductTable!Known \subseteq ProductTable!Key
      /\ \A k \in ProductTable!Known : k[1] \in Ever
  BY
     DEF ProductInv, ProductTable!TypeOK, ProductTable!Known, ProductTable!Key,
         ProductTable!Stored, Ever
<1>2. PICK n \in 0..MaxList : list \in [1..n -> ProductTable!Known]
  BY DEF ProductTable!List
<1>3. list \in Seq(ProductTable!Known)
  BY <1>2, SeqDef
<1>4. list \in Seq(ProductTable!Key) /\ ProductTable!Elements(list) \subseteq ProductTable!Known
  BY <1>1, <1>3, SeqMonotonic, ElementsFacts
<1> QED
  BY <1>1, <1>4

\* Every key the list names is in one of the chunks it is cut into.
LEMMA DeleteProductsKeeps ==
  ASSUME ProductBounds, ProductInv, NEW cl \in Deleters, NEW list \in ProductTable!List,
         ProductTable!DeleteProducts(cl, list)
  PROVE  ProductInv'
<1> DEFINE chunks == ProductTable!chunkArray(list, BatchLimit)
<1>1. ProductTable!TypeOK /\ batches' = [batches EXCEPT ![cl] = chunks]
      /\ named' = [named EXCEPT ![cl] = ProductTable!Elements(list)]
      /\ UNCHANGED <<productRows, goneProducts, reported, confirmed, skipped>>
         /\ productMade' \in Nat
  BY
     DEF ProductInv, ProductTable!TypeOK, ProductTable!DeleteProducts, ProductTable!CallMade,
         ProductTable!histories
<1>2. list \in Seq(ProductTable!Key)
      /\ \A k \in ProductTable!Elements(list) : k \in ProductTable!Key /\ k[1] \in Ever
  BY ListFacts
<1>3. chunks \in Seq(Seq(ProductTable!Key)) /\ \A k \in ProductTable!Elements(list) : In(k,
      chunks)
  BY <1>2, ChunksCover DEF ProductBounds
<1> HIDE DEF chunks
<1>4. RowsStep
  BY <1>1, NothingChanged
<1>5. batches' \in [Deleters -> Seq(Seq(ProductTable!Key))]
      /\ named' \in [Deleters -> SUBSET ProductTable!Key]
  BY <1>1, <1>2, <1>3 DEF ProductTable!TypeOK
<1>6. \A d \in Deleters : \A k \in named'[d] :
        k[1] \in Ever /\ (k \in productRows' => k \in skipped' \/ In(k, batches'[d]))
  BY <1>1, <1>2, <1>3, <1>4, OldNames DEF ProductTable!TypeOK
<1>7. \A k \in confirmed' : k[1] \in Ever /\ (k \in productRows' => k \in skipped')
  BY <1>1, <1>4, OldNames
<1>8. reported' \subseteq Products /\ reported' \subseteq Ever'
  BY <1>1, <1>4, OldNames DEF ProductTable!TypeOK
<1> QED
  BY <1>1, <1>4, <1>5, <1>6, <1>7, <1>8, ProductStepKeeps DEF ProductTable!TypeOK

\* What the batch names is gone or skipped, and the other batches are still there.
LEMMA DeleteBatchKeeps ==
  ASSUME ProductBounds, ProductInv, NEW cl \in Deleters, ProductTable!DeleteBatch(cl)
  PROVE  ProductInv'
<1> DEFINE batch == Head(batches[cl])
<1>1. ProductTable!TypeOK /\ batches[cl] # <<>> /\ batches' = [batches EXCEPT ![cl] = Tail(@)]
      /\ UNCHANGED <<named, reported, confirmed>> /\ productMade' \in Nat
  BY DEF ProductInv, ProductTable!TypeOK, ProductTable!DeleteBatch
<1>2. PICK unprocessed \in SUBSET ProductTable!Elements(batch) :
        ProductTable!Without(ProductTable!Elements(batch) \ unprocessed)
          /\ skipped' = skipped \cup unprocessed
  BY DEF ProductTable!DeleteBatch
<1>3. batches[cl] \in Seq(Seq(ProductTable!Key))
  BY <1>1 DEF ProductTable!TypeOK
<1>4. /\ batch \in Seq(ProductTable!Key) /\ Tail(batches[cl]) \in Seq(Seq(ProductTable!Key))
      /\ \A k : In(k, batches[cl]) => k \in ProductTable!Elements(batch) \/ In(k,
         Tail(batches[cl]))
  BY <1>1, <1>3, HeadOrTail
<1>5. ProductTable!Elements(batch) \subseteq ProductTable!Key
  BY <1>4, ElementsFacts
<1> HIDE DEF batch
<1>6. RowsStep /\ productRows' \cap ProductTable!Elements(batch) \subseteq unprocessed
  BY <1>2, RowsTaken DEF ProductTable!Without
<1>7. /\ batches' \in [Deleters -> Seq(Seq(ProductTable!Key))]
      /\ batches'[cl] = Tail(batches[cl])
      /\ \A d \in Deleters \ {cl} : batches'[d] = batches[d]
  BY <1>1, <1>4 DEF ProductTable!TypeOK
<1>8. ASSUME NEW d \in Deleters, NEW k \in named'[d]
      PROVE  k[1] \in Ever /\ (k \in productRows' => k \in skipped' \/ In(k, batches'[d]))
  <2>1. k[1] \in Ever /\ (k \in productRows' => k \in skipped \/ In(k, batches[d]))
    BY <1>1, <1>6, <1>8, OldNames
  <2>2. CASE d = cl
    BY <1>2, <1>4, <1>6, <1>7, <2>1, <2>2
  <2>3. CASE d # cl
    BY <1>2, <1>7, <2>1, <2>3
  <2> QED
    BY <2>2, <2>3
<1>9. \A k \in confirmed' : k[1] \in Ever /\ (k \in productRows' => k \in skipped')
  BY <1>1, <1>2, <1>6, OldNames
<1>10. reported' \subseteq Products /\ reported' \subseteq Ever'
  BY <1>1, <1>6, OldNames DEF ProductTable!TypeOK
<1>11. skipped \subseteq skipped' /\ skipped' \subseteq ProductTable!Key
  BY <1>1, <1>2, <1>5 DEF ProductTable!TypeOK
<1> QED
  BY <1>1, <1>6, <1>7, <1>8, <1>9, <1>10, <1>11, ProductStepKeeps DEF ProductTable!TypeOK

\* With no batch left, what was named and has a row was skipped.
LEMMA ConfirmDeletionKeeps ==
  ASSUME ProductBounds, ProductInv, NEW cl \in Deleters, ProductTable!ConfirmDeletion(cl)
  PROVE  ProductInv'
<1>1. ProductTable!TypeOK /\ batches[cl] = <<>> /\ confirmed' = confirmed \cup named[cl]
      /\ named' = [named EXCEPT ![cl] = {}]
      /\ UNCHANGED <<productRows, batches, goneProducts, reported, skipped, productMade>>
  BY DEF ProductInv, ProductTable!ConfirmDeletion
<1>2. RowsStep
  BY <1>1, NothingChanged
<1>3. \A k : ~In(k, batches[cl])
  BY <1>1 DEF In
<1>4. named' \in [Deleters -> SUBSET ProductTable!Key] /\ confirmed' \subseteq ProductTable!Key
  BY <1>1 DEF ProductTable!TypeOK
<1>5. \A d \in Deleters : \A k \in named'[d] :
        k[1] \in Ever /\ (k \in productRows' => k \in skipped' \/ In(k, batches'[d]))
  BY <1>1, <1>2, OldNames DEF ProductTable!TypeOK
<1>6. \A k \in confirmed' : k[1] \in Ever /\ (k \in productRows' => k \in skipped')
  BY <1>1, <1>2, <1>3, OldNames
<1>7. reported' \subseteq Products /\ reported' \subseteq Ever'
  BY <1>1, <1>2, OldNames DEF ProductTable!TypeOK
<1> QED
  BY <1>1, <1>2, <1>4, <1>5, <1>6, <1>7, ProductStepKeeps DEF ProductTable!TypeOK

LEMMA DeleteProductsFailsKeeps ==
  ASSUME ProductBounds, ProductInv, NEW cl \in Deleters, ProductTable!DeleteProductsFails(cl)
  PROVE  ProductInv'
<1>1. ProductTable!TypeOK /\ batches' = [batches EXCEPT ![cl] = <<>>]
      /\ named' = [named EXCEPT ![cl] = {}]
      /\ UNCHANGED <<reported, confirmed, skipped, productMade>>
  BY DEF ProductInv, ProductTable!DeleteProductsFails
<1>2. PICK done : ProductTable!Without(done)
  BY DEF ProductTable!DeleteProductsFails
<1>3. RowsStep
  BY <1>2, RowsTaken
<1>4. batches' \in [Deleters -> Seq(Seq(ProductTable!Key))]
      /\ named' \in [Deleters -> SUBSET ProductTable!Key]
  BY <1>1, EmptySeq DEF ProductTable!TypeOK
<1>5. \A d \in Deleters : \A k \in named'[d] :
        k[1] \in Ever /\ (k \in productRows' => k \in skipped' \/ In(k, batches'[d]))
  BY <1>1, <1>3, OldNames DEF ProductTable!TypeOK
<1>6. \A k \in confirmed' : k[1] \in Ever /\ (k \in productRows' => k \in skipped')
  BY <1>1, <1>3, OldNames
<1>7. reported' \subseteq Products /\ reported' \subseteq Ever'
  BY <1>1, <1>3, OldNames DEF ProductTable!TypeOK
<1> QED
  BY <1>1, <1>3, <1>4, <1>5, <1>6, <1>7, ProductStepKeeps DEF ProductTable!TypeOK

LEMMA ProductNextKeeps ==
  ASSUME ProductBounds
  PROVE  ProductInv /\ [ProductTable!Next]_(ProductTable!vars) => ProductInv'
<1> SUFFICES ASSUME ProductInv, [ProductTable!Next]_(ProductTable!vars) PROVE ProductInv'
  OBVIOUS
<1>1. CASE UNCHANGED ProductTable!vars
  BY <1>1
     DEF ProductTable!vars, ProductTable!histories, ProductInv, ProductTable!TypeOK,
         ProductTable!OneRowPerId, AnswersKnown, NamedIsLeft,
              ProductTable!BatchAnswersAreTrue, Ever, ProductTable!Stored
<1>2. CASE ProductTable!Next
  BY <1>2, CreateProductKeeps, CreateProductsKeeps, UpdateOrDeleteKeeps, DeleteProductsKeeps,
     DeleteBatchKeeps, ConfirmDeletionKeeps, DeleteProductsFailsKeeps DEF ProductTable!Next
<1> QED
  BY <1>1, <1>2

LEMMA ProductInit == ProductTable!Init => ProductInv
<1> SUFFICES ASSUME ProductTable!Init PROVE ProductInv
  OBVIOUS
<1>1. PICK S \in SUBSET Products : \E f \in [S -> Names] : productRows = {<<p, f[p]>> : p \in S}
  BY DEF ProductTable!Init
<1>2. PICK f \in [S -> Names] : productRows = {<<p, f[p]>> : p \in S}
  BY <1>1
<1>3. productRows \subseteq ProductTable!Key /\ ProductTable!OneRowPerId
  BY <1>2 DEF ProductTable!Key, ProductTable!OneRowPerId
<1>4. ProductTable!TypeOK
  BY <1>3, EmptySeq DEF ProductTable!Init, ProductTable!TypeOK
<1>5. AnswersKnown /\ NamedIsLeft /\ ProductTable!BatchAnswersAreTrue
  BY DEF ProductTable!Init, AnswersKnown, NamedIsLeft, ProductTable!BatchAnswersAreTrue
<1> QED
  BY <1>3, <1>4, <1>5 DEF ProductInv

\* The invariant of the products.
LEMMA ProductsInvariant == Spec => []ProductInv
BY Assumed, ProductsRun, ProductInit, ProductNextKeeps, PTL DEF ProductTable!Spec

-----------------------------------------------------------------------------
(***************************************************************************)
(* The queries of the catalogue                                            *)
(***************************************************************************)
\* A row that an update made is under the id of a category there was.
RowsWereCreated ==
  \A i \in Ids, n \in Names : categoryRows[<<i, n>>] # "absent" => i \in DOMAIN nameOf

LEMMA RowsAreCreated == Spec => []RowsWereCreated
<1>1. CategoryTable!Init => RowsWereCreated
  BY DEF CategoryTable!Init, CategoryTable!Key, RowsWereCreated
<1>2. CategoryInv /\ RowsWereCreated /\ [CategoryTable!Next]_(CategoryTable!vars) => RowsWereCreated'
  <2> SUFFICES ASSUME CategoryInv, RowsWereCreated, [CategoryTable!Next]_(CategoryTable!vars)
               PROVE  RowsWereCreated'
    OBVIOUS
  <2>1. categoryRows \in [Ids \X Names -> CategoryTable!Content]
    BY DEF CategoryInv, CategoryTable!TypeOK, CategoryTable!Key
  <2>2. CASE UNCHANGED CategoryTable!vars
    BY <2>2 DEF CategoryTable!vars, RowsWereCreated
  <2>3. ASSUME NEW i \in Ids, NEW n \in Names, CategoryTable!CreateCategory(i, n)
        PROVE  RowsWereCreated'
    BY <2>1, <2>3 DEF CategoryTable!CreateCategory, RowsWereCreated
  <2>4. ASSUME NEW i \in Ids, NEW n \in Names, i \in DOMAIN nameOf,
               CategoryTable!UpdateCategory(i, n) \/ CategoryTable!DeleteCategory(i, n)
        PROVE  RowsWereCreated'
    BY <2>1, <2>4 DEF CategoryTable!UpdateCategory, CategoryTable!DeleteCategory, RowsWereCreated
  <2> QED
    BY <2>2, <2>3, <2>4 DEF CategoryTable!Next
<1> QED
  BY <1>1, <1>2, CategoriesRun, CategoriesInvariant, PTL DEF CategoryTable!Spec

\* What decides the answers of the queries.
Answerable ==
  /\ ProductTable!OneRowPerId
  /\ CategoryTable!TypeOK /\ CategoryTable!GhostsHaveNoCategory /\ RowsWereCreated

RowOf(kind, k) == [kind |-> kind, id |-> k[1], name |-> k[2]]

LEMMA RowsFinite ==
  ASSUME NEW kind, NEW I, IsFiniteSet(I)
  PROVE  IsFiniteSet([kind : {kind}, id : I, name : Names])
<1> DEFINE Row == [kind : {kind}, id : I, name : Names]
           row == [k \in I \X Names |-> RowOf(kind, k)]
<1>1. row \in [I \X Names -> Row]
  BY DEF RowOf
<1>2. ASSUME NEW r \in Row PROVE \E k \in I \X Names : row[k] = r
  <2>1. <<r.id, r.name>> \in I \X Names
    OBVIOUS
  <2>2. row[<<r.id, r.name>>] = r
    BY DEF RowOf
  <2> QED
    BY <2>1, <2>2
<1>3. row \in Surjection(I \X Names, Row)
  BY <1>1, <1>2 DEF Surjection
<1>4. IsFiniteSet(I \X Names)
  BY TableAssumption, FS_Product
<1> QED
  BY <1>3, <1>4, FS_Surjection

LEMMA TableFacts ==
  /\ IsFiniteSet(Shop!Table)
  /\ Shop!Table \ Shop!Listed = Shop!Categories
  /\ Shop!Categories \subseteq Shop!Table /\ Shop!Listed \subseteq Shop!Table
  /\ \A S : Shop!Cardinality(S) = Cardinality(S)
<1>1. IsFiniteSet(Shop!CategoryRow) /\ IsFiniteSet(Shop!ProductRow)
  BY TableAssumption, RowsFinite DEF Shop!CategoryRow, Shop!ProductRow
<1>2. IsFiniteSet(Shop!CategoryRow \cup Shop!ProductRow)
  BY <1>1, FS_Union
<1>3. Shop!Table \subseteq Shop!CategoryRow \cup Shop!ProductRow
  BY DEF Shop!Table, Shop!Categories, Shop!Listed
<1>4. Shop!CategoryRow \cap Shop!ProductRow = {}
  BY DEF Shop!CategoryRow, Shop!ProductRow
<1>5. \A S : Shop!Cardinality(S) = Cardinality(S)
  BY DEF Shop!Cardinality, Cardinality
<1> QED
  BY <1>2, <1>3, <1>4, <1>5, FS_Subset DEF Shop!Table, Shop!Categories, Shop!Listed

\* What stops a read before it found a row that was asked for.
LEMMA ReadFacts ==
  ASSUME NEW from \in SUBSET Shop!Table, NEW limit \in Nat \ {0},
         NEW read \in Shop!Reads(from, limit)
  PROVE  /\ read \subseteq from
         /\ from # {} => read # {}
         /\ Cardinality(from) < limit => read = from
         /\ \A kept : kept \cap from # {} /\ Shop!Filtered(read, kept) = {} =>
              limit <= Cardinality(from \ kept)
<1>1. /\ read \subseteq from /\ IsFiniteSet(from) /\ IsFiniteSet(read)
      /\ Cardinality(read) = Shop!Smaller(limit, Cardinality(from))
  BY TableFacts, FS_Subset DEF Shop!Reads
<1>2. PICK r \in Nat, f \in Nat : r = Cardinality(read) /\ f = Cardinality(from)
  BY <1>1, FS_CardinalityType
<1>3. (r = limit /\ limit <= f) \/ (r = f /\ f <= limit)
  BY <1>1, <1>2 DEF Shop!Smaller
<1>4. from # {} => read # {}
  BY <1>1, <1>2, <1>3, FS_EmptySet
<1>5. f < limit => read = from
  <2>1. f < limit => r = f
    BY <1>3
  <2> QED
    BY <1>1, <1>2, <2>1, FS_Subset
<1>6. ASSUME NEW kept, kept \cap from # {}, Shop!Filtered(read, kept) = {}
      PROVE  limit <= Cardinality(from \ kept)
  <2>1. read \subseteq from \ kept /\ from \ kept \subseteq from /\ from \ kept # from
    BY <1>1, <1>6 DEF Shop!Filtered
  <2>2. IsFiniteSet(from \ kept) /\ Cardinality(from \ kept) \in Nat
    BY <1>1, <2>1, FS_Subset, FS_CardinalityType
  <2>3. PICK k \in Nat : k = Cardinality(from \ kept)
    BY <2>2
  <2>4. r <= k /\ k < f
    BY <1>1, <1>2, <2>1, <2>2, <2>3, FS_Subset
  <2> QED
    BY <1>3, <2>3, <2>4
<1> QED
  BY <1>1, <1>2, <1>4, <1>5, <1>6

\* A list of products that is not empty is taken for what it is.
LEMMA ProductLists ==
  ASSUME NEW from \in SUBSET Shop!Table, NEW limit \in Nat \ {0}, NEW kept \in SUBSET Shop!Listed,
         NEW reason,
         kept \cap from = {} \/ limit <= Cardinality(from \ kept) => reason
  PROVE  Shop!Answered(Shop!Pages(from, limit, kept), "PaginationProductResponse", reason)
<1> SUFFICES ASSUME ~reason, NEW read \in Shop!Reads(from, limit)
             PROVE  Shop!Types(Shop!Filtered(read, kept)) = {"PaginationProductResponse"}
  BY DEF Shop!Answered, Shop!Pages
<1>1. Shop!Filtered(read, kept) # {}
  BY ReadFacts
<1>2. \A r \in Shop!Filtered(read, kept) : Shop!TypeOf(r) = "PaginationProductResponse"
  BY DEF Shop!Filtered, Shop!Listed, Shop!ProductRow, Shop!TypeOf
<1> QED
  BY <1>1, <1>2 DEF Shop!Types

\* A row of a category under its name has an id, unless the category was deleted.
LEMMA ProperRows ==
  ASSUME Answerable, NEW r \in Shop!Categories \ Shop!Misnamed
  PROVE  Shop!TypeOf(r) = "PaginationCategoryResponse"
<1>1. /\ r.kind = "category" /\ r.id \in Ids /\ r.name \in Names
      /\ categoryRows[<<r.id, r.name>>] # "absent"
      /\ r.id \notin goneCategories /\ r.name = nameOf[r.id]
  BY DEF Shop!Categories, Shop!CategoryRow, Shop!Misnamed
<1>2. r.id \in DOMAIN nameOf
  BY <1>1 DEF Answerable, RowsWereCreated
<1>3. categoryRows[<<r.id, nameOf[r.id]>>] = "full"
  BY <1>1, <1>2 DEF Answerable, CategoryTable!GhostsHaveNoCategory
<1> QED
  BY <1>1, <1>3 DEF Shop!TypeOf

LEMMA CategoryLists ==
  ASSUME Answerable, NEW page \in SUBSET (Shop!Categories \ Shop!Misnamed), page # {}
  PROVE  Shop!Types(page) = {"PaginationCategoryResponse"}
<1>1. \A r \in page : Shop!TypeOf(r) = "PaginationCategoryResponse"
  BY ProperRows
<1> QED
  BY <1>1 DEF Shop!Types

LEMMA ReasonsOfLists ==
  ASSUME Answerable, NEW limit \in Nat \ {0}
  PROVE  /\ Shop!Answered(Shop!getAllProducts(limit), "PaginationProductResponse",
                          Shop!Listed = {} \/ limit <= Cardinality(Shop!Categories))
         /\ \A called \in SUBSET Products :
              /\ Shop!Answered(Shop!getProductByName(called, limit), "PaginationProductResponse",
                               Shop!PRODUCTNAMEINDEX(called) = {})
              /\ Shop!Answered(Shop!getProductByNameStartsWith(called, limit),
                               "PaginationProductResponse",
                               \/ Shop!PRODUCTNAMEINDEX(called) = {}
                               \/ limit <= Cardinality(Shop!Table \ Shop!PRODUCTNAMEINDEX(called)))
         /\ \A n \in Names :
              Shop!Answered(Shop!getProductsByCategoryName(n, limit), "PaginationProductResponse",
                \/ Shop!CATEGORYNAMEINDEX(n) \cap Shop!Listed = {}
                \/ limit <= Cardinality(Shop!CATEGORYNAMEINDEX(n) \cap Shop!Categories))
<1>1. Shop!Listed \cap Shop!Table = Shop!Listed /\ Shop!Table \ Shop!Listed = Shop!Categories
  BY TableFacts
<1>2. Shop!Answered(Shop!getAllProducts(limit), "PaginationProductResponse",
                    Shop!Listed = {} \/ limit <= Cardinality(Shop!Categories))
  BY <1>1, ProductLists DEF Shop!getAllProducts
<1>3. ASSUME NEW called \in SUBSET Products
      PROVE  Shop!Answered(Shop!getProductByName(called, limit), "PaginationProductResponse",
                           Shop!PRODUCTNAMEINDEX(called) = {})
  <2>1. Shop!PRODUCTNAMEINDEX(called) \subseteq Shop!Listed
    BY DEF Shop!PRODUCTNAMEINDEX
  <2>2. /\ Shop!PRODUCTNAMEINDEX(called) \ Shop!Listed = {}
        /\ Shop!Listed \cap Shop!PRODUCTNAMEINDEX(called) = Shop!PRODUCTNAMEINDEX(called)
        /\ Shop!PRODUCTNAMEINDEX(called) \subseteq Shop!Table
    BY <2>1, TableFacts
  <2>3. ~(limit <= Cardinality(Shop!PRODUCTNAMEINDEX(called) \ Shop!Listed))
    BY <2>2, FS_EmptySet
  <2> QED
    BY <2>2, <2>3, ProductLists DEF Shop!getProductByName
<1>4. ASSUME NEW called \in SUBSET Products
      PROVE  Shop!Answered(Shop!getProductByNameStartsWith(called, limit),
               "PaginationProductResponse",
               \/ Shop!PRODUCTNAMEINDEX(called) = {}
               \/ limit <= Cardinality(Shop!Table \ Shop!PRODUCTNAMEINDEX(called)))
  <2>1. /\ Shop!PRODUCTNAMEINDEX(called) \subseteq Shop!Listed
        /\ Shop!PRODUCTNAMEINDEX(called) \cap Shop!Table = Shop!PRODUCTNAMEINDEX(called)
    BY TableFacts DEF Shop!PRODUCTNAMEINDEX
  <2> QED
    BY <2>1, ProductLists DEF Shop!getProductByNameStartsWith
<1>5. ASSUME NEW n \in Names
      PROVE  Shop!Answered(Shop!getProductsByCategoryName(n, limit), "PaginationProductResponse",
               \/ Shop!CATEGORYNAMEINDEX(n) \cap Shop!Listed = {}
               \/ limit <= Cardinality(Shop!CATEGORYNAMEINDEX(n) \cap Shop!Categories))
  <2>1. /\ Shop!CATEGORYNAMEINDEX(n) \subseteq Shop!Table
        /\ Shop!CATEGORYNAMEINDEX(n) \ Shop!Listed = Shop!CATEGORYNAMEINDEX(n) \cap Shop!Categories
        /\ Shop!Listed \cap Shop!CATEGORYNAMEINDEX(n) = Shop!CATEGORYNAMEINDEX(n) \cap Shop!Listed
    BY TableFacts DEF Shop!CATEGORYNAMEINDEX
  <2> QED
    BY <2>1, ProductLists DEF Shop!getProductsByCategoryName
<1> QED
  BY <1>2, <1>3, <1>4, <1>5

\* Lists of categories are read to their end, or by one row.
LEMMA ReasonsOfCategories ==
  ASSUME Answerable
  PROVE  /\ Shop!Answered(Shop!getCategories, "PaginationCategoryResponse",
                          Shop!Categories = {} \/ Shop!Misnamed # {})
         /\ \A n \in Names :
              Shop!Answered(Shop!getCategoryByName(n), "PaginationCategoryResponse",
                \/ Shop!CATEGORYNAMEINDEX(n) = {}
                \/ Shop!CATEGORYNAMEINDEX(n) \cap (Shop!Listed \cup Shop!Misnamed) # {})
<1>1. ASSUME Shop!Categories # {}, Shop!Misnamed = {}, NEW page \in Shop!getCategories
      PROVE  Shop!Types(page) = {"PaginationCategoryResponse"}
  <2>1. PICK read \in Shop!Reads(Shop!Table, Shop!NoLimit) :
          page = Shop!Filtered(read, Shop!Categories)
    BY <1>1 DEF Shop!getCategories, Shop!Pages
  <2>2. PICK t \in Nat : t = Cardinality(Shop!Table)
    BY TableFacts, FS_CardinalityType
  <2>3. Shop!NoLimit = t + 1 /\ t + 1 \in Nat \ {0} /\ t < t + 1
    BY <2>2, TableFacts DEF Shop!NoLimit
  <2>4. read = Shop!Table
    BY <2>1, <2>2, <2>3, ReadFacts
  <2>5. page = Shop!Categories
    BY <2>1, <2>4, TableFacts DEF Shop!Filtered
  <2> QED
    BY <1>1, <2>5, CategoryLists
<1>2. ASSUME NEW n \in Names, Shop!CATEGORYNAMEINDEX(n) # {},
             Shop!CATEGORYNAMEINDEX(n) \cap (Shop!Listed \cup Shop!Misnamed) = {},
             NEW page \in Shop!getCategoryByName(n)
      PROVE  Shop!Types(page) = {"PaginationCategoryResponse"}
  <2>1. PICK read \in Shop!Reads(Shop!CATEGORYNAMEINDEX(n), 1) :
          page = Shop!Filtered(read, Shop!Table)
    BY <1>2 DEF Shop!getCategoryByName, Shop!Pages
  <2>2. Shop!CATEGORYNAMEINDEX(n) \subseteq Shop!Table
    BY DEF Shop!CATEGORYNAMEINDEX
  <2>3. read \subseteq Shop!CATEGORYNAMEINDEX(n) /\ read # {}
    BY <1>2, <2>1, <2>2, ReadFacts
  <2>4. page = read
    BY <2>1, <2>2, <2>3 DEF Shop!Filtered
  <2>5. page \in SUBSET (Shop!Categories \ Shop!Misnamed)
    BY <1>2, <2>2, <2>3, <2>4, TableFacts
  <2> QED
    BY <2>3, <2>4, <2>5, CategoryLists
<1> QED
  BY <1>1, <1>2 DEF Shop!Answered

\* An id leads to the one row under it.
LEMMA OneRowIsFound ==
  ASSUME Answerable, NEW r \in Shop!Listed
  PROVE  Shop!getProductById(r.id) = {{r}} /\ Shop!Referenced(r.id) = {{r}}
<1> DEFINE under == {s \in Shop!Listed : s.id = r.id}
<1>1. under = {r}
  <2> SUFFICES ASSUME NEW s \in Shop!Listed, s.id = r.id PROVE s = r
    OBVIOUS
  <2>1. /\ s \in Shop!ProductRow /\ r \in Shop!ProductRow
        /\ <<s.id, s.name>> \in productRows /\ <<r.id, r.name>> \in productRows
    BY DEF Shop!Listed
  <2>2. <<s.id, s.name>> = <<r.id, r.name>>
    BY <2>1 DEF Answerable, ProductTable!OneRowPerId
  <2> QED
    BY <2>1, <2>2 DEF Shop!ProductRow
<1>2. Cardinality({r}) = 1 /\ Cardinality({}) = 0
  BY FS_Singleton, FS_EmptySet
<1>3. Shop!Reads({r}, 1) = {{r}}
  <2>1. \A S \in SUBSET {r} : S = {} \/ S = {r}
    OBVIOUS
  <2> QED
    BY <1>2, <2>1, TableFacts DEF Shop!Reads, Shop!Smaller
<1>4. Shop!FirstRow(r.id) = {{r}}
  BY <1>1, <1>3 DEF Shop!FirstRow
<1> QED
  BY <1>4 DEF Shop!getProductById, Shop!Referenced, Shop!getProductByIdDirect

LEMMA AnswerableAgrees == Answerable => QueriesAgree
<1> SUFFICES ASSUME Answerable PROVE QueriesAgree
  OBVIOUS
<1>1. \A limit \in Limits : limit \in Nat \ {0}
  BY TableAssumption
<1>2. Shop!ListsShowTheProduct
  <2>1. ASSUME NEW limit \in Limits, NEW page \in Shop!getAllProducts(limit) PROVE page \subseteq Shop!Listed
    BY <2>1 DEF Shop!getAllProducts, Shop!Pages, Shop!Filtered
  <2> QED
    BY <2>1, OneRowIsFound DEF Shop!ListsShowTheProduct
<1>3. ASSUME NEW p \in Products, {} \in Shop!getProductById(p)
      PROVE  {r \in Shop!Listed : r.id = p} = {}
  <2> DEFINE under == {r \in Shop!Listed : r.id = p}
  <2>1. {} \in Shop!Reads(under, 1) /\ under \in SUBSET Shop!Table
    BY <1>3, TableFacts DEF Shop!getProductById, Shop!FirstRow
  <2> HIDE DEF under
  <2>2. under = {}
    BY <2>1, ReadFacts
  <2> QED
    BY <2>2 DEF under
<1>4. Shop!ListingsFailForAReason
  BY <1>1, <1>3, ReasonsOfLists, ReasonsOfCategories, TableFacts DEF Shop!ListingsFailForAReason
<1> QED
  BY <1>2, <1>4 DEF QueriesAgree, Shop!QueriesAgree

-----------------------------------------------------------------------------
\* The rows, calls and counters of every store keep their types.
THEOREM TypeCorrect == Spec => []TypeOK
<1>1. Spec => []Carts!TypeOK
  BY Assumed, CartsRun, Carts!TypeCorrect
<1>2. Spec => []SellerTable!TypeOK
  BY SellersInvariant, PTL DEF SellersInv
<1>3. Spec => []CategoryTable!TypeOK
  BY CategoriesInvariant, PTL DEF CategoryInv
<1>4. Spec => []ProductTable!TypeOK
  BY ProductsInvariant, PTL DEF ProductInv
<1>5. Spec => []Accounts!TypeOK
  BY Assumed, AccountsRun, Accounts!TypeCorrect
<1>6. Spec => []Listing!TypeOK
  BY ListingRuns, ListingTyped
<1> QED
  BY <1>1, <1>2, <1>3, <1>4, <1>5, <1>6, PTL DEF TypeOK

\* Carts change as if each mutation were one step (cart.repository.ts).
THEOREM CartsKeepLedger == Spec => LedgerSpec
BY Assumed, CartsRun, Carts!CartImplementsLedger DEF LedgerSpec

\* Additions fail for the cart's sake only beside the user's very first one.
THEOREM FewAreRefused == Spec => []RefusedOnlyAtFirst
<1>1. Spec => []Carts!RefusedOnlyAtFirst
  BY Assumed, ClientsAssumption, CartsRun, Carts!FewAreRefused
     DEF IsFiniteSet, Carts!IsFiniteSet
<1> QED
  BY <1>1, PTL DEF RefusedOnlyAtFirst

\* What was confirmed of an account stands until another call is about the same
\* field (user.repository.ts).
THEOREM WhatWasConfirmedStands == Spec => []ConfirmedChangesStand
<1>1. Spec => []Accounts!ConfirmedChangesStand
  BY Assumed, AccountsRun, Accounts!WhatWasConfirmedStands
<1> QED
  BY <1>1, PTL DEF ConfirmedChangesStand

\* No call brings a deleted seller back (seller.repository.ts).
THEOREM SellerStaysDeleted == Spec => []DeletedStaysDeleted
<1>1. SellersInv => DeletedStaysDeleted
  BY DEF DeletedStaysDeleted, SellersInv, SellersApart, SellerTable!DeletedStaysDeleted,
         SellerTable!getSellerById, SellerTable!getSellerAddresses, SellerTable!SellerOf
<1> QED
  BY <1>1, SellersInvariant, PTL

\* updateSeller undoes nothing but an update that overlapped it.
THEOREM UpdatesOnlyUndoOverlaps == Spec => OnlyOverlapsUndoUpdates
<1> DEFINE Justified ==
      \A s \in DOMAIN sellers \cap DOMAIN sellers', f \in Fields :
        sellers'[s][f] # sellers[s][f] =>
          \E cl \in Clients :
            /\ SellerTable!At(cl, "write") /\ sellerCalls[cl].seller = s
            /\ sellerCalls'[cl].step = "idle"
            /\ f \in DOMAIN sellerCalls[cl].change \/ cl \in overtaken
<1>1. SellersInv /\ [SellerTable!Next]_(SellerTable!vars) => [Justified]_(SellerTable!vars)
  <2> SUFFICES ASSUME SellersInv, SellerTable!Next,
                      NEW s \in DOMAIN sellers \cap DOMAIN sellers', NEW f \in Fields,
                      sellers'[s][f] # sellers[s][f]
               PROVE  \E cl \in Clients :
                        /\ SellerTable!At(cl, "write") /\ sellerCalls[cl].seller = s
                        /\ sellerCalls'[cl].step = "idle"
                        /\ f \in DOMAIN sellerCalls[cl].change \/ cl \in overtaken
    OBVIOUS
  <2>1. FieldsKept
    BY Assumed, SellersNextIsEffect DEF SellersEffect
  <2>2. PICK cl \in Clients : Overwrites(cl)
    BY <2>1 DEF FieldsKept
  <2>3. SellerTable!At(cl, "write") /\ sellerCalls[cl].seller = s
        /\ sellers'[s] = sellerCalls[cl].row /\ sellerCalls'[cl].step = "idle"
    BY <2>2 DEF Overwrites, SellerTable!WriteRow
  <2>4. f \in DOMAIN sellerCalls[cl].change \/ cl \in overtaken
    BY <2>3 DEF SellersInv, HeldRow
  <2> QED
    BY <2>3, <2>4
<1> QED
  BY <1>1, SellersInvariant, SellersRun, PTL
     DEF SellerTable!Spec, OnlyOverlapsUndoUpdates, SellerTable!OnlyOverlapsUndoUpdates

\* At most one row passes for a category (category.repository.ts).
THEOREM CategoryIsOneRow == Spec => []OneFullRowPerId
<1>1. Spec => []CategoryTable!OneFullRowPerId
  BY CategoriesInvariant, CategoryFromInv, PTL
<1> QED
  BY <1>1, PTL DEF OneFullRowPerId

\* A living category is never a row without an id.
THEOREM CategoryIsNoGhost == Spec => []GhostsHaveNoCategory
<1>1. Spec => []CategoryTable!GhostsHaveNoCategory
  BY CategoriesInvariant, PTL DEF CategoryInv
<1> QED
  BY <1>1, PTL DEF GhostsHaveNoCategory

\* The first row found under a product's id is its only one (product.repository.ts).
THEOREM ProductIsOneRow == Spec => []OneRowPerId
<1>1. Spec => []ProductTable!OneRowPerId
  BY ProductsInvariant, PTL DEF ProductInv
<1> QED
  BY <1>1, PTL DEF OneRowPerId

\* createProducts and deleteProducts report what they did, batch by batch.
THEOREM AnswersAreTrue == Spec => []BatchAnswersAreTrue
<1>1. Spec => []ProductTable!BatchAnswersAreTrue
  BY ProductsInvariant, PTL DEF ProductInv
<1> QED
  BY <1>1, PTL DEF BatchAnswersAreTrue

\* What a list shows of a product is what its id leads to, and a query of the
\* catalogue fails only for want of rows, for rows that fill the page, or for one that
\* an update left without an id, whichever rows a read with a Limit happens on
\* (product.repository.ts, category.repository.ts).
THEOREM QueriesAlwaysAgree == Spec => []QueriesAgree
<1>1. ProductInv /\ CategoryInv /\ RowsWereCreated => Answerable
  BY DEF ProductInv, CategoryInv, Answerable
<1> QED
  BY <1>1, AnswerableAgrees, ProductsInvariant, CategoriesInvariant, RowsAreCreated, PTL

-----------------------------------------------------------------------------
(***************************************************************************)
(* The listings                                                            *)
(***************************************************************************)
\* The rows of a listing, those up to its b-th place and those after it.
RowsIn(s) == {s[i] : i \in 1..Len(s)}
FirstRows(s, b) == {s[i] : i \in {j \in 1..Len(s) : j <= b}}
LaterRows(s, b) == {s[i] : i \in {j \in 1..Len(s) : j > b}}
NoRowTwice(s) == \A i, j \in 1..Len(s) : s[i] = s[j] => i = j

\* Where the rows of s are once row e came in and made it t: at most one was moved
\* across the b-th place.
HasCome(t, s, e, b) ==
  /\ Len(t) = Len(s) + 1
  /\ RowsIn(t) \subseteq RowsIn(s) \cup {e}
  /\ FirstRows(t, b) \subseteq FirstRows(s, b) \cup {e}
  /\ LaterRows(t, b) \subseteq LaterRows(s, b) \cup {e} \cup {s[b]}
  /\ NoRowTwice(s) /\ e \notin RowsIn(s) => NoRowTwice(t)

\* A row may come in anywhere.
LEMMA InsertFacts ==
  ASSUME NEW S, NEW s \in Seq(S), NEW i \in 1..(Len(s) + 1), NEW e \in S, NEW b \in Nat
  PROVE  HasCome(Listing!InsertAt(s, i, e), s, e, b)
<1> DEFINE t == Listing!InsertAt(s, i, e)
           front == SubSeq(s, 1, i - 1)
           back == SubSeq(s, i, Len(s))
<1>1. /\ front \in Seq(S) /\ Len(front) = i - 1
      /\ \A k \in 1..(i - 1) : front[k] = s[k]
  OBVIOUS
<1>2. /\ back \in Seq(S) /\ Len(back) = Len(s) - i + 1
      /\ \A k \in 1..(Len(s) - i + 1) : back[k] = s[i + k - 1]
  OBVIOUS
<1>3. t = front \o <<e>> \o back
  BY DEF Listing!InsertAt
<1> HIDE DEF front, back, t
<1>4. /\ front \o <<e>> \in Seq(S) /\ Len(front \o <<e>>) = i
      /\ \A k \in 1..i : (front \o <<e>>)[k] = IF k < i THEN s[k] ELSE e
  BY <1>1
<1>5. t \in Seq(S) /\ Len(t) = Len(s) + 1
  <2>1. t \in Seq(S) /\ Len(t) = Len(front \o <<e>>) + Len(back)
    BY <1>2, <1>3, <1>4, ConcatProperties
  <2>2. Len(s) \in Nat /\ i \in Nat
    OBVIOUS
  <2>3. Len(t) = i + (Len(s) - i + 1)
    BY <2>1, <1>2, <1>4, Zenon
  <2> QED
    BY <2>1, <2>2, <2>3
<1>6. \A k \in 1..Len(t) : t[k] = IF k < i THEN s[k] ELSE IF k = i THEN e ELSE s[k - 1]
  <2> SUFFICES ASSUME NEW k \in 1..Len(t)
               PROVE  t[k] = IF k < i THEN s[k] ELSE IF k = i THEN e ELSE s[k - 1]
    OBVIOUS
  <2>1. CASE k <= i
    BY <2>1, <1>2, <1>3, <1>4, <1>5
  <2>2. CASE k > i
    <3>1. t[k] = back[k - i]
      BY <2>2, <1>2, <1>3, <1>4, <1>5
    <3>2. k - i \in 1..(Len(s) - i + 1)
      BY <2>2, <1>5
    <3> QED
      BY <2>2, <3>1, <3>2, <1>2
  <2> QED
    BY <2>1, <2>2
<1>7. \A k \in 1..Len(t) :
        \/ k < i /\ k \in 1..Len(s) /\ t[k] = s[k]
        \/ k = i /\ t[k] = e
        \/ k > i /\ k - 1 \in 1..Len(s) /\ t[k] = s[k - 1]
  BY <1>5, <1>6
<1>8. RowsIn(t) \subseteq RowsIn(s) \cup {e}
  BY <1>7 DEF RowsIn
<1>9. FirstRows(t, b) \subseteq FirstRows(s, b) \cup {e}
  BY <1>7 DEF FirstRows
<1>10. LaterRows(t, b) \subseteq LaterRows(s, b) \cup {e} \cup {s[b]}
  <2> SUFFICES ASSUME NEW k \in 1..Len(t), k > b
               PROVE  t[k] \in LaterRows(s, b) \cup {e} \cup {s[b]}
    BY DEF LaterRows
  <2>1. CASE k > i /\ k - 1 = b
    BY <2>1, <1>7
  <2>2. CASE ~(k > i /\ k - 1 = b)
    BY <2>2, <1>7 DEF LaterRows
  <2> QED
    BY <2>1, <2>2
<1>11. ASSUME NoRowTwice(s), e \notin RowsIn(s) PROVE NoRowTwice(t)
  <2> SUFFICES ASSUME NEW k \in 1..Len(t), NEW l \in 1..Len(t), t[k] = t[l]
               PROVE  k = l
    BY DEF NoRowTwice
  <2>1. \A m \in 1..Len(s) : s[m] # e
    BY <1>11 DEF RowsIn
  <2> QED
    BY <1>7, <1>11, <2>1 DEF NoRowTwice
<1> QED
  BY <1>5, <1>8, <1>9, <1>10, <1>11 DEF t, HasCome

\* The same once a row has gone, where at most one is moved the other way.
HasGone(t, s, b) ==
  /\ Len(t) = Len(s) - 1
  /\ RowsIn(t) \subseteq RowsIn(s)
  /\ FirstRows(t, b) \subseteq FirstRows(s, b) \cup {s[b + 1]}
  /\ LaterRows(t, b) \subseteq LaterRows(s, b)
  /\ NoRowTwice(s) => NoRowTwice(t)

\* Any row may go.
LEMMA RemoveFacts ==
  ASSUME NEW S, NEW s \in Seq(S), NEW i \in 1..Len(s), NEW b \in Nat
  PROVE  HasGone(Listing!RemoveAt(s, i), s, b)
<1> DEFINE t == Listing!RemoveAt(s, i)
           front == SubSeq(s, 1, i - 1)
           back == SubSeq(s, i + 1, Len(s))
<1>1. /\ front \in Seq(S) /\ Len(front) = i - 1
      /\ \A k \in 1..(i - 1) : front[k] = s[k]
  OBVIOUS
<1>2. /\ back \in Seq(S) /\ Len(back) = Len(s) - i
      /\ \A k \in 1..(Len(s) - i) : back[k] = s[i + k]
  OBVIOUS
<1>3. t = front \o back
  BY DEF Listing!RemoveAt
<1> HIDE DEF front, back, t
<1>4. t \in Seq(S) /\ Len(t) = Len(s) - 1
  BY <1>1, <1>2, <1>3
<1>5. \A k \in 1..Len(t) :
        \/ k < i /\ k \in 1..Len(s) /\ t[k] = s[k]
        \/ k >= i /\ k + 1 \in 1..Len(s) /\ t[k] = s[k + 1]
  <2> SUFFICES ASSUME NEW k \in 1..Len(t)
               PROVE  \/ k < i /\ k \in 1..Len(s) /\ t[k] = s[k]
                      \/ k >= i /\ k + 1 \in 1..Len(s) /\ t[k] = s[k + 1]
    OBVIOUS
  <2>1. CASE k < i
    BY <2>1, <1>1, <1>2, <1>3, <1>4
  <2>2. CASE k >= i
    <3>1. t[k] = back[k - i + 1]
      <4>1. k \in 1..(Len(front) + Len(back)) /\ ~(k <= Len(front))
        BY <2>2, <1>1, <1>2, <1>4
      <4>2. t[k] = back[k - Len(front)]
        BY <4>1, <1>1, <1>2, <1>3, ConcatProperties
      <4>3. k - Len(front) = k - i + 1
        BY <1>1
      <4> QED
        BY <4>2, <4>3
    <3>2. k - i + 1 \in 1..(Len(s) - i)
      BY <2>2, <1>4
    <3> QED
      BY <2>2, <3>1, <3>2, <1>2
  <2> QED
    BY <2>1, <2>2
<1>6. RowsIn(t) \subseteq RowsIn(s) /\ LaterRows(t, b) \subseteq LaterRows(s, b)
  <2>1. RowsIn(t) \subseteq RowsIn(s)
    BY <1>5 DEF RowsIn
  <2>2. ASSUME NEW k \in 1..Len(t), k > b PROVE t[k] \in LaterRows(s, b)
    BY <2>2, <1>5 DEF LaterRows
  <2> QED
    BY <2>1, <2>2 DEF LaterRows
<1>7. FirstRows(t, b) \subseteq FirstRows(s, b) \cup {s[b + 1]}
  <2> SUFFICES ASSUME NEW k \in 1..Len(t), k <= b
               PROVE  t[k] \in FirstRows(s, b) \cup {s[b + 1]}
    BY DEF FirstRows
  <2> QED
    BY <1>5 DEF FirstRows
<1>8. ASSUME NoRowTwice(s) PROVE NoRowTwice(t)
  <2> SUFFICES ASSUME NEW k \in 1..Len(t), NEW l \in 1..Len(t), t[k] = t[l]
               PROVE  k = l
    BY DEF NoRowTwice
  <2>1. \A m, n \in 1..Len(s) : s[m] = s[n] => m = n
    BY <1>8 DEF NoRowTwice
  <2>2. CASE k < i /\ l < i
    BY <2>1, <2>2, <1>5
  <2>3. CASE k >= i /\ l >= i
    BY <2>1, <2>3, <1>5
  <2>4. CASE k < i /\ l >= i
    <3>1. k \in 1..Len(s) /\ l + 1 \in 1..Len(s) /\ s[k] = s[l + 1] /\ k # l + 1
      BY <2>4, <1>5
    <3> QED
      BY <2>1, <3>1
  <2>5. CASE k >= i /\ l < i
    <3>1. k + 1 \in 1..Len(s) /\ l \in 1..Len(s) /\ s[k + 1] = s[l] /\ k + 1 # l
      BY <2>5, <1>5
    <3> QED
      BY <2>1, <3>1
  <2> QED
    BY <2>2, <2>3, <2>4, <2>5
<1> QED
  BY <1>4, <1>6, <1>7, <1>8 DEF t, HasGone

\* What the page p of s shows after the rows that it skips.
IsPage(p, s, skip, take) ==
  /\ FirstRows(s, skip + take) \subseteq FirstRows(s, skip) \cup RowsIn(p)
  /\ LaterRows(s, skip) = RowsIn(p) \cup LaterRows(s, skip + take)
  /\ NoRowTwice(s) => RowsIn(p) \cap LaterRows(s, skip + take) = {}
  /\ Len(p) < take => RowsIn(s) \subseteq FirstRows(s, skip + take)
  /\ p # <<>> => skip + Len(p) <= Len(s)

\* The section of a listing that skip and take ask for is such a page.
LEMMA SectionFacts ==
  ASSUME NEW S, NEW s \in Seq(S), NEW skip \in Nat, NEW take \in Nat \ {0}, NEW p,
         p = SubSeq(s, skip + 1, Listing!Smaller(skip + take, Len(s)))
  PROVE  p \in Seq(S) /\ IsPage(p, s, skip, take)
<1> DEFINE n == Listing!Smaller(skip + take, Len(s))
<1>1. n \in Nat /\ n <= Len(s) /\ n <= skip + take /\ (n = Len(s) \/ n = skip + take)
  BY DEF Listing!Smaller
<1> HIDE DEF n
<1>2. /\ p \in Seq(S) /\ Len(p) = IF skip + 1 <= n THEN n - skip ELSE 0
      /\ \A k \in 1..Len(p) : p[k] = s[skip + k]
  BY <1>1 DEF n
<1>3. \A i \in 1..Len(s) : i > skip /\ i <= skip + take => s[i] \in RowsIn(p)
  <2> SUFFICES ASSUME NEW i \in 1..Len(s), i > skip, i <= skip + take
               PROVE  s[i] \in RowsIn(p)
    OBVIOUS
  <2>1. i - skip \in 1..Len(p) /\ p[i - skip] = s[i]
    BY <1>1, <1>2
  <2> QED
    BY <2>1 DEF RowsIn
<1>4. \A k \in 1..Len(p) :
        /\ skip + k \in 1..Len(s) /\ skip + k > skip /\ skip + k <= skip + take
        /\ p[k] = s[skip + k]
  BY <1>1, <1>2
<1>5. FirstRows(s, skip + take) \subseteq FirstRows(s, skip) \cup RowsIn(p)
  BY <1>3 DEF FirstRows
<1>6. LaterRows(s, skip) = RowsIn(p) \cup LaterRows(s, skip + take)
  <2>1. RowsIn(p) \subseteq LaterRows(s, skip)
    BY <1>4 DEF RowsIn, LaterRows
  <2>2. LaterRows(s, skip + take) \subseteq LaterRows(s, skip)
    BY DEF LaterRows
  <2>3. LaterRows(s, skip) \subseteq RowsIn(p) \cup LaterRows(s, skip + take)
    BY <1>3 DEF LaterRows
  <2> QED
    BY <2>1, <2>2, <2>3
<1>7. NoRowTwice(s) => RowsIn(p) \cap LaterRows(s, skip + take) = {}
  <2> SUFFICES ASSUME NoRowTwice(s), NEW k \in 1..Len(p), NEW i \in 1..Len(s), i > skip + take
               PROVE  p[k] # s[i]
    BY DEF RowsIn, LaterRows
  <2>1. skip + k \in 1..Len(s) /\ skip + k <= skip + take /\ p[k] = s[skip + k]
    BY <1>4
  <2>2. skip + k # i
    BY <2>1
  <2> QED
    BY <2>1, <2>2 DEF NoRowTwice
<1>8. Len(p) < take => RowsIn(s) \subseteq FirstRows(s, skip + take)
  BY <1>1, <1>2 DEF RowsIn, FirstRows
<1>9. p # <<>> => skip + Len(p) <= Len(s)
  BY <1>1, <1>2
<1> QED
  BY <1>2, <1>5, <1>6, <1>7, <1>8, <1>9 DEF IsPage

\* How far the reader has got: the rows up to there were shown to it or moved there.
Border == IF walk.step \in {"ask", "end"} THEN walk.skip ELSE walk.skip + walk.take
Unseen == {r \in 1..listed : seen[r] = 0}
WasSeen == {r \in Listing!RowIds : seen[r] > 0}
WholeRead == walk.step = "end" \/ (walk.step # "ask" /\ Len(walk.page) < walk.take)

\* Nothing is listed twice, and a row that is yet to come was not shown.
RowsApart ==
  /\ NoRowTwice(table) /\ RowsIn(table) \subseteq 1..Listing!Used /\ Listing!Used <= MaxRows
  /\ \A r \in Listing!RowIds : r > Listing!Used => seen[r] = 0

\* Only a deletion moves a row that was not shown to where the reader has been.
MissesBounded ==
  /\ Cardinality(Unseen \cap FirstRows(table, Border)) <= deleted
  /\ WholeRead => Cardinality(Unseen \cap RowsIn(table)) <= deleted

\* Only an insertion moves a row that was shown to where the reader has yet to go.
RepeatsBounded ==
  /\ IsFiniteSet(Listing!Repeats)
  /\ Cardinality(Listing!Repeats) + Cardinality(WasSeen \cap LaterRows(table, Border)) <= inserted

\* The rows that are about to be counted reach to the end of the page.
TotalBounded ==
  Listing!CountsAll /\ walk.page # <<>> =>
    /\ walk.step = "count" => walk.skip + Len(walk.page) <= Len(table) + vanished
    /\ walk.step = "answered" => walk.skip + Len(walk.page) <= walk.total + vanished

PagesInv == RowsApart /\ MissesBounded /\ RepeatsBounded /\ TotalBounded

\* A part is no larger than the whole,
LEMMA Fewer ==
  ASSUME NEW T, IsFiniteSet(T), NEW S, S \subseteq T
  PROVE  /\ IsFiniteSet(S) /\ Cardinality(S) \in Nat /\ Cardinality(T) \in Nat
         /\ Cardinality(S) <= Cardinality(T)
BY FS_Subset, FS_CardinalityType

\* and larger by one at most if it has one element more.
LEMMA OneMore ==
  ASSUME NEW T, IsFiniteSet(T), NEW S, NEW x, S \subseteq T \cup {x}
  PROVE  /\ IsFiniteSet(S) /\ Cardinality(S) \in Nat /\ Cardinality(T) \in Nat
         /\ Cardinality(S) <= Cardinality(T) + 1
<1>1. IsFiniteSet(T \cup {x}) /\ Cardinality(T \cup {x}) <= Cardinality(T) + 1
      /\ Cardinality(T) \in Nat
  BY FS_AddElement, FS_CardinalityType
<1>2. /\ IsFiniteSet(S) /\ Cardinality(S) \in Nat
      /\ Cardinality(S) <= Cardinality(T \cup {x}) /\ Cardinality(T \cup {x}) \in Nat
  BY <1>1, Fewer
<1> QED
  BY <1>1, <1>2

\* Types, spelt out.
LEMMA ListingTypes ==
  ASSUME Listing!TypeOK
  PROVE  /\ table \in Seq(1..MaxRows) /\ seen \in [1..MaxRows -> Nat]
         /\ walk.step \in {"ask", "count", "answered", "end"}
         /\ walk.skip \in Nat /\ walk.take \in Nat \ {0}
         /\ walk.page \in Seq(1..MaxRows) /\ walk.total \in Nat
         /\ walk = [step |-> walk.step, skip |-> walk.skip, take |-> walk.take,
                    page |-> walk.page, total |-> walk.total]
         /\ listed \in Nat /\ inserted \in Nat /\ deleted \in Nat /\ vanished \in Nat
         /\ MaxRows \in Nat /\ Border \in Nat
<1>1. /\ walk \in Listing!Walk /\ MaxRows \in Nat /\ MaxTake \in Nat
      /\ table \in Seq(1..MaxRows) /\ seen \in [1..MaxRows -> Nat]
      /\ listed \in Nat /\ inserted \in Nat /\ deleted \in Nat /\ vanished \in Nat
  BY BoundsAssumption DEF Listing!TypeOK, Listing!RowIds
<1>2. /\ walk.step \in {"ask", "count", "answered", "end"}
      /\ walk.skip \in Nat /\ walk.take \in 1..MaxTake
      /\ walk.page \in Seq(1..MaxRows) /\ walk.total \in Nat
      /\ walk = [step |-> walk.step, skip |-> walk.skip, take |-> walk.take,
                 page |-> walk.page, total |-> walk.total]
  BY <1>1 DEF Listing!Walk, Listing!RowIds
<1> QED
  BY <1>1, <1>2 DEF Border

\* What is counted is finite.
LEMMA CountedFinite ==
  ASSUME Listing!TypeOK, NEW S
  PROVE  IsFiniteSet(Unseen \cap S) /\ IsFiniteSet(WasSeen \cap S)
<1>1. MaxRows \in Nat /\ listed \in Nat
  BY ListingTypes
<1>2. IsFiniteSet(1..listed) /\ IsFiniteSet(1..MaxRows)
  BY <1>1, FS_Interval
<1>3. Unseen \cap S \subseteq 1..listed /\ WasSeen \cap S \subseteq 1..MaxRows
  BY DEF Unseen, WasSeen, Listing!RowIds
<1> QED
  BY <1>2, <1>3, Fewer

\* A walk begins with nothing shown,
LEMMA PagesStart == ASSUME Listing!Init PROVE PagesInv
<1>1. /\ listed \in 0..MaxRows /\ MaxRows \in Nat /\ table = [i \in 1..listed |-> i]
      /\ seen = [r \in 1..MaxRows |-> 0] /\ inserted = 0 /\ deleted = 0 /\ vanished = 0
      /\ walk.step = "ask" /\ walk.skip = 0 /\ walk.page = <<>>
  BY BoundsAssumption DEF Listing!Init, Listing!RowIds
<1>2. Len(table) = listed /\ Border = 0
  BY <1>1 DEF Border
<1>3. RowsApart
  BY <1>1, <1>2 DEF RowsApart, NoRowTwice, RowsIn, Listing!Used, Listing!RowIds
<1>4. FirstRows(table, Border) = {} /\ WasSeen = {} /\ ~WholeRead
  BY <1>1, <1>2 DEF FirstRows, WasSeen, WholeRead, Listing!RowIds
<1>5. Listing!Repeats = {}
  <2>1. \A r \in 1..MaxRows : 2..seen[r] = {}
    BY <1>1
  <2> QED
    BY <2>1 DEF Listing!Repeats, Listing!RowIds
<1>6. IsFiniteSet({}) /\ Cardinality({}) = 0
  BY FS_EmptySet
<1>7. Unseen \cap FirstRows(table, Border) = {} /\ WasSeen \cap LaterRows(table, Border) = {}
  BY <1>4
<1>8. MissesBounded
  <2>1. Cardinality(Unseen \cap FirstRows(table, Border)) = deleted
    BY <1>1, <1>6, <1>7, Zenon
  <2>2. deleted \in Nat
    BY <1>1
  <2> HIDE DEF Unseen
  <2> QED
    BY <2>1, <2>2, <1>4 DEF MissesBounded
<1>9. RepeatsBounded
  <2>1. /\ IsFiniteSet(Listing!Repeats) /\ Cardinality(Listing!Repeats) = 0
        /\ Cardinality(WasSeen \cap LaterRows(table, Border)) = 0
    BY <1>5, <1>6, <1>7, Zenon
  <2> QED
    BY <2>1, <1>1 DEF RepeatsBounded
<1>10. TotalBounded
  BY <1>1 DEF TotalBounded
<1> QED
  BY <1>3, <1>8, <1>9, <1>10 DEF PagesInv

\* a row that comes adds to what may be repeated,
LEMMA PagesInsert ==
  ASSUME Listing!TypeOK, PagesInv, Listing!Insert
  PROVE  PagesInv'
<1> DEFINE e == Listing!Used + 1
<1>1. PICK i \in 1..(Len(table) + 1) : table' = Listing!InsertAt(table, i, e)
  BY DEF Listing!Insert
<1>2. /\ Listing!Used < MaxRows /\ inserted' = inserted + 1
      /\ UNCHANGED <<listing, walk, seen, listed, deleted, vanished>>
  BY DEF Listing!Insert
<1>3. /\ table \in Seq(1..MaxRows) /\ listed \in Nat /\ inserted \in Nat /\ deleted \in Nat
      /\ Border \in Nat /\ MaxRows \in Nat /\ vanished \in Nat /\ walk.skip \in Nat
      /\ walk.page \in Seq(1..MaxRows)
  BY ListingTypes
<1>4. e \in 1..MaxRows /\ e \notin 1..Listing!Used /\ e \notin 1..listed /\ Listing!Used' = e
  BY <1>2, <1>3 DEF Listing!Used
<1>5. seen[e] = 0 /\ e \notin RowsIn(table) /\ NoRowTwice(table)
      /\ RowsIn(table) \subseteq 1..Listing!Used
  BY <1>3, <1>4 DEF PagesInv, RowsApart, Listing!RowIds, Listing!Used
<1> HIDE DEF e
<1>6. /\ Len(table') = Len(table) + 1
      /\ RowsIn(table') \subseteq RowsIn(table) \cup {e}
      /\ FirstRows(table', Border) \subseteq FirstRows(table, Border) \cup {e}
      /\ LaterRows(table', Border) \subseteq LaterRows(table, Border) \cup {e} \cup {table[Border]}
      /\ NoRowTwice(table')
  <2>1. PICK s, b, r : s = table /\ b = Border /\ r = e
    OBVIOUS
  <2>2. /\ s \in Seq(1..MaxRows) /\ i \in 1..(Len(s) + 1) /\ b \in Nat
        /\ r \in 1..MaxRows /\ NoRowTwice(s) /\ r \notin RowsIn(s)
    BY <2>1, <1>3, <1>4, <1>5
  <2>3. HasCome(Listing!InsertAt(s, i, r), s, r, b)
    BY <2>2, InsertFacts
  <2> QED
    BY <2>1, <2>2, <2>3, <1>1 DEF HasCome
<1>7. Border' = Border /\ Unseen' = Unseen /\ WasSeen' = WasSeen /\ WholeRead' = WholeRead
      /\ Listing!Repeats' = Listing!Repeats
  BY <1>2 DEF Border, Unseen, WasSeen, WholeRead, Listing!Repeats
<1>8. e \notin Unseen /\ e \notin WasSeen
  BY <1>4, <1>5 DEF Unseen, WasSeen
<1>9. RowsApart'
  <2>1. NoRowTwice(table)'
    BY <1>6 DEF NoRowTwice
  <2>2. RowsIn(table)' \subseteq 1..Listing!Used' /\ Listing!Used' <= MaxRows
    <3>1. RowsIn(table)' = RowsIn(table')
      BY DEF RowsIn
    <3>2. 1..Listing!Used \cup {e} \subseteq 1..Listing!Used'
      BY <1>3, <1>4 DEF e, Listing!Used
    <3> QED
      BY <3>1, <3>2, <1>4, <1>5, <1>6
  <2>3. \A r \in Listing!RowIds : r > Listing!Used' => seen'[r] = 0
    BY <1>2, <1>3, <1>4 DEF PagesInv, RowsApart, Listing!RowIds, Listing!Used
  <2> QED
    BY <2>1, <2>2, <2>3 DEF RowsApart, Listing!RowIds
<1>10. MissesBounded'
  <2>1. /\ Unseen \cap FirstRows(table', Border) \subseteq Unseen \cap FirstRows(table, Border)
        /\ Unseen \cap RowsIn(table') \subseteq Unseen \cap RowsIn(table)
    BY <1>6, <1>8
  <2>2. /\ Cardinality(Unseen \cap FirstRows(table', Border)) <= deleted
        /\ WholeRead => Cardinality(Unseen \cap RowsIn(table')) <= deleted
    <3>1. IsFiniteSet(Unseen \cap FirstRows(table, Border)) /\ IsFiniteSet(Unseen \cap RowsIn(table))
      BY CountedFinite
    <3>2. /\ Cardinality(Unseen \cap FirstRows(table', Border)) \in Nat
          /\ Cardinality(Unseen \cap FirstRows(table, Border)) \in Nat
          /\ Cardinality(Unseen \cap FirstRows(table', Border))
             <= Cardinality(Unseen \cap FirstRows(table, Border))
      BY <2>1, <3>1, Fewer
    <3>3. /\ Cardinality(Unseen \cap RowsIn(table')) \in Nat
          /\ Cardinality(Unseen \cap RowsIn(table)) \in Nat
          /\ Cardinality(Unseen \cap RowsIn(table')) <= Cardinality(Unseen \cap RowsIn(table))
      BY <2>1, <3>1, Fewer
    <3> QED
      BY <3>2, <3>3, <1>3 DEF PagesInv, MissesBounded
  <2>3. FirstRows(table, Border)' = FirstRows(table', Border) /\ RowsIn(table)' = RowsIn(table')
    BY <1>7 DEF FirstRows, RowsIn
  <2> QED
    BY <2>2, <2>3, <1>2, <1>7 DEF MissesBounded
<1>11. RepeatsBounded'
  <2>1. WasSeen \cap LaterRows(table', Border)
        \subseteq (WasSeen \cap LaterRows(table, Border)) \cup {table[Border]}
    BY <1>6, <1>8
  <2>2. IsFiniteSet(WasSeen \cap LaterRows(table, Border))
    BY CountedFinite
  <2>3. /\ Cardinality(WasSeen \cap LaterRows(table', Border)) \in Nat
        /\ Cardinality(WasSeen \cap LaterRows(table, Border)) \in Nat
        /\ Cardinality(WasSeen \cap LaterRows(table', Border))
           <= Cardinality(WasSeen \cap LaterRows(table, Border)) + 1
    BY <2>1, <2>2, OneMore
  <2>4. /\ IsFiniteSet(Listing!Repeats) /\ Cardinality(Listing!Repeats) \in Nat
        /\ Cardinality(Listing!Repeats) + Cardinality(WasSeen \cap LaterRows(table, Border)) <= inserted
    BY FS_CardinalityType DEF PagesInv, RepeatsBounded
  <2>5. Cardinality(Listing!Repeats) + Cardinality(WasSeen \cap LaterRows(table', Border)) <= inserted'
    BY <2>3, <2>4, <1>2, <1>3
  <2>6. LaterRows(table, Border)' = LaterRows(table', Border)
    BY <1>7 DEF LaterRows
  <2> QED
    BY <2>4, <2>5, <2>6, <1>7 DEF RepeatsBounded
<1>12. TotalBounded'
  BY <1>2, <1>3, <1>6 DEF PagesInv, TotalBounded, Listing!CountsAll
<1> QED
  BY <1>9, <1>10, <1>11, <1>12 DEF PagesInv

\* and a row that goes to what may be missed.
LEMMA PagesDelete ==
  ASSUME Listing!TypeOK, PagesInv, Listing!Delete
  PROVE  PagesInv'
<1>1. PICK i \in DOMAIN table : table' = Listing!RemoveAt(table, i)
  BY DEF Listing!Delete
<1>2. /\ deleted' = deleted + 1
      /\ vanished' = IF walk.step = "count" THEN vanished + 1 ELSE vanished
      /\ UNCHANGED <<listing, walk, seen, listed, inserted>>
  BY DEF Listing!Delete
<1>3. /\ table \in Seq(1..MaxRows) /\ listed \in Nat /\ inserted \in Nat /\ deleted \in Nat
      /\ Border \in Nat /\ MaxRows \in Nat /\ vanished \in Nat /\ walk.skip \in Nat
      /\ walk.page \in Seq(1..MaxRows)
  BY ListingTypes
<1>4. /\ Len(table') = Len(table) - 1
      /\ RowsIn(table') \subseteq RowsIn(table)
      /\ FirstRows(table', Border) \subseteq FirstRows(table, Border) \cup {table[Border + 1]}
      /\ LaterRows(table', Border) \subseteq LaterRows(table, Border)
      /\ NoRowTwice(table')
  <2>1. PICK s, b : s = table /\ b = Border
    OBVIOUS
  <2>2. /\ s \in Seq(1..MaxRows) /\ i \in 1..Len(s) /\ b \in Nat /\ NoRowTwice(s)
    BY <2>1, <1>1, <1>3 DEF PagesInv, RowsApart
  <2>3. HasGone(Listing!RemoveAt(s, i), s, b)
    BY <2>2, RemoveFacts
  <2> QED
    BY <2>1, <2>2, <2>3, <1>1 DEF HasGone
<1>5. Border' = Border /\ Unseen' = Unseen /\ WasSeen' = WasSeen /\ WholeRead' = WholeRead
      /\ Listing!Repeats' = Listing!Repeats /\ Listing!Used' = Listing!Used
  BY <1>2 DEF Border, Unseen, WasSeen, WholeRead, Listing!Repeats, Listing!Used
<1>6. /\ FirstRows(table, Border)' = FirstRows(table', Border)
      /\ LaterRows(table, Border)' = LaterRows(table', Border)
      /\ RowsIn(table)' = RowsIn(table')
  BY <1>5 DEF FirstRows, LaterRows, RowsIn
<1>7. RowsApart'
  <2>1. NoRowTwice(table)'
    BY <1>4 DEF NoRowTwice
  <2> QED
    BY <2>1, <1>2, <1>4, <1>5, <1>6 DEF PagesInv, RowsApart, Listing!RowIds
<1>8. MissesBounded'
  <2>1. /\ Unseen \cap FirstRows(table', Border)
           \subseteq (Unseen \cap FirstRows(table, Border)) \cup {table[Border + 1]}
        /\ Unseen \cap RowsIn(table') \subseteq Unseen \cap RowsIn(table)
    BY <1>4
  <2>2. IsFiniteSet(Unseen \cap FirstRows(table, Border)) /\ IsFiniteSet(Unseen \cap RowsIn(table))
    BY CountedFinite
  <2>3. /\ Cardinality(Unseen \cap FirstRows(table', Border)) \in Nat
        /\ Cardinality(Unseen \cap FirstRows(table, Border)) \in Nat
        /\ Cardinality(Unseen \cap FirstRows(table', Border))
           <= Cardinality(Unseen \cap FirstRows(table, Border)) + 1
    BY <2>1, <2>2, OneMore
  <2>4. /\ Cardinality(Unseen \cap RowsIn(table')) \in Nat
        /\ Cardinality(Unseen \cap RowsIn(table)) \in Nat
        /\ Cardinality(Unseen \cap RowsIn(table')) <= Cardinality(Unseen \cap RowsIn(table))
    BY <2>1, <2>2, Fewer
  <2>5. /\ Cardinality(Unseen \cap FirstRows(table', Border)) <= deleted'
        /\ WholeRead => Cardinality(Unseen \cap RowsIn(table')) <= deleted'
    BY <2>3, <2>4, <1>2, <1>3 DEF PagesInv, MissesBounded
  <2> QED
    BY <2>5, <1>5, <1>6 DEF MissesBounded
<1>9. RepeatsBounded'
  <2>1. WasSeen \cap LaterRows(table', Border) \subseteq WasSeen \cap LaterRows(table, Border)
    BY <1>4
  <2>2. IsFiniteSet(WasSeen \cap LaterRows(table, Border))
    BY CountedFinite
  <2>3. /\ Cardinality(WasSeen \cap LaterRows(table', Border)) \in Nat
        /\ Cardinality(WasSeen \cap LaterRows(table, Border)) \in Nat
        /\ Cardinality(WasSeen \cap LaterRows(table', Border))
           <= Cardinality(WasSeen \cap LaterRows(table, Border))
    BY <2>1, <2>2, Fewer
  <2>4. /\ IsFiniteSet(Listing!Repeats) /\ Cardinality(Listing!Repeats) \in Nat
        /\ Cardinality(Listing!Repeats) + Cardinality(WasSeen \cap LaterRows(table, Border)) <= inserted
    BY FS_CardinalityType DEF PagesInv, RepeatsBounded
  <2>5. Cardinality(Listing!Repeats) + Cardinality(WasSeen \cap LaterRows(table', Border)) <= inserted'
    BY <2>3, <2>4, <1>2, <1>3
  <2> QED
    BY <2>4, <2>5, <1>5, <1>6 DEF RepeatsBounded
<1>10. TotalBounded'
  <2> SUFFICES ASSUME Listing!CountsAll, walk.page # <<>>
               PROVE  /\ walk.step = "count" => walk.skip + Len(walk.page) <= Len(table') + vanished'
                      /\ walk.step = "answered" =>
                           walk.skip + Len(walk.page) <= walk.total + vanished'
    BY <1>2 DEF TotalBounded, Listing!CountsAll
  <2>1. Len(walk.page) \in Nat /\ Len(table) \in Nat
    BY <1>3
  <2> QED
    BY <2>1, <1>2, <1>3, <1>4 DEF PagesInv, TotalBounded
<1> QED
  BY <1>7, <1>8, <1>9, <1>10 DEF PagesInv

\* The count and the turning of a page move neither rows nor the border.
LEMMA PagesTurn ==
  ASSUME Listing!TypeOK, PagesInv, Listing!CountRows \/ Listing!TurnPage
  PROVE  PagesInv'
<1>1. /\ walk.skip \in Nat /\ walk.take \in Nat /\ Len(table) \in Nat /\ vanished \in Nat
      /\ walk = [step |-> walk.step, skip |-> walk.skip, take |-> walk.take,
                 page |-> walk.page, total |-> walk.total]
  BY ListingTypes
<1>2. UNCHANGED <<listing, table, seen, listed, inserted, deleted, vanished>>
  BY DEF Listing!CountRows, Listing!TurnPage
<1>3. \/ /\ walk.step = "count" /\ walk'.step = "answered" /\ walk'.skip = walk.skip
         /\ walk'.take = walk.take /\ walk'.page = walk.page /\ walk'.total = Len(table)
      \/ /\ walk.step = "answered" /\ walk'.skip = walk.skip + walk.take /\ walk'.page = <<>>
         /\ walk'.step = IF Len(walk.page) < walk.take THEN "end" ELSE "ask"
  BY <1>1 DEF Listing!CountRows, Listing!TurnPage, Listing!Count
<1>4. Border' = Border /\ (WholeRead' => WholeRead)
  BY <1>1, <1>3 DEF Border, WholeRead
<1>5. Unseen' = Unseen /\ WasSeen' = WasSeen /\ Listing!Repeats' = Listing!Repeats
      /\ Listing!Used' = Listing!Used
  BY <1>2 DEF Unseen, WasSeen, Listing!Repeats, Listing!Used
<1>6. /\ FirstRows(table, Border)' = FirstRows(table, Border)
      /\ LaterRows(table, Border)' = LaterRows(table, Border)
      /\ RowsIn(table)' = RowsIn(table) /\ NoRowTwice(table)' = NoRowTwice(table)
  BY <1>2, <1>4 DEF FirstRows, LaterRows, RowsIn, NoRowTwice
<1>7. RowsApart'
  BY <1>2, <1>5, <1>6 DEF PagesInv, RowsApart
<1>8. MissesBounded'
  BY <1>2, <1>4, <1>5, <1>6 DEF PagesInv, MissesBounded
<1>9. RepeatsBounded'
  BY <1>2, <1>5, <1>6 DEF PagesInv, RepeatsBounded
<1>10. TotalBounded'
  BY <1>1, <1>2, <1>3 DEF PagesInv, TotalBounded, Listing!CountsAll
<1> QED
  BY <1>7, <1>8, <1>9, <1>10 DEF PagesInv

\* A page adds a repeat for each of its rows that was shown before.
LEMMA RepeatsAdd ==
  ASSUME NEW R, NEW old \in [R -> Nat], NEW new \in [R -> Nat], NEW P, IsFiniteSet(P),
         P \subseteq R,
         \A r \in R : new[r] = IF r \in P THEN old[r] + 1 ELSE old[r],
         IsFiniteSet(UNION {{r} \X (2..old[r]) : r \in R})
  PROVE  LET Again(s) == UNION {{r} \X (2..s[r]) : r \in R}
             K == {r \in R : old[r] > 0} \cap P
         IN  /\ IsFiniteSet(Again(new))
             /\ Cardinality(Again(new)) <= Cardinality(Again(old)) + Cardinality(K)
<1> DEFINE Again(s) == UNION {{r} \X (2..s[r]) : r \in R}
           K == {r \in R : old[r] > 0} \cap P
           More == {<<r, old[r] + 1>> : r \in K}
           name == [x \in More |-> x[1]]
<1>1. Again(new) \subseteq Again(old) \cup More
  <2> SUFFICES ASSUME NEW r \in R, NEW n \in 2..new[r], <<r, n>> \notin Again(old)
               PROVE  <<r, n>> \in More
    OBVIOUS
  <2>1. n \notin 2..old[r]
    OBVIOUS
  <2>2. r \in P /\ n = old[r] + 1 /\ old[r] > 0
    BY <2>1
  <2> QED
    BY <2>2
<1>2. IsFiniteSet(K) /\ Cardinality(K) \in Nat
  BY FS_Intersection, FS_CardinalityType
<1>3. name \in Injection(More, K)
  <2>1. \A x \in More : x[1] \in K /\ x = <<x[1], old[x[1]] + 1>>
    OBVIOUS
  <2>2. name \in [More -> K]
    BY <2>1
  <2>3. \A x, y \in More : name[x] = name[y] => x = y
    BY <2>1
  <2> QED
    BY <2>2, <2>3 DEF Injection, IsInjective
<1>4. IsFiniteSet(More) /\ Cardinality(More) <= Cardinality(K)
  BY <1>2, <1>3, FS_Injection
<1>5. IsFiniteSet(Again(old)) /\ Cardinality(Again(old)) \in Nat
  BY FS_CardinalityType
<1> HIDE DEF Again, K, More
<1>6. /\ IsFiniteSet(Again(old) \cup More)
      /\ Cardinality(Again(old) \cup More) <= Cardinality(Again(old)) + Cardinality(More)
  <2>1. /\ IsFiniteSet(Again(old) \cup More)
        /\ Cardinality(Again(old) \cup More)
           = Cardinality(Again(old)) + Cardinality(More) - Cardinality(Again(old) \cap More)
    BY <1>4, <1>5, FS_Union
  <2>2. Cardinality(Again(old) \cap More) \in Nat /\ Cardinality(More) \in Nat
    BY <1>4, FS_Intersection, FS_CardinalityType
  <2> QED
    BY <2>1, <2>2, <1>5
<1>7. /\ IsFiniteSet(Again(new)) /\ Cardinality(Again(new)) \in Nat
      /\ Cardinality(Again(new)) <= Cardinality(Again(old) \cup More)
      /\ Cardinality(Again(old) \cup More) \in Nat
  BY <1>1, <1>6, Fewer
<1>8. Cardinality(More) \in Nat
  BY <1>4, FS_CardinalityType
<1>9. Cardinality(Again(new)) <= Cardinality(Again(old)) + Cardinality(K)
  BY <1>2, <1>4, <1>5, <1>6, <1>7, <1>8
<1> QED
  BY <1>7, <1>9 DEF Again, K

\* What a page repeats was ahead of the reader and is not any more.
LEMMA PagesRead ==
  ASSUME Listing!TypeOK, PagesInv, Listing!Paged, Listing!ReadPage
  PROVE  PagesInv'
<1> DEFINE p == Listing!Page
           b == walk.skip + walk.take
<1>1. /\ table \in Seq(1..MaxRows) /\ seen \in [1..MaxRows -> Nat]
      /\ walk.skip \in Nat /\ walk.take \in Nat \ {0} /\ b \in Nat /\ MaxRows \in Nat
      /\ listed \in Nat /\ inserted \in Nat /\ deleted \in Nat
      /\ walk = [step |-> walk.step, skip |-> walk.skip, take |-> walk.take,
                 page |-> walk.page, total |-> walk.total]
  BY ListingTypes
<1>2. p = SubSeq(table, walk.skip + 1, Listing!Smaller(walk.skip + walk.take, Len(table)))
  BY DEF Listing!Page, Listing!Section, Listing!Paged
<1> HIDE DEF p
<1>3. /\ p \in Seq(1..MaxRows)
      /\ FirstRows(table, b) \subseteq FirstRows(table, walk.skip) \cup RowsIn(p)
      /\ LaterRows(table, walk.skip) = RowsIn(p) \cup LaterRows(table, b)
      /\ RowsIn(p) \cap LaterRows(table, b) = {}
      /\ Len(p) < walk.take => RowsIn(table) \subseteq FirstRows(table, b)
      /\ p # <<>> => walk.skip + Len(p) <= Len(table)
  <2>1. PICK s, skip, take, q : s = table /\ skip = walk.skip /\ take = walk.take /\ q = p
    OBVIOUS
  <2>2. /\ s \in Seq(1..MaxRows) /\ skip \in Nat /\ take \in Nat \ {0} /\ NoRowTwice(s)
        /\ q = SubSeq(s, skip + 1, Listing!Smaller(skip + take, Len(s)))
    BY <2>1, <1>1, <1>2 DEF PagesInv, RowsApart
  <2>3. q \in Seq(1..MaxRows) /\ IsPage(q, s, skip, take)
    BY <2>2, SectionFacts
  <2> QED
    BY <2>1, <2>2, <2>3 DEF IsPage
<1>4. /\ walk.step = "ask" /\ walk'.step = (IF Listing!CountsAll THEN "count" ELSE "answered")
      /\ walk'.skip = walk.skip /\ walk'.take = walk.take /\ walk'.page = p
      /\ seen' = Listing!Shown(p) /\ vanished' = 0
      /\ UNCHANGED <<listing, table, listed, inserted, deleted>>
  BY <1>1 DEF Listing!ReadPage, p
<1>5. RowsIn(p) \subseteq 1..MaxRows /\ Listing!ToSet(p) = RowsIn(p)
  <2>1. PICK q : q = p /\ q \in Seq(1..MaxRows)
    BY <1>3
  <2>2. DOMAIN q = 1..Len(q) /\ \A i \in 1..Len(q) : q[i] \in 1..MaxRows
    BY <2>1, ElementOfSeq, LenProperties
  <2> QED
    BY <2>1, <2>2 DEF RowsIn, Listing!ToSet
<1>6. /\ seen' \in [1..MaxRows -> Nat]
      /\ \A r \in 1..MaxRows : seen'[r] = IF r \in RowsIn(p) THEN seen[r] + 1 ELSE seen[r]
  BY <1>1, <1>4, <1>5 DEF Listing!Shown, Listing!RowIds
<1>7. Border = walk.skip /\ Border' = b /\ (WholeRead' => Len(p) < walk.take)
  BY <1>4 DEF Border, WholeRead
<1>8. /\ FirstRows(table, Border)' = FirstRows(table, b)
      /\ LaterRows(table, Border)' = LaterRows(table, b)
      /\ RowsIn(table)' = RowsIn(table) /\ NoRowTwice(table)' = NoRowTwice(table)
      /\ Listing!Used' = Listing!Used
  BY <1>4, <1>7 DEF FirstRows, LaterRows, RowsIn, NoRowTwice, Listing!Used
<1>9. RowsIn(p) \subseteq 1..Listing!Used
  BY <1>3 DEF PagesInv, RowsApart, RowsIn, LaterRows
<1>10. RowsApart'
  <2>1. \A r \in Listing!RowIds : r > Listing!Used => seen'[r] = 0
    BY <1>1, <1>6, <1>9 DEF PagesInv, RowsApart, Listing!RowIds, Listing!Used
  <2> QED
    BY <2>1, <1>8 DEF PagesInv, RowsApart, Listing!RowIds
<1>11. MissesBounded'
  <2>1. Unseen' \subseteq Unseen \ RowsIn(p)
    <3>1. 1..listed \subseteq 1..MaxRows
      BY <1>1 DEF PagesInv, RowsApart, Listing!Used
    <3> QED
      BY <3>1, <1>1, <1>4, <1>6 DEF Unseen
  <2>2. Unseen' \cap FirstRows(table, b) \subseteq Unseen \cap FirstRows(table, walk.skip)
    BY <2>1, <1>3
  <2>3. IsFiniteSet(Unseen \cap FirstRows(table, walk.skip))
    BY CountedFinite
  <2>4. /\ Cardinality(Unseen' \cap FirstRows(table, b)) \in Nat
        /\ IsFiniteSet(Unseen' \cap FirstRows(table, b))
        /\ Cardinality(Unseen \cap FirstRows(table, walk.skip)) \in Nat
        /\ Cardinality(Unseen' \cap FirstRows(table, b))
           <= Cardinality(Unseen \cap FirstRows(table, walk.skip))
    BY <2>2, <2>3, Fewer
  <2>5. Cardinality(Unseen' \cap FirstRows(table, b)) <= deleted
    BY <2>4, <1>1, <1>7 DEF PagesInv, MissesBounded
  <2>6. ASSUME WholeRead' PROVE Cardinality(Unseen' \cap RowsIn(table)) <= deleted
    <3>1. Unseen' \cap RowsIn(table) \subseteq Unseen' \cap FirstRows(table, b)
      BY <2>6, <1>3, <1>7
    <3>2. /\ Cardinality(Unseen' \cap RowsIn(table)) \in Nat
          /\ Cardinality(Unseen' \cap RowsIn(table)) <= Cardinality(Unseen' \cap FirstRows(table, b))
      BY <3>1, <2>4, Fewer
    <3> QED
      BY <3>2, <2>4, <2>5, <1>1
  <2> QED
    BY <2>5, <2>6, <1>4, <1>8 DEF MissesBounded
<1>12. RepeatsBounded'
  <2> DEFINE K == WasSeen \cap RowsIn(p)
  <2>1. IsFiniteSet(RowsIn(p))
    <3>1. 1 \in Int /\ MaxRows \in Int
      BY <1>1
    <3>2. IsFiniteSet(1..MaxRows)
      BY <3>1, FS_Interval, Zenon
    <3> QED
      BY <3>2, <1>5, Fewer
  <2>2. /\ IsFiniteSet(Listing!Repeats) /\ Cardinality(Listing!Repeats) \in Nat
        /\ Cardinality(Listing!Repeats) + Cardinality(WasSeen \cap LaterRows(table, walk.skip))
           <= inserted
    BY <1>7, FS_CardinalityType DEF PagesInv, RepeatsBounded
  <2>3. /\ IsFiniteSet(Listing!Repeats')
        /\ Cardinality(Listing!Repeats') <= Cardinality(Listing!Repeats) + Cardinality(K)
    <3>1. PICK old, new, P, R : old = seen /\ new = seen' /\ P = RowsIn(p) /\ R = 1..MaxRows
      OBVIOUS
    <3>2. /\ old \in [R -> Nat] /\ new \in [R -> Nat] /\ IsFiniteSet(P) /\ P \subseteq R
          /\ \A r \in R : new[r] = IF r \in P THEN old[r] + 1 ELSE old[r]
      BY <3>1, <2>1, <1>1, <1>5, <1>6
    <3>3. /\ Listing!Repeats = UNION {{r} \X (2..old[r]) : r \in R}
          /\ Listing!Repeats' = UNION {{r} \X (2..new[r]) : r \in R}
      BY <3>1 DEF Listing!Repeats, Listing!RowIds
    <3>4. K = {r \in R : old[r] > 0} \cap P
      BY <3>1 DEF WasSeen, Listing!RowIds
    <3>5. IsFiniteSet(UNION {{r} \X (2..old[r]) : r \in R})
      BY <3>3, <2>2
    <3>6. /\ IsFiniteSet(UNION {{r} \X (2..new[r]) : r \in R})
          /\ Cardinality(UNION {{r} \X (2..new[r]) : r \in R})
             <= Cardinality(UNION {{r} \X (2..old[r]) : r \in R})
                + Cardinality({r \in R : old[r] > 0} \cap P)
      BY <3>2, <3>5, RepeatsAdd
    <3> QED
      BY <3>3, <3>4, <3>6
  <2>4. WasSeen' \cap LaterRows(table, b) = WasSeen \cap LaterRows(table, b)
    <3>1. \A r \in 1..MaxRows : r \notin RowsIn(p) => (seen'[r] > 0 <=> seen[r] > 0)
      BY <1>6
    <3>2. \A r \in LaterRows(table, b) : r \notin RowsIn(p)
      BY <1>3
    <3> QED
      BY <3>1, <3>2 DEF WasSeen, Listing!RowIds
  <2>5. /\ WasSeen \cap LaterRows(table, walk.skip) = K \cup (WasSeen \cap LaterRows(table, b))
        /\ K \cap (WasSeen \cap LaterRows(table, b)) = {}
    BY <1>3
  <2>6. IsFiniteSet(K) /\ IsFiniteSet(WasSeen \cap LaterRows(table, b))
    BY CountedFinite
  <2> HIDE DEF K
  <2>7. /\ Cardinality(WasSeen \cap LaterRows(table, walk.skip))
           = Cardinality(K) + Cardinality(WasSeen \cap LaterRows(table, b))
        /\ Cardinality(K) \in Nat /\ Cardinality(WasSeen \cap LaterRows(table, b)) \in Nat
    <3>1. PICK A, B : A = K /\ B = WasSeen \cap LaterRows(table, b)
      OBVIOUS
    <3>2. Cardinality(A \cup B) = Cardinality(A) + Cardinality(B) - Cardinality(A \cap B)
      BY <3>1, <2>6, FS_Union
    <3>3. Cardinality(A \cap B) = 0
      BY <3>1, <2>5, FS_EmptySet
    <3>4. Cardinality(A) \in Nat /\ Cardinality(B) \in Nat
      BY <3>1, <2>6, FS_CardinalityType
    <3>5. Cardinality(A \cup B) = Cardinality(A) + Cardinality(B)
      BY <3>2, <3>3, <3>4
    <3> QED
      BY <3>1, <3>4, <3>5, <2>5
  <2>8. Cardinality(Listing!Repeats') \in Nat
    BY <2>3, FS_CardinalityType
  <2>9. Cardinality(Listing!Repeats') + Cardinality(WasSeen' \cap LaterRows(table, b)) <= inserted
    <3>1. Cardinality(WasSeen' \cap LaterRows(table, b)) = Cardinality(WasSeen \cap LaterRows(table, b))
      BY <2>4
    <3> QED
      BY <3>1, <2>2, <2>3, <2>7, <2>8, <1>1
  <2> QED
    BY <2>3, <2>9, <1>4, <1>8 DEF RepeatsBounded
<1>13. TotalBounded'
  BY <1>1, <1>3, <1>4 DEF TotalBounded, Listing!CountsAll
<1> QED
  BY <1>10, <1>11, <1>12, <1>13 DEF PagesInv

\* Pages that are read while a table changes add up to what was there: a walk misses
\* a row for each that was deleted at most and repeats one for each that was inserted
\* at most, for any number of rows and any size of a page; and a total covers the
\* pages up to it but for what was deleted while it was counted.
THEOREM PagesAlwaysAddUp == Spec => []PagesAddUp
<1>1. Listing!Init => (Listing!Paged => PagesInv)
  BY PagesStart
<1>2. Listing!TypeOK /\ (Listing!Paged => PagesInv) /\ [Listing!Next]_(Listing!vars)
        => (Listing!Paged => PagesInv)'
  <2> SUFFICES ASSUME Listing!TypeOK, Listing!Paged => PagesInv,
                      [Listing!Next]_(Listing!vars), Listing!Paged'
               PROVE  PagesInv'
    OBVIOUS
  <2>1. listing' = listing
    BY DEF Listing!Next, Listing!ReadPage, Listing!CountRows, Listing!TurnPage,
           Listing!Insert, Listing!Delete, Listing!vars
  <2>2. Listing!Paged /\ PagesInv
    BY <2>1 DEF Listing!Paged
  <2>3. CASE Listing!ReadPage
    BY <2>2, <2>3, PagesRead
  <2>4. CASE Listing!CountRows \/ Listing!TurnPage
    BY <2>2, <2>4, PagesTurn
  <2>5. CASE Listing!Insert
    BY <2>2, <2>5, PagesInsert
  <2>6. CASE Listing!Delete
    BY <2>2, <2>6, PagesDelete
  <2>7. CASE UNCHANGED Listing!vars
    <3>1. UNCHANGED <<listing, table, walk, seen, listed, inserted, deleted, vanished>>
      BY <2>7 DEF Listing!vars
    <3>2. Border' = Border
      BY <3>1 DEF Border
    <3> QED
      BY <2>2, <3>1, <3>2
         DEF PagesInv, RowsApart, MissesBounded, RepeatsBounded, TotalBounded, NoRowTwice,
             RowsIn, FirstRows, LaterRows, Unseen, WasSeen, WholeRead, Listing!Repeats,
             Listing!Used, Listing!RowIds, Listing!CountsAll
  <2> QED
    BY <2>3, <2>4, <2>5, <2>6, <2>7 DEF Listing!Next
<1>3. Listing!TypeOK /\ (Listing!Paged => PagesInv) => PagesAddUp
  <2> SUFFICES ASSUME Listing!TypeOK, Listing!Paged => PagesInv
               PROVE  Listing!WalksMissAndRepeatLittle /\ Listing!TotalCoversPages
    BY DEF PagesAddUp, Listing!PagesAddUp
  <2>1. ASSUME Listing!Paged PROVE Listing!WalksMissAndRepeatLittle
    <3>1. RowsApart /\ MissesBounded /\ RepeatsBounded
      BY <2>1 DEF PagesInv
    <3>2. /\ inserted \in Nat /\ deleted \in Nat
          /\ DOMAIN table = 1..Len(table)
      BY ListingTypes
    <3>3. Listing!Missed = Unseen \cap RowsIn(table)
      BY <3>2 DEF Listing!Missed, Listing!ToSet, Unseen, RowsIn
    <3>4. walk.step = "end" => Cardinality(Listing!Missed) <= deleted
      BY <3>1, <3>3 DEF MissesBounded, WholeRead
    <3>5. Cardinality(Listing!Repeats) <= inserted
      <4>1. IsFiniteSet(WasSeen \cap LaterRows(table, Border))
        BY CountedFinite
      <4>2. /\ Cardinality(WasSeen \cap LaterRows(table, Border)) \in Nat
            /\ Cardinality(Listing!Repeats) \in Nat
        BY <3>1, <4>1, FS_CardinalityType DEF RepeatsBounded
      <4> QED
        BY <3>1, <3>2, <4>2 DEF RepeatsBounded
    <3>6. \A S : Listing!Cardinality(S) = Cardinality(S)
      BY DEF Listing!Cardinality, Cardinality
    <3> QED
      BY <3>4, <3>5, <3>6 DEF Listing!WalksMissAndRepeatLittle
  <2>2. Listing!TotalCoversPages
    BY DEF PagesInv, TotalBounded, Listing!TotalCoversPages, Listing!CountsAll, Listing!Paged
  <2>3. ~Listing!Paged => Listing!WalksMissAndRepeatLittle
    BY DEF Listing!WalksMissAndRepeatLittle
  <2> QED
    BY <2>1, <2>2, <2>3
<1> QED
  BY <1>1, <1>2, <1>3, ListingRuns, ListingTyped, PTL DEF Listing!Spec

================================================================================
