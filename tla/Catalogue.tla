------------------------------ MODULE Catalogue ------------------------------
(***************************************************************************)
(* The queries of the product service.  Categories and products are rows of *)
(* one DynamoDB table and share the index by category name; a Limit counts  *)
(* the rows that are read, before any are left out.  The token of a next   *)
(* page is made a string and never a key again, so that only first pages   *)
(* are ever answered: tokens are what is left of paging.                   *)
(*                                                                         *)
(* A query changes nothing: it is the set of answers it may get, over every *)
(* order the table may have its rows in.  What a list is, the first row of *)
(* its page decides (resolveType); what products are called is left open.  *)
(***************************************************************************)
EXTENDS Naturals, FiniteSets

CONSTANTS
  Ids, Names,  \* of categories; a product is in a category by its name
  Products,    \* ids of products
  Limits       \* what readers ask for: positive numbers

VARIABLES
  rows, nameOf, gone,  \* those of CategoryStore
  productRows          \* the rows of ProductCatalog

CategoryRow == [kind : {"category"}, id : Ids, name : Names]
ProductRow == [kind : {"product"}, id : Products, name : Names]

Categories == {r \in CategoryRow : rows[<<r.id, r.name>>] # "absent"}
Listed == {r \in ProductRow : <<r.id, r.name>> \in productRows}
Table == Categories \cup Listed

\* The rows of both kinds that name a category, and the products of a name.
CATEGORYNAMEINDEX(n) == {r \in Table : r.name = n}
PRODUCTNAMEINDEX(called) == {r \in Listed : r.id \in called}

-----------------------------------------------------------------------------
(***************************************************************************)
(* Answers                                                                 *)
(***************************************************************************)
\* What a list is taken for when this row is its first.
TypeOf(r) ==
  IF r.kind = "product" THEN "PaginationProductResponse"
  ELSE IF rows[<<r.id, r.name>>] = "full" THEN "PaginationCategoryResponse"
  ELSE "error"

\* An empty page has no first row to look at.
Types(page) == IF page = {} THEN {"error"} ELSE {TypeOf(r) : r \in page}

\* What a read that stops at the limit may have read, whatever the order.
Smaller(a, b) == IF a < b THEN a ELSE b
Reads(from, limit) ==
  {read \in SUBSET from : Cardinality(read) = Smaller(limit, Cardinality(from))}

\* Mutant of Filtered: what was read is answered as it is.
Unfiltered(read, kept) == read

\* FilterExpression, or a filter of the service's own: after the read.
Filtered(read, kept) == read \cap kept

Pages(from, limit, kept) == {Filtered(read, kept) : read \in Reads(from, limit)}

NoLimit == Cardinality(Table) + 1

getAllProducts(limit) == Pages(Table, limit, Listed)
\* Query by the partition key alone, one row at most.
FirstRow(p) == Reads({r \in Listed : r.id = p}, 1)
getProductById(p) == FirstRow(p)       \* none is answered with null
getProductByIdDirect(p) == FirstRow(p)
\* What other services' references to a product resolve to; none is an error.
Referenced(p) == getProductByIdDirect(p) \ {{}}
getProductByName(called, limit) == Pages(PRODUCTNAMEINDEX(called), limit, Listed)
getProductByNameStartsWith(called, limit) == Pages(Table, limit, PRODUCTNAMEINDEX(called))
getProductsByCategoryName(n, limit) == Pages(CATEGORYNAMEINDEX(n), limit, Listed)
\* Neither the limit nor the token reach the query.
getCategories == Pages(Table, NoLimit, Categories)
getCategoryByName(n) == Pages(CATEGORYNAMEINDEX(n), 1, Table)

-----------------------------------------------------------------------------
(***************************************************************************)
(* Properties                                                              *)
(***************************************************************************)
\* Every answer is a list of what was asked for, but for a reason.
Answered(pages, type, reason) == reason \/ \A page \in pages : Types(page) = {type}

\* The rows that an update made under a name its category does not have.
Misnamed == {r \in Categories : r.id \in gone \/ r.name # nameOf[r.id]}

\* Rows are read before they are filtered, so products that are there can go
\* unlisted; but only when there are none, or when as many rows that are none fill
\* the page.  Categories go unlisted only when there are none, or when some update
\* named one as it is not called: a row without an id spoils the list of the others.
ListingsFailForAReason ==
  /\ \A p \in Products :
       {} \in getProductById(p) => {r \in Listed : r.id = p} = {}
  /\ \A limit \in Limits :
    /\ Answered(getAllProducts(limit), "PaginationProductResponse",
                Listed = {} \/ limit <= Cardinality(Categories))
    /\ \A called \in SUBSET Products :
         LET named == PRODUCTNAMEINDEX(called)
         IN /\ Answered(getProductByName(called, limit), "PaginationProductResponse", named = {})
            /\ Answered(getProductByNameStartsWith(called, limit), "PaginationProductResponse",
                        named = {} \/ limit <= Cardinality(Table \ named))
    /\ \A n \in Names :
         LET named == CATEGORYNAMEINDEX(n)
         IN /\ Answered(getProductsByCategoryName(n, limit), "PaginationProductResponse",
                        named \cap Listed = {} \/ limit <= Cardinality(named \cap Categories))
            /\ Answered(getCategoryByName(n), "PaginationCategoryResponse",
                        named = {} \/ named \cap (Listed \cup Misnamed) # {})
    /\ Answered(getCategories, "PaginationCategoryResponse",
                Categories = {} \/ Misnamed # {})

\* What a list shows of a product is what its id and every reference to it lead to.
ListsShowTheProduct ==
  \A limit \in Limits : \A page \in getAllProducts(limit) : \A r \in page :
    getProductById(r.id) = {{r}} /\ Referenced(r.id) = {{r}}

\* Lists and the answers about one product agree, and lists fail for a reason.
QueriesAgree == ListsShowTheProduct /\ ListingsFailForAReason

=============================================================================
