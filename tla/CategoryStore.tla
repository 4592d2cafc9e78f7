---------------------------- MODULE CategoryStore ----------------------------
(***************************************************************************)
(* The categories of the product service, in a DynamoDB table whose key is *)
(* the id and the name together.  An update names both, and DynamoDB makes *)
(* a row of what it is given when there is none: a ghost, which has a name *)
(* and no categoryId.                                                      *)
(*                                                                         *)
(* Every operation is one statement.  That the statement fails, fails after *)
(* it took effect, or that the read which follows an update finds nothing,  *)
(* changes the answer and not the table.                                    *)
(***************************************************************************)
EXTENDS Naturals

CONSTANTS
  Ids,       \* ids of categories (uuid: never used twice)
  Names,     \* names of categories
  MaxCalls   \* bound: calls in a behaviour

VARIABLES
  rows,   \* what is stored under each id and name
  nameOf, \* history: the name each category was created under
  gone,   \* history: categories that were deleted
  made    \* what the bound counts

vars == <<rows, nameOf, gone, made>>

Key == Ids \X Names
Content == {"absent", "full", "ghost"}

TypeOK ==
  /\ rows \in [Key -> Content]
  /\ DOMAIN nameOf \subseteq Ids
  /\ nameOf \in [DOMAIN nameOf -> Names]
  /\ gone \subseteq Ids
  /\ made \in Nat

\* Categories may have been created before, and none was deleted yet.
Init ==
  /\ \E S \in SUBSET Ids : nameOf \in [S -> Names]
  /\ rows = [k \in Key |-> IF k[1] \in DOMAIN nameOf /\ k[2] = nameOf[k[1]]
                           THEN "full" ELSE "absent"]
  /\ gone = {}
  /\ made = 0

CallMade == made < MaxCalls /\ made' = made + 1

CreateCategory(i, n) ==
  /\ CallMade
  /\ i \notin DOMAIN nameOf
  /\ rows[<<i, n>>] = "absent"
  /\ rows' = [rows EXCEPT ![<<i, n>>] = "full"]
  /\ nameOf' = [j \in DOMAIN nameOf \cup {i} |-> IF j = i THEN n ELSE nameOf[j]]
  /\ UNCHANGED gone

\* Mutants of SetFields: an update that stores the categoryId too, and one that
\* puts what it is given in place of the row.
SetAllFields(content) == "full"
ReplaceFields(content) == "ghost"

\* The update sets every field it is given but the id.
SetFields(content) == IF content = "full" THEN "full" ELSE "ghost"

\* No condition: whether there is such a category is not asked.
UpdateCategory(i, n) ==
  /\ CallMade
  /\ rows' = [rows EXCEPT ![<<i, n>>] = SetFields(@)]
  /\ UNCHANGED <<nameOf, gone>>

DeleteCategory(i, n) ==
  /\ CallMade
  /\ rows[<<i, n>>] # "absent"
  /\ rows' = [rows EXCEPT ![<<i, n>>] = "absent"]
  /\ gone' = IF rows[<<i, n>>] = "full" THEN gone \cup {i} ELSE gone
  /\ UNCHANGED nameOf

Next ==
  \E i \in Ids, n \in Names :
    \/ CreateCategory(i, n)
    \/ i \in DOMAIN nameOf /\ (UpdateCategory(i, n) \/ DeleteCategory(i, n))

Spec == Init /\ [][Next]_vars

-----------------------------------------------------------------------------
(***************************************************************************)
(* Properties                                                              *)
(***************************************************************************)

\* Whatever names the updates of a category use, at most one row passes for it.
OneFullRowPerId ==
  \A i \in Ids : \A m, n \in Names :
    rows[<<i, m>>] = "full" /\ rows[<<i, n>>] = "full" => m = n

\* The only updates that leave a ghost are those that name the category by
\* another name, or came after it was deleted: a living category is never one.
GhostsHaveNoCategory ==
  \A i \in DOMAIN nameOf : i \notin gone => rows[<<i, nameOf[i]>>] = "full"

=============================================================================
