----------------------------- MODULE SellerStore -----------------------------
(***************************************************************************)
(* The sellers of the seller service, and the pool of database connections *)
(* its calls share.  createSeller and deleteSeller open a transaction and  *)
(* then write outside it, on a second connection, so that the calls that   *)
(* hold the last connections wait for each other until one times out.      *)
(***************************************************************************)
EXTENDS Naturals, FiniteSets

CONSTANTS
  Sellers,    \* ids of sellers (cuid: never used twice)
  Fields,     \* the fields of a seller that updateSeller may change
  Values,     \* what a field may hold
  Clients,    \* calls the service runs at a time
  PoolSize,   \* connections of the pool
  MaxCalls,   \* bound: calls in a behaviour
  MaxFaults   \* bound: database errors and crashes in a behaviour

VARIABLES
  sellers,   \* the Seller rows, by id
  orphans,   \* sellers that are gone, by the addresses they left (sellerId NULL)
  calls,     \* the calls in progress, one per client
  overtaken, \* history: updates whose row another one wrote since they read it
  made, faults  \* what the bounds count

rows == <<sellers, orphans>>
vars == <<rows, calls, overtaken, made, faults>>

Seller == [Fields -> Values]
Change == UNION {[F -> Values] : F \in SUBSET Fields}  \* the fields a caller names

IdleCall == [step |-> "idle"]
CreateCall == [step : {"beginCreate", "insert", "lateInsert", "commit"}, row : Seller]
ListCall == [step : {"beginList", "count"}]
UpdateCall == [step : {"checkUpdate", "read"}, seller : Sellers, change : Change]
                \cup [step : {"write"}, seller : Sellers, change : Change, row : Seller]
DeleteCall == [step : {"checkDelete", "find", "beginDelete", "delete", "lateDelete", "commit"},
               seller : Sellers]
Call == {IdleCall} \cup CreateCall \cup ListCall \cup UpdateCall \cup DeleteCall

TypeOK ==
  /\ DOMAIN sellers \subseteq Sellers
  /\ sellers \in [DOMAIN sellers -> Seller]
  /\ orphans \subseteq Sellers
  /\ calls \in [Clients -> Call]
  /\ overtaken \subseteq Clients
  /\ made \in Nat
  /\ faults \in Nat

\* Sellers may have registered before.
Init ==
  /\ \E S \in SUBSET Sellers : sellers \in [S -> Seller]
  /\ orphans = {}
  /\ calls = [cl \in Clients |-> IdleCall]
  /\ overtaken = {}
  /\ made = 0
  /\ faults = 0

Idle(cl) == calls[cl].step = "idle"
At(cl, step) == calls[cl].step = step

Start(cl, call) ==
  /\ Idle(cl)
  /\ made < MaxCalls
  /\ made' = made + 1
  /\ calls' = [calls EXCEPT ![cl] = call]
  /\ UNCHANGED <<rows, overtaken, faults>>

Return(cl) ==
  /\ calls' = [calls EXCEPT ![cl] = IdleCall]
  /\ overtaken' = overtaken \ {cl}
GoTo(cl, step) ==
  /\ calls' = [calls EXCEPT ![cl].step = step]
  /\ UNCHANGED overtaken

-----------------------------------------------------------------------------
(***************************************************************************)
(* Connections: an open transaction keeps one, a statement outside needs   *)
(* one for its own time.                                                   *)
(***************************************************************************)
InTransaction(cl) == calls[cl].step \in {"insert", "count", "delete", "commit"}

Free == Cardinality({cl \in Clients : InTransaction(cl)}) < PoolSize

\* A transaction's own statements do not queue for a connection.
Queues(cl) == ~Idle(cl) /\ calls[cl].step \notin {"count", "commit"}

\* Mutant of TimeOut: a call waits for a connection for as long as it takes.
WaitOn(cl) ==
  /\ Queues(cl)
  /\ ~Free
  /\ UNCHANGED vars

\* No connection came free in time.  After maxWait or the pool's timeout the call
\* fails and gives up its own; after the timeout of its transaction it gives up
\* its own as well, but the statement outside stays in the queue.
TimeOut(cl) ==
  /\ Queues(cl)
  /\ ~Free
  /\ \/ Return(cl)
     \/ At(cl, "insert") /\ GoTo(cl, "lateInsert")
     \/ At(cl, "delete") /\ GoTo(cl, "lateDelete")
  /\ UNCHANGED <<rows, made, faults>>

Begin(cl, from, to) ==
  /\ At(cl, from)
  /\ Free
  /\ GoTo(cl, to)
  /\ UNCHANGED <<rows, made, faults>>

\* A look at the row, outside any transaction.
LookUp(cl, from, to) ==
  /\ At(cl, from)
  /\ Free
  /\ IF calls[cl].seller \in DOMAIN sellers THEN GoTo(cl, to) ELSE Return(cl)
  /\ UNCHANGED <<rows, made, faults>>

-----------------------------------------------------------------------------
(***************************************************************************)
(* createSeller                                                            *)
(***************************************************************************)
Creating == {cl \in Clients : calls[cl].step \in {"beginCreate", "insert", "lateInsert"}}
Unused == Sellers \ (DOMAIN sellers \cup orphans)

\* Bound: the ids last for the creations in progress.
CreateSeller(cl, row) ==
  /\ Cardinality(Creating) < Cardinality(Unused)
  /\ Start(cl, [step |-> "beginCreate", row |-> row])

\* The seller and its address: stored whatever becomes of the transaction.
InsertRow(cl) ==
  /\ calls[cl].step \in {"insert", "lateInsert"}
  /\ Free
  /\ \E s \in Unused :
       sellers' = [t \in DOMAIN sellers \cup {s} |->
                     IF t = s THEN calls[cl].row ELSE sellers[t]]
  /\ UNCHANGED orphans

Insert(cl) ==
  /\ At(cl, "insert")
  /\ InsertRow(cl)
  /\ GoTo(cl, "commit")
  /\ UNCHANGED <<made, faults>>

Commit(cl) ==
  /\ At(cl, "commit")
  /\ Return(cl)
  /\ UNCHANGED <<rows, made, faults>>

-----------------------------------------------------------------------------
(***************************************************************************)
(* updateSeller                                                            *)
(***************************************************************************)
\* The address a caller names instead of a field is not used.
UpdateSeller(cl, s, change) ==
  Start(cl, [step |-> "checkUpdate", seller |-> s, change |-> change])

\* Mutant of Named: what the caller did not name is not filled in.
NamedAlone(change, row) == change

Named(change, row) == [f \in Fields |-> IF f \in DOMAIN change THEN change[f] ELSE row[f]]

\* Mutant of ReadRow: what the caller did not name is emptied.
ReadNothing(cl) ==
  /\ At(cl, "read")
  /\ Free
  /\ calls[cl].seller \in DOMAIN sellers
  /\ \E v \in Values :
       calls' = [calls EXCEPT ![cl] =
         [step |-> "write", seller |-> calls[cl].seller, change |-> calls[cl].change,
          row |-> Named(calls[cl].change, [f \in Fields |-> v])]]
  /\ UNCHANGED <<rows, overtaken, made, faults>>

\* The repository reads the row again and fixes here all that it will write.
ReadRow(cl) ==
  /\ At(cl, "read")
  /\ Free
  /\ calls[cl].seller \in DOMAIN sellers
  /\ calls' = [calls EXCEPT ![cl] =
       [step |-> "write", seller |-> calls[cl].seller, change |-> calls[cl].change,
        row |-> Named(calls[cl].change, sellers[calls[cl].seller])]]
  /\ UNCHANGED <<rows, overtaken, made, faults>>

\* Mutant of WriteRow: a row that was deleted is written all the same.
UpsertRow(cl) ==
  /\ At(cl, "write")
  /\ Free
  /\ sellers' = [t \in DOMAIN sellers \cup {calls[cl].seller} |->
                   IF t = calls[cl].seller THEN calls[cl].row ELSE sellers[t]]
  /\ UNCHANGED orphans

\* The update fails when the row was deleted since ReadRow (see Vanished).
WriteRow(cl) ==
  /\ At(cl, "write")
  /\ Free
  /\ calls[cl].seller \in DOMAIN sellers
  /\ sellers' = [sellers EXCEPT ![calls[cl].seller] = calls[cl].row]
  /\ UNCHANGED orphans

Overtakes(cl) ==
  {c \in Clients \ {cl} : At(c, "write") /\ calls[c].seller = calls[cl].seller}

Write(cl) ==
  /\ WriteRow(cl)
  /\ calls' = [calls EXCEPT ![cl] = IdleCall]
  /\ overtaken' = (overtaken \ {cl}) \cup Overtakes(cl)
  /\ UNCHANGED <<made, faults>>

-----------------------------------------------------------------------------
(***************************************************************************)
(* deleteSeller, getAllSellers                                             *)
(***************************************************************************)
DeleteSeller(cl, s) == Start(cl, [step |-> "checkDelete", seller |-> s])

\* The address stays, and names no seller from now on.
DeleteRow(cl) ==
  /\ calls[cl].step \in {"delete", "lateDelete"}
  /\ Free
  /\ calls[cl].seller \in DOMAIN sellers
  /\ sellers' = [t \in DOMAIN sellers \ {calls[cl].seller} |-> sellers[t]]
  /\ orphans' = orphans \cup {calls[cl].seller}

Delete(cl) ==
  /\ At(cl, "delete")
  /\ DeleteRow(cl)
  /\ GoTo(cl, "commit")
  /\ UNCHANGED <<made, faults>>

\* The statement got its connection after the transaction had timed out: it has its
\* effect, and the call fails when it finds the transaction closed.
LateStatement(cl) ==
  /\ calls[cl].step \in {"lateInsert", "lateDelete"}
  /\ InsertRow(cl) \/ DeleteRow(cl)
  /\ Return(cl)
  /\ UNCHANGED <<made, faults>>

\* The row went away after the call had found it, and the statement throws.
Vanished(cl) ==
  /\ calls[cl].step \in {"read", "write", "delete", "lateDelete"}
  /\ Free
  /\ calls[cl].seller \notin DOMAIN sellers
  /\ Return(cl)
  /\ UNCHANGED <<rows, made, faults>>

GetAllSellers(cl) == Start(cl, [step |-> "beginList"])

\* The page and the count are read on the transaction's own connection.
Count(cl) ==
  /\ At(cl, "count")
  /\ Return(cl)
  /\ UNCHANGED <<rows, made, faults>>

-----------------------------------------------------------------------------
(***************************************************************************)
(* The queries that change nothing; each seller has the one address that   *)
(* it was created with, and getSellerById refuses when there is no seller. *)
(***************************************************************************)
Addresses == DOMAIN sellers \cup orphans

\* The seller that an address names.
SellerOf(a) == {a} \ orphans

getSellerById(s) == DOMAIN sellers \cap {s}
getSellerAddresses(s) == {a \in Addresses : s \in SellerOf(a)}

-----------------------------------------------------------------------------
Fault == faults < MaxFaults /\ faults' = faults + 1

\* A statement fails, which may have had its effect.  An error of the
\* transaction itself takes back nothing that was written outside it.
StatementFails(cl) ==
  /\ ~Idle(cl)
  /\ Fault
  /\ calls' = [calls EXCEPT ![cl] = IdleCall]
  /\ \/ /\ UNCHANGED rows
        /\ overtaken' = overtaken \ {cl}
     \/ /\ InsertRow(cl) \/ DeleteRow(cl)
        /\ overtaken' = overtaken \ {cl}
     \/ /\ WriteRow(cl)
        /\ overtaken' = (overtaken \ {cl}) \cup Overtakes(cl)
  /\ UNCHANGED made

Crash ==
  /\ Fault
  /\ calls' = [cl \in Clients |-> IdleCall]
  /\ overtaken' = {}
  /\ UNCHANGED <<rows, made>>

StartCall(cl) ==
  \/ \E row \in Seller : CreateSeller(cl, row)
  \/ \E s \in DOMAIN sellers \cup orphans :
       \/ \E change \in Change : UpdateSeller(cl, s, change)
       \/ DeleteSeller(cl, s)
  \/ GetAllSellers(cl)
Continue(cl) ==
  \/ Begin(cl, "beginCreate", "insert") \/ Insert(cl) \/ Commit(cl)
  \/ LookUp(cl, "checkUpdate", "read") \/ ReadRow(cl) \/ Write(cl)
  \/ LookUp(cl, "checkDelete", "find") \/ LookUp(cl, "find", "beginDelete")
  \/ Begin(cl, "beginDelete", "delete") \/ Delete(cl) \/ LateStatement(cl)
  \/ Vanished(cl)
  \/ Begin(cl, "beginList", "count") \/ Count(cl)

Next ==
  \/ \E cl \in Clients : StartCall(cl) \/ Continue(cl) \/ TimeOut(cl) \/ StatementFails(cl)
  \/ Crash

\* The database answers, and the timers of those who wait for it run.
Fairness == \A cl \in Clients : WF_vars(Continue(cl) \/ TimeOut(cl))

Spec == Init /\ [][Next]_vars /\ Fairness

-----------------------------------------------------------------------------
(***************************************************************************)
(* Properties                                                              *)
(***************************************************************************)

\* No call that was under way when a seller was deleted brings it back, or has
\* the address it left found under its id again.
DeletedStaysDeleted ==
  \A s \in orphans : getSellerById(s) = {} /\ getSellerAddresses(s) = {}

\* updateSeller writes every field, the ones its caller did not name included.
\* Such a field changes only when two updates of the seller overlapped: one of
\* them read the row before the other wrote it.
OnlyOverlapsUndoUpdates ==
  [][\A s \in DOMAIN sellers \cap DOMAIN sellers', f \in Fields :
       sellers'[s][f] # sellers[s][f] =>
         \E cl \in Clients :
           /\ At(cl, "write") /\ calls[cl].seller = s
           /\ calls'[cl].step = "idle"
           /\ f \in DOMAIN calls[cl].change \/ cl \in overtaken]_vars

\* Calls that hold the whole pool and wait for a connection to write on come to
\* an end all the same: every call returns.
CallsReturn == \A cl \in Clients : ~Idle(cl) ~> Idle(cl)

Quiescent == \A cl \in Clients : Idle(cl)

=============================================================================
