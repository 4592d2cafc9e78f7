---------------------------- MODULE AccountStore ----------------------------
(***************************************************************************)
(* The accounts of the user service: users, their settings and their       *)
(* addresses, as rows of three tables.  updateUser and updateAddress look a *)
(* row up before they write it; every other mutation is one statement.  An *)
(* update writes the fields it was given and no others, and of these leaves *)
(* out a text that is empty.                                               *)
(***************************************************************************)
EXTENDS Naturals

CONSTANTS
  Users,     \* ids of users (uuid: never used twice)
  Homes,     \* ids of addresses (cuid: never used twice)
  Texts,     \* texts a field can hold
  Blank,     \* the empty text
  None,
  Clients,   \* updates the service works on at a time
  MaxCalls,  \* bound: calls in a behaviour
  MaxFaults  \* bound: errors in a behaviour

VARIABLES
  rows,     \* the row of each user, settings and address; None: no such row
  calls,    \* the updates in progress
  gone,     \* history: addresses that were deleted
  certain,  \* history: what the last confirmed call about a field says it holds,
            \* None when another call about it came later or overlapped
  made, faults  \* what the bounds count

vars == <<rows, calls, gone, certain, made, faults>>

\* One field of each sort there is: a text that is unique among users, a text
\* that is not, and a flag.
FieldsOf == [user |-> {"email", "firstName"}, settings |-> {"theme", "receiveEmails"},
             address |-> {"street", "isDefault"}]
Flags == {"receiveEmails", "isDefault"}
Field == UNION {FieldsOf[t] : t \in DOMAIN FieldsOf}

Key == {"user", "settings"} \X Users \cup {"address"} \X Homes
FieldsIn(k) == FieldsOf[k[1]]

Held(f) == IF f \in Flags THEN BOOLEAN ELSE Texts
\* What a caller may give for a field: z.string().optional() lets "" pass,
\* .email() and .enum() do not.
Givable(f) == Held(f) \cup IF f \in {"firstName", "street"} THEN {Blank} ELSE {}
Value == BOOLEAN \cup Texts \cup {Blank}

\* A row is a value for each of its fields, an update for some of them.
Row(k) == {r \in [FieldsIn(k) -> Value] : \A f \in FieldsIn(k) : r[f] \in Held(f)}
Input(k) == {g \in UNION {[F -> Value] : F \in SUBSET FieldsIn(k)} :
               \A f \in DOMAIN g : g[f] \in Givable(f)}
IsChange(k, g) == DOMAIN g \subseteq FieldsIn(k) /\ \A f \in DOMAIN g : g[f] \in Held(f)

\* contested: the fields that an overlapping call names.
IsCall(c) ==
  /\ DOMAIN c = {"step", "key", "given", "seen", "contested"}
  /\ c.step \in {"look", "write", "confirm"}
  /\ c.key \in Key /\ IsChange(c.key, c.given)
  /\ c.step \in {"write", "confirm"} => c.seen \in Row(c.key)
  /\ c.contested \subseteq Field

Empty == [f \in {} |-> Blank]
Idle == [step |-> "idle", key |-> None, given |-> Empty, seen |-> Empty, contested |-> {}]

TypeOK ==
  /\ DOMAIN rows = Key /\ \A k \in Key : rows[k] \in Row(k) \cup {None}
  /\ DOMAIN calls = Clients /\ \A cl \in Clients : calls[cl] = Idle \/ IsCall(calls[cl])
  /\ gone \subseteq {"address"} \X Homes
  /\ certain \in [Key -> [Field -> Value \cup {None}]]
  /\ made \in Nat
  /\ faults \in 0..MaxFaults

Unknown == [f \in Field |-> None]

\* No two users have an email in common.
Distinct(table) ==
  \A u, v \in Users :
    /\ table[<<"user", u>>] # None /\ table[<<"user", v>>] # None
    /\ table[<<"user", u>>]["email"] = table[<<"user", v>>]["email"]
    => u = v

\* The upsert's defaults: theme LIGHT, everything else true.
Defaults(k) == [f \in FieldsIn(k) |-> IF f \in Flags THEN TRUE ELSE CHOOSE t \in Texts : TRUE]

\* Users and addresses may be there already, settings come with their first update.
Init ==
  /\ \E known \in SUBSET {k \in Key : k[1] # "settings"}, email \in [Users -> Texts] :
       rows = [k \in Key |->
                 IF k \notin known THEN None
                 ELSE IF k[1] = "user" THEN [Defaults(k) EXCEPT !["email"] = email[k[2]]]
                 ELSE Defaults(k)]
  /\ Distinct(rows)
  /\ calls = [cl \in Clients |-> Idle]
  /\ gone = {}
  /\ certain = [k \in Key |-> Unknown]
  /\ made = 0
  /\ faults = 0

CallMade == made < MaxCalls /\ made' = made + 1

-----------------------------------------------------------------------------
(***************************************************************************)
(* What the callers can be certain of                                      *)
(***************************************************************************)
\* `text && { text }`: the empty text is left out, `flag !== undefined` keeps false.
Written(input) ==
  [f \in {f \in DOMAIN input : f \in Flags \/ input[f] # Blank} |-> input[f]]

AtWorkOn(k) == {cl \in Clients : calls[cl].key = k}

\* A call about fields F of k begins: whoever is at work on one of them overlaps
\* it, and what was confirmed of them before is open again.
Contest(k, F) ==
  [cl \in Clients |-> IF cl \in AtWorkOn(k)
                      THEN [calls[cl] EXCEPT !.contested = @ \cup F] ELSE calls[cl]]
Reopened(k, F) ==
  [certain EXCEPT ![k] = [f \in Field |-> IF f \in F THEN None ELSE @[f]]]

\* A call is confirmed: fields F of k hold what `given` says.
Confirmed(history, k, F, given) ==
  [history EXCEPT ![k] = [f \in Field |-> IF f \in F THEN given[f] ELSE @[f]]]

-----------------------------------------------------------------------------
(***************************************************************************)
(* updateUser, updateAddress                                               *)
(***************************************************************************)
Start(cl, k) ==
  /\ CallMade
  /\ calls[cl].step = "idle"
  /\ k[1] # "settings"
  /\ rows[k] # None \/ k \in gone
  /\ \E input \in Input(k) :
       LET given == Written(input)
       IN /\ calls' = [Contest(k, DOMAIN given) EXCEPT ![cl] =
               [step |-> "look", key |-> k, given |-> given, seen |-> Empty,
                contested |-> UNION {DOMAIN calls[c].given : c \in AtWorkOn(k)}]]
          /\ certain' = Reopened(k, DOMAIN given)
  /\ UNCHANGED <<rows, gone, faults>>

Return(cl) == calls' = [calls EXCEPT ![cl] = Idle]

\* findUnique, findFirst: the row is looked up, and a call about none is refused.
LookUp(cl) ==
  /\ calls[cl].step = "look"
  /\ rows[calls[cl].key] # None
  /\ calls' = [calls EXCEPT ![cl].step = "write", ![cl].seen = rows[calls[cl].key]]
  /\ UNCHANGED <<rows, gone, certain, made, faults>>

LookUpNone(cl) ==
  /\ calls[cl].step = "look"
  /\ rows[calls[cl].key] = None
  /\ Return(cl)
  /\ UNCHANGED <<rows, gone, certain, made, faults>>

\* Mutant of Changed: the fields that were not given are written as they were read.
ChangedWhole(call, row) ==
  [f \in DOMAIN row |-> IF f \in DOMAIN call.given THEN call.given[f] ELSE call.seen[f]]

\* The statement sets the fields that were given, in the row as it is by now.
Changed(call, row) ==
  [f \in DOMAIN row |-> IF f \in DOMAIN call.given THEN call.given[f] ELSE row[f]]

Update(cl) == [rows EXCEPT ![calls[cl].key] = Changed(calls[cl], @)]

\* The update of a user is committed with its transaction.
Write(cl) ==
  /\ calls[cl].step = "write"
  /\ rows[calls[cl].key] # None
  /\ Distinct(Update(cl))
  /\ rows' = Update(cl)
  /\ calls' = [calls EXCEPT ![cl].step = "confirm"]
  /\ UNCHANGED <<gone, certain, made, faults>>

\* The row is gone by now, or the email is taken.
WriteRefused(cl) ==
  /\ calls[cl].step = "write"
  /\ rows[calls[cl].key] # None => ~Distinct(Update(cl))
  /\ Return(cl)
  /\ UNCHANGED <<rows, gone, certain, made, faults>>

Confirm(cl) ==
  /\ calls[cl].step = "confirm"
  /\ certain' = Confirmed(certain, calls[cl].key,
                          DOMAIN calls[cl].given \ calls[cl].contested, calls[cl].given)
  /\ Return(cl)
  /\ UNCHANGED <<rows, gone, made, faults>>

\* The database fails a statement, or the answer to one that it carried out is
\* lost: the call fails all the same.
Fault(cl) ==
  /\ calls[cl].step # "idle"
  /\ faults < MaxFaults
  /\ faults' = faults + 1
  /\ Return(cl)
  /\ UNCHANGED <<rows, gone, certain, made>>

-----------------------------------------------------------------------------
(***************************************************************************)
(* The mutations of one statement                                          *)
(***************************************************************************)
\* createUser, addAddress: under a fresh id; the address of an unknown user and
\* an email that is taken are refused.
Create(k) ==
  /\ CallMade
  /\ k[1] # "settings"
  /\ rows[k] = None /\ k \notin gone
  /\ k[1] = "address" => \E u \in Users : rows[<<"user", u>>] # None
  /\ \E row \in Row(k) :
       /\ rows' = [rows EXCEPT ![k] = row]
       /\ Distinct(rows')
       /\ certain' = Confirmed(certain, k, FieldsIn(k), row)
  /\ UNCHANGED <<calls, gone, faults>>

\* updateUserSettings: one upsert, which the database carries out as one statement.
UpdateSettings(u) ==
  LET k == <<"settings", u>>
      row == IF rows[k] = None THEN Defaults(k) ELSE rows[k]
  IN /\ CallMade
     /\ rows[<<"user", u>>] # None
     /\ \E input \in Input(k) :
          LET given == Written(input)
          IN /\ rows' = [rows EXCEPT ![k] = Changed([given |-> given, seen |-> row], row)]
             /\ certain' = Confirmed(certain, k, DOMAIN given, given)
     /\ UNCHANGED <<calls, gone, faults>>

\* deleteAddress: a deletion is about every field there is.
DeleteAddress(h) ==
  LET k == <<"address", h>>
  IN /\ CallMade
     /\ rows[k] # None
     /\ rows' = [rows EXCEPT ![k] = None]
     /\ gone' = gone \cup {k}
     /\ calls' = Contest(k, Field)
     /\ certain' = Reopened(k, Field)
     /\ UNCHANGED faults

Proceed(cl) == LookUp(cl) \/ LookUpNone(cl) \/ Write(cl) \/ WriteRefused(cl) \/ Confirm(cl)

Next ==
  \/ \E cl \in Clients, k \in Key : Start(cl, k)
  \/ \E cl \in Clients : Proceed(cl) \/ Fault(cl)
  \/ \E k \in Key : Create(k)
  \/ \E u \in Users : UpdateSettings(u)
  \/ \E h \in Homes : DeleteAddress(h)

Spec == Init /\ [][Next]_vars

-----------------------------------------------------------------------------
(***************************************************************************)
(* Properties                                                              *)
(***************************************************************************)

\* What was confirmed stands until another call is about the same: updates of
\* other fields that looked at the row before leave it alone, a refused or failed
\* call takes nothing back, and no update revives a deleted address.
ConfirmedChangesStand ==
  /\ \A k \in Key, f \in Field :
       certain[k][f] # None => rows[k] # None /\ rows[k][f] = certain[k][f]
  /\ \A k \in gone : rows[k] = None

Quiescent == \A cl \in Clients : calls[cl].step = "idle"

=============================================================================
