--------------------------- MODULE AccountStoreProofs ---------------------------
(***************************************************************************)
(* Theorems about AccountStore, for every set of users, addresses, texts    *)
(* and clients: type correctness, and that what was confirmed stands.      *)
(*                                                                         *)
(* The confirmation of an update comes after its write.  What it will say   *)
(* is still so (WillBeTrue) because two updates that name the same field    *)
(* of a row know of each other (Overlapping), and because nothing is        *)
(* certain of a field while an update that names it goes on (StillOpen).    *)
(***************************************************************************)
EXTENDS AccountStore, TLAPS

Active(cl) == calls[cl].step # "idle"

\* Only a row that is there, or was, is updated this way.
KnownRows ==
  \A cl \in Clients : Active(cl) =>
    calls[cl].key[1] # "settings" /\ (rows[calls[cl].key] # None \/ calls[cl].key \in gone)

DeletedIsGone == \A k \in gone : rows[k] = None

Overlapping ==
  \A c, d \in Clients :
    c # d /\ Active(c) /\ Active(d) /\ calls[c].key = calls[d].key =>
      DOMAIN calls[c].given \cap DOMAIN calls[d].given \subseteq calls[c].contested

StillOpen ==
  \A cl \in Clients : Active(cl) =>
    \A f \in DOMAIN calls[cl].given : certain[calls[cl].key][f] = None

WillBeTrue ==
  \A cl \in Clients : calls[cl].step = "confirm" =>
    \A f \in DOMAIN calls[cl].given \ calls[cl].contested :
      /\ rows[calls[cl].key] # None
      /\ rows[calls[cl].key][f] = calls[cl].given[f]

Certain ==
  \A k \in Key, f \in Field :
    certain[k][f] # None =>
      f \in FieldsIn(k) /\ rows[k] # None /\ rows[k][f] = certain[k][f]

IInv ==
  /\ TypeOK
  /\ KnownRows
  /\ DeletedIsGone
  /\ Overlapping
  /\ StillOpen
  /\ WillBeTrue
  /\ Certain

\* None is no row, no value and names no row; there is a text to begin with.
Bounds ==
  /\ MaxCalls \in Nat /\ MaxFaults \in Nat
  /\ Texts # {}
  /\ None \notin Key
  /\ \A k \in Key : None \notin Row(k)

-----------------------------------------------------------------------------
(***************************************************************************)
(* Rows and changes                                                        *)
(***************************************************************************)
LEMMA KeyFacts ==
  ASSUME NEW k \in Key
  PROVE  /\ FieldsIn(k) \subseteq Field
         /\ k[1] \in {"user", "settings", "address"}
BY DEF Key, FieldsIn, Field, FieldsOf

\* A change leaves a row a row, and gives it the values it was given.
LEMMA ChangedFacts ==
  ASSUME NEW k \in Key, NEW row \in Row(k), NEW call, IsChange(k, call.given)
  PROVE  /\ Changed(call, row) \in Row(k)
         /\ \A f \in DOMAIN call.given : Changed(call, row)[f] = call.given[f]
         /\ \A f \in FieldsIn(k) \ DOMAIN call.given : Changed(call, row)[f] = row[f]
BY DEF Changed, Row, IsChange, Held, Value

\* What is written of an input is a change.
LEMMA WrittenFacts ==
  ASSUME NEW k \in Key, NEW input \in Input(k)
  PROVE  IsChange(k, Written(input))
<1>1. DOMAIN input \subseteq FieldsIn(k) /\ \A f \in DOMAIN input : input[f] \in Givable(f)
  BY DEF Input
<1> QED
  BY <1>1 DEF Written, IsChange, Givable, Held, Flags

LEMMA DefaultsFacts ==
  ASSUME NEW k \in Key, Texts # {}
  PROVE  Defaults(k) \in Row(k)
BY DEF Defaults, Row, Held, Value

-----------------------------------------------------------------------------
(***************************************************************************)
(* Every step preserves the invariant                                      *)
(***************************************************************************)
\* What an active call is.
LEMMA ActiveFacts ==
  ASSUME TypeOK, Bounds, NEW cl \in Clients
  PROVE  /\ Active(cl) => IsCall(calls[cl])
         /\ ~Active(cl) => calls[cl] = Idle
         /\ \A k \in Key : calls[cl].key = k => Active(cl)
BY DEF TypeOK, Bounds, Active, IsCall, Idle

\* Init establishes the invariant.
LEMMA InitInvariant == ASSUME Bounds, Init PROVE IInv
<1> USE DEF Bounds
<1>1. PICK known \in SUBSET {k \in Key : k[1] # "settings"}, email \in [Users -> Texts] :
        rows = [k \in Key |->
                  IF k \notin known THEN None
                  ELSE IF k[1] = "user" THEN [Defaults(k) EXCEPT !["email"] = email[k[2]]]
                  ELSE Defaults(k)]
  BY DEF Init
<1>2. \A k \in Key : rows[k] \in Row(k) \cup {None}
  <2>1. SUFFICES ASSUME NEW k \in known PROVE rows[k] \in Row(k)
    BY <1>1
  <2>2. Defaults(k) \in Row(k)
    BY <2>1, DefaultsFacts
  <2>3. CASE k[1] = "user"
    <3>1. k[2] \in Users
      BY <2>3 DEF Key
    <3>2. [Defaults(k) EXCEPT !["email"] = email[k[2]]] \in Row(k)
      BY <2>2, <3>1 DEF Row, Held, Flags, Value
    <3> QED
      BY <1>1, <2>3, <3>2
  <2> QED
    BY <1>1, <2>2, <2>3
<1>3. TypeOK
  <2>1. certain \in [Key -> [Field -> Value \cup {None}]]
    BY DEF Init, Unknown
  <2>2. DOMAIN rows = Key /\ DOMAIN calls = Clients /\ \A cl \in Clients : calls[cl] = Idle
    BY <1>1 DEF Init
  <2>3. gone \subseteq {"address"} \X Homes /\ made \in Nat /\ faults \in 0..MaxFaults
    BY DEF Init
  <2> QED
    BY <1>2, <2>1, <2>2, <2>3 DEF TypeOK
<1>4. \A cl \in Clients : ~Active(cl)
  BY DEF Init, Active, Idle
<1>5. Certain
  BY DEF Init, Certain, Unknown
<1>6. DeletedIsGone
  BY DEF Init, DeletedIsGone
<1> QED
  BY <1>3, <1>4, <1>5, <1>6 DEF IInv, KnownRows, Overlapping, StillOpen, WillBeTrue, Active

\* A call that returns takes nothing with it.
LEMMA ReturnInvariant ==
  ASSUME Bounds, IInv, NEW cl \in Clients, Return(cl),
         UNCHANGED <<rows, gone, certain, made>>, faults' \in 0..MaxFaults
  PROVE  IInv'
<1>1. /\ calls'[cl] = Idle
      /\ \A c \in Clients \ {cl} : calls'[c] = calls[c]
      /\ DOMAIN calls' = Clients
  BY DEF Return, IInv, TypeOK
<1>2. TypeOK'
  BY <1>1 DEF IInv, TypeOK, IsCall, IsChange
<1>3. \A c \in Clients : Active(c)' => c # cl /\ Active(c)
  BY <1>1 DEF Active, Idle
<1>4. KnownRows' /\ Overlapping' /\ StillOpen'
  BY <1>1, <1>3 DEF IInv, KnownRows, Overlapping, StillOpen
<1>5. WillBeTrue'
  BY <1>1 DEF IInv, WillBeTrue, Idle
<1>6. DeletedIsGone' /\ Certain'
  BY DEF IInv, DeletedIsGone, Certain
<1> QED
  BY <1>2, <1>4, <1>5, <1>6 DEF IInv

LEMMA LookUpInvariant ==
  ASSUME Bounds, IInv, NEW cl \in Clients, LookUp(cl)
  PROVE  IInv'
<1> DEFINE k == calls[cl].key
<1>1. IsCall(calls[cl]) /\ rows[k] \in Row(k)
  BY ActiveFacts DEF LookUp, IInv, Active, TypeOK, IsCall
<1>2. /\ calls'[cl].step = "write" /\ calls'[cl].key = k
      /\ calls'[cl].given = calls[cl].given /\ calls'[cl].contested = calls[cl].contested
      /\ calls'[cl].seen = rows[k] /\ DOMAIN calls'[cl] = DOMAIN calls[cl]
      /\ \A c \in Clients \ {cl} : calls'[c] = calls[c]
      /\ DOMAIN calls' = Clients
  BY <1>1 DEF LookUp, IInv, TypeOK, IsCall
<1>3. IsCall(calls'[cl])
  BY <1>1, <1>2 DEF IsCall
<1>4. TypeOK'
  BY <1>2, <1>3 DEF LookUp, IInv, TypeOK, IsCall, IsChange
<1>5. \A c \in Clients : (Active(c)' <=> Active(c))
  BY <1>2 DEF LookUp, Active
<1>6. KnownRows' /\ Overlapping' /\ StillOpen'
  <2>1. KnownRows'
    BY <1>2, <1>5 DEF LookUp, IInv, KnownRows
  <2>2. Overlapping'
    BY <1>2, <1>5 DEF IInv, Overlapping
  <2>3. StillOpen'
    BY <1>2, <1>5 DEF LookUp, IInv, StillOpen
  <2> QED
    BY <2>1, <2>2, <2>3
<1>7. WillBeTrue'
  BY <1>2 DEF LookUp, IInv, WillBeTrue
<1>8. DeletedIsGone' /\ Certain'
  BY DEF LookUp, IInv, DeletedIsGone, Certain
<1> QED
  BY <1>4, <1>6, <1>7, <1>8 DEF IInv

LEMMA WriteInvariant ==
  ASSUME Bounds, IInv, NEW cl \in Clients, Write(cl)
  PROVE  IInv'
<1> DEFINE k == calls[cl].key
           new == Changed(calls[cl], rows[k])
<1>1. /\ IsCall(calls[cl]) /\ rows[k] \in Row(k) /\ k \in Key
      /\ IsChange(k, calls[cl].given)
  BY ActiveFacts DEF Write, IInv, Active, TypeOK, IsCall
<1>2. /\ calls'[cl].step = "confirm" /\ calls'[cl].key = k
      /\ calls'[cl].given = calls[cl].given /\ calls'[cl].contested = calls[cl].contested
      /\ calls'[cl].seen = calls[cl].seen /\ DOMAIN calls'[cl] = DOMAIN calls[cl]
      /\ \A c \in Clients \ {cl} : calls'[c] = calls[c]
      /\ DOMAIN calls' = Clients
  BY <1>1 DEF Write, IInv, TypeOK, IsCall
<1>3. DOMAIN rows' = Key /\ rows'[k] = new /\ \A j \in Key \ {k} : rows'[j] = rows[j]
  BY <1>1 DEF Write, Update, IInv, TypeOK
<1>4. /\ new \in Row(k) /\ new # None
      /\ \A f \in DOMAIN calls[cl].given : new[f] = calls[cl].given[f]
      /\ \A f \in FieldsIn(k) \ DOMAIN calls[cl].given : new[f] = rows[k][f]
  BY <1>1, ChangedFacts DEF Bounds
<1>5. DOMAIN calls[cl].given \subseteq FieldsIn(k)
  BY <1>1 DEF IsChange
<1>6. IsCall(calls'[cl])
  BY <1>1, <1>2 DEF IsCall, Write
<1>7. TypeOK'
  BY <1>2, <1>3, <1>4, <1>6 DEF Write, IInv, TypeOK, IsCall, IsChange
<1>8. \A c \in Clients : (Active(c)' <=> Active(c))
  BY <1>2 DEF Write, Active
<1>9. KnownRows' /\ DeletedIsGone'
  <2>1. \A j \in Key : rows'[j] = None <=> rows[j] = None
    BY <1>1, <1>3, <1>4 DEF Write
  <2>2. \A c \in Clients : Active(c) => calls[c].key \in Key
    BY ActiveFacts DEF IInv, IsCall
  <2>3. gone' = gone /\ gone \subseteq Key
    BY DEF Write, IInv, TypeOK, Key
  <2>4. KnownRows'
    BY <1>2, <1>8, <2>1, <2>2, <2>3 DEF IInv, KnownRows
  <2> QED
    BY <2>1, <2>3, <2>4 DEF IInv, DeletedIsGone
<1>10. Overlapping'
  BY <1>2, <1>8 DEF IInv, Overlapping
<1>11. StillOpen'
  BY <1>2, <1>8 DEF Write, IInv, StillOpen
<1>12. WillBeTrue'
  <2>1. SUFFICES ASSUME NEW c \in Clients, calls'[c].step = "confirm",
                        NEW f \in DOMAIN calls'[c].given \ calls'[c].contested
                 PROVE  rows'[calls'[c].key] # None
                        /\ rows'[calls'[c].key][f] = calls'[c].given[f]
    BY DEF WillBeTrue
  <2>2. CASE c = cl
    BY <1>2, <1>3, <1>4, <2>1, <2>2
  <2>3. CASE c # cl
    <3>1. calls'[c] = calls[c] /\ Active(c) /\ Active(cl)
      BY <1>2, <2>1, <2>3 DEF Active, Write
    <3>2. rows[calls[c].key] # None /\ rows[calls[c].key][f] = calls[c].given[f]
      BY <2>1, <3>1 DEF IInv, WillBeTrue
    <3>3. IsCall(calls[c])
      BY <3>1, ActiveFacts DEF IInv
    <3>4. CASE calls[c].key = k
      <4>1. f \notin DOMAIN calls[cl].given
        BY <2>1, <2>3, <3>1, <3>4 DEF IInv, Overlapping
      <4>2. f \in FieldsIn(k)
        BY <2>1, <3>1, <3>3, <3>4 DEF IsCall, IsChange
      <4> QED
        BY <1>3, <1>4, <3>1, <3>2, <3>4, <4>1, <4>2
    <3>5. CASE calls[c].key # k
      BY <1>3, <3>1, <3>2, <3>3, <3>5 DEF IsCall
    <3> QED
      BY <3>4, <3>5
  <2> QED
    BY <2>2, <2>3
<1>13. Certain'
  <2>1. SUFFICES ASSUME NEW j \in Key, NEW f \in Field, certain[j][f] # None
                 PROVE  f \in FieldsIn(j) /\ rows'[j] # None /\ rows'[j][f] = certain[j][f]
    BY DEF Certain, Write
  <2>2. f \in FieldsIn(j) /\ rows[j] # None /\ rows[j][f] = certain[j][f]
    BY <2>1 DEF IInv, Certain
  <2>3. CASE j = k
    <3>1. f \notin DOMAIN calls[cl].given
      BY <2>1, <2>3 DEF IInv, StillOpen, Active, Write
    <3> QED
      BY <1>3, <1>4, <2>2, <2>3, <3>1
  <2> QED
    BY <1>3, <2>2, <2>3
<1> QED
  BY <1>7, <1>9, <1>10, <1>11, <1>12, <1>13 DEF IInv

LEMMA ConfirmInvariant ==
  ASSUME Bounds, IInv, NEW cl \in Clients, Confirm(cl)
  PROVE  IInv'
<1> DEFINE k == calls[cl].key
           F == DOMAIN calls[cl].given \ calls[cl].contested
<1>1. IsCall(calls[cl]) /\ k \in Key /\ IsChange(k, calls[cl].given) /\ Active(cl)
  BY ActiveFacts DEF Confirm, IInv, Active, IsCall
<1>2. /\ calls'[cl] = Idle
      /\ \A c \in Clients \ {cl} : calls'[c] = calls[c]
      /\ DOMAIN calls' = Clients
  BY DEF Confirm, Return, IInv, TypeOK
<1>3. F \subseteq FieldsIn(k) /\ FieldsIn(k) \subseteq Field
  BY <1>1, KeyFacts DEF IsChange
<1>4. /\ \A f \in F : certain'[k][f] = calls[cl].given[f]
      /\ \A f \in Field \ F : certain'[k][f] = certain[k][f]
      /\ \A j \in Key \ {k} : certain'[j] = certain[j]
  BY <1>1, <1>3 DEF Confirm, Confirmed, IInv, TypeOK
<1>5. certain' \in [Key -> [Field -> Value \cup {None}]]
  <2>1. \A f \in F : calls[cl].given[f] \in Value
    BY <1>1 DEF IsChange, Held, Value
  <2>2. [f \in Field |-> IF f \in F THEN calls[cl].given[f] ELSE certain[k][f]]
          \in [Field -> Value \cup {None}]
    BY <1>1, <2>1 DEF IInv, TypeOK
  <2> QED
    BY <1>1, <2>2 DEF Confirm, Confirmed, IInv, TypeOK
<1>6. TypeOK'
  BY <1>2, <1>5 DEF Confirm, IInv, TypeOK, IsCall, IsChange
<1>7. \A c \in Clients : Active(c)' => c # cl /\ Active(c)
  BY <1>2 DEF Active, Idle
<1>8. KnownRows' /\ Overlapping' /\ DeletedIsGone'
  BY <1>2, <1>7 DEF Confirm, IInv, KnownRows, Overlapping, DeletedIsGone
<1>9. StillOpen'
  <2>1. SUFFICES ASSUME NEW c \in Clients, c # cl, Active(c), NEW f \in DOMAIN calls[c].given
                 PROVE  certain'[calls[c].key][f] = None
    BY <1>2, <1>7 DEF StillOpen
  <2>2. certain[calls[c].key][f] = None
    BY <2>1 DEF IInv, StillOpen
  <2>3. calls[c].key \in Key /\ f \in Field
    BY <2>1, ActiveFacts, KeyFacts DEF IInv, IsCall, IsChange
  <2>4. calls[c].key = k => f \notin F
    BY <1>1, <2>1 DEF IInv, Overlapping
  <2> QED
    BY <1>4, <2>2, <2>3, <2>4
<1>10. WillBeTrue'
  BY <1>2 DEF Confirm, IInv, WillBeTrue, Idle
<1>11. Certain'
  <2>1. \A f \in F : rows[k] # None /\ rows[k][f] = calls[cl].given[f]
    BY DEF Confirm, IInv, WillBeTrue
  <2>2. SUFFICES ASSUME NEW j \in Key, NEW f \in Field, certain'[j][f] # None
                 PROVE  f \in FieldsIn(j) /\ rows[j] # None /\ rows[j][f] = certain'[j][f]
    BY DEF Certain, Confirm
  <2>3. CASE j = k /\ f \in F
    BY <1>3, <1>4, <2>1, <2>3
  <2>4. CASE ~(j = k /\ f \in F)
    <3>1. certain'[j][f] = certain[j][f]
      BY <1>4, <2>4
    <3> QED
      BY <2>2, <3>1 DEF IInv, Certain
  <2> QED
    BY <2>3, <2>4
<1> QED
  BY <1>6, <1>8, <1>9, <1>10, <1>11 DEF IInv

\* What a call that begins or a deletion leaves open, nobody is certain of.
LEMMA ReopenedFacts ==
  ASSUME TypeOK, NEW k \in Key, NEW F, certain' = Reopened(k, F)
  PROVE  /\ certain' \in [Key -> [Field -> Value \cup {None}]]
         /\ \A j \in Key, f \in Field :
              certain'[j][f] = IF j = k /\ f \in F THEN None ELSE certain[j][f]
<1>1. [f \in Field |-> IF f \in F THEN None ELSE certain[k][f]]
        \in [Field -> Value \cup {None}]
  BY DEF TypeOK
<1> QED
  BY <1>1 DEF Reopened, TypeOK

\* Those who are at work on the row learn of the fields, the others of nothing.
LEMMA ContestFacts ==
  ASSUME TypeOK, Bounds, NEW k \in Key, NEW F \in SUBSET Field, NEW c \in Clients
  PROVE  LET table == Contest(k, F)
         IN /\ calls[c].key # k => table[c] = calls[c]
            /\ calls[c].key = k =>
                 /\ IsCall(table[c])
                 /\ table[c].contested = calls[c].contested \cup F
            /\ table[c].key = calls[c].key
            /\ table[c].given = calls[c].given
            /\ table[c].step = calls[c].step
<1>1. CASE calls[c].key # k
  BY <1>1 DEF Contest, AtWorkOn
<1>2. CASE calls[c].key = k
  <2>1. IsCall(calls[c])
    BY <1>2, ActiveFacts
  <2>2. Contest(k, F)[c] = [calls[c] EXCEPT !.contested = @ \cup F]
    BY <1>2 DEF Contest, AtWorkOn
  <2>3. /\ DOMAIN Contest(k, F)[c] = DOMAIN calls[c]
        /\ Contest(k, F)[c].contested = calls[c].contested \cup F
        /\ Contest(k, F)[c].key = calls[c].key
        /\ Contest(k, F)[c].given = calls[c].given
        /\ Contest(k, F)[c].step = calls[c].step
        /\ Contest(k, F)[c].seen = calls[c].seen
    BY <2>1, <2>2 DEF IsCall
  <2> QED
    BY <1>2, <2>1, <2>3 DEF IsCall, IsChange
<1> QED
  BY <1>1, <1>2

LEMMA StartInvariant ==
  ASSUME Bounds, IInv, NEW cl \in Clients, NEW k \in Key, Start(cl, k)
  PROVE  IInv'
<1>1. PICK input \in Input(k) :
        /\ calls' = [Contest(k, DOMAIN Written(input)) EXCEPT ![cl] =
             [step |-> "look", key |-> k, given |-> Written(input), seen |-> Empty,
              contested |-> UNION {DOMAIN calls[c].given : c \in AtWorkOn(k)}]]
        /\ certain' = Reopened(k, DOMAIN Written(input))
  BY DEF Start
<1> DEFINE given == Written(input)
           F == DOMAIN given
           others == UNION {DOMAIN calls[c].given : c \in AtWorkOn(k)}
<1>2. IsChange(k, given) /\ F \subseteq Field /\ FieldsIn(k) \subseteq Field
  BY WrittenFacts, KeyFacts DEF IsChange
<1>3. others \subseteq Field
  <2>1. \A c \in AtWorkOn(k) : IsCall(calls[c]) /\ calls[c].key = k
    BY ActiveFacts DEF AtWorkOn, IInv
  <2> QED
    BY <1>2, <2>1 DEF IsCall, IsChange
<1>4. calls[cl] = Idle /\ ~Active(cl) /\ calls[cl].key # k
  BY ActiveFacts DEF Start, Active, IInv
<1>5. /\ calls'[cl] = [step |-> "look", key |-> k, given |-> given, seen |-> Empty,
                       contested |-> others]
      /\ DOMAIN calls' = Clients
      /\ \A c \in Clients \ {cl} : calls'[c] = Contest(k, F)[c]
  BY <1>1 DEF Contest
<1>6. \A c \in Clients \ {cl} :
        /\ calls[c].key # k => calls'[c] = calls[c]
        /\ calls[c].key = k =>
             IsCall(calls'[c]) /\ calls'[c].contested = calls[c].contested \cup F
        /\ calls'[c].key = calls[c].key
        /\ calls'[c].given = calls[c].given
        /\ calls'[c].step = calls[c].step
  BY <1>2, <1>5, ContestFacts DEF IInv
<1>7. \A c \in Clients \ {cl} : Active(c)' <=> Active(c)
  BY <1>6 DEF Active
<1>8. /\ certain' \in [Key -> [Field -> Value \cup {None}]]
      /\ \A j \in Key, f \in Field :
           certain'[j][f] = IF j = k /\ f \in F THEN None ELSE certain[j][f]
  BY <1>1, ReopenedFacts DEF IInv
<1>9. rows' = rows /\ gone' = gone /\ faults' = faults /\ made' = made + 1
  BY DEF Start, CallMade
<1>10. TypeOK'
  <2>1. IsCall(calls'[cl])
    BY <1>2, <1>3, <1>5 DEF IsCall
  <2>2. \A c \in Clients : calls'[c] = Idle \/ IsCall(calls'[c])
    BY <1>6, <2>1 DEF IInv, TypeOK
  <2> QED
    BY <1>5, <1>8, <1>9, <2>2 DEF IInv, TypeOK, IsCall, IsChange
<1>11. KnownRows'
  <2>1. calls'[cl].key[1] # "settings" /\ (rows[calls'[cl].key] # None \/ calls'[cl].key \in gone)
    BY <1>5 DEF Start
  <2> QED
    BY <1>6, <1>7, <1>9, <2>1 DEF IInv, KnownRows
<1>12. DeletedIsGone'
  BY <1>9 DEF IInv, DeletedIsGone
<1>13. Overlapping'
  <2>1. SUFFICES ASSUME NEW c \in Clients, NEW d \in Clients, c # d, Active(c)', Active(d)',
                        calls'[c].key = calls'[d].key,
                        NEW f \in DOMAIN calls'[c].given \cap DOMAIN calls'[d].given
                 PROVE  f \in calls'[c].contested
    BY DEF Overlapping
  <2>2. CASE c = cl
    <3>1. calls[d].key = k /\ f \in DOMAIN calls[d].given
      BY <1>5, <1>6, <2>1, <2>2
    <3> QED
      BY <1>5, <2>2, <3>1 DEF AtWorkOn
  <2>3. CASE d = cl
    <3>1. calls[c].key = k /\ f \in F
      BY <1>5, <1>6, <2>1, <2>3
    <3> QED
      BY <1>6, <2>1, <2>3, <3>1
  <2>4. CASE c # cl /\ d # cl
    <3>1. f \in calls[c].contested
      BY <1>6, <1>7, <2>1, <2>4 DEF IInv, Overlapping
    <3> QED
      BY <1>6, <2>4, <3>1
  <2> QED
    BY <2>2, <2>3, <2>4
<1>14. StillOpen'
  <2>1. SUFFICES ASSUME NEW c \in Clients, Active(c)', NEW f \in DOMAIN calls'[c].given
                 PROVE  certain'[calls'[c].key][f] = None
    BY DEF StillOpen
  <2>2. CASE c = cl
    BY <1>2, <1>5, <1>8, <2>1, <2>2
  <2>3. CASE c # cl
    <3>1. certain[calls[c].key][f] = None
      BY <1>6, <1>7, <2>1, <2>3 DEF IInv, StillOpen
    <3>2. calls[c].key \in Key /\ f \in Field
      BY <1>6, <1>7, <2>1, <2>3, ActiveFacts, KeyFacts DEF IInv, IsCall, IsChange
    <3> QED
      BY <1>6, <1>8, <2>3, <3>1, <3>2
  <2> QED
    BY <2>2, <2>3
<1>15. WillBeTrue'
  <2>1. \A c \in Clients : calls'[c].step = "confirm" =>
          c # cl /\ calls[c].step = "confirm" /\ calls[c].contested \subseteq calls'[c].contested
    BY <1>5, <1>6
  <2> QED
    BY <1>6, <1>9, <2>1 DEF IInv, WillBeTrue
<1>16. Certain'
  BY <1>8, <1>9 DEF IInv, Certain
<1> QED
  BY <1>10, <1>11, <1>12, <1>13, <1>14, <1>15, <1>16 DEF IInv

LEMMA DeleteInvariant ==
  ASSUME Bounds, IInv, NEW h \in Homes, DeleteAddress(h)
  PROVE  IInv'
<1> DEFINE k == <<"address", h>>
<1>1. k \in Key
  BY DEF Key
<1>2. /\ rows[k] # None
      /\ rows' = [rows EXCEPT ![k] = None]
      /\ gone' = gone \cup {k}
      /\ calls' = Contest(k, Field)
      /\ certain' = Reopened(k, Field)
      /\ faults' = faults /\ made' = made + 1
  BY DEF DeleteAddress, CallMade
<1>3. \A c \in Clients :
        /\ calls[c].key # k => calls'[c] = calls[c]
        /\ calls[c].key = k =>
             IsCall(calls'[c]) /\ calls'[c].contested = calls[c].contested \cup Field
        /\ calls'[c].key = calls[c].key
        /\ calls'[c].given = calls[c].given
        /\ calls'[c].step = calls[c].step
  BY <1>1, <1>2, ContestFacts DEF IInv
<1>4. \A c \in Clients :
        /\ Active(c)' <=> Active(c)
        /\ Active(c) => calls[c].key \in Key /\ DOMAIN calls[c].given \subseteq Field
  BY <1>3, ActiveFacts, KeyFacts DEF IInv, Active, IsCall, IsChange
<1>5. /\ certain' \in [Key -> [Field -> Value \cup {None}]]
      /\ \A j \in Key, f \in Field :
           certain'[j][f] = IF j = k THEN None ELSE certain[j][f]
  <2>1. TypeOK /\ certain' = Reopened(k, Field)
    BY <1>2 DEF IInv
  <2> HIDE DEF k
  <2>2. /\ certain' \in [Key -> [Field -> Value \cup {None}]]
        /\ \A j \in Key, f \in Field :
             certain'[j][f] = IF j = k /\ f \in Field THEN None ELSE certain[j][f]
    BY <1>1, <2>1, ReopenedFacts
  <2> QED
    BY <2>2
<1>6. DOMAIN rows' = Key /\ rows'[k] = None /\ \A j \in Key \ {k} : rows'[j] = rows[j]
  BY <1>1, <1>2 DEF IInv, TypeOK
<1>7. TypeOK'
  <2>1. \A c \in Clients : calls'[c] = Idle \/ IsCall(calls'[c])
    BY <1>3 DEF IInv, TypeOK
  <2>2. DOMAIN calls' = Clients
    BY <1>2 DEF Contest
  <2>3. \A j \in Key : rows'[j] \in Row(j) \cup {None}
    BY <1>6 DEF IInv, TypeOK
  <2>4. gone' \subseteq {"address"} \X Homes /\ made' \in Nat /\ faults' \in 0..MaxFaults
    BY <1>1, <1>2 DEF IInv, TypeOK
  <2> QED
    BY <1>5, <1>6, <2>1, <2>2, <2>3, <2>4 DEF TypeOK, IsCall, IsChange
<1>8. KnownRows'
  BY <1>2, <1>3, <1>4, <1>6 DEF IInv, KnownRows
<1>9. DeletedIsGone'
  BY <1>2, <1>6 DEF IInv, DeletedIsGone, TypeOK, Key
<1>10. Overlapping'
  <2>1. \A c \in Clients : calls[c].contested \subseteq calls'[c].contested
    BY <1>3
  <2> QED
    BY <1>3, <1>4, <2>1 DEF IInv, Overlapping
<1>11. StillOpen'
  BY <1>3, <1>4, <1>5 DEF IInv, StillOpen
<1>12. WillBeTrue'
  <2>1. SUFFICES ASSUME NEW c \in Clients, calls[c].step = "confirm",
                        NEW f \in DOMAIN calls[c].given \ calls'[c].contested
                 PROVE  rows'[calls[c].key] # None
                        /\ rows'[calls[c].key][f] = calls[c].given[f]
    BY <1>3 DEF WillBeTrue
  <2>2. Active(c)
    BY <2>1 DEF Active
  <2>3. calls[c].key # k
    BY <1>3, <1>4, <2>1, <2>2
  <2>4. rows[calls[c].key] # None /\ rows[calls[c].key][f] = calls[c].given[f]
    BY <1>3, <2>1, <2>3 DEF IInv, WillBeTrue
  <2> QED
    BY <1>4, <1>6, <2>2, <2>3, <2>4
<1>13. Certain'
  BY <1>5, <1>6 DEF IInv, Certain
<1> QED
  BY <1>7, <1>8, <1>9, <1>10, <1>11, <1>12, <1>13 DEF IInv

\* A statement that no update in progress is about: it writes a row, confirms fields
\* F of it and leaves the others as they are.
Statement(k, row, F, given) ==
  /\ row \in Row(k) /\ F \subseteq FieldsIn(k)
  /\ \A f \in F : row[f] = given[f]
  /\ \A f \in FieldsIn(k) \ F : certain[k][f] # None => rows[k] # None /\ row[f] = rows[k][f]
  /\ \A c \in Clients : calls[c].key # k
  /\ k \notin gone
  /\ rows' = [rows EXCEPT ![k] = row]
  /\ certain' = Confirmed(certain, k, F, given)
  /\ made' \in Nat
  /\ UNCHANGED <<calls, gone, faults>>

LEMMA StatementInvariant ==
  ASSUME Bounds, IInv, NEW k \in Key, NEW row, NEW F, NEW given, Statement(k, row, F, given)
  PROVE  IInv'
<1> USE DEF Statement
<1>1. DOMAIN rows' = Key /\ rows'[k] = row /\ \A j \in Key \ {k} : rows'[j] = rows[j]
  BY DEF IInv, TypeOK
<1>2. row # None
  BY DEF Bounds
<1>3. FieldsIn(k) \subseteq Field /\ \A f \in F : given[f] \in Value
  BY KeyFacts DEF Row
<1>4. certain' \in [Key -> [Field -> Value \cup {None}]]
  <2>1. [f \in Field |-> IF f \in F THEN given[f] ELSE certain[k][f]]
          \in [Field -> Value \cup {None}]
    BY <1>3 DEF IInv, TypeOK
  <2> QED
    BY <2>1 DEF Confirmed, IInv, TypeOK
<1>5. /\ \A f \in F : certain'[k][f] = given[f]
      /\ \A f \in Field \ F : certain'[k][f] = certain[k][f]
      /\ \A j \in Key \ {k} : certain'[j] = certain[j]
  BY <1>3 DEF Confirmed, IInv, TypeOK
<1>6. TypeOK'
  BY <1>1, <1>4 DEF IInv, TypeOK, IsCall, IsChange
<1>7. \A c \in Clients :
        /\ Active(c)' <=> Active(c)
        /\ Active(c) => calls[c].key \in Key \ {k} /\ DOMAIN calls[c].given \subseteq Field
  BY ActiveFacts, KeyFacts DEF IInv, Active, IsCall, IsChange
<1>8. KnownRows' /\ StillOpen' /\ Overlapping'
  BY <1>1, <1>5, <1>7 DEF IInv, KnownRows, StillOpen, Overlapping
<1>9. DeletedIsGone'
  BY <1>1 DEF IInv, DeletedIsGone, TypeOK, Key
<1>10. WillBeTrue'
  BY <1>1, <1>7 DEF IInv, WillBeTrue, Active
<1>11. Certain'
  <2>1. SUFFICES ASSUME NEW j \in Key, NEW f \in Field, certain'[j][f] # None
                 PROVE  f \in FieldsIn(j) /\ rows'[j] # None /\ rows'[j][f] = certain'[j][f]
    BY DEF Certain
  <2>2. CASE j # k
    BY <1>1, <1>5, <2>1, <2>2 DEF IInv, Certain
  <2>3. CASE j = k /\ f \in F
    BY <1>1, <1>2, <1>5, <2>3
  <2>4. CASE j = k /\ f \notin F
    <3>1. f \in FieldsIn(k) /\ rows[k][f] = certain[k][f] /\ certain[k][f] # None
      BY <1>5, <2>1, <2>4 DEF IInv, Certain
    <3> QED
      BY <1>1, <1>2, <1>5, <2>4, <3>1
  <2> QED
    BY <2>2, <2>3, <2>4
<1> QED
  BY <1>6, <1>8, <1>9, <1>10, <1>11 DEF IInv

LEMMA CreateInvariant ==
  ASSUME Bounds, IInv, NEW k \in Key, Create(k)
  PROVE  IInv'
<1>1. PICK row \in Row(k) :
        /\ rows' = [rows EXCEPT ![k] = row]
        /\ certain' = Confirmed(certain, k, FieldsIn(k), row)
  BY DEF Create
<1>2. \A c \in Clients : calls[c].key # k
  <2>1. SUFFICES ASSUME NEW c \in Clients, calls[c].key = k PROVE FALSE
    OBVIOUS
  <2>2. Active(c)
    BY <2>1, ActiveFacts DEF IInv
  <2> QED
    BY <2>1, <2>2 DEF Create, IInv, KnownRows
<1>3. k \notin gone /\ made' \in Nat /\ UNCHANGED <<calls, gone, faults>>
  BY DEF Create, CallMade, IInv, TypeOK
<1>4. Statement(k, row, FieldsIn(k), row)
  BY <1>1, <1>2, <1>3 DEF Statement
<1> QED
  BY <1>4, StatementInvariant

LEMMA UpdateSettingsInvariant ==
  ASSUME Bounds, IInv, NEW u \in Users, UpdateSettings(u)
  PROVE  IInv'
<1>1. PICK k \in Key : k = <<"settings", u>> /\ k[1] = "settings"
  <2>1. <<"settings", u>> \in Key /\ <<"settings", u>>[1] = "settings"
    BY DEF Key
  <2> QED
    BY <2>1
<1> DEFINE old == IF rows[k] = None THEN Defaults(k) ELSE rows[k]
<1>2. PICK input \in Input(k) :
        /\ rows' = [rows EXCEPT ![k] = Changed([given |-> Written(input), seen |-> old], old)]
        /\ certain' = Confirmed(certain, k, DOMAIN Written(input), Written(input))
  BY <1>1 DEF UpdateSettings
<1>3. PICK given : given = Written(input)
  OBVIOUS
<1>4. IsChange(k, given)
  BY <1>3, WrittenFacts
<1>5. PICK row : row = Changed([given |-> given, seen |-> old], old)
  OBVIOUS
<1>6. /\ row \in Row(k)
      /\ \A f \in DOMAIN given : row[f] = given[f]
      /\ \A f \in FieldsIn(k) \ DOMAIN given : row[f] = old[f]
  <2>1. old \in Row(k)
    BY DefaultsFacts DEF Bounds, IInv, TypeOK
  <2> HIDE DEF old
  <2>2. IsChange(k, [given |-> given, seen |-> old].given)
    BY <1>4
  <2> QED
    BY <1>5, <2>1, <2>2, ChangedFacts
<1>7. \A f \in FieldsIn(k) \ DOMAIN given :
        certain[k][f] # None => rows[k] # None /\ row[f] = rows[k][f]
  BY <1>6, KeyFacts DEF IInv, Certain
<1>8. \A c \in Clients : calls[c].key # k
  BY <1>1, ActiveFacts DEF IInv, KnownRows
<1>9. k \notin gone
  BY <1>1 DEF IInv, TypeOK
<1>10. made' \in Nat /\ UNCHANGED <<calls, gone, faults>>
  BY DEF UpdateSettings, CallMade, IInv, TypeOK
<1>11. PICK F \in SUBSET FieldsIn(k) : F = DOMAIN given
  BY <1>4 DEF IsChange
<1>12. rows' = [rows EXCEPT ![k] = row] /\ certain' = Confirmed(certain, k, F, given)
  BY <1>2, <1>3, <1>5, <1>11
<1>13. /\ \A f \in F : row[f] = given[f]
       /\ \A f \in FieldsIn(k) \ F :
            certain[k][f] # None => rows[k] # None /\ row[f] = rows[k][f]
  BY <1>6, <1>7, <1>11
<1>14. Statement(k, row, F, given)
  BY <1>6, <1>8, <1>9, <1>10, <1>12, <1>13 DEF Statement
<1> QED
  BY <1>14, StatementInvariant

\* Every step preserves the invariant.
LEMMA StepInvariant == ASSUME Bounds, IInv, [Next]_vars PROVE IInv'
<1>1. CASE UNCHANGED vars
  BY <1>1 DEF vars, IInv, TypeOK, KnownRows, DeletedIsGone, Overlapping, StillOpen,
              WillBeTrue, Certain, Active, IsCall, IsChange
<1>2. ASSUME NEW cl \in Clients, NEW k \in Key, Start(cl, k) PROVE IInv'
  BY <1>2, StartInvariant
<1>3. ASSUME NEW cl \in Clients, Proceed(cl) PROVE IInv'
  <2>1. CASE LookUp(cl)
    BY <2>1, LookUpInvariant
  <2>2. CASE LookUpNone(cl) \/ WriteRefused(cl)
    <3>1. Return(cl) /\ UNCHANGED <<rows, gone, certain, made>> /\ faults' \in 0..MaxFaults
      BY <2>2 DEF LookUpNone, WriteRefused, IInv, TypeOK
    <3> QED
      BY <3>1, ReturnInvariant
  <2>3. CASE Write(cl)
    BY <2>3, WriteInvariant
  <2>4. CASE Confirm(cl)
    BY <2>4, ConfirmInvariant
  <2> QED
    BY <1>3, <2>1, <2>2, <2>3, <2>4 DEF Proceed
<1>4. ASSUME NEW cl \in Clients, Fault(cl) PROVE IInv'
  <2>1. Return(cl) /\ UNCHANGED <<rows, gone, certain, made>> /\ faults' \in 0..MaxFaults
    BY <1>4 DEF Fault, IInv, TypeOK, Bounds
  <2> QED
    BY <2>1, ReturnInvariant
<1>5. ASSUME NEW k \in Key, Create(k) PROVE IInv'
  BY <1>5, CreateInvariant
<1>6. ASSUME NEW u \in Users, UpdateSettings(u) PROVE IInv'
  BY <1>6, UpdateSettingsInvariant
<1>7. ASSUME NEW h \in Homes, DeleteAddress(h) PROVE IInv'
  BY <1>7, DeleteInvariant
<1> QED
  BY <1>1, <1>2, <1>3, <1>4, <1>5, <1>6, <1>7 DEF Next

-----------------------------------------------------------------------------
(***************************************************************************)
(* Theorems                                                                *)
(***************************************************************************)
\* Rows hold a value of the right kind for each of their fields, and calls are
\* about rows there can be.
THEOREM TypeCorrect == ASSUME Bounds PROVE Spec => []TypeOK
<1>1. Init => IInv
  BY InitInvariant
<1>2. IInv /\ [Next]_vars => IInv'
  BY StepInvariant
<1>3. IInv => TypeOK
  BY DEF IInv
<1> QED
  BY <1>1, <1>2, <1>3, PTL DEF Spec

\* What was confirmed of an account stands until another call is about the same
\* field, and a deleted address stays deleted (user.repository.ts).
THEOREM WhatWasConfirmedStands == ASSUME Bounds PROVE Spec => []ConfirmedChangesStand
<1>1. Init => IInv
  BY InitInvariant
<1>2. IInv /\ [Next]_vars => IInv'
  BY StepInvariant
<1>3. IInv => ConfirmedChangesStand
  BY DEF IInv, Certain, DeletedIsGone, ConfirmedChangesStand
<1> QED
  BY <1>1, <1>2, <1>3, PTL DEF Spec

=================================================================================
