---------------------------- MODULE PaymentLedger ----------------------------
(***************************************************************************)
(* What the payment service promises about one payment, as its exceptions  *)
(* state it: only a pending payment is completed, only a paid one refunded,*)
(* a paid or already cancelled one is never cancelled, and the world hears *)
(* of a success only once the payment was completed.  Every operation is   *)
(* one atomic step.                                                        *)
(***************************************************************************)
CONSTANT Payments

VARIABLES
  status,     \* the status of every payment, "ABSENT" before it is opened
  paid,       \* the payments that were completed
  announced   \* the payments whose success the order service was told of

vars == <<status, paid, announced>>

Init ==
  /\ status = [p \in Payments |-> "ABSENT"]
  /\ paid = {}
  /\ announced = {}

Move(p, from, to) ==
  /\ status[p] \in from
  /\ status' = [status EXCEPT ![p] = to]

Open(p)     == Move(p, {"ABSENT"}, "PENDING") /\ UNCHANGED <<paid, announced>>
Complete(p) == Move(p, {"PENDING"}, "SUCCESS") /\ paid' = paid \cup {p} /\ UNCHANGED announced
Refund(p)   == Move(p, {"SUCCESS"}, "REFUNDED") /\ UNCHANGED <<paid, announced>>
Cancel(p)   == Move(p, {"PENDING", "REFUNDED"}, "CANCELLED") /\ UNCHANGED <<paid, announced>>
Announce(p) ==
  /\ p \in paid
  /\ announced' = announced \cup {p}
  /\ UNCHANGED <<status, paid>>

Next == \E p \in Payments : Open(p) \/ Complete(p) \/ Refund(p) \/ Cancel(p) \/ Announce(p)

Spec == Init /\ [][Next]_vars

=============================================================================
