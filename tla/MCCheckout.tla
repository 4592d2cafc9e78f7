----------------------------- MODULE MCCheckout -----------------------------
(* Small instances of Checkout for TLC. *)
EXTENDS Checkout, TLC

Symmetry ==
  Permutations(Orders) \cup Permutations(Payments) \cup Permutations(Codes)
    \cup Permutations(PaymentWorkers) \cup Permutations(OrderWorkers)

=============================================================================
