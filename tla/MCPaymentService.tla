-------------------------- MODULE MCPaymentService --------------------------
(* Small instances of PaymentService for TLC. *)
EXTENDS PaymentService, TLC

\* Calls, workers, codes and ids are interchangeable.
Symmetry ==
  Permutations(Orders) \cup Permutations(Payments) \cup Permutations(Codes)
    \cup Permutations(Clients) \cup Permutations(Workers)

=============================================================================
