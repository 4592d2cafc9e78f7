------------------------- MODULE MCOrderStandalone -------------------------
(* Small instances of OrderStandalone for TLC. *)
EXTENDS OrderStandalone, TLC

Symmetry ==
  Permutations(Orders) \cup Permutations(Payments) \cup Permutations(Baskets)
    \cup Permutations(Clients) \cup Permutations(Workers)

=============================================================================
