----------------------------- MODULE MCMailing -----------------------------
(* Small instances of Mailing for TLC. *)
EXTENDS Mailing, TLC

Symmetry ==
  Permutations(Users) \cup Permutations(Queries) \cup Permutations(Workers)
    \cup Permutations(Answerers)

=============================================================================
