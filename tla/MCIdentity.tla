------------------------------ MODULE MCIdentity ------------------------------
(* Identity on small sets, for TLC. *)
EXTENDS Identity, TLC

Symmetry ==
  Permutations(Proc) \cup Permutations(Account) \cup Permutations(Handle)
    \cup Permutations(Secret)
===============================================================================
