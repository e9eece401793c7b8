------------------------------ MODULE MCApiKeys ------------------------------
(* ApiKeys on two users, three sessions and a web request. *)
EXTENDS ApiKeys, TLC

Symmetry == Permutations(Sessions) \cup Permutations(Users)
=============================================================================
