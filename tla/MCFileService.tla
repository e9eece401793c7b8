--------------------------- MODULE MCFileService ---------------------------
(* FileService on two users and two files; one name in two spellings.       *)
EXTENDS FileService, TLC

CONSTANTS n, N, u1, u2, f1, f2, a, b, x, r1, r2, r3, r4

MCFold == (n :> n) @@ (N :> n)

(* Requests differ in nothing but what they choose to do. *)
Symmetry == Permutations(Requests) \cup Permutations(FileIds) \cup Permutations(Users)
=============================================================================
