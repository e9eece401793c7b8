---------------------------- MODULE MCRevisionTx ----------------------------
(* RevisionTx on three calls of Create and one of Delete for one file, and  *)
(* one call of Create for another file that shares the database's locks.   *)
EXTENDS RevisionTx

CONSTANTS f1, f2, c1, c2, c3, c4, d1

MCFileOf == [t \in Creates \cup Deletes |-> IF t = c4 THEN f2 ELSE f1]
=============================================================================
