---------------------------- MODULE RevisionLog ----------------------------
(***************************************************************************)
(* What Revisions.Create and Files.Delete promise of the revision history  *)
(* of a file, with every transaction taken as one step (db/db.go, the      *)
(* Revisions interface).                                                   *)
(*                                                                         *)
(* log[f] is the set of sequence numbers retained for f.  A revision gets  *)
(* the number after the newest one; when a limit is configured the oldest  *)
(* numbers beyond it are forgotten in the same step.                       *)
(***************************************************************************)
EXTENDS Naturals, FiniteSets

CONSTANTS
    Files,    \* the files there are at the start
    Limits    \* values of SNIPS_LIMITS_REVISIONSPERFILE; 0 is "no limit"

VARIABLES
    max,      \* the configured limit of this process
    live,     \* files that have not been deleted
    log       \* log[f]: the sequence numbers retained for f

vars == <<max, live, log>>

\* n is SELECT COALESCE(MAX(sequence), 0) + 1 over the retained numbers S.
IsNextSequence(S, n) ==
    IF S = {} THEN n = 1 ELSE n - 1 \in S /\ \A m \in S : m < n

\* The k largest numbers of S: ORDER BY sequence DESC LIMIT k.
Newest(S, k) == {m \in S : Cardinality({n \in S : n > m}) < k}

\* What stays in the table after the prune statement.
Retain(S, k) == IF k > 0 THEN Newest(S, k) ELSE S

TypeOK ==
    /\ max \in Limits
    /\ live \subseteq Files
    /\ log \in [Files -> SUBSET Nat]

Init ==
    /\ max \in Limits
    /\ live = Files
    /\ log = [f \in Files |-> {}]

(* A committed Revisions.Create. *)
Append(f) ==
    /\ f \in live
    /\ \E n \in {1} \cup {m + 1 : m \in log[f]} :
          /\ IsNextSequence(log[f], n)
          /\ log' = [log EXCEPT ![f] = Retain(@ \cup {n}, max)]
    /\ UNCHANGED <<max, live>>

(* A committed Files.Delete or DeleteByUser: the history goes with the     *)
(* files.                                                                  *)
Remove(F) ==
    /\ F \subseteq live
    /\ live' = live \ F
    /\ log' = [f \in Files |-> IF f \in F THEN {} ELSE log[f]]
    /\ UNCHANGED max

(* The operator restarts the server with another limit. *)
Reconfigure(k) ==
    /\ max' = k
    /\ UNCHANGED <<live, log>>

Next ==
    \/ \E f \in Files : Append(f)
    \/ \E F \in SUBSET Files : Remove(F)
    \/ \E k \in Limits : Reconfigure(k)

Spec == Init /\ [][Next]_vars
=============================================================================
