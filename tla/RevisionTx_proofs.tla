------------------------- MODULE RevisionTx_proofs -------------------------
(***************************************************************************)
(* What the runs of RevisionTx check on four calls of Create, proved for   *)
(* any number of files, calls, limits and restarts.                        *)
(***************************************************************************)
EXTENDS RevisionTx, SequenceSets

-----------------------------------------------------------------------------
(* Two committed revisions of a file never share a number.                 *)

(* Which statements an invocation of Create or Delete can have run last.   *)
CallsOK ==
    /\ \A c \in Creates : pc[c] # "deleted"
    /\ \A d \in Deletes : pc[d] \notin {"selected", "inserted", "pruned"}

(* A row is there only once its transaction has committed.                 *)
StoredCommitted == \A c \in stored : pc[c] = "committed"

(* SQLite: one transaction writes at a time ...                            *)
OneWriter ==
    backend = "sqlite" => \A t, u \in Txs : Writing(t) /\ Writing(u) => t = u

(* ... and none commits while another one has read, so the number a        *)
(* transaction read is beyond every committed one as long as it is open.   *)
Snapshot ==
    backend = "sqlite" =>
        \A c \in Creates : InTx(c) => \A d \in Rows(FileOf[c]) : seq[d] < seq[c]

(* Either backend: the number of an inserted row is nobody else's.         *)
KeysFree ==
    \A c \in Creates : Writing(c) =>
        \A d \in Creates : SameKey(c, d) => d \notin stored /\ ~Writing(d)

UInv ==
    /\ TypeOK
    /\ CallsOK
    /\ StoredCommitted
    /\ OneWriter
    /\ Snapshot
    /\ KeysFree
    /\ SequenceUnique

(* Goto moves one invocation only.                                         *)
LEMMA GotoMoves ==
    ASSUME TypeOK, NEW t \in Txs, NEW label, Goto(t, label)
    PROVE  /\ pc'[t] = label
           /\ \A u \in Txs : u # t => pc'[u] = pc[u]
BY DEF TypeOK, Goto

LEMMA UInit == Init => UInv
<1> SUFFICES ASSUME Init PROVE UInv
  OBVIOUS
<1> USE TxsAssumption DEF Init, Txs
<1>1. TypeOK
  BY DEF TypeOK
<1>2. \A t \in Txs : ~InTx(t) /\ ~Writing(t)
  BY DEF InTx, Writing
<1>3. CallsOK /\ StoredCommitted /\ OneWriter /\ Snapshot /\ KeysFree
  BY <1>2 DEF CallsOK, StoredCommitted, OneWriter, Snapshot, KeysFree
<1>4. SequenceUnique
  BY DEF SequenceUnique
<1> QED
  BY <1>1, <1>3, <1>4 DEF UInv

(* A step that only moves invocation t, without opening or widening its    *)
(* transaction, leaves the invariant alone.                                *)
LEMMA UQuiet ==
    ASSUME UInv, NEW t \in Txs,
           TypeOK', UNCHANGED <<backend, stored, seq>>,
           \A u \in Txs : u # t => pc'[u] = pc[u],
           InTx(t)' => InTx(t), Writing(t)' => Writing(t),
           pc[t] = "committed" => pc'[t] = "committed",
           CallsOK'
    PROVE  UInv'
<1> USE DEF UInv, Txs
<1>1. \A u \in Txs : (InTx(u)' => InTx(u)) /\ (Writing(u)' => Writing(u))
  BY DEF InTx, Writing
<1>2. StoredCommitted'
  BY DEF StoredCommitted, TypeOK
<1>3. OneWriter'
  BY <1>1 DEF OneWriter
<1>4. Snapshot'
  BY <1>1 DEF Snapshot, Rows
<1>5. KeysFree'
  BY <1>1 DEF KeysFree, SameKey
<1>6. SequenceUnique'
  BY DEF SequenceUnique, SameKey
<1> QED
  BY <1>2, <1>3, <1>4, <1>5, <1>6

(* Every statement keeps the types.                                        *)
LEMMA TypeStep == TypeOK /\ CallsOK /\ [Next]_vars => TypeOK' /\ CallsOK'
<1> SUFFICES ASSUME TypeOK, CallsOK, [Next]_vars PROVE TypeOK' /\ CallsOK'
  OBVIOUS
<1> USE TxsAssumption DEF TypeOK, CallsOK, Txs
<1>1. ASSUME NEW c \in Creates, Select(c) PROVE TypeOK' /\ CallsOK'
  <2>1. PICK n \in {1} \cup {seq[d] + 1 : d \in Rows(FileOf[c])} :
           seq' = [seq EXCEPT ![c] = n]
    BY <1>1 DEF Select
  <2>2. n \in Nat
    BY DEF Rows
  <2> QED
    BY <1>1, <2>1, <2>2 DEF Select, Goto
<1>2. ASSUME NEW c \in Creates, Insert(c) \/ InsertFails(c) PROVE TypeOK' /\ CallsOK'
  BY <1>2 DEF Insert, InsertFails, Goto
<1>3. ASSUME NEW c \in Creates, Prune(c) PROVE TypeOK' /\ CallsOK'
  <2>1. Beyond(c) \in SUBSET Creates
    BY DEF Beyond, Visible, Rows
  <2> QED
    BY <1>3, <2>1 DEF Prune, Goto
<1>4. ASSUME NEW t \in Txs, BeginCommit(t) PROVE TypeOK' /\ CallsOK'
  BY <1>4 DEF BeginCommit, Goto
<1>5. ASSUME NEW c \in Creates, CommitCreate(c) PROVE TypeOK' /\ CallsOK'
  BY <1>5 DEF CommitCreate, Goto
<1>6. ASSUME NEW d \in Deletes, DeleteRevisions(d) PROVE TypeOK' /\ CallsOK'
  BY <1>6 DEF DeleteRevisions, Goto, Rows
<1>7. ASSUME NEW d \in Deletes, CommitDelete(d) PROVE TypeOK' /\ CallsOK'
  BY <1>7 DEF CommitDelete, Goto
<1>8. ASSUME NEW t \in Txs, Rollback(t) PROVE TypeOK' /\ CallsOK'
  BY <1>8 DEF Rollback, Goto
<1>9. ASSUME NEW k \in Limits, Restart(k) PROVE TypeOK' /\ CallsOK'
  BY <1>9 DEF Restart
<1>10. CASE UNCHANGED vars
  BY <1>10 DEF vars
<1> QED
  BY <1>1, <1>2, <1>3, <1>4, <1>5, <1>6, <1>7, <1>8, <1>9, <1>10 DEF Next, Proceed

LEMMA UNext == UInv /\ [Next]_vars => UInv'
<1> SUFFICES ASSUME UInv, [Next]_vars PROVE UInv'
  OBVIOUS
<1>0. TypeOK' /\ CallsOK'
  BY TypeStep DEF UInv
<1> USE TxsAssumption DEF UInv, Txs
<1>1. ASSUME NEW c \in Creates, Select(c) PROVE UInv'
  <2> USE <1>1 DEF Select
  <2>1. PICK n \in {1} \cup {seq[d] + 1 : d \in Rows(FileOf[c])} :
           /\ \A d \in Rows(FileOf[c]) : seq[d] < n
           /\ seq' = [seq EXCEPT ![c] = n]
    OBVIOUS
  <2>2. seq'[c] = n /\ \A d \in Creates : d # c => seq'[d] = seq[d]
    BY <2>1 DEF TypeOK
  <2>3. pc'[c] = "selected" /\ \A u \in Txs : u # c => pc'[u] = pc[u]
    BY GotoMoves
  <2>4. c \notin stored /\ ~Writing(c) /\ ~Writing(c)'
    BY <2>3 DEF StoredCommitted, Writing, InTx
  <2>5. \A u \in Txs : u # c => (InTx(u)' <=> InTx(u)) /\ (Writing(u)' <=> Writing(u))
    BY <2>3 DEF InTx, Writing
  <2>6. StoredCommitted'
    BY <2>3 DEF StoredCommitted, TypeOK
  <2>7. OneWriter'
    BY <2>4, <2>5 DEF OneWriter
  <2>8. Snapshot'
    BY <2>1, <2>2, <2>4, <2>5 DEF Snapshot, Rows, TypeOK
  <2>9. KeysFree'
    BY <2>2, <2>4, <2>5 DEF KeysFree, SameKey
  <2>10. SequenceUnique'
    BY <2>2, <2>4 DEF SequenceUnique, SameKey, TypeOK
  <2> QED
    BY <1>0, <2>6, <2>7, <2>8, <2>9, <2>10
<1>2. ASSUME NEW c \in Creates, Insert(c) PROVE UInv'
  <2> USE <1>2 DEF Insert
  <2>1. pc'[c] = "inserted" /\ \A u \in Txs : u # c => pc'[u] = pc[u]
    BY GotoMoves
  <2>2. InTx(c) /\ \A u \in Txs : InTx(u)' <=> InTx(u)
    BY <2>1 DEF InTx
  <2>3. \A u \in Txs : Writing(u)' => Writing(u) \/ u = c
    BY <2>1, <2>2 DEF Writing
  <2>4. StoredCommitted'
    BY <2>1 DEF StoredCommitted, TypeOK
  <2>5. OneWriter'
    BY <2>3 DEF OneWriter, CanWrite, Others
  <2>6. Snapshot'
    BY <2>2 DEF Snapshot, Rows
  <2>7. ASSUME NEW d \in Creates, SameKey(c, d)
        PROVE  d \notin stored /\ ~Writing(d)
    <3>1. CASE backend = "postgres"
      BY <2>7, <3>1 DEF StoredTwins, UncommittedTwin, StoredCommitted, Writing, InTx
    <3>2. CASE backend = "sqlite"
      BY <2>2, <2>7, <3>2 DEF CanWrite, Others, Snapshot, Rows, SameKey, TypeOK
    <3> QED
      BY <3>1, <3>2, BackendsAssumption DEF TypeOK
  <2>8. KeysFree'
    BY <2>3, <2>7 DEF KeysFree, SameKey
  <2>9. SequenceUnique'
    BY DEF SequenceUnique, SameKey
  <2> QED
    BY <1>0, <2>4, <2>5, <2>6, <2>8, <2>9
<1>3. ASSUME NEW c \in Creates, InsertFails(c) \/ Prune(c) \/ BeginCommit(c) PROVE UInv'
  <2>1. UNCHANGED <<backend, stored, seq>> /\ \E label : Goto(c, label)
    BY <1>3 DEF InsertFails, Prune, BeginCommit
  <2>2. pc'[c] \in {"failed", "pruned", "committing"}
    BY <1>3, GotoMoves DEF InsertFails, Prune, BeginCommit
  <2>3. pc[c] \in {"selected", "inserted", "pruned", "deleted"}
    BY <1>3 DEF InsertFails, Prune, BeginCommit
  <2>4. (InTx(c)' => InTx(c)) /\ (Writing(c)' => Writing(c))
    BY <1>3, <2>3, GotoMoves DEF InTx, Writing, InsertFails, Prune, BeginCommit
  <2> QED
    BY <1>0, <2>1, <2>3, <2>4, GotoMoves, UQuiet
<1>4. ASSUME NEW c \in Creates, CommitCreate(c) PROVE UInv'
  <2> USE <1>4 DEF CommitCreate
  <2>1. pc'[c] = "committed" /\ \A u \in Txs : u # c => pc'[u] = pc[u]
    BY GotoMoves
  <2>2. Writing(c) /\ ~InTx(c)' /\ ~Writing(c)'
    BY <2>1 DEF Writing, InTx
  <2>3. stored' \in SUBSET (stored \cup {c})
    OBVIOUS
  <2>4. \A u \in Txs : (InTx(u)' => InTx(u) /\ u # c) /\ (Writing(u)' => Writing(u) /\ u # c)
    BY <2>1, <2>2 DEF InTx, Writing
  <2>5. StoredCommitted'
    BY <2>1, <2>3 DEF StoredCommitted, TypeOK
  <2>6. OneWriter'
    BY <2>4 DEF OneWriter
  <2>7. Snapshot'
    BY <2>4 DEF Snapshot, CanCommit, Others
  <2>8. KeysFree'
    BY <2>2, <2>3, <2>4 DEF KeysFree, SameKey
  <2>9. SequenceUnique'
    BY <2>2, <2>3 DEF SequenceUnique, KeysFree, SameKey, TypeOK
  <2> QED
    BY <1>0, <2>5, <2>6, <2>7, <2>8, <2>9
<1>5. ASSUME NEW d \in Deletes, DeleteRevisions(d) PROVE UInv'
  <2> USE <1>5 DEF DeleteRevisions
  <2>1. pc'[d] = "deleted" /\ \A u \in Txs : u # d => pc'[u] = pc[u]
    BY GotoMoves
  <2>2. \A u \in Txs : u # d => (InTx(u)' <=> InTx(u)) /\ (Writing(u)' <=> Writing(u))
    BY <2>1 DEF InTx, Writing
  <2>3. \A c \in Creates : c # d
    OBVIOUS
  <2>4. StoredCommitted'
    BY <2>1, <2>3 DEF StoredCommitted, TypeOK
  <2>5. OneWriter'
    BY <2>2 DEF OneWriter, CanWrite, Others
  <2>6. Snapshot'
    BY <2>2, <2>3 DEF Snapshot, Rows
  <2>7. KeysFree'
    BY <2>2, <2>3 DEF KeysFree, SameKey
  <2>8. SequenceUnique'
    BY DEF SequenceUnique, SameKey
  <2> QED
    BY <1>0, <2>4, <2>5, <2>6, <2>7, <2>8
<1>6. ASSUME NEW d \in Deletes, BeginCommit(d) PROVE UInv'
  <2>1. (InTx(d)' => InTx(d)) /\ (Writing(d)' => Writing(d)) /\ pc[d] # "committed"
    BY <1>6, GotoMoves DEF BeginCommit, InTx, Writing
  <2> QED
    BY <1>0, <1>6, <2>1, GotoMoves, UQuiet DEF BeginCommit
<1>7. ASSUME NEW d \in Deletes, CommitDelete(d) PROVE UInv'
  <2> USE <1>7 DEF CommitDelete
  <2>1. pc'[d] = "committed" /\ \A u \in Txs : u # d => pc'[u] = pc[u]
    BY GotoMoves
  <2>2. \A u \in Txs : (InTx(u)' => InTx(u)) /\ (Writing(u)' => Writing(u))
    BY <2>1 DEF InTx, Writing
  <2>3. stored' \in SUBSET stored
    OBVIOUS
  <2>4. StoredCommitted'
    BY <2>1, <2>3 DEF StoredCommitted, TypeOK
  <2>5. OneWriter'
    BY <2>2 DEF OneWriter
  <2>6. Snapshot'
    BY <2>2, <2>3 DEF Snapshot, Rows
  <2>7. KeysFree'
    BY <2>2, <2>3 DEF KeysFree, SameKey
  <2>8. SequenceUnique'
    BY <2>3 DEF SequenceUnique, SameKey
  <2> QED
    BY <1>0, <2>4, <2>5, <2>6, <2>7, <2>8
<1>8. ASSUME NEW t \in Txs, Rollback(t) PROVE UInv'
  <2>1. ~InTx(t)' /\ ~Writing(t)' /\ pc[t] # "committed"
    BY <1>8, GotoMoves DEF Rollback, InTx, Writing
  <2> QED
    BY <1>0, <1>8, <2>1, GotoMoves, UQuiet DEF Rollback
<1>9. ASSUME NEW k \in Limits, Restart(k) PROVE UInv'
  <2> USE <1>9 DEF Restart
  <2>1. \A u \in Txs : ~InTx(u)' /\ ~Writing(u)'
    BY DEF InTx, Writing
  <2>2. StoredCommitted'
    BY DEF StoredCommitted, InTx, TypeOK
  <2>3. OneWriter' /\ Snapshot' /\ KeysFree'
    BY <2>1 DEF OneWriter, Snapshot, KeysFree
  <2>4. SequenceUnique'
    BY DEF SequenceUnique, SameKey
  <2> QED
    BY <1>0, <2>2, <2>3, <2>4
<1>10. CASE UNCHANGED vars
  BY <1>10 DEF vars, TypeOK, CallsOK, StoredCommitted, OneWriter, Snapshot, KeysFree,
               SequenceUnique, InTx, Writing, Rows, SameKey
<1> QED
  BY <1>1, <1>2, <1>3, <1>4, <1>5, <1>6, <1>7, <1>8, <1>9, <1>10 DEF Next, Proceed

(* The state of RevisionTx is always of its types.                         *)
THEOREM TypeCorrect == Spec => []TypeOK
<1>1. UInv => TypeOK
  BY DEF UInv
<1> QED
  BY <1>1, UInit, UNext, PTL DEF Spec

(* No two committed revisions of a file have the same number, on either    *)
(* backend, whatever is interleaved, rolled back or restarted: SQLite's    *)
(* locks do what its schema leaves out.                                    *)
THEOREM UniqueNumbers == Spec => []SequenceUnique
<1>1. UInv => SequenceUnique
  BY DEF UInv
<1> QED
  BY <1>1, UInit, UNext, PTL DEF Spec

-----------------------------------------------------------------------------
(* The history of an existing file has no gaps, and a transaction of       *)
(* RevisionTx is one step of RevisionLog.                                  *)
(*                                                                         *)
(* The difficulty is PostgreSQL, where a number may be out of date when it *)
(* is inserted.  The argument is that an open transaction of an existing   *)
(* file is in one of three situations (Flight): its number is the next     *)
(* one, or somebody else has stored it (the INSERT will fail), or it has   *)
(* been stored and pruned again, and then the table is at its limit and    *)
(* the transaction prunes the row it inserts and nothing else.             *)

(* n is the number after those of the rows R. *)
NextNumber(R, n) ==
    /\ R = {} => n = 1
    /\ R # {} => \E d \in R : n = seq[d] + 1
    /\ \A d \in R : seq[d] < n

(* n is older than a full window of rows. *)
Stale(R, n) == max > 0 /\ Cardinality(R) = max /\ \A d \in R : n < seq[d]

Taken(R, n) == \E d \in R : seq[d] = n

(* A transaction deletes rows of its own file, and none before it prunes.  *)
GoneOK ==
    /\ \A t \in Txs : \A d \in gone[t] : FileOf[d] = FileOf[t]
    /\ \A c \in Creates : pc[c] \in {"idle", "selected", "inserted"} => gone[c] = {}

Flight ==
    \A c \in Creates : InTx(c) /\ FileOf[c] \in live =>
        \/ NextNumber(Rows(FileOf[c]), seq[c])
        \/ Stale(Rows(FileOf[c]), seq[c])
        \/ pc[c] = "selected" /\ Taken(Rows(FileOf[c]), seq[c])

(* What the prune statement deleted is still what it would delete.         *)
PrunedOK ==
    \A c \in Creates : pc[c] \in {"pruned", "committing"} /\ FileOf[c] \in live =>
        gone[c] = IF max > 0 THEN Beyond(c) ELSE {}

HInv ==
    /\ UInv
    /\ IsFiniteSet(stored)
    /\ GoneOK
    /\ Flight
    /\ PrunedOK
    /\ Contiguous

LEMMA RowsFacts ==
    ASSUME UInv, IsFiniteSet(stored), NEW f
    PROVE  /\ Rows(f) \in SUBSET Creates /\ IsFiniteSet(Rows(f))
           /\ Numbered(Rows(f), seq) /\ Distinct(Rows(f), seq)
           /\ Cardinality(Rows(f)) \in Nat
<1>1. Rows(f) \in SUBSET stored
  BY DEF Rows
<1>2. IsFiniteSet(Rows(f)) /\ Cardinality(Rows(f)) \in Nat
  BY <1>1, FS_Subset, FS_CardinalityType
<1>3. \A x, y \in Rows(f) : seq[x] = seq[y] => x = y
  BY DEF Rows, UInv, SequenceUnique, SameKey
<1> QED
  BY <1>1, <1>2, <1>3 DEF UInv, TypeOK, Numbered, Distinct

(* The prune statement finds the rows beyond the limit (SequenceSets).     *)
LEMMA BeyondIsOld ==
    ASSUME NEW c
    PROVE  Beyond(c) = Old(Rows(FileOf[c]) \cup {c}, seq, max)
BY DEF Beyond, Visible, Old, Above

(* A commit for an existing file either leaves the table as it was, or     *)
(* adds the next number and takes away the oldest beyond the limit.        *)
LEMMA CommitRows ==
    ASSUME HInv, NEW c \in Creates, CommitCreate(c), FileOf[c] \in live
    PROVE  LET R == Rows(FileOf[c])
               S == Rows(FileOf[c])'
           IN  \/ Stale(R, seq[c]) /\ stored' = stored
               \/ /\ NextNumber(R, seq[c])
                  /\ S = (R \cup {c}) \ (IF max > 0 THEN Old(R \cup {c}, seq, max) ELSE {})
                  /\ c \in S
                  /\ \A d \in (R \cup {c}) \ S, e \in S : seq[d] < seq[e]
                  /\ (R \cup {c}) \ S # {} => max > 0 /\ Cardinality(S) = max
                  /\ max > 0 /\ Cardinality(R) = max => Cardinality(S) = max
<1> DEFINE R == Rows(FileOf[c])
           V == R \cup {c}
           S == Rows(FileOf[c])'
<1> USE TxsAssumption, LimitsAssumption DEF HInv, Txs
<1>1. pc[c] \in {"pruned", "committing"} /\ InTx(c) /\ Writing(c)
  BY DEF CommitCreate, InTx, Writing
<1>2. gone[c] = IF max > 0 THEN Old(V, seq, max) ELSE {}
  BY <1>1, BeyondIsOld DEF PrunedOK
<1>3. /\ R \in SUBSET Creates /\ IsFiniteSet(R) /\ Numbered(R, seq) /\ Distinct(R, seq)
      /\ Cardinality(R) \in Nat /\ max \in Nat /\ seq \in [Creates -> Nat]
  BY RowsFacts DEF UInv, TypeOK
<1>4. c \notin stored /\ c \notin R
  BY <1>1 DEF UInv, StoredCommitted, Rows
<1>5. NextNumber(R, seq[c]) \/ Stale(R, seq[c])
  BY <1>1 DEF Flight
<1>6. Numbered(V, seq) /\ IsFiniteSet(V)
  BY <1>3, FS_AddElement DEF Numbered
<1>7. CASE Stale(R, seq[c])
  <2>1. max \in Nat \ {0}
    BY <1>3, <1>7 DEF Stale
  <2>2. Old(V, seq, max) = {c}
    <3>1. Cardinality(R) = max /\ \A d \in R : seq[c] < seq[d]
      BY <1>7 DEF Stale
    <3> HIDE DEF R
    <3> QED
      BY <1>3, <1>4, <1>6, <2>1, <3>1, OldStale
  <2>3. stored' = stored
    BY <1>2, <1>4, <2>1, <2>2 DEF CommitCreate
  <2> QED
    BY <1>7, <2>3
<1>8. CASE NextNumber(R, seq[c])
  <2>1. S = V \ (IF max > 0 THEN Old(V, seq, max) ELSE {})
    BY <1>2 DEF CommitCreate, Rows
  <2>2. \A d \in V : seq[d] <= seq[c]
    BY <1>3, <1>8 DEF NextNumber, Numbered
  <2>3. Distinct(V, seq)
    BY <1>3, <1>8 DEF NextNumber, Numbered, Distinct
  <2>4. c \in S
    <3> HIDE DEF V
    <3>1. c \in V
      BY DEF V
    <3>2. max > 0 => c \notin Old(V, seq, max)
      BY <1>3, <1>6, <2>2, <3>1, TopKept
    <3> QED
      BY <2>1, <3>1, <3>2
  <2>5. ASSUME NEW d \in V \ S, NEW e \in S PROVE seq[d] < seq[e]
    <3>1. max > 0 /\ d \in Old(V, seq, max) /\ e \in V /\ e \notin Old(V, seq, max)
      BY <2>1, <2>5
    <3>2. ~(seq[e] <= seq[d])
      <4> HIDE DEF V
      <4> QED
        BY <1>3, <1>6, <3>1, OldClosed
    <3>3. d \in V
      BY <2>5
    <3> QED
      BY <1>6, <3>1, <3>2, <3>3 DEF Numbered
  <2>6. V \ S # {} => max > 0 /\ Cardinality(S) = max
    <3> SUFFICES ASSUME V \ S # {} PROVE max > 0 /\ Cardinality(S) = max
      OBVIOUS
    <3>1. max > 0 /\ S = V \ Old(V, seq, max) /\ Old(V, seq, max) # {}
      BY <2>1
    <3> HIDE DEF V
    <3> QED
      BY <1>3, <1>6, <2>3, <3>1, OldCount
  <2>7. max > 0 /\ Cardinality(R) = max => V \ S # {}
    <3> SUFFICES ASSUME max > 0, Cardinality(R) = max PROVE V \ S # {}
      OBVIOUS
    <3>1. Cardinality(V) = max + 1
      BY <1>3, <1>4, FS_AddElement
    <3>2. Old(V, seq, max) # {} /\ Old(V, seq, max) \in SUBSET V
      <4> HIDE DEF V
      <4> QED
        BY <1>3, <1>6, <2>3, <3>1, OldSome DEF Old
    <3> QED
      BY <2>1, <3>2
  <2> QED
    BY <1>8, <2>1, <2>4, <2>5, <2>6, <2>7
<1> QED
  BY <1>5, <1>7, <1>8

LEMMA HInit == Init => HInv
<1> SUFFICES ASSUME Init PROVE HInv
  OBVIOUS
<1>1. UInv
  BY UInit
<1>2. IsFiniteSet(stored)
  BY FS_EmptySet DEF Init
<1>3. GoneOK
  BY DEF Init, GoneOK, Txs
<1>4. Flight /\ PrunedOK
  BY DEF Init, Flight, PrunedOK, InTx, Txs
<1>5. Contiguous
  BY DEF Init, Contiguous, Rows
<1> QED
  BY <1>1, <1>2, <1>3, <1>4, <1>5 DEF HInv

(* The prune statement finds the same rows in the same table.              *)
LEMMA SameBeyond ==
    ASSUME UNCHANGED <<stored, seq, max>>
    PROVE  \A c : Beyond(c)' = Beyond(c)
<1>1. \A c : Visible(c)' = Visible(c)
  BY DEF Visible, Rows
<1> QED
  BY <1>1 DEF Beyond

(* A step that touches no table and opens no transaction.                  *)
LEMMA HQuiet ==
    ASSUME HInv, UInv', UNCHANGED <<stored, seq, max, live>>, GoneOK', PrunedOK',
           \A c \in Creates : InTx(c)' =>
               InTx(c) /\ (pc[c] = "selected" => pc'[c] = "selected")
    PROVE  HInv'
<1>1. Flight'
  BY DEF HInv, Flight, Rows, NextNumber, Stale, Taken
<1>2. Contiguous'
  BY DEF HInv, Contiguous, Rows
<1> QED
  BY <1>1, <1>2 DEF HInv

LEMMA HSelect ==
    ASSUME HInv, UInv', NEW c \in Creates, Select(c)
    PROVE  HInv'
<1> USE TxsAssumption DEF HInv, Select, Txs
<1>1. PICK n \in {1} \cup {seq[d] + 1 : d \in Rows(FileOf[c])} :
         /\ \A d \in Rows(FileOf[c]) : seq[d] < n
         /\ seq' = [seq EXCEPT ![c] = n]
  OBVIOUS
<1>2. seq'[c] = n /\ \A d \in Creates : d # c => seq'[d] = seq[d]
  BY <1>1 DEF UInv, TypeOK
<1>3. pc'[c] = "selected" /\ \A u \in Txs : u # c => pc'[u] = pc[u]
  BY GotoMoves DEF UInv
<1>4. \A f : Rows(f)' = Rows(f) /\ Rows(f) \in SUBSET (Creates \ {c})
  BY DEF Rows, UInv, StoredCommitted, TypeOK
<1>5. NextNumber(Rows(FileOf[c]), seq[c])'
  <2>1. \A d \in Rows(FileOf[c]) : seq[d] \in Nat
    BY <1>4 DEF UInv, TypeOK
  <2> QED
    BY <1>1, <1>2, <1>4, <2>1 DEF NextNumber
<1>6. Flight'
  <2> SUFFICES ASSUME NEW d \in Creates, d # c, InTx(d), FileOf[d] \in live
               PROVE  \/ NextNumber(Rows(FileOf[d]), seq[d])'
                      \/ Stale(Rows(FileOf[d]), seq[d])'
                      \/ (pc[d] = "selected" /\ Taken(Rows(FileOf[d]), seq[d]))'
    BY <1>3, <1>5 DEF Flight, InTx
  <2>1. seq'[d] = seq[d] /\ pc'[d] = pc[d]
    BY <1>2, <1>3
  <2>2. CASE NextNumber(Rows(FileOf[d]), seq[d])
    BY <1>2, <1>4, <2>1, <2>2 DEF NextNumber
  <2>3. CASE Stale(Rows(FileOf[d]), seq[d])
    BY <1>2, <1>4, <2>1, <2>3 DEF Stale
  <2>4. CASE pc[d] = "selected" /\ Taken(Rows(FileOf[d]), seq[d])
    BY <1>2, <1>4, <2>1, <2>4 DEF Taken
  <2> QED
    BY <2>2, <2>3, <2>4 DEF Flight
<1>7. PrunedOK'
  <2> SUFFICES ASSUME NEW d \in Creates, pc[d] \in {"pruned", "committing"}, d # c,
                      FileOf[d] \in live
               PROVE  Beyond(d)' = Beyond(d)
    BY <1>3 DEF PrunedOK
  <2> DEFINE V == Rows(FileOf[d]) \cup {d}
  <2>1. \A x \in V : seq[x] = seq'[x]
    BY <1>2, <1>4
  <2>2. \A x \in V : {e \in V : seq[e] > seq[x]} = {e \in V : seq'[e] > seq'[x]}
    BY <2>1
  <2> QED
    BY <1>4, <2>2 DEF Beyond, Visible
<1>8. Contiguous'
  BY <1>2, <1>4 DEF Contiguous
<1>9. GoneOK'
  BY <1>3 DEF GoneOK, UInv, CallsOK
<1> QED
  BY <1>6, <1>7, <1>8, <1>9

LEMMA HInsert ==
    ASSUME HInv, UInv', NEW c \in Creates, Insert(c)
    PROVE  HInv'
<1> USE TxsAssumption DEF HInv, Insert, Txs
<1>1. pc'[c] = "inserted" /\ \A u \in Txs : u # c => pc'[u] = pc[u]
  BY GotoMoves DEF UInv
<1>2. ~Taken(Rows(FileOf[c]), seq[c])
  <2>1. CASE backend = "postgres"
    BY <2>1 DEF StoredTwins, SameKey, Taken, Rows, UInv, StoredCommitted
  <2>2. CASE backend = "sqlite"
    BY <2>2 DEF UInv, Snapshot, InTx, Taken, Rows, TypeOK
  <2> QED
    BY <2>1, <2>2, BackendsAssumption DEF UInv, TypeOK
<1>3. Flight'
  BY <1>1, <1>2 DEF Flight, InTx, Rows, NextNumber, Stale, Taken
<1>4. PrunedOK'
  BY <1>1 DEF PrunedOK, Beyond, Visible, Rows
<1>5. Contiguous' /\ GoneOK'
  BY <1>1 DEF Contiguous, Rows, GoneOK
<1> QED
  BY <1>3, <1>4, <1>5

(* A commit of c, which touches the rows of its own file only.             *)
LEMMA HCommitCreate ==
    ASSUME HInv, UInv', NEW c \in Creates, CommitCreate(c)
    PROVE  HInv'
<1> DEFINE f == FileOf[c]
           R == Rows(f)
           S == Rows(f)'
<1> USE TxsAssumption, LimitsAssumption DEF HInv, CommitCreate, Txs
<1>1. pc'[c] = "committed" /\ \A u \in Txs : u # c => pc'[u] = pc[u]
  BY GotoMoves DEF UInv
<1>2. IsFiniteSet(stored')
  <2>1. IsFiniteSet(stored \cup {c})
    BY FS_AddElement
  <2>2. stored' \in SUBSET (stored \cup {c})
    OBVIOUS
  <2> QED
    BY <2>1, <2>2, FS_Subset
<1>3. GoneOK'
  BY <1>1 DEF GoneOK, UInv, TypeOK
<1>4. \A g : g # f => Rows(g)' = Rows(g)
  BY DEF Rows, GoneOK
<1>5. \A d \in Creates : d # c => pc'[d] = pc[d] /\ (InTx(d)' <=> InTx(d)) /\ gone'[d] = gone[d]
  BY <1>1 DEF InTx, UInv, TypeOK
<1>6. Writing(c) /\ ~InTx(c)'
  BY <1>1 DEF InTx, Writing
<1>7. CASE \/ f \notin live
           \/ Stale(R, seq[c]) /\ stored' = stored
  <2>1. \A g \in live : Rows(g)' = Rows(g)
    BY <1>4, <1>7 DEF Rows
  <2>2. Flight'
    BY <1>5, <1>6, <2>1 DEF Flight, NextNumber, Stale, Taken
  <2>3. PrunedOK'
    BY <1>1, <1>5, <2>1 DEF PrunedOK, Beyond, Visible
  <2>4. Contiguous'
    BY <2>1 DEF Contiguous
  <2> QED
    BY <1>2, <1>3, <2>2, <2>3, <2>4
<1>8. CASE /\ f \in live
           /\ NextNumber(R, seq[c])
           /\ c \in S /\ S \in SUBSET (R \cup {c})
           /\ \A d \in (R \cup {c}) \ S, e \in S : seq[d] < seq[e]
           /\ (R \cup {c}) \ S # {} => max > 0 /\ Cardinality(S) = max
           /\ max > 0 /\ Cardinality(R) = max => Cardinality(S) = max
  <2>1. /\ R \in SUBSET Creates /\ seq \in [Creates -> Nat] /\ max \in Nat
        /\ IsFiniteSet(R)
    BY RowsFacts DEF UInv, TypeOK
  \* The others of the same file: never with the next number and writing,
  \* and still older than the window if they were.
  <2>2. ASSUME NEW d \in Creates, d # c, FileOf[d] = f, NextNumber(R, seq[d])
        PROVE  SameKey(c, d) /\ ~Writing(d)
    <3>1. seq[d] = seq[c]
      BY <1>8, <2>1, <2>2 DEF NextNumber
    <3> QED
      BY <1>6, <2>2, <3>1 DEF SameKey, UInv, KeysFree
  <2>3. ASSUME NEW d \in Creates, d # c, FileOf[d] = f, Stale(R, seq[d])
        PROVE  Stale(R, seq[d])'
    <3>1. R # {}
      BY <2>1, <2>3, FS_EmptySet DEF Stale
    <3>2. \A e \in R \cup {c} : seq[d] < seq[e]
      BY <1>8, <2>1, <2>3, <3>1 DEF Stale, NextNumber
    <3> QED
      BY <1>8, <2>3, <3>2 DEF Stale
  <2>4. ASSUME NEW d \in Creates, d # c, FileOf[d] = f, Taken(R, seq[d])
        PROVE  Taken(R, seq[d])' \/ Stale(R, seq[d])'
    <3>1. PICK e \in R : seq[e] = seq[d]
      BY <2>4 DEF Taken
    <3>2. CASE e \in S
      BY <3>1, <3>2 DEF Taken
    <3>3. CASE e \notin S
      BY <1>8, <3>1, <3>3 DEF Stale
    <3> QED
      BY <3>2, <3>3
  <2>5. Flight'
    <3> SUFFICES ASSUME NEW d \in Creates, InTx(d)', FileOf[d] \in live
                 PROVE  \/ NextNumber(Rows(FileOf[d]), seq[d])'
                        \/ Stale(Rows(FileOf[d]), seq[d])'
                        \/ (pc[d] = "selected" /\ Taken(Rows(FileOf[d]), seq[d]))'
      BY DEF Flight
    <3>1. d # c /\ InTx(d) /\ pc'[d] = pc[d]
      BY <1>5, <1>6
    <3>2. CASE FileOf[d] # f
      BY <1>4, <3>1, <3>2 DEF Flight, NextNumber, Stale, Taken
    <3>3. CASE FileOf[d] = f /\ NextNumber(R, seq[d])
      <4>1. pc[d] = "selected"
        BY <2>2, <3>1, <3>3 DEF Writing
      <4>2. Taken(R, seq[d])'
        BY <1>8, <2>2, <3>1, <3>3 DEF Taken, SameKey
      <4> QED
        BY <3>1, <3>3, <4>1, <4>2
    <3>4. CASE FileOf[d] = f /\ Stale(R, seq[d])
      BY <2>3, <3>1, <3>4
    <3>5. CASE FileOf[d] = f /\ pc[d] = "selected" /\ Taken(R, seq[d])
      BY <2>4, <3>1, <3>5
    <3> QED
      BY <3>1, <3>2, <3>3, <3>4, <3>5 DEF Flight
  <2>6. PrunedOK'
    <3> SUFFICES ASSUME NEW d \in Creates, (pc[d] \in {"pruned", "committing"})',
                        FileOf[d] \in live
                 PROVE  gone[d]' = IF max > 0 THEN Beyond(d)' ELSE {}
      BY DEF PrunedOK
    <3>1. d # c /\ InTx(d) /\ Writing(d) /\ pc'[d] = pc[d] /\ gone'[d] = gone[d]
      BY <1>1, <1>5 DEF InTx, Writing
    <3>2. gone[d] = IF max > 0 THEN Beyond(d) ELSE {}
      BY <3>1 DEF PrunedOK
    <3>3. CASE FileOf[d] # f
      <4>1. Visible(d)' = Visible(d) /\ UNCHANGED <<seq, max>>
        BY <1>4, <3>3 DEF Visible
      <4>2. Beyond(d)' = Beyond(d)
        BY <4>1 DEF Beyond
      <4> QED
        BY <3>1, <3>2, <4>1, <4>2
    <3>4. CASE FileOf[d] = f
      <4>1. Stale(R, seq[d])
        BY <2>2, <3>1, <3>4 DEF Flight, Writing
      <4>2. Stale(R, seq[d])'
        BY <2>3, <3>1, <3>4, <4>1
      <4>3. max \in Nat \ {0} /\ d \notin R /\ d \notin S
        <5>1. d \notin stored /\ d \notin stored'
          BY <3>1 DEF UInv, StoredCommitted, Writing, InTx
        <5> QED
          BY <2>1, <4>1, <5>1 DEF Stale, Rows
      <4>4. \A Q \in {R, S} : Old(Q \cup {d}, seq, max) = {d}
        <5> SUFFICES ASSUME NEW Q \in {R, S} PROVE Old(Q \cup {d}, seq, max) = {d}
          OBVIOUS
        <5>1. IsFiniteSet(Q) /\ Q \in SUBSET Creates
          <6>1. IsFiniteSet(S)
            BY <1>2, FS_Subset DEF Rows
          <6> QED
            BY <1>8, <2>1, <6>1
        <5>2. Cardinality(Q) = max /\ \A x \in Q : seq[d] < seq[x]
          BY <4>1, <4>2 DEF Stale
        <5>3. Numbered(Q \cup {d}, seq) /\ d \notin Q
          BY <2>1, <4>3, <5>1 DEF Numbered
        <5> HIDE DEF R, S
        <5> QED
          BY <4>3, <5>1, <5>2, <5>3, OldStale
      <4>5. Beyond(d) = {d} /\ Beyond(d)' = {d}
        BY <3>4, <4>4 DEF Beyond, Visible, Old, Above
      <4> QED
        BY <3>1, <3>2, <4>5
    <3> QED
      BY <3>3, <3>4
  <2>7. Contiguous'
    <3> SUFFICES ASSUME NEW g \in live, NEW x \in Rows(g)', NEW y \in Rows(g)',
                        NEW n \in seq[x]..seq[y]
                 PROVE  \E e \in Rows(g)' : seq[e] = n
      BY DEF Contiguous
    <3>1. CASE g # f
      BY <1>4, <3>1 DEF Contiguous
    <3>2. CASE g = f
      <4>1. \E e \in R \cup {c} : seq[e] = n
        <5>1. CASE y \in R /\ x \in R
          BY <5>1, <1>8 DEF Contiguous
        <5>2. CASE x = c
          BY <1>8, <2>1, <3>2, <5>2 DEF NextNumber
        <5>3. CASE y = c /\ x \in R
          <6>1. PICK z \in R : seq[c] = seq[z] + 1
            BY <1>8, <5>3 DEF NextNumber
          <6>2. n \in seq[x]..seq[z] \/ n = seq[c]
            BY <2>1, <5>3, <6>1
          <6>3. n \in seq[x]..seq[z] => \E e \in R : seq[e] = n
            BY <1>8, <5>3 DEF Contiguous
          <6> QED
            BY <6>2, <6>3
        <5> QED
          BY <1>8, <3>2, <5>1, <5>2, <5>3
      <4>2. PICK e \in R \cup {c} : seq[e] = n
        BY <4>1
      <4>3. e \in S
        BY <1>8, <2>1, <3>2, <4>2
      <4> QED
        BY <3>2, <4>2, <4>3
    <3> QED
      BY <3>1, <3>2
  <2> QED
    BY <1>2, <1>3, <2>5, <2>6, <2>7
<1> QED
  BY <1>7, <1>8, CommitRows

LEMMA HNext == HInv /\ [Next]_vars => HInv'
<1> SUFFICES ASSUME HInv, [Next]_vars PROVE HInv'
  OBVIOUS
<1>0. UInv'
  BY UNext DEF HInv
<1> USE TxsAssumption, LimitsAssumption DEF Txs
<1>1. ASSUME NEW c \in Creates, Select(c) PROVE HInv'
  BY <1>0, <1>1, HSelect
<1>2. ASSUME NEW c \in Creates, Insert(c) PROVE HInv'
  BY <1>0, <1>2, HInsert
<1>3. ASSUME NEW c \in Creates, InsertFails(c) PROVE HInv'
  <2> USE <1>3 DEF InsertFails, HInv
  <2>1. pc'[c] = "failed" /\ \A u \in Txs : u # c => pc'[u] = pc[u]
    BY GotoMoves DEF UInv
  <2>2. PrunedOK' /\ GoneOK'
    BY <2>1, SameBeyond DEF PrunedOK, GoneOK, Rows
  <2> QED
    BY <1>0, <2>1, <2>2, HQuiet DEF InTx
<1>4. ASSUME NEW c \in Creates, Prune(c) PROVE HInv'
  <2> USE <1>4 DEF Prune, HInv
  <2>1. pc'[c] = "pruned" /\ \A u \in Txs : u # c => pc'[u] = pc[u]
    BY GotoMoves DEF UInv
  <2>2. /\ gone'[c] = IF max > 0 THEN Beyond(c) ELSE gone[c]
        /\ \A u \in Txs : u # c => gone'[u] = gone[u]
    BY DEF UInv, TypeOK
  <2>3. GoneOK'
    <3>1. \A d \in Beyond(c) : FileOf[d] = FileOf[c]
      BY DEF Beyond, Visible, Rows
    <3> QED
      BY <2>1, <2>2, <3>1 DEF GoneOK
  <2>4. PrunedOK'
    <3>1. gone[c] = {}
      BY DEF GoneOK
    <3> QED
      BY <2>1, <2>2, <3>1, SameBeyond DEF PrunedOK
  <2> QED
    BY <1>0, <2>1, <2>3, <2>4, HQuiet DEF InTx
<1>5. ASSUME NEW t \in Txs, BeginCommit(t) PROVE HInv'
  <2> USE <1>5 DEF BeginCommit, HInv
  <2>1. pc'[t] = "committing" /\ \A u \in Txs : u # t => pc'[u] = pc[u]
    BY GotoMoves DEF UInv
  <2>2. t \in Creates => pc[t] = "pruned"
    BY DEF UInv, CallsOK
  <2>3. PrunedOK' /\ GoneOK'
    BY <2>1, <2>2, SameBeyond DEF PrunedOK, GoneOK, Rows
  <2> QED
    BY <1>0, <2>1, <2>3, HQuiet DEF InTx
<1>6. ASSUME NEW c \in Creates, CommitCreate(c) PROVE HInv'
  BY <1>0, <1>6, HCommitCreate
<1>7. ASSUME NEW d \in Deletes, DeleteRevisions(d) PROVE HInv'
  <2> USE <1>7 DEF DeleteRevisions, HInv
  <2>1. pc'[d] = "deleted" /\ \A u \in Txs : u # d => pc'[u] = pc[u]
    BY GotoMoves DEF UInv
  <2>2. gone'[d] = Rows(FileOf[d]) /\ \A u \in Txs : u # d => gone'[u] = gone[u]
    BY DEF UInv, TypeOK
  <2>3. PrunedOK' /\ GoneOK'
    BY <2>1, <2>2, SameBeyond DEF PrunedOK, GoneOK, Rows
  <2> QED
    BY <1>0, <2>1, <2>3, HQuiet DEF InTx
<1>8. ASSUME NEW d \in Deletes, CommitDelete(d) PROVE HInv'
  <2> USE <1>8 DEF CommitDelete, HInv
  <2>1. pc'[d] = "committed" /\ \A u \in Txs : u # d => pc'[u] = pc[u]
    BY GotoMoves DEF UInv
  <2>2. gone'[d] = {} /\ \A u \in Txs : u # d => gone'[u] = gone[u]
    BY DEF UInv, TypeOK
  <2>3. \A g \in live' : Rows(g)' = Rows(g) /\ g \in live
    BY DEF Rows, GoneOK
  <2>4. IsFiniteSet(stored')
    BY FS_Subset
  <2>5. GoneOK'
    BY <2>1, <2>2 DEF GoneOK
  <2>6. Flight'
    BY <2>1, <2>3 DEF Flight, InTx, NextNumber, Stale, Taken
  <2>7. PrunedOK'
    <3> SUFFICES ASSUME NEW c \in Creates, FileOf[c] \in live',
                        pc[c] \in {"pruned", "committing"}, c # d
                 PROVE  gone'[c] = IF max > 0 THEN Beyond(c)' ELSE {}
      BY <2>1 DEF PrunedOK
    <3>1. Visible(c)' = Visible(c)
      BY <2>3 DEF Visible
    <3>2. Beyond(c)' = Beyond(c)
      BY <3>1 DEF Beyond
    <3> QED
      BY <2>2, <2>3, <3>2 DEF PrunedOK
  <2>8. Contiguous'
    BY <2>3 DEF Contiguous
  <2> QED
    BY <1>0, <2>4, <2>5, <2>6, <2>7, <2>8
<1>9. ASSUME NEW t \in Txs, Rollback(t) PROVE HInv'
  <2> USE <1>9 DEF Rollback, HInv
  <2>1. pc'[t] = "failed" /\ \A u \in Txs : u # t => pc'[u] = pc[u]
    BY GotoMoves DEF UInv
  <2>2. gone'[t] = {} /\ \A u \in Txs : u # t => gone'[u] = gone[u]
    BY DEF UInv, TypeOK
  <2>3. PrunedOK' /\ GoneOK'
    BY <2>1, <2>2, SameBeyond DEF PrunedOK, GoneOK, Rows
  <2> QED
    BY <1>0, <2>1, <2>3, HQuiet DEF InTx
<1>10. ASSUME NEW k \in Limits, Restart(k) PROVE HInv'
  <2> USE <1>10 DEF Restart, HInv
  <2>1. \A u \in Txs : ~InTx(u)' /\ pc'[u] \notin {"pruned", "committing"}
    BY DEF InTx
  <2>2. Flight' /\ PrunedOK' /\ GoneOK'
    BY <2>1 DEF Flight, PrunedOK, GoneOK
  <2>3. Contiguous'
    BY DEF Contiguous, Rows
  <2> QED
    BY <1>0, <2>2, <2>3
<1>11. CASE UNCHANGED vars
  <2>1. PrunedOK' /\ GoneOK'
    BY <1>11, SameBeyond DEF HInv, vars, PrunedOK, GoneOK
  <2> QED
    BY <1>0, <1>11, <2>1, HQuiet DEF vars, InTx
<1> QED
  BY <1>1, <1>2, <1>3, <1>4, <1>5, <1>6, <1>7, <1>8, <1>9, <1>10, <1>11 DEF Next, Proceed

(* The retained numbers of an existing file are consecutive: neither a     *)
(* transaction with an outdated number nor a prune leaves a hole.          *)
THEOREM NoGaps == Spec => []Contiguous
<1>1. HInv => Contiguous
  BY DEF HInv
<1> QED
  BY <1>1, HInit, HNext, PTL DEF Spec

-----------------------------------------------------------------------------
(* Refinement: each transaction is one step of RevisionLog.                *)

LEMMA LogInit == Init => Log!Init
BY DEF Init, Log!Init, Retained, Rows

(* RevisionLog counts with its own instance of FiniteSets.                 *)
LEMMA LogCardinality ==
    ASSUME NEW S
    PROVE  Log!Cardinality(S) = Cardinality(S)
BY DEF Log!Cardinality, Cardinality

(* A commit that adds the next number appends to the history.              *)
LEMMA LogAppend ==
    ASSUME HInv, NEW c \in Creates, CommitCreate(c), FileOf[c] \in live
    PROVE  Log!Append(FileOf[c]) \/ UNCHANGED <<max, live, Retained>>
<1> DEFINE f == FileOf[c]
           R == Rows(f)
           V == R \cup {c}
           S == Rows(f)'
           N == {seq[d] : d \in R}
<1> USE TxsAssumption, LimitsAssumption DEF HInv, Txs
<1>1. CASE stored' = stored
  BY <1>1 DEF CommitCreate, Retained, Rows
<1>2. CASE /\ NextNumber(R, seq[c])
           /\ S = V \ (IF max > 0 THEN Old(V, seq, max) ELSE {})
  <2>1. /\ R \in SUBSET Creates /\ IsFiniteSet(R) /\ Distinct(R, seq)
        /\ seq \in [Creates -> Nat] /\ max \in Nat
        /\ live \in SUBSET Files /\ f \in live
    BY RowsFacts DEF UInv, TypeOK
  <2>2. Log!IsNextSequence(Retained[f], seq[c])
    BY <1>2, <2>1 DEF Log!IsNextSequence, Retained, NextNumber
  <2>3. seq[c] \in {1} \cup {m + 1 : m \in Retained[f]}
    BY <1>2, <2>1 DEF Retained, NextNumber
  <2>4. {seq[d] : d \in V} = Retained[f] \cup {seq[c]}
    BY <2>1 DEF Retained
  <2>5. {seq[d] : d \in S} = Log!Retain(Retained[f] \cup {seq[c]}, max)
    <3>1. CASE max > 0
      <4>1. IsFiniteSet(V) /\ Numbered(V, seq) /\ Distinct(V, seq)
        BY <1>2, <2>1, FS_AddElement DEF NextNumber, Numbered, Distinct
      <4> HIDE DEF V
      <4>2. {seq[d] : d \in V \ Old(V, seq, max)} =
              {m \in {seq[d] : d \in V} :
                 Cardinality({n \in {seq[d] : d \in V} : n > m}) < max}
        BY <2>1, <4>1, NewestNumbers
      <4> QED
        BY <1>2, <2>4, <3>1, <4>2, LogCardinality DEF Log!Retain, Log!Newest
    <3>2. CASE ~(max > 0)
      BY <1>2, <2>4, <3>2 DEF Log!Retain
    <3> QED
      BY <3>1, <3>2
  <2>6. \A g \in Files : g # f => Rows(g)' = Rows(g)
    BY DEF Rows, GoneOK, CommitCreate
  <2>7. Retained' = [Retained EXCEPT ![f] = Log!Retain(@ \cup {seq[c]}, max)]
    <3>1. UNCHANGED <<seq, live, max>>
      BY DEF CommitCreate
    <3>2. Retained'[f] = Log!Retain(Retained[f] \cup {seq[c]}, max)
      BY <2>1, <2>5, <3>1 DEF Retained
    <3>3. \A g \in Files : g # f => Retained'[g] = Retained[g]
      BY <2>6, <3>1 DEF Retained
    <3> QED
      BY <2>1, <3>2, <3>3 DEF Retained
  <2> QED
    BY <2>1, <2>2, <2>3, <2>7 DEF Log!Append, CommitCreate
<1> QED
  BY <1>1, <1>2, CommitRows

LEMMA LogStep == HInv /\ [Next]_vars => [Log!Next]_(Log!vars)
<1> SUFFICES ASSUME HInv, [Next]_vars PROVE Log!Next \/ UNCHANGED <<max, live, Retained>>
  BY DEF Log!vars
<1> USE TxsAssumption DEF Txs
<1>1. ASSUME UNCHANGED <<max, live, stored>>,
             \A c \in stored : seq'[c] = seq[c]
      PROVE  UNCHANGED <<max, live, Retained>>
  BY <1>1 DEF Retained, Rows
<1>2. ASSUME NEW c \in Creates, Select(c) PROVE UNCHANGED <<max, live, Retained>>
  <2>1. \A d \in stored : d # c /\ d \in Creates
    BY <1>2 DEF HInv, UInv, StoredCommitted, TypeOK, Select
  <2> QED
    BY <1>1, <1>2, <2>1 DEF Select, HInv, UInv, TypeOK
<1>3. ASSUME NEW t \in Txs, Insert(t) \/ InsertFails(t) \/ Prune(t) \/ BeginCommit(t)
                            \/ DeleteRevisions(t) \/ Rollback(t)
      PROVE  UNCHANGED <<max, live, Retained>>
  BY <1>1, <1>3 DEF Insert, InsertFails, Prune, BeginCommit, DeleteRevisions, Rollback
<1>4. ASSUME NEW c \in Creates, CommitCreate(c)
      PROVE  Log!Next \/ UNCHANGED <<max, live, Retained>>
  <2>1. CASE FileOf[c] \in live
    <3>1. FileOf[c] \in Files
      OBVIOUS
    <3> QED
      BY <1>4, <2>1, <3>1, LogAppend DEF Log!Next
  <2>2. CASE FileOf[c] \notin live
    <3>1. \A f \in live : Rows(f)' = Rows(f)
      BY <1>4, <2>2 DEF Rows, CommitCreate, HInv, GoneOK
    <3> QED
      BY <1>4, <3>1 DEF Retained, CommitCreate
  <2> QED
    BY <2>1, <2>2
<1>5. ASSUME NEW d \in Deletes, CommitDelete(d)
      PROVE  Log!Next \/ UNCHANGED <<max, live, Retained>>
  <2> DEFINE F == {FileOf[d]} \cap live
  <2>1. \A f \in Files : f # FileOf[d] => Rows(f)' = Rows(f)
    BY <1>5 DEF Rows, CommitDelete, HInv, GoneOK
  <2>2. live' = live \ F /\ F \in SUBSET Files /\ F \subseteq live
    BY <1>5 DEF CommitDelete
  <2>3. Retained' = [f \in Files |-> IF f \in F THEN {} ELSE Retained[f]]
    BY <1>5, <2>1, <2>2 DEF Retained, CommitDelete
  <2>4. Log!Remove(F)
    BY <1>5, <2>2, <2>3 DEF Log!Remove, CommitDelete
  <2> QED
    BY <2>2, <2>4 DEF Log!Next
<1>6. ASSUME NEW k \in Limits, Restart(k) PROVE Log!Next
  <2>1. Log!Reconfigure(k)
    BY <1>6 DEF Restart, Log!Reconfigure, Retained, Rows
  <2> QED
    BY <2>1 DEF Log!Next
<1>7. CASE UNCHANGED vars
  BY <1>1, <1>7 DEF vars
<1> QED
  BY <1>2, <1>3, <1>4, <1>5, <1>6, <1>7 DEF Next, Proceed

(* Statement by statement, on either backend, with rollbacks and restarts: *)
(* the histories of existing files behave as if every Create and Delete    *)
(* were one atomic step.                                                   *)
THEOREM Implements == Spec => ImplementsLog
BY HInit, HNext, LogInit, LogStep, PTL DEF Spec, ImplementsLog, Log!Spec
=============================================================================
