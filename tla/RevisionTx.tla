----------------------------- MODULE RevisionTx -----------------------------
(***************************************************************************)
(* Revisions.Create and Files.Delete, statement by statement, on the two   *)
(* database backends (db/sqlite, db/postgres).                             *)
(*                                                                         *)
(* An invocation is one call of the database interface: its transaction    *)
(* runs once.  A row of the revisions table is the invocation of Create    *)
(* that inserted it, so two rows with one sequence number stay two rows.   *)
(*                                                                         *)
(* The databases are external.  Of SQLite: the rollback-journal locks of   *)
(* the default configuration (deferred BEGIN, one RESERVED holder, no      *)
(* busy handler while a SHARED lock is being upgraded, PENDING stops new   *)
(* readers, COMMIT waits for the readers).  Of PostgreSQL: READ COMMITTED  *)
(* statements, row locks of uncommitted deletes, and the unique index on   *)
(* (file_id, sequence), which SQLite's schema does not have.               *)
(***************************************************************************)
EXTENDS Naturals, FiniteSets

CONSTANTS
    Files,      \* file identifiers
    Creates,    \* invocations of Revisions.Create
    Deletes,    \* invocations of Files.Delete
    FileOf,     \* FileOf[t]: the file argument of invocation t
    Backends,   \* the DSN schemes a deployment may choose from
    Limits,     \* values of SNIPS_LIMITS_REVISIONSPERFILE; 0 is "no limit"
    Faults      \* whether statements may fail and the process may be stopped

Txs == Creates \cup Deletes

ASSUME TxsAssumption == Creates \cap Deletes = {} /\ FileOf \in [Txs -> Files]
ASSUME BackendsAssumption == Backends \subseteq {"sqlite", "postgres"}
ASSUME LimitsAssumption == Limits \subseteq Nat

VARIABLES
    backend,    \* the configured backend
    max,        \* the configured limit of this process
    live,       \* files with a row in the files table
    stored,     \* committed rows of the revisions table
    pc,         \* pc[t]: the statement invocation t ran last
    seq,        \* seq[c]: the sequence number c read
    gone        \* gone[t]: rows deleted by t, not yet committed

vars == <<backend, max, live, stored, pc, seq, gone>>

(* The committed rows of a file. *)
Rows(f) == {c \in stored : FileOf[c] = f}

(* Invocations with an open transaction that has run a statement. *)
InTx(t)    == pc[t] \in {"selected", "inserted", "pruned", "deleted", "committing"}
Writing(t) == InTx(t) /\ pc[t] # "selected"

Others(t) == Txs \ {t}

(* What the statements of c see: the committed rows and its own.           *)
Visible(c) == Rows(FileOf[c]) \cup {c}

-----------------------------------------------------------------------------
(* Locks of the two databases. *)

\* SQLite gives a SHARED lock unless a committer holds PENDING.
CanRead(t) == backend = "sqlite" => \A u \in Others(t) : pc[u] # "committing"

\* SQLite has one RESERVED lock for the whole database.
CanWrite(t) == backend = "sqlite" => \A u \in Others(t) : ~Writing(u)

\* PostgreSQL makes a statement wait for a row another transaction deleted.
RowsFree(t, R) == \A u \in Others(t) : InTx(u) => gone[u] \cap R = {}

\* SQLite commits once every other SHARED lock is released.
CanCommit(t) == backend = "sqlite" => \A u \in Others(t) : ~InTx(u)

\* Rows that carry the key c is about to insert: committed ones, and those of
\* transactions that have not committed.
SameKey(c, d) == d # c /\ FileOf[d] = FileOf[c] /\ seq[d] = seq[c]
StoredTwins(c) == {d \in stored : SameKey(c, d)}
UncommittedTwin(c) ==
    \E d \in Creates : SameKey(c, d) /\ Writing(d) /\ d \notin stored

-----------------------------------------------------------------------------
TypeOK ==
    /\ backend \in Backends
    /\ max \in Limits
    /\ live \subseteq Files
    /\ stored \subseteq Creates
    /\ pc \in [Txs -> {"idle", "selected", "inserted", "pruned", "deleted",
                       "committing", "committed", "failed"}]
    /\ seq \in [Creates -> Nat]
    /\ gone \in [Txs -> SUBSET Creates]

Init ==
    /\ backend \in Backends
    /\ max \in Limits
    /\ live = Files
    /\ stored = {}
    /\ pc = [t \in Txs |-> "idle"]
    /\ seq = [c \in Creates |-> 0]
    /\ gone = [t \in Txs |-> {}]

Goto(t, label) == pc' = [pc EXCEPT ![t] = label]

(* Mutant: the SELECT forgets WHERE file_id = ?. *)
SelectOverAllFiles(c) ==
    /\ pc[c] = "idle"
    /\ CanRead(c)
    /\ \E n \in {1} \cup {seq[d] + 1 : d \in stored} :
          /\ \A d \in stored : seq[d] < n
          /\ seq' = [seq EXCEPT ![c] = n]
    /\ Goto(c, "selected")
    /\ UNCHANGED <<backend, max, live, stored, gone>>

(* BEGIN; SELECT COALESCE(MAX(sequence), 0) + 1 ... WHERE file_id = ? *)
Select(c) ==
    /\ pc[c] = "idle"
    /\ CanRead(c)
    /\ \E n \in {1} \cup {seq[d] + 1 : d \in Rows(FileOf[c])} :
          /\ \A d \in Rows(FileOf[c]) : seq[d] < n
          /\ seq' = [seq EXCEPT ![c] = n]
    /\ Goto(c, "selected")
    /\ UNCHANGED <<backend, max, live, stored, gone>>

(* Mutant: the unique index on (file_id, sequence) is missing. *)
InsertWithoutIndex(c) ==
    /\ pc[c] = "selected"
    /\ CanWrite(c)
    /\ Goto(c, "inserted")
    /\ UNCHANGED <<backend, max, live, stored, seq, gone>>

(* INSERT INTO revisions ... *)
Insert(c) ==
    /\ pc[c] = "selected"
    /\ CanWrite(c)
    /\ backend = "postgres" => StoredTwins(c) = {} /\ ~UncommittedTwin(c)
    /\ Goto(c, "inserted")
    /\ UNCHANGED <<backend, max, live, stored, seq, gone>>

(* Mutant: a SQLite INSERT waits for the RESERVED lock while it keeps the  *)
(* SHARED one, instead of giving up.                                       *)
InsertWaits(c) ==
    /\ pc[c] = "selected"
    /\ backend = "postgres" /\ StoredTwins(c) # {} /\ RowsFree(c, StoredTwins(c))
    /\ Goto(c, "failed")
    /\ UNCHANGED <<backend, max, live, stored, seq, gone>>

(* The INSERT fails and the deferred Rollback runs: SQLite answers         *)
(* SQLITE_BUSY at once when another connection holds RESERVED, PostgreSQL  *)
(* reports the duplicate key once no open transaction can still remove it. *)
InsertFails(c) ==
    /\ pc[c] = "selected"
    /\ \/ ~CanWrite(c)
       \/ backend = "postgres" /\ StoredTwins(c) # {} /\ RowsFree(c, StoredTwins(c))
    /\ Goto(c, "failed")
    /\ UNCHANGED <<backend, max, live, stored, seq, gone>>

(* Mutant: one row too many is kept. *)
BeyondByOne(c) ==
    {d \in Visible(c) : Cardinality({e \in Visible(c) : seq[e] > seq[d]}) > max}

(* DELETE ... AND id NOT IN (SELECT id ... ORDER BY sequence DESC LIMIT ?) *)
Beyond(c) ==
    {d \in Visible(c) : Cardinality({e \in Visible(c) : seq[e] > seq[d]}) >= max}

(* (A DELETE of PostgreSQL that has waited for row locks goes on with the  *)
(* rows it saw when it began.  What others took meanwhile are the oldest,  *)
(* so of a file that is still there the same rows are gone in the end.)    *)
Prune(c) ==
    /\ pc[c] = "inserted"
    /\ IF max > 0
         THEN /\ RowsFree(c, Beyond(c))
              /\ gone' = [gone EXCEPT ![c] = Beyond(c)]
         ELSE UNCHANGED gone
    /\ Goto(c, "pruned")
    /\ UNCHANGED <<backend, max, live, stored, seq>>

(* BEGIN; DELETE FROM revisions WHERE file_id = ? *)
DeleteRevisions(d) ==
    /\ pc[d] = "idle"
    /\ CanRead(d) /\ CanWrite(d)
    /\ RowsFree(d, Rows(FileOf[d]))
    /\ gone' = [gone EXCEPT ![d] = Rows(FileOf[d])]
    /\ Goto(d, "deleted")
    /\ UNCHANGED <<backend, max, live, stored, seq>>

(* SQLite's COMMIT, as far as taking the PENDING lock. *)
BeginCommit(t) ==
    /\ backend = "sqlite"
    /\ pc[t] \in {"pruned", "deleted"}
    /\ Goto(t, "committing")
    /\ UNCHANGED <<backend, max, live, stored, seq, gone>>

(* The rest of COMMIT, or all of PostgreSQL's, of a Create ... *)
CommitCreate(c) ==
    /\ pc[c] = IF backend = "sqlite" THEN "committing" ELSE "pruned"
    /\ CanCommit(c)
    /\ stored' = (stored \cup {c}) \ gone[c]
    /\ gone' = [gone EXCEPT ![c] = {}]
    /\ Goto(c, "committed")
    /\ UNCHANGED <<backend, max, live, seq>>

(* ... and of a Delete, with its DELETE FROM files, which no statement of  *)
(* this module looks at before the commit.                                 *)
CommitDelete(d) ==
    /\ pc[d] = IF backend = "sqlite" THEN "committing" ELSE "deleted"
    /\ CanCommit(d)
    /\ stored' = stored \ gone[d]
    /\ live' = live \ {FileOf[d]}
    /\ gone' = [gone EXCEPT ![d] = {}]
    /\ Goto(d, "committed")
    /\ UNCHANGED <<backend, max, seq>>

(* Any statement returns an error (the busy timeout, an I/O error, the     *)
(* context of the session or request cancelled) and Rollback runs.  A call *)
(* whose first statement fails is one that was never made.                 *)
Rollback(t) ==
    /\ Faults
    /\ InTx(t)
    /\ Goto(t, "failed")
    /\ gone' = [gone EXCEPT ![t] = {}]
    /\ UNCHANGED <<backend, max, live, stored, seq>>

(* Mutant: a restart forgets the environment and takes the default of 64. *)
RestartWithDefault(k) ==
    /\ Faults
    /\ max' = 64
    /\ pc' = [t \in Txs |-> IF InTx(t) THEN "failed" ELSE pc[t]]
    /\ gone' = [t \in Txs |-> {}]
    /\ UNCHANGED <<backend, live, stored, seq>>

(* The process dies, or is stopped, and starts again, perhaps with another *)
(* limit: no transaction that was open has an effect.                      *)
Restart(k) ==
    /\ Faults
    /\ max' = k
    /\ pc' = [t \in Txs |-> IF InTx(t) THEN "failed" ELSE pc[t]]
    /\ gone' = [t \in Txs |-> {}]
    /\ UNCHANGED <<backend, live, stored, seq>>

(* What the goroutine that made a call does by itself. *)
Proceed(c) ==
    Insert(c) \/ InsertFails(c) \/ Prune(c) \/ BeginCommit(c) \/ CommitCreate(c)

Next ==
    \/ \E c \in Creates : Select(c) \/ Proceed(c)
    \/ \E d \in Deletes : DeleteRevisions(d) \/ BeginCommit(d) \/ CommitDelete(d)
    \/ \E t \in Txs : Rollback(t)
    \/ \E k \in Limits : Restart(k)

(* A call that has begun goes on; no call need be made, and neither an     *)
(* error nor a restart is promised.                                        *)
Fairness ==
    /\ \A c \in Creates : WF_vars(Proceed(c))
    /\ \A d \in Deletes : WF_vars(BeginCommit(d) \/ CommitDelete(d))

Spec == Init /\ [][Next]_vars /\ Fairness

-----------------------------------------------------------------------------
(* Properties. *)

(* No two committed revisions of a file have the same number, although     *)
(* SQLite's schema has no unique index and PostgreSQL lets two readers of  *)
(* the same maximum go on.                                                 *)
SequenceUnique == \A c, d \in stored : ~SameKey(c, d)

(* The numbers retained for an existing file have no gap: pruning, failed  *)
(* inserts and inserts of a stale number never leave a hole in the history *)
(* that /f/{id}/rev lists.                                                 *)
Contiguous ==
    \A f \in live : \A c, d \in Rows(f) :
        \A n \in seq[c]..seq[d] : \E e \in Rows(f) : seq[e] = n

(* The history a request can see: the rows of a deleted file are out of    *)
(* reach, every reader looks the file up first.                            *)
Retained == [f \in Files |-> IF f \in live THEN {seq[c] : c \in Rows(f)} ELSE {}]

Log == INSTANCE RevisionLog WITH log <- Retained

(* Statement by statement, under contention, rollbacks and restarts, the   *)
(* history behaves as if each transaction were one step: a commit appends  *)
(* the next number and keeps the newest, or has no visible effect.         *)
ImplementsLog == Log!Spec

(* Two invocations that wait for each other's locks would hang a session:  *)
(* every invocation that has run a statement returns.                      *)
EveryCallReturns == \A t \in Txs : InTx(t) ~> ~InTx(t)

-----------------------------------------------------------------------------
(* docs/usage.md: "Each update creates a revision with a unified diff of   *)
(* the changes".  Two updates side by side can make one of the two calls   *)
(* of Create fail without any fault; files.UpdateContent logs the error,   *)
(* stores the content and reports success.                                 *)
EachUpdateCreatesRevision == \A c \in Creates : pc[c] # "failed"
=============================================================================
