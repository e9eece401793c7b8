------------------------------- MODULE Listing --------------------------------
(***************************************************************************)
(* Lists in pages (API.ListFiles and API.ListRevisions, web/api.go; the    *)
(* cursor, web/pagination.go; FindByUser and FindByFileID of both          *)
(* backends) while rows come and go between two pages.  One client asks    *)
(* for page after page of one list: the files of a user, or the revisions  *)
(* of a file.  SQLite pages by offset, PostgreSQL by key.                  *)
(***************************************************************************)
EXTENDS Naturals, FiniteSets, Sequences

CONSTANTS
    Backends,    \* the DSN schemes a deployment may choose from
    Kinds,       \* the lists that may be asked for
    PageSizes,   \* values of the parameter limit
    Retained,    \* SNIPS_LIMITS_REVISIONSPERFILE; 0 is "no limit"
    MaxKey       \* bound on the number of rows ever inserted

ASSUME BackendsAssumption == Backends \subseteq {"sqlite", "postgres"}
ASSUME KindsAssumption == Kinds \subseteq {"files", "revisions"}
ASSUME PageSizesAssumption == PageSizes \subseteq Nat \ {0}
ASSUME BoundsAssumption == Retained \in Nat /\ MaxKey \in Nat

VARIABLES
    backend,
    kind,        \* what is listed
    exists,      \* whether the file whose revisions are listed is there
    issued,      \* number of keys handed out so far
    pending,     \* keys of rows that are not visible yet
    rows,        \* keys of the visible rows; newest first is largest first
    pc,          \* the request for the next page
    cursor,      \* next_cursor of the last page
    pages,       \* the pages received, each as the set of its keys
    start,       \* the rows there when the first page was read
    came,        \* number of rows that became visible since
    gone,        \* number of rows deleted since
    cut          \* whether a page was asked for after a row already deleted

table == <<issued, pending, rows, exists>>
reader == <<pc, cursor, pages, start, cut>>
vars == <<backend, kind, table, reader, came, gone>>

Keys == 1..MaxKey

\* The first page is asked for without a cursor (an empty identifier).
NoCursor == [offset |-> 0, id |-> 0]

TypeOK ==
    /\ backend \in Backends
    /\ kind \in Kinds
    /\ exists \in BOOLEAN
    /\ issued \in 0..MaxKey
    /\ pending \subseteq 1..issued
    /\ rows \subseteq 1..issued
    /\ pc \in {"ready", "query", "done", "missing"}
    /\ cursor \in [offset : Nat, id : 0..MaxKey]
    /\ pages \in Seq(SUBSET Keys)
    /\ start \subseteq Keys
    /\ came \in Nat
    /\ gone \in Nat
    /\ cut \in BOOLEAN

Init ==
    /\ backend \in Backends
    /\ kind \in Kinds
    /\ exists = TRUE
    /\ issued = 0
    /\ pending = {}
    /\ rows = {}
    /\ pc = "ready"
    /\ cursor = NoCursor
    /\ pages = <<>>
    /\ start = {}
    /\ came = 0
    /\ gone = 0
    /\ cut = FALSE

-----------------------------------------------------------------------------
(* Rows come and go.  The order of a file is given when its row is built   *)
(* (created_at in SQLite, the identity column in PostgreSQL) and the row   *)
(* becomes visible later, so that two creations may become visible in the  *)
(* other order.                                                            *)

Newer(S, k) == {m \in S : m > k}

\* The n newest of S.
Newest(S, n) == {k \in S : Cardinality(Newer(S, k)) < n}

(* Whether the listing has begun, for the counts. *)
Begun == pages # <<>>

Count(n, counter) == IF Begun THEN counter + n ELSE counter

(* Mutant: the key is not used up. *)
BeginCreateUnissued ==
    /\ kind = "files"
    /\ issued < MaxKey
    /\ pending' = pending \cup {issued + 1}
    /\ UNCHANGED <<backend, kind, exists, issued, rows, reader, came, gone>>

BeginCreate ==
    /\ kind = "files"
    /\ issued < MaxKey
    /\ issued' = issued + 1
    /\ pending' = pending \cup {issued + 1}
    /\ UNCHANGED <<backend, kind, exists, rows, reader, came, gone>>

CommitCreate(k) ==
    /\ k \in pending
    /\ pending' = pending \ {k}
    /\ rows' = rows \cup {k}
    /\ came' = Count(1, came)
    /\ UNCHANGED <<backend, kind, exists, issued, reader, gone>>

\* The name is taken, or the client has gone.
AbandonCreate(k) ==
    /\ k \in pending
    /\ pending' = pending \ {k}
    /\ UNCHANGED <<backend, kind, exists, issued, rows, reader, came, gone>>

DeleteFile(k) ==
    /\ kind = "files"
    /\ k \in rows
    /\ rows' = rows \ {k}
    /\ gone' = Count(1, gone)
    /\ UNCHANGED <<backend, kind, exists, issued, pending, reader, came>>

(* Files.DeleteByUser of the user, or Files.Delete of the file whose       *)
(* revisions are listed: all the rows go in one transaction.               *)
DeleteAll ==
    /\ rows # {}
    /\ rows' = {}
    /\ exists' = (kind = "files")
    /\ gone' = Count(Cardinality(rows), gone)
    /\ UNCHANGED <<backend, kind, issued, pending, reader, came>>

(* Revisions.Create, one step as RevisionTx shows.  What it prunes are the *)
(* oldest rows.                                                            *)
AppendRevision ==
    LET all == rows \cup {issued + 1}
        kept == IF Retained = 0 THEN all ELSE Newest(all, Retained) IN
    /\ kind = "revisions"
    /\ exists
    /\ issued < MaxKey
    /\ issued' = issued + 1
    /\ rows' = kept
    /\ came' = Count(1, came)
    /\ gone' = Count(Cardinality(all \ kept), gone)
    /\ UNCHANGED <<backend, kind, exists, pending, reader>>

-----------------------------------------------------------------------------
(* The client. *)

(* API.findFile, when revisions are listed. *)
FindFile ==
    /\ pc = "ready"
    /\ pc' = IF exists THEN "query" ELSE "missing"
    /\ UNCHANGED <<backend, kind, table, cursor, pages, start, cut, came, gone>>

(* Mutant: at or beyond the row of the cursor. *)
AfterOrAt(S, id) == IF id = 0 THEN S ELSE {k \in S : id \in S /\ k <= id}

(* PostgreSQL: id < (SELECT id ... WHERE display_id = cursor).  Without    *)
(* that row the subquery is NULL and no row compares.                      *)
After(S, id) == IF id = 0 THEN S ELSE {k \in S : id \in S /\ k < id}

(* Mutant: offsets count from one. *)
WindowFromOne(S, c, n) ==
    IF backend = "postgres"
      THEN Newest(After(S, c.id), n)
      ELSE {k \in S : Cardinality(Newer(S, k)) + 1 \in c.offset..(c.offset + n - 1)}

(* What a listing query returns of the rows S for a cursor and a LIMIT n.  *)
Window(S, c, n) ==
    IF backend = "postgres"
      THEN Newest(After(S, c.id), n)
      ELSE {k \in S : Cardinality(Newer(S, k)) \in c.offset..(c.offset + n - 1)}

\* Mutant: the offset counts the extra row.
CursorAfterExtra(c, page, limit) ==
    [offset |-> c.offset + limit + 1, id |-> CHOOSE k \in page : \A m \in page : k <= m]

(* The cursor of a page that is not the last: how far it got, and its last *)
(* row.                                                                    *)
NextCursor(c, page, limit) ==
    [offset |-> c.offset + limit, id |-> CHOOSE k \in page : \A m \in page : k <= m]

(* Mutant: only as many rows as the page holds are read, so that a full    *)
(* page is always the last.                                                *)
ReadPageOnly(limit) ==
    /\ pages' = Append(pages, Window(rows, cursor, limit))
    /\ pc' = "done"
    /\ UNCHANGED cursor

(* One row more than the page holds is read, to learn whether there is     *)
(* another page.                                                           *)
ReadPage(limit) ==
    LET read == Window(rows, cursor, limit + 1)
        page == Newest(read, limit) IN
    /\ pages' = Append(pages, page)
    /\ IF Cardinality(read) > limit
         THEN /\ cursor' = NextCursor(cursor, page, limit)
              /\ pc' = "ready"
         ELSE /\ pc' = "done"
              /\ UNCHANGED cursor

(* API.ListFiles, API.ListRevisions. *)
ListPage(limit) ==
    /\ pc = IF kind = "files" THEN "ready" ELSE "query"
    /\ ReadPage(limit)
    /\ start' = IF Begun THEN start ELSE rows
    /\ cut' = (cut \/ cursor.id \notin rows \cup {0})
    /\ UNCHANGED <<backend, kind, table, came, gone>>

-----------------------------------------------------------------------------
Next ==
    \/ BeginCreate
    \/ \E k \in Keys : CommitCreate(k) \/ AbandonCreate(k) \/ DeleteFile(k)
    \/ DeleteAll
    \/ AppendRevision
    \/ kind = "revisions" /\ FindFile
    \/ \E limit \in PageSizes : ListPage(limit)

Spec == Init /\ [][Next]_vars

-----------------------------------------------------------------------------
Listed == UNION {pages[i] : i \in DOMAIN pages}

\* How often a row was returned.
Times(k) == Cardinality({i \in DOMAIN pages : k \in pages[i]})

\* Rows there from the first page on that were not returned.
Missed == (start \cap rows) \ Listed

(* On PostgreSQL each page lies behind the one before, whatever comes and  *)
(* goes: nothing is returned twice, and a client that follows next_cursor  *)
(* comes to an end although others go on creating rows.                    *)
KeysetDescends ==
    backend = "postgres" =>
        \A i, j \in DOMAIN pages : i < j =>
            \A a \in pages[i], b \in pages[j] : a > b

(* A row that was there from the first page to the last is on one of them: *)
(* always when revisions are listed, although the row of the cursor may be *)
(* pruned in between, for then all behind it are pruned as well; and of    *)
(* files on PostgreSQL unless the file of a cursor was deleted, which ends *)
(* the list early.                                                         *)
NothingSkipped ==
    pc = "done" /\ (kind = "revisions" \/ (backend = "postgres" /\ ~cut)) =>
        Missed = {}

(* Offset pages drift, but by no more than the rows that moved: each       *)
(* deletion hides one row at most, each new row repeats one at most.       *)
DriftIsBounded ==
    pc = "done" /\ backend = "sqlite" =>
        /\ Cardinality(Missed) <= gone
        /\ \A k \in Listed : Times(k) <= came + 1
        /\ Cardinality({k \in Listed : Times(k) > 1}) <= came

(* Where nothing came or went, the pages are the list: all rows, once, the *)
(* newest first.                                                           *)
QuietListingExact ==
    pc = "done" /\ came = 0 /\ gone = 0 =>
        /\ Listed = start
        /\ \A i, j \in DOMAIN pages : i < j =>
              \A a \in pages[i], b \in pages[j] : a > b
=============================================================================
