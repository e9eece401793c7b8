---------------------------- MODULE FileService ----------------------------
(***************************************************************************)
(* The requests that change files (ssh/handler.go, web/api.go, the TUI's   *)
(* prompts and files/files.go), running side by side.  A step is one call  *)
(* of the database interface (db/db.go); between two calls a request keeps *)
(* a copy of the snips.File it found, and writes all of its columns back.  *)
(*                                                                         *)
(* A request runs once.  One that is refused before it changes anything    *)
(* (bad flags, body too large or empty, file not found, private or another *)
(* user's) leaves no trace and is not taken as a step; the checks are      *)
(* guards of the action that would have followed.                          *)
(*                                                                         *)
(* A content stands for its bytes and for their number, so the size column *)
(* holds the content whose length it records.  A type is "binary" or       *)
(* "text", all that files.UpdateContent distinguishes.  A diff is the pair *)
(* of the contents it was computed from.                                   *)
(***************************************************************************)
EXTENDS Naturals, Sequences, FiniteSets

CONSTANTS
    Requests,       \* requests that may be made
    Users,
    FileIds,        \* what id.New may return
    Names,          \* normalised names; NoName is the empty one
    NoName,
    Fold,           \* Fold[n]: the case-insensitive form of a name
    Contents,       \* request bodies that pass the size checks
    NoContent,      \* the nil that FindContent returns for a missing row
    Binary,         \* contents whose detected MIME type is not text/*
    FilesPerUser,   \* SNIPS_LIMITS_FILESPERUSER; 0 is "no limit"
    RevisionsPerFile, \* SNIPS_LIMITS_REVISIONSPERFILE; 0 is "no limit"
    InFlight,       \* bound: how many requests run at a time
    Faults          \* whether a call may fail and a client may disconnect

ASSUME FileIdsAssumption ==
    "new" \notin FileIds /\ IsFiniteSet(FileIds)
ASSUME NameAssumption ==
    NoName \notin Names /\ Fold \in [Names -> Names]
ASSUME ContentAssumption ==
    NoContent \notin Contents /\ Binary \subseteq Contents
ASSUME LimitAssumption ==
    FilesPerUser \in Nat /\ RevisionsPerFile \in Nat /\ InFlight \in Nat \ {0}

VARIABLES
    files,      \* files[f]: the row of f, or NoFile
    deleted,    \* the identifiers whose row has been deleted
    revs,       \* revs[f]: the rows of the revisions table, oldest first
    req         \* req[r]: where request r is and what it holds

vars == <<files, deleted, revs, req>>

Row == [owner : Users, name : Names \cup {NoName}, private : BOOLEAN,
        type : {"text", "binary"}, size : Contents, content : Contents]

NoFile == [owner |-> "nobody"]
Exists(f) == files[f] # NoFile
Owned(u) == {f \in FileIds : Exists(f) /\ files[f].owner = u}

\* renderer.DetectFileType; empty content is text/plain.
DetectFileType(c) == IF c \in Binary THEN "binary" ELSE "text"

\* Mutant: the index compares names as they are written.
NameTakenExactly(u, name, f) ==
    name # NoName /\ \E g \in Owned(u) \ {f} : files[g].name = name

\* A row of f with this name would break the unique index on
\* (user_id, name COLLATE NOCASE) WHERE name IS NOT NULL.
NameTaken(u, name, f) ==
    /\ name # NoName
    /\ \E g \in Owned(u) \ {f} :
          files[g].name # NoName /\ Fold[files[g].name] = Fold[name]

-----------------------------------------------------------------------------
(* A request: who made it, what for, the file it found, its working copy   *)
(* of the row (with the body as its content) and the content it read for   *)
(* the diff.  Of one that is over, only who asked for what is kept.        *)
Ops == {"upload", "content", "metadata", "delete"}
Targets == FileIds \cup {"new"}
Idle == [pc |-> "idle"]
Over == [pc : {"done"}, user : Users, op : Ops, file : Targets]
Request == [pc : {"insert", "read", "append", "store", "detect", "patch", "delete"},
            user : Users, op : Ops, file : Targets, row : Row, old : Contents \cup {NoContent}]

Running(r) == req[r].pc \notin {"idle", "done"}

(* A session or an HTTP handler begins. *)
Arrives(r) ==
    /\ req[r] = Idle
    /\ Cardinality({q \in Requests : Running(q)}) < InFlight

Begin(r, u, op, label, f, row) ==
    req' = [req EXCEPT ![r] = [pc |-> label, user |-> u, op |-> op, file |-> f,
                               row |-> row, old |-> NoContent]]

(* FileRequest and findFile with ownerOnly: to anybody else the file is not found. *)
MayChange(u, f) == Exists(f) /\ files[f].owner = u

Goto(r, label) == req' = [req EXCEPT ![r].pc = label]

End(r) ==
    req' = [req EXCEPT ![r] = [pc |-> "done", user |-> @.user, op |-> @.op,
                               file |-> @.file]]

TypeOK ==
    /\ files \in [FileIds -> Row \cup {NoFile}]
    /\ deleted \subseteq FileIds
    /\ revs \in [FileIds -> Seq([seq : Nat \ {0}, from : Contents \cup {NoContent},
                                 to : Contents])]
    /\ req \in [Requests -> {Idle} \cup Request \cup Over]

\* A snips.File as Upload and CreateFile fill it in.
NewRow(u, name, private, c) ==
    [owner |-> u, name |-> name, private |-> private,
     type |-> DetectFileType(c), size |-> c, content |-> c]

(* Some files were uploaded before; none has been updated yet. *)
Init ==
    /\ files \in [FileIds -> {NoFile} \cup
                     {row \in Row : row = NewRow(row.owner, NoName, FALSE, row.content)}]
    /\ FilesPerUser > 0 => \A u \in Users : Cardinality(Owned(u)) <= FilesPerUser
    /\ deleted = {}
    /\ revs = [f \in FileIds |-> <<>>]
    /\ req = [r \in Requests |-> Idle]

-----------------------------------------------------------------------------
(* Upload and CreateFile: Files.Create counts the user's files ...         *)
CountFiles(r, u) ==
    /\ Arrives(r)
    /\ FilesPerUser > 0 => Cardinality(Owned(u)) < FilesPerUser
    /\ \E name \in Names \cup {NoName}, private \in BOOLEAN, c \in Contents :
          Begin(r, u, "upload", "insert", "new", NewRow(u, name, private, c))
    /\ UNCHANGED <<files, deleted, revs>>

(* ... and inserts the row.  PostgreSQL runs both in one READ COMMITTED    *)
(* transaction, which lets the same rows be inserted in between.           *)
InsertFile(r) ==
    LET row == req[r].row IN
    /\ req[r].pc = "insert"
    /\ IF NameTaken(row.owner, row.name, "new")
         THEN UNCHANGED files
         ELSE \E f \in FileIds \ deleted :
                 ~Exists(f) /\ files' = [files EXCEPT ![f] = row]
    /\ End(r)
    /\ UNCHANGED <<deleted, revs>>

-----------------------------------------------------------------------------
(* Mutant: the size column is not set. *)
FindForContentKeepSize(r, u, f, c) ==
    /\ Arrives(r)
    /\ MayChange(u, f)
    /\ Begin(r, u, "content", IF DetectFileType(c) = "binary" THEN "store" ELSE "read", f,
             [files[f] EXCEPT !.type = DetectFileType(c), !.content = c])
    /\ UNCHANGED <<files, deleted, revs>>

(* Mutant: IsBinary is asked before the type is detected again. *)
FindForContentOldType(r, u, f, c) ==
    /\ Arrives(r)
    /\ MayChange(u, f)
    /\ Begin(r, u, "content", IF files[f].type = "binary" THEN "store" ELSE "read", f,
             [files[f] EXCEPT !.size = c, !.type = DetectFileType(c), !.content = c])
    /\ UNCHANGED <<files, deleted, revs>>

(* Mutant: a fresh snips.File, without the found visibility, is stored. *)
FindForContentFresh(r, u, f, c) ==
    /\ Arrives(r)
    /\ MayChange(u, f)
    /\ Begin(r, u, "content", IF DetectFileType(c) = "binary" THEN "store" ELSE "read", f,
             NewRow(u, files[f].name, FALSE, c))
    /\ UNCHANGED <<files, deleted, revs>>

(* Find or FindByName, the ownership check, and the body:                  *)
(* files.UpdateContent sets the size and type of its copy and skips the    *)
(* history of what is binary now.                                          *)
FindForContent(r, u, f, c) ==
    /\ Arrives(r)
    /\ MayChange(u, f)
    /\ Begin(r, u, "content", IF DetectFileType(c) = "binary" THEN "store" ELSE "read", f,
             [files[f] EXCEPT !.size = c, !.type = DetectFileType(c), !.content = c])
    /\ UNCHANGED <<files, deleted, revs>>

(* FindContent, and the diff: none when nothing changed.                   *)
ReadOld(r) ==
    LET f == req[r].file
        old == IF Exists(f) THEN files[f].content ELSE NoContent
    IN
    /\ req[r].pc = "read"
    /\ req' = [req EXCEPT
                  ![r].old = old,
                  ![r].pc = IF old = req[r].row.content THEN "store" ELSE "append"]
    /\ UNCHANGED <<files, deleted, revs>>

\* Mutant: the numbers start at 0.
NextSequenceFromZero(s) == IF s = <<>> THEN 0 ELSE s[Len(s)].seq + 1

\* Mutant: the row just inserted is not counted, and one too few is kept.
PrunedTooFar(s) ==
    IF RevisionsPerFile > 0 /\ Len(s) > RevisionsPerFile
      THEN SubSeq(s, Len(s) - RevisionsPerFile + 2, Len(s))
      ELSE s

\* MAX(sequence) + 1, and the prune of the oldest rows.
NextSequence(s) == IF s = <<>> THEN 1 ELSE s[Len(s)].seq + 1
Pruned(s) ==
    IF RevisionsPerFile > 0 /\ Len(s) > RevisionsPerFile
      THEN SubSeq(s, Len(s) - RevisionsPerFile + 1, Len(s))
      ELSE s

(* Revisions.Create, one transaction (RevisionTx has its statements).      *)
AppendRevision(r) ==
    LET f == req[r].file
        rev == [seq |-> NextSequence(revs[f]), from |-> req[r].old,
                to |-> req[r].row.content]
    IN
    /\ req[r].pc = "append"
    /\ revs' = [revs EXCEPT ![f] = Pruned(Append(@, rev))]
    /\ Goto(r, "store")
    /\ UNCHANGED <<files, deleted>>

(* FindContent or Revisions.Create fails; that is logged, not fatal.       *)
(* Without a fault it takes another request with a write to the database   *)
(* in progress (RevisionTx shows how).                                     *)
RevisionFails(r) ==
    /\ \/ /\ req[r].pc = "append"
          /\ \E q \in Requests \ {r} :
                req[q].pc \in {"insert", "append", "store", "patch", "delete"}
       \/ req[r].pc \in {"read", "append"} /\ Faults
    /\ Goto(r, "store")
    /\ UNCHANGED <<files, deleted, revs>>

(* Mutant: INSERT OR REPLACE. *)
StoreOrInsert(r, row) ==
    LET f == req[r].file IN
    /\ files' = IF ~NameTaken(row.owner, row.name, f)
                  THEN [files EXCEPT ![f] = row]
                  ELSE files
    /\ End(r)

(* UPDATE files ... WHERE id = ?, for Files.UpdateContent and              *)
(* Files.Update: every column the statement sets comes from the copy, a    *)
(* row that is gone is not an error, and the index may refuse the name.    *)
Store(r, row) ==
    LET f == req[r].file IN
    /\ files' = IF Exists(f) /\ ~NameTaken(row.owner, row.name, f)
                  THEN [files EXCEPT ![f] = row]
                  ELSE files
    /\ End(r)

(* Files.UpdateContent. *)
StoreContent(r) ==
    /\ req[r].pc = "store"
    /\ Store(r, req[r].row)
    /\ UNCHANGED <<deleted, revs>>

-----------------------------------------------------------------------------
(* Mutant: any file that is found may be changed. *)
FindForPatchOfAny(r, u, f, name, private, label) ==
    /\ Arrives(r)
    /\ Exists(f)
    /\ Begin(r, u, "metadata", label, f,
             [files[f] EXCEPT !.name = name, !.private = private])
    /\ UNCHANGED <<files, deleted, revs>>

(* PATCH: a found file, changed in memory.  With a type, the request goes  *)
(* on to read the content.                                                 *)
FindForPatch(r, u, f, name, private, label) ==
    /\ Arrives(r)
    /\ MayChange(u, f)
    /\ Begin(r, u, "metadata", label, f,
             [files[f] EXCEPT !.name = name, !.private = private])
    /\ UNCHANGED <<files, deleted, revs>>

(* rename, with a name or -rm, over SSH and in the prompt. *)
RenameFile(r, u, f, name) ==
    /\ Arrives(r)
    /\ MayChange(u, f)
    /\ name = NoName => files[f].name # NoName
    /\ Begin(r, u, "metadata", "patch", f, [files[f] EXCEPT !.name = name])
    /\ UNCHANGED <<files, deleted, revs>>

(* The visibility prompt negates what it found. *)
ToggleVisibility(r, u, f) ==
    /\ Arrives(r)
    /\ MayChange(u, f)
    /\ Begin(r, u, "metadata", "patch", f, [files[f] EXCEPT !.private = ~@])
    /\ UNCHANGED <<files, deleted, revs>>

(* The extension prompt takes any lexer's name without reading the content. *)
FindForExtension(r, u, f) ==
    /\ Arrives(r)
    /\ MayChange(u, f)
    /\ Begin(r, u, "metadata", "patch", f, [files[f] EXCEPT !.type = "text"])
    /\ UNCHANGED <<files, deleted, revs>>

(* FindContent, and DetectFileType with the extension of the PATCH.        *)
DetectType(r) ==
    LET f == req[r].file IN
    /\ req[r].pc = "detect"
    /\ req' = [req EXCEPT ![r].pc = "patch",
                          ![r].row.type = IF Exists(f) THEN DetectFileType(files[f].content)
                                                       ELSE "text"]
    /\ UNCHANGED <<files, deleted, revs>>

(* Files.Update: all the columns but the content. *)
StoreMetadata(r) ==
    LET f == req[r].file IN
    /\ req[r].pc = "patch"
    /\ Store(r, IF Exists(f) THEN [req[r].row EXCEPT !.content = files[f].content]
                             ELSE req[r].row)
    /\ UNCHANGED <<deleted, revs>>

-----------------------------------------------------------------------------
(* The file is found, and the owner asked to confirm. *)
FindForDelete(r, u, f) ==
    /\ Arrives(r)
    /\ MayChange(u, f)
    /\ Begin(r, u, "delete", "delete", f, files[f])
    /\ UNCHANGED <<files, deleted, revs>>

\* DELETE FROM revisions and DELETE FROM files in one transaction.
Remove(F) ==
    /\ files' = [f \in FileIds |-> IF f \in F THEN NoFile ELSE files[f]]
    /\ revs' = [f \in FileIds |-> IF f \in F THEN <<>> ELSE revs[f]]
    /\ deleted' = deleted \cup {f \in F : Exists(f)}

(* Files.Delete *)
DeleteFile(r) ==
    /\ req[r].pc = "delete"
    /\ Remove({req[r].file})
    /\ End(r)

(* Files.DeleteByUser, from the settings view.  (On PostgreSQL it is two   *)
(* READ COMMITTED statements.  A revision committed between them stays, as *)
(* one does that is made after the deletion; a file uploaded between them  *)
(* goes, as one does that was uploaded before.)                            *)
DeleteByUser(r, u) ==
    /\ Arrives(r)
    /\ Owned(u) # {}
    /\ \E f \in Owned(u) :
          req' = [req EXCEPT ![r] = [pc |-> "done", user |-> u, op |-> "delete",
                                     file |-> f]]
    /\ Remove(Owned(u))

(* The user declines, the client disconnects (its context is cancelled),   *)
(* the call fails, or the server is stopped: the request goes no further.  *)
Cancel(r) ==
    /\ Running(r)
    /\ Faults \/ req[r].pc = "delete"
    /\ End(r)
    /\ UNCHANGED <<files, deleted, revs>>

Step(r) ==
    \/ \E u \in Users :
          \/ CountFiles(r, u)
          \/ DeleteByUser(r, u)
          \/ \E f \in FileIds :
                \/ \E c \in Contents : FindForContent(r, u, f, c)
                \/ \E name \in Names \cup {NoName}, private \in BOOLEAN,
                      label \in {"detect", "patch"} :
                      FindForPatch(r, u, f, name, private, label)
                \/ \E name \in Names \cup {NoName} : RenameFile(r, u, f, name)
                \/ ToggleVisibility(r, u, f)
                \/ FindForExtension(r, u, f)
                \/ FindForDelete(r, u, f)
    \/ InsertFile(r)
    \/ ReadOld(r) \/ AppendRevision(r) \/ RevisionFails(r) \/ StoreContent(r)
    \/ DetectType(r) \/ StoreMetadata(r)
    \/ DeleteFile(r) \/ Cancel(r)

Next == \E r \in Requests : Step(r)

Spec == Init /\ [][Next]_vars

-----------------------------------------------------------------------------
(* Properties of any interleaving, with faults. *)

(* However renames, uploads and content updates with an outdated name      *)
(* cross, a user never has two files whose names differ in case only.      *)
NameUnique ==
    \A f, g \in FileIds :
        /\ Exists(f) /\ Exists(g) /\ f # g
        /\ files[f].owner = files[g].owner
        /\ files[f].name # NoName /\ files[g].name # NoName
        => Fold[files[f].name] # Fold[files[g].name]

(* A file is written, deleted or given a revision only by a request its    *)
(* owner made, also when the step comes long after the ownership check.    *)
OwnerOnly ==
    [][\A f \in FileIds :
          Exists(f) /\ (files'[f] # files[f] \/ revs'[f] # revs[f])
          => \E r \in Requests :
                req'[r] # req[r] /\ req'[r].user = files[f].owner]_vars

(* A write that was on its way when the file was deleted does not bring it *)
(* back, and its identifier is not given to another file.                  *)
DeletedStaysDeleted == \A f \in deleted : ~Exists(f)

(* The size column disagrees with the content only where both a content    *)
(* and a metadata update of that file were made.                           *)
SizeHonest ==
    \A f \in FileIds :
        LET ops == {req[r].op : r \in {q \in Requests : req[q] # Idle /\ req[q].file = f}}
        IN  Exists(f) /\ ~({"content", "metadata"} \subseteq ops)
            => files[f].size = files[f].content

(* The histories requests can see are those of RevisionLog.                *)
Log == INSTANCE RevisionLog WITH
    Files <- FileIds, Limits <- {RevisionsPerFile}, max <- RevisionsPerFile,
    live <- FileIds \ deleted,
    log <- [f \in FileIds |-> IF f \in deleted THEN {}
                              ELSE {revs[f][i].seq : i \in 1..Len(revs[f])}]

ImplementsLog == Log!Spec

-----------------------------------------------------------------------------
(* What the documentation says of the files.  It holds for one request at  *)
(* a time, without faults.                                                 *)

(* docs/usage.md, "Max files per user", and db.go on Files.Create.         *)
FileLimit == FilesPerUser > 0 => \A u \in Users : Cardinality(Owned(u)) <= FilesPerUser

(* openapi.yaml, File.size: the content size in bytes.                     *)
SizeIsContentSize == \A f \in FileIds : Exists(f) => files[f].size = files[f].content

(* openapi.yaml, DELETE: a file is deleted with its revisions.             *)
DeletedWithRevisions == \A f \in deleted : revs[f] = <<>>

(* docs/usage.md, "Update Content": the revisions lead from one text to    *)
(* the next and the last of them to the present content; only a binary     *)
(* version is skipped.                                                     *)
HistoryExplainsContent ==
    (\A r \in Requests : ~Running(r)) =>
        \A f \in FileIds : Exists(f) /\ revs[f] # <<>> =>
            LET versions == [i \in 1..Len(revs[f]) + 1 |->
                                IF i <= Len(revs[f]) THEN revs[f][i].from
                                                     ELSE files[f].content]
            IN  \A i \in 1..Len(revs[f]) :
                    versions[i + 1] \in {revs[f][i].to} \cup Binary

(* One request at a time, without faults: whatever sequence of uploads,    *)
(* content and metadata updates and deletions, the limit is kept, the size *)
(* is the content's, a deleted file has left no revision, and the history  *)
(* explains the content.                                                   *)
AsDocumented ==
    FileLimit /\ SizeIsContentSize /\ DeletedWithRevisions /\ HistoryExplainsContent

(* db.go, Files.UpdateContent replaces the content: the name and the       *)
(* visibility are left as they are.                                        *)
ContentUpdateKeepsMetadata ==
    [][\A r \in Requests :
          req[r].pc = "store" /\ req'[r].pc = "done" /\ Exists(req[r].file)
          => LET f == req[r].file IN
             /\ files'[f].name = files[f].name
             /\ files'[f].private = files[f].private]_vars
=============================================================================
