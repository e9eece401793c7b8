-------------------------- MODULE FileService_proofs --------------------------
(***************************************************************************)
(* For any number of requests, users, files and contents, with calls that  *)
(* fail at any point: what the late write of an outdated copy cannot do,   *)
(* and that the histories requests see are those of RevisionLog.           *)
(***************************************************************************)
EXTENDS FileService, FiniteSetTheorems, TLAPS

(* What a request holds fits what it was made for.                         *)
Fits(q) ==
    /\ q.row.owner = q.user
    /\ q.pc = "insert" => q.op = "upload" /\ q.row.size = q.row.content
    /\ q.pc # "insert" => q.file \in FileIds
    /\ q.pc \in {"read", "append", "store"} => q.op = "content" /\ q.row.size = q.row.content
    /\ q.pc \in {"detect", "patch"} => q.op = "metadata"

(* The file a request was let at is still its user's, or is deleted.       *)
StillOwned(q) ==
    q.file \in FileIds =>
        \/ q.file \in deleted
        \/ Exists(q.file) /\ files[q.file].owner = q.user

ReqOK(r) ==
    /\ Running(r) => Fits(req[r])
    /\ req[r].pc # "idle" => StillOwned(req[r])

FInv ==
    /\ TypeOK
    /\ NameUnique
    /\ DeletedStaysDeleted
    /\ \A r \in Requests : ReqOK(r)

-----------------------------------------------------------------------------
(* The label of a request says what it is.                                 *)
LEMMA Shape ==
    ASSUME TypeOK, NEW r \in Requests
    PROVE  /\ req[r] = Idle <=> req[r].pc = "idle"
           /\ Running(r) => req[r] \in Request
           /\ req[r].pc = "done" => req[r] \in Over
<1>1. req[r] \in {Idle} \cup Request \cup Over
  BY DEF TypeOK
<1>2. CASE req[r] = Idle
  BY <1>2 DEF Idle, Running
<1>3. CASE req[r] \in Request
  BY <1>3 DEF Idle, Running, Request
<1>4. CASE req[r] \in Over
  BY <1>4 DEF Idle, Running, Over
<1> QED
  BY <1>1, <1>2, <1>3, <1>4

LEMMA RowExists ==
    ASSUME TypeOK, NEW f \in FileIds
    PROVE  /\ Exists(f) <=> files[f] \in Row
           /\ NoFile \notin Row
<1>1. NoFile \notin Row
  <2>1. DOMAIN NoFile = {"owner"}
    BY DEF NoFile
  <2>2. \A row \in Row : "name" \in DOMAIN row
    BY DEF Row
  <2> QED
    BY <2>1, <2>2
<1> QED
  BY <1>1 DEF TypeOK, Exists

(* A row as Upload and CreateFile fill it in.                              *)
LEMMA NewRowShape ==
    ASSUME NEW u \in Users, NEW name \in Names \cup {NoName}, NEW private \in BOOLEAN,
           NEW c \in Contents
    PROVE  /\ NewRow(u, name, private, c) \in Row
           /\ NewRow(u, name, private, c).owner = u
           /\ NewRow(u, name, private, c).name = name
           /\ NewRow(u, name, private, c).size = c
           /\ NewRow(u, name, private, c).content = c
BY DEF NewRow, Row, DetectFileType

LEMMA FInit == Init => FInv
<1> SUFFICES ASSUME Init PROVE FInv
  OBVIOUS
<1> DEFINE First == {row \in Row : row = NewRow(row.owner, NoName, FALSE, row.content)}
<1>1. files \in [FileIds -> {NoFile} \cup First]
  BY DEF Init
<1>2. ASSUME NEW row \in First PROVE row \in Row /\ row.name = NoName
  BY DEF NewRow
<1> HIDE DEF First
<1>3. TypeOK
  <2>1. files \in [FileIds -> Row \cup {NoFile}]
    BY <1>1, <1>2
  <2>2. req \in [Requests -> {Idle} \cup Request \cup Over]
    BY DEF Init
  <2>3. revs \in [FileIds -> Seq([seq : Nat \ {0}, from : Contents \cup {NoContent}, to : Contents])]
    BY DEF Init
  <2> QED
    BY <2>1, <2>2, <2>3 DEF Init, TypeOK
<1>4. NameUnique
  BY <1>1, <1>2 DEF NameUnique, Exists
<1>5. DeletedStaysDeleted /\ \A r \in Requests : ReqOK(r)
  BY DEF Init, DeletedStaysDeleted, ReqOK, Running, Idle
<1> QED
  BY <1>3, <1>4, <1>5 DEF FInv

-----------------------------------------------------------------------------
(* A step that changes one request and no row.                             *)
LEMMA ReqStep ==
    ASSUME FInv, NEW r \in Requests, NEW q \in Request \cup Over,
           req' = [req EXCEPT ![r] = q],
           q \in Request => Fits(q),
           StillOwned(q),
           revs' \in [FileIds -> Seq([seq : Nat \ {0}, from : Contents \cup {NoContent},
                                      to : Contents])],
           UNCHANGED <<files, deleted>>
    PROVE  FInv'
<1>1. req'[r] = q /\ \A o \in Requests : o # r => req'[o] = req[o]
  BY DEF FInv, TypeOK
<1>2. TypeOK'
  BY DEF FInv, TypeOK
<1>3. \A o \in Requests : o # r => ReqOK(o)'
  BY <1>1 DEF FInv, ReqOK, Running, StillOwned, Fits, Exists
<1>4. ReqOK(r)'
  <2>1. Running(r)' => q \in Request
    BY <1>1 DEF Running, Over
  <2> QED
    BY <1>1, <2>1 DEF ReqOK, StillOwned, Fits, Exists
<1> QED
  BY <1>2, <1>3, <1>4 DEF FInv, NameUnique, DeletedStaysDeleted, Exists

(* A request begins with the row of a file its user owns.                  *)
LEMMA BeginStep ==
    ASSUME FInv, NEW r \in Requests, NEW u \in Users, NEW f \in FileIds, MayChange(u, f),
           NEW op \in Ops, NEW label \in {"read", "store", "detect", "patch", "delete"},
           NEW row \in Row, row.owner = u,
           op = "content" => row.size = row.content,
           label \in {"read", "store"} => op = "content",
           label \in {"detect", "patch"} => op = "metadata",
           Begin(r, u, op, label, f, row),
           UNCHANGED <<files, deleted, revs>>
    PROVE  FInv'
<1> DEFINE q == [pc |-> label, user |-> u, op |-> op, file |-> f, row |-> row, old |-> NoContent]
<1>1. req' = [req EXCEPT ![r] = q]
  BY DEF Begin
<1>2. q \in Request
  BY DEF Request, Targets
<1>3. Fits(q) /\ StillOwned(q)
  BY DEF Fits, StillOwned, MayChange
<1> HIDE DEF q
<1> QED
  BY <1>1, <1>2, <1>3, ReqStep DEF FInv, TypeOK

(* What a running request is over with.                                    *)
LEMMA EndShape ==
    ASSUME FInv, NEW r \in Requests, Running(r), End(r)
    PROVE  \E q \in Over :
               /\ req' = [req EXCEPT ![r] = q]
               /\ q.user = req[r].user /\ q.file = req[r].file /\ q.op = req[r].op
               /\ StillOwned(q)
<1>1. req[r] \in Request
  BY Shape DEF FInv
<1> DEFINE q == [pc |-> "done", user |-> req[r].user, op |-> req[r].op, file |-> req[r].file]
<1>2. req' = [req EXCEPT ![r] = q] /\ q \in Over
  BY <1>1 DEF End, Request, Over
<1>3. StillOwned(q)
  BY DEF FInv, ReqOK, StillOwned, Running
<1> QED
  BY <1>2, <1>3

(* A running request goes on to another call with what it holds.           *)
LEMMA MoveStep ==
    ASSUME FInv, NEW r \in Requests, Running(r), req[r].pc # "insert",
           NEW q \in Request, req' = [req EXCEPT ![r] = q],
           q.user = req[r].user, q.file = req[r].file, q.op = req[r].op,
           q.row.owner = req[r].row.owner, q.row.size = req[r].row.size,
           q.row.content = req[r].row.content,
           \/ req[r].pc \in {"read", "append"} /\ q.pc \in {"append", "store"}
           \/ req[r].pc = "detect" /\ q.pc = "patch",
           revs' \in [FileIds -> Seq([seq : Nat \ {0}, from : Contents \cup {NoContent},
                                      to : Contents])],
           UNCHANGED <<files, deleted>>
    PROVE  FInv'
<1>1. Fits(q) /\ StillOwned(q)
  BY DEF FInv, ReqOK, Running, Fits, StillOwned
<1> QED
  BY <1>1, ReqStep

LEMMA FCountFiles ==
    ASSUME FInv, NEW r \in Requests, NEW u \in Users, CountFiles(r, u)
    PROVE  FInv'
<1>1. PICK name \in Names \cup {NoName}, private \in BOOLEAN, c \in Contents :
          Begin(r, u, "upload", "insert", "new", NewRow(u, name, private, c))
  BY DEF CountFiles
<1> DEFINE row == NewRow(u, name, private, c)
           q == [pc |-> "insert", user |-> u, op |-> "upload", file |-> "new", row |-> row,
                 old |-> NoContent]
<1>2. row \in Row /\ row.owner = u /\ row.size = row.content
  BY DEF NewRow, Row, DetectFileType
<1>3. req' = [req EXCEPT ![r] = q]
  BY <1>1 DEF Begin
<1> HIDE DEF row
<1>4. q \in Request
  BY <1>2 DEF Request, Ops, Targets
<1>5. Fits(q) /\ StillOwned(q)
  BY <1>2, FileIdsAssumption DEF Fits, StillOwned
<1> HIDE DEF q
<1> QED
  BY <1>3, <1>4, <1>5, ReqStep DEF CountFiles, FInv, TypeOK

LEMMA FFindForContent ==
    ASSUME FInv, NEW r \in Requests, NEW u \in Users, NEW f \in FileIds, NEW c \in Contents,
           FindForContent(r, u, f, c)
    PROVE  FInv'
<1> DEFINE row == [files[f] EXCEPT !.size = c, !.type = DetectFileType(c), !.content = c]
           label == IF DetectFileType(c) = "binary" THEN "store" ELSE "read"
<1>1. MayChange(u, f) /\ Begin(r, u, "content", label, f, row)
  BY DEF FindForContent
<1>2. files[f] \in Row /\ files[f].owner = u
  BY <1>1, RowExists DEF MayChange, FInv
<1>3. row \in Row /\ row.owner = u /\ row.size = row.content
  BY <1>2 DEF Row, DetectFileType
<1>4. label \in {"read", "store"} /\ "content" \in Ops
  BY DEF Ops
<1> HIDE DEF row, label
<1> QED
  BY <1>1, <1>3, <1>4, BeginStep DEF FindForContent

(* The metadata updates write back the found row with some columns changed. *)
FindForMetadata(r, u, f) ==
    \/ \E name \in Names \cup {NoName}, private \in BOOLEAN, label \in {"detect", "patch"} :
          FindForPatch(r, u, f, name, private, label)
    \/ \E name \in Names \cup {NoName} : RenameFile(r, u, f, name)
    \/ ToggleVisibility(r, u, f)
    \/ FindForExtension(r, u, f)

LEMMA FoundForMetadata ==
    ASSUME TypeOK, NEW r \in Requests, NEW u \in Users, NEW f \in FileIds,
           FindForMetadata(r, u, f)
    PROVE  /\ Arrives(r) /\ MayChange(u, f) /\ UNCHANGED <<files, deleted, revs>>
           /\ \E row \in Row, label \in {"detect", "patch"} :
                 /\ row.owner = u /\ row.size = files[f].size
                 /\ Begin(r, u, "metadata", label, f, row)
<1>1. Arrives(r) /\ MayChange(u, f) /\ UNCHANGED <<files, deleted, revs>>
  BY DEF FindForMetadata, FindForPatch, RenameFile, ToggleVisibility, FindForExtension
<1>2. files[f] \in Row /\ files[f].owner = u
  BY <1>1, RowExists DEF MayChange
<1>3. CASE \E name \in Names \cup {NoName}, private \in BOOLEAN, label \in {"detect", "patch"} :
              FindForPatch(r, u, f, name, private, label)
  <2>1. PICK name \in Names \cup {NoName}, private \in BOOLEAN, label \in {"detect", "patch"} :
           FindForPatch(r, u, f, name, private, label)
    BY <1>3
  <2> DEFINE row == [files[f] EXCEPT !.name = name, !.private = private]
  <2>2. row \in Row /\ row.owner = u /\ row.size = files[f].size
    BY <1>2 DEF Row
  <2>3. Begin(r, u, "metadata", label, f, row)
    BY <2>1 DEF FindForPatch
  <2> QED
    BY <1>1, <2>2, <2>3
<1>4. CASE \E name \in Names \cup {NoName} : RenameFile(r, u, f, name)
  <2>1. PICK name \in Names \cup {NoName} : RenameFile(r, u, f, name)
    BY <1>4
  <2> DEFINE row == [files[f] EXCEPT !.name = name]
  <2>2. row \in Row /\ row.owner = u /\ row.size = files[f].size
    BY <1>2 DEF Row
  <2>3. Begin(r, u, "metadata", "patch", f, row)
    BY <2>1 DEF RenameFile
  <2> QED
    BY <1>1, <2>2, <2>3
<1>5. CASE ToggleVisibility(r, u, f)
  <2> DEFINE row == [files[f] EXCEPT !.private = ~@]
  <2>1. row \in Row /\ row.owner = u /\ row.size = files[f].size
    BY <1>2 DEF Row
  <2>2. Begin(r, u, "metadata", "patch", f, row)
    BY <1>5 DEF ToggleVisibility
  <2> QED
    BY <1>1, <2>1, <2>2
<1>6. CASE FindForExtension(r, u, f)
  <2> DEFINE row == [files[f] EXCEPT !.type = "text"]
  <2>1. row \in Row /\ row.owner = u /\ row.size = files[f].size
    BY <1>2 DEF Row
  <2>2. Begin(r, u, "metadata", "patch", f, row)
    BY <1>6 DEF FindForExtension
  <2> QED
    BY <1>1, <2>1, <2>2
<1> QED
  BY <1>3, <1>4, <1>5, <1>6 DEF FindForMetadata

LEMMA FFindForMetadata ==
    ASSUME FInv, NEW r \in Requests, NEW u \in Users, NEW f \in FileIds,
           FindForMetadata(r, u, f)
    PROVE  FInv'
<1>1. "metadata" \in Ops
  BY DEF Ops
<1> QED
  BY <1>1, FoundForMetadata, BeginStep DEF FInv

LEMMA FFindForDelete ==
    ASSUME FInv, NEW r \in Requests, NEW u \in Users, NEW f \in FileIds,
           FindForDelete(r, u, f)
    PROVE  FInv'
<1>1. files[f] \in Row /\ files[f].owner = u
  BY RowExists DEF MayChange, FInv, FindForDelete
<1>2. "delete" \in Ops
  BY DEF Ops
<1> QED
  BY <1>1, <1>2, BeginStep DEF FindForDelete

-----------------------------------------------------------------------------
(* The calls in between change what the request holds, or the revisions.   *)
LEMMA RunningPc ==
    ASSUME FInv, NEW r \in Requests,
           req[r].pc \in {"insert", "read", "append", "store", "detect", "patch", "delete"}
    PROVE  Running(r) /\ req[r] \in Request /\ Fits(req[r]) /\ StillOwned(req[r])
BY Shape DEF FInv, Running, ReqOK

LEMMA ContentOf ==
    ASSUME TypeOK, NEW f \in FileIds
    PROVE  (IF Exists(f) THEN files[f].content ELSE NoContent) \in Contents \cup {NoContent}
BY RowExists DEF Row

LEMMA FReadOld ==
    ASSUME FInv, NEW r \in Requests, ReadOld(r)
    PROVE  FInv'
<1> DEFINE f == req[r].file
           old == IF Exists(f) THEN files[f].content ELSE NoContent
           q == [req[r] EXCEPT !.old = old,
                               !.pc = IF old = req[r].row.content THEN "store" ELSE "append"]
<1>1. Running(r) /\ req[r] \in Request /\ f \in FileIds /\ req[r].pc = "read"
  BY RunningPc DEF ReadOld, Fits
<1>2. old \in Contents \cup {NoContent}
  BY <1>1, ContentOf DEF FInv
<1>3. req' = [req EXCEPT ![r] = q]
  BY DEF ReadOld, FInv, TypeOK
<1> HIDE DEF old
<1>4. q \in Request /\ q.pc \in {"append", "store"}
  BY <1>1, <1>2 DEF Request
<1>5. /\ q.user = req[r].user /\ q.file = req[r].file /\ q.op = req[r].op
      /\ q.row = req[r].row
  BY <1>1 DEF Request
<1> HIDE DEF q
<1> QED
  BY <1>1, <1>3, <1>4, <1>5, MoveStep DEF ReadOld, FInv, TypeOK

LEMMA FDetectType ==
    ASSUME FInv, NEW r \in Requests, DetectType(r)
    PROVE  FInv'
<1> DEFINE f == req[r].file
           type == IF Exists(f) THEN DetectFileType(files[f].content) ELSE "text"
           q == [req[r] EXCEPT !.pc = "patch", !.row.type = type]
<1>1. Running(r) /\ req[r] \in Request /\ req[r].pc = "detect"
  BY RunningPc DEF DetectType
<1>2. type \in {"text", "binary"}
  BY DEF DetectFileType
<1>3. req' = [req EXCEPT ![r] = q]
  BY DEF DetectType, FInv, TypeOK
<1> HIDE DEF type
<1>4. q \in Request
  BY <1>1, <1>2 DEF Request, Row
<1>5. /\ q.pc = "patch" /\ q.user = req[r].user /\ q.file = req[r].file /\ q.op = req[r].op
      /\ q.row.owner = req[r].row.owner /\ q.row.size = req[r].row.size
      /\ q.row.content = req[r].row.content
  BY <1>1 DEF Request, Row
<1> HIDE DEF q
<1> QED
  BY <1>1, <1>3, <1>4, <1>5, MoveStep DEF DetectType, FInv, TypeOK

(* From an append, done or failed, to the store.                           *)
LEMMA ToStore ==
    ASSUME FInv, NEW r \in Requests, req[r].pc \in {"read", "append"}, Goto(r, "store"),
           revs' \in [FileIds -> Seq([seq : Nat \ {0}, from : Contents \cup {NoContent},
                                      to : Contents])],
           UNCHANGED <<files, deleted>>
    PROVE  FInv'
<1> DEFINE q == [req[r] EXCEPT !.pc = "store"]
<1>1. Running(r) /\ req[r] \in Request
  BY RunningPc
<1>2. req' = [req EXCEPT ![r] = q]
  BY DEF Goto, FInv, TypeOK
<1>3. /\ q \in Request /\ q.pc = "store" /\ q.user = req[r].user /\ q.file = req[r].file
      /\ q.op = req[r].op /\ q.row = req[r].row
  BY <1>1 DEF Request
<1> HIDE DEF q
<1> QED
  BY <1>1, <1>2, <1>3, MoveStep

LEMMA FRevisionFails ==
    ASSUME FInv, NEW r \in Requests, RevisionFails(r)
    PROVE  FInv'
<1>1. req[r].pc \in {"read", "append"} /\ Goto(r, "store") /\ UNCHANGED <<files, deleted, revs>>
  BY DEF RevisionFails
<1> QED
  BY <1>1, ToStore DEF FInv, TypeOK

-----------------------------------------------------------------------------
(* The revisions of a file: consecutive numbers.                           *)
Revision == [seq : Nat \ {0}, from : Contents \cup {NoContent}, to : Contents]
Consecutive(s) == \A i \in 1..Len(s) : s[i].seq = s[1].seq + i - 1
Numbers(s) == {s[i].seq : i \in 1..Len(s)}
CInv == \A f \in FileIds : Consecutive(revs[f])

LEMMA NumbersInterval ==
    ASSUME NEW s \in Seq(Revision), Consecutive(s)
    PROVE  /\ NextSequence(s) \in Nat \ {0}
           /\ s = <<>> => Numbers(s) = {} /\ NextSequence(s) = 1
           /\ s # <<>> => /\ Len(s) >= 1 /\ s[1].seq \in Nat \ {0}
                         /\ NextSequence(s) = s[1].seq + Len(s)
                         /\ Numbers(s) = s[1].seq .. NextSequence(s) - 1
<1>1. CASE s = <<>>
  BY <1>1 DEF Numbers, NextSequence
<1>2. CASE s # <<>>
  <2>1. Len(s) \in Nat /\ Len(s) >= 1
    BY <1>2
  <2>2. \A i \in 1..Len(s) : s[i] \in Revision
    OBVIOUS
  <2>3. \A i \in 1..Len(s) : s[i].seq \in Nat \ {0}
    BY <2>2 DEF Revision
  <2>4. NextSequence(s) = s[1].seq + Len(s)
    <3>1. s[Len(s)].seq = s[1].seq + Len(s) - 1 /\ s[1].seq \in Nat \ {0}
      BY <2>1, <2>3 DEF Consecutive
    <3> QED
      BY <1>2, <2>1, <3>1 DEF NextSequence
  <2>5. Numbers(s) = s[1].seq .. NextSequence(s) - 1
    <3>1. ASSUME NEW n \in s[1].seq .. NextSequence(s) - 1 PROVE n \in Numbers(s)
      <4>1. PICK first \in Nat \ {0} : first = s[1].seq
        BY <2>1, <2>3
      <4>2. PICK i \in 1..Len(s) : i = n - first + 1
        <5>1. n \in first .. first + Len(s) - 1
          BY <2>4, <3>1, <4>1
        <5>2. n - first + 1 \in 1..Len(s)
          BY <2>1, <5>1
        <5> QED
          BY <5>2
      <4>3. s[i].seq = first + i - 1
        BY <4>1 DEF Consecutive
      <4>4. n = s[i].seq
        <5>1. n \in Int
          BY <2>1, <2>4, <3>1, <4>1
        <5> QED
          BY <4>2, <4>3, <5>1
      <4> QED
        BY <4>4 DEF Numbers
    <3>2. ASSUME NEW i \in 1..Len(s) PROVE s[i].seq \in s[1].seq .. NextSequence(s) - 1
      <4>1. s[i].seq = s[1].seq + i - 1
        BY DEF Consecutive
      <4> QED
        BY <2>1, <2>3, <2>4, <4>1
    <3> QED
      BY <3>1, <3>2 DEF Numbers
  <2> QED
    BY <1>2, <2>1, <2>3, <2>4, <2>5
<1> QED
  BY <1>1, <1>2

LEMMA LogCardinality ==
    ASSUME NEW S
    PROVE  Log!Cardinality(S) = Cardinality(S)
BY DEF Log!Cardinality, Cardinality

(* The newest k of a range of numbers.                                     *)
LEMMA NewestOfInterval ==
    ASSUME NEW lo \in Nat, NEW hi \in Nat, NEW k \in Nat
    PROVE  Log!Newest(lo..hi, k) = {m \in lo..hi : hi - m < k}
<1>1. ASSUME NEW m \in lo..hi
      PROVE  Log!Cardinality({n \in lo..hi : n > m}) = hi - m
  <2> DEFINE T == {n \in lo..hi : n > m}
  <2>1. T = (m + 1)..hi
    OBVIOUS
  <2>2. Cardinality((m + 1)..hi) = IF m + 1 > hi THEN 0 ELSE hi - (m + 1) + 1
    BY FS_Interval
  <2>3. Cardinality((m + 1)..hi) = hi - m
    BY <2>2
  <2> HIDE DEF T
  <2>4. Log!Cardinality(T) = hi - m
    BY <2>1, <2>3, LogCardinality
  <2> QED
    BY <2>4 DEF T
<1> QED
  BY <1>1 DEF Log!Newest

(* One more revision, and the prune: the numbers RevisionLog retains.      *)
LEMMA AppendNumbers ==
    ASSUME NEW s \in Seq(Revision), Consecutive(s), NEW rev \in Revision,
           rev.seq = NextSequence(s), NEW t, t = Append(s, rev)
    PROVE  /\ Pruned(t) \in Seq(Revision)
           /\ Consecutive(Pruned(t))
           /\ Numbers(Pruned(t)) =
                 Log!Retain(Numbers(s) \cup {NextSequence(s)}, RevisionsPerFile)
<1> DEFINE k == RevisionsPerFile
           p == Pruned(t)
           lo == t[1].seq
<1>0. k \in Nat /\ Len(s) \in Nat
  BY LimitAssumption
<1>1. t \in Seq(Revision) /\ Len(t) = Len(s) + 1
  OBVIOUS
<1>2. t[Len(t)] = rev /\ \A i \in 1..Len(s) : t[i] = s[i]
  BY <1>0, <1>1
<1>3. Consecutive(t) /\ t # <<>>
  <2>1. rev.seq \in Nat /\ \A i \in 1..Len(t) : t[i].seq \in Nat
    <3>1. \A i \in 1..Len(t) : t[i] \in Revision
      BY <1>1
    <3> QED
      BY <3>1 DEF Revision
  <2>2. ASSUME NEW i \in 1..Len(t) PROVE t[i].seq = t[1].seq + i - 1
    <3>1. CASE s = <<>>
      BY <3>1, <1>1, <2>1
    <3>2. CASE s # <<>> /\ i \in 1..Len(s)
      <4>1. 1 \in 1..Len(s)
        BY <1>0, <3>2
      <4> QED
        BY <1>2, <3>2, <4>1 DEF Consecutive
    <3>3. CASE s # <<>> /\ i = Len(t)
      <4>1. 1 \in 1..Len(s) /\ NextSequence(s) = s[1].seq + Len(s) /\ s[1].seq \in Nat
        BY <1>0, <3>3, NumbersInterval
      <4>2. t[1].seq = s[1].seq /\ t[i].seq = s[1].seq + Len(s)
        BY <1>2, <3>3, <4>1
      <4> QED
        BY <1>0, <1>1, <3>3, <4>1, <4>2
    <3> QED
      BY <1>0, <1>1, <3>1, <3>2, <3>3
  <2> QED
    BY <1>0, <1>1, <2>2 DEF Consecutive
<1>4. Numbers(t) = Numbers(s) \cup {NextSequence(s)}
  BY <1>0, <1>1, <1>2 DEF Numbers
<1>5. lo \in Nat \ {0} /\ Numbers(t) = lo .. lo + Len(t) - 1
  <2>1. NextSequence(t) = lo + Len(t) /\ Numbers(t) = lo .. NextSequence(t) - 1
    BY <1>1, <1>3, NumbersInterval
  <2> QED
    BY <1>1, <1>3, <2>1, NumbersInterval
<1>6. CASE ~(k > 0 /\ Len(t) > k)
  <2>1. p = t
    BY <1>6 DEF Pruned
  <2>2. Log!Retain(Numbers(t), k) = Numbers(t)
    <3>1. CASE k = 0
      BY <3>1 DEF Log!Retain
    <3>2. CASE k > 0
      <4>1. lo + Len(t) - 1 \in Nat
        BY <1>0, <1>1, <1>5
      <4>2. Log!Newest(Numbers(t), k) = {m \in Numbers(t) : lo + Len(t) - 1 - m < k}
        BY SMTT(30), <1>0, <1>5, <4>1, NewestOfInterval
      <4> HIDE DEF lo
      <4>3. \A m \in Numbers(t) : lo + Len(t) - 1 - m < k
        BY <1>0, <1>1, <1>5, <1>6, <3>2
      <4> QED
        BY <3>2, <4>2, <4>3 DEF Log!Retain
    <3> QED
      BY <1>0, <3>1, <3>2
  <2> QED
    BY <1>1, <1>3, <1>4, <2>1, <2>2
<1>7. CASE k > 0 /\ Len(t) > k
  <2> DEFINE a == Len(t) - k + 1
  <2>1. p = SubSeq(t, a, Len(t))
    BY <1>7 DEF Pruned
  <2>2. a \in Nat \ {0} /\ a <= Len(t)
    BY <1>0, <1>1, <1>7
  <2>3. p \in Seq(Revision) /\ Len(p) = k /\ \A i \in 1..k : p[i] = t[a + i - 1]
    <3>1. \A i \in a..Len(t) : t[i] \in Revision
      BY <1>0, <1>1, <1>7, <2>2
    <3>2. p \in Seq(Revision)
      BY <1>0, <1>1, <2>1, <2>2, <3>1
    <3>3. Len(p) = k
      BY <1>0, <1>1, <2>1, <2>2, <1>7
    <3>4. ASSUME NEW i \in 1..k PROVE p[i] = t[a + i - 1]
      <4>1. i \in 1..(Len(t) - a + 1) /\ a + i - 1 = i + a - 1
        BY <1>0, <1>1, <1>7, <2>2
      <4> HIDE DEF a
      <4>2. SubSeq(t, a, Len(t))[i] = t[a + i - 1]
        BY <1>0, <1>1, <2>2, <4>1
      <4> QED
        BY <2>1, <4>2
    <3> QED
      BY <3>2, <3>3, <3>4
  <2> HIDE DEF p
  <2>4. ASSUME NEW i \in 1..k PROVE p[i].seq = lo + Len(t) - k + i - 1
    <3>1. a + i - 1 \in 1..Len(t)
      BY <1>0, <1>1, <1>7
    <3>2. t[a + i - 1].seq = lo + (a + i - 1) - 1
      BY <1>3, <3>1 DEF Consecutive
    <3>3. p[i].seq = lo + (Len(t) - k + 1 + i - 1) - 1
      BY <2>3, <3>2
    <3> HIDE DEF lo
    <3> QED
      BY <1>0, <1>1, <1>5, <1>7, <3>3
  <2> HIDE DEF lo
  <2>5. Consecutive(p) /\ p # <<>> /\ p[1].seq = lo + Len(t) - k
    BY <1>0, <1>1, <1>5, <1>7, <2>3, <2>4 DEF Consecutive
  <2>6. Numbers(p) = lo + Len(t) - k .. lo + Len(t) - 1
    <3>1. NextSequence(p) = p[1].seq + k /\ Numbers(p) = p[1].seq .. NextSequence(p) - 1
      BY <2>3, <2>5, NumbersInterval
    <3>2. NextSequence(p) - 1 = lo + Len(t) - 1
      BY <1>0, <1>1, <1>5, <2>5, <3>1
    <3> QED
      BY <2>5, <3>1, <3>2
  <2>7. Log!Retain(Numbers(t), k) = {m \in lo .. lo + Len(t) - 1 : lo + Len(t) - 1 - m < k}
    <3>1. lo + Len(t) - 1 \in Nat
      BY <1>0, <1>1, <1>5
    <3> QED
      BY <1>0, <1>5, <1>7, <3>1, NewestOfInterval DEF Log!Retain
  <2>8. {m \in lo .. lo + Len(t) - 1 : lo + Len(t) - 1 - m < k}
          = lo + Len(t) - k .. lo + Len(t) - 1
    BY <1>0, <1>1, <1>5, <1>7
  <2>9. p = Pruned(t)
    BY DEF p
  <2> QED
    BY <1>4, <2>3, <2>5, <2>6, <2>7, <2>8, <2>9
<1> QED
  BY <1>6, <1>7

-----------------------------------------------------------------------------
(* What Revisions.Create leaves of the revisions table.                    *)
LEMMA AppendEffect ==
    ASSUME FInv, CInv, NEW r \in Requests, AppendRevision(r)
    PROVE  LET f == req[r].file IN
           /\ f \in FileIds
           /\ \A g \in FileIds \ {f} : revs'[g] = revs[g]
           /\ revs'[f] \in Seq(Revision) /\ Consecutive(revs'[f])
           /\ Numbers(revs'[f]) =
                 Log!Retain(Numbers(revs[f]) \cup {NextSequence(revs[f])}, RevisionsPerFile)
           /\ revs' \in [FileIds -> Seq(Revision)]
<1> DEFINE f == req[r].file
           rev == [seq |-> NextSequence(revs[f]), from |-> req[r].old, to |-> req[r].row.content]
           t == Append(revs[f], rev)
<1>1. f \in FileIds /\ req[r] \in Request
  BY RunningPc DEF AppendRevision, Fits
<1>2. revs \in [FileIds -> Seq(Revision)] /\ Consecutive(revs[f])
  BY <1>1 DEF FInv, TypeOK, Revision, CInv
<1>3. NextSequence(revs[f]) \in Nat \ {0}
  BY <1>1, <1>2, NumbersInterval
<1>4. rev \in Revision /\ rev.seq = NextSequence(revs[f])
  BY <1>1, <1>3 DEF Request, Row, Revision
<1>5. revs' = [revs EXCEPT ![f] = Pruned(t)]
  BY <1>2 DEF AppendRevision
<1> HIDE DEF rev
<1>6. /\ Pruned(t) \in Seq(Revision) /\ Consecutive(Pruned(t))
      /\ Numbers(Pruned(t)) =
            Log!Retain(Numbers(revs[f]) \cup {NextSequence(revs[f])}, RevisionsPerFile)
  BY <1>1, <1>2, <1>4, AppendNumbers
<1> HIDE DEF t
<1> QED
  BY <1>1, <1>2, <1>5, <1>6

LEMMA FAppendRevision ==
    ASSUME FInv, CInv, NEW r \in Requests, AppendRevision(r)
    PROVE  FInv'
<1>1. revs' \in [FileIds -> Seq(Revision)]
  BY AppendEffect
<1> QED
  BY <1>1, ToStore DEF AppendRevision, Revision

-----------------------------------------------------------------------------
(* The steps that change rows.                                             *)

(* A row is written for its owner under a name the index accepts.          *)
LEMMA WriteRow ==
    ASSUME FInv, NEW r \in Requests, Running(r), End(r),
           NEW f \in FileIds \ deleted, NEW row \in Row,
           Exists(f) => files[f].owner = row.owner,
           ~NameTaken(row.owner, row.name, f),
           files' = [files EXCEPT ![f] = row],
           UNCHANGED <<deleted, revs>>
    PROVE  FInv'
<1>1. PICK q \in Over : req' = [req EXCEPT ![r] = q] /\ StillOwned(q)
  BY EndShape
<1>2. /\ files' \in [FileIds -> Row \cup {NoFile}]
      /\ files'[f] = row /\ Exists(f)'
      /\ \A g \in FileIds : g # f => files'[g] = files[g] /\ (Exists(g)' <=> Exists(g))
  BY RowExists DEF FInv, TypeOK, Exists
<1>3. TypeOK'
  BY <1>1, <1>2 DEF FInv, TypeOK
<1>4. NameUnique'
  <2>1. ASSUME NEW g \in FileIds, NEW h \in FileIds, Exists(g)', Exists(h)', g # h,
               files'[g].owner = files'[h].owner,
               files'[g].name # NoName, files'[h].name # NoName
        PROVE  Fold[files'[g].name] # Fold[files'[h].name]
    <3>1. CASE g # f /\ h # f
      BY <1>2, <2>1, <3>1 DEF FInv, NameUnique
    <3>2. CASE g = f
      BY <1>2, <2>1, <3>2 DEF NameTaken, Owned
    <3>3. CASE h = f
      BY <1>2, <2>1, <3>3 DEF NameTaken, Owned
    <3> QED
      BY <3>1, <3>2, <3>3
  <2> QED
    BY <2>1 DEF NameUnique, Exists
<1>5. DeletedStaysDeleted'
  BY <1>2 DEF FInv, DeletedStaysDeleted, TypeOK
<1>6. ASSUME NEW o \in Requests PROVE ReqOK(o)'
  <2>1. ASSUME NEW p, StillOwned(p) PROVE StillOwned(p)'
    BY <1>2, <2>1 DEF StillOwned
  <2>2. CASE o = r
    BY <1>1, <2>1, <2>2 DEF FInv, TypeOK, ReqOK, Running, Over
  <2>3. CASE o # r
    BY <1>1, <2>1, <2>3 DEF FInv, TypeOK, ReqOK, Running, Fits
  <2> QED
    BY <2>2, <2>3
<1> QED
  BY <1>3, <1>4, <1>5, <1>6 DEF FInv

LEMMA FInsertFile ==
    ASSUME FInv, NEW r \in Requests, InsertFile(r)
    PROVE  FInv'
<1> DEFINE row == req[r].row
<1>1. Running(r) /\ row \in Row
  BY RunningPc DEF InsertFile, Request
<1>2. CASE UNCHANGED files
  <2>1. PICK q \in Over : req' = [req EXCEPT ![r] = q] /\ StillOwned(q)
    BY <1>1, EndShape DEF InsertFile
  <2>2. q \notin Request
    BY DEF Over, Request
  <2> QED
    BY <1>2, <2>1, <2>2, ReqStep DEF InsertFile, FInv, TypeOK
<1>3. CASE ~NameTaken(row.owner, row.name, "new") /\
           \E f \in FileIds \ deleted : ~Exists(f) /\ files' = [files EXCEPT ![f] = row]
  <2>1. PICK f \in FileIds \ deleted : ~Exists(f) /\ files' = [files EXCEPT ![f] = row]
    BY <1>3
  <2>2. ~NameTaken(row.owner, row.name, f)
    BY <1>3, FileIdsAssumption DEF NameTaken, Owned
  <2> QED
    BY <1>1, <2>1, <2>2, WriteRow DEF InsertFile
<1> QED
  BY <1>2, <1>3 DEF InsertFile

LEMMA FStore ==
    ASSUME FInv, NEW r \in Requests, req[r].pc \in {"store", "patch"},
           NEW row \in Row, row.owner = req[r].row.owner, Store(r, row),
           UNCHANGED <<deleted, revs>>
    PROVE  FInv'
<1> DEFINE f == req[r].file
<1>1. /\ Running(r) /\ f \in FileIds /\ End(r)
      /\ StillOwned(req[r]) /\ row.owner = req[r].user
  BY RunningPc DEF Store, Fits
<1>2. CASE files' = files
  <2>1. PICK q \in Over : req' = [req EXCEPT ![r] = q] /\ StillOwned(q)
    BY <1>1, EndShape
  <2>2. q \notin Request
    BY DEF Over, Request
  <2> QED
    BY <1>2, <2>1, <2>2, ReqStep DEF FInv, TypeOK
<1>3. CASE Exists(f) /\ ~NameTaken(row.owner, row.name, f) /\ files' = [files EXCEPT ![f] = row]
  <2>1. f \in FileIds \ deleted /\ files[f].owner = row.owner
    BY <1>1, <1>3 DEF FInv, DeletedStaysDeleted, StillOwned
  <2> QED
    BY <1>1, <1>3, <2>1, WriteRow
<1> QED
  BY <1>2, <1>3 DEF Store

LEMMA FStoreContent ==
    ASSUME FInv, NEW r \in Requests, StoreContent(r)
    PROVE  FInv'
<1>1. req[r].row \in Row
  BY RunningPc DEF StoreContent, Request
<1> QED
  BY <1>1, FStore DEF StoreContent

LEMMA FStoreMetadata ==
    ASSUME FInv, NEW r \in Requests, StoreMetadata(r)
    PROVE  FInv'
<1> DEFINE f == req[r].file
           row == IF Exists(f) THEN [req[r].row EXCEPT !.content = files[f].content]
                               ELSE req[r].row
<1>1. req[r].row \in Row /\ f \in FileIds
  BY RunningPc DEF StoreMetadata, Request, Fits
<1>2. Exists(f) => files[f].content \in Contents
  BY <1>1, RowExists DEF FInv, Row
<1>3. row \in Row /\ row.owner = req[r].row.owner
  BY <1>1, <1>2 DEF Row
<1>4. Store(r, row) /\ UNCHANGED <<deleted, revs>> /\ req[r].pc = "patch"
  BY DEF StoreMetadata
<1> HIDE DEF row
<1> QED
  BY <1>3, <1>4, FStore

(* Files and their revisions go together, and the request is over.         *)
LEMMA RemoveStep ==
    ASSUME FInv, NEW r \in Requests, NEW F \in SUBSET FileIds, Remove(F),
           NEW q \in Over, req' = [req EXCEPT ![r] = q], StillOwned(q)
    PROVE  FInv'
<1>1. /\ \A f \in F : files'[f] = NoFile /\ ~Exists(f)'
      /\ \A f \in FileIds \ F : files'[f] = files[f] /\ (Exists(f)' <=> Exists(f))
  BY DEF Remove, Exists
<1>2. \A f \in F : f \in deleted' \/ ~Exists(f)
  BY DEF Remove
<1>3. TypeOK'
  <2>1. files' \in [FileIds -> Row \cup {NoFile}]
    BY DEF FInv, TypeOK, Remove
  <2>2. revs' \in [FileIds -> Seq(Revision)]
    <3>1. revs \in [FileIds -> Seq(Revision)]
      BY DEF FInv, TypeOK, Revision
    <3>2. <<>> \in Seq(Revision)
      OBVIOUS
    <3> QED
      BY <3>1, <3>2 DEF Remove
  <2>3. deleted' \subseteq FileIds
    BY DEF FInv, TypeOK, Remove
  <2>4. req' \in [Requests -> {Idle} \cup Request \cup Over]
    BY DEF FInv, TypeOK
  <2> QED
    BY <2>1, <2>2, <2>3, <2>4 DEF TypeOK, Revision
<1>4. NameUnique'
  BY <1>1 DEF FInv, NameUnique
<1>5. DeletedStaysDeleted'
  BY <1>1 DEF FInv, DeletedStaysDeleted, Remove, TypeOK
<1>6. ASSUME NEW o \in Requests PROVE ReqOK(o)'
  <2>1. ASSUME NEW p, StillOwned(p) PROVE StillOwned(p)'
    BY <1>1, <1>2, <2>1 DEF StillOwned, Remove
  <2>2. CASE o = r
    BY <2>1, <2>2 DEF FInv, TypeOK, ReqOK, Running, Over
  <2>3. CASE o # r
    BY <2>1, <2>3 DEF FInv, TypeOK, ReqOK, Running, Fits
  <2> QED
    BY <2>2, <2>3
<1> QED
  BY <1>3, <1>4, <1>5, <1>6 DEF FInv

LEMMA FDeleteFile ==
    ASSUME FInv, NEW r \in Requests, DeleteFile(r)
    PROVE  FInv'
<1>1. Running(r) /\ req[r].file \in FileIds
  BY RunningPc DEF DeleteFile, Fits
<1>2. PICK q \in Over : req' = [req EXCEPT ![r] = q] /\ StillOwned(q)
  BY <1>1, EndShape DEF DeleteFile
<1> QED
  BY <1>1, <1>2, RemoveStep DEF DeleteFile

LEMMA FDeleteByUser ==
    ASSUME FInv, NEW r \in Requests, NEW u \in Users, DeleteByUser(r, u)
    PROVE  FInv'
<1>1. PICK f \in Owned(u) :
         req' = [req EXCEPT ![r] = [pc |-> "done", user |-> u, op |-> "delete", file |-> f]]
  BY DEF DeleteByUser
<1> DEFINE q == [pc |-> "done", user |-> u, op |-> "delete", file |-> f]
<1>2. q \in Over /\ StillOwned(q)
  BY DEF Over, Ops, Targets, StillOwned, Owned
<1>3. Owned(u) \in SUBSET FileIds
  BY DEF Owned
<1> QED
  BY <1>1, <1>2, <1>3, RemoveStep DEF DeleteByUser

LEMMA FCancel ==
    ASSUME FInv, NEW r \in Requests, Cancel(r)
    PROVE  FInv'
<1>1. PICK q \in Over : req' = [req EXCEPT ![r] = q] /\ StillOwned(q)
  BY EndShape DEF Cancel
<1>2. q \notin Request
  BY DEF Over, Request
<1> QED
  BY <1>1, <1>2, ReqStep DEF Cancel, FInv, TypeOK

-----------------------------------------------------------------------------
(* Together.                                                               *)
LEMMA FStep ==
    ASSUME FInv, CInv, NEW r \in Requests, Step(r)
    PROVE  FInv'
<1>1. ASSUME NEW u \in Users, CountFiles(r, u) \/ DeleteByUser(r, u) PROVE FInv'
  BY <1>1, FCountFiles, FDeleteByUser
<1>2. ASSUME NEW u \in Users, NEW f \in FileIds, FindForMetadata(r, u, f) \/ FindForDelete(r, u, f)
      PROVE  FInv'
  BY <1>2, FFindForMetadata, FFindForDelete
<1>7. ASSUME NEW u \in Users, NEW f \in FileIds, NEW c \in Contents, FindForContent(r, u, f, c)
      PROVE  FInv'
  BY <1>7, FFindForContent
<1>3. CASE InsertFile(r)
  BY <1>3, FInsertFile
<1>4. CASE ReadOld(r) \/ AppendRevision(r) \/ RevisionFails(r) \/ DetectType(r)
  BY <1>4, FReadOld, FAppendRevision, FRevisionFails, FDetectType
<1>5. CASE StoreContent(r) \/ StoreMetadata(r)
  BY <1>5, FStoreContent, FStoreMetadata
<1>6. CASE DeleteFile(r) \/ Cancel(r)
  BY <1>6, FDeleteFile, FCancel
<1> QED
  BY <1>1, <1>2, <1>3, <1>4, <1>5, <1>6, <1>7 DEF Step, FindForMetadata

LEMMA CInit == Init => CInv
BY DEF Init, CInv, Consecutive

LEMMA CNext == FInv /\ CInv /\ [Next]_vars => CInv'
<1> SUFFICES ASSUME FInv, CInv, [Next]_vars PROVE CInv'
  OBVIOUS
<1>1. CASE UNCHANGED revs
  BY <1>1 DEF CInv
<1>2. ASSUME NEW r \in Requests, AppendRevision(r) PROVE CInv'
  BY <1>2, AppendEffect DEF CInv
<1>3. ASSUME NEW F, Remove(F) PROVE CInv'
  BY <1>3 DEF Remove, CInv, Consecutive
<1>4. ASSUME NEW r \in Requests, Step(r)
      PROVE  UNCHANGED revs \/ AppendRevision(r) \/ \E F : Remove(F)
  BY ZenonT(40), <1>4 DEF Step, CountFiles, DeleteByUser, FindForContent, FindForPatch, RenameFile,
     ToggleVisibility, FindForExtension, FindForDelete, InsertFile, ReadOld, RevisionFails,
     StoreContent, DetectType, StoreMetadata, DeleteFile, Cancel
<1> QED
  BY <1>1, <1>2, <1>3, <1>4 DEF Next, vars

LEMMA FNext == FInv /\ CInv /\ [Next]_vars => FInv'
<1> SUFFICES ASSUME FInv, CInv, [Next]_vars PROVE FInv'
  OBVIOUS
<1>1. CASE UNCHANGED vars
  BY <1>1 DEF vars, FInv, TypeOK, NameUnique, DeletedStaysDeleted, ReqOK, Running, StillOwned,
     Fits, Exists
<1> QED
  BY <1>1, FStep DEF Next

(* Every row, revision and request has its form, with calls that fail and  *)
(* requests that cross at any point.                                       *)
THEOREM TypeCorrect == Spec => []TypeOK
<1>1. FInv => TypeOK
  BY DEF FInv
<1> QED
  BY <1>1, FInit, CInit, FNext, CNext, PTL DEF Spec

(* However uploads, renames and updates with an outdated name cross, a     *)
(* user never has two files whose names differ in case only: the index     *)
(* refuses the second, whichever statement it comes in.                    *)
THEOREM UniqueNames == Spec => []NameUnique
<1>1. FInv => NameUnique
  BY DEF FInv
<1> QED
  BY <1>1, FInit, CInit, FNext, CNext, PTL DEF Spec

(* A deleted file stays deleted, whatever writes were on their way.        *)
THEOREM StaysDeleted == Spec => []DeletedStaysDeleted
<1>1. FInv => DeletedStaysDeleted
  BY DEF FInv
<1> QED
  BY <1>1, FInit, CInit, FNext, CNext, PTL DEF Spec

-----------------------------------------------------------------------------
(* Which steps change a row or a history.                                  *)
LEMMA Quiet ==
    ASSUME NEW r \in Requests, Step(r)
    PROVE  \/ UNCHANGED <<files, deleted, revs>>
           \/ InsertFile(r) /\ UNCHANGED revs
           \/ AppendRevision(r)
           \/ StoreContent(r) \/ StoreMetadata(r)
           \/ DeleteFile(r)
           \/ \E u \in Users : DeleteByUser(r, u)
<1>1. CASE UNCHANGED <<files, deleted, revs>>
  BY <1>1
<1>2. CASE ~UNCHANGED <<files, deleted, revs>>
  <2>1. InsertFile(r) => UNCHANGED revs
    BY DEF InsertFile
  <2>2. ~ReadOld(r) /\ ~RevisionFails(r) /\ ~DetectType(r) /\ ~Cancel(r)
    BY <1>2 DEF ReadOld, RevisionFails, DetectType, Cancel
  <2>3. \A u \in Users : ~CountFiles(r, u)
    BY <1>2 DEF CountFiles
  <2>4. ASSUME NEW u \in Users, NEW f \in FileIds
        PROVE  /\ \A c \in Contents : ~FindForContent(r, u, f, c)
               /\ \A name \in Names \cup {NoName}, private \in BOOLEAN, label \in {"detect", "patch"} :
                     ~FindForPatch(r, u, f, name, private, label)
               /\ \A name \in Names \cup {NoName} : ~RenameFile(r, u, f, name)
               /\ ~ToggleVisibility(r, u, f) /\ ~FindForExtension(r, u, f)
               /\ ~FindForDelete(r, u, f)
    BY <1>2 DEF FindForContent, FindForPatch, RenameFile, ToggleVisibility, FindForExtension,
                FindForDelete
  <2> QED
    BY <2>1, <2>2, <2>3, <2>4 DEF Step
<1> QED
  BY <1>1, <1>2

LEMMA OwnerStep ==
    ASSUME FInv, NEW r \in Requests, Step(r), NEW f \in FileIds, Exists(f),
           files'[f] # files[f] \/ revs'[f] # revs[f]
    PROVE  req'[r] # req[r] /\ req'[r].user = files[f].owner
<1>1. f \notin deleted
  BY DEF FInv, DeletedStaysDeleted
<1>2. CASE InsertFile(r) /\ UNCHANGED revs
  BY <1>2 DEF InsertFile, FInv, TypeOK
<1>3. CASE AppendRevision(r)
  <2>1. req[r].file = f /\ Fits(req[r]) /\ StillOwned(req[r]) /\ req[r] \in Request
    BY <1>3, RunningPc DEF AppendRevision, FInv, TypeOK
  <2>2. req[r].user = files[f].owner
    BY <1>1, <2>1 DEF StillOwned
  <2>3. req'[r] = [req[r] EXCEPT !.pc = "store"] /\ req[r].pc = "append"
    BY <1>3 DEF AppendRevision, Goto, FInv, TypeOK
  <2> QED
    BY <2>1, <2>2, <2>3 DEF Request
<1>4. CASE StoreContent(r) \/ StoreMetadata(r) \/ DeleteFile(r)
  <2>1. /\ req[r].file = f /\ StillOwned(req[r]) /\ Running(r) /\ End(r)
    BY <1>4, RunningPc DEF StoreContent, StoreMetadata, Store, DeleteFile, Remove, FInv, TypeOK
  <2>2. req[r].user = files[f].owner
    BY <1>1, <2>1 DEF StillOwned
  <2>3. PICK q \in Over : req' = [req EXCEPT ![r] = q] /\ q.user = req[r].user
    BY <2>1, EndShape
  <2>4. req'[r] = q /\ q.pc = "done"
    BY <2>3 DEF FInv, TypeOK, Over
  <2> QED
    BY <2>1, <2>2, <2>3, <2>4 DEF Running
<1>5. ASSUME NEW u \in Users, DeleteByUser(r, u)
      PROVE  req'[r] # req[r] /\ req'[r].user = files[f].owner
  <2>1. f \in Owned(u)
    BY <1>5 DEF DeleteByUser, Remove
  <2>2. files[f].owner = u
    BY <2>1 DEF Owned
  <2>3. req[r] = Idle /\ req'[r].pc = "done" /\ req'[r].user = u
    BY <1>5 DEF DeleteByUser, Arrives, FInv, TypeOK
  <2> QED
    BY <2>2, <2>3 DEF Idle
<1> QED
  BY <1>2, <1>3, <1>4, <1>5, Quiet

(* A file is written, given a revision or deleted only by a request of its *)
(* owner, however long after the ownership check the statement comes.      *)
THEOREM OnlyOwners == Spec => OwnerOnly
<1> DEFINE A == \A f \in FileIds :
          Exists(f) /\ (files'[f] # files[f] \/ revs'[f] # revs[f])
          => \E r \in Requests :
                req'[r] # req[r] /\ req'[r].user = files[f].owner
<1>1. FInv /\ [Next]_vars => [A]_vars
  BY OwnerStep DEF Next
<1> QED
  BY <1>1, FInit, CInit, FNext, CNext, PTL DEF Spec, OwnerOnly

-----------------------------------------------------------------------------
(* Refinement: with other requests in between, each step is one of         *)
(* RevisionLog or leaves the histories of existing files as they are.      *)
Histories == [f \in FileIds |-> IF f \in deleted THEN {} ELSE Numbers(revs[f])]

LEMMA LogVars ==
    Log!vars = <<RevisionsPerFile, FileIds \ deleted, Histories>>
BY DEF Log!vars, Histories, Numbers

LEMMA LogInit == Init => Log!Init
BY DEF Init, Log!Init

LEMMA LogAppend ==
    ASSUME FInv, CInv, NEW r \in Requests, AppendRevision(r),
           NEW f \in FileIds \ deleted, f = req[r].file
    PROVE  Log!Append(f)
<1> DEFINE n == NextSequence(revs[f])
<1>1. /\ f \in FileIds /\ revs[f] \in Seq(Revision) /\ Consecutive(revs[f])
      /\ \A g \in FileIds \ {f} : revs'[g] = revs[g]
      /\ Numbers(revs'[f]) = Log!Retain(Numbers(revs[f]) \cup {n}, RevisionsPerFile)
  BY AppendEffect DEF FInv, TypeOK, CInv, Revision
<1>2. Histories' = [Histories EXCEPT ![f] = Log!Retain(@ \cup {n}, RevisionsPerFile)]
  <2>1. UNCHANGED deleted
    BY DEF AppendRevision
  <2>2. Histories'[f] = Log!Retain(Histories[f] \cup {n}, RevisionsPerFile)
    BY <1>1, <2>1 DEF Histories
  <2>3. \A g \in FileIds \ {f} : Histories'[g] = Histories[g]
    BY <1>1, <2>1 DEF Histories
  <2> QED
    BY <2>2, <2>3 DEF Histories
<1>3. Log!IsNextSequence(Numbers(revs[f]), n) /\ n \in {1} \cup {m + 1 : m \in Numbers(revs[f])}
  <2>1. CASE revs[f] = <<>>
    BY <1>1, <2>1, NumbersInterval DEF Log!IsNextSequence
  <2>2. CASE revs[f] # <<>>
    <3> DEFINE S == Numbers(revs[f])
               lo == revs[f][1].seq
    <3>1. lo \in Nat \ {0} /\ n \in Nat /\ n - 1 >= lo /\ S = lo .. n - 1
      BY <1>1, <2>2, NumbersInterval
    <3> HIDE DEF S, lo, n
    <3>2. n - 1 \in S /\ n = (n - 1) + 1 /\ \A m \in S : m < n
      BY <3>1
    <3> QED
      BY <3>2 DEF Log!IsNextSequence, S
  <2> QED
    BY <2>1, <2>2
<1>4. Histories[f] = Numbers(revs[f]) /\ UNCHANGED deleted
  BY <1>1 DEF Histories, AppendRevision
<1> HIDE DEF n
<1> QED
  BY <1>1, <1>2, <1>3, <1>4 DEF Log!Append, Histories, Numbers

LEMMA LogRemove ==
    ASSUME FInv, NEW F \in SUBSET FileIds, Remove(F), \A f \in F : f \in deleted \/ Exists(f)
    PROVE  Log!Next
<1>0. PICK G \in SUBSET FileIds : G = {f \in F : Exists(f)}
  OBVIOUS
<1>1. G \subseteq FileIds \ deleted
  BY <1>0 DEF FInv, DeletedStaysDeleted
<1>2. FileIds \ deleted' = (FileIds \ deleted) \ G
  BY <1>0 DEF Remove
<1>3. Histories' = [f \in FileIds |-> IF f \in G THEN {} ELSE Histories[f]]
  <2>1. \A f \in G : Histories'[f] = {}
    BY <1>0 DEF Remove, Histories
  <2>2. \A f \in FileIds \ G : Histories'[f] = Histories[f]
    BY <1>0 DEF Remove, Histories
  <2> QED
    BY <2>1, <2>2 DEF Histories
<1>4. Log!Remove(G)
  BY <1>1, <1>2, <1>3 DEF Log!Remove, Histories, Numbers
<1> QED
  BY <1>4 DEF Log!Next

LEMMA LogStep == FInv /\ CInv /\ [Next]_vars => [Log!Next]_(Log!vars)
<1> SUFFICES ASSUME FInv, CInv, [Next]_vars
             PROVE  Log!Next \/ UNCHANGED <<deleted, Histories>>
  BY LogVars DEF Log!vars, Histories, Numbers
<1>1. CASE UNCHANGED <<deleted, revs>>
  BY <1>1 DEF Histories
<1>2. ASSUME NEW r \in Requests, AppendRevision(r)
      PROVE  Log!Next \/ UNCHANGED <<deleted, Histories>>
  <2>1. CASE req[r].file \notin deleted
    <3>1. PICK f \in FileIds \ deleted : f = req[r].file
      BY <1>2, <2>1, AppendEffect
    <3>2. Log!Append(f)
      BY <1>2, <3>1, LogAppend
    <3> QED
      BY <3>2 DEF Log!Next
  <2>2. CASE req[r].file \in deleted
    BY <1>2, <2>2, AppendEffect DEF Histories, AppendRevision
  <2> QED
    BY <2>1, <2>2
<1>3. ASSUME NEW r \in Requests, DeleteFile(r) PROVE Log!Next
  <2>1. req[r].file \in FileIds /\ (req[r].file \in deleted \/ Exists(req[r].file))
    BY <1>3, RunningPc DEF DeleteFile, Fits, StillOwned
  <2>2. PICK F \in SUBSET FileIds : F = {req[r].file}
    BY <2>1
  <2>3. Remove(F)
    BY <1>3, <2>2 DEF DeleteFile, Remove
  <2> QED
    BY <2>1, <2>2, <2>3, LogRemove
<1>4. ASSUME NEW r \in Requests, NEW u \in Users, DeleteByUser(r, u) PROVE Log!Next
  <2>1. PICK F \in SUBSET FileIds : F = Owned(u)
    BY DEF Owned
  <2>2. \A f \in F : Exists(f)
    BY <2>1 DEF Owned
  <2>3. Remove(F)
    BY <1>4, <2>1 DEF DeleteByUser, Remove
  <2> QED
    BY <2>1, <2>2, <2>3, LogRemove
<1>5. ASSUME NEW r \in Requests, Step(r) PROVE Log!Next \/ UNCHANGED <<deleted, Histories>>
  BY <1>1, <1>2, <1>3, <1>4, <1>5, Quiet DEF InsertFile, StoreContent, StoreMetadata
<1> QED
  BY <1>1, <1>5 DEF Next, vars

(* What Revisions.Create and Files.Delete promise holds of the histories   *)
(* requests can see, whatever requests cross: consecutive numbers, and of  *)
(* them the newest the limit allows.                                       *)
THEOREM FilesImplementLog == Spec => ImplementsLog
BY FInit, CInit, FNext, CNext, LogInit, LogStep, PTL DEF Spec, ImplementsLog, Log!Spec

-----------------------------------------------------------------------------
(* The size column.  Unless both a content and a metadata update of a file *)
(* were asked for, its size is right, and so is the size that a metadata   *)
(* update on its way will write back.                                      *)
Asked(op, f) == \E q \in Requests : req[q].pc # "idle" /\ req[q].op = op /\ req[q].file = f

SInv ==
    /\ \A f \in FileIds :
          Exists(f) /\ ~(Asked("content", f) /\ Asked("metadata", f))
          => files[f].size = files[f].content
    /\ \A r \in Requests :
          Running(r) /\ req[r].op = "metadata" /\ Exists(req[r].file)
             /\ ~Asked("content", req[r].file)
          => req[r].row.size = files[req[r].file].content

LEMMA SizeOps ==
    ASSUME FInv, NEW f \in FileIds, Exists(f), SInv,
           LET ops == {req[r].op : r \in {q \in Requests : req[q] # Idle /\ req[q].file = f}}
           IN  ~({"content", "metadata"} \subseteq ops)
    PROVE  files[f].size = files[f].content
<1>1. ~(Asked("content", f) /\ Asked("metadata", f))
  BY Shape DEF Asked, FInv
<1> QED
  BY <1>1 DEF SInv

(* Steps take requests forward, and leave others alone.                    *)
LEMMA Forward ==
    ASSUME FInv, NEW r \in Requests, Step(r)
    PROVE  /\ \A o \in Requests : o # r => req'[o] = req[o]
           /\ req[r].pc # "idle" => /\ req'[r].pc # "idle"
                                   /\ req'[r].op = req[r].op /\ req'[r].file = req[r].file
<1>0. \A u \in Users, f \in FileIds : FindForMetadata(r, u, f) =>
         Arrives(r) /\ \E q : req' = [req EXCEPT ![r] = q]
  BY FoundForMetadata DEF FInv, Begin
<1> USE DEF FInv, TypeOK
<1>1. ASSUME Arrives(r), NEW q, req' = [req EXCEPT ![r] = q]
      PROVE  /\ \A o \in Requests : o # r => req'[o] = req[o]
             /\ req[r].pc = "idle"
  BY <1>1 DEF Arrives, Idle
<1>2. ASSUME End(r), Running(r)
      PROVE  /\ \A o \in Requests : o # r => req'[o] = req[o]
             /\ req'[r].pc # "idle" /\ req'[r].op = req[r].op /\ req'[r].file = req[r].file
  <2>1. PICK q \in Over : req' = [req EXCEPT ![r] = q] /\ q.file = req[r].file /\ q.op = req[r].op
    BY <1>2, EndShape
  <2>2. q.pc = "done"
    BY DEF Over
  <2> QED
    BY <2>1, <2>2
<1>3. ASSUME NEW label, label # "idle", Goto(r, label), Running(r)
      PROVE  /\ \A o \in Requests : o # r => req'[o] = req[o]
             /\ req'[r].pc # "idle" /\ req'[r].op = req[r].op /\ req'[r].file = req[r].file
  <2>1. req[r] \in Request
    BY <1>3, Shape
  <2> QED
    BY <1>3, <2>1 DEF Goto, Request
<1>4. CASE \E u \in Users : CountFiles(r, u) \/ DeleteByUser(r, u)
  BY <1>1, <1>4 DEF CountFiles, DeleteByUser, Begin
<1>5. CASE \E u \in Users, f \in FileIds :
             \/ \E c \in Contents : FindForContent(r, u, f, c)
             \/ FindForMetadata(r, u, f) \/ FindForDelete(r, u, f)
  BY <1>0, <1>1, <1>5 DEF FindForContent, FindForDelete, Begin
<1>6. CASE InsertFile(r) \/ StoreContent(r) \/ StoreMetadata(r) \/ DeleteFile(r) \/ Cancel(r)
  BY <1>2, <1>6, RunningPc DEF InsertFile, StoreContent, StoreMetadata, Store, DeleteFile, Cancel
<1>7. CASE AppendRevision(r) \/ RevisionFails(r)
  BY <1>3, <1>7, RunningPc DEF AppendRevision, RevisionFails
<1>8. CASE ReadOld(r) \/ DetectType(r)
  <2>1. req[r] \in Request
    BY <1>8, RunningPc DEF ReadOld, DetectType
  <2>2. CASE ReadOld(r)
    BY <2>1, <2>2 DEF ReadOld, Request
  <2>3. CASE DetectType(r)
    BY <2>1, <2>3 DEF DetectType, Request
  <2> QED
    BY <1>8, <2>2, <2>3
<1> QED
  BY <1>4, <1>5, <1>6, <1>7, <1>8 DEF Step, FindForMetadata

LEMMA AskedOnce ==
    ASSUME FInv, NEW r \in Requests, Step(r), NEW op, NEW f, Asked(op, f)
    PROVE  Asked(op, f)'
BY Forward DEF Asked

(* Where the size in the copy of a metadata update comes from.             *)
LEMMA CopiedSize ==
    ASSUME FInv, NEW r \in Requests, Step(r), Running(r)', req'[r].op = "metadata"
    PROVE  /\ files' = files
           /\ \/ Running(r) /\ req[r].op = "metadata" /\ req'[r].row.size = req[r].row.size
              \/ Exists(req'[r].file) /\ req'[r].row.size = files[req'[r].file].size
<1>3. ASSUME NEW u \in Users, NEW f \in FileIds, FindForMetadata(r, u, f)
      PROVE  /\ files' = files
             /\ Exists(req'[r].file) /\ req'[r].row.size = files[req'[r].file].size
  <2>1. PICK row \in Row, label \in {"detect", "patch"} :
           row.size = files[f].size /\ Begin(r, u, "metadata", label, f, row)
    BY <1>3, FoundForMetadata DEF FInv
  <2>2. files' = files /\ MayChange(u, f)
    BY <1>3, FoundForMetadata DEF FInv
  <2>3. req'[r].file = f /\ req'[r].row = row
    BY <2>1 DEF Begin, FInv, TypeOK
  <2> QED
    BY <2>1, <2>2, <2>3 DEF MayChange
<1> USE DEF FInv, TypeOK
<1>1. CASE \E u \in Users : CountFiles(r, u) \/ DeleteByUser(r, u)
  BY <1>1 DEF CountFiles, DeleteByUser, Begin, Running
<1>2. CASE \E u \in Users, f \in FileIds, c \in Contents : FindForContent(r, u, f, c)
  BY <1>2 DEF FindForContent, Begin
<1>4. CASE \E u \in Users, f \in FileIds : FindForDelete(r, u, f)
  BY <1>4 DEF FindForDelete, Begin
<1>5. CASE InsertFile(r) \/ StoreContent(r) \/ StoreMetadata(r) \/ DeleteFile(r) \/ Cancel(r)
  BY <1>5 DEF InsertFile, StoreContent, StoreMetadata, Store, DeleteFile, Cancel, End, Running
<1>6. CASE ReadOld(r) \/ AppendRevision(r) \/ RevisionFails(r)
  <2>1. req[r] \in Request /\ req[r].op = "content"
    BY <1>6, RunningPc DEF ReadOld, AppendRevision, RevisionFails, Fits
  <2>2. req'[r].op = "content"
    <3>1. req[r].pc # "idle"
      BY <2>1 DEF Request
    <3> QED
      BY <2>1, <3>1, Forward
  <2> QED
    BY <2>2
<1>7. CASE DetectType(r)
  <2>1. req[r] \in Request /\ Running(r) /\ req[r].op = "metadata"
    BY <1>7, RunningPc DEF DetectType, Fits
  <2> QED
    BY <1>7, <2>1 DEF DetectType, Request, Row
<1> QED
  BY <1>1, <1>2, <1>3, <1>4, <1>5, <1>6, <1>7 DEF Step, FindForMetadata

(* Who writes a row, and what.                                             *)
LEMMA Written ==
    ASSUME FInv, NEW r \in Requests, Step(r), NEW f \in FileIds,
           files'[f] # files[f], Exists(f)'
    PROVE  /\ Running(r)
           /\ \/ ~Exists(f) /\ f \notin deleted /\ files'[f].size = files'[f].content
              \/ /\ req[r].op = "content" /\ req[r].file = f
                 /\ files'[f].size = files'[f].content
              \/ /\ req[r].op = "metadata" /\ req[r].file = f /\ Exists(f)
                 /\ files'[f].size = req[r].row.size /\ files'[f].content = files[f].content
<1> USE DEF FInv, TypeOK
<1>1. CASE InsertFile(r)
  <2>1. Running(r) /\ Fits(req[r])
    BY <1>1, RunningPc DEF InsertFile
  <2> QED
    BY <1>1, <2>1 DEF InsertFile, Fits
<1>2. CASE StoreContent(r)
  <2>1. Running(r) /\ Fits(req[r])
    BY <1>2, RunningPc DEF StoreContent
  <2> QED
    BY <1>2, <2>1 DEF StoreContent, Store, Fits
<1>3. CASE StoreMetadata(r)
  <2>1. Running(r) /\ Fits(req[r]) /\ req[r].row \in Row
    BY <1>3, RunningPc DEF StoreMetadata, Request
  <2>2. req[r].file = f /\ Exists(f) /\ files'[f] = [req[r].row EXCEPT !.content = files[f].content]
    BY <1>3 DEF StoreMetadata, Store
  <2> QED
    BY <1>3, <2>1, <2>2 DEF StoreMetadata, Fits, Row
<1>4. CASE UNCHANGED files \/ DeleteFile(r) \/ \E u \in Users : DeleteByUser(r, u)
  BY <1>4 DEF DeleteFile, DeleteByUser, Remove, Exists
<1> QED
  BY <1>1, <1>2, <1>3, <1>4, Quiet DEF AppendRevision

LEMMA SInit == Init => SInv
<1> SUFFICES ASSUME Init PROVE SInv
  OBVIOUS
<1>1. ASSUME NEW f \in FileIds, Exists(f) PROVE files[f].size = files[f].content
  BY <1>1 DEF Init, Exists, NewRow
<1>2. \A r \in Requests : ~Running(r)
  BY DEF Init, Running, Idle
<1> QED
  BY <1>1, <1>2 DEF SInv

LEMMA SStep ==
    ASSUME FInv, CInv, SInv, NEW r \in Requests, Step(r)
    PROVE  SInv'
<1>0. FInv'
  BY FNext DEF Next
<1>1. ASSUME NEW f \in FileIds, Exists(f)', ~(Asked("content", f)' /\ Asked("metadata", f)')
      PROVE  files'[f].size = files'[f].content
  <2>1. ~(Asked("content", f) /\ Asked("metadata", f))
    BY <1>1, AskedOnce
  <2>2. CASE files'[f] = files[f]
    BY <1>1, <2>1, <2>2 DEF SInv, Exists
  <2>3. CASE /\ Running(r) /\ req[r].op = "metadata" /\ req[r].file = f /\ Exists(f)
             /\ files'[f].size = req[r].row.size /\ files'[f].content = files[f].content
    <3>1. Asked("metadata", f)
      BY <2>3 DEF Asked, Running
    <3> QED
      BY <2>1, <2>3, <3>1 DEF SInv
  <2> QED
    BY <1>1, <2>2, <2>3, Written
<1>2. ASSUME NEW o \in Requests, Running(o)', req'[o].op = "metadata",
             NEW f \in FileIds, req'[o].file = f, Exists(f)', ~Asked("content", f)'
      PROVE  req'[o].row.size = files'[f].content
  <2>1. ~Asked("content", f)
    BY <1>2, AskedOnce
  <2>3. CASE o = r
    <3>1. files' = files /\ Exists(f)
      BY <1>2, <2>3, CopiedSize DEF Exists
    <3>2. CASE Running(r) /\ req[r].op = "metadata" /\ req'[r].row.size = req[r].row.size
      <4>1. req[r].file = f
        BY <1>2, <2>3, <3>2, Forward DEF Running
      <4> QED
        BY <2>1, <2>3, <3>1, <3>2, <4>1 DEF SInv
    <3>3. CASE req'[r].row.size = files[f].size
      BY <1>2, <2>1, <2>3, <3>1, <3>3 DEF SInv
    <3> QED
      BY <1>2, <2>3, <3>2, <3>3, CopiedSize
  <2>4. CASE o # r
    <3>1. req'[o] = req[o]
      BY <2>4, Forward
    <3>2. Running(o) /\ req[o].op = "metadata" /\ req[o].file = f
      BY <1>2, <3>1 DEF Running
    <3>3. CASE files'[f] = files[f]
      BY <1>2, <2>1, <3>1, <3>2, <3>3 DEF SInv, Exists
    <3>4. CASE files'[f] # files[f]
      <4>1. CASE ~Exists(f) /\ f \notin deleted
        BY <3>2, <4>1 DEF FInv, ReqOK, StillOwned, Running
      <4>2. CASE Running(r) /\ req[r].op = "content" /\ req[r].file = f
        BY <2>1, <4>2 DEF Asked, Running
      <4>3. CASE Exists(f) /\ files'[f].content = files[f].content
        BY <2>1, <3>1, <3>2, <4>3 DEF SInv
      <4> QED
        BY <1>2, <3>4, <4>1, <4>2, <4>3, Written
    <3> QED
      BY <3>3, <3>4
  <2> QED
    BY <2>3, <2>4
<1>3. ASSUME NEW o \in Requests, Running(o)', req'[o].op = "metadata"
      PROVE  \E f \in FileIds : req'[o].file = f
  BY <1>0, <1>3 DEF FInv, ReqOK, Fits
<1> QED
  <2>1. ASSUME NEW o \in Requests, Running(o)', req'[o].op = "metadata",
               Exists(req[o].file)', ~Asked("content", req[o].file)'
        PROVE  req'[o].row.size = files'[req'[o].file].content
    <3>1. PICK f \in FileIds : req'[o].file = f
      BY <1>3, <2>1
    <3>2. Exists(f)' /\ ~Asked("content", f)'
      BY <2>1, <3>1 DEF Exists, Asked
    <3> QED
      BY <1>2, <2>1, <3>1, <3>2
  <2> QED
    BY <1>1, <2>1 DEF SInv

LEMMA SNext == FInv /\ CInv /\ SInv /\ [Next]_vars => SInv'
<1> SUFFICES ASSUME FInv, CInv, SInv, [Next]_vars PROVE SInv'
  OBVIOUS
<1>1. CASE UNCHANGED vars
  BY <1>1 DEF vars, SInv, Exists, Asked, Running
<1> QED
  BY <1>1, SStep DEF Next

(* Content updates alone, or metadata updates alone, however they cross    *)
(* and fail, leave the size column right: it takes both of one file to     *)
(* make it wrong.                                                          *)
THEOREM SizesHonest == Spec => []SizeHonest
<1>1. FInv /\ SInv => SizeHonest
  BY SizeOps DEF SizeHonest
<1> QED
  BY <1>1, FInit, CInit, SInit, FNext, CNext, SNext, PTL DEF Spec

-----------------------------------------------------------------------------
(* One request at a time, without faults: what the documentation says.     *)

(* Each revision of s ends where the next, and the last where c, begins.   *)
Explained(s, c) ==
    \A i \in 1..Len(s) : (IF i < Len(s) THEN s[i + 1].from ELSE c) \in {s[i].to} \cup Binary

(* With nobody else running, what a request has seen is still the case.    *)
Current(r) ==
    LET q == req[r] IN
    /\ q.pc = "insert" /\ FilesPerUser > 0 => Cardinality(Owned(q.row.owner)) < FilesPerUser
    /\ Running(r) /\ q.pc # "insert" => Exists(q.file)
    /\ q.pc \in {"read", "append", "store"} =>
          q.row.name = files[q.file].name /\ q.row.private = files[q.file].private
    /\ q.pc = "append" => q.old = files[q.file].content
    /\ q.pc = "store" => Explained(revs[q.file], q.row.content)
    /\ q.pc \in {"detect", "patch"} => q.row.size = files[q.file].content

OneInv ==
    /\ \A o, p \in Requests : Running(o) /\ Running(p) => o = p
    /\ FileLimit
    /\ SizeIsContentSize
    /\ \A f \in FileIds : ~Exists(f) => revs[f] = <<>>
    /\ \A r \in Requests : Current(r)
    /\ \A f \in FileIds :
          Exists(f) /\ (\A r \in Requests : req[r].pc = "store" => req[r].file # f)
          => Explained(revs[f], files[f].content)

LEMMA OneImplies == FInv /\ OneInv => AsDocumented
<1> SUFFICES ASSUME FInv, OneInv PROVE AsDocumented
  OBVIOUS
<1>1. DeletedWithRevisions
  BY DEF FInv, OneInv, TypeOK, DeletedStaysDeleted, DeletedWithRevisions
<1>2. HistoryExplainsContent
  <2> SUFFICES ASSUME \A r \in Requests : ~Running(r),
                      NEW f \in FileIds, Exists(f), revs[f] # <<>>,
                      NEW i \in 1..Len(revs[f])
               PROVE  LET versions == [j \in 1..Len(revs[f]) + 1 |->
                                          IF j <= Len(revs[f]) THEN revs[f][j].from
                                                               ELSE files[f].content]
                      IN  versions[i + 1] \in {revs[f][i].to} \cup Binary
    BY DEF HistoryExplainsContent
  <2>1. Explained(revs[f], files[f].content)
    BY DEF OneInv, Running
  <2>2. Len(revs[f]) \in Nat
    BY DEF FInv, TypeOK
  <2> QED
    BY <2>1, <2>2 DEF Explained
<1> QED
  BY <1>1, <1>2 DEF OneInv, AsDocumented

LEMMA ExplainedBinary ==
    ASSUME NEW s, NEW c, Explained(s, c), NEW d \in Binary
    PROVE  Explained(s, d)
BY DEF Explained

LEMMA ExplainedAppend ==
    ASSUME NEW s \in Seq(Revision), NEW rev \in Revision, Explained(s, rev.from),
           NEW t, t = Append(s, rev)
    PROVE  Explained(t, rev.to)
<1>1. /\ Len(s) \in Nat /\ Len(t) = Len(s) + 1
      /\ t[Len(t)] = rev /\ \A i \in 1..Len(s) : t[i] = s[i]
  OBVIOUS
<1>2. ASSUME NEW i \in 1..Len(t)
      PROVE  (IF i < Len(t) THEN t[i + 1].from ELSE rev.to) \in {t[i].to} \cup Binary
  <2>1. CASE i = Len(t)
    BY <1>1, <2>1
  <2>2. CASE i = Len(s)
    <3>1. t[i] = s[i] /\ t[i + 1] = rev /\ i < Len(t) /\ i \in 1..Len(s)
      BY <1>1, <2>2
    <3>2. rev.from \in {s[i].to} \cup Binary
      BY <2>2, <3>1 DEF Explained
    <3> QED
      BY <3>1, <3>2
  <2>3. CASE i < Len(s)
    <3>1. i \in 1..Len(s) /\ i + 1 \in 1..Len(s) /\ i < Len(t)
      BY <1>1, <2>3
    <3>2. t[i] = s[i] /\ t[i + 1] = s[i + 1]
      BY <1>1, <3>1
    <3>3. s[i + 1].from \in {s[i].to} \cup Binary
      BY <2>3, <3>1 DEF Explained
    <3> QED
      BY <3>1, <3>2, <3>3
  <2> QED
    BY <1>1, <2>1, <2>2, <2>3
<1> QED
  BY <1>2 DEF Explained

(* The prune forgets the oldest, and leaves the rest as it was.            *)
LEMMA ExplainedPruned ==
    ASSUME NEW t \in Seq(Revision), NEW c, Explained(t, c)
    PROVE  Explained(Pruned(t), c)
<1> DEFINE k == RevisionsPerFile
           p == Pruned(t)
<1>1. k \in Nat /\ Len(t) \in Nat
  BY LimitAssumption
<1>2. CASE ~(k > 0 /\ Len(t) > k)
  BY <1>2 DEF Pruned
<1>3. CASE k > 0 /\ Len(t) > k
  <2> DEFINE a == Len(t) - k + 1
  <2>1. p = SubSeq(t, a, Len(t))
    BY <1>3 DEF Pruned
  <2>2. a \in Nat \ {0} /\ a <= Len(t) /\ Len(t) = a + k - 1
    BY <1>1, <1>3
  <2> HIDE DEF p, a
  <2>3. Len(p) = k
    BY <1>1, <2>1, <2>2
  <2>4. ASSUME NEW i \in 1..k PROVE p[i] = t[a + i - 1] /\ a + i - 1 \in 1..Len(t)
    <3>1. i \in 1..(Len(t) - a + 1) /\ a + i - 1 = i + a - 1
      BY <1>1, <2>2
    <3>2. SubSeq(t, a, Len(t))[i] = t[a + i - 1]
      BY <1>1, <2>2, <3>1
    <3> QED
      BY <1>1, <2>1, <2>2, <3>2
  <2>5. ASSUME NEW i \in 1..k
        PROVE  (IF i < k THEN p[i + 1].from ELSE c) \in {p[i].to} \cup Binary
    <3> DEFINE j == a + i - 1
    <3>1. j \in 1..Len(t) /\ p[i] = t[j]
      BY <2>4
    <3>2. CASE i < k
      <4>1. i + 1 \in 1..k /\ a + (i + 1) - 1 = j + 1 /\ j < Len(t)
        BY <1>1, <2>2, <3>2
      <4>2. p[i + 1] = t[j + 1]
        BY <2>4, <4>1
      <4>3. t[j + 1].from \in {t[j].to} \cup Binary
        BY <3>1, <4>1 DEF Explained
      <4> QED
        BY <3>1, <3>2, <4>2, <4>3
    <3>3. CASE ~(i < k)
      <4>1. ~(j < Len(t))
        BY <1>1, <2>2, <3>3
      <4> QED
        BY <3>1, <3>3, <4>1 DEF Explained
    <3> QED
      BY <3>2, <3>3
  <2> QED
    BY <2>3, <2>5 DEF Explained, p
<1> QED
  BY <1>2, <1>3

Serial == InFlight = 1 /\ Faults = FALSE

(* Nobody else is running, before or after a step.                         *)
LEMMA Alone ==
    ASSUME Serial, FInv, OneInv, NEW r \in Requests, Step(r)
    PROVE  \A o \in Requests \ {r} : ~Running(o) /\ req'[o] = req[o] /\ ~Running(o)'
<1>1. \A o \in Requests \ {r} : req'[o] = req[o]
  BY Forward
<1>2. ASSUME Running(r) PROVE \A o \in Requests \ {r} : ~Running(o)
  BY <1>2 DEF OneInv
<1>3. ASSUME Arrives(r), NEW o \in Requests, Running(o) PROVE FALSE
  <2>1. {q \in Requests : Running(q)} = {o}
    BY <1>3 DEF OneInv
  <2>2. Cardinality({o}) = 1
    BY FS_Singleton
  <2> QED
    BY <1>3, <2>1, <2>2 DEF Arrives, Serial
<1>4. Running(r) \/ Arrives(r)
  BY ZenonT(40), RunningPc DEF Step, CountFiles, DeleteByUser, FindForContent, FindForPatch, RenameFile,
     ToggleVisibility, FindForExtension, FindForDelete, InsertFile, ReadOld, AppendRevision,
     RevisionFails, StoreContent, DetectType, StoreMetadata, DeleteFile, Cancel
<1> QED
  BY <1>1, <1>2, <1>3, <1>4 DEF Running

(* A step between two that change rows or revisions.                       *)
LEMMA QuietStep ==
    ASSUME Serial, FInv, OneInv, NEW r \in Requests, Step(r), req[r].pc # "store",
           UNCHANGED <<files, deleted, revs>>, Current(r)'
    PROVE  OneInv'
<1>1. \A o \in Requests \ {r} : ~Running(o) /\ req'[o] = req[o] /\ ~Running(o)'
  BY Alone
<1>2. FileLimit' /\ SizeIsContentSize' /\ \A f \in FileIds : (~Exists(f))' => revs'[f] = <<>>
  BY DEF OneInv, FileLimit, Owned, Exists, SizeIsContentSize
<1>3. \A o \in Requests : Current(o)'
  BY <1>1 DEF Current, Running
<1>4. \A o \in Requests : req[o].pc # "store"
  BY <1>1 DEF Running
<1>5. \A f \in FileIds : Exists(f)' => Explained(revs'[f], files'[f].content)
  BY <1>4 DEF OneInv, Exists
<1> QED
  BY <1>1, <1>2, <1>3, <1>5 DEF OneInv

LEMMA OneCountFiles ==
    ASSUME Serial, FInv, OneInv, NEW r \in Requests, NEW u \in Users, CountFiles(r, u)
    PROVE  OneInv'
<1>1. PICK name \in Names \cup {NoName}, private \in BOOLEAN, c \in Contents :
          Begin(r, u, "upload", "insert", "new", NewRow(u, name, private, c))
  BY DEF CountFiles
<1>2. /\ req'[r].pc = "insert" /\ req'[r].row = NewRow(u, name, private, c)
      /\ req[r].pc = "idle" /\ UNCHANGED <<files, deleted, revs>>
  BY <1>1 DEF Begin, CountFiles, Arrives, Idle, FInv, TypeOK
<1>3. FilesPerUser > 0 => Cardinality(Owned(u)) < FilesPerUser
  BY DEF CountFiles
<1>4. req'[r].row.owner = u
  BY <1>2, NewRowShape
<1>5. Current(r)'
  BY <1>2, <1>3, <1>4 DEF Current, Owned, Exists
<1>6. Step(r)
  BY DEF Step
<1> QED
  BY <1>2, <1>5, <1>6, QuietStep

LEMMA OneFindForContent ==
    ASSUME Serial, FInv, OneInv, NEW r \in Requests, NEW u \in Users, NEW f \in FileIds,
           NEW c \in Contents, FindForContent(r, u, f, c)
    PROVE  OneInv'
<1> DEFINE row == [files[f] EXCEPT !.size = c, !.type = DetectFileType(c), !.content = c]
<1>1. Step(r)
  BY DEF Step
<1>2. /\ req[r].pc = "idle" /\ UNCHANGED <<files, deleted, revs>>
      /\ Exists(f) /\ files[f] \in Row
  BY RowExists DEF FindForContent, Arrives, Idle, FInv, MayChange
<1>3. /\ req'[r].pc = IF DetectFileType(c) = "binary" THEN "store" ELSE "read"
      /\ req'[r].file = f /\ req'[r].row = row
  BY DEF FindForContent, Begin, FInv, TypeOK
<1>4. row.name = files[f].name /\ row.private = files[f].private /\ row.content = c
  BY <1>2 DEF Row
<1>5. ASSUME req'[r].pc = "store" PROVE Explained(revs[f], c)
  <2>1. c \in Binary
    BY <1>3, <1>5 DEF DetectFileType
  <2>2. \A o \in Requests : req[o].pc # "store"
    BY <1>1, <1>2, Alone DEF Running
  <2>3. Explained(revs[f], files[f].content)
    BY <1>2, <2>2 DEF OneInv
  <2> QED
    BY <2>1, <2>3, ExplainedBinary
<1> HIDE DEF row
<1>6. Current(r)'
  BY <1>2, <1>3, <1>4, <1>5 DEF Current, Exists, Running
<1> QED
  BY <1>1, <1>2, <1>6, QuietStep

LEMMA OneFindForMetadata ==
    ASSUME Serial, FInv, OneInv, NEW r \in Requests, NEW u \in Users, NEW f \in FileIds,
           FindForMetadata(r, u, f)
    PROVE  OneInv'
<1>1. Step(r)
  BY DEF Step, FindForMetadata
<1>2. PICK row \in Row, label \in {"detect", "patch"} :
         row.size = files[f].size /\ Begin(r, u, "metadata", label, f, row)
  BY FoundForMetadata DEF FInv
<1>3. /\ req[r].pc = "idle" /\ UNCHANGED <<files, deleted, revs>> /\ Exists(f)
  <2>1. Arrives(r) /\ MayChange(u, f) /\ UNCHANGED <<files, deleted, revs>>
    BY FoundForMetadata DEF FInv
  <2> QED
    BY <2>1 DEF Arrives, Idle, MayChange
<1>4. req'[r].pc = label /\ req'[r].file = f /\ req'[r].row = row
  BY <1>2 DEF Begin, FInv, TypeOK
<1>5. files[f].size = files[f].content
  BY <1>3 DEF OneInv, SizeIsContentSize
<1>6. Current(r)'
  BY <1>2, <1>3, <1>4, <1>5 DEF Current, Exists, Running
<1> QED
  BY <1>1, <1>3, <1>6, QuietStep

LEMMA OneFindForDelete ==
    ASSUME Serial, FInv, OneInv, NEW r \in Requests, NEW u \in Users, NEW f \in FileIds,
           FindForDelete(r, u, f)
    PROVE  OneInv'
<1>1. Step(r)
  BY DEF Step
<1>2. /\ req[r].pc = "idle" /\ UNCHANGED <<files, deleted, revs>> /\ Exists(f)
  BY DEF FindForDelete, Arrives, Idle, MayChange
<1>3. req'[r].pc = "delete" /\ req'[r].file = f
  BY DEF FindForDelete, Begin, FInv, TypeOK
<1>4. Current(r)'
  BY <1>2, <1>3 DEF Current, Exists, Running
<1> QED
  BY <1>1, <1>2, <1>4, QuietStep

LEMMA EndedIsCurrent ==
    ASSUME FInv, NEW r \in Requests, Running(r), End(r)
    PROVE  Current(r)' /\ req'[r].pc = "done"
<1>1. PICK q \in Over : req' = [req EXCEPT ![r] = q]
  BY EndShape
<1>2. req'[r].pc = "done"
  BY <1>1 DEF FInv, TypeOK, Over
<1> QED
  BY <1>2 DEF Current, Running

LEMMA OneQuiet ==
    ASSUME Serial, FInv, OneInv, NEW r \in Requests,
           ReadOld(r) \/ RevisionFails(r) \/ DetectType(r) \/ Cancel(r)
    PROVE  OneInv'
<1>1. Step(r)
  BY DEF Step
<1>2. CASE ReadOld(r)
  <2> DEFINE f == req[r].file
  <2>1. /\ req[r].pc = "read" /\ UNCHANGED <<files, deleted, revs>>
        /\ req[r] \in Request /\ Running(r) /\ f \in FileIds
    BY <1>2, RunningPc DEF ReadOld, Fits
  <2>2. Exists(f) /\ req[r].row.name = files[f].name /\ req[r].row.private = files[f].private
    BY <2>1 DEF OneInv, Current
  <2>3. /\ req'[r].old = files[f].content /\ req'[r].file = f /\ req'[r].row = req[r].row
        /\ req'[r].pc = IF files[f].content = req[r].row.content THEN "store" ELSE "append"
    BY <1>2, <2>1, <2>2 DEF ReadOld, FInv, TypeOK, Request
  <2>4. Explained(revs[f], files[f].content)
    <3>1. \A o \in Requests : req[o].pc # "store"
      BY <1>1, <2>1, Alone DEF Running
    <3> QED
      BY <2>1, <2>2, <3>1 DEF OneInv
  <2>5. Current(r)'
    BY <2>1, <2>2, <2>3, <2>4 DEF Current, Exists, Running
  <2> QED
    BY <1>1, <2>1, <2>5, QuietStep
<1>3. CASE RevisionFails(r)
  <2>1. PICK q \in Requests \ {r} :
           req[q].pc \in {"insert", "append", "store", "patch", "delete"}
    BY <1>3 DEF RevisionFails, Serial
  <2> QED
    BY <1>1, <2>1, Alone, RunningPc
<1>4. CASE DetectType(r)
  <2> DEFINE f == req[r].file
  <2>1. /\ req[r].pc = "detect" /\ UNCHANGED <<files, deleted, revs>>
        /\ req[r] \in Request /\ Running(r)
    BY <1>4, RunningPc DEF DetectType
  <2>2. req'[r].file = f /\ req'[r].row.size = req[r].row.size /\ req'[r].pc = "patch"
    BY <1>4, <2>1 DEF DetectType, FInv, TypeOK, Request, Row
  <2>3. Exists(f) /\ req[r].row.size = files[f].content
    BY <2>1 DEF OneInv, Current
  <2>4. Current(r)'
    BY <2>1, <2>2, <2>3 DEF Current, Exists, Running
  <2> QED
    BY <1>1, <2>1, <2>4, QuietStep
<1>5. CASE Cancel(r)
  BY <1>1, <1>5, EndedIsCurrent, QuietStep DEF Cancel, Serial
<1> QED
  BY <1>2, <1>3, <1>4, <1>5

(* One more file, where there was room for it.                             *)
LEMMA OneInsertFile ==
    ASSUME Serial, FInv, OneInv, NEW r \in Requests, InsertFile(r)
    PROVE  OneInv'
<1> DEFINE row == req[r].row
<1>1. Step(r) /\ Running(r) /\ End(r) /\ Fits(req[r]) /\ row \in Row /\ req[r].pc = "insert"
  BY RunningPc DEF Step, InsertFile, Request
<1>2. Current(r)' /\ req'[r].pc = "done"
  BY <1>1, EndedIsCurrent
<1>3. CASE UNCHANGED files
  BY <1>1, <1>2, <1>3, QuietStep DEF InsertFile
<1>4. CASE \E f \in FileIds \ deleted : ~Exists(f) /\ files' = [files EXCEPT ![f] = row]
  <2>1. PICK f \in FileIds \ deleted : ~Exists(f) /\ files' = [files EXCEPT ![f] = row]
    BY <1>4
  <2>2. /\ files'[f] = row /\ Exists(f)'
        /\ \A g \in FileIds : g # f => files'[g] = files[g] /\ (Exists(g)' <=> Exists(g))
    BY <1>1, <2>1, RowExists DEF FInv, TypeOK, Exists
  <2>3. row.size = row.content /\ UNCHANGED <<deleted, revs>> /\ revs[f] = <<>>
    BY <1>1, <2>1 DEF Fits, InsertFile, OneInv
  <2>4. \A o \in Requests \ {r} : ~Running(o) /\ req'[o] = req[o] /\ ~Running(o)'
    BY <1>1, Alone
  <2>5. FileLimit'
    <3> SUFFICES ASSUME FilesPerUser > 0, NEW u \in Users
                 PROVE  Cardinality(Owned(u)') <= FilesPerUser
      BY DEF FileLimit
    <3>1. IsFiniteSet(Owned(u))
      BY FS_Subset, FileIdsAssumption DEF Owned
    <3>2. CASE u = row.owner
      <4>1. Owned(u)' = Owned(u) \cup {f} /\ f \notin Owned(u)
        BY <2>1, <2>2, <3>2 DEF Owned
      <4>2. Cardinality(Owned(u)) < FilesPerUser
        BY <1>1, <3>2 DEF OneInv, Current
      <4>3. Cardinality(Owned(u) \cup {f}) = Cardinality(Owned(u)) + 1
        BY <3>1, <4>1, FS_AddElement
      <4>4. Cardinality(Owned(u)) \in Nat
        BY <3>1, FS_CardinalityType
      <4> QED
        BY <4>1, <4>2, <4>3, <4>4, LimitAssumption
    <3>3. CASE u # row.owner
      <4>1. Owned(u)' = Owned(u)
        BY <2>1, <2>2, <3>3 DEF Owned
      <4> QED
        BY <4>1 DEF OneInv, FileLimit
    <3> QED
      BY <3>2, <3>3
  <2>6. SizeIsContentSize'
    BY <2>2, <2>3 DEF OneInv, SizeIsContentSize
  <2>7. \A g \in FileIds : (~Exists(g))' => revs'[g] = <<>>
    BY <2>2, <2>3 DEF OneInv
  <2>8. \A o \in Requests : Current(o)'
    BY <1>2, <2>4 DEF Current, Running
  <2>9. \A g \in FileIds : Exists(g)' => Explained(revs'[g], files'[g].content)
    <3>1. \A o \in Requests : req[o].pc # "store"
      BY <1>1, <2>4 DEF Running
    <3>2. Explained(<<>>, files'[f].content)
      BY DEF Explained
    <3> QED
      BY <2>2, <2>3, <3>1, <3>2 DEF OneInv
  <2>10. \A o, p \in Requests : Running(o)' /\ Running(p)' => o = p
    BY <2>4
  <2> QED
    BY <2>5, <2>6, <2>7, <2>8, <2>9, <2>10 DEF OneInv
<1> QED
  BY <1>3, <1>4 DEF InsertFile

(* The revision leads from the content there is to the one to be stored.   *)
LEMMA OneAppendRevision ==
    ASSUME Serial, FInv, CInv, OneInv, NEW r \in Requests, AppendRevision(r)
    PROVE  OneInv'
<1> DEFINE f == req[r].file
           rev == [seq |-> NextSequence(revs[f]), from |-> req[r].old, to |-> req[r].row.content]
<1>1. /\ Step(r) /\ Running(r) /\ req[r] \in Request /\ req[r].pc = "append" /\ f \in FileIds
      /\ UNCHANGED <<files, deleted>>
  BY RunningPc DEF Step, AppendRevision, Fits
<1>2. \A o \in Requests \ {r} : ~Running(o) /\ req'[o] = req[o] /\ ~Running(o)'
  BY <1>1, Alone
<1>3. /\ Exists(f) /\ req[r].row.name = files[f].name
      /\ req[r].row.private = files[f].private /\ req[r].old = files[f].content
  BY <1>1 DEF OneInv, Current
<1>4. req'[r].pc = "store" /\ req'[r].file = f /\ req'[r].row = req[r].row
  BY <1>1 DEF AppendRevision, Goto, FInv, TypeOK, Request
<1>5. Explained(revs[f], files[f].content)
  <2>1. \A o \in Requests : req[o].pc # "store"
    BY <1>1, <1>2 DEF Running
  <2> QED
    BY <1>1, <1>3, <2>1 DEF OneInv
<1>6. Explained(revs'[f], req[r].row.content)
  <2>1. revs \in [FileIds -> Seq(Revision)] /\ Consecutive(revs[f])
    BY <1>1 DEF FInv, TypeOK, Revision, CInv
  <2>2. NextSequence(revs[f]) \in Nat \ {0}
    BY <1>1, <2>1, NumbersInterval
  <2>3. rev \in Revision /\ rev.from = files[f].content /\ rev.to = req[r].row.content
    BY <1>1, <1>3, <2>2 DEF Request, Row, Revision
  <2>4. revs'[f] = Pruned(Append(revs[f], rev))
    BY <1>1, <2>1 DEF AppendRevision
  <2> HIDE DEF rev
  <2>5. Explained(Append(revs[f], rev), req[r].row.content)
    BY <1>1, <1>5, <2>1, <2>3, ExplainedAppend
  <2>6. Append(revs[f], rev) \in Seq(Revision)
    BY <1>1, <2>1, <2>3
  <2> QED
    BY <2>4, <2>5, <2>6, ExplainedPruned
<1>7. \A g \in FileIds \ {f} : revs'[g] = revs[g]
  BY AppendEffect
<1>8. \A o \in Requests : Current(o)'
  BY <1>1, <1>2, <1>3, <1>4, <1>6 DEF Current, Exists, Running
<1>9. \A g \in FileIds \ {f} : Exists(g)' => Explained(revs'[g], files'[g].content)
  <2>1. \A o \in Requests : req[o].pc # "store"
    BY <1>1, <1>2 DEF Running
  <2> QED
    BY <1>1, <1>7, <2>1 DEF OneInv, Exists
<1>10. \A g \in FileIds :
          Exists(g)' /\ (\A o \in Requests : req'[o].pc = "store" => req'[o].file # g)
          => Explained(revs'[g], files'[g].content)
  BY <1>4, <1>9
<1>11. FileLimit' /\ SizeIsContentSize'
  BY <1>1 DEF OneInv, FileLimit, Owned, Exists, SizeIsContentSize
<1>12. \A g \in FileIds : (~Exists(g))' => revs'[g] = <<>>
  BY <1>1, <1>3, <1>7 DEF OneInv, Exists
<1>13. \A o, p \in Requests : Running(o)' /\ Running(p)' => o = p
  BY <1>2
<1> QED
  BY <1>8, <1>10, <1>11, <1>12, <1>13 DEF OneInv

(* A row is written over the one there is.                                 *)
LEMMA OneWrites ==
    ASSUME Serial, FInv, OneInv, NEW r \in Requests, Step(r), Running(r), End(r),
           NEW f \in FileIds, f = req[r].file, Exists(f),
           NEW row \in Row, row.owner = files[f].owner, row.size = row.content,
           Explained(revs[f], row.content),
           files' = [files EXCEPT ![f] = row], UNCHANGED <<deleted, revs>>
    PROVE  OneInv'
<1>1. \A o \in Requests \ {r} : ~Running(o) /\ req'[o] = req[o] /\ ~Running(o)'
  BY Alone
<1>2. Current(r)' /\ req'[r].pc = "done"
  BY EndedIsCurrent
<1>3. /\ files'[f] = row /\ Exists(f)'
      /\ \A g \in FileIds : g # f => files'[g] = files[g] /\ (Exists(g)' <=> Exists(g))
  BY RowExists DEF FInv, TypeOK, Exists
<1>4. FileLimit'
  <2>1. \A u \in Users : Owned(u)' = Owned(u)
    BY <1>3 DEF Owned
  <2> QED
    BY <2>1 DEF OneInv, FileLimit
<1>5. SizeIsContentSize' /\ \A g \in FileIds : (~Exists(g))' => revs'[g] = <<>>
  BY <1>3 DEF OneInv, SizeIsContentSize
<1>6. \A o \in Requests : Current(o)'
  BY <1>1, <1>2 DEF Current, Running
<1>7. \A g \in FileIds : Exists(g)' => Explained(revs'[g], files'[g].content)
  <2>1. ASSUME NEW g \in FileIds, g # f
        PROVE  \A o \in Requests : req[o].pc = "store" => req[o].file # g
    BY <1>1, <2>1 DEF Running
  <2> QED
    BY <1>3, <2>1 DEF OneInv
<1>8. \A o, p \in Requests : Running(o)' /\ Running(p)' => o = p
  BY <1>1
<1> QED
  BY <1>4, <1>5, <1>6, <1>7, <1>8 DEF OneInv

(* A content update alone: the index has no reason to refuse the name.     *)
LEMMA StoresContent ==
    ASSUME FInv, OneInv, NEW r \in Requests, StoreContent(r)
    PROVE  LET f == req[r].file IN
           /\ f \in FileIds /\ Exists(f) /\ req[r].row \in Row
           /\ req[r].row.owner = files[f].owner
           /\ req[r].row.name = files[f].name /\ req[r].row.private = files[f].private
           /\ req[r].row.size = req[r].row.content
           /\ Explained(revs[f], req[r].row.content)
           /\ files' = [files EXCEPT ![f] = req[r].row]
<1> DEFINE f == req[r].file
           row == req[r].row
<1>1. /\ Running(r) /\ req[r].pc = "store" /\ f \in FileIds /\ row \in Row
      /\ row.owner = req[r].user /\ row.size = row.content /\ StillOwned(req[r])
  BY RunningPc DEF StoreContent, Fits, Request
<1>2. /\ Exists(f) /\ row.name = files[f].name /\ row.private = files[f].private
      /\ Explained(revs[f], row.content)
  BY <1>1 DEF OneInv, Current
<1>3. row.owner = files[f].owner
  BY <1>1, <1>2 DEF StillOwned, FInv, DeletedStaysDeleted
<1>4. ~NameTaken(row.owner, row.name, f)
  BY <1>1, <1>2, <1>3 DEF NameTaken, Owned, FInv, NameUnique
<1> QED
  BY <1>1, <1>2, <1>3, <1>4 DEF StoreContent, Store

LEMMA OneStoreContent ==
    ASSUME Serial, FInv, OneInv, NEW r \in Requests, StoreContent(r)
    PROVE  OneInv'
<1>1. Step(r) /\ Running(r) /\ End(r) /\ UNCHANGED <<deleted, revs>>
  BY RunningPc DEF Step, StoreContent, Store
<1>2. PICK f \in FileIds, row \in Row : f = req[r].file /\ row = req[r].row
  BY StoresContent
<1> QED
  BY <1>1, <1>2, StoresContent, OneWrites

LEMMA OneStoreMetadata ==
    ASSUME Serial, FInv, OneInv, NEW r \in Requests, StoreMetadata(r)
    PROVE  OneInv'
<1> DEFINE f == req[r].file
           row == [req[r].row EXCEPT !.content = files[f].content]
<1>1. /\ Step(r) /\ Running(r) /\ End(r) /\ UNCHANGED <<deleted, revs>>
      /\ f \in FileIds /\ req[r].row \in Row /\ req[r].pc = "patch"
      /\ req[r].row.owner = req[r].user /\ StillOwned(req[r])
  BY RunningPc DEF Step, StoreMetadata, Store, Fits, Request
<1>2. Exists(f) /\ req[r].row.size = files[f].content
  BY <1>1 DEF OneInv, Current
<1>3. req[r].row.owner = files[f].owner /\ files[f].content \in Contents
  BY <1>1, <1>2, RowExists DEF StillOwned, FInv, DeletedStaysDeleted, Row
<1>4. CASE files' = files
  BY <1>1, <1>4, EndedIsCurrent, QuietStep
<1>5. CASE files' = [files EXCEPT ![f] = row]
  <2>1. /\ row \in Row /\ row.owner = files[f].owner
        /\ row.size = files[f].content /\ row.content = files[f].content
    BY <1>1, <1>2, <1>3 DEF Row
  <2>2. Explained(revs[f], files[f].content)
    <3>1. \A o \in Requests : req[o].pc # "store"
      BY <1>1, Alone DEF Running
    <3> QED
      BY <1>1, <1>2, <3>1 DEF OneInv
  <2>3. PICK g \in FileIds, new \in Row : g = f /\ new = row
    BY <1>1, <2>1
  <2> HIDE DEF row
  <2>4. new.size = new.content /\ new.owner = files[g].owner /\ Explained(revs[g], new.content)
    BY <2>1, <2>2, <2>3
  <2> QED
    BY <1>1, <1>2, <1>5, <2>3, <2>4, OneWrites
<1> QED
  BY <1>2, <1>4, <1>5 DEF StoreMetadata, Store

(* Fewer files, and none of them has left a revision.                      *)
LEMMA OneRemove ==
    ASSUME Serial, FInv, OneInv, NEW r \in Requests, Step(r), req[r].pc # "store",
           NEW F \in SUBSET FileIds, Remove(F), req'[r].pc = "done"
    PROVE  OneInv'
<1>1. \A o \in Requests \ {r} : ~Running(o) /\ req'[o] = req[o] /\ ~Running(o)'
  BY Alone
<1>2. /\ \A f \in F : files'[f] = NoFile /\ ~Exists(f)' /\ revs'[f] = <<>>
      /\ \A f \in FileIds \ F : /\ files'[f] = files[f] /\ (Exists(f)' <=> Exists(f))
                               /\ revs'[f] = revs[f]
  BY DEF Remove, Exists
<1>3. FileLimit'
  <2> SUFFICES ASSUME FilesPerUser > 0, NEW u \in Users
               PROVE  Cardinality(Owned(u)') <= FilesPerUser
    BY DEF FileLimit
  <2>1. IsFiniteSet(Owned(u))
    BY FS_Subset, FileIdsAssumption DEF Owned
  <2>2. Owned(u)' \subseteq Owned(u)
    BY <1>2 DEF Owned
  <2>3. IsFiniteSet(Owned(u)') /\ Cardinality(Owned(u)') <= Cardinality(Owned(u))
    BY <2>1, <2>2, FS_Subset
  <2>4. Cardinality(Owned(u)) \in Nat /\ Cardinality(Owned(u)') \in Nat
    BY <2>1, <2>3, FS_CardinalityType
  <2> QED
    BY <2>3, <2>4, LimitAssumption DEF OneInv, FileLimit
<1>4. SizeIsContentSize' /\ \A f \in FileIds : (~Exists(f))' => revs'[f] = <<>>
  BY <1>2 DEF OneInv, SizeIsContentSize
<1>5. \A o \in Requests : Current(o)'
  BY <1>1 DEF Current, Running
<1>6. \A f \in FileIds : Exists(f)' => Explained(revs'[f], files'[f].content)
  <2>1. \A o \in Requests : req[o].pc # "store"
    BY <1>1 DEF Running
  <2> QED
    BY <1>2, <2>1 DEF OneInv
<1>7. \A o, p \in Requests : Running(o)' /\ Running(p)' => o = p
  BY <1>1
<1> QED
  BY <1>3, <1>4, <1>5, <1>6, <1>7 DEF OneInv

LEMMA OneDelete ==
    ASSUME Serial, FInv, OneInv, NEW r \in Requests,
           DeleteFile(r) \/ \E u \in Users : DeleteByUser(r, u)
    PROVE  OneInv'
<1>1. Step(r)
  BY DEF Step
<1>2. CASE DeleteFile(r)
  <2>1. Running(r) /\ req[r].pc = "delete" /\ req[r].file \in FileIds /\ req'[r].pc = "done"
    BY <1>2, RunningPc, EndedIsCurrent DEF DeleteFile, Fits
  <2>2. PICK F \in SUBSET FileIds : F = {req[r].file}
    BY <2>1
  <2> QED
    BY <1>1, <1>2, <2>1, <2>2, OneRemove DEF DeleteFile, Remove
<1>3. ASSUME NEW u \in Users, DeleteByUser(r, u) PROVE OneInv'
  <2>1. req[r].pc = "idle" /\ req'[r].pc = "done"
    BY <1>3 DEF DeleteByUser, Arrives, Idle, FInv, TypeOK
  <2>2. PICK F \in SUBSET FileIds : F = Owned(u)
    BY DEF Owned
  <2>3. Remove(F)
    BY <1>3, <2>2 DEF DeleteByUser, Remove
  <2> QED
    BY <1>1, <2>1, <2>3, OneRemove
<1> QED
  BY <1>2, <1>3

LEMMA OneInit == Init => OneInv
<1> SUFFICES ASSUME Init PROVE OneInv
  OBVIOUS
<1>1. \A f \in FileIds : Exists(f) => files[f].size = files[f].content
  BY DEF Init, Exists, NewRow
<1>2. \A r \in Requests : req[r].pc = "idle"
  BY DEF Init, Idle
<1>3. \A f \in FileIds : revs[f] = <<>> /\ Len(revs[f]) = 0
  BY DEF Init
<1>4. \A f \in FileIds : Explained(revs[f], files[f].content)
  BY <1>3 DEF Explained
<1> QED
  BY <1>1, <1>2, <1>3, <1>4 DEF Init, OneInv, FileLimit, SizeIsContentSize, Current, Running

LEMMA OneNext == Serial /\ FInv /\ CInv /\ OneInv /\ [Next]_vars => OneInv'
<1> SUFFICES ASSUME Serial, FInv, CInv, OneInv, [Next]_vars PROVE OneInv'
  OBVIOUS
<1>1. CASE UNCHANGED vars
  BY <1>1 DEF vars, OneInv, Current, Running, FileLimit, Owned, Exists, SizeIsContentSize
<1>2. ASSUME NEW r \in Requests, Step(r) PROVE OneInv'
  <2>1. CASE \E u \in Users : CountFiles(r, u) \/ DeleteByUser(r, u)
    BY <2>1, OneCountFiles, OneDelete
  <2>2. CASE \E u \in Users, f \in FileIds :
               \/ \E c \in Contents : FindForContent(r, u, f, c)
               \/ FindForMetadata(r, u, f) \/ FindForDelete(r, u, f)
    BY <2>2, OneFindForContent, OneFindForMetadata, OneFindForDelete
  <2>3. CASE InsertFile(r) \/ AppendRevision(r) \/ StoreContent(r) \/ StoreMetadata(r)
                \/ DeleteFile(r)
    BY <2>3, OneInsertFile, OneAppendRevision, OneStoreContent, OneStoreMetadata, OneDelete
  <2>4. CASE ReadOld(r) \/ RevisionFails(r) \/ DetectType(r) \/ Cancel(r)
    BY <2>4, OneQuiet
  <2> QED
    BY <1>2, <2>1, <2>2, <2>3, <2>4 DEF Step, FindForMetadata
<1> QED
  BY <1>1, <1>2 DEF Next

(* One request at a time and no faults: the limit of files is kept, the    *)
(* size is the content's, a deleted file leaves no revision, and the       *)
(* revisions explain the content, after any number of requests.            *)
THEOREM SerialAsDocumented ==
    ASSUME InFlight = 1, Faults = FALSE
    PROVE  Spec => []AsDocumented
<1>1. Serial
  BY DEF Serial
<1>2. FInv /\ CInv /\ OneInv /\ [Next]_vars => OneInv'
  BY <1>1, OneNext
<1> QED
  BY <1>2, FInit, CInit, OneInit, FNext, CNext, OneImplies, PTL DEF Spec

(* One request at a time: an update of the content leaves the name and the *)
(* visibility as they are.                                                 *)
THEOREM SerialKeepsMetadata ==
    ASSUME InFlight = 1, Faults = FALSE
    PROVE  Spec => ContentUpdateKeepsMetadata
<1> DEFINE A == \A r \in Requests :
          req[r].pc = "store" /\ req'[r].pc = "done" /\ Exists(req[r].file)
          => LET f == req[r].file IN
             /\ files'[f].name = files[f].name
             /\ files'[f].private = files[f].private
<1>1. Serial
  BY DEF Serial
<1>2. FInv /\ CInv /\ OneInv /\ [Next]_vars => OneInv'
  BY <1>1, OneNext
<1>3. FInv /\ OneInv /\ [Next]_vars => [A]_vars
  <2> SUFFICES ASSUME FInv, OneInv, NEW q \in Requests, Step(q), NEW r \in Requests,
                      req[r].pc = "store", req'[r].pc = "done", Exists(req[r].file)
               PROVE  /\ files'[req[r].file].name = files[req[r].file].name
                      /\ files'[req[r].file].private = files[req[r].file].private
    BY DEF Next
  <2>1. r = q
    BY Forward
  <2>2. CASE StoreContent(r)
    <3> DEFINE f == req[r].file
    <3>1. /\ f \in FileIds /\ files' = [files EXCEPT ![f] = req[r].row]
          /\ req[r].row.name = files[f].name /\ req[r].row.private = files[f].private
      BY <2>2, StoresContent
    <3> QED
      BY <3>1 DEF FInv, TypeOK
  <2>3. CASE UNCHANGED files
    BY <2>3
  <2>4. Running(r) /\ ~Arrives(r)
    BY DEF Running, Arrives, Idle
  <2> QED
    BY <2>1, <2>2, <2>3, <2>4, Quiet DEF InsertFile, AppendRevision, StoreMetadata, DeleteFile,
       DeleteByUser
<1> QED
  BY <1>2, <1>3, FInit, CInit, OneInit, FNext, CNext, PTL DEF Spec, ContentUpdateKeepsMetadata
=============================================================================
