------------------------------- MODULE Reading --------------------------------
(***************************************************************************)
(* What a reader of a file is shown: the pages of web/ui.go, the reading   *)
(* operations of web/api.go and the download over SSH (ssh/handler.go).    *)
(* An answer is made of several reads, each a query of its own, between    *)
(* which the owner may store another content, change the visibility or the *)
(* name, or delete the file.  A private file is shown to its owner, and to *)
(* anybody who opens a signed URL in time (snips/file.go, signer.go).      *)
(*                                                                         *)
(* Contents are numbered in the order in which they are stored.            *)
(***************************************************************************)
EXTENDS Durations, FiniteSets

CONSTANTS
    MaxVersion,  \* bound on the number of contents stored
    Limits,      \* what SNIPS_LIMITS_REVISIONSPERFILE may be set to; 0 is "no limit"
    Second,      \* clock ticks, which are those of Durations, in a second
    MaxTime,     \* bound on the clock
    MaxLinks,    \* bound on the number of signed URLs
    Magic        \* the contents that begin with the zstd magic number

Versions == 1..MaxVersion

ASSUME ReadingAssumption ==
    /\ MaxVersion \in Nat \ {0} /\ MaxTime \in Nat
    /\ Limits \subseteq Nat
    /\ Second \in Nat \ {0} /\ MaxLinks \in Nat
    /\ Magic \subseteq Versions

VARIABLES
    now,         \* the clock
    file,        \* the row of the file, with its stored content
    revs,        \* the numbers of its revisions
    updates,     \* content updates between their revision and their content
    links,       \* the signed URLs made
    exposed,     \* the contents the file has had while it was public
    req,         \* the request being answered, and what it has read
    limit,       \* cfg.Limits.RevisionsPerFile
    limits       \* history: the limits there have been so far

limiting == <<limit, limits>>
owned == <<file, revs, updates, exposed, limiting>>
vars == <<now, owned, links, req>>

NoFile == [version |-> 0]

(* rev is the revision made with the content, 0 if it could not be made;   *)
(* disguised a content stored as it is that begins like a compressed one.  *)
Row == [version : Versions, rev : 0..MaxVersion, disguised : BOOLEAN, private : BOOLEAN]

Exists == file # NoFile

NoLink == [exp |-> 0, promised |-> 0, wraps |-> FALSE]

\* exp is in seconds, as in the URL; promised on the clock, as the text said.
Link == [exp : Int, promised : Int, wraps : BOOLEAN]

(* What is asked for.  Pages are the web's, an entire content in one query *)
(* is the API's; the others are answered by both.                          *)
Kinds == {"metadata", "page", "raw", "revisions", "diff", "content"}
ByWeb == {"metadata", "page", "raw", "revisions", "diff"}
ByUser == {"metadata", "raw", "revisions", "diff"}

NoReq == [pc |-> "idle"]

Nothing == 0
Garbled == MaxVersion + 1
Undecodable == MaxVersion + 2

Requests ==
    [pc : {"content", "count", "list", "revision", "diff",
           "answered", "missing", "refused", "error"},
     kind : Kinds, who : {"owner", "anyone"}, link : Link,
     at : 0..MaxTime, private : BOOLEAN, hidden : BOOLEAN,
     stored : 0..MaxVersion, shown : 0..(MaxVersion + 1), rev : 0..MaxVersion,
     disguised : BOOLEAN, asked : 0..MaxVersion, count : 0..MaxVersion,
     counted : BOOLEAN]

TypeOK ==
    /\ now \in 0..MaxTime
    /\ file \in Row \cup {NoFile}
    /\ revs \subseteq Versions
    /\ updates \subseteq [rev : 0..MaxVersion, private : BOOLEAN]
    /\ links \subseteq Link
    /\ exposed \subseteq Versions
    /\ req \in {NoReq} \cup Requests
    /\ limit \in Limits /\ limits \subseteq Limits

Expose(row) == IF row # NoFile /\ ~row.private THEN exposed \cup {row.version} ELSE exposed

Init ==
    /\ now = 0
    /\ file \in [version : {1}, rev : {0}, disguised : BOOLEAN, private : BOOLEAN]
    /\ file.disguised => 1 \in Magic
    /\ revs = {}
    /\ updates = {}
    /\ links = {}
    /\ exposed = IF file.private THEN {} ELSE {1}
    /\ req = NoReq
    /\ limit \in Limits /\ limits = {limit}

-----------------------------------------------------------------------------
(* The owner.  FileService has the requests these steps are the effects    *)
(* of; files.UpdateContent is two of them.                                 *)

Latest(S) == IF S = {} THEN 0 ELSE CHOOSE n \in S : \A m \in S : m <= n

Newest(S, n) == {k \in S : Cardinality({m \in S : m > k}) < n}

(* A content update finds the file, and a revision is made, or its         *)
(* transaction fails, which is only logged.                                *)
(* (Revisions made after the file was deleted are in FileService: no       *)
(* reader finds their file.)                                               *)
AppendRevision ==
    LET all == revs \cup {Latest(revs) + 1}
        failed == [rev |-> 0, private |-> file.private] IN
    /\ Exists
    /\ file.version + Cardinality(updates) < MaxVersion
    /\ Latest(revs) < MaxVersion
    /\ \/ /\ revs' = IF limit = 0 THEN all ELSE Newest(all, limit)
          /\ updates' = updates \cup {[rev |-> Latest(revs) + 1, private |-> file.private]}
       \/ /\ failed \notin updates
          /\ updates' = updates \cup {failed}
          /\ UNCHANGED revs
    /\ UNCHANGED <<now, file, exposed, links, req, limiting>>

\* EncodeContent, with or without compression.
Disguised(version, compress) == ~compress /\ version \in Magic

(* The request being answered learns that the file was hidden meanwhile.   *)
Hide(private) ==
    req' = IF req # NoReq /\ private /\ ~file.private THEN [req EXCEPT !.hidden = TRUE] ELSE req

(* Mutant: the content is stored before its revision is made.              *)
StoreContentFirst(u, compress) ==
    /\ Exists
    /\ u = [rev |-> Latest(revs) + 1, private |-> file.private]
    /\ file.version < MaxVersion
    /\ file' = [file EXCEPT !.version = @ + 1, !.rev = u.rev]
    /\ exposed' = Expose(file')
    /\ UNCHANGED <<now, revs, updates, links, req, limiting>>

(* Files.UpdateContent writes the visibility of the copy as well.  Whether *)
(* to compress is a matter of the DSN, which a restart may change.         *)
StoreContent(u, compress) ==
    /\ u \in updates
    /\ updates' = updates \ {u}
    /\ IF Exists
         THEN /\ file' = [version |-> file.version + 1, rev |-> u.rev, private |-> u.private,
                          disguised |-> Disguised(file.version + 1, compress)]
              /\ Hide(u.private)
         ELSE UNCHANGED <<file, req>>
    /\ exposed' = Expose(file')
    /\ UNCHANGED <<now, revs, links, limiting>>

(* Files.Update. *)
SetPrivate(private) ==
    /\ Exists
    /\ file.private # private
    /\ file' = [file EXCEPT !.private = private]
    /\ exposed' = Expose(file')
    /\ Hide(private)
    /\ UNCHANGED <<now, revs, updates, links, limiting>>

DeleteFile ==
    /\ Exists
    /\ file' = NoFile
    /\ revs' = {}
    /\ UNCHANGED <<now, updates, exposed, links, req, limiting>>

(* The configuration is read again, and the limit may be another one.      *)
Restart(n) ==
    /\ updates' = {}
    /\ req' = NoReq
    /\ limit' = n
    /\ limits' = limits \cup {n}
    /\ UNCHANGED <<now, file, revs, exposed, links>>

Tick ==
    /\ now < MaxTime
    /\ now' = now + 1
    /\ UNCHANGED <<owned, links, req>>

-----------------------------------------------------------------------------
(* Signed URLs. *)

(* SignURLWithTTL: the URL holds the expiry in seconds.                    *)
SignURLWithTTL(ttl) ==
    [exp |-> (now + ttl.parsed) \div Second, promised |-> now + ttl.written,
     wraps |-> ttl.wraps]

(* The lifetimes the sign command accepts; the API's whole seconds and the *)
(* positive ones of an upload and of the prompt are among them.            *)
TTLs == {r \in Readings : r.parsed # Invalid /\ r.parsed # 0}

(* SessionHandler.SignFile, API.SignFile. *)
SignFile(ttl) ==
    /\ Exists
    /\ file.private
    /\ Cardinality(links) < MaxLinks
    /\ links' = links \cup {SignURLWithTTL(ttl)}
    /\ UNCHANGED <<now, owned, req>>

(* VerifyURLAndNotExpired, of a URL with a signature. *)
NotExpired(link) == link # NoLink /\ link.exp > now \div Second

-----------------------------------------------------------------------------
(* A request begins with the lookup of the file and the test whether it    *)
(* may be shown.                                                           *)

(* UI.findFile and the test of File, Revisions, RevisionDiff and OGImage;  *)
(* API.findFile; SessionHandler.FileRequest.                               *)
Admits(who, link) ==
    /\ Exists
    /\ ~file.private \/ who = "owner" \/ NotExpired(link)

(* Mutant: who may not see a private file learns that it is there.         *)
RefusalForbidden == IF Exists THEN "forbidden" ELSE "missing"

(* Both are a 404. *)
Refusal == IF Exists THEN "refused" ELSE "missing"

NextRead(kind) == CASE kind = "metadata" -> "answered"
                    [] kind \in {"page", "raw"} -> "content"
                    [] kind = "revisions" -> "list"
                    [] OTHER -> "revision"

Asked(kind, who, link, number) ==
    [pc |-> "refused", kind |-> kind, who |-> who, link |-> link,
     at |-> IF link = NoLink THEN 0 ELSE now,
     private |-> FALSE, hidden |-> FALSE, stored |-> Nothing, shown |-> Nothing,
     rev |-> 0, disguised |-> FALSE, asked |-> number, count |-> 0, counted |-> FALSE]

(* (A URL with another name than the row's is not found either.)           *)
FindFile(kind, who, link, number) ==
    /\ req = NoReq
    /\ req' = IF Admits(who, link)
                THEN [Asked(kind, who, link, number) EXCEPT !.pc = NextRead(kind),
                                                            !.private = file.private]
                ELSE [Asked(kind, who, link, number) EXCEPT !.pc = Refusal]
    /\ UNCHANGED <<now, owned, links>>

(* Over the web.  GetSignedURL signs the URL of the file's page only.      *)
(* (Who signs in and is not the owner is shown what anyone is.)            *)
Visit(kind, link, number) ==
    /\ kind \in {"page", "raw"} \/ link = NoLink
    /\ kind # "diff" => number = 1
    /\ FindFile(kind, "anyone", link, number)

\* By the owner, over SSH or with an API key.
Request(kind, number) ==
    /\ kind # "diff" => number = 1
    /\ FindFile(kind, "owner", NoLink, number)

Goto(label) == req' = [req EXCEPT !.pc = label]

(* Mutant: what is not known to be compressed is not returned.             *)
DecodedIfCompressed(row) == {row.version, Garbled}

(* DecodeContent: what is not compressed but looks so cannot be decoded,   *)
(* or becomes something else.                                              *)
Decoded(row) ==
    IF row.disguised THEN {Garbled, Undecodable} ELSE {row.version}

(* The content that was read, or an error.                                 *)
Show(request, pc, row) ==
    \E c \in Decoded(row) :
        req' = IF c = Undecodable
                 THEN [request EXCEPT !.pc = "error"]
                 ELSE [request EXCEPT !.pc = pc, !.shown = c, !.stored = row.version,
                                  !.rev = row.rev, !.disguised = row.disguised]

(* The page links to its raw content: q of the signed URL, its expiry      *)
(* included, signed again.                                                 *)
RawHref == {req.link}

(* Files.FindContent.  Of a file deleted meanwhile it returns nothing, and *)
(* no error.                                                               *)
FindContent ==
    /\ req.pc = "content"
    /\ LET next == IF req.kind = "page" THEN "count" ELSE "answered" IN
       IF Exists THEN Show(req, next, file) ELSE Goto(next)
    /\ links' = IF req.kind = "page" /\ req.link # NoLink /\ Exists THEN links \cup RawHref ELSE links
    /\ UNCHANGED <<now, owned>>

(* Mutant: the file and its content are read one after the other.          *)
FindWithContentInTwo(who) ==
    /\ req = NoReq
    /\ Admits(who, NoLink)
    /\ req' = [Asked("content", who, NoLink, 1) EXCEPT !.pc = "content", !.private = file.private]
    /\ UNCHANGED <<now, owned, links>>

(* API.GetFileContent: one query, then the test. *)
FindWithContent(who) ==
    /\ req = NoReq
    /\ Admits(who, NoLink)
    /\ Show([Asked("content", who, NoLink, 1) EXCEPT !.private = file.private], "answered", file)
    /\ UNCHANGED <<now, owned, links>>

(* UI.File after its content: Revisions.CountByFileID, and the page.  That *)
(* the count failed is only logged, and the page says 0.                   *)
CountRevisions ==
    /\ req.pc = "count"
    /\ \E counted \in BOOLEAN :
          req' = [req EXCEPT !.pc = "answered", !.counted = counted,
                             !.count = IF counted THEN Cardinality(revs) ELSE 0]
    /\ UNCHANGED <<now, owned, links>>

(* UI.Revisions, the first page of API.ListRevisions.                      *)
ListRevisions ==
    /\ req.pc = "list"
    /\ req' = [req EXCEPT !.pc = "answered", !.count = Cardinality(revs)]
    /\ UNCHANGED <<now, owned, links>>

(* FindByFileIDAndSequence of UI.RevisionDiff and API.GetRevision ...      *)
FindRevision ==
    /\ req.pc = "revision"
    /\ Goto(IF req.asked \in revs THEN "diff" ELSE "missing")
    /\ UNCHANGED <<now, owned, links>>

(* ... and FindDiff, of which a revision pruned meanwhile has none.        *)
FindDiff ==
    /\ req.pc = "diff"
    /\ req' = [req EXCEPT !.pc = "answered",
                          !.shown = IF req.asked \in revs THEN req.asked ELSE Nothing]
    /\ UNCHANGED <<now, owned, links>>

\* The reader has seen the answer, or went away before it came.
Leave ==
    /\ req # NoReq
    /\ req' = NoReq
    /\ UNCHANGED <<now, owned, links>>

-----------------------------------------------------------------------------
Next ==
    \/ AppendRevision
    \/ \E rev \in 0..MaxVersion, private, compress \in BOOLEAN :
          StoreContent([rev |-> rev, private |-> private], compress)
    \/ \E private \in BOOLEAN : SetPrivate(private)
    \/ DeleteFile \/ Tick
    \/ \E n \in Limits : Restart(n)
    \/ \E ttl \in TTLs : SignFile(ttl)
    \/ \E kind \in ByWeb, link \in links \cup {NoLink}, number \in Versions :
          Visit(kind, link, number)
    \/ \E kind \in ByUser, number \in Versions : Request(kind, number)
    \/ \E who \in {"owner", "anyone"} : FindWithContent(who)
    \/ FindContent \/ CountRevisions
    \/ ListRevisions \/ FindRevision \/ FindDiff \/ Leave

Spec == Init /\ [][Next]_vars

-----------------------------------------------------------------------------
ReadContent == req # NoReq /\ req.pc = "answered" /\ req.kind \in {"page", "raw", "content"}

(* Who is neither the owner nor holds a signed URL sees no content that    *)
(* was private all the time it was the file's.  The API's single query     *)
(* keeps this whatever happens; a page looks at the visibility in one      *)
(* query and reads the content in another, and keeps it unless the owner   *)
(* makes the file private between the two.                                 *)
OutsiderSawPublic ==
    ReadContent /\ req.who # "owner" /\ ~req.private /\ req.stored # Nothing =>
        req.stored \in exposed \/ (req.kind # "content" /\ req.hidden)

(* The count on a page is read after the content, and a revision is made   *)
(* before its content is stored: a page whose revisions were counted never *)
(* shows a content and fewer revisions than led to it, unless they were    *)
(* pruned, and then not fewer than some limit there has been.  A count     *)
(* that failed is shown as 0.                                              *)
CountCoversContent ==
    ReadContent /\ req.kind = "page" /\ req.stored # Nothing /\ Exists /\ req.counted =>
        \/ req.count >= req.rev
        \/ \E n \in limits \ {0} : req.count >= n

(* A signed URL, and the one to the raw content that its page makes of it, *)
(* opens a private file until the time the text of its lifetime named,     *)
(* never after it, and ceases less than a second before.  Texts that hit   *)
(* the one sum ParseDuration does not see wrapping around are left out.    *)
LinkAsPromised ==
    req # NoReq /\ req.link # NoLink /\ ~req.link.wraps =>
        /\ req.pc \notin {"missing", "refused"} /\ req.private =>
              req.at < req.link.promised
        /\ req.pc = "refused" => req.at > req.link.promised - Second

(* A content comes back as it was stored, whatever the DSN asks for now    *)
(* and asked for then, but for one stored uncompressed that begins like a  *)
(* compressed one; and an answer is empty only when the file, or the       *)
(* revision, has gone since it was found.                                  *)
AnswersAreTrue ==
    /\ ReadContent =>
          \/ req.shown = req.stored
          \/ req.disguised
    /\ ReadContent /\ req.stored = Nothing => ~Exists
    /\ req # NoReq /\ req.pc = "answered" /\ req.kind = "diff" =>
          req.shown = req.asked \/ (req.shown = Nothing /\ req.asked \notin revs)
=============================================================================
