# snips.sh in TLA+

snips.sh is a pastebin reached over SSH: `cat f | ssh snips.sh` uploads a file,
`ssh f:<id>@snips.sh` works on it, `ssh snips.sh` opens a terminal interface, and
a web server shows the files and offers a REST API.  Both servers run in one Go
process on one database, SQLite or PostgreSQL.  There is next to no shared state
in memory: everything that several sessions or requests touch is in the
database, and almost everything that can go wrong between them goes wrong
because a handler makes several database calls, each a transaction of its own.
The modules here are about those sequences of calls.

Contents: [the system](#the-system) · [the modules](#the-modules) ·
[what the runs show](#what-the-runs-show) · [bounds and fairness](#bounds) ·
[the proofs](#the-proofs) · [findings](#findings) ·
[not modelled](#what-is-not-modelled) · [plan](#plan)

Paths in this file are relative to `src/`.

## The system

Inventory of the parts, the state each keeps, its operations, whom it talks to,
what is hard about it, and what makes it correct.

**Revision history** (`internal/db/{sqlite,postgres}/revisions.go`).  State: the
rows of `revisions` (file, sequence number, diff).  Operations: `Create` (one
transaction: select the next number, insert, prune beyond the limit), reads.
Called by content updates; its rows are deleted by `Files.Delete` and
`DeleteByUser`.  Hard: two transactions that have read the same maximum; SQLite has
no unique index on the number and PostgreSQL has, so each depends on something
else for uniqueness; prune and insert cross; lock upgrades.  Correct when numbers
are unique, the retained ones have no gap, a transaction acts as one step, and
no call waits for ever.

**Files** (`internal/db/{sqlite,postgres}/files.go`).  State: the rows of `files`
(owner, name, visibility, type, size, content); a unique index on the owner and
the case-folded name.  Operations: `Create` (count, insert), `Update` (all the
columns but the content), `UpdateContent` (content, size, type, and the name
and visibility of the copy it is given), `Delete`, `DeleteByUser`, `Find*`.
Hard: every writer writes back a copy it read in an earlier call; count and
insert are two statements.  Correct when names are unique, the limit holds, the
columns describe one version, and a late write does not revive a deleted file.

**Content updates** (`internal/files/files.go`, `UpdateContent`).  No state of its
own; find the old content, diff, `Revisions.Create`, `Files.UpdateContent`, three
transactions.  Hard: a failed `Create` is only logged; a crash, a disconnect or
another update between the calls.  Correct when the revisions lead from one
content to the next and the last of them to the present one.

**SSH file handlers** (`internal/ssh/handler.go`, `flags.go`, `scp.go`).  Upload,
content update, rename, delete after a confirmation, sign, download; they look
the file up and check its owner first and act several calls later.

**Web API** (`internal/web/api.go`, `middleware.go`).  Create, patch (name,
visibility, type), content update, delete, lists, reads, signed URLs; bearer
tokens.  The same sequences as over SSH, with the request's context.

**Readers** (`internal/web/ui.go`, the reads of `api.go`, the download in
`internal/ssh/handler.go`).  Answers made of several queries (a file, its content, the count
of its revisions), visibility and signed access.  Hard: the owner stores, hides,
renames or deletes between two queries.  Correct when nobody is shown what was never
his to see, and the parts of an answer fit together.

**TUI** (`internal/tui`).  A view stack, the selected file as a copy in memory that
the options window and the prompt share, prompts that update, rename, toggle, delete;
settings (theme, API keys, delete everything).  Bubble Tea runs commands
concurrently and delivers their messages in any order, between keys that do not wait
for them.  Correct when a prompt acts on the file it was opened for, nothing
is published or deleted that the user did not ask for, and what is shown catches
up with what was done.

**Accounts** (`internal/ssh/middleware.go`, `internal/db/*/users.go`,
`public_keys.go`).  A first connection creates a user and a public key in one
transaction; the allow list.  Hard: two first connections with one key.

**API keys** (`internal/db/*/api_keys.go`, `internal/ssh/apikey.go`).  Create with a
limit (one statement in SQLite, two in PostgreSQL), expiry, touch, removal by
identifier or name from a list read before.

**Lists and pagination** (`internal/db/pagination.go`, `sqlite.go`).  Offset pages in
SQLite, keyset pages in PostgreSQL, while rows come and go.

**Lifetimes and signed URLs** (`internal/timeutil`, `internal/signer`,
`internal/snips/file.go`).  A text such as `1w2d` becomes nanoseconds in 64 bits, is
added to the clock, cut to seconds in the URL, and handed on to the link of the raw
content.  Hard: wrapping products, rounding twice.

**Stored form of contents** (`internal/snips/compress.go`).  Compressed or not as the DSN
says at the time of writing; told apart by a magic number at the time of reading.

**Names** (`internal/snips/name.go`).  A check of characters and a length.

**Process** (`internal/app/app.go`, `internal/config`).  Boot, migrations, the two
listeners, shutdown with a deadline, limits from the environment: a restart may
change the limits and loses every open transaction.

Interactions: SSH handlers, API and TUI call Files, content updates and API keys
through the `db.DB` interface and share nothing else; content updates call Files
and Revisions; the history is bound to a file only by its identifier (no
foreign key is enforced in SQLite).

## The modules

| module | what it is |
|---|---|
| `RevisionLog` | what the history promises: every transaction one step (abstract) |
| `RevisionTx` | `Revisions.Create` and `Files.Delete` statement by statement on both backends; implements `RevisionLog` |
| `FileService` | every request that changes files, database call by database call; implements `RevisionLog` too |
| `Accounts` | who a connection signs in as; the first connection of a key, statement by statement |
| `ApiKeys` | creation and removal of API keys on both backends, and the requests they let in |
| `Listing` | the lists of files and revisions, page after page, while rows come and go |
| `Durations` | `ParseDuration` in integers of a given width, beside what the text says |
| `Reading` | what a reader is shown, query by query, with signed URLs; extends `Durations` |
| `SettingsView` | the settings window: its pages, the creation and the armed deletion of API keys |
| `Tui` | a session's terminal interface, its messages in any order; extends `SettingsView` |
| `MC...` | instances for TLC, one for each module with a specification |
| `SequenceSets` | lemmas on finite sets of numbers: next number, newest k, no gaps, induction up to a bound; that what is defined step by step exists |
| `RevisionTx_proofs` | unique numbers, no gaps, and the refinement of `RevisionLog`, proved |
| `Accounts_proofs` | whole accounts, one user per key, proved |
| `ApiKeys_proofs` | the limit, removals and expiry of API keys, proved |
| `FileService_proofs` | names, deletions, sizes, owners, the refinement of `RevisionLog`, one request at a time, proved |
| `Listing_proofs` | keyset pages descend; what is skipped, missed and repeated, proved |
| `Reading_proofs` | `ParseDuration` reads what is written; what readers are shown, proved |
| `Tui_proofs` | the stack of views, the prompt's file, consent, the list, the second `x`, proved |

**`RevisionTx` against the code.**  An element of `Creates` or `Deletes` is one call
of the database interface, which runs its transaction once; `pc` is the statement
it ran last; `seq[c]` the number its SELECT returned; `gone[t]` the rows its
DELETE took, visible to others only after the commit; `stored` the committed rows.
A row is named by the call that inserted it, so two rows with one number stay
two rows, which is what makes `SequenceUnique` a question.  `Select`, `Insert` /
`InsertFails`, `Prune`, `BeginCommit` / `CommitCreate` are the statements of `Create`
in order; `DeleteRevisions`, `CommitDelete` those of `Delete`.  `Rollback` is any
statement failing (busy timeout, I/O, a cancelled context), `Restart` the end of
the process and its start with another limit.

The databases are not in this repository and are modelled from how the code
uses them.  SQLite: the default rollback journal, a deferred `BEGIN`, one
RESERVED lock; a SELECT takes SHARED; an upgrade from SHARED to RESERVED while
another connection holds RESERVED fails at once, without the busy handler; a
committer takes PENDING, which stops new readers, and waits for the old
ones.  PostgreSQL: READ COMMITTED, a statement waits for rows
that an open transaction deleted, an insert waits for an uncommitted row with
its key and fails when that row is committed.  A DELETE that has waited goes on
with the rows it saw at its begin, where `Prune` looks again: what others have deleted
meanwhile are the oldest rows, so that of an existing file the same ones are left.

**`FileService` against the code.**  A request is an SSH session or an HTTP request
with one operation; `req[r].pc` is the database call it makes next and
`req[r].row` the copy of the row it holds meanwhile.  Between two calls any other
request may run.  `upload`: `CountFiles`, `InsertFile`.  Content:
`FindForContent` (find, owner, type detection), `ReadOld` (`FindContent`, diff),
`AppendRevision` / `RevisionFails`, `StoreContent`.  Metadata: `FindForPatch`
(PATCH), `RenameFile` (SSH and prompt), `ToggleVisibility`, `FindForExtension`
(prompts), then `DetectType` where the handler reads the content, and `StoreMetadata`.
Delete: `FindForDelete`, the confirmation, `DeleteFile`; `DeleteByUser` from the
settings, one step as it is on SQLite: on PostgreSQL a revision committed between its two statements
stays behind, as one does that comes after.  `Cancel` is a declined confirmation, a disconnect, a failing
call, a stop of the server.

Contents are model values; the size of a content is represented by the content
itself, as the size of which the column holds, so two contents never have one
size.  A type is "text" or "binary", all that the code's control looks at.
`Names` are normalised names and `Fold` their folding by the index.  A
revision records the two contents its diff leads from and to.  Creation times
and identifiers are not modelled beyond being fresh.

**`Accounts` against the code.**  A connection is a run of the SSH middleware:
`Block` and `FindByFingerprint` are `WithAuthorizedKeys` and the lookup of
`AssignUser`; `InsertUser`, `InsertPublicKey` / `PublicKeyExists` and `Commit` the
statements of `Users.CreateWithPublicKey`; `FindUser` the other branch.  SQLite lets
one transaction write, PostgreSQL's unique index makes an insert wait for an
uncommitted row with its fingerprint.  `Restart` ends every connection and may change
the allow list.  Connecting again is another element of `Sessions`.

**`ApiKeys` against the code.**  A session runs one command, create or remove, a
request authenticates once.  `CreateAPIKey` computes the row; `CreateCounting` is
SQLite's one statement, `CountKeys` and `InsertKey` PostgreSQL's two.  `RemoveAPIKey`
lists the user's keys and picks the newest that matches, `Delete` deletes by
identifier and user.  `FindByTokenHash`, `CheckExpiry`, `Touch` / `TouchFails` are
`WithAuthentication`, with the row it found as a copy and the clock free to move in
between.  Tokens and hashes are the key's identifier: a token nobody has is refused
without touching anything.  Names are compared as `EqualFold` does, so
`Names` holds one of each class.  Keys are numbered in the order of `created_at`.

**`Listing` against the code.**  A row is its key, the newest being the largest: the identity
column of PostgreSQL, `created_at` and `id` in SQLite.  `BeginCreate` draws the key,
`CommitCreate` makes the row visible, so two uploads may appear in the other order;
`AppendRevision` inserts and prunes as `RevisionTx` shows it does, in one step.
`ListPage` is `API.ListFiles` or, after `FindFile`, `API.ListRevisions`: a query of one row more
than the page holds (`Window`), the page, and `NextCursor` if there was one row more.
Both halves of the cursor are kept: SQLite uses `offset`, PostgreSQL `id` (`After`: no row
compares with a subquery that finds nothing).  `start`, `came`, `gone` and
`cut` are history for the properties.

**`Reading` against the code.**  One file; contents are numbered in the order they are
stored.  A request is one reader: `FindFile` with its test `Admits`, then `FindContent`,
`CountRevisions`, `ListRevisions`, `FindRevision` and `FindDiff` as its kind needs them,
each a query, with anything in between; `FindWithContent` is the API's single
query.  The owner's steps are the effects of the requests of `FileService`:
`AppendRevision` and `StoreContent` (with the visibility of the copy),
`SetPrivate`, `DeleteFile`.  `CountRevisions` may fail, which the page shows as 0; `Restart` may set
another limit, and `limits` remembers those there have been.  `SignFile` draws any lifetime that some text of
`Durations` parses to; a link is its expiry in seconds, as in the URL, beside
the time the text named.  `Disguised` is a content stored as it is that begins with the magic
number, of which `Decoded` makes garbage or an error.

**`Durations` against the code.**  A text is a sign and terms; `AddTerm` is one turn of the loop of
`ParseDuration` with its four tests and its wrapping product and sum; `Written` is the same
sum in integers without a width.

**`SettingsView` and `Tui` against the code.**  `flight` is the bag of the commands and messages
under way.  A key is handled at once, by the view on top of `stack`, and adds to `flight`; a
`Handle...` action is `TUI.Update` with one message, whichever comes next; `LoadFile` and
`ReloadFiles` are the commands that call the database, whose message takes
their place.  `copy` is the file the prompt and the options window point to, one struct in the
code.  A prompt's `submit` calls the database before it returns, so that
`SubmitDelete`, `SubmitEdit`, `SubmitVisibility`, `SubmitSign` and `Refuse` are one step each; so are the
keys of the settings window.  `KindSetMsg` and the feedback go to the view on top only,
`FileLoaded` and `ReloadFiles` to all of them, as in `TUI.Update`.  `index` is the cursor of the options
window, over the options that `Offered` finds for the copy; `PressOptionOverrun` is `opts[o.index]` out of
range, as `HandlePop` of the last view is the index into an empty stack.  `Kill` is the session's end
from outside.  `Elsewhere` is whatever another session or an API request does to a file: it makes it
public or private, deletes it, or uploads it.  `ours` are the files nobody else has changed since
this session did, `asked` those of which the user's last yes was to make them public.

`RevisionTx` and `FileService` meet in `RevisionLog`: `RevisionTx` shows that a
`Create` is one atomic step or none although its statements are interleaved, and
`FileService` uses that step (`AppendRevision`, with `RevisionFails` for the
calls that `RevisionTx` shows can fail) inside longer requests.  Both
check their own history against the same abstract log.  `Listing` and `Reading` take that
step, and the effects of `FileService`'s requests, as the steps of the writers
beside a reader; `Tui` takes the calls of its prompts, which `FileService` has
call by call, as one step each.

## What the runs show

| run | question | result |
|---|---|---|
| `revision_tx` | Do interleaved `Create`s and a `Delete` act one at a time? | `TypeOK`, `SequenceUnique`, `Contiguous`, `ImplementsLog`, `EveryCallReturns` hold |
| `file_service` | What survives any interleaving of requests, failing calls and disconnects? | `TypeOK`, `NameUnique`, `DeletedStaysDeleted`, `SizeHonest`, `OwnerOnly`, `ImplementsLog` hold |
| `file_serial` | Does what the documentation says hold for one request at a time? | `AsDocumented` (the limit, the size, no revisions of deleted files, a history that explains the content), `ContentUpdateKeepsMetadata` hold |
| `accounts` | What do concurrent first connections leave behind? | `TypeOK`, `WholeAccounts`, `SameKeySameUser`, `RefusedCanRetry`, `AccountsStay`, `EveryConnectionAnswered` hold |
| `api_keys` | Who is let in by which key, and what is a removal worth? | `TypeOK`, `KeyLimit`, `RemovedStaysRemoved`, `ExpiredStaysOut`, `RemovesWhatWasAsked` hold |
| `listing` | What does a client get that pages through a list in motion? | `TypeOK`, `KeysetDescends`, `NothingSkipped`, `DriftIsBounded`, `QuietListingExact` hold |
| `reading` | What is shown to whom, and do the parts of an answer fit? | `TypeOK`, `OutsiderSawPublic`, `CountCoversContent`, `LinkAsPromised`, `AnswersAreTrue` hold |
| `tui` | What comes of messages in any order and keys that do not wait? | `TypeOK`, `PanicOnlyWhenRushed`, `ActsOnChosen`, `CaughtUp`, `DeletedOnSecondX`, `PublishedByConsent` hold |
| `revision_lost` | Does each update create a revision? | no: see [findings](#findings) |
| `file_limit` | Does the limit hold for two uploads at once? | no |
| `file_size` | Is the size that of the content, whatever crosses? | no |
| `file_orphan` | Are the revisions of a deleted file gone? | no |

`SequenceUnique` is the property with the least support in the code: SQLite's schema
has a plain index on `(file_id, sequence)`, so that uniqueness rests on the lock
upgrade failing, and PostgreSQL's readers of one maximum are told apart only by the
unique index.  `Contiguous` relates a stale number, an insert that waits and a
prune of another transaction.  `SizeHonest` says how far the size column can
be trusted: it is wrong only for a file on which a content and a metadata update
were both made.  `OwnerOnly` is an action property over the whole sequence: a file
changes, or gets a revision, only in a step of a request its present owner made.
`AsDocumented` and `ContentUpdateKeepsMetadata` are about one request at a time without faults: they show
that the sequence of calls is right when nothing comes between, and say nothing of what
happens when something does.

`RefusedCanRetry` is what makes the unfriendly end of a race harmless: whoever is
refused because the account is there is let in by the next try, and never is
anybody refused on account of a transaction that rolls back.  `KeyLimit` is claimed for
SQLite only; PostgreSQL's count and insert let two sessions past the limit, the
same pattern as in `file_limit`.  `RemovedStaysRemoved` is about the copy of the row a
request found, `RemovesWhatWasAsked` about a list read before the delete.

`NothingSkipped` says where a list in motion can be relied on, and why: of
revisions always, although the row of the cursor may be pruned, because all
behind it are pruned then as well; of files only by key and only if no cursor's file was
deleted.  `DriftIsBounded` is what is left for offsets: a row is missed or
repeated only for a row that went or came.

`OutsiderSawPublic` allows what the code cannot prevent: a page tests the visibility in
one query and reads in the next, so when the owner hides the file between the two it shows
whatever content is stored by then; the API's single query shows none.  `CountCoversContent`
depends on two orders in two packages, the revision before its content in `files.UpdateContent`, the
content before the count in `UI.File`; it is about counts that succeed, as one that fails is shown
as 0, and since a restart may raise the limit it falls back on any limit there has been.  `LinkAsPromised` follows a lifetime from its text
through int64 nanoseconds and two roundings to the test that opens the file.

`PanicOnlyWhenRushed`, `ActsOnChosen` and `CaughtUp` say what the message passing is worth.  Each
holds under a condition that the code needs: remove it, and TLC shows the hazard
(see [findings](#findings)).  `PanicOnlyWhenRushed` names for each of the two panics the key that was too
early: a user who waits until windows have opened and closed, dialogs are set and the list is
reloaded sees neither.  `CaughtUp` is about the files that only this session has changed since it did: the
list is not told of what others do, and is reloaded after this session's own changes only.  It leaves out the
options window of a file that was chosen while another was loading.

`PublishedByConsent` says what a yes is worth.  Whatever order messages come in and whatever fails, the
session makes a private file public only if the user's last yes about that file was to make it public.  It
claims this of files that nobody else has changed: of one that others made private, any prompt of a session
that opened it while it was public writes it public again, with no yes at all.  That is an
observation of its own (see [findings](#findings)), not something the property covers.
`DeletedOnSecondX` leaves out the keys that the settings never see.

<a name="bounds"></a>
## Bounds and fairness

`revision_tx`: three `Create`s and one `Delete` on one file and one `Create` on a
second file, limits 0, 1 and 2, both backends, with rollbacks and restarts into
any other limit.  Two calls are needed for every conflict over a number, a
third for a row committed between a stale read and its insert and for a
prune at limit 2 to meet an insert; a fourth file-mate adds nothing another order of
three does not.  The second file is there for SQLite's locks, which are of the
database, and for a SELECT that would forget the file.

`file_service`: three requests of which two overlap (`InFlight`), two users, two
files, one name in two spellings, one text and one binary content, one revision
retained, at most two files per user.  A conflict needs two requests; the third
sees what the two left.  Initial files may be there already, of any owner.

`file_serial`: four requests one after the other, three contents, two revisions
retained, one file per user: enough to fill the history, prune it, skip a binary
version and return to text.

`accounts`: three connections, each with either of two keys, allow lists that let all
or one key in, both backends, failures and restarts.  Two connections race, a third
comes before, between or after.

`api_keys`: three sessions, so that one creates and two remove, or two create and one
removes; two users, two names, a limit of one, keys that never expire or
after one unit of a clock of three, one request.  The bound on minted keys is never
reached by three sessions.

`listing`: five keys, pages of one and two rows (mixed, as the client may change `limit`
between two pages), three revisions retained.  Three pages can have a row each
with two to spare, a page's extra row can come or go, and the prune can take the row of
the cursor while the list is read.

`reading`: three contents, so that one can be stored between two reads of a request that saw an
older one; limits of none, one and two revisions, among which restarts choose, so that a prune comes between
too and a limit rises or falls under a page; the second content is the one that looks compressed.
Arithmetic has three bits (`Half` is 4), units of 1
and 2, numbers 1, 4 and 5 and up to three terms: enough for each test of the loop to be
the only one that refuses a text, for 2^63 exactly, and for its negation.  A second is two
ticks, so expiries fall within one; one link is enough, as the one its page makes of it is the same.
`CONSTRAINT Answering` does not
follow states in which a request has its answer: nobody else sees that it has, the link of a page is
made with the content before it, and the states after it are those without the request.  `Linked`
follows links and the clock under one limit and up to the second content only: no link depends on what is counted.

`tui`: a user with a private and a public file, one with a file of either kind, one with a file and an API key, and one with an API key and an
identifier to spare; three commands and messages under way at once, and one key pressed while any are.  Choosing a file
starts three, so every order of them is there; one key too early is what
an impatient user can do to any of them.  More of them, and more messages, is what the theorems of
`Tui_proofs` are about: two conditions of its properties are needed only beyond these bounds.  `VIEW Shape` leaves out what no later step and no property reads (see the
comments in `MCTui`); `CONSTRAINT Followed` follows a run in which a key was too early until nothing is under
way, after which its properties promise less, and further where the second panic may come of it.  Files are interchangeable (`SYMMETRY`).

Others make one change of a file, at any point: enough for a copy, a list or an options window to be out of
date.  `CONSTRAINT Separate` follows it for a user of one file and no API keys, as long as no key was pressed too
early; the theorems have all of it at once.

Requests, files and users are interchangeable, which the runs of
`FileService` use as symmetry, as `api_keys` does for sessions and users; the runs with a symmetry, a view or a constraint check
no liveness.  No module's system
has to go on for ever: requests end, so deadlock is not checked.  That nobody hangs is
`EveryCallReturns` and `EveryConnectionAnswered`, in the modules that have the locks.

Fairness is weak and per call or connection: a goroutine that began a transaction goes on with
its next statement when the database lets it.  No fairness is given to calls being
made, to errors, or to restarts.  It is the Go scheduler's promise, and no
action of `RevisionTx` or `Accounts` needs more: an insert that would wait for a lock while it
holds one fails instead, and a committer only waits for transactions that
go on themselves.

## The proofs

Proved by TLAPS for every value of the constants (files, calls, limits, connections, keys,
rows, page sizes), either backend, with and without faults:

* `TypeCorrect`, `UniqueNumbers` (`RevisionTx_proofs`): `Spec => []TypeOK` and
  `Spec => []SequenceUnique`.
* `NoGaps`, `Implements` (`RevisionTx_proofs`): `Spec => []Contiguous`, and
  `Spec => ImplementsLog`, the refinement of `RevisionLog`.
* `TypeCorrect`, `AccountsWhole`, `OneKeyOneUser`, `RefusedMayReturn`, `KeysStay`
  (`Accounts_proofs`): `Spec => []TypeOK`, `[]WholeAccounts`, `[]SameKeySameUser`,
  `[]RefusedCanRetry`, and `Spec => AccountsStay`, for any number of connections and keys.
* `TypeCorrect`, `LimitHolds`, `RemovedForGood`, `ExpiredIsRefused`, `RemovedAsAsked` (`ApiKeys_proofs`):
  `Spec => []TypeOK`, `[]KeyLimit`, `[]RemovedStaysRemoved`, `[]ExpiredStaysOut`, and
  `Spec => RemovesWhatWasAsked`, for any number of sessions, requests and keys.
* `TypeCorrect`, `UniqueNames`, `StaysDeleted`, `SizesHonest`, `OnlyOwners`, `FilesImplementLog`
  (`FileService_proofs`): `Spec => []TypeOK`, `[]NameUnique`, `[]DeletedStaysDeleted`, `[]SizeHonest`,
  `Spec => OwnerOnly` and `Spec => ImplementsLog`, for any requests, users, files, names and contents.
* `SerialAsDocumented`, `SerialKeepsMetadata` (`FileService_proofs`): of one request at a time without
  faults, `Spec => []AsDocumented` and `Spec => ContentUpdateKeepsMetadata`.
* `TypeCorrect`, `KeysDescend`, `NoRowSkipped`, `DriftBounded`, `QuietExact` (`Listing_proofs`):
  `Spec => []TypeOK`, `[]KeysetDescends`, `[]NothingSkipped`, `[]DriftIsBounded` and
  `[]QuietListingExact`, for tables and pages of any size.
* `ReadAsWritten` (`Reading_proofs`): a text that `ParseDuration` accepts is read as it is
  written or meets `Wraps`, for any width of the integers, any units and numbers, any number of terms.
* `TypeCorrect`, `OutsidersSeePublic`, `CountsCover`, `LinksKeepPromises`, `AnswersTrue`
  (`Reading_proofs`): `Spec => []TypeOK`, `[]OutsiderSawPublic`, `[]CountCoversContent`,
  `[]LinkAsPromised` and `[]AnswersAreTrue`, for any contents, limits, links and clocks.
* `TypeCorrect`, `PanicsOnlyWhenRushed`, `PromptActsOnChosen`, `PublicByConsent`, `QuietIsCaughtUp`,
  `SecondXDeletes` (`Tui_proofs`): `Spec => []TypeOK`, `[]PanicOnlyWhenRushed`, `[]ActsOnChosen`,
  `[]CaughtUp`, `Spec => PublishedByConsent` and `Spec => DeletedOnSecondX`, for any files and API keys, any
  number of messages under way (`MaxFlight`), of keys pressed meanwhile (`MaxHasty`) and of changes by
  others (`MaxElsewhere`).

They assume what the modules' ASSUMEs say: a call is a `Create` or a `Delete` and
not both, it has one file, limits are naturals, pages have at least a row, backends are the
two there are.  `FileIdsAssumption`: a new file's identifier is not one of an old
file, and identifiers are finitely many, as they are of bounded length.  `UnitsAssumption`: a unit of time is positive
and less than half the range of an integer, as a week is less than 2^63 nanoseconds.
`NoFileAssumption`: what the prompt has before a file was chosen is not a file.
`Creates`, `Requests` and `Sessions` need not be finite, nor need the files of a session.  The two theorems of single requests have
`InFlight = 1` and `Faults = FALSE` as hypotheses: they are the values of the run `file_serial`, and
the runs `file_limit`, `file_size` and `file_orphan` show what happens without the first.

*Uniqueness.*  `UInv` strengthens it.  `OneWriter` and `Snapshot` are SQLite's side: one
transaction writes, and none commits while another has read, so that the number
of an open transaction stays above every committed one until it commits or fails.
`KeysFree` is what either backend comes to: once a row is inserted, nobody else has its
number, stored or about to be.

*No gaps.*  On PostgreSQL a number may be out of date when it is inserted.  `HInv`
adds `Flight`: an open transaction of an existing file is in one of three
situations.  Its number is the next one; or somebody else has stored that number, and
the INSERT will fail; or the number was stored and pruned again since, and then
the table is at its limit and the transaction prunes the row it inserts and nothing
else.  `PrunedOK` says that the rows a transaction has pruned are those it would still
prune, `GoneOK` that they are of its file.  `SequenceSets` has the facts about finite
sets of numbered rows this comes down to: which rows are beyond the limit, that
the newest k are k, that taking the oldest from a row of numbers makes no gap.

*Refinement.*  Every statement but a commit is a stutter of `RevisionLog`, `CommitCreate`
is `Append` (or, of a number that was pruned since, a stutter), `CommitDelete` is
`Remove`, `Restart` is `Reconfigure`.  `Flight` supplies that the number is still the
next one at the commit, which is what makes the transaction atomic.

*Accounts.*  `AInv` says what a connection holds (`Held`: a user that is not committed and
nobody else's, a public key without a committed row; or the user of its key) and
that two open transactions hold neither one user nor one key (`Apart`).  A commit
is then the only step that touches the tables, and adds a new pair.

*API keys.*  `KInv` adds what makes copies harmless.  `RowsFit`: an identifier is one row's and is never
drawn again, so a touch by identifier meets the row that was found or none.  `CmdFits`: the row a
session has chosen is the one it asked for, as long as it is there.  `ReqFits`: a request is
checked no earlier than it was sent.  That a touch does not change how many keys a user has
needs that it maps rows to rows; that an insert keeps the limit needs that count and insert are one
step, which on PostgreSQL they are not.

*Lists.*  `LInv` adds `Behind`: a client that will ask for another page on PostgreSQL
holds the identifier of a row it was given, and was given nothing older.  Rows that come and go leave
that alone, so the one step to look at is `ListPage`: what it reads is older than
the cursor, its page is not empty when there is more (a set of rows has a newest
one), and so has an oldest row, which is the next cursor.

*Rows counted.*  `CountsInv` adds what has been counted by the middle of a list.  `Passed` are the
rows the cursor is past, `Rest` those it is not: a page is the newest of `Rest`, and the next cursor
has passed the page and what was passed before (`PassedNext`).  `NoneSkipped`, `ExactSoFar` and `DriftSoFar`
are the three properties said of the rows passed so far.  For the drift, a row's `Place` is
how many are newer: a row that comes or goes moves every other row's place by one at most, so one
row at most crosses the offset.  If it crosses unread it is `Overlooked`; if it was read it is
`Due` to be read again.  A row returned t times was pushed back by t - 1 new rows, which bounds how often.
`Books` keeps new rows apart from those that were listed: no key is used twice.

*Files.*  `FInv` says that a request's copy is of a file that is still its user's, or deleted
(`StillOwned`), and that the copy fits the operation (`Fits`).  That a handler looks the file up and
checks its owner several calls before it writes is then enough: files never change owners, and an
update of a deleted file finds no row.  `CInv` adds that revisions have consecutive numbers, from which each step
maps to `RevisionLog`.  `SInv` is about sizes: a file that only one kind of update was made of has the right size,
and so has the copy that a metadata update will write back.  `OneInv` holds of one request at a time: its
copy is `Current` at each call, and the revisions explain the content, except between the revision and
the content of an update.

*Readers.*  `RInv` has two parts.  `Store`: the revisions kept are the last ones made, as many as the least of the
limits there have been at least, a content's revision is made before it is stored, and a link holds the second
in which its lifetime ends.  `RequestOK`: at each
of a request's queries, what it has read so far is related to what is stored by now.
`Outsider` and `Count` are where the order of the queries matters.

*Durations.*  `ParseDuration` is a loop; `LoopExists` (`SequenceSets`) shows that the recursive function that models it is defined,
and `ReadAsWritten` goes by induction over the terms read, which is done with
the least element of a set of numbers (`InductionTo` in `SequenceSets`).  The tests of
`AddTerm` keep the sum below the wrap; the exception is the one sum of `Wraps`.

*Terminal interface.*  A message that is under way is a promise about the state it will be handled in, and
`TInv` says which.  `PopsFit`: unless a key crossed it, a pop is the only one under way, finds a view
below the one it takes, and no reload is under way that takes that view first; so a key that sends a
pop sees a stack nobody is about to change.  `LoadsChosen`: unless loads cross, every load under way is of
the file chosen last, and the copy has that file when none is.  `ItemsFresh`: the list on its way shows
the database, others' changes aside, and the list shown does or will be replaced.  `OptionsFit`: where an options window is, or
is on its way, for a file that this session deleted, a reload is under way, and no push with it that
would put the window back.  These and `Grounded`, that the browser is below all, are `Core`.  `Care` is about
the prompt.  `PromptFits`: unless a key crossed a push or a `KindSetMsg`, a prompt is on top wherever it
is, so that the options window does not take a key while a dialog could still change the copy.
`IndexFits`: its cursor is on an option, and will be when the copy has become public: only the dialog for
the visibility makes it that, and the option that opens it has a place in the shorter list as well.  `AllConsented`: unless a key
crossed a load, the copy and the messages that will become it make a private file public by the
user's yes only.  `ArmedByX` is the settings' own: what is armed is what the last `x` chose.  Most handlers
leave most of this alone, and each of the groups in `Tui_proofs` says why once; the bag `flight` enters
by two lemmas, on adding the messages of a key and on replacing one message (`KeyAdds`, `BecomeTakes`).
`Dropped` (what `dropView` leaves) goes by induction on the views, `SelectedListed` (the cursor selects a
row) by the facts on numbered rows that the prune of revisions rests on.

TLC checked the inductive invariants of `RevisionTx`, `ApiKeys`, `Listing`, `FileService`, `Reading` and `Tui`
on the instances of their runs before they were proved.  Only model-checked: the
liveness properties `EveryCallReturns` and `EveryConnectionAnswered` (they need ENABLED).

## Findings

Each of these is a run that ends in a counterexample to a sentence of the documentation.

* `revision_lost`: "Each update creates a revision with a unified diff"
  (`docs/usage.md`).  Two updates at once make one `Revisions.Create` fail with no
  fault anywhere: SQLite refuses the lock upgrade, PostgreSQL the duplicate
  number.  `files.UpdateContent` logs it and reports success.
* `file_limit`: two uploads count before either inserts, and the user has
  one file more than `SNIPS_LIMITS_FILESPERUSER`.
* `file_size`: a rename that found the file before a content update and
  stores it after writes the old size over the new one.
* `file_orphan`: a content update inserts a revision of a file deleted meanwhile;
  nobody can reach it and nothing removes it.

`HistoryExplainsContent` and `ContentUpdateKeepsMetadata` fail too when requests
overlap, for the same reason: a handler stores a copy it read calls ago.

What else the modules showed is in the conditions of their properties.  There is no run for it.  One contradicts
the documentation, the others no sentence of the repository:

* On PostgreSQL a list whose cursor names a file deleted since ends there: the
  page is empty and has no `next_cursor`, although files are left.  `internal/web/openapi.yaml:62` says
  "when more files exist, the response carries `next_cursor`", and line 488 calls a page without it
  the last.  `NothingSkipped` leaves these lists out (`cut`); without that condition TLC finds one.
* `esc` pressed twice before the first `PopView` was handled, or while `ReloadFiles` takes the options
  window out of the stack, pops the last view; `TUI.View` then indexes an empty stack
  (`rushed` in `PanicOnlyWhenRushed`; `internal/tui/tui.go:256`).
* The options window keeps its index while a prompt above it changes the copy the two share.  `enter` on
  "toggle visibility" and `down` before the prompt has opened, `yes`, an update that fails, `esc` and
  `enter`: the copy is public and has an option less, and `opts[o.index]` is out of range
  (`PressOptionOverrun`; `internal/tui/views/options/options.go:124`).
* A prompt writes every column from the copy it has had since the file was chosen.  A file that was opened while it was
  public and made private by an API request since is made public again by a rename
  (`ours` in `PublishedByConsent`; `internal/tui/views/prompt/rename.go:51`).
* A count of revisions that fails is only logged, and the page says there are none
  (`counted` in `CountCoversContent`; `internal/web/ui.go:320`).
* `KindSetMsg` goes to the current view only: when it overtakes the `PushView` it was sent with, the
  prompt opens without a question.
* Two files chosen one after the other whose loads cross leave the prompt with the first
  (`crossed` in `ActsOnChosen`).
* A change of visibility or extension that fails stays in the copy, and the next rename
  writes it (`internal/tui/views/prompt/visibility.go:49`); `enter` twice before the feedback has come
  changes the visibility and changes it back.
* `ctrl+p` and `ctrl+c` are taken before the page of the API keys sees them, so `x`, then such a
  key, then `x` before its message is handled, deletes.  So does an `x` after keys for a window that opened
  over the settings and was closed again, as these keys go to that window
  (`pressed` in `DeletedOnSecondX`; `internal/tui/views/settings/apikeys.go:100`).
* A file that is chosen twice and deleted in between may be loaded by the older command after the
  options window of the second choice has opened, which then stays, with the deleted file, when all is quiet
  (`crossed` in `CaughtUp`).  This and the last were found where a proof of the property without
  its condition failed; TLC then found them with four messages under way and several hasty keys.
* A sum of exactly 2^63 and a term of exactly 2^63 nanoseconds wraps to 0, which the test after the
  addition lets pass (`internal/timeutil/duration.go:217`; `Wraps`).
* A limit of 0 keys is "no limit" in the databases and no keys at all in the terminal
  (`internal/tui/views/settings/apikeys.go:115`).

## What is not modelled

* Rendering, Open Graph images, assets, the scripts of the pages: formatting of what was read.
  Logging, metrics, styles; random identifiers are taken to be fresh.
* Of the terminal: what other sessions do to the API keys while the settings are open; the names and types of
  files, which prompts write back like the visibility (`FileService` has them); drawing, window sizes, the browser's filter and cursor (any listed
  file may be chosen), scrolling a file, which theme is selected.
* The strength of the HMAC: a URL that nobody signed does not verify.
* Lexical errors of durations and of names; requests refused for their parameters
  (a 400 or its like) before anything is read.
* Sizes of contents, and with them the limits on uploads (`internal/web/api.go:133`).
* Boot, the two listeners and the order of a shutdown: a stop is a step of the modules it
  interrupts (`Restart`, `Kill`, `Cancel`).  The migrations are run by goose before a listener opens.
* The databases and the libraries themselves, except as external definitions.  Other
  processes on the same database: the deployment is one process.

## Plan

In this order; each module with its instance, its runs and its mutants.

1. Done: `RevisionLog`, `RevisionTx`, `FileService`, `Accounts`, `ApiKeys`, `Listing`, `Durations`,
   `Reading`, `SettingsView`, `Tui`, with their instances.
2. Left: a module `Lifecycle` of boot, the two listeners and the shutdown with its deadline while
   requests run, if more is to be said of it than that a stop may come at any statement.

Every safety property of a passing run is a theorem.  What is left to prove is liveness, which needs a prover that
has ENABLED.
