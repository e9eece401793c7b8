------------------------------- MODULE ApiKeys -------------------------------
(***************************************************************************)
(* API keys: how SSH sessions create and remove them, on both backends     *)
(* (ssh/apikey.go, db/*/api_keys.go), and how a web request is let in by   *)
(* one (WithAuthentication, web/middleware.go).  A session has signed in   *)
(* before (Accounts) and runs one command; between two calls of the        *)
(* database any other session or request may run.                          *)
(***************************************************************************)
EXTENDS Naturals, FiniteSets

CONSTANTS
    Sessions,    \* SSH sessions, each with one command
    Requests,    \* web requests with a bearer token
    Users,
    Names,       \* normalised names, those that EqualFold taken as one
    TTLs,        \* values of the flag -ttl; 0 is "never expires"
    Backends,    \* the DSN schemes a deployment may choose from
    MaxKeys,     \* SNIPS_LIMITS_APIKEYSPERUSER; 0 is "no limit"
    MaxTime,     \* bound on the clock
    MaxMinted,   \* bound on the number of keys ever created
    Faults       \* whether calls may fail and clients may go away

ASSUME LimitAssumption == MaxKeys \in Nat /\ MaxTime \in Nat \ {0} /\ MaxMinted \in Nat
ASSUME TTLsAssumption == TTLs \subseteq Nat
ASSUME BackendsAssumption == Backends \subseteq {"sqlite", "postgres"}

VARIABLES
    backend,
    now,         \* the clock
    minted,      \* number of keys created; they are identified in this order
    keys,        \* the rows of api_keys
    removed,     \* identifiers whose removal has been reported to a user
    cmd,         \* cmd[s]: the command of a session
    req          \* req[r]: the request and the copy of the row it found

vars == <<backend, now, minted, keys, removed, cmd, req>>

Ids == 1..MaxMinted

Row == [id : Ids, user : Users, name : Names, expires : Nat, used : BOOLEAN]

Owned(u) == {k \in keys : k.user = u}

\* APIKey.IsExpired: time.Now().After(*key.ExpiresAt)
IsExpired(k) == k.expires # 0 /\ now > k.expires

IdleCmd == [pc |-> "idle"]
IdleReq == [pc |-> "idle"]

TypeOK ==
    /\ backend \in Backends
    /\ now \in 1..MaxTime
    /\ minted \in 0..MaxMinted
    /\ keys \subseteq Row
    /\ removed \subseteq Ids
    /\ cmd \in [Sessions ->
          {IdleCmd} \cup
          [pc : {"create", "insert", "created", "limit", "failed"},
           user : Users, name : Names, expires : Nat] \cup
          [pc : {"delete", "removed", "failed"},
           user : Users, arg : Ids \cup Names, target : Ids]]
    /\ req \in [Requests ->
          {IdleReq} \cup
          [pc : {"check", "touch", "in", "expired", "failed"}, sent : 1..MaxTime, key : Row]]

Init ==
    /\ backend \in Backends
    /\ now = 1
    /\ minted = 0
    /\ keys = {}
    /\ removed = {}
    /\ cmd = [s \in Sessions |-> IdleCmd]
    /\ req = [r \in Requests |-> IdleReq]

Goto(s, label) == cmd' = [cmd EXCEPT ![s].pc = label]
Answer(r, label) == req' = [req EXCEPT ![r].pc = label]

-----------------------------------------------------------------------------
(* api-key create, and the settings view. *)

(* The token is minted and the expiry computed ...                         *)
CreateAPIKey(s, u, name, ttl) ==
    /\ cmd[s] = IdleCmd
    /\ cmd' = [cmd EXCEPT ![s] = [pc |-> "create", user |-> u, name |-> name,
                                  expires |-> IF ttl = 0 THEN 0 ELSE now + ttl]]
    /\ UNCHANGED <<backend, now, minted, keys, removed, req>>

(* Mutant: the identifier is used before it is drawn. *)
InsertWithoutId(s) ==
    /\ minted < MaxMinted
    /\ minted' = minted + 1
    /\ keys' = keys \cup {[id |-> 0, user |-> cmd[s].user, name |-> cmd[s].name,
                           expires |-> cmd[s].expires, used |-> FALSE]}
    /\ Goto(s, "created")

(* The row gets an identifier and a token hash of its own. *)
Insert(s) ==
    /\ minted < MaxMinted
    /\ minted' = minted + 1
    /\ keys' = keys \cup {[id |-> minted + 1, user |-> cmd[s].user, name |-> cmd[s].name,
                           expires |-> cmd[s].expires, used |-> FALSE]}
    /\ Goto(s, "created")

\* Mutant: count <= maxKeys.
BelowOrAtLimit(u) == MaxKeys > 0 => Cardinality(Owned(u)) <= MaxKeys

BelowLimit(u) == MaxKeys > 0 => Cardinality(Owned(u)) < MaxKeys

(* SQLite: INSERT ... SELECT ... WHERE (SELECT COUNT( * ) ...) < ?         *)
CreateCounting(s) ==
    /\ backend = "sqlite"
    /\ cmd[s].pc = "create"
    /\ IF BelowLimit(cmd[s].user)
         THEN Insert(s)
         ELSE Goto(s, "limit") /\ UNCHANGED <<minted, keys>>
    /\ UNCHANGED <<backend, now, removed, req>>

(* PostgreSQL: SELECT COUNT( * ), in a READ COMMITTED transaction ...      *)
CountKeys(s) ==
    /\ backend = "postgres"
    /\ cmd[s].pc = "create"
    /\ Goto(s, IF BelowLimit(cmd[s].user) THEN "insert" ELSE "limit")
    /\ UNCHANGED <<backend, now, minted, keys, removed, req>>

(* ... and INSERT, COMMIT.                                                 *)
InsertKey(s) ==
    /\ cmd[s].pc = "insert"
    /\ Insert(s)
    /\ UNCHANGED <<backend, now, removed, req>>

-----------------------------------------------------------------------------
(* api-key rm; in the settings view the argument is the selected key's     *)
(* identifier, armed by a first x and deleted by the second.               *)

Matches(k, arg) == k.id = arg \/ k.name = arg

(* FindByUser, newest first, and the first row that matches.               *)
RemoveAPIKey(s, u, arg) ==
    LET found == {k \in Owned(u) : Matches(k, arg)} IN
    /\ cmd[s] = IdleCmd
    /\ \E k \in found :
          /\ \A l \in found : l.id <= k.id
          /\ cmd' = [cmd EXCEPT ![s] = [pc |-> "delete", user |-> u, arg |-> arg,
                                        target |-> k.id]]
    /\ UNCHANGED <<backend, now, minted, keys, removed, req>>

(* Mutant: DELETE ... WHERE name = (the name of the target). *)
DeleteByName(s) ==
    LET hit == {k \in Owned(cmd[s].user) :
                   \E l \in keys : l.id = cmd[s].target /\ l.name = k.name} IN
    /\ cmd[s].pc = "delete"
    /\ keys' = keys \ hit
    /\ removed' = removed \cup {k.id : k \in hit}
    /\ Goto(s, IF hit = {} THEN "failed" ELSE "removed")
    /\ UNCHANGED <<backend, now, minted, req>>

(* DELETE FROM api_keys WHERE id = ? AND user_id = ?                       *)
Delete(s) ==
    LET hit == {k \in Owned(cmd[s].user) : k.id = cmd[s].target} IN
    /\ cmd[s].pc = "delete"
    /\ keys' = keys \ hit
    /\ removed' = removed \cup {k.id : k \in hit}
    /\ Goto(s, IF hit = {} THEN "failed" ELSE "removed")
    /\ UNCHANGED <<backend, now, minted, req>>

(* A call fails, or the session ends. *)
Cancel(s) ==
    /\ Faults
    /\ cmd[s].pc \in {"create", "insert", "delete"}
    /\ Goto(s, "failed")
    /\ UNCHANGED <<backend, now, minted, keys, removed, req>>

-----------------------------------------------------------------------------
(* WithAuthentication. *)

(* FindByTokenHash: a copy of the row, or 401 at once. *)
FindByTokenHash(r) ==
    /\ req[r] = IdleReq
    /\ \E k \in keys : req' = [req EXCEPT ![r] = [pc |-> "check", sent |-> now, key |-> k]]
    /\ UNCHANGED <<backend, now, minted, keys, removed, cmd>>

(* Mutant: the key lives until the end of the next unit of time. *)
CheckExpiryLate(r) ==
    /\ req[r].pc = "check"
    /\ Answer(r, IF req[r].key.expires # 0 /\ now > req[r].key.expires + 1 THEN "expired" ELSE "touch")
    /\ UNCHANGED <<backend, now, minted, keys, removed, cmd>>

CheckExpiry(r) ==
    /\ req[r].pc = "check"
    /\ Answer(r, IF IsExpired(req[r].key) THEN "expired" ELSE "touch")
    /\ UNCHANGED <<backend, now, minted, keys, removed, cmd>>

(* Mutant: the copy is saved with an upsert. *)
TouchUpserting(r) ==
    /\ req[r].pc = "touch"
    /\ keys' = {k \in keys : k.id # req[r].key.id} \cup {[req[r].key EXCEPT !.used = TRUE]}
    /\ Answer(r, "in")
    /\ UNCHANGED <<backend, now, minted, removed, cmd>>

(* UPDATE api_keys SET last_used_at = ? WHERE id = ?                       *)
Touch(r) ==
    /\ req[r].pc = "touch"
    /\ keys' = {IF k.id = req[r].key.id THEN [k EXCEPT !.used = TRUE] ELSE k : k \in keys}
    /\ Answer(r, "in")
    /\ UNCHANGED <<backend, now, minted, removed, cmd>>

(* An error of Touch is logged, and the handler called all the same.       *)
TouchFails(r) ==
    /\ Faults
    /\ req[r].pc = "touch"
    /\ Answer(r, "in")
    /\ UNCHANGED <<backend, now, minted, keys, removed, cmd>>

Tick ==
    /\ now < MaxTime
    /\ now' = now + 1
    /\ UNCHANGED <<backend, minted, keys, removed, cmd, req>>

Next ==
    \/ \E s \in Sessions :
          \/ \E u \in Users :
                \/ \E name \in Names, ttl \in TTLs : CreateAPIKey(s, u, name, ttl)
                \/ \E arg \in Ids \cup Names : RemoveAPIKey(s, u, arg)
          \/ CreateCounting(s) \/ CountKeys(s) \/ InsertKey(s) \/ Delete(s) \/ Cancel(s)
    \/ \E r \in Requests :
          FindByTokenHash(r) \/ CheckExpiry(r) \/ Touch(r) \/ TouchFails(r)
    \/ Tick

Spec == Init /\ [][Next]_vars

-----------------------------------------------------------------------------
(* Properties. *)

(* db.go, APIKeys.Create: on SQLite, which counts and inserts in one       *)
(* statement, no interleaving takes a user beyond the limit.               *)
KeyLimit ==
    backend = "sqlite" /\ MaxKeys > 0 =>
        \A u \in Users : Cardinality(Owned(u)) <= MaxKeys

(* Once a user has been told that a key is removed it is not there, and    *)
(* nothing under way brings it back, such as the touch of a request that   *)
(* found it before.                                                        *)
RemovedStaysRemoved == \A k \in keys : k.id \notin removed

(* A step takes away one key at most, and that is one of the user who      *)
(* asked for it by its name or identifier, however many share the name.    *)
RemovesWhatWasAsked ==
    [][\A k \in keys :
          (\A l \in keys' : l.id # k.id) =>
              \E s \in Sessions :
                  /\ cmd[s].pc = "delete" /\ cmd'[s].pc = "removed"
                  /\ cmd[s].user = k.user /\ cmd[s].target = k.id
                  /\ Matches(k, cmd[s].arg)]_vars

(* A request that was sent after a key's expiry is not let in by it,       *)
(* although it is checked on a copy of the row and some time later.        *)
ExpiredStaysOut ==
    \A r \in Requests :
        req[r].pc = "in" /\ req[r].key.expires # 0 => req[r].sent <= req[r].key.expires
=============================================================================
