------------------------------ MODULE Accounts ------------------------------
(***************************************************************************)
(* Who an SSH connection signs in as: the middleware WithAuthorizedKeys    *)
(* and AssignUser, and the transaction of Users.CreateWithPublicKey,       *)
(* statement by statement (ssh/middleware.go, db/*/users.go).              *)
(*                                                                         *)
(* A user is created by the first connection with a public key.  Nothing   *)
(* in the process keeps two first connections with one key apart.          *)
(***************************************************************************)
EXTENDS Naturals, FiniteSets

CONSTANTS
    Sessions,     \* SSH connections
    Fingerprints, \* of the public keys that connect
    UserIds,      \* identifiers that id.New may return
    NoUser,
    Backends,     \* the DSN schemes a deployment may choose from
    AllowLists,   \* values of SNIPS_SSH_AUTHORIZEDKEYS; {} lets everyone in
    Faults        \* whether calls may fail and the process may be stopped

ASSUME NoUserAssumption == NoUser \notin UserIds
ASSUME BackendsAssumption == Backends \subseteq {"sqlite", "postgres"}
ASSUME AllowListsAssumption == AllowLists \subseteq SUBSET Fingerprints

VARIABLES
    backend,
    allowed,      \* the allow list of this process
    users,        \* committed rows of users
    publicKeys,   \* publicKeys[k]: user_id of the committed row with fingerprint k
    conn          \* conn[s]: where a connection is, its key and its user

vars == <<backend, allowed, users, publicKeys, conn>>

pc(s)   == conn[s].pc
key(s)  == conn[s].key
user(s) == conn[s].user

(* A connection in the middle of AssignUser, and in its transaction.       *)
Running(s) == pc(s) \in {"create", "user", "key", "find"}
InTx(s)    == pc(s) \in {"user", "key"}

TypeOK ==
    /\ backend \in Backends
    /\ allowed \in AllowLists
    /\ users \subseteq UserIds
    /\ publicKeys \in [Fingerprints -> UserIds \cup {NoUser}]
    /\ conn \in [Sessions -> [pc : {"idle", "blocked", "create", "user", "key", "find",
                                    "in", "refused", "closed"},
                              key : Fingerprints, user : UserIds \cup {NoUser}]]

Init ==
    /\ backend \in Backends
    /\ allowed \in AllowLists
    /\ users = {}
    /\ publicKeys = [k \in Fingerprints |-> NoUser]
    /\ conn \in [Sessions -> [pc : {"idle"}, key : Fingerprints, user : {NoUser}]]

-----------------------------------------------------------------------------
\* Another transaction has written to the database.  SQLite lets one write.
CanWrite(s) == backend = "sqlite" => \A t \in Sessions \ {s} : ~InTx(t)

\* PostgreSQL's unique index waits for an uncommitted row with the same key.
UncommittedTwin(s) == \E t \in Sessions \ {s} : pc(t) = "key" /\ key(t) = key(s)

\* An identifier id.New has not returned before.
Fresh(u) == u \notin users /\ \A s \in Sessions : user(s) # u

Goto(s, label, u) == conn' = [conn EXCEPT ![s].pc = label, ![s].user = u]

Authorized(s) == allowed = {} \/ key(s) \in allowed

(* WithAuthorizedKeys comes before AssignUser. *)
Block(s) ==
    /\ pc(s) = "idle"
    /\ ~Authorized(s)
    /\ Goto(s, "blocked", NoUser)
    /\ UNCHANGED <<backend, allowed, users, publicKeys>>

(* PublicKeys.FindByFingerprint *)
FindByFingerprint(s) ==
    /\ pc(s) = "idle"
    /\ Authorized(s)
    /\ Goto(s, IF publicKeys[key(s)] = NoUser THEN "create" ELSE "find", publicKeys[key(s)])
    /\ UNCHANGED <<backend, allowed, users, publicKeys>>

(* Mutant: the two rows are inserted without a transaction. *)
InsertUserAtOnce(s) ==
    /\ pc(s) = "create"
    /\ CanWrite(s)
    /\ \E u \in UserIds : Fresh(u) /\ Goto(s, "user", u) /\ users' = users \cup {u}
    /\ UNCHANGED <<backend, allowed, publicKeys>>

(* Mutant: the identifier is only set after the INSERT. *)
InsertUserWithoutId(s) ==
    /\ pc(s) = "create"
    /\ CanWrite(s)
    /\ Goto(s, "user", "")
    /\ UNCHANGED <<backend, allowed, users, publicKeys>>

(* CreateWithPublicKey: BEGIN; INSERT INTO users ...                       *)
InsertUser(s) ==
    /\ pc(s) = "create"
    /\ CanWrite(s)
    /\ \E u \in UserIds : Fresh(u) /\ Goto(s, "user", u)
    /\ UNCHANGED <<backend, allowed, users, publicKeys>>

(* Mutant: ON CONFLICT (fingerprint) DO UPDATE SET user_id. *)
UpsertPublicKey(s) ==
    /\ pc(s) = "user"
    /\ ~UncommittedTwin(s)
    /\ Goto(s, "key", user(s))
    /\ UNCHANGED <<backend, allowed, users, publicKeys>>

(* ... INSERT INTO public_keys ...                                         *)
InsertPublicKey(s) ==
    /\ pc(s) = "user"
    /\ publicKeys[key(s)] = NoUser
    /\ ~UncommittedTwin(s)
    /\ Goto(s, "key", user(s))
    /\ UNCHANGED <<backend, allowed, users, publicKeys>>

(* Mutant: a row that is not committed yet is reason enough to give up. *)
GiveUpOnTwin(s) ==
    /\ pc(s) = "user"
    /\ publicKeys[key(s)] # NoUser \/ UncommittedTwin(s)
    /\ Goto(s, "refused", NoUser)
    /\ UNCHANGED <<backend, allowed, users, publicKeys>>

(* Mutant: the caller waits for the row to go away. *)
NeverGiveUp(s) == FALSE /\ UNCHANGED vars

(* ... which the unique index on the fingerprint refuses: ROLLBACK, and    *)
(* the connection is closed.                                               *)
PublicKeyExists(s) ==
    /\ pc(s) = "user"
    /\ publicKeys[key(s)] # NoUser
    /\ Goto(s, "refused", NoUser)
    /\ UNCHANGED <<backend, allowed, users, publicKeys>>

(* COMMIT *)
Commit(s) ==
    /\ pc(s) = "key"
    /\ users' = users \cup {user(s)}
    /\ publicKeys' = [publicKeys EXCEPT ![key(s)] = user(s)]
    /\ Goto(s, "in", user(s))
    /\ UNCHANGED <<backend, allowed>>

(* Users.Find, for a public key that was there. *)
FindUser(s) ==
    /\ pc(s) = "find"
    /\ IF user(s) \in users THEN Goto(s, "in", user(s)) ELSE Goto(s, "refused", NoUser)
    /\ UNCHANGED <<backend, allowed, users, publicKeys>>

(* A call fails, or the client is gone. *)
Fail(s) ==
    /\ Faults
    /\ Running(s)
    /\ Goto(s, "closed", NoUser)
    /\ UNCHANGED <<backend, allowed, users, publicKeys>>

(* The process is stopped, and started with another allow list.            *)
Restart(list) ==
    /\ Faults
    /\ allowed' = list
    /\ conn' = [s \in Sessions |->
                   IF pc(s) = "idle" THEN conn[s]
                                     ELSE [conn[s] EXCEPT !.pc = "closed", !.user = NoUser]]
    /\ UNCHANGED <<backend, users, publicKeys>>

(* What a connection's goroutine does by itself. *)
Proceed(s) ==
    \/ InsertUser(s) \/ InsertPublicKey(s) \/ PublicKeyExists(s) \/ Commit(s)
    \/ FindUser(s)

Next ==
    \/ \E s \in Sessions : Block(s) \/ FindByFingerprint(s) \/ Proceed(s) \/ Fail(s)
    \/ \E list \in AllowLists : Restart(list)

(* A connection's goroutine that has begun goes on: SQLite's busy handler  *)
(* lets a writer wait, and the few transactions before it are short.       *)
Fairness == \A s \in Sessions : WF_vars(Proceed(s))

Spec == Init /\ [][Next]_vars /\ Fairness

-----------------------------------------------------------------------------
(* Properties. *)

(* However first connections cross, fail or are cut off by a restart, each *)
(* committed user has exactly one public key and each public key a user:   *)
(* CreateWithPublicKey never leaves half of an account behind.             *)
WholeAccounts ==
    /\ \A u \in users : \E k \in Fingerprints : publicKeys[k] = u
    /\ \A k \in Fingerprints : publicKeys[k] # NoUser => publicKeys[k] \in users
    /\ \A k, l \in Fingerprints :
          publicKeys[k] = publicKeys[l] /\ publicKeys[k] # NoUser => k = l

(* Two sessions that are signed in have one user if and only if they came  *)
(* with one public key, whichever of them created it.                      *)
SameKeySameUser ==
    \A s, t \in Sessions :
        pc(s) = "in" /\ pc(t) = "in" => (user(s) = user(t) <=> key(s) = key(t))

(* A public key never changes hands: the files of its user stay its own,   *)
(* also across restarts with other allow lists.                            *)
AccountsStay ==
    [][\A k \in Fingerprints :
          publicKeys[k] # NoUser => publicKeys'[k] = publicKeys[k]]_vars

(* "Unable to authenticate" for the loser of a race between two first      *)
(* connections: the account is there, and the same key is let in next.     *)
RefusedCanRetry ==
    \A s \in Sessions : pc(s) = "refused" => publicKeys[key(s)] \in users

(* The transactions of two first connections do not wait for each other:   *)
(* every connection is let in or refused.                                  *)
EveryConnectionAnswered == \A s \in Sessions : Running(s) ~> ~Running(s)
=============================================================================
