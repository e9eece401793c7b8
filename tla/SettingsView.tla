----------------------------- MODULE SettingsView -----------------------------
(***************************************************************************)
(* The settings window (tui/views/settings): a root page and the pages for *)
(* the theme, the API keys and the deletion of all files.  A page handles  *)
(* a key and reports a result to its host, which is what the operators     *)
(* with a parameter do here; Tui says which keys get this far.             *)
(***************************************************************************)
EXTENDS Naturals, FiniteSets

CONSTANTS
    Ids,         \* identifiers of API keys, in the order of their creation
    KeyLimit,    \* SNIPS_LIMITS_APIKEYSPERUSER
    Faults       \* whether calls of the database may fail

ASSUME IdsAssumption == IsFiniteSet(Ids) /\ Ids \subseteq Nat \ {0}
ASSUME KeyLimitAssumption == KeyLimit \in Nat
ASSUME FaultsAssumption == Faults \in BOOLEAN

VARIABLES
    page,        \* the page shown
    keys,        \* the user's rows of api_keys
    spare,       \* identifiers not drawn yet
    rows,        \* the keys listed on the page, newest first
    cursor,      \* the selected one, counted from the newest
    creating,    \* "no", or the step of a creation: "naming", "expiring"
    armed        \* armedDeleteID, or 0

apiKeysVars == <<keys, spare, rows, cursor, creating, armed>>
settingsVars == <<page, apiKeysVars>>

Pages == {"root", "theme", "apikeys", "delete"}

SettingsTypeOK ==
    /\ page \in Pages
    /\ keys \subseteq Ids /\ spare \subseteq Ids /\ rows \subseteq Ids
    /\ cursor \in 1..(IF rows = {} THEN 1 ELSE Cardinality(rows))
    /\ creating \in {"no", "naming", "expiring"}
    /\ armed \in Ids \cup {0}

SettingsInit(owned, undrawn) ==
    /\ page = "root"
    /\ keys = owned
    /\ spare = undrawn
    /\ rows = {}
    /\ cursor = 1
    /\ creating = "no"
    /\ armed = 0

\* m.list[m.cursor]
Selected == CHOOSE k \in rows : Cardinality({l \in rows : l > k}) = cursor - 1

(* Mutant: the cursor stays where it was. *)
ReloadKeysUnclamped(found, at) == rows' = found /\ cursor' = at

(* reload: the list, and a cursor within it.                               *)
ReloadKeys(found, at) ==
    /\ rows' = found
    /\ cursor' = IF at > Cardinality(found) THEN (IF found = {} THEN 1 ELSE Cardinality(found)) ELSE at

(* reload fails after the change that it follows: only the feedback says so. *)
ReloadOrNot(found) ==
    \/ ReloadKeys(found, cursor)
    \/ Faults /\ UNCHANGED <<rows, cursor>>

-----------------------------------------------------------------------------
(* PushView(Settings): opened fresh. *)
Reset == page' = "root" /\ UNCHANGED apiKeysVars

OpenTheme == page' = "theme" /\ UNCHANGED apiKeysVars

(* Mutant: the page keeps what it had. *)
OpenApiKeysArmed ==
    /\ creating' = "no"
    /\ ReloadKeys(keys, 1)
    /\ page' = "apikeys"
    /\ UNCHANGED <<keys, spare, armed>>

(* apiKeysView.enter.  A page that does not load leaves the root shown.    *)
OpenApiKeys ==
    /\ creating' = "no"
    /\ armed' = 0
    /\ \/ ReloadKeys(keys, 1) /\ page' = "apikeys"
       \/ Faults /\ cursor' = 1 /\ UNCHANGED <<rows, page>>
    /\ UNCHANGED <<keys, spare>>

OpenDelete ==
    /\ page' = "delete" \/ (Faults /\ UNCHANGED page)
    /\ UNCHANGED apiKeysVars

Open == page = "root" /\ (OpenTheme \/ OpenApiKeys \/ OpenDelete)

Back == page' = "root" /\ UNCHANGED apiKeysVars

(* The theme is saved or not, and so it is back to the root.               *)
SaveTheme == page = "theme" /\ Back

-----------------------------------------------------------------------------
(* The page of the API keys. *)

AtList == page = "apikeys" /\ creating = "no"

Move ==
    /\ AtList
    /\ armed' = 0
    /\ \/ cursor > 1 /\ cursor' = cursor - 1
       \/ cursor < Cardinality(rows) /\ cursor' = cursor + 1
    /\ UNCHANGED <<page, keys, spare, rows, creating>>

(* n: the limit is compared with the list, and again by Create.            *)
StartNaming ==
    /\ AtList
    /\ armed' = 0
    /\ creating' = IF Cardinality(rows) >= KeyLimit THEN "no" ELSE "naming"
    /\ UNCHANGED <<page, keys, spare, rows, cursor>>

\* A name that normalises; any other leaves the input as it is.
EnterName ==
    /\ page = "apikeys" /\ creating = "naming"
    /\ creating' = "expiring"
    /\ UNCHANGED <<page, keys, spare, rows, cursor, armed>>

(* create: an error leaves the input, for another try.                     *)
Create ==
    /\ page = "apikeys" /\ creating = "expiring"
    /\ spare # {}
    /\ KeyLimit > 0 => Cardinality(keys) < KeyLimit
    /\ LET id == CHOOSE k \in spare : \A l \in spare : k <= l IN
       /\ spare' = spare \ {id}
       /\ keys' = keys \cup {id}
    /\ creating' = "no"
    /\ ReloadOrNot(keys')
    /\ UNCHANGED <<page, armed>>

\* esc while a name or an expiry is typed
StopCreating ==
    /\ page = "apikeys" /\ creating # "no"
    /\ creating' = "no"
    /\ UNCHANGED <<page, keys, spare, rows, cursor, armed>>

\* Any key without a binding.
Disarm ==
    /\ AtList
    /\ armed # 0
    /\ armed' = 0
    /\ UNCHANGED <<page, keys, spare, rows, cursor, creating>>

(* x, first: arm. *)
Arm ==
    /\ AtList
    /\ rows # {}
    /\ armed # Selected
    /\ armed' = Selected
    /\ UNCHANGED <<page, keys, spare, rows, cursor, creating>>

(* x, second: delete the selected key, which is the armed one.  A key that *)
(* is not there any more, or an error, leaves it armed.                    *)
DeleteKey ==
    /\ AtList
    /\ rows # {}
    /\ armed = Selected
    /\ \/ /\ armed \in keys
          /\ keys' = keys \ {armed}
          /\ armed' = 0
          /\ ReloadOrNot(keys')
       \/ /\ Faults \/ armed \notin keys
          /\ UNCHANGED <<keys, armed, rows, cursor>>
    /\ UNCHANGED <<page, spare, creating>>

(* esc on a deeper page; on the list of the keys it disarms.               *)
LeavePage ==
    /\ page # "root"
    /\ page = "apikeys" => creating = "no"
    /\ page' = "root"
    /\ armed' = IF page = "apikeys" THEN 0 ELSE armed
    /\ UNCHANGED <<keys, spare, rows, cursor, creating>>
=============================================================================
