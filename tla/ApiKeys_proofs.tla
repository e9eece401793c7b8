---------------------------- MODULE ApiKeys_proofs ----------------------------
(***************************************************************************)
(* For any number of sessions, requests and keys: SQLite keeps the limit,  *)
(* a removal takes what was asked for and nothing brings it back, and an   *)
(* expired key lets nobody in.                                             *)
(***************************************************************************)
EXTENDS ApiKeys, FiniteSetTheorems, TLAPS

Creation == [pc : {"create", "insert", "created", "limit", "failed"},
             user : Users, name : Names, expires : Nat]
Removal == [pc : {"delete", "removed", "failed"},
            user : Users, arg : Ids \cup Names, target : Ids]
Request == [pc : {"check", "touch", "in", "expired", "failed"}, sent : 1..MaxTime, key : Row]

(* An identifier is one row's, has been drawn, and is not that of a row    *)
(* whose removal was reported.                                             *)
RowsFit ==
    /\ IsFiniteSet(keys)
    /\ \A k, l \in keys : k.id = l.id => k = l
    /\ \A k \in keys : k.id <= minted
    /\ \A i \in removed : i <= minted

(* What a session has chosen to remove is the row it asked for, if it is   *)
(* still there; two steps for an insert are PostgreSQL's.                  *)
CmdFits(s) ==
    /\ cmd[s].pc = "insert" => backend = "postgres"
    /\ cmd[s].pc = "delete" =>
          /\ cmd[s].target <= minted
          /\ \A k \in keys : k.id = cmd[s].target => Matches(k, cmd[s].arg)

(* A request is checked no earlier than it was sent.                       *)
ReqFits(r) ==
    /\ req[r].pc = "check" => req[r].sent <= now
    /\ req[r].pc \in {"touch", "in"} /\ req[r].key.expires # 0 =>
          req[r].sent <= req[r].key.expires

KInv ==
    /\ TypeOK
    /\ RowsFit
    /\ KeyLimit
    /\ RemovedStaysRemoved
    /\ \A s \in Sessions : CmdFits(s)
    /\ \A r \in Requests : ReqFits(r)

LEMMA KInit == Init => KInv
<1> SUFFICES ASSUME Init PROVE KInv
  OBVIOUS
<1>1. TypeOK
  BY LimitAssumption DEF Init, TypeOK
<1>2. RowsFit /\ RemovedStaysRemoved
  BY FS_EmptySet DEF Init, RowsFit, RemovedStaysRemoved
<1>3. KeyLimit
  <2>1. \A u \in Users : Owned(u) = {}
    BY DEF Init, Owned
  <2> QED
    BY <2>1, FS_EmptySet, LimitAssumption DEF KeyLimit
<1>4. (\A s \in Sessions : CmdFits(s)) /\ (\A r \in Requests : ReqFits(r))
  BY DEF Init, CmdFits, ReqFits, IdleCmd, IdleReq
<1> QED
  BY <1>1, <1>2, <1>3, <1>4 DEF KInv

-----------------------------------------------------------------------------
(* A command's label says which command it is.                             *)
LEMMA Shapes ==
    ASSUME TypeOK, NEW s \in Sessions
    PROVE  /\ cmd[s].pc \in {"create", "insert"} => cmd[s] \in Creation
           /\ cmd[s].pc = "delete" => cmd[s] \in Removal
<1>1. cmd[s] \in {IdleCmd} \cup Creation \cup Removal
  BY DEF TypeOK, Creation, Removal
<1>2. CASE cmd[s] = IdleCmd
  BY <1>2 DEF IdleCmd
<1>3. CASE cmd[s] \in Creation
  BY <1>3 DEF Creation
<1>4. CASE cmd[s] \in Removal
  BY <1>4 DEF Removal
<1> QED
  BY <1>1, <1>2, <1>3, <1>4

LEMMA RequestShapes ==
    ASSUME TypeOK, NEW r \in Requests, req[r].pc \in {"check", "touch"}
    PROVE  req[r] \in Request
BY DEF TypeOK, Request, IdleReq

(* One command moves on and the tables stay.                               *)
LEMMA CmdStep ==
    ASSUME KInv, NEW s \in Sessions, NEW c \in {IdleCmd} \cup Creation \cup Removal,
           cmd' = [cmd EXCEPT ![s] = c], CmdFits(s)',
           UNCHANGED <<backend, now, minted, keys, removed, req>>
    PROVE  KInv'
<1> USE DEF KInv
<1>1. TypeOK'
  BY DEF TypeOK, Creation, Removal
<1>2. \A t \in Sessions : t # s => cmd'[t] = cmd[t]
  BY DEF TypeOK
<1>3. \A t \in Sessions : CmdFits(t)'
  BY <1>2 DEF CmdFits
<1>4. (\A r \in Requests : ReqFits(r)) => (\A r \in Requests : ReqFits(r))'
  BY DEF ReqFits
<1>5. RowsFit' /\ KeyLimit' /\ RemovedStaysRemoved'
  BY DEF RowsFit, KeyLimit, RemovedStaysRemoved, Owned
<1> QED
  BY <1>1, <1>3, <1>4, <1>5

(* The label alone changes.                                                *)
LEMMA CmdGoto ==
    ASSUME KInv, NEW s \in Sessions, NEW label,
           \/ cmd[s] \in Creation /\ label \in {"insert", "limit", "failed"}
           \/ cmd[s] \in Removal /\ label = "failed",
           label = "insert" => backend = "postgres",
           Goto(s, label), UNCHANGED <<backend, now, minted, keys, removed, req>>
    PROVE  KInv'
<1> DEFINE c == [cmd[s] EXCEPT !.pc = label]
<1>1. cmd' = [cmd EXCEPT ![s] = c] /\ cmd'[s] = c
  BY DEF Goto, KInv, TypeOK
<1>2. c \in Creation \cup Removal /\ c.pc = label
  BY DEF Creation, Removal
<1>3. CmdFits(s)'
  BY <1>1, <1>2 DEF CmdFits
<1> HIDE DEF c
<1> QED
  BY <1>1, <1>2, <1>3, CmdStep

LEMMA KCreate ==
    ASSUME KInv, NEW s \in Sessions, NEW u \in Users, NEW name \in Names, NEW ttl \in TTLs,
           CreateAPIKey(s, u, name, ttl)
    PROVE  KInv'
<1> DEFINE c == [pc |-> "create", user |-> u, name |-> name,
                 expires |-> IF ttl = 0 THEN 0 ELSE now + ttl]
<1>1. cmd' = [cmd EXCEPT ![s] = c] /\ cmd'[s] = c
  BY DEF CreateAPIKey, KInv, TypeOK
<1>2. c \in Creation
  BY TTLsAssumption, LimitAssumption DEF KInv, TypeOK, Creation
<1>3. CmdFits(s)'
  BY <1>1 DEF CmdFits
<1>4. UNCHANGED <<backend, now, minted, keys, removed, req>>
  BY DEF CreateAPIKey
<1> HIDE DEF c
<1> QED
  BY <1>1, <1>2, <1>3, <1>4, CmdStep

LEMMA KChoose ==
    ASSUME KInv, NEW s \in Sessions, NEW u \in Users, NEW arg \in Ids \cup Names,
           RemoveAPIKey(s, u, arg)
    PROVE  KInv'
<1>1. PICK k \in Owned(u) : /\ Matches(k, arg)
                            /\ cmd' = [cmd EXCEPT ![s] = [pc |-> "delete", user |-> u, arg |-> arg,
                                                          target |-> k.id]]
  BY DEF RemoveAPIKey
<1> DEFINE c == [pc |-> "delete", user |-> u, arg |-> arg, target |-> k.id]
<1>2. k \in keys /\ k.id \in Ids /\ k.id <= minted /\ k \in Row
  BY DEF Owned, KInv, TypeOK, Row, RowsFit
<1>3. cmd' = [cmd EXCEPT ![s] = c] /\ cmd'[s] = c
  BY <1>1 DEF KInv, TypeOK
<1>4. c \in Removal
  BY <1>2 DEF Removal
<1>5. UNCHANGED <<backend, now, minted, keys, removed, req>>
  BY DEF RemoveAPIKey
<1>6. \A l \in keys : l.id = k.id => l = k
  BY <1>2 DEF KInv, RowsFit
<1>7. CmdFits(s)'
  BY <1>1, <1>2, <1>3, <1>5, <1>6 DEF CmdFits, Matches
<1> HIDE DEF c
<1> QED
  BY <1>3, <1>4, <1>5, <1>7, CmdStep

-----------------------------------------------------------------------------
(* A row is inserted under an identifier that nobody has or had.           *)
LEMMA KInsert ==
    ASSUME KInv, NEW s \in Sessions, cmd[s] \in Creation,
           backend = "sqlite" => BelowLimit(cmd[s].user),
           Insert(s), UNCHANGED <<backend, now, removed, req>>
    PROVE  KInv'
<1> DEFINE n == [id |-> minted + 1, user |-> cmd[s].user, name |-> cmd[s].name,
                 expires |-> cmd[s].expires, used |-> FALSE]
           c == [cmd[s] EXCEPT !.pc = "created"]
<1>1. /\ minted \in Nat /\ MaxMinted \in Nat /\ minted < MaxMinted
      /\ minted' = minted + 1 /\ minted' \in 0..MaxMinted
      /\ keys' = keys \cup {n}
      /\ cmd' = [cmd EXCEPT ![s] = c]
  BY LimitAssumption DEF KInv, TypeOK, Insert, Goto
<1>2. /\ n \in Row /\ n.id = minted + 1 /\ n.user = cmd[s].user
      /\ c \in Creation /\ c.pc = "created"
  BY <1>1 DEF Creation, Row, Ids
<1> HIDE DEF n, c
<1>3. /\ cmd'[s] = c /\ \A t \in Sessions : t # s => cmd'[t] = cmd[t]
  BY <1>1 DEF KInv, TypeOK
<1>4. TypeOK'
  <2>1. cmd' \in [Sessions -> {IdleCmd} \cup Creation \cup Removal]
    BY <1>1, <1>2 DEF KInv, TypeOK, Creation, Removal
  <2>2. keys' \subseteq Row
    BY <1>1, <1>2 DEF KInv, TypeOK
  <2> QED
    BY <1>1, <2>1, <2>2 DEF KInv, TypeOK, Creation, Removal
<1>5. \A k \in keys : k.id \in Nat /\ k.id <= minted
  BY DEF KInv, RowsFit, TypeOK, Row, Ids
<1>6. \A i \in removed : i \in Nat /\ i <= minted
  BY DEF KInv, RowsFit, TypeOK, Ids
<1>7. RowsFit'
  <2>1. IsFiniteSet(keys')
    BY <1>1, FS_AddElement DEF KInv, RowsFit
  <2>2. \A k, l \in keys' : k.id = l.id => k = l
    BY <1>1, <1>2, <1>5 DEF KInv, RowsFit
  <2>3. (\A k \in keys' : k.id <= minted') /\ (\A i \in removed' : i <= minted')
    BY <1>1, <1>2, <1>5, <1>6
  <2> QED
    BY <2>1, <2>2, <2>3 DEF RowsFit
<1>8. RemovedStaysRemoved'
  BY <1>1, <1>2, <1>6 DEF KInv, RemovedStaysRemoved
<1>9. KeyLimit'
  <2> SUFFICES ASSUME backend = "sqlite", MaxKeys > 0, NEW u \in Users
               PROVE  Cardinality(Owned(u)') <= MaxKeys
    BY DEF KeyLimit
  <2>1. IsFiniteSet(Owned(u)) /\ Cardinality(Owned(u)) \in Nat
    <3>1. Owned(u) \in SUBSET keys
      BY DEF Owned
    <3> QED
      BY <3>1, FS_Subset, FS_CardinalityType DEF KInv, RowsFit
  <2>2. CASE u = cmd[s].user
    <3>1. Owned(u)' = Owned(u) \cup {n}
      BY <1>1, <1>2, <2>2 DEF Owned
    <3>2. Cardinality(Owned(u)) < MaxKeys
      BY <2>2 DEF BelowLimit
    <3>3. Cardinality(Owned(u) \cup {n}) <= Cardinality(Owned(u)) + 1
      <4> DEFINE S == Owned(u)
      <4>1. IsFiniteSet(S) /\ Cardinality(S) \in Nat
        BY <2>1
      <4> HIDE DEF S
      <4>2. Cardinality(S \cup {n}) = IF n \in S THEN Cardinality(S) ELSE Cardinality(S) + 1
        BY <4>1, FS_AddElement
      <4>3. Cardinality(S \cup {n}) <= Cardinality(S) + 1
        BY <4>1, <4>2
      <4> QED
        BY <4>3 DEF S
    <3>4. Cardinality(Owned(u) \cup {n}) \in Nat
      BY <2>1, FS_AddElement, FS_CardinalityType
    <3> QED
      BY <2>1, <3>1, <3>2, <3>3, <3>4, LimitAssumption
  <2>3. CASE u # cmd[s].user
    <3>1. Owned(u)' = Owned(u)
      BY <1>1, <1>2, <2>3 DEF Owned
    <3> QED
      BY <3>1 DEF KInv, KeyLimit
  <2> QED
    BY <2>2, <2>3
<1>10. \A t \in Sessions : CmdFits(t)'
  <2> TAKE t \in Sessions
  <2>1. CASE t = s
    BY <2>1, <1>2, <1>3 DEF CmdFits
  <2>2. CASE t # s
    <3>1. cmd'[t] = cmd[t] /\ CmdFits(t)
      BY <2>2, <1>3 DEF KInv
    <3>2. CASE cmd[t].pc = "delete"
      <4>1. cmd[t].target \in Nat /\ cmd[t].target <= minted
        BY <3>1, <3>2, Shapes DEF KInv, CmdFits, Removal, Ids
      <4>2. \A k \in keys' : k.id = cmd[t].target => k \in keys
        BY <1>1, <1>2, <4>1
      <4> QED
        BY <1>1, <3>1, <3>2, <4>1, <4>2 DEF CmdFits, Matches
    <3>3. CASE cmd[t].pc # "delete"
      BY <3>1, <3>3 DEF CmdFits
    <3> QED
      BY <3>2, <3>3
  <2> QED
    BY <2>1, <2>2
<1>11. \A r \in Requests : ReqFits(r)'
  BY DEF KInv, ReqFits
<1> QED
  BY <1>4, <1>7, <1>8, <1>9, <1>10, <1>11 DEF KInv

(* Rows go, none of whose identifiers stays.                               *)
LEMMA KDelete == ASSUME KInv, NEW s \in Sessions, Delete(s) PROVE KInv'
<1> DEFINE hit == {k \in Owned(cmd[s].user) : k.id = cmd[s].target}
           label == IF hit = {} THEN "failed" ELSE "removed"
           c == [cmd[s] EXCEPT !.pc = label]
<1>1. /\ cmd[s] \in Removal
      /\ keys' = keys \ hit
      /\ removed' = removed \cup {k.id : k \in hit}
      /\ UNCHANGED <<backend, now, minted, req>>
      /\ cmd' = [cmd EXCEPT ![s] = c]
  BY Shapes DEF Delete, Goto, KInv
<1>2. hit \subseteq keys
  BY DEF Owned
<1>3. c \in Removal /\ c.pc # "delete" /\ c.pc # "insert"
  BY <1>1 DEF Removal
<1> HIDE DEF hit, c
<1>4. /\ cmd'[s] = c /\ \A t \in Sessions : t # s => cmd'[t] = cmd[t]
  BY <1>1 DEF KInv, TypeOK
<1>5. TypeOK'
  <2>1. cmd' \in [Sessions -> {IdleCmd} \cup Creation \cup Removal]
    BY <1>1, <1>3 DEF KInv, TypeOK, Creation, Removal
  <2>2. keys' \subseteq Row /\ removed' \subseteq Ids
    BY <1>1, <1>2 DEF KInv, TypeOK, Row
  <2> QED
    BY <1>1, <2>1, <2>2 DEF KInv, TypeOK, Creation, Removal
<1>6. RowsFit'
  <2>1. IsFiniteSet(keys')
    BY <1>1, FS_Subset DEF KInv, RowsFit
  <2> QED
    BY <2>1, <1>1, <1>2 DEF KInv, RowsFit
<1>7. RemovedStaysRemoved'
  BY <1>1, <1>2 DEF KInv, RowsFit, RemovedStaysRemoved
<1>8. KeyLimit'
  <2> SUFFICES ASSUME backend = "sqlite", MaxKeys > 0, NEW u \in Users
               PROVE  Cardinality(Owned(u)') <= MaxKeys
    BY <1>1 DEF KeyLimit
  <2>1. Owned(u) \in SUBSET keys /\ Owned(u)' \in SUBSET Owned(u)
    BY <1>1 DEF Owned
  <2>2. IsFiniteSet(Owned(u))
    BY <2>1, FS_Subset DEF KInv, RowsFit
  <2>3. /\ Cardinality(Owned(u)') <= Cardinality(Owned(u))
        /\ Cardinality(Owned(u)') \in Nat /\ Cardinality(Owned(u)) \in Nat
    BY <2>1, <2>2, FS_Subset, FS_CardinalityType
  <2>4. Cardinality(Owned(u)) <= MaxKeys
    BY DEF KInv, KeyLimit
  <2> QED
    BY <2>3, <2>4, LimitAssumption
<1>9. \A t \in Sessions : CmdFits(t)'
  <2>1. CmdFits(s)'
    BY <1>3, <1>4 DEF CmdFits
  <2>2. \A t \in Sessions : t # s => CmdFits(t)'
    BY <1>1, <1>4 DEF KInv, CmdFits
  <2> QED
    BY <2>1, <2>2
<1>10. \A r \in Requests : ReqFits(r)'
  BY <1>1 DEF KInv, ReqFits
<1> QED
  BY <1>5, <1>6, <1>7, <1>8, <1>9, <1>10 DEF KInv

-----------------------------------------------------------------------------
(* One request moves on and the tables stay.                               *)
LEMMA ReqStep ==
    ASSUME KInv, NEW r \in Requests, NEW q \in Request, req' = [req EXCEPT ![r] = q],
           ReqFits(r)', UNCHANGED <<backend, now, minted, keys, removed, cmd>>
    PROVE  KInv'
<1> USE DEF KInv
<1>1. TypeOK'
  BY DEF TypeOK, Request
<1>2. \A o \in Requests : o # r => req'[o] = req[o]
  BY DEF TypeOK
<1>3. \A o \in Requests : ReqFits(o)'
  BY <1>2 DEF ReqFits
<1>4. \A s \in Sessions : CmdFits(s)'
  BY DEF CmdFits
<1>5. RowsFit' /\ KeyLimit' /\ RemovedStaysRemoved'
  BY DEF RowsFit, KeyLimit, RemovedStaysRemoved, Owned
<1> QED
  BY <1>1, <1>3, <1>4, <1>5

LEMMA KFind == ASSUME KInv, NEW r \in Requests, FindByTokenHash(r) PROVE KInv'
<1>1. PICK k \in keys : req' = [req EXCEPT ![r] = [pc |-> "check", sent |-> now, key |-> k]]
  BY DEF FindByTokenHash
<1> DEFINE q == [pc |-> "check", sent |-> now, key |-> k]
<1>2. req' = [req EXCEPT ![r] = q] /\ req'[r] = q
  BY <1>1 DEF KInv, TypeOK
<1>3. q \in Request
  BY DEF KInv, TypeOK, Request
<1>4. UNCHANGED <<backend, now, minted, keys, removed, cmd>>
  BY DEF FindByTokenHash
<1>5. now \in Nat
  BY LimitAssumption DEF KInv, TypeOK
<1>6. ReqFits(r)'
  BY <1>2, <1>4, <1>5 DEF ReqFits
<1> HIDE DEF q
<1> QED
  BY <1>2, <1>3, <1>4, <1>6, ReqStep

LEMMA KCheck == ASSUME KInv, NEW r \in Requests, CheckExpiry(r) PROVE KInv'
<1> DEFINE label == IF IsExpired(req[r].key) THEN "expired" ELSE "touch"
           q == [req[r] EXCEPT !.pc = label]
<1>1. req[r] \in Request /\ req[r].pc = "check" /\ req[r].sent <= now
  BY RequestShapes DEF CheckExpiry, KInv, ReqFits
<1>2. req' = [req EXCEPT ![r] = q] /\ req'[r] = q
  BY DEF CheckExpiry, Answer, KInv, TypeOK
<1>3. q \in Request /\ q.key = req[r].key /\ q.sent = req[r].sent /\ q.pc = label
  BY <1>1 DEF Request
<1>4. UNCHANGED <<backend, now, minted, keys, removed, cmd>>
  BY DEF CheckExpiry
<1>5. now \in Nat /\ req[r].sent \in Nat /\ req[r].key.expires \in Nat
  BY <1>1, LimitAssumption DEF KInv, TypeOK, Request, Row
<1> HIDE DEF q
<1>6. ReqFits(r)'
  BY <1>1, <1>2, <1>3, <1>5 DEF ReqFits, IsExpired
<1> QED
  BY <1>2, <1>3, <1>4, <1>6, ReqStep

(* The request is let in.                                                  *)
LEMMA Admitted ==
    ASSUME KInv, NEW r \in Requests, req[r].pc = "touch", Answer(r, "in")
    PROVE  /\ [req[r] EXCEPT !.pc = "in"] \in Request
           /\ req' = [req EXCEPT ![r] = [req[r] EXCEPT !.pc = "in"]]
           /\ ReqFits(r)'
<1>1. req[r] \in Request
  BY RequestShapes DEF KInv
<1> DEFINE q == [req[r] EXCEPT !.pc = "in"]
<1>2. req' = [req EXCEPT ![r] = q] /\ req'[r] = q
  BY DEF Answer, KInv, TypeOK
<1>3. q \in Request /\ q.key = req[r].key /\ q.sent = req[r].sent /\ q.pc = "in"
  BY <1>1 DEF Request
<1>4. ReqFits(r)'
  <2> HIDE DEF q
  <2> QED
    BY <1>2, <1>3 DEF KInv, ReqFits
<1> QED
  BY <1>2, <1>3, <1>4

LEMMA KTouchFails == ASSUME KInv, NEW r \in Requests, TouchFails(r) PROVE KInv'
BY Admitted, ReqStep DEF TouchFails

(* A touch changes neither whose a row is, nor its identifier or name.     *)
LEMMA KTouch == ASSUME KInv, NEW r \in Requests, Touch(r) PROVE KInv'
<1> DEFINE T(k) == IF k.id = req[r].key.id THEN [k EXCEPT !.used = TRUE] ELSE k
<1>1. /\ keys' = {T(k) : k \in keys}
      /\ UNCHANGED <<backend, now, minted, removed, cmd>>
      /\ req[r].pc = "touch" /\ Answer(r, "in")
  BY DEF Touch
<1>2. \A k \in Row : /\ T(k) \in Row /\ T(k).id = k.id /\ T(k).user = k.user
                     /\ T(k).name = k.name
  BY DEF Row
<1>3. keys \subseteq Row
  BY DEF KInv, TypeOK
<1> HIDE DEF T
<1>4. TypeOK'
  <2>1. req' \in [Requests -> {IdleReq} \cup Request]
    BY <1>1, Admitted DEF KInv, TypeOK, Request
  <2>2. keys' \subseteq Row
    BY <1>1, <1>2, <1>3
  <2> QED
    BY <1>1, <2>1, <2>2 DEF KInv, TypeOK, Request
<1>5. ASSUME NEW S \in SUBSET keys
      PROVE  /\ IsFiniteSet({T(k) : k \in S})
             /\ Cardinality({T(k) : k \in S}) \in Nat
             /\ Cardinality(S) \in Nat
             /\ Cardinality({T(k) : k \in S}) <= Cardinality(S)
  <2> DEFINE f == [k \in S |-> T(k)]
             I == {T(k) : k \in S}
  <2>1. f \in Surjection(S, I)
    BY DEF Surjection
  <2>2. IsFiniteSet(S)
    BY FS_Subset DEF KInv, RowsFit
  <2> HIDE DEF f, I
  <2>3. IsFiniteSet(I) /\ Cardinality(I) <= Cardinality(S)
    BY <2>1, <2>2, FS_Surjection
  <2>4. Cardinality(I) \in Nat /\ Cardinality(S) \in Nat
    BY <2>2, <2>3, FS_CardinalityType
  <2> QED
    BY <2>3, <2>4 DEF I
<1>6. RowsFit'
  <2>1. IsFiniteSet(keys')
    BY <1>1, <1>5
  <2>2. \A k, l \in keys' : k.id = l.id => k = l
    BY <1>1, <1>2, <1>3 DEF KInv, RowsFit
  <2>3. (\A k \in keys' : k.id <= minted') /\ (\A i \in removed' : i <= minted')
    BY <1>1, <1>2, <1>3 DEF KInv, RowsFit
  <2> QED
    BY <2>1, <2>2, <2>3 DEF RowsFit
<1>7. KeyLimit'
  <2> SUFFICES ASSUME backend = "sqlite", MaxKeys > 0, NEW u \in Users
               PROVE  Cardinality(Owned(u)') <= MaxKeys
    BY <1>1 DEF KeyLimit
  <2>1. Owned(u) \in SUBSET keys
    BY DEF Owned
  <2>2. Owned(u)' = {T(k) : k \in Owned(u)}
    BY <1>1, <1>2, <1>3 DEF Owned
  <2>3. Cardinality(Owned(u)) <= MaxKeys
    BY DEF KInv, KeyLimit
  <2>4. /\ Cardinality(Owned(u)') <= Cardinality(Owned(u))
        /\ Cardinality(Owned(u)') \in Nat /\ Cardinality(Owned(u)) \in Nat
    BY <2>1, <2>2, <1>5
  <2> QED
    BY <2>3, <2>4, LimitAssumption
<1>8. RemovedStaysRemoved'
  BY <1>1, <1>2, <1>3 DEF KInv, RemovedStaysRemoved
<1>9. \A s \in Sessions : CmdFits(s)'
  BY <1>1, <1>2, <1>3 DEF KInv, CmdFits, Matches
<1>10. \A o \in Requests : ReqFits(o)'
  <2>1. ReqFits(r)'
    BY <1>1, Admitted
  <2>2. \A o \in Requests : o # r => ReqFits(o)'
    BY <1>1 DEF Answer, KInv, TypeOK, ReqFits
  <2> QED
    BY <2>1, <2>2
<1> QED
  BY <1>4, <1>6, <1>7, <1>8, <1>9, <1>10 DEF KInv

LEMMA KTick == ASSUME KInv, Tick PROVE KInv'
<1>1. /\ now \in Nat /\ now' = now + 1 /\ now' \in 1..MaxTime
      /\ UNCHANGED <<backend, minted, keys, removed, cmd, req>>
  BY LimitAssumption DEF Tick, KInv, TypeOK
<1>2. TypeOK'
  BY <1>1 DEF KInv, TypeOK
<1>3. ASSUME NEW r \in Requests PROVE ReqFits(r)'
  <2>1. CASE req[r].pc = "check"
    <3>1. req[r].sent \in Nat /\ req[r].sent <= now
      BY <2>1, RequestShapes DEF KInv, ReqFits, Request
    <3> QED
      BY <1>1, <2>1, <3>1 DEF ReqFits
  <2>2. CASE req[r].pc # "check"
    BY <1>1, <2>2 DEF KInv, ReqFits
  <2> QED
    BY <2>1, <2>2
<1> QED
  BY <1>1, <1>2, <1>3 DEF KInv, RowsFit, KeyLimit, Owned, RemovedStaysRemoved, CmdFits

LEMMA KStep == KInv /\ [Next]_vars => KInv'
<1> SUFFICES ASSUME KInv, [Next]_vars PROVE KInv'
  OBVIOUS
<1>1. ASSUME NEW s \in Sessions, CreateCounting(s) PROVE KInv'
  <2>1. cmd[s] \in Creation
    BY <1>1, Shapes DEF CreateCounting, KInv
  <2>2. CASE BelowLimit(cmd[s].user)
    BY <1>1, <2>1, <2>2, KInsert DEF CreateCounting
  <2>3. CASE ~BelowLimit(cmd[s].user)
    BY <1>1, <2>1, <2>3, CmdGoto DEF CreateCounting
  <2> QED
    BY <2>2, <2>3
<1>2. ASSUME NEW s \in Sessions, CountKeys(s) PROVE KInv'
  <2>1. cmd[s] \in Creation
    BY <1>2, Shapes DEF CountKeys, KInv
  <2> QED
    BY <1>2, <2>1, CmdGoto DEF CountKeys
<1>3. ASSUME NEW s \in Sessions, InsertKey(s) PROVE KInv'
  <2>1. cmd[s] \in Creation /\ backend = "postgres"
    BY <1>3, Shapes DEF InsertKey, KInv, CmdFits
  <2> QED
    BY <1>3, <2>1, KInsert DEF InsertKey
<1>4. ASSUME NEW s \in Sessions, Cancel(s) PROVE KInv'
  <2>1. cmd[s] \in Creation \cup Removal
    BY <1>4, Shapes DEF Cancel, KInv
  <2> QED
    BY <1>4, <2>1, CmdGoto DEF Cancel
<1>5. CASE UNCHANGED vars
  BY <1>5 DEF vars, KInv, TypeOK, RowsFit, KeyLimit, Owned, RemovedStaysRemoved,
              CmdFits, ReqFits
<1> QED
  BY <1>1, <1>2, <1>3, <1>4, <1>5, KCreate, KChoose, KDelete, KFind, KCheck, KTouch,
     KTouchFails, KTick DEF Next

LEMMA KInvariant == Spec => []KInv
BY KInit, KStep, PTL DEF Spec

-----------------------------------------------------------------------------
(* Commands, requests and rows are always what they are said to be.        *)
THEOREM TypeCorrect == Spec => []TypeOK
<1>1. KInv => TypeOK
  BY DEF KInv
<1> QED
  BY <1>1, KInvariant, PTL

(* SQLite's APIKeys.Create takes no user beyond the limit, whatever runs   *)
(* beside it.                                                              *)
THEOREM LimitHolds == Spec => []KeyLimit
<1>1. KInv => KeyLimit
  BY DEF KInv
<1> QED
  BY <1>1, KInvariant, PTL

(* A removed key does not come back, although requests that found it still *)
(* touch it.                                                               *)
THEOREM RemovedForGood == Spec => []RemovedStaysRemoved
<1>1. KInv => RemovedStaysRemoved
  BY DEF KInv
<1> QED
  BY <1>1, KInvariant, PTL

(* WithAuthentication lets no request in by a key that had expired when it *)
(* was sent.                                                               *)
THEOREM ExpiredIsRefused == Spec => []ExpiredStaysOut
<1>1. KInv => ExpiredStaysOut
  BY DEF KInv, ExpiredStaysOut, ReqFits
<1> QED
  BY <1>1, KInvariant, PTL

(* A removal takes a key of the user who asked for it by that name or      *)
(* identifier, and nothing else takes any.                                 *)
THEOREM RemovedAsAsked == Spec => RemovesWhatWasAsked
<1> DEFINE Gone(k) == \A l \in keys' : l.id # k.id
           Wanted(s, k) == /\ cmd[s].pc = "delete" /\ cmd'[s].pc = "removed"
                           /\ cmd[s].user = k.user /\ cmd[s].target = k.id
                           /\ Matches(k, cmd[s].arg)
           Asked == \A k \in keys : Gone(k) => \E s \in Sessions : Wanted(s, k)
<1>1. KInv /\ [Next]_vars => [Asked]_vars
  <2> SUFFICES ASSUME KInv, Next, NEW k \in keys, Gone(k)
               PROVE  \E s \in Sessions : Wanted(s, k)
    OBVIOUS
  <2>1. ASSUME NEW s \in Sessions, Delete(s) PROVE Wanted(s, k)
    <3>1. cmd[s] \in Removal /\ cmd[s].pc = "delete"
      BY <2>1, Shapes DEF Delete, KInv
    <3>2. k \in Owned(cmd[s].user) /\ k.id = cmd[s].target
      BY <2>1 DEF Delete
    <3>3. cmd'[s].pc = "removed"
      BY <2>1, <3>1, <3>2 DEF Delete, Goto, KInv, TypeOK, Removal
    <3>4. k.user = cmd[s].user /\ Matches(k, cmd[s].arg)
      BY <3>1, <3>2 DEF Owned, KInv, CmdFits
    <3> QED
      BY <3>1, <3>2, <3>3, <3>4
  <2>2. ASSUME NEW r \in Requests, Touch(r) PROVE FALSE
    <3> DEFINE t == IF k.id = req[r].key.id THEN [k EXCEPT !.used = TRUE] ELSE k
    <3>1. t \in keys'
      BY <2>2 DEF Touch
    <3>2. t.id = k.id
      BY DEF KInv, TypeOK, Row
    <3> QED
      BY <3>1, <3>2
  <2>3. CASE keys \subseteq keys'
    BY <2>3
  <2> QED
    BY <2>1, <2>2, <2>3 DEF Next, CreateAPIKey, RemoveAPIKey, CreateCounting, CountKeys,
       InsertKey, Insert, Cancel, FindByTokenHash, CheckExpiry, TouchFails, Tick
<1> QED
  BY <1>1, KInvariant, PTL DEF Spec, RemovesWhatWasAsked
=============================================================================
