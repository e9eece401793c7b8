--------------------------- MODULE Accounts_proofs ---------------------------
(***************************************************************************)
(* For any number of connections and keys, with calls that fail and        *)
(* restarts: accounts are whole, stay with their key, and are shared by    *)
(* the sessions of one key.                                                *)
(***************************************************************************)
EXTENDS Accounts, TLAPS

(* What a connection holds.  A user that is not committed yet is nobody    *)
(* else's; a public key whose row is inserted has no committed row; a      *)
(* session that is signed in, or about to be, is the user of its key.      *)
Held(s) ==
    /\ InTx(s) => user(s) \in UserIds /\ user(s) \notin users
    /\ pc(s) = "key" => publicKeys[key(s)] = NoUser
    /\ pc(s) \in {"in", "find"} => user(s) = publicKeys[key(s)] /\ user(s) # NoUser
    /\ pc(s) \notin {"user", "key", "in", "find"} => user(s) = NoUser
    /\ pc(s) = "refused" => publicKeys[key(s)] # NoUser

(* Two open transactions never insert one user, nor one public key.        *)
Apart(s, t) ==
    /\ InTx(s) /\ InTx(t) => user(s) # user(t)
    /\ pc(s) = "key" /\ pc(t) = "key" => key(s) # key(t)

AInv ==
    /\ TypeOK
    /\ WholeAccounts
    /\ \A s \in Sessions : Held(s)
    /\ \A s, t \in Sessions : s # t => Apart(s, t)

LEMMA AInit == Init => AInv
BY NoUserAssumption DEF Init, AInv, TypeOK, WholeAccounts, Held, Apart, InTx, pc, key, user

(* A step that moves one connection and commits nothing.                   *)
LEMMA AMove ==
    ASSUME AInv, NEW s \in Sessions,
           NEW label \in {"blocked", "create", "user", "key", "find", "in", "refused", "closed"},
           NEW u \in UserIds \cup {NoUser},
           Goto(s, label, u), UNCHANGED <<backend, allowed, users, publicKeys>>,
           Held(s)', \A t \in Sessions \ {s} : Apart(s, t)'
    PROVE  AInv'
<1> USE DEF AInv
<1>1. TypeOK'
  BY DEF TypeOK, Goto
<1>2. \A t \in Sessions \ {s} : conn'[t] = conn[t]
  BY DEF TypeOK, Goto
<1>3. \A t \in Sessions \ {s} : Held(t)'
  BY <1>2 DEF Held, InTx, pc, key, user
<1>4. \A t, r \in Sessions \ {s} : t # r => Apart(t, r)'
  BY <1>2 DEF Apart, InTx, pc, key, user
<1>5. \A t \in Sessions \ {s} : Apart(t, s)'
  BY DEF Apart, InTx, pc, key, user
<1>6. WholeAccounts'
  BY DEF WholeAccounts
<1> QED
  BY <1>1, <1>3, <1>4, <1>5, <1>6

LEMMA ACommit == ASSUME AInv, NEW s \in Sessions, Commit(s) PROVE AInv'
<1> DEFINE u == user(s)
           k == key(s)
<1> USE DEF AInv
<1>1. /\ u \in UserIds /\ u \notin users /\ k \in Fingerprints
      /\ publicKeys[k] = NoUser /\ pc(s) = "key" /\ InTx(s)
  BY DEF Commit, Held, InTx, TypeOK, key, pc
<1>2. /\ users' = users \cup {u}
      /\ publicKeys' = [publicKeys EXCEPT ![k] = u]
      /\ conn' = [conn EXCEPT ![s].pc = "in", ![s].user = u]
      /\ backend' = backend /\ allowed' = allowed
  BY DEF Commit, Goto
<1>3. TypeOK'
  BY <1>1, <1>2 DEF TypeOK
<1>4. /\ publicKeys'[k] = u
      /\ \A l \in Fingerprints : l # k => publicKeys'[l] = publicKeys[l]
  BY <1>1, <1>2 DEF TypeOK
<1>5. WholeAccounts'
  <2>1. \A v \in users' : \E l \in Fingerprints : publicKeys'[l] = v
    <3> TAKE v \in users'
    <3>1. CASE v = u
      BY <3>1, <1>1, <1>4
    <3>2. CASE v \in users
      <4>1. PICK l \in Fingerprints : publicKeys[l] = v
        BY <3>2 DEF WholeAccounts
      <4>2. v # NoUser
        BY <3>2, NoUserAssumption DEF TypeOK
      <4> QED
        BY <4>1, <4>2, <1>1, <1>4
    <3> QED
      BY <3>1, <3>2, <1>2
  <2>2. \A l \in Fingerprints : publicKeys'[l] # NoUser => publicKeys'[l] \in users'
    BY <1>2, <1>4 DEF WholeAccounts
  <2>3. \A l, m \in Fingerprints :
           publicKeys'[l] = publicKeys'[m] /\ publicKeys'[l] # NoUser => l = m
    BY <1>1, <1>4 DEF WholeAccounts
  <2> QED
    BY <2>1, <2>2, <2>3 DEF WholeAccounts
<1>6. /\ pc(s)' = "in" /\ user(s)' = u /\ key(s)' = k
      /\ \A t \in Sessions \ {s} : conn'[t] = conn[t]
  BY <1>2 DEF TypeOK, pc, user, key
<1>7. Held(s)'
  BY <1>1, <1>4, <1>6, NoUserAssumption DEF Held, InTx
<1>8. ASSUME NEW t \in Sessions \ {s} PROVE Held(t)'
  <2>1. pc(t)' = pc(t) /\ user(t)' = user(t) /\ key(t)' = key(t) /\ key(t) \in Fingerprints
    BY <1>6 DEF pc, user, key, TypeOK
  <2>2. InTx(t) => user(t) # u
    BY <1>1 DEF Apart
  <2>3. pc(t) = "key" => key(t) # k
    BY <1>1 DEF Apart
  <2>4. publicKeys[key(t)] # NoUser => key(t) # k
    BY <1>1
  <2> QED
    BY <1>2, <1>4, <2>1, <2>2, <2>3, <2>4, <1>1, NoUserAssumption DEF Held, InTx
<1>9. \A t, r \in Sessions : t # r => Apart(t, r)'
  BY <1>6 DEF Apart, InTx, pc, key, user
<1> QED
  BY <1>3, <1>5, <1>7, <1>8, <1>9

LEMMA ANext == AInv /\ [Next]_vars => AInv'
<1> SUFFICES ASSUME AInv, [Next]_vars PROVE AInv'
  OBVIOUS
<1> USE DEF AInv
<1>1. ASSUME NEW s \in Sessions, Block(s) PROVE AInv'
  <2>1. pc(s)' = "blocked" /\ user(s)' = NoUser /\ Held(s)'
    BY <1>1 DEF Block, Goto, TypeOK, Held, InTx, pc, user, key
  <2> QED
    BY <1>1, <2>1, AMove DEF Block, Apart, InTx
<1>2. ASSUME NEW s \in Sessions, FindByFingerprint(s) PROVE AInv'
  <2> DEFINE label == IF publicKeys[key(s)] = NoUser THEN "create" ELSE "find"
             u == publicKeys[key(s)]
  <2>1. key(s) \in Fingerprints /\ u \in UserIds \cup {NoUser}
    BY DEF TypeOK, key
  <2>2. /\ Goto(s, label, u) /\ UNCHANGED <<backend, allowed, users, publicKeys>>
    BY <1>2 DEF FindByFingerprint
  <2>3. pc(s)' = label /\ user(s)' = u /\ key(s)' = key(s)
    BY <2>2 DEF Goto, TypeOK, pc, user, key
  <2>4. Held(s)'
    BY <2>2, <2>3 DEF Held, InTx
  <2>5. \A t \in Sessions \ {s} : Apart(s, t)'
    BY <2>3 DEF Apart, InTx
  <2> QED
    BY <2>1, <2>2, <2>4, <2>5, AMove
<1>3. ASSUME NEW s \in Sessions, InsertUser(s) PROVE AInv'
  <2>1. PICK u \in UserIds : Fresh(u) /\ Goto(s, "user", u)
    BY <1>3 DEF InsertUser
  <2>2. UNCHANGED <<backend, allowed, users, publicKeys>>
    BY <1>3 DEF InsertUser
  <2>3. /\ pc(s)' = "user" /\ user(s)' = u
        /\ \A t \in Sessions \ {s} : user(t)' = user(t)
    BY <2>1 DEF Goto, TypeOK, pc, user
  <2>4. Held(s)'
    BY <2>1, <2>2, <2>3 DEF Held, InTx, Fresh
  <2>5. \A t \in Sessions \ {s} : Apart(s, t)'
    BY <2>1, <2>3 DEF Apart, Fresh
  <2> QED
    BY <2>1, <2>2, <2>4, <2>5, AMove
<1>4. ASSUME NEW s \in Sessions, InsertPublicKey(s) PROVE AInv'
  <2>1. /\ Goto(s, "key", user(s)) /\ UNCHANGED <<backend, allowed, users, publicKeys>>
        /\ pc(s) = "user" /\ publicKeys[key(s)] = NoUser /\ ~UncommittedTwin(s)
    BY <1>4 DEF InsertPublicKey
  <2>2. /\ pc(s)' = "key" /\ user(s)' = user(s) /\ key(s)' = key(s)
        /\ \A t \in Sessions \ {s} : conn'[t] = conn[t]
    BY <2>1 DEF Goto, TypeOK, pc, user, key
  <2>3. user(s) \in UserIds \cup {NoUser}
    BY DEF TypeOK, user
  <2>4. Held(s)'
    BY <2>1, <2>2 DEF Held, InTx
  <2>5. \A t \in Sessions \ {s} : Apart(s, t)'
    BY <2>1, <2>2 DEF Apart, InTx, UncommittedTwin, pc, user, key
  <2> QED
    BY <2>1, <2>3, <2>4, <2>5, AMove
<1>5. ASSUME NEW s \in Sessions, PublicKeyExists(s) PROVE AInv'
  <2>1. pc(s)' = "refused" /\ user(s)' = NoUser /\ key(s)' = key(s)
    BY <1>5 DEF PublicKeyExists, Goto, TypeOK, pc, user, key
  <2>2. Held(s)'
    BY <1>5, <2>1 DEF PublicKeyExists, Held, InTx
  <2> QED
    BY <1>5, <2>1, <2>2, AMove DEF PublicKeyExists, Apart, InTx
<1>6. ASSUME NEW s \in Sessions, Commit(s) PROVE AInv'
  BY <1>6, ACommit
<1>7. ASSUME NEW s \in Sessions, FindUser(s) PROVE AInv'
  <2>1. user(s) = publicKeys[key(s)] /\ user(s) # NoUser /\ key(s) \in Fingerprints
    BY <1>7 DEF FindUser, Held, TypeOK, key
  <2>2. user(s) \in users
    BY <2>1 DEF WholeAccounts
  <2>3. Goto(s, "in", user(s)) /\ UNCHANGED <<backend, allowed, users, publicKeys>>
    BY <1>7, <2>2 DEF FindUser
  <2>4. pc(s)' = "in" /\ user(s)' = user(s) /\ key(s)' = key(s)
    BY <2>3 DEF Goto, TypeOK, pc, user, key
  <2>5. Held(s)' /\ \A t \in Sessions \ {s} : Apart(s, t)'
    BY <2>1, <2>3, <2>4 DEF Held, InTx, Apart
  <2> QED
    BY <2>1, <2>2, <2>3, <2>5, AMove DEF TypeOK
<1>8. ASSUME NEW s \in Sessions, Fail(s) PROVE AInv'
  <2>1. pc(s)' = "closed" /\ user(s)' = NoUser
    BY <1>8 DEF Fail, Goto, TypeOK, pc, user
  <2>2. Held(s)' /\ \A t \in Sessions \ {s} : Apart(s, t)'
    BY <2>1 DEF Held, InTx, Apart
  <2> QED
    BY <1>8, <2>2, AMove DEF Fail
<1>9. ASSUME NEW list \in AllowLists, Restart(list) PROVE AInv'
  <2>1. /\ UNCHANGED <<users, publicKeys>> /\ backend' = backend /\ allowed' = list
        /\ conn' = [s \in Sessions |->
                       IF pc(s) = "idle" THEN conn[s]
                       ELSE [conn[s] EXCEPT !.pc = "closed", !.user = NoUser]]
    BY <1>9 DEF Restart
  <2>2. TypeOK'
    BY <2>1 DEF TypeOK
  <2>3. \A s \in Sessions : pc(s)' \in {"idle", "closed"} /\ user(s)' = NoUser
    BY <2>1 DEF TypeOK, Held, pc, user
  <2>4. \A s \in Sessions : Held(s)'
    BY <2>3 DEF Held, InTx
  <2>5. \A s, t \in Sessions : Apart(s, t)'
    BY <2>3 DEF Apart, InTx
  <2>6. WholeAccounts'
    BY <2>1 DEF WholeAccounts
  <2> QED
    BY <2>2, <2>4, <2>5, <2>6
<1>10. CASE UNCHANGED vars
  BY <1>10 DEF vars, TypeOK, WholeAccounts, Held, Apart, InTx, pc, key, user
<1> QED
  BY <1>1, <1>2, <1>3, <1>4, <1>5, <1>6, <1>7, <1>8, <1>9, <1>10 DEF Next, Proceed

LEMMA AInvariant == Spec => []AInv
BY AInit, ANext, PTL DEF Spec

-----------------------------------------------------------------------------
(* Users, public keys and connections are always what they are said to be. *)
THEOREM TypeCorrect == Spec => []TypeOK
<1>1. AInv => TypeOK
  BY DEF AInv
<1> QED
  BY <1>1, AInvariant, PTL

(* CreateWithPublicKey, interrupted or not, leaves whole accounts only.    *)
THEOREM AccountsWhole == Spec => []WholeAccounts
<1>1. AInv => WholeAccounts
  BY DEF AInv
<1> QED
  BY <1>1, AInvariant, PTL

(* Sessions have one user if and only if they have one public key.         *)
THEOREM OneKeyOneUser == Spec => []SameKeySameUser
<1>1. AInv => SameKeySameUser
  BY DEF AInv, SameKeySameUser, Held, WholeAccounts, TypeOK, key
<1> QED
  BY <1>1, AInvariant, PTL

(* A public key never changes hands.                                       *)
THEOREM KeysStay == Spec => AccountsStay
<1> DEFINE Stay == \A k \in Fingerprints :
                      publicKeys[k] # NoUser => publicKeys'[k] = publicKeys[k]
<1>1. AInv /\ [Next]_vars => [Stay]_vars
  <2> SUFFICES ASSUME AInv, Next PROVE Stay
    BY DEF vars
  <2>1. ASSUME NEW s \in Sessions, Commit(s) PROVE Stay
    BY <2>1 DEF Commit, AInv, Held, TypeOK
  <2>2. CASE UNCHANGED publicKeys
    BY <2>2
  <2> QED
    BY <2>1, <2>2 DEF Next, Proceed, Block, FindByFingerprint, InsertUser,
       InsertPublicKey, PublicKeyExists, FindUser, Fail, Restart
<1> QED
  BY <1>1, AInvariant, PTL DEF Spec, AccountsStay

(* The loser of a race finds the account when it tries again.              *)
THEOREM RefusedMayReturn == Spec => []RefusedCanRetry
<1>1. AInv => RefusedCanRetry
  BY DEF AInv, RefusedCanRetry, Held, WholeAccounts, TypeOK, key
<1> QED
  BY <1>1, AInvariant, PTL
=============================================================================
