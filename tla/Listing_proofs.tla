---------------------------- MODULE Listing_proofs ----------------------------
(***************************************************************************)
(* For lists of any length, pages of any size and whatever comes and goes  *)
(* between two pages: PostgreSQL's keyset pages lie one behind the other;  *)
(* where a list may not skip a row it skips none; SQLite's pages drift by  *)
(* no more than the rows that came and went; and a quiet list is exact.    *)
(***************************************************************************)
EXTENDS Listing, SequenceSets

(* The cursor of a client that will ask for another page stands before     *)
(* nothing it was given: every row received is at the cursor or newer.     *)
Behind ==
    backend = "postgres" /\ pages # <<>> /\ pc \in {"ready", "query"} =>
        /\ cursor.id # 0
        /\ \A i \in DOMAIN pages : \A a \in pages[i] : cursor.id <= a

LInv ==
    /\ TypeOK
    /\ KeysetDescends
    /\ Behind

LEMMA KeysFinite ==
    ASSUME NEW n \in Nat, NEW S, S \subseteq 1..n
    PROVE  IsFiniteSet(S) /\ Cardinality(S) \in Nat
<1>1. IsFiniteSet(1..n)
  BY FS_Interval
<1>2. IsFiniteSet(S)
  BY <1>1, FS_Subset
<1> QED
  BY <1>2, FS_CardinalityType

(* The largest of a set is one of its n newest; the set has a smallest.    *)
LEMMA NewestNotEmpty ==
    ASSUME NEW m \in Nat, NEW S, S \subseteq 1..m, S # {}, NEW n \in Nat \ {0}
    PROVE  Newest(S, n) # {}
<1> DEFINE f == [k \in S |-> k]
<1>1. IsFiniteSet(S) /\ Numbered(S, f)
  <2>1. IsFiniteSet(S)
    BY KeysFinite
  <2>2. \A e \in S : f[e] = e /\ e \in Nat
    OBVIOUS
  <2> QED
    BY <2>1, <2>2 DEF Numbered
<1>2. PICK top \in S : \A e \in S : f[e] <= f[top]
  <2> HIDE DEF f
  <2> QED
    BY <1>1, HasTop
<1>3. Newer(S, top) = {}
  <2>1. \A e \in S : e \in Nat /\ e <= top
    BY <1>2
  <2>2. ~ \E e \in S : e > top
    BY <2>1
  <2> QED
    BY <2>2 DEF Newer
<1>4. Cardinality(Newer(S, top)) = 0
  BY <1>3, FS_EmptySet
<1> QED
  BY <1>4 DEF Newest

LEMMA HasSmallest ==
    ASSUME NEW m \in Nat, NEW S, S \subseteq 1..m, S # {}
    PROVE  \E k \in S : \A e \in S : k <= e
<1> DEFINE f == [k \in S |-> k]
<1>1. IsFiniteSet(S) /\ Numbered(S, f)
  <2>1. IsFiniteSet(S)
    BY KeysFinite
  <2>2. \A e \in S : f[e] = e /\ e \in Nat
    OBVIOUS
  <2> QED
    BY <2>1, <2>2 DEF Numbered
<1>2. PICK k \in S : \A e \in S : f[k] <= f[e]
  <2> HIDE DEF f
  <2> QED
    BY <1>1, HasBottom
<1> QED
  BY <1>2

(* What a page is made of: visible rows, on PostgreSQL behind the cursor.  *)
LEMMA PageRows ==
    ASSUME NEW S, NEW c, NEW n
    PROVE  /\ Window(S, c, n) \subseteq S
           /\ backend = "postgres" /\ c.id # 0 =>
                 \A k \in Window(S, c, n) : k < c.id
BY DEF Window, Newest, After

LEMMA ListPageStep ==
    ASSUME LInv, NEW limit \in PageSizes, ListPage(limit)
    PROVE  LInv'
<1> DEFINE read == Window(rows, cursor, limit + 1)
           page == Newest(read, limit)
           more == Cardinality(read) > limit
<1> USE DEF LInv
<1>1. /\ limit \in Nat \ {0} /\ MaxKey \in Nat /\ issued \in Nat
      /\ rows \subseteq 1..issued /\ issued <= MaxKey
  BY PageSizesAssumption, BoundsAssumption DEF TypeOK
<1>2. read \subseteq rows /\ page \subseteq read
  BY PageRows DEF Newest
<1>3. page \subseteq 1..issued /\ page \subseteq Keys /\ read \subseteq 1..issued
  <2> HIDE DEF read, page
  <2>1. 1..issued \subseteq 1..MaxKey
    BY <1>1
  <2> QED
    BY <1>1, <1>2, <2>1 DEF Keys
<1>4. /\ pages' = Append(pages, page)
      /\ IF more THEN cursor' = NextCursor(cursor, page, limit) /\ pc' = "ready"
                 ELSE pc' = "done" /\ cursor' = cursor
      /\ pc \in {"ready", "query"}
      /\ start' \in {start, rows}
      /\ cut' = (cut \/ cursor.id \notin rows \cup {0})
      /\ UNCHANGED <<backend, kind, exists, issued, pending, rows, came, gone>>
  BY DEF ListPage, ReadPage, table
<1>5. more => /\ cursor'.id \in page
              /\ \A m \in page : cursor'.id <= m
              /\ cursor'.offset = cursor.offset + limit
              /\ cursor' = [offset |-> cursor'.offset, id |-> cursor'.id]
  <2> SUFFICES ASSUME more PROVE /\ cursor'.id \in page
                                 /\ \A m \in page : cursor'.id <= m
                                 /\ cursor'.offset = cursor.offset + limit
                                 /\ cursor' = [offset |-> cursor'.offset, id |-> cursor'.id]
    OBVIOUS
  <2>1. read # {}
    <3>1. Cardinality({}) = 0
      BY FS_EmptySet
    <3>2. Cardinality(read) > limit
      OBVIOUS
    <3> HIDE DEF read
    <3> QED
      BY <1>1, <3>1, <3>2
  <2>2. page # {}
    <3> HIDE DEF read
    <3> QED
      BY <1>1, <1>3, <2>1, NewestNotEmpty
  <2>3. \E k \in page : \A m \in page : k <= m
    <3> HIDE DEF page
    <3> QED
      BY <1>1, <1>3, <2>2, HasSmallest
  <2> HIDE DEF read, page
  <2>4. cursor' = NextCursor(cursor, page, limit)
    BY <1>4
  <2> QED
    BY <2>3, <2>4 DEF NextCursor
<1> HIDE DEF page, more
<1>6. TypeOK'
  <2>1. pages' \in Seq(SUBSET Keys)
    BY <1>3, <1>4 DEF TypeOK
  <2>2. cursor' \in [offset : Nat, id : 0..MaxKey]
    <3>1. CASE more
      BY <3>1, <1>1, <1>3, <1>5 DEF TypeOK, Keys
    <3>2. CASE ~more
      BY <3>2, <1>4 DEF TypeOK
    <3> QED
      BY <3>1, <3>2
  <2>3. start' \subseteq Keys /\ cut' \in BOOLEAN /\ pc' \in {"ready", "done"}
    BY <1>1, <1>4 DEF TypeOK, Keys
  <2> QED
    BY <2>1, <2>2, <2>3, <1>4 DEF TypeOK
<1>7. ASSUME backend = "postgres", NEW i \in DOMAIN pages, NEW a \in pages[i], NEW b \in page
      PROVE  a > b
  <2>1. cursor.id # 0 /\ cursor.id <= a
    BY <1>7, <1>4 DEF Behind, TypeOK
  <2>2. b < cursor.id
    BY <1>2, <1>7, <2>1, PageRows
  <2>3. a \in Keys /\ b \in Keys /\ cursor.id \in Nat
    BY <1>3 DEF TypeOK
  <2> QED
    BY <2>1, <2>2, <2>3 DEF Keys
<1>8. /\ DOMAIN pages' = DOMAIN pages \cup {Len(pages) + 1}
      /\ pages'[Len(pages) + 1] = page
      /\ \A i \in DOMAIN pages : pages'[i] = pages[i] /\ i <= Len(pages)
      /\ Len(pages) \in Nat
  BY <1>3, <1>4 DEF TypeOK
<1>9. KeysetDescends'
  <2> SUFFICES ASSUME backend = "postgres", NEW i \in DOMAIN pages', NEW j \in DOMAIN pages',
                      i < j, NEW a \in pages'[i], NEW b \in pages'[j]
               PROVE  a > b
    BY <1>4 DEF KeysetDescends
  <2>1. i \in DOMAIN pages
    BY <1>8 DEF TypeOK
  <2>2. CASE j \in DOMAIN pages
    BY <2>1, <2>2, <1>8 DEF KeysetDescends
  <2>3. CASE j = Len(pages) + 1
    BY <2>1, <2>3, <1>7, <1>8
  <2> QED
    BY <2>2, <2>3, <1>8
<1>10. Behind'
  <2> SUFFICES ASSUME backend = "postgres", more
               PROVE  /\ cursor'.id # 0
                      /\ \A i \in DOMAIN pages' : \A a \in pages'[i] : cursor'.id <= a
    BY <1>4 DEF Behind
  <2>1. cursor'.id \in page /\ cursor'.id \in Nat \ {0}
    BY <1>3, <1>5
  <2>2. ASSUME NEW i \in DOMAIN pages, NEW a \in pages[i] PROVE cursor'.id <= a
    <3>1. a \in Nat
      BY DEF TypeOK, Keys
    <3> QED
      BY <2>1, <3>1, <1>7
  <2> QED
    BY <2>1, <2>2, <1>5, <1>8
<1> QED
  BY <1>6, <1>9, <1>10

LEMMA LInit == Init => LInv
<1> SUFFICES ASSUME Init PROVE LInv
  OBVIOUS
<1>1. pages = <<>> /\ DOMAIN pages = {} /\ pages \in Seq(SUBSET Keys)
  BY DEF Init
<1>2. cursor \in [offset : Nat, id : 0..MaxKey]
  BY BoundsAssumption DEF Init, NoCursor
<1>3. exists \in BOOLEAN /\ cut \in BOOLEAN
  BY DEF Init
<1>4. issued \in 0..MaxKey /\ came \in Nat /\ gone \in Nat
  BY BoundsAssumption DEF Init
<1>5. TypeOK
  BY <1>1, <1>2, <1>3, <1>4 DEF Init, TypeOK
<1> QED
  BY <1>1, <1>5 DEF LInv, KeysetDescends, Behind

(* The reader is left alone by what changes the rows.                      *)
LEMMA RowsStep ==
    ASSUME LInv, TypeOK', UNCHANGED <<backend, reader>>
    PROVE  LInv'
BY DEF LInv, KeysetDescends, Behind, reader

LEMMA LStep == LInv /\ [Next]_vars => LInv'
<1> SUFFICES ASSUME LInv, [Next]_vars PROVE LInv'
  OBVIOUS
<1>0. /\ TypeOK /\ MaxKey \in Nat /\ Retained \in Nat
      /\ IsFiniteSet(rows) /\ Cardinality(rows) \in Nat
  <2>1. TypeOK /\ issued \in Nat /\ rows \subseteq 1..issued
    BY BoundsAssumption DEF LInv, TypeOK
  <2> QED
    BY <2>1, BoundsAssumption, KeysFinite
<1>1. CASE BeginCreate
  <2>1. TypeOK'
    BY <1>0, <1>1 DEF TypeOK, BeginCreate, reader
  <2> QED
    BY <2>1, <1>1, RowsStep DEF BeginCreate
<1>2. ASSUME NEW k \in Keys, CommitCreate(k) PROVE LInv'
  <2>1. TypeOK'
    BY <1>0, <1>2 DEF TypeOK, CommitCreate, Count, reader
  <2> QED
    BY <2>1, <1>2, RowsStep DEF CommitCreate
<1>3. ASSUME NEW k \in Keys, AbandonCreate(k) PROVE LInv'
  <2>1. TypeOK'
    BY <1>0, <1>3 DEF TypeOK, AbandonCreate, reader
  <2> QED
    BY <2>1, <1>3, RowsStep DEF AbandonCreate
<1>4. ASSUME NEW k \in Keys, DeleteFile(k) PROVE LInv'
  <2>1. TypeOK'
    BY <1>0, <1>4 DEF TypeOK, DeleteFile, Count, reader
  <2> QED
    BY <2>1, <1>4, RowsStep DEF DeleteFile
<1>5. CASE DeleteAll
  <2>1. TypeOK'
    BY <1>0, <1>5 DEF TypeOK, DeleteAll, Count, reader
  <2> QED
    BY <2>1, <1>5, RowsStep DEF DeleteAll
<1>6. CASE AppendRevision
  <2> DEFINE all == rows \cup {issued + 1}
             kept == IF Retained = 0 THEN all ELSE Newest(all, Retained)
  <2>1. issued' = issued + 1 /\ issued + 1 \in 0..MaxKey /\ rows' = kept
    BY <1>0, <1>6 DEF AppendRevision, TypeOK
  <2>2. all \subseteq 1..(issued + 1) /\ kept \subseteq all
    BY <1>0 DEF TypeOK, Newest
  <2>3. Cardinality(all \ kept) \in Nat
    <3>1. all \ kept \subseteq 1..(issued + 1) /\ issued + 1 \in Nat
      BY <2>1, <2>2, <1>0
    <3> HIDE DEF all, kept
    <3> QED
      BY <3>1, KeysFinite
  <2>4. gone' \in Nat /\ came' \in Nat
    BY <1>0, <1>6, <2>3 DEF AppendRevision, Count, TypeOK
  <2>5. rows' \subseteq 1..issued'
    BY <2>1, <2>2
  <2>6. UNCHANGED <<backend, kind, exists, pending, pc, cursor, pages, start, cut>>
    BY <1>6 DEF AppendRevision, reader
  <2> HIDE DEF all, kept
  <2>7. TypeOK'
    BY <1>0, <2>1, <2>4, <2>5, <2>6 DEF TypeOK
  <2> QED
    BY <2>6, <2>7, RowsStep DEF reader
<1>7. CASE kind = "revisions" /\ FindFile
  BY <1>7 DEF LInv, FindFile, TypeOK, KeysetDescends, Behind, table
<1>8. ASSUME NEW limit \in PageSizes, ListPage(limit) PROVE LInv'
  BY <1>8, ListPageStep
<1>9. CASE UNCHANGED vars
  BY <1>9 DEF LInv, TypeOK, KeysetDescends, Behind, vars, table, reader
<1> QED
  BY <1>1, <1>2, <1>3, <1>4, <1>5, <1>6, <1>7, <1>8, <1>9 DEF Next

LEMMA LInvariant == Spec => []LInv
BY LInit, LStep, PTL DEF Spec

(* The model's states are well formed, whatever the bounds.                *)
THEOREM TypeCorrect == Spec => []TypeOK
<1>1. LInv => TypeOK
  BY DEF LInv
<1> QED
  BY <1>1, LInvariant, PTL

(* On PostgreSQL a list of any length that is read page by page never      *)
(* returns a row twice, nor one newer than it has already returned,        *)
(* whoever creates and deletes meanwhile and whatever the client's limits. *)
THEOREM KeysDescend == Spec => []KeysetDescends
<1>1. LInv => KeysetDescends
  BY DEF LInv
<1> QED
  BY <1>1, LInvariant, PTL

-----------------------------------------------------------------------------
(* The place of a row in a list: how many rows are newer.                  *)
Place(S, k) == Cardinality(Newer(S, k))

LEMMA PlaceType ==
    ASSUME NEW S, IsFiniteSet(S), S \subseteq Nat, NEW k
    PROVE  IsFiniteSet(Newer(S, k)) /\ Place(S, k) \in Nat
<1>1. Newer(S, k) \in SUBSET S
  BY DEF Newer
<1> QED
  BY <1>1, FS_Subset, FS_CardinalityType DEF Place

LEMMA PlaceGrows ==
    ASSUME NEW S, NEW T, IsFiniteSet(S), S \subseteq Nat, T \subseteq S, NEW k
    PROVE  IsFiniteSet(T) /\ T \subseteq Nat /\ Place(T, k) <= Place(S, k)
<1>1. Newer(T, k) \in SUBSET Newer(S, k)
  BY DEF Newer
<1>2. IsFiniteSet(Newer(S, k))
  BY PlaceType
<1>3. T \in SUBSET S
  OBVIOUS
<1> QED
  BY <1>1, <1>2, <1>3, FS_Subset DEF Place

(* A newer row has a lower place, so no two rows share one.                *)
LEMMA PlaceDescends ==
    ASSUME NEW S, IsFiniteSet(S), S \subseteq Nat, NEW k \in Nat, NEW l \in S, k < l
    PROVE  Place(S, l) < Place(S, k)
<1>1. /\ IsFiniteSet(Newer(S, l)) /\ Place(S, l) \in Nat
      /\ IsFiniteSet(Newer(S, k)) /\ Place(S, k) \in Nat
  BY PlaceType
<1>2. l \notin Newer(S, l) /\ Newer(S, l) \cup {l} \in SUBSET Newer(S, k)
  <2>1. l \in Nat /\ l \notin Newer(S, l)
    BY DEF Newer
  <2>2. \A m \in S : m > l => m > k
    BY <2>1
  <2> QED
    BY <2>1, <2>2 DEF Newer
<1>3. Cardinality(Newer(S, l) \cup {l}) = Cardinality(Newer(S, l)) + 1
  BY <1>1, <1>2, FS_AddElement
<1>4. Cardinality(Newer(S, l) \cup {l}) <= Cardinality(Newer(S, k))
  BY <1>1, <1>2, FS_Subset
<1> QED
  BY <1>1, <1>3, <1>4 DEF Place

LEMMA PlaceOrder ==
    ASSUME NEW S, IsFiniteSet(S), S \subseteq Nat, NEW k \in S, NEW l \in S
    PROVE  /\ Place(S, k) = Place(S, l) => k = l
           /\ Place(S, k) < Place(S, l) => k > l
           /\ k > l => Place(S, k) < Place(S, l)
<1>1. k < l => Place(S, l) < Place(S, k)
  BY PlaceDescends
<1>2. l < k => Place(S, k) < Place(S, l)
  BY PlaceDescends
<1>3. Place(S, k) \in Nat /\ Place(S, l) \in Nat /\ k \in Nat /\ l \in Nat
  BY PlaceType
<1> QED
  BY <1>1, <1>2, <1>3

(* A row in a page with fewer rows than there is room for leaves none out. *)
LEMMA PlaceBound ==
    ASSUME NEW S, IsFiniteSet(S), S \subseteq Nat, NEW k \in S
    PROVE  Place(S, k) < Cardinality(S)
<1>1. Newer(S, k) \in SUBSET (S \ {k})
  BY DEF Newer
<1>2. IsFiniteSet(S \ {k}) /\ Cardinality(S \ {k}) = Cardinality(S) - 1 /\ Cardinality(S) \in Nat
  BY FS_RemoveElement, FS_CardinalityType
<1>3. Place(S, k) <= Cardinality(S \ {k})
  BY <1>1, <1>2, FS_Subset DEF Place
<1>4. Place(S, k) \in Nat
  BY PlaceType
<1> QED
  BY <1>2, <1>3, <1>4

(* The n newest are n, if there are so many.                               *)
LEMMA NewestSize ==
    ASSUME NEW S, IsFiniteSet(S), S \subseteq Nat, NEW n \in Nat
    PROVE  /\ IsFiniteSet(Newest(S, n)) /\ Cardinality(Newest(S, n)) \in Nat
           /\ Newest(S, n) # S => Cardinality(Newest(S, n)) = n
<1> DEFINE f == [k \in S |-> k]
<1>1. Newest(S, n) \in SUBSET S
  BY DEF Newest
<1>2. IsFiniteSet(Newest(S, n)) /\ Cardinality(Newest(S, n)) \in Nat
  BY <1>1, FS_Subset, FS_CardinalityType
<1>3. CASE n = 0
  <2>1. Newest(S, n) = {}
    <3>1. \A k \in S : Place(S, k) \in Nat
      BY PlaceType
    <3>2. \A k \in S : ~(Place(S, k) < n)
      BY <1>3, <3>1
    <3> QED
      BY <3>2 DEF Newest, Place
  <2> QED
    BY <1>2, <1>3, <2>1, FS_EmptySet
<1>4. CASE n # 0
  <2>1. \A k \in S : Above(S, f, k) = Newer(S, k)
    BY DEF Above, Newer
  <2>2. Numbered(S, f) /\ Distinct(S, f)
    BY DEF Numbered, Distinct
  <2>3. Newest(S, n) = S \ Old(S, f, n)
    <3>1. \A k \in S : Place(S, k) \in Nat
      BY PlaceType
    <3>2. \A k \in S : Place(S, k) < n <=> ~(Place(S, k) >= n)
      BY <3>1
    <3>3. Newest(S, n) = {k \in S : Place(S, k) < n}
      BY DEF Newest, Place
    <3>4. Old(S, f, n) = {k \in S : Place(S, k) >= n}
      BY <2>1 DEF Old, Place
    <3> HIDE DEF f
    <3> QED
      BY <3>2, <3>3, <3>4
  <2> HIDE DEF f
  <2>4. Old(S, f, n) # {} => Cardinality(S \ Old(S, f, n)) = n
    BY <1>4, <2>2, OldCount
  <2> QED
    BY <1>2, <2>3, <2>4
<1> QED
  BY <1>3, <1>4

(* What a table is here.                                                   *)
FiniteKeys(S) == IsFiniteSet(S) /\ S \subseteq Nat

(* Reading more rows than the page holds tells whether there are more,     *)
(* and leaves the page as it would be.                                     *)
LEMMA PageOfRead ==
    ASSUME NEW S, NEW n, NEW more, NEW read, NEW page, FiniteKeys(S),
           n \in Nat, more \in Nat, n < more, read = Newest(S, more), page = Newest(read, n)
    PROVE  /\ page = Newest(S, n)
           /\ Cardinality(read) \in Nat
           /\ Cardinality(read) <= n => page = S
<1>0. IsFiniteSet(S) /\ S \subseteq Nat
  BY DEF FiniteKeys
<1> USE <1>0
<1>1. /\ IsFiniteSet(read) /\ read \subseteq S /\ read \subseteq Nat
      /\ Cardinality(read) \in Nat
      /\ read # S => Cardinality(read) = more
  <2>1. read \subseteq S
    BY DEF Newest
  <2>2. more \in Nat
    OBVIOUS
  <2> QED
    BY <2>1, <2>2, NewestSize
<1>2. \A k \in S : k \in read <=> Place(S, k) < more
  BY DEF Newest, Place
<1>3. \A k \in read : k \in page <=> Place(read, k) < n
  BY DEF Newest, Place
<1>4. ASSUME NEW k \in read PROVE Place(read, k) = Place(S, k)
  <2>1. ASSUME NEW m \in S, m > k PROVE m \in read
    <3>1. Place(S, m) < Place(S, k) /\ Place(S, k) < more
      BY <1>1, <1>2, <2>1, PlaceOrder
    <3>2. Place(S, m) \in Nat /\ Place(S, k) \in Nat
      BY PlaceType
    <3> QED
      BY <1>2, <3>1, <3>2
  <2>2. Newer(read, k) = Newer(S, k)
    BY <1>1, <2>1 DEF Newer
  <2> QED
    BY <2>2 DEF Place
<1>5. page = Newest(S, n)
  <2>1. \A k \in S : Place(S, k) \in Nat
    BY PlaceType
  <2>2. page \subseteq read
    BY DEF Newest
  <2>3. \A k \in S : k \in Newest(S, n) <=> Place(S, k) < n
    BY DEF Newest, Place
  <2>4. Newest(S, n) \subseteq S
    BY DEF Newest
  <2>5. \A k \in S : Place(S, k) < n => Place(S, k) < more
    BY <2>1
  <2> QED
    BY <1>1, <1>2, <1>3, <1>4, <2>2, <2>3, <2>4, <2>5
<1>6. ASSUME Cardinality(read) <= n PROVE page = S
  <2>1. read = S
    BY <1>1, <1>6
  <2>2. \A k \in S : Place(S, k) < n
    <3> TAKE k \in S
    <3>1. Place(S, k) < Cardinality(S) /\ Place(S, k) \in Nat
      BY PlaceBound, PlaceType
    <3> QED
      BY <1>1, <1>6, <2>1, <3>1
  <2> QED
    BY <1>5, <2>2 DEF Newest, Place
<1> QED
  BY <1>1, <1>5, <1>6

(* The rows a cursor has passed, and those that are left.                  *)
Passed(b, S, off, id) ==
    IF b = "postgres" THEN {k \in S : id # 0 /\ k >= id}
                      ELSE {k \in S : Place(S, k) < off}
Rest(b, S, off, id) ==
    IF b = "postgres" THEN After(S, id)
                      ELSE {k \in S : Place(S, k) >= off}

LEMMA PlaceInRest ==
    ASSUME NEW S, NEW off, NEW k, NEW T, IsFiniteSet(S), S \subseteq Nat, off \in Nat,
           T = {m \in S : Place(S, m) >= off}, k \in T
    PROVE  Place(S, k) = Place(T, k) + off
<1>0. k \in S /\ Place(S, k) >= off
  OBVIOUS
<1> USE <1>0
<1>1. \A m \in S : Place(S, m) \in Nat
  BY PlaceType
<1>2. IsFiniteSet(T) /\ T \subseteq Nat
  BY PlaceGrows
<1>3. IsFiniteSet(Newer(T, k)) /\ Place(T, k) \in Nat
  BY <1>2, PlaceType
<1>4. S \ T = Newest(S, off)
  <2>1. \A m \in S : Place(S, m) < off <=> ~(Place(S, m) >= off)
    BY <1>1
  <2>2. Newest(S, off) = {m \in S : Place(S, m) < off}
    BY DEF Newest, Place
  <2> QED
    BY <2>1, <2>2
<1>5. IsFiniteSet(Newest(S, off)) /\ Cardinality(Newest(S, off)) = off
  <2>1. Newest(S, off) # S
    BY <1>4
  <2> QED
    BY <2>1, NewestSize
<1>6. Newer(S, k) = Newer(T, k) \cup Newest(S, off) /\ Newer(T, k) \cap Newest(S, off) = {}
  <2>1. ASSUME NEW m \in Newest(S, off) PROVE m \in S /\ m > k /\ m \notin T
    <3>1. m \in S /\ Place(S, m) < off
      BY DEF Newest, Place
    <3>2. Place(S, m) < Place(S, k)
      BY <1>1, <3>1
    <3> QED
      BY <1>4, <3>1, <3>2, PlaceOrder
  <2>2. T \subseteq S
    OBVIOUS
  <2>3. \A m \in S : m \in T \/ m \in Newest(S, off)
    BY <1>4
  <2> QED
    BY <2>1, <2>2, <2>3 DEF Newer
<1>7. Cardinality(Newer(T, k) \cap Newest(S, off)) = 0
  BY <1>6, FS_EmptySet
<1>8. Cardinality(Newer(T, k) \cup Newest(S, off)) = Place(T, k) + off
  <2>1. Cardinality(Newer(T, k) \cup Newest(S, off)) =
          Cardinality(Newer(T, k)) + Cardinality(Newest(S, off))
            - Cardinality(Newer(T, k) \cap Newest(S, off))
    BY <1>3, <1>5, FS_Union
  <2> QED
    BY <1>3, <1>5, <1>7, <2>1 DEF Place
<1> QED
  BY <1>6, <1>8 DEF Place

LEMMA WindowOfRest ==
    ASSUME NEW S, NEW c, NEW n, IsFiniteSet(S), S \subseteq Nat,
           c \in [offset : Nat, id : Nat], n \in Nat \ {0}
    PROVE  Window(S, c, n) = Newest(Rest(backend, S, c.offset, c.id), n)
<1>1. CASE backend = "postgres"
  BY <1>1 DEF Window, Rest
<1>2. CASE backend # "postgres"
  <2> DEFINE off == c.offset
             T == {m \in S : Place(S, m) >= off}
  <2>1. off \in Nat /\ \A k \in S : Place(S, k) \in Nat
    BY PlaceType
  <2>2. IsFiniteSet(T) /\ T \subseteq Nat /\ T \subseteq S
    BY PlaceGrows
  <2>3. \A k \in T : Place(T, k) \in Nat
    <3> HIDE DEF T
    <3> QED
      BY <2>2, PlaceType
  <2>4. ASSUME NEW k \in T PROVE Place(S, k) = Place(T, k) + off
    <3>1. PICK U : U = T
      OBVIOUS
    <3>2. PICK o : o = off
      OBVIOUS
    <3>3. U = {m \in S : Place(S, m) >= o} /\ k \in U /\ o \in Nat
      BY <2>1, <3>1, <3>2
    <3> HIDE DEF T, off
    <3>4. Place(S, k) = Place(U, k) + o
      BY <3>3, PlaceInRest
    <3> QED
      BY <3>1, <3>2, <3>4
  <2>5. Newest(T, n) = {k \in T : Place(T, k) < n}
    BY DEF Newest, Place
  <2>6. Window(S, c, n) = {k \in S : Place(S, k) \in off..(off + n - 1)}
    BY <1>2 DEF Window, Place
  <2>7. \A k \in S : Place(S, k) \in off..(off + n - 1) <=> k \in T /\ Place(T, k) < n
    <3> TAKE k \in S
    <3>1. CASE k \in T
      BY <2>1, <2>3, <2>4, <3>1
    <3>2. CASE k \notin T
      BY <2>1, <3>2
    <3> QED
      BY <3>1, <3>2
  <2>8. Rest(backend, S, c.offset, c.id) = T
    BY <1>2 DEF Rest
  <2> HIDE DEF T
  <2> QED
    BY <2>2, <2>5, <2>6, <2>7, <2>8
<1> QED
  BY <1>1, <1>2

(* The rows left, of which some are the page.                              *)
LEMMA PassedAndRest ==
    ASSUME NEW S, NEW off, NEW id, NEW b,
           IsFiniteSet(S), S \subseteq Nat, off \in Nat, id \in Nat
    PROVE  /\ Passed(b, S, off, id) \subseteq S /\ Rest(b, S, off, id) \subseteq S
           /\ Passed(b, S, off, id) \cap Rest(b, S, off, id) = {}
           /\ \A a \in Passed(b, S, off, id), r \in Rest(b, S, off, id) : a > r
           /\ b # "postgres" \/ id \in S \cup {0} => Passed(b, S, off, id) \cup Rest(b, S, off, id) = S
           /\ b = "postgres" /\ id \notin S \cup {0} => Rest(b, S, off, id) = {}
<1>1. /\ \A k \in S : Place(S, k) \in Nat /\ k \in Nat
  BY PlaceType
<1> DEFINE P == Passed(b, S, off, id)
           R == Rest(b, S, off, id)
<1>2. CASE b = "postgres" /\ id \in S \cup {0}
  <2>1. P = {k \in S : id # 0 /\ k >= id}
    BY <1>2 DEF Passed
  <2>2. R = {k \in S : id = 0 \/ k < id}
    BY <1>2 DEF Rest, After
  <2>3. \A k \in S : k < id <=> ~(k >= id)
    BY <1>1
  <2> HIDE DEF P, R
  <2>4. ASSUME NEW a \in P, NEW r \in R PROVE a > r
    <3>1. a \in Nat /\ r \in Nat
      BY <1>1, <2>1, <2>2
    <3>2. a >= id /\ r < id
      BY <2>1, <2>2
    <3> QED
      BY <3>1, <3>2
  <2>5. P \cup R = S /\ P \cap R = {} /\ P \subseteq S /\ R \subseteq S
    BY <2>1, <2>2, <2>3
  <2> QED
    BY <1>2, <2>4, <2>5 DEF P, R
<1>3. CASE b = "postgres" /\ id \notin S \cup {0}
  <2>1. P \subseteq S
    BY <1>3 DEF Passed
  <2>2. R = {}
    BY <1>3 DEF Rest, After
  <2> HIDE DEF P, R
  <2> QED
    BY <1>3, <2>1, <2>2 DEF P, R
<1>4. CASE b # "postgres"
  <2>1. P = {k \in S : Place(S, k) < off}
    BY <1>4 DEF Passed
  <2>2. R = {k \in S : Place(S, k) >= off}
    BY <1>4 DEF Rest
  <2>3. \A k \in S : Place(S, k) < off <=> ~(Place(S, k) >= off)
    BY <1>1
  <2> HIDE DEF P, R
  <2>4. ASSUME NEW a \in P, NEW r \in R PROVE a > r
    <3>1. a \in S /\ r \in S /\ Place(S, a) < off /\ Place(S, r) >= off
      BY <2>1, <2>2
    <3>2. Place(S, a) < Place(S, r)
      BY <1>1, <3>1
    <3> QED
      BY <3>1, <3>2, PlaceOrder
  <2>5. P \cup R = S /\ P \cap R = {} /\ P \subseteq S /\ R \subseteq S
    BY <2>1, <2>2, <2>3
  <2> QED
    BY <1>4, <2>4, <2>5 DEF P, R
<1> QED
  BY <1>2, <1>3, <1>4

(* What a page does: it is the newest of the rows that are left, and a     *)
(* last page is all that is left.                                          *)
LEMMA PageExact ==
    ASSUME NEW S, NEW c, NEW n, NEW more, NEW page, NEW read, IsFiniteSet(S), S \subseteq Nat,
           c \in [offset : Nat, id : Nat], n \in Nat \ {0}, more = n + 1,
           read = Window(S, c, more), page = Newest(read, n)
    PROVE  /\ page = Newest(Rest(backend, S, c.offset, c.id), n)
           /\ page \subseteq Rest(backend, S, c.offset, c.id) /\ Cardinality(read) \in Nat
           /\ Cardinality(read) <= n => page = Rest(backend, S, c.offset, c.id)
<1>1. PICK R : R = Rest(backend, S, c.offset, c.id)
  OBVIOUS
<1>2. R \subseteq S
  BY <1>1, PassedAndRest
<1>3. FiniteKeys(R)
  BY <1>2, PlaceGrows DEF FiniteKeys
<1>4. read = Newest(R, more)
  <2>1. more \in Nat \ {0}
    OBVIOUS
  <2>2. Window(S, c, more) = Newest(Rest(backend, S, c.offset, c.id), more)
    BY <2>1, WindowOfRest
  <2> QED
    BY <1>1, <2>2
<1>5. /\ page = Newest(R, n) /\ Cardinality(read) \in Nat
      /\ Cardinality(read) <= n => page = R
  BY <1>3, <1>4, PageOfRead
<1>6. page \subseteq R
  BY <1>5 DEF Newest
<1> QED
  BY <1>1, <1>5, <1>6

(* The row the next cursor names.                                          *)
Oldest(page, k) == k \in page /\ \A m \in page : k <= m

(* The next cursor has passed the page and what was passed before.         *)
LEMMA PassedNext ==
    ASSUME NEW S, NEW off, NEW id, NEW n, NEW b, NEW page, NEW last,
           IsFiniteSet(S), S \subseteq Keys, off \in Nat, id \in Nat, n \in Nat \ {0}, last \in Nat,
           page = Newest(Rest(b, S, off, id), n), Oldest(page, last)
    PROVE  Passed(b, S, off + n, last) = Passed(b, S, off, id) \cup page
<1> DEFINE R == Rest(b, S, off, id)
           P == Passed(b, S, off, id)
<1>1. last \in page /\ \A m \in page : last <= m
  BY DEF Oldest
<1>2. S \subseteq Nat
  BY BoundsAssumption DEF Keys
<1>9. 0 \notin S
  BY BoundsAssumption DEF Keys
<1>3. /\ R \subseteq S /\ P \subseteq S /\ \A a \in P, r \in R : a > r
      /\ b # "postgres" \/ id \in S \cup {0} => P \cup R = S
      /\ b = "postgres" /\ id \notin S \cup {0} => R = {}
  BY <1>2, PassedAndRest
<1>4. IsFiniteSet(R) /\ R \subseteq Nat
  <2> HIDE DEF R
  <2> QED
    BY <1>2, <1>3, PlaceGrows
<1>5. page = {k \in R : Place(R, k) < n}
  BY DEF Newest, Place
<1>6. P \cup R = S
  BY <1>1, <1>3, <1>5
<1>7. CASE b = "postgres"
  <2>1. Passed(b, S, off + n, last) = {k \in S : last # 0 /\ k >= last}
    BY <1>7 DEF Passed
  <2>2. last \in R /\ last \in Nat \ {0} /\ last \in S
    BY <1>1, <1>2, <1>3, <1>5, <1>9
  <2>3. ASSUME NEW k \in P PROVE k >= last
    <3>1. k > last /\ k \in Nat
      BY <1>2, <1>3, <2>2
    <3> QED
      BY <2>2, <3>1
  <2>4. ASSUME NEW k \in R PROVE k >= last <=> k \in page
    <3>1. ASSUME k >= last PROVE k \in page
      <4>1. k = last \/ Place(R, k) < Place(R, last)
        <5> HIDE DEF R
        <5>1. k > last => Place(R, k) < Place(R, last)
          BY <1>4, <2>2, PlaceOrder
        <5>2. k \in Nat /\ last \in Nat
          BY <1>4, <2>2
        <5> QED
          BY <3>1, <5>1, <5>2
      <4>2. Place(R, last) < n
        BY <1>1, <1>5
      <4>3. Place(R, last) \in Nat /\ Place(R, k) \in Nat
        <5> HIDE DEF R
        <5> QED
          BY <1>2, <1>4, PlaceType
      <4>4. Place(R, k) < n
        BY <4>1, <4>2, <4>3
      <4> QED
        BY <1>5, <4>4
    <3>2. ASSUME k \in page PROVE k >= last
      BY <1>1, <1>4, <2>2, <3>2
    <3> QED
      BY <3>1, <3>2
  <2>5. Passed(b, S, off + n, last) = P \cup page
    <3> HIDE DEF P, R
    <3> QED
      BY <1>3, <1>5, <1>6, <2>1, <2>2, <2>3, <2>4
  <2> QED
    BY <2>5
<1>8. CASE b # "postgres"
  <2>1. Passed(b, S, off + n, last) = {k \in S : Place(S, k) < off + n}
    BY <1>8 DEF Passed
  <2>2. P = {k \in S : Place(S, k) < off}
    BY <1>8 DEF Passed
  <2>3. R = {k \in S : Place(S, k) >= off}
    BY <1>8 DEF Rest
  <2>4. ASSUME NEW k \in R PROVE Place(S, k) = Place(R, k) + off
    <3>1. k \in S /\ Place(S, k) >= off
      BY <2>3
    <3>2. Place(S, k) = Place({m \in S : Place(S, m) >= off}, k) + off
      BY <1>2, <3>1, PlaceInRest
    <3> QED
      BY <2>3, <3>2
  <2>5. /\ \A k \in S : Place(S, k) \in Nat
        /\ \A k \in R : Place(R, k) \in Nat
    <3> HIDE DEF R
    <3> QED
      BY <1>2, <1>4, PlaceType
  <2>6. \A k \in R : Place(S, k) < off + n <=> Place(R, k) < n
    BY <2>4, <2>5, <1>3
  <2>7. \A k \in S : Place(S, k) < off => Place(S, k) < off + n
    BY <2>5
  <2>8. Passed(b, S, off + n, last) = P \cup page
    <3> HIDE DEF P, R
    <3> QED
      BY <1>3, <1>5, <1>6, <2>1, <2>2, <2>6, <2>7
  <2> QED
    BY <2>8
<1> QED
  BY <1>7, <1>8

-----------------------------------------------------------------------------
(* Sizes of sets that lose or gain a row.                                  *)
LEMMA AtMost ==
    ASSUME NEW A, IsFiniteSet(A), NEW B, B \subseteq A
    PROVE  /\ IsFiniteSet(B) /\ Cardinality(B) \in Nat /\ Cardinality(A) \in Nat
           /\ Cardinality(B) <= Cardinality(A)
<1>1. B \in SUBSET A
  OBVIOUS
<1> QED
  BY <1>1, FS_Subset, FS_CardinalityType

LEMMA AtMostOneMore ==
    ASSUME NEW A, IsFiniteSet(A), NEW y, NEW B, B \subseteq A \cup {y}
    PROVE  /\ IsFiniteSet(B) /\ Cardinality(B) \in Nat /\ Cardinality(A) \in Nat
           /\ Cardinality(B) <= Cardinality(A) + 1
<1>1. IsFiniteSet(A \cup {y}) /\ Cardinality(A) \in Nat
  BY FS_AddElement, FS_CardinalityType
<1>2. Cardinality(A \cup {y}) <= Cardinality(A) + 1
  <2>1. CASE y \in A
    <3>1. A \cup {y} = A
      BY <2>1
    <3> QED
      BY <1>1, <3>1
  <2>2. CASE y \notin A
    BY <1>1, <2>2, FS_AddElement
  <2> QED
    BY <2>1, <2>2
<1>3. /\ IsFiniteSet(B) /\ Cardinality(B) \in Nat /\ Cardinality(A \cup {y}) \in Nat
      /\ Cardinality(B) <= Cardinality(A \cup {y})
  BY <1>1, AtMost
<1> QED
  BY <1>1, <1>2, <1>3

(* A new row pushes every older row back by one place.                     *)
LEMMA PlaceOfAdded ==
    ASSUME NEW S, IsFiniteSet(S), S \subseteq Nat, NEW x \in Nat, x \notin S, NEW k \in Nat
    PROVE  Place(S \cup {x}, k) = IF x > k THEN Place(S, k) + 1 ELSE Place(S, k)
<1>1. IsFiniteSet(Newer(S, k)) /\ Place(S, k) \in Nat
  BY PlaceType
<1>2. CASE x > k
  <2>1. Newer(S \cup {x}, k) = Newer(S, k) \cup {x} /\ x \notin Newer(S, k)
    BY <1>2 DEF Newer
  <2>2. Cardinality(Newer(S, k) \cup {x}) = Cardinality(Newer(S, k)) + 1
    BY <1>1, <2>1, FS_AddElement
  <2> QED
    BY <1>2, <2>1, <2>2 DEF Place
<1>3. CASE ~(x > k)
  <2>1. Newer(S \cup {x}, k) = Newer(S, k)
    BY <1>3 DEF Newer
  <2> QED
    BY <1>3, <2>1 DEF Place
<1> QED
  BY <1>2, <1>3

(* Whoever drops the oldest rows leaves the places of the others.          *)
LEMMA PlaceOfKept ==
    ASSUME NEW S, IsFiniteSet(S), S \subseteq Nat, NEW n \in Nat, NEW k \in Newest(S, n)
    PROVE  Place(Newest(S, n), k) = Place(S, k)
<1>1. k \in S /\ Place(S, k) < n /\ Place(S, k) \in Nat
  BY PlaceType DEF Newest, Place
<1>2. ASSUME NEW m \in S, m > k PROVE m \in Newest(S, n)
  <2>1. Place(S, m) < Place(S, k)
    BY <1>1, <1>2, PlaceOrder
  <2>2. Place(S, m) \in Nat
    BY PlaceType
  <2>3. Place(S, m) < n
    BY <1>1, <2>1, <2>2
  <2> QED
    BY <2>3 DEF Newest, Place
<1>3. Newest(S, n) \subseteq S
  BY DEF Newest
<1>4. Newer(Newest(S, n), k) = Newer(S, k)
  BY <1>2, <1>3 DEF Newer
<1> QED
  BY <1>4 DEF Place

(* What is dropped is older than what is kept.                             *)
LEMMA KeptAreNewer ==
    ASSUME NEW S, IsFiniteSet(S), S \subseteq Nat, NEW n \in Nat,
           NEW k \in Newest(S, n), NEW m \in S \ Newest(S, n)
    PROVE  k > m
<1>1. k \in S /\ Place(S, k) < n /\ Place(S, k) \in Nat /\ Place(S, m) \in Nat
  BY PlaceType DEF Newest, Place
<1>2. ~(Place(S, m) < n)
  BY DEF Newest, Place
<1>3. Place(S, k) < Place(S, m)
  BY <1>1, <1>2
<1> QED
  BY <1>1, <1>3, PlaceOrder

(* No two rows share a place.                                              *)
LEMMA OneAtPlace ==
    ASSUME NEW S, IsFiniteSet(S), S \subseteq Nat, NEW p
    PROVE  \E y : \A k \in S : Place(S, k) = p => k = y
<1>1. CASE \E k \in S : Place(S, k) = p
  <2>1. PICK y \in S : Place(S, y) = p
    BY <1>1
  <2>2. \A k \in S : Place(S, k) = p => k = y
    BY <2>1, PlaceOrder
  <2> QED
    BY <2>2
<1>2. CASE ~ \E k \in S : Place(S, k) = p
  BY <1>2
<1> QED
  BY <1>1, <1>2

-----------------------------------------------------------------------------
(* What the pages list, and how often, when one is added.                  *)
ListedIn(ps) == UNION {ps[i] : i \in DOMAIN ps}
TimesIn(ps, k) == Cardinality({i \in DOMAIN ps : k \in ps[i]})

LEMMA PageAdded ==
    ASSUME NEW T, NEW ps, NEW page, ps \in Seq(T), page \in T
    PROVE  LET qs == Append(ps, page) IN
           /\ ListedIn(qs) = ListedIn(ps) \cup page
           /\ \A k : /\ TimesIn(ps, k) \in Nat
                     /\ TimesIn(qs, k) = IF k \in page THEN TimesIn(ps, k) + 1
                                                       ELSE TimesIn(ps, k)
                     /\ k \notin ListedIn(ps) => TimesIn(ps, k) = 0
<1> DEFINE qs == Append(ps, page)
           n == Len(ps) + 1
<1>1. /\ DOMAIN qs = DOMAIN ps \cup {n} /\ n \notin DOMAIN ps
      /\ qs[n] = page /\ \A i \in DOMAIN ps : qs[i] = ps[i]
  OBVIOUS
<1>2. IsFiniteSet(DOMAIN ps)
  <2>1. DOMAIN ps = 1..Len(ps) /\ Len(ps) \in Nat
    OBVIOUS
  <2> QED
    BY <2>1, FS_Interval
<1> HIDE DEF qs, n
<1>3. ListedIn(qs) = ListedIn(ps) \cup page
  BY <1>1 DEF ListedIn
<1>4. ASSUME NEW k
      PROVE  /\ TimesIn(ps, k) \in Nat
             /\ TimesIn(qs, k) = IF k \in page THEN TimesIn(ps, k) + 1 ELSE TimesIn(ps, k)
             /\ k \notin ListedIn(ps) => TimesIn(ps, k) = 0
  <2> DEFINE I == {i \in DOMAIN ps : k \in ps[i]}
             J == {i \in DOMAIN qs : k \in qs[i]}
  <2>1. IsFiniteSet(I) /\ Cardinality(I) \in Nat
    BY <1>2, AtMost
  <2>2. n \notin I /\ J = IF k \in page THEN I \cup {n} ELSE I
    BY <1>1
  <2>3. k \notin ListedIn(ps) => I = {}
    BY DEF ListedIn
  <2>4. TimesIn(ps, k) = Cardinality(I) /\ TimesIn(qs, k) = Cardinality(J)
    BY DEF TimesIn
  <2> HIDE DEF I, J
  <2>5. Cardinality(I \cup {n}) = Cardinality(I) + 1
    BY <2>1, <2>2, FS_AddElement
  <2> QED
    BY <2>1, <2>2, <2>3, <2>4, <2>5, FS_EmptySet
<1> QED
  BY <1>3, <1>4 DEF qs

-----------------------------------------------------------------------------
Active == pc \in {"ready", "query"}

(* The rows the client's cursor has passed.                                *)
Seen == Passed(backend, rows, cursor.offset, cursor.id)

(* Keys are handed out once: a row still to become visible has not been    *)
(* listed, and before the first page there is nothing to count.            *)
Books ==
    /\ start \subseteq 1..issued
    /\ Listed \subseteq 1..issued
    /\ cursor.id \in 0..issued
    /\ pending \cap (rows \cup start \cup Listed) = {}
    /\ kind = "revisions" => pending = {}
    /\ ~Begun => /\ cursor = NoCursor /\ start = {} /\ Listed = {}
                 /\ came = 0 /\ gone = 0 /\ pc # "done"

(* Where nothing may be skipped, nothing was: of the rows passed, those    *)
(* there from the start are listed.  When the row of a revisions cursor is *)
(* pruned, all the rows behind it went before.                             *)
NoneSkipped ==
    /\ (kind = "revisions" \/ backend = "postgres") /\ Active => start \cap Seen \subseteq Listed
    /\ kind = "revisions" /\ backend = "postgres" /\ Active /\ cursor.id \notin rows =>
          \A k \in rows : k > cursor.id
    /\ NothingSkipped

(* While nothing comes or goes, what is listed is what was passed.         *)
ExactSoFar ==
    came = 0 /\ gone = 0 =>
        /\ \A i, j \in DOMAIN pages : i < j =>
              \A a \in pages[i], b \in pages[j] : a > b
        /\ Active => /\ Begun => rows = start
                     /\ cursor.id \in rows \cup {0}
                     /\ Listed = Seen
        /\ pc = "done" => Listed = start

(* Rows passed unread; rows listed twice, or listed and to be read again.  *)
Overlooked == IF Active THEN (start \cap Seen) \ Listed ELSE
              IF pc = "done" THEN Missed ELSE {}
Again == {k \in Listed : Times(k) > 1}
Due == IF Active THEN (Listed \cap rows) \ Seen ELSE {}

(* Each deletion lets one row at most be passed unread; each new row makes *)
(* one at most due again, and a row returned t times was pushed back by    *)
(* t - 1 new rows, or t if it is due.                                      *)
DriftSoFar ==
    backend = "sqlite" =>
        /\ Cardinality(Overlooked) <= gone
        /\ \A k \in Listed : Times(k) <= came + 1
        /\ Active => \A k \in Listed \cap rows : Times(k) + Place(rows, k) <= came + cursor.offset
        /\ Cardinality(Again \cup Due) <= came

CountsInv == LInv /\ Books /\ NoneSkipped /\ ExactSoFar /\ DriftSoFar

LEMMA CountsInit == Init => CountsInv
<1> SUFFICES ASSUME Init PROVE CountsInv
  OBVIOUS
<1>1. LInv
  BY LInit
<1>2. /\ pages = <<>> /\ DOMAIN pages = {} /\ Listed = {} /\ ~Begun
      /\ rows = {} /\ start = {} /\ pc = "ready" /\ Active
      /\ came = 0 /\ gone = 0 /\ cursor = NoCursor /\ cursor.id = 0
  BY DEF Init, Listed, Begun, NoCursor, Active
<1>3. Seen = {}
  BY <1>2 DEF Seen, Passed
<1>4. Books
  BY <1>2, BoundsAssumption DEF Init, Books
<1>5. NoneSkipped /\ ExactSoFar
  BY <1>2, <1>3 DEF NoneSkipped, ExactSoFar, NothingSkipped
<1>6. DriftSoFar
  <2>1. Overlooked = {} /\ Again = {} /\ Due = {}
    BY <1>2, <1>3 DEF Overlooked, Again, Due
  <2>2. Cardinality({}) = 0
    BY FS_EmptySet
  <2>3. Again \cup Due = {}
    BY <2>1
  <2> QED
    BY <1>2, <2>1, <2>2, <2>3 DEF DriftSoFar
<1> QED
  BY <1>1, <1>4, <1>5, <1>6 DEF CountsInv

(* A page, as ListPage takes it.                                           *)
LEMMA PageTaken ==
    ASSUME LInv, Books, NEW limit \in PageSizes, ListPage(limit)
    PROVE  \E page \in SUBSET Keys :
              /\ page \subseteq Rest(backend, rows, cursor.offset, cursor.id)
              /\ pages' = Append(pages, page)
              /\ \/ /\ pc' = "ready" /\ Seen' = Seen \cup page
                    /\ cursor'.offset = cursor.offset + limit /\ cursor'.id \in page
                 \/ /\ pc' = "done" /\ page = Rest(backend, rows, cursor.offset, cursor.id)
                    /\ cursor' = cursor
<1> DEFINE read == Window(rows, cursor, limit + 1)
           page == Newest(read, limit)
           more == Cardinality(read) > limit
<1>1. /\ limit \in Nat \ {0} /\ MaxKey \in Nat /\ issued \in Nat /\ issued <= MaxKey
      /\ rows \subseteq 1..issued /\ cursor \in [offset : Nat, id : 0..MaxKey]
  BY PageSizesAssumption, BoundsAssumption DEF LInv, TypeOK
<1>2. /\ cursor \in [offset : Nat, id : Nat] /\ cursor.offset \in Nat /\ cursor.id \in Nat
      /\ IsFiniteSet(rows) /\ rows \subseteq Nat \ {0} /\ rows \subseteq Keys
  <2>1. IsFiniteSet(rows)
    BY <1>1, KeysFinite
  <2>2. 1..issued \subseteq Keys /\ Keys \subseteq Nat \ {0} /\ 0..MaxKey \subseteq Nat
    BY <1>1 DEF Keys
  <2> QED
    BY <1>1, <2>1, <2>2
<1>0. PICK S, b : S = rows /\ b = backend
  OBVIOUS
<1>3. PICK off \in Nat, id \in Nat, n \in Nat \ {0} :
        /\ off = cursor.offset /\ id = cursor.id /\ n = limit
        /\ S = rows /\ b = backend
  BY <1>0, <1>1, <1>2
<1>4. IsFiniteSet(S) /\ S \subseteq Nat \ {0} /\ S \subseteq Nat /\ S \subseteq Keys /\ S \subseteq 1..issued
  BY <1>1, <1>2, <1>3
<1>5. PICK r, p : r = read /\ p = page
  OBVIOUS
<1>6. /\ pages' = Append(pages, p)
      /\ IF more THEN cursor' = NextCursor(cursor, p, n) /\ pc' = "ready"
                 ELSE pc' = "done" /\ cursor' = cursor
      /\ rows' = rows /\ backend' = backend
  BY <1>3, <1>5 DEF ListPage, ReadPage, table
<1>7. r = Window(rows, cursor, n + 1) /\ p = Newest(r, n) /\ (more <=> Cardinality(r) > n)
  BY <1>3, <1>5
<1> HIDE DEF read, page, more
<1>8. /\ Cardinality(r) \in Nat /\ p = Newest(Rest(b, S, off, id), n)
      /\ p \subseteq Rest(b, S, off, id)
      /\ Cardinality(r) <= n => p = Rest(b, S, off, id)
  <2>1. PICK c \in [offset : Nat, id : Nat] : c = cursor
    BY <1>2
  <2>2. PICK m : m = n + 1 /\ r = Window(S, c, m)
    BY <1>3, <1>7, <2>1
  <2>3. off = c.offset /\ id = c.id
    BY <1>3, <2>1
  <2>4. /\ p = Newest(Rest(backend, S, c.offset, c.id), n)
        /\ p \subseteq Rest(backend, S, c.offset, c.id) /\ Cardinality(r) \in Nat
        /\ Cardinality(r) <= n => p = Rest(backend, S, c.offset, c.id)
    BY <1>4, <1>7, <2>2, PageExact
  <2> QED
    BY <1>3, <2>3, <2>4
<1>9. Rest(b, S, off, id) \subseteq S
  BY <1>4, PassedAndRest
<1>10. p \in SUBSET Keys /\ p \subseteq 1..issued
  BY <1>4, <1>8, <1>9
<1>11. ASSUME more PROVE /\ pc' = "ready" /\ Seen' = Seen \cup p
                         /\ cursor'.offset = cursor.offset + limit /\ cursor'.id \in p
  <2>1. cursor' = NextCursor(cursor, p, n) /\ pc' = "ready" /\ Cardinality(r) > n
    BY <1>6, <1>7, <1>11
  <2>2. p # {}
    <3>1. Cardinality({}) = 0
      BY FS_EmptySet
    <3>2. r # {}
      BY <2>1, <3>1
    <3>3. r \subseteq 1..issued
      BY <1>1, <1>7, PageRows
    <3> QED
      BY <1>1, <1>7, <3>2, <3>3, NewestNotEmpty
  <2>3. \E k \in p : \A m \in p : k <= m
    BY <1>1, <1>10, <2>2, HasSmallest
  <2>4. PICK last \in Nat : /\ last = (CHOOSE k \in p : \A m \in p : k <= m)
                            /\ last \in p /\ \A m \in p : last <= m
    <3>1. (CHOOSE k \in p : \A m \in p : k <= m) \in p
      BY <2>3
    <3>2. p \subseteq Nat
      BY <1>4, <1>8, <1>9
    <3> QED
      BY <2>3, <3>1, <3>2
  <2>5. cursor' = [offset |-> off + n, id |-> last]
    BY <1>3, <2>1, <2>4 DEF NextCursor
  <2>6. cursor'.offset = off + n /\ cursor'.id = last
    BY <2>5
  <2>7. Passed(b, S, off + n, last) = Passed(b, S, off, id) \cup p
    <3>1. Oldest(p, last)
      BY <2>4 DEF Oldest
    <3>2. IsFiniteSet(S) /\ S \subseteq Keys /\ p = Newest(Rest(b, S, off, id), n)
      BY <1>4, <1>8
    <3> QED
      BY <3>1, <3>2, PassedNext
  <2>8. Seen = Passed(b, S, off, id) /\ Seen' = Passed(b, S, off + n, last)
    BY <1>3, <1>6, <2>6 DEF Seen
  <2> QED
    BY <1>3, <2>1, <2>4, <2>6, <2>7, <2>8
<1>12. ASSUME ~more PROVE pc' = "done" /\ cursor' = cursor /\ p = Rest(b, S, off, id)
  BY <1>6, <1>7, <1>8, <1>12
<1> QED
  BY <1>3, <1>6, <1>8, <1>10, <1>11, <1>12

LEMMA TimesNat ==
    ASSUME TypeOK, NEW k
    PROVE  Times(k) \in Nat
<1>1. PICK ps : ps = pages
  OBVIOUS
<1>2. IsFiniteSet(DOMAIN ps)
  <2>1. DOMAIN ps = 1..Len(ps) /\ Len(ps) \in Nat
    BY <1>1 DEF TypeOK
  <2> QED
    BY <2>1, FS_Interval
<1>3. {i \in DOMAIN ps : k \in ps[i]} \subseteq DOMAIN ps
  OBVIOUS
<1> QED
  BY <1>1, <1>2, <1>3, AtMost DEF Times

(* What a page changes, in terms of what is listed and what is passed.     *)
TakesPage(page) ==
    /\ Active
    /\ page \subseteq rows \ Seen
    /\ \A a \in Seen, r \in page : a > r
    /\ pages' = Append(pages, page)
    /\ Listed' = Listed \cup page
    /\ \A k : /\ Times(k) \in Nat
              /\ Times(k)' = IF k \in page THEN Times(k) + 1 ELSE Times(k)
              /\ k \notin Listed => Times(k) = 0
    /\ start' = IF Begun THEN start ELSE rows
    /\ cut' = (cut \/ cursor.id \notin rows \cup {0})
    /\ UNCHANGED <<backend, kind, issued, pending, rows, came, gone>>
    /\ \/ /\ pc' = "ready"
          /\ Seen' = Seen \cup page
          /\ cursor'.id \in page
          /\ cursor'.offset >= cursor.offset
       \/ /\ pc' = "done"
          /\ cursor' = cursor
          /\ page = Rest(backend, rows, cursor.offset, cursor.id)

(* The rows are finitely many.                                             *)
LEMMA RowsFinite ==
    ASSUME TypeOK
    PROVE  /\ issued \in Nat /\ rows \subseteq 1..issued
           /\ IsFiniteSet(rows) /\ rows \subseteq Nat
           /\ cursor.offset \in Nat /\ cursor.id \in Nat
<1>1. issued \in Nat /\ rows \subseteq 1..issued
  BY BoundsAssumption DEF TypeOK
<1>2. IsFiniteSet(rows)
  BY <1>1, KeysFinite
<1>3. cursor.offset \in Nat /\ cursor.id \in 0..MaxKey
  BY DEF TypeOK
<1>4. cursor.id \in Nat
  BY <1>3, BoundsAssumption
<1> QED
  BY <1>1, <1>2, <1>3, <1>4

(* What is passed and what is left, of the rows there are.                 *)
LEMMA SeenAndLeft ==
    ASSUME LInv, NEW left, left = Rest(backend, rows, cursor.offset, cursor.id)
    PROVE  /\ Seen \subseteq rows /\ left \subseteq rows /\ Seen \cap left = {}
           /\ \A a \in Seen, r \in left : a > r
           /\ backend # "postgres" \/ cursor.id \in rows \cup {0} => Seen \cup left = rows
           /\ backend = "postgres" /\ cursor.id \notin rows \cup {0} => left = {}
<1>0. PICK S, b : S = rows /\ b = backend
  OBVIOUS
<1>1. PICK off \in Nat, id \in Nat :
        off = cursor.offset /\ id = cursor.id /\ S = rows /\ b = backend
  BY <1>0, RowsFinite DEF LInv
<1>2. IsFiniteSet(S) /\ S \subseteq Nat
  BY <1>1, RowsFinite DEF LInv
<1>3. Seen = Passed(b, S, off, id) /\ left = Rest(b, S, off, id)
  BY <1>1 DEF Seen
<1>4. PICK P, R : P = Passed(b, S, off, id) /\ R = Rest(b, S, off, id)
  OBVIOUS
<1>5. /\ P \subseteq S /\ R \subseteq S /\ P \cap R = {}
      /\ \A a \in P, r \in R : a > r
      /\ b # "postgres" \/ id \in S \cup {0} => P \cup R = S
      /\ b = "postgres" /\ id \notin S \cup {0} => R = {}
  BY <1>2, <1>4, PassedAndRest
<1>6. Seen = P /\ left = R
  BY <1>3, <1>4
<1> QED
  BY <1>1, <1>5, <1>6

LEMMA PageStep ==
    ASSUME LInv, Books, NEW limit \in PageSizes, ListPage(limit)
    PROVE  \E page : TakesPage(page)
<1>1. PICK page \in SUBSET Keys :
              /\ page \subseteq Rest(backend, rows, cursor.offset, cursor.id)
              /\ pages' = Append(pages, page)
              /\ \/ /\ pc' = "ready" /\ Seen' = Seen \cup page
                    /\ cursor'.offset = cursor.offset + limit /\ cursor'.id \in page
                 \/ /\ pc' = "done" /\ page = Rest(backend, rows, cursor.offset, cursor.id)
                    /\ cursor' = cursor
  BY PageTaken
<1>2. PICK left : left = Rest(backend, rows, cursor.offset, cursor.id)
  OBVIOUS
<1>3. page \subseteq rows \ Seen /\ \A a \in Seen, r \in page : a > r
  <2>1. left \subseteq rows /\ Seen \cap left = {} /\ \A a \in Seen, r \in left : a > r
    BY <1>2, SeenAndLeft
  <2> QED
    BY <1>1, <1>2, <2>1
<1>4. /\ Listed' = Listed \cup page
      /\ \A k : /\ Times(k) \in Nat
                /\ Times(k)' = IF k \in page THEN Times(k) + 1 ELSE Times(k)
                /\ k \notin Listed => Times(k) = 0
  <2>1. PICK ps : ps = pages
    OBVIOUS
  <2>2. PICK T : T = SUBSET Keys
    OBVIOUS
  <2>7. ps \in Seq(T) /\ page \in T
    BY <2>1, <2>2 DEF LInv, TypeOK
  <2>3. /\ ListedIn(Append(ps, page)) = ListedIn(ps) \cup page
        /\ \A k : /\ TimesIn(ps, k) \in Nat
                  /\ TimesIn(Append(ps, page), k) = IF k \in page THEN TimesIn(ps, k) + 1
                                                                  ELSE TimesIn(ps, k)
                  /\ k \notin ListedIn(ps) => TimesIn(ps, k) = 0
    BY <2>7, PageAdded
  <2>4. pages' = Append(ps, page)
    BY <1>1, <2>1
  <2>5. Listed = ListedIn(ps) /\ Listed' = ListedIn(Append(ps, page))
    BY <2>1, <2>4 DEF Listed, ListedIn
  <2>6. \A k : Times(k) = TimesIn(ps, k) /\ Times(k)' = TimesIn(Append(ps, page), k)
    BY <2>1, <2>4 DEF Times, TimesIn
  <2> QED
    BY <2>3, <2>5, <2>6
<1>5. cursor'.offset = cursor.offset + limit => cursor'.offset >= cursor.offset
  <2>1. cursor.offset \in Nat /\ limit \in Nat
    BY PageSizesAssumption DEF LInv, TypeOK
  <2> QED
    BY <2>1
<1>6. /\ Active /\ start' = IF Begun THEN start ELSE rows
      /\ cut' = (cut \/ cursor.id \notin rows \cup {0})
      /\ UNCHANGED <<backend, kind, issued, pending, rows, came, gone>>
  BY DEF ListPage, Active, table
<1> QED
  BY <1>1, <1>3, <1>4, <1>5, <1>6 DEF TakesPage

(* What a page preserves. *)
LEMMA PageBooks ==
    ASSUME LInv, Books, NEW page, TakesPage(page)
    PROVE  Books'
<1>1. /\ issued \in Nat /\ rows \subseteq 1..issued /\ Begun'
  <2>1. pages' # <<>>
    BY DEF TakesPage, LInv, TypeOK
  <2> QED
    BY <2>1, BoundsAssumption DEF LInv, TypeOK, Begun
<1>2. /\ start' \subseteq rows \cup start
      /\ Listed' \subseteq rows \cup Listed
      /\ UNCHANGED <<kind, issued, pending, rows>>
      /\ cursor'.id \in rows \/ cursor' = cursor
  BY DEF TakesPage
<1>3. cursor'.id \in 0..issued
  <2>1. CASE cursor'.id \in rows
    <3>1. \A k \in rows : k \in 0..issued
      BY <1>1
    <3> QED
      BY <2>1, <3>1
  <2>2. CASE cursor' = cursor
    BY <2>2 DEF Books
  <2> QED
    BY <1>2, <2>1, <2>2
<1> QED
  BY <1>1, <1>2, <1>3 DEF Books

LEMMA NonePassed ==
    ASSUME NEW S, NEW b, IsFiniteSet(S), S \subseteq Nat
    PROVE  Passed(b, S, 0, 0) = {}
<1>1. \A k \in S : Place(S, k) \in Nat
  BY PlaceType
<1>2. \A k \in S : ~(Place(S, k) < 0)
  BY <1>1
<1> QED
  BY <1>2 DEF Passed

(* Before the first page nothing was passed.                               *)
LEMMA FirstPage ==
    ASSUME LInv, Books, ~Begun
    PROVE  Seen = {} /\ Listed = {} /\ start = {} /\ cursor.id = 0 /\ came = 0 /\ gone = 0
<1>1. cursor.id = 0 /\ cursor.offset = 0
  BY DEF Books, NoCursor
<1>2. PICK S, b : S = rows /\ b = backend
  OBVIOUS
<1>3. Passed(b, S, 0, 0) = {}
  BY <1>2, RowsFinite, NonePassed DEF LInv
<1>4. Seen = {}
  BY <1>1, <1>2, <1>3 DEF Seen
<1> QED
  BY <1>1, <1>4 DEF Books

LEMMA PageNoneSkipped ==
    ASSUME LInv, Books, NoneSkipped, NEW page, TakesPage(page)
    PROVE  NoneSkipped'
<1>1. PICK left : left = Rest(backend, rows, cursor.offset, cursor.id)
  OBVIOUS
<1>2. /\ Seen \subseteq rows
      /\ backend # "postgres" \/ cursor.id \in rows \cup {0} => Seen \cup left = rows
  BY <1>1, SeenAndLeft
<1>3. /\ Active /\ page \subseteq rows
      /\ Listed' = Listed \cup page
      /\ start' = IF Begun THEN start ELSE rows
      /\ cut' = (cut \/ cursor.id \notin rows \cup {0})
      /\ rows' = rows /\ backend' = backend /\ kind' = kind
  BY DEF TakesPage
<1>4. ~Begun => Seen = {} /\ cursor.id = 0
  BY FirstPage
<1>5. CASE pc' = "ready" /\ Seen' = Seen \cup page /\ cursor'.id \in page
  <2>1. Active' /\ pc' # "done"
    BY <1>5 DEF Active
  <2>2. kind = "revisions" \/ backend = "postgres" => start' \cap Seen' \subseteq Listed'
    BY <1>3, <1>4, <1>5 DEF NoneSkipped
  <2> QED
    BY <1>3, <1>5, <2>1, <2>2 DEF NoneSkipped, NothingSkipped
<1>6. CASE pc' = "done" /\ page = left
  <2>1. ~Active'
    BY <1>6 DEF Active
  <2>2. ASSUME kind = "revisions" \/ (backend = "postgres" /\ ~cut')
        PROVE  start' \cap rows \subseteq Listed'
    <3>1. CASE backend # "postgres" \/ cursor.id \in rows \cup {0}
      <4>1. rows = Seen \cup page
        BY <1>2, <1>6, <3>1
      <4>2. start \cap Seen \subseteq Listed
        BY <1>3, <2>2 DEF NoneSkipped
      <4> QED
        BY <1>3, <1>4, <4>1, <4>2
    <3>2. CASE backend = "postgres" /\ cursor.id \notin rows \cup {0}
      <4>1. kind = "revisions" /\ Begun
        BY <1>3, <1>4, <2>2, <3>2
      <4>2. (\A k \in rows : k > cursor.id) /\ start \cap Seen \subseteq Listed
        BY <1>3, <3>2, <4>1 DEF NoneSkipped
      <4>3. \A k \in rows : k >= cursor.id
        BY <4>2, RowsFinite DEF LInv
      <4>4. Seen = rows
        BY <3>2, <4>3 DEF Seen, Passed
      <4> QED
        BY <1>3, <4>1, <4>2, <4>4
    <3> QED
      BY <3>1, <3>2
  <2> QED
    BY <1>3, <2>1, <2>2 DEF NoneSkipped, NothingSkipped, Missed
<1> QED
  BY <1>1, <1>5, <1>6 DEF TakesPage

LEMMA PageExactSoFar ==
    ASSUME LInv, Books, ExactSoFar, NEW page, TakesPage(page)
    PROVE  ExactSoFar'
<1> SUFFICES ASSUME came = 0, gone = 0 PROVE ExactSoFar'
  BY DEF TakesPage, ExactSoFar
<1>1. PICK left : left = Rest(backend, rows, cursor.offset, cursor.id)
  OBVIOUS
<1>2. /\ Seen \subseteq rows
      /\ cursor.id \in rows \cup {0} => Seen \cup left = rows
  BY <1>1, SeenAndLeft
<1>3. /\ Active /\ page \subseteq rows
      /\ \A a \in Seen, r \in page : a > r
      /\ pages' = Append(pages, page)
      /\ Listed' = Listed \cup page
      /\ start' = IF Begun THEN start ELSE rows
      /\ rows' = rows
  BY DEF TakesPage
<1>4. /\ Begun => rows = start
      /\ cursor.id \in rows \cup {0}
      /\ Listed = Seen
  BY <1>3 DEF ExactSoFar
<1>5. start' = rows
  BY <1>3, <1>4
<1>6. ASSUME NEW i \in DOMAIN pages', NEW j \in DOMAIN pages', i < j,
             NEW a \in pages'[i], NEW b \in pages'[j]
      PROVE  a > b
  <2>1. /\ DOMAIN pages' = DOMAIN pages \cup {Len(pages) + 1}
        /\ pages'[Len(pages) + 1] = page
        /\ \A n \in DOMAIN pages : pages'[n] = pages[n] /\ n <= Len(pages) /\ n \in Nat
        /\ Len(pages) \in Nat
    BY <1>3 DEF LInv, TypeOK
  <2>2. i \in DOMAIN pages
    BY <1>6, <2>1
  <2>3. CASE j \in DOMAIN pages
    BY <1>6, <2>1, <2>2, <2>3 DEF ExactSoFar
  <2>4. CASE j = Len(pages) + 1
    <3>1. a \in Seen
      BY <1>4, <1>6, <2>1, <2>2 DEF Listed
    <3> QED
      BY <1>3, <1>6, <2>1, <2>4, <3>1
  <2> QED
    BY <2>1, <2>3, <2>4
<1>7. CASE pc' = "ready" /\ Seen' = Seen \cup page /\ cursor'.id \in page
  <2>1. Listed' = Seen' /\ cursor'.id \in rows' \cup {0} /\ rows' = start' /\ pc' # "done"
    BY <1>3, <1>4, <1>5, <1>7
  <2> QED
    BY <1>6, <2>1 DEF ExactSoFar
<1>8. CASE pc' = "done" /\ page = left
  <2>1. Listed' = start' /\ ~Active'
    BY <1>2, <1>3, <1>4, <1>5, <1>8 DEF Active
  <2> QED
    BY <1>6, <2>1 DEF ExactSoFar
<1> QED
  BY <1>1, <1>7, <1>8 DEF TakesPage

(* On SQLite a row is passed when its place is before the offset.          *)
LEMMA SeenByPlace ==
    ASSUME TypeOK, backend = "sqlite"
    PROVE  /\ Seen = {k \in rows : Place(rows, k) < cursor.offset}
           /\ \A k : Place(rows, k) \in Nat
<1>1. Seen = {k \in rows : Place(rows, k) < cursor.offset}
  BY DEF Seen, Passed
<1>2. PICK S : S = rows
  OBVIOUS
<1>3. IsFiniteSet(S) /\ S \subseteq Nat
  BY <1>2, RowsFinite
<1>4. \A k : Place(S, k) \in Nat
  BY <1>3, PlaceType
<1> QED
  BY <1>1, <1>2, <1>4

(* The counted sets are finite.                                            *)
LEMMA CountedFinite ==
    ASSUME TypeOK, Books
    PROVE  /\ IsFiniteSet(Overlooked) /\ Overlooked \subseteq start
           /\ IsFiniteSet(Again \cup Due) /\ Again \cup Due \subseteq Listed
<1>1. issued \in Nat
  BY RowsFinite
<1>2. Overlooked \subseteq start
  BY DEF Overlooked, Missed
<1>3. Again \cup Due \subseteq Listed
  BY DEF Again, Due
<1>4. IsFiniteSet(start) /\ IsFiniteSet(Listed)
  BY <1>1, KeysFinite DEF Books
<1> QED
  BY <1>2, <1>3, <1>4, AtMost

LEMMA PageDriftSoFar ==
    ASSUME LInv, TypeOK', Books, DriftSoFar, NEW page, TakesPage(page)
    PROVE  DriftSoFar'
<1> SUFFICES ASSUME backend = "sqlite" PROVE DriftSoFar'
  BY DEF TakesPage, DriftSoFar
<1>1. PICK left : left = Rest(backend, rows, cursor.offset, cursor.id)
  OBVIOUS
<1>2. Seen \subseteq rows /\ Seen \cup left = rows
  BY <1>1, SeenAndLeft
<1>3. /\ Active /\ page \subseteq rows \ Seen
      /\ Listed' = Listed \cup page
      /\ \A k : /\ Times(k) \in Nat
                /\ Times(k)' = IF k \in page THEN Times(k) + 1 ELSE Times(k)
                /\ k \notin Listed => Times(k) = 0
      /\ start' = IF Begun THEN start ELSE rows
      /\ rows' = rows /\ came' = came /\ gone' = gone /\ backend' = backend
  BY DEF TakesPage
<1>4. \/ pc' = "ready" /\ Seen' = Seen \cup page /\ cursor'.offset >= cursor.offset
      \/ pc' = "done" /\ page = left
  BY <1>1 DEF TakesPage
<1>5. ~Begun => Seen = {}
  BY FirstPage
<1>6. /\ came \in Nat /\ gone \in Nat /\ cursor.offset \in Nat
      /\ Seen = {k \in rows : Place(rows, k) < cursor.offset}
      /\ \A k : Place(rows, k) \in Nat
  BY SeenByPlace, RowsFinite DEF LInv, TypeOK
<1>7. Overlooked = (start \cap Seen) \ Listed /\ Due = (Listed \cap rows) \ Seen
  BY <1>3 DEF Overlooked, Due
<1>8. Cardinality(Overlooked') <= gone'
  <2>1. Overlooked' \subseteq Overlooked
    <3>1. CASE pc' = "ready" /\ Seen' = Seen \cup page
      <4>1. Overlooked' = (start' \cap Seen') \ Listed'
        BY <3>1 DEF Overlooked, Active
      <4> QED
        BY <1>3, <1>5, <1>7, <3>1, <4>1
    <3>2. CASE pc' = "done" /\ page = left
      <4>1. Overlooked' = (start' \cap rows') \ Listed'
        BY <3>2 DEF Overlooked, Active, Missed
      <4> QED
        BY <1>2, <1>3, <1>5, <1>7, <3>2, <4>1
    <3> QED
      BY <1>4, <3>1, <3>2
  <2>2. IsFiniteSet(Overlooked)
    BY CountedFinite DEF LInv
  <2>3. /\ Cardinality(Overlooked') \in Nat /\ Cardinality(Overlooked) \in Nat
        /\ Cardinality(Overlooked') <= Cardinality(Overlooked)
    BY <2>1, <2>2, AtMost
  <2> QED
    BY <1>3, <1>6, <2>3 DEF DriftSoFar
<1>9. ASSUME NEW k \in Listed' PROVE Times(k)' <= came' + 1
  <2>1. CASE k \in page
    <3>1. CASE k \in Listed
      <4>1. k \in rows /\ Place(rows, k) >= cursor.offset
        BY <1>3, <1>6, <2>1
      <4>2. Times(k) + Place(rows, k) <= came + cursor.offset
        BY <1>3, <3>1, <4>1 DEF DriftSoFar
      <4> QED
        BY <1>3, <1>6, <2>1, <4>1, <4>2
    <3>2. CASE k \notin Listed
      BY <1>3, <1>6, <2>1, <3>2
    <3> QED
      BY <3>1, <3>2
  <2>2. CASE k \notin page
    BY <1>3, <2>2 DEF DriftSoFar
  <2> QED
    BY <2>1, <2>2
<1>10. ASSUME Active', NEW k \in Listed' \cap rows'
       PROVE  Times(k)' + Place(rows', k) <= came' + cursor'.offset
  <2>1. /\ Seen' = Seen \cup page /\ cursor'.offset >= cursor.offset
        /\ cursor'.offset \in Nat
        /\ Seen' = {l \in rows' : Place(rows', l) < cursor'.offset}
    <3>1. cursor'.offset \in Nat
      BY DEF TypeOK
    <3>2. Seen' = {l \in rows' : Place(rows', l) < cursor'.offset}
      BY <1>3 DEF Seen, Passed
    <3> QED
      BY <1>3, <1>4, <1>10, <3>1, <3>2 DEF Active
  <2>2. PICK off, p, t : off = cursor'.offset /\ p = Place(rows, k) /\ t = Times(k)
    OBVIOUS
  <2>3. off \in Nat /\ p \in Nat /\ t \in Nat /\ off >= cursor.offset
    BY <1>3, <1>6, <2>1, <2>2
  <2>4. Place(rows', k) = p /\ Times(k)' = IF k \in page THEN t + 1 ELSE t
    BY <1>3, <2>2
  <2>5. k \in Listed => t + p <= came + cursor.offset
    BY <1>3, <1>10, <2>2 DEF DriftSoFar
  <2>6. CASE k \in page
    <3>1. p < off /\ p >= cursor.offset
      BY <1>3, <1>6, <2>1, <2>2, <2>6
    <3>2. CASE k \in Listed
      <4>1. t <= came
        BY <1>6, <2>3, <2>5, <3>1, <3>2
      <4> QED
        BY <1>3, <1>6, <2>2, <2>3, <2>4, <2>6, <3>1, <4>1
    <3>3. CASE k \notin Listed
      <4>1. t = 0
        BY <1>3, <2>2, <3>3
      <4> QED
        BY <1>3, <1>6, <2>2, <2>3, <2>4, <2>6, <3>1, <4>1
    <3> QED
      BY <3>2, <3>3
  <2>7. CASE k \notin page
    <3>1. t + p <= came + cursor.offset
      BY <1>3, <1>10, <2>5, <2>7
    <3> QED
      BY <1>3, <1>6, <2>2, <2>3, <2>4, <2>7, <3>1
  <2> QED
    BY <2>6, <2>7
<1>11. Cardinality((Again \cup Due)') <= came'
  <2>1. (Again \cup Due)' \subseteq Again \cup Due
    <3>1. ASSUME NEW k \in Again' PROVE k \in Again \cup Due
      <4>1. k \in Listed' /\ Times(k)' > 1
        BY DEF Again
      <4>2. CASE k \in page
        <5>1. k \in Listed
          BY <1>3, <4>1, <4>2
        <5> QED
          BY <1>3, <1>7, <4>2, <5>1
      <4>3. CASE k \notin page
        BY <1>3, <4>1, <4>3 DEF Again
      <4> QED
        BY <4>2, <4>3
    <3>2. ASSUME NEW k \in Due' PROVE k \in Due
      <4>1. pc' = "ready" /\ k \in (Listed' \cap rows') \ Seen'
        BY <1>4 DEF Due, Active
      <4> QED
        BY <1>3, <1>4, <1>7, <4>1
    <3> QED
      BY <3>1, <3>2
  <2>2. IsFiniteSet(Again \cup Due)
    BY CountedFinite DEF LInv
  <2>3. /\ Cardinality((Again \cup Due)') \in Nat /\ Cardinality(Again \cup Due) \in Nat
        /\ Cardinality((Again \cup Due)') <= Cardinality(Again \cup Due)
    BY <2>1, <2>2, AtMost
  <2> QED
    BY <1>3, <1>6, <2>3 DEF DriftSoFar
<1> QED
  BY <1>8, <1>9, <1>10, <1>11 DEF DriftSoFar

-----------------------------------------------------------------------------
(* Rows come and go while the reader waits.                                *)

LEMMA RowsNoneSkipped ==
    ASSUME NoneSkipped, UNCHANGED <<backend, kind, reader>>,
           NEW x, x \notin start, rows' \subseteq rows \cup {x},
           kind = "revisions" \/ backend = "postgres" => start \cap Seen' \subseteq Seen,
           kind = "revisions" /\ backend = "postgres" /\ Active /\ cursor.id \notin rows' =>
              \A k \in rows' : k > cursor.id
    PROVE  NoneSkipped'
<1>1. /\ pc' = pc /\ cursor' = cursor /\ start' = start /\ cut' = cut
      /\ Listed' = Listed /\ (Active' <=> Active) /\ kind' = kind /\ backend' = backend
  BY DEF reader, Listed, Active
<1>2. Missed' \subseteq Missed
  BY <1>1 DEF Missed
<1> QED
  BY <1>1, <1>2 DEF NoneSkipped, NothingSkipped

(* Exactness is lost with the first row that comes or goes; before the     *)
(* first page there is nothing to lose.                                    *)
LEMMA RowsExactSoFar ==
    ASSUME LInv, LInv', Books', ExactSoFar, UNCHANGED reader, came' + gone' > 0 \/ ~Begun
    PROVE  ExactSoFar'
<1>1. pages' = pages /\ pc' = pc /\ came' \in Nat /\ gone' \in Nat
  BY DEF reader, LInv, TypeOK
<1>2. CASE came' + gone' > 0
  BY <1>1, <1>2 DEF ExactSoFar
<1>3. CASE ~Begun
  <2>1. ~Begun' /\ DOMAIN pages' = {}
    BY <1>1, <1>3 DEF Begun
  <2>2. Listed' = {} /\ start' = {} /\ cursor'.id = 0 /\ pc' # "done"
    BY <2>1 DEF Books, NoCursor
  <2>3. Seen' = {}
    <3>1. cursor'.id = 0 /\ cursor'.offset = 0
      BY <2>1 DEF Books, NoCursor
    <3>0. PICK S, b : S = rows' /\ b = backend'
      OBVIOUS
    <3>2. PICK n \in Nat : n = issued' /\ S = rows' /\ b = backend'
      <4>1. issued' \in Nat
        BY BoundsAssumption DEF LInv, TypeOK
      <4> QED
        BY <3>0, <4>1
    <3>3. S \subseteq 1..n
      BY <3>2 DEF LInv, TypeOK
    <3>4. IsFiniteSet(S) /\ S \subseteq Nat
      <4>1. IsFiniteSet(S)
        BY <3>3, KeysFinite
      <4> QED
        BY <3>3, <4>1
    <3>5. Passed(b, S, 0, 0) = {}
      BY <3>4, NonePassed
    <3> QED
      BY <3>1, <3>2, <3>5 DEF Seen
  <2> QED
    BY <2>1, <2>2, <2>3 DEF ExactSoFar
<1> QED
  BY <1>2, <1>3

(* A new row pushes the others back by one place, if at all.               *)
LEMMA RowsGrowDrift ==
    ASSUME LInv, LInv', Books, Books', DriftSoFar, UNCHANGED <<backend, reader>>,
           NEW x, x \notin start \cup Listed, rows' \subseteq rows \cup {x},
           \A k \in rows \cap rows' : Place(rows', k) \in {Place(rows, k), Place(rows, k) + 1},
           Begun => came' = came + 1, gone' >= gone
    PROVE  DriftSoFar'
<1> SUFFICES ASSUME backend = "sqlite" PROVE DriftSoFar'
  BY DEF DriftSoFar
<1>1. /\ pc' = pc /\ cursor' = cursor /\ start' = start /\ backend' = backend
      /\ Listed' = Listed /\ (Active' <=> Active) /\ (Begun' <=> Begun) /\ Again' = Again
      /\ \A k : Times(k)' = Times(k)
  BY DEF reader, Listed, Active, Begun, Again, Times
<1>2. /\ came \in Nat /\ gone \in Nat /\ came' \in Nat /\ gone' \in Nat /\ cursor.offset \in Nat
      /\ Seen = {k \in rows : Place(rows, k) < cursor.offset}
      /\ Seen' = {k \in rows' : Place(rows', k) < cursor.offset}
      /\ \A k : Place(rows, k) \in Nat
  BY <1>1, SeenByPlace, RowsFinite DEF LInv, TypeOK, Seen, Passed
<1>3. /\ IsFiniteSet(Overlooked) /\ IsFiniteSet(Again \cup Due)
  BY CountedFinite DEF LInv
<1>4. CASE ~Begun
  <2>1. Listed' = {} /\ start' = {}
    BY <1>1, <1>4 DEF Books
  <2>2. Overlooked' = {} /\ (Again \cup Due)' = {}
    BY <2>1 DEF Overlooked, Missed, Again, Due
  <2>3. Cardinality({}) = 0
    BY FS_EmptySet
  <2>4. Cardinality(Overlooked') <= gone' /\ Cardinality((Again \cup Due)') <= came'
    <3>1. Cardinality(Overlooked') = 0 /\ Cardinality((Again \cup Due)') = 0
      BY <2>2, <2>3, Zenon
    <3> QED
      BY <1>2, <3>1
  <2>5. \A k : k \notin Listed'
    BY <2>1
  <2> QED
    BY <2>4, <2>5 DEF DriftSoFar
<1>5. CASE Begun
  <2>1. came' = came + 1
    BY <1>5
  <2>2. Overlooked' \subseteq Overlooked
    <3>1. ASSUME NEW k \in start, k \in Seen' PROVE k \in Seen
      <4>1. k \in rows /\ k \in rows' /\ Place(rows', k) < cursor.offset
        BY <1>2, <3>1
      <4>2. Place(rows, k) \in Nat /\ Place(rows', k) \in {Place(rows, k), Place(rows, k) + 1}
        BY <1>2, <4>1
      <4> QED
        BY <1>2, <4>1, <4>2
    <3> QED
      BY <1>1, <3>1 DEF Overlooked, Missed
  <2>3. Cardinality(Overlooked') <= gone'
    <3>1. /\ Cardinality(Overlooked') \in Nat /\ Cardinality(Overlooked) \in Nat
          /\ Cardinality(Overlooked') <= Cardinality(Overlooked)
      BY <1>3, <2>2, AtMost
    <3> QED
      BY <1>2, <3>1 DEF DriftSoFar
  <2>4. ASSUME NEW k \in Listed PROVE Times(k) <= came' + 1
    <3>1. Times(k) <= came + 1
      BY DEF DriftSoFar
    <3>2. Times(k) \in Nat
      BY TimesNat DEF LInv
    <3> QED
      BY <1>2, <2>1, <3>1, <3>2
  <2>5. ASSUME Active, NEW k \in Listed \cap rows'
        PROVE  Times(k) + Place(rows', k) <= came' + cursor.offset
    <3>1. k \in rows
      OBVIOUS
    <3>2. Times(k) + Place(rows, k) <= came + cursor.offset
      BY <2>5, <3>1 DEF DriftSoFar
    <3>3. Times(k) \in Nat /\ Place(rows, k) \in Nat
      BY <1>2, TimesNat DEF LInv
    <3>4. Place(rows', k) \in {Place(rows, k), Place(rows, k) + 1}
      BY <3>1
    <3> QED
      BY <1>2, <2>1, <3>2, <3>3, <3>4
  <2>6. \E y : (Again \cup Due)' \subseteq (Again \cup Due) \cup {y}
    <3>1. PICK y : \A k \in rows : Place(rows, k) + 1 = cursor.offset => k = y
      <4>1. PICK S : S = rows
        OBVIOUS
      <4>2. PICK y : \A k \in S : Place(S, k) = cursor.offset - 1 => k = y
        BY <4>1, RowsFinite, OneAtPlace DEF LInv
      <4> QED
        BY <1>2, <4>1, <4>2
    <3>2. ASSUME NEW k \in Due' PROVE k \in Due \/ k = y
      <4>1. Active /\ k \in Listed /\ k \in rows' /\ ~(Place(rows', k) < cursor.offset)
        BY <1>1, <1>2 DEF Due
      <4>2. k \in rows /\ Place(rows, k) \in Nat
        BY <1>2, <4>1
      <4>3. Place(rows', k) \in {Place(rows, k), Place(rows, k) + 1}
        BY <4>1, <4>2
      <4>4. ~(Place(rows, k) < cursor.offset) \/ Place(rows, k) + 1 = cursor.offset
        BY <1>2, <4>1, <4>2, <4>3
      <4> QED
        BY <1>2, <3>1, <4>1, <4>2, <4>4 DEF Due
    <3> QED
      BY <1>1, <3>2
  <2>7. Cardinality((Again \cup Due)') <= came'
    <3>1. PICK y : (Again \cup Due)' \subseteq (Again \cup Due) \cup {y}
      BY <2>6
    <3>2. /\ Cardinality((Again \cup Due)') \in Nat /\ Cardinality(Again \cup Due) \in Nat
          /\ Cardinality((Again \cup Due)') <= Cardinality(Again \cup Due) + 1
      BY <1>3, <3>1, AtMostOneMore
    <3> QED
      BY <1>2, <2>1, <3>2 DEF DriftSoFar
  <2> QED
    BY <1>1, <2>3, <2>4, <2>5, <2>7 DEF DriftSoFar
<1> QED
  BY <1>4, <1>5

(* A row deleted lets the older ones move up by one place.                 *)
LEMMA RowsShrinkDrift ==
    ASSUME LInv, LInv', Books, Books', DriftSoFar, UNCHANGED <<backend, reader>>,
           rows' \subseteq rows,
           \A k \in rows' : Place(rows, k) \in {Place(rows', k), Place(rows', k) + 1},
           came' = came, Begun => gone' = gone + 1
    PROVE  DriftSoFar'
<1> SUFFICES ASSUME backend = "sqlite" PROVE DriftSoFar'
  BY DEF DriftSoFar
<1>1. /\ pc' = pc /\ cursor' = cursor /\ start' = start /\ backend' = backend
      /\ Listed' = Listed /\ (Active' <=> Active) /\ (Begun' <=> Begun) /\ Again' = Again
      /\ \A k : Times(k)' = Times(k)
  BY DEF reader, Listed, Active, Begun, Again, Times
<1>2. /\ came \in Nat /\ gone \in Nat /\ gone' \in Nat /\ cursor.offset \in Nat
      /\ Seen = {k \in rows : Place(rows, k) < cursor.offset}
      /\ Seen' = {k \in rows' : Place(rows', k) < cursor.offset}
      /\ \A k : Place(rows, k) \in Nat
  BY <1>1, SeenByPlace, RowsFinite DEF LInv, TypeOK, Seen, Passed
<1>3. /\ IsFiniteSet(Overlooked) /\ IsFiniteSet(Again \cup Due)
  BY CountedFinite DEF LInv
<1>4. \A k \in rows' : Place(rows', k) \in Nat
  <2>0. PICK S : S = rows'
    OBVIOUS
  <2>1. PICK n \in Nat : n = issued' /\ S = rows'
    <3>1. issued' \in Nat
      BY BoundsAssumption DEF LInv, TypeOK
    <3> QED
      BY <2>0, <3>1
  <2>2. S \subseteq 1..n
    BY <2>1 DEF LInv, TypeOK
  <2>3. IsFiniteSet(S)
    BY <2>2, KeysFinite
  <2>4. S \subseteq Nat
    BY <2>2
  <2>5. \A k \in S : Place(S, k) \in Nat
    BY <2>3, <2>4, PlaceType
  <2> QED
    BY <2>1, <2>5
<1>5. Cardinality(Overlooked') <= gone'
  <2>1. CASE ~Begun
    <3>1. start' = {}
      BY <1>1, <2>1 DEF Books
    <3>2. Overlooked' = {}
      BY <3>1 DEF Overlooked, Missed
    <3>3. Cardinality({}) = 0
      BY FS_EmptySet
    <3>4. Cardinality(Overlooked') = 0
      BY <3>2, <3>3, Zenon
    <3> QED
      BY <1>2, <3>4
  <2>2. CASE Begun
    <3>1. PICK y : \A k \in rows : Place(rows, k) = cursor.offset => k = y
      <4>1. PICK S : S = rows
        OBVIOUS
      <4>2. PICK y : \A k \in S : Place(S, k) = cursor.offset => k = y
        BY <4>1, RowsFinite, OneAtPlace DEF LInv
      <4> QED
        BY <4>1, <4>2
    <3>2. ASSUME NEW k \in Seen' PROVE k \in Seen \/ k = y
      <4>1. k \in rows /\ k \in rows' /\ Place(rows', k) < cursor.offset
        BY <1>2
      <4>2. Place(rows', k) \in Nat /\ Place(rows, k) \in {Place(rows', k), Place(rows', k) + 1}
        BY <1>4, <4>1
      <4>3. Place(rows, k) < cursor.offset \/ Place(rows, k) = cursor.offset
        BY <1>2, <4>1, <4>2
      <4> QED
        BY <1>2, <3>1, <4>1, <4>3
    <3>3. Overlooked' \subseteq Overlooked \cup {y}
      BY <1>1, <3>2 DEF Overlooked, Missed
    <3>4. /\ Cardinality(Overlooked') \in Nat /\ Cardinality(Overlooked) \in Nat
          /\ Cardinality(Overlooked') <= Cardinality(Overlooked) + 1
      BY <1>3, <3>3, AtMostOneMore
    <3> QED
      BY <1>2, <2>2, <3>4 DEF DriftSoFar
  <2> QED
    BY <2>1, <2>2
<1>6. ASSUME Active, NEW k \in Listed \cap rows'
      PROVE  Times(k) + Place(rows', k) <= came + cursor.offset
  <2>1. Times(k) + Place(rows, k) <= came + cursor.offset
    BY <1>6 DEF DriftSoFar
  <2>2. Times(k) \in Nat /\ Place(rows', k) \in Nat
    BY <1>4, TimesNat DEF LInv
  <2>3. Place(rows, k) \in {Place(rows', k), Place(rows', k) + 1}
    OBVIOUS
  <2> QED
    BY <1>2, <2>1, <2>2, <2>3
<1>7. Cardinality((Again \cup Due)') <= came
  <2>1. ASSUME NEW k \in Due' PROVE k \in Due
    <3>1. Active /\ k \in Listed /\ k \in rows' /\ ~(Place(rows', k) < cursor.offset)
      BY <1>1, <1>2 DEF Due
    <3>2. Place(rows', k) \in Nat /\ Place(rows, k) \in {Place(rows', k), Place(rows', k) + 1}
      BY <1>4, <3>1
    <3>3. ~(Place(rows, k) < cursor.offset)
      BY <1>2, <3>1, <3>2
    <3> QED
      BY <1>2, <3>1, <3>3 DEF Due
  <2>2. (Again \cup Due)' \subseteq Again \cup Due
    BY <1>1, <2>1
  <2>3. /\ Cardinality((Again \cup Due)') \in Nat /\ Cardinality(Again \cup Due) \in Nat
        /\ Cardinality((Again \cup Due)') <= Cardinality(Again \cup Due)
    BY <1>3, <2>2, AtMost
  <2> QED
    BY <1>2, <2>3 DEF DriftSoFar
<1> QED
  BY <1>1, <1>5, <1>6, <1>7 DEF DriftSoFar

(* When all the rows go, none is overlooked or due.                        *)
LEMMA RowsGoneDrift ==
    ASSUME LInv, LInv', Books, DriftSoFar, UNCHANGED <<backend, reader>>,
           rows' = {}, came' = came, gone' >= gone
    PROVE  DriftSoFar'
<1> SUFFICES ASSUME backend = "sqlite" PROVE DriftSoFar'
  BY DEF DriftSoFar
<1>1. /\ Listed' = Listed /\ (Active' <=> Active) /\ Again' = Again
      /\ \A k : Times(k)' = Times(k)
  BY DEF reader, Listed, Active, Again, Times
<1>2. Overlooked' = {} /\ Due' = {}
  BY DEF Overlooked, Missed, Due, Seen, Passed
<1>3. came \in Nat /\ gone' \in Nat
  BY DEF LInv, TypeOK
<1>4. Cardinality(Overlooked') <= gone'
  <2>1. Cardinality({}) = 0
    BY FS_EmptySet
  <2>2. Cardinality(Overlooked') = 0
    BY <1>2, <2>1, Zenon
  <2> QED
    BY <1>3, <2>2
<1>5. Cardinality((Again \cup Due)') <= came'
  <2>1. IsFiniteSet(Again \cup Due)
    BY CountedFinite DEF LInv
  <2>2. (Again \cup Due)' \subseteq Again \cup Due
    BY <1>1, <1>2
  <2>3. /\ Cardinality((Again \cup Due)') \in Nat /\ Cardinality(Again \cup Due) \in Nat
        /\ Cardinality((Again \cup Due)') <= Cardinality(Again \cup Due)
    BY <2>1, <2>2, AtMost
  <2> QED
    BY <1>3, <2>3 DEF DriftSoFar
<1> QED
  BY <1>1, <1>4, <1>5 DEF DriftSoFar

(* PostgreSQL's cursor passes the rows at its own and newer, whichever     *)
(* others there are.                                                       *)
LEMMA SeenByKey ==
    ASSUME backend = "postgres", UNCHANGED <<backend, cursor>>,
           NEW x, x \notin start, rows' \subseteq rows \cup {x}
    PROVE  start \cap Seen' \subseteq Seen
BY DEF Seen, Passed

-----------------------------------------------------------------------------
(* The steps, one by one. *)

LEMMA CommitCounts ==
    ASSUME CountsInv, LInv', NEW k \in Keys, CommitCreate(k)
    PROVE  CountsInv'
<1> USE DEF CountsInv
<1>1. /\ k \in pending /\ k \notin rows \cup start \cup Listed
      /\ pending' = pending \ {k} /\ rows' = rows \cup {k} /\ kind = "files"
      /\ came' = Count(1, came)
      /\ UNCHANGED <<backend, kind, issued, gone, reader>>
  <2>1. k \in pending /\ k \notin rows \cup start \cup Listed /\ kind # "revisions"
    BY DEF CommitCreate, Books
  <2>2. kind = "files"
    BY <2>1, KindsAssumption DEF LInv, TypeOK
  <2> QED
    BY <2>1, <2>2 DEF CommitCreate
<1>2. came \in Nat /\ gone \in Nat /\ (Begun => came' = came + 1) /\ (~Begun => came' = came)
  BY <1>1 DEF LInv, TypeOK, Count
<1>3. Books'
  BY <1>1, <1>2 DEF Books, reader, Listed, Begun
<1>4. NoneSkipped'
  <2>1. backend = "postgres" => start \cap Seen' \subseteq Seen
    BY <1>1, SeenByKey DEF reader
  <2> QED
    BY <1>1, <2>1, RowsNoneSkipped
<1>5. ExactSoFar'
  BY <1>1, <1>2, <1>3, RowsExactSoFar
<1>6. DriftSoFar'
  <2>1. ASSUME NEW l \in rows \cap rows'
        PROVE  Place(rows', l) \in {Place(rows, l), Place(rows, l) + 1}
    <3>1. PICK S, x, m : S = rows /\ x = k /\ m = l
      OBVIOUS
    <3>2. IsFiniteSet(S) /\ S \subseteq Nat /\ x \in Nat /\ x \notin S /\ m \in Nat
      BY <1>1, <3>1, RowsFinite DEF LInv, Keys
    <3>3. Place(S \cup {x}, m) = IF x > m THEN Place(S, m) + 1 ELSE Place(S, m)
      BY <3>2, PlaceOfAdded
    <3> QED
      BY <1>1, <3>1, <3>3
  <2>2. gone' >= gone
    BY <1>1, <1>2
  <2> QED
    BY <1>1, <1>2, <1>3, <2>1, <2>2, RowsGrowDrift
<1> QED
  BY <1>3, <1>4, <1>5, <1>6

LEMMA DeleteFileCounts ==
    ASSUME CountsInv, LInv', NEW k \in Keys, DeleteFile(k)
    PROVE  CountsInv'
<1> USE DEF CountsInv
<1>1. /\ k \in rows /\ rows' = rows \ {k} /\ kind = "files"
      /\ gone' = Count(1, gone)
      /\ UNCHANGED <<backend, kind, issued, pending, came, reader>>
  BY DEF DeleteFile
<1>2. came \in Nat /\ gone \in Nat /\ (Begun => gone' = gone + 1) /\ (~Begun => gone' = gone)
  BY <1>1 DEF LInv, TypeOK, Count
<1>3. Books'
  BY <1>1, <1>2 DEF Books, reader, Listed, Begun
<1>4. NoneSkipped'
  <2>1. PICK x : x \notin start
    <3>1. MaxKey + 1 \notin start
      BY BoundsAssumption DEF LInv, TypeOK, Keys
    <3> QED
      BY <3>1
  <2>2. rows' \subseteq rows \cup {x}
    BY <1>1
  <2>3. backend = "postgres" => start \cap Seen' \subseteq Seen
    BY <1>1, <2>1, <2>2, SeenByKey DEF reader
  <2> QED
    BY <1>1, <2>1, <2>2, <2>3, RowsNoneSkipped
<1>5. ExactSoFar'
  BY <1>1, <1>2, <1>3, RowsExactSoFar
<1>6. DriftSoFar'
  <2>1. ASSUME NEW l \in rows'
        PROVE  Place(rows, l) \in {Place(rows', l), Place(rows', l) + 1}
    <3>1. PICK S, x, m : S = rows' /\ x = k /\ m = l
      OBVIOUS
    <3>2. IsFiniteSet(rows) /\ rows \subseteq Nat
      BY RowsFinite DEF LInv
    <3>3. S \subseteq rows
      BY <1>1, <3>1
    <3>4. IsFiniteSet(S) /\ S \subseteq Nat
      BY <3>2, <3>3, AtMost
    <3>5. x \in Nat /\ x \notin S /\ m \in Nat
      BY <1>1, <3>1, <3>2
    <3>6. Place(S \cup {x}, m) = IF x > m THEN Place(S, m) + 1 ELSE Place(S, m)
      BY <3>4, <3>5, PlaceOfAdded
    <3>7. rows = S \cup {x}
      BY <1>1, <3>1
    <3> QED
      BY <3>1, <3>6, <3>7
  <2>2. rows' \subseteq rows
    BY <1>1
  <2> QED
    BY <1>1, <1>2, <1>3, <2>1, <2>2, RowsShrinkDrift
<1> QED
  BY <1>3, <1>4, <1>5, <1>6

LEMMA DeleteAllCounts ==
    ASSUME CountsInv, LInv', DeleteAll
    PROVE  CountsInv'
<1> USE DEF CountsInv
<1>1. /\ rows # {} /\ rows' = {}
      /\ gone' = Count(Cardinality(rows), gone)
      /\ UNCHANGED <<backend, kind, issued, pending, came, reader>>
  BY DEF DeleteAll
<1>2. Cardinality(rows) \in Nat \ {0}
  <2>1. IsFiniteSet(rows)
    BY RowsFinite DEF LInv
  <2> QED
    BY <1>1, <2>1, FS_EmptySet, FS_CardinalityType
<1>3. /\ came \in Nat /\ gone \in Nat
      /\ Begun => gone' = gone + Cardinality(rows)
      /\ ~Begun => gone' = gone
  BY <1>1 DEF LInv, TypeOK, Count
<1>4. Books'
  BY <1>1, <1>3 DEF Books, reader, Listed, Begun
<1>5. NoneSkipped'
  <2>1. PICK x : x \notin start
    <3>1. MaxKey + 1 \notin start
      BY BoundsAssumption DEF LInv, TypeOK, Keys
    <3> QED
      BY <3>1
  <2>2. Seen' = {}
    BY <1>1 DEF Seen, Passed
  <2> QED
    BY <1>1, <2>1, <2>2, RowsNoneSkipped
<1>6. ExactSoFar'
  <2>1. came' + gone' > 0 \/ ~Begun
    BY <1>1, <1>2, <1>3
  <2> QED
    BY <1>1, <1>4, <2>1, RowsExactSoFar
<1>7. DriftSoFar'
  <2>1. gone' >= gone
    BY <1>2, <1>3
  <2> QED
    BY <1>1, <2>1, RowsGoneDrift
<1> QED
  BY <1>4, <1>5, <1>6, <1>7

LEMMA AppendCounts ==
    ASSUME CountsInv, LInv', AppendRevision
    PROVE  CountsInv'
<1> USE DEF CountsInv
<1>a. issued + 1 \in Nat /\ Retained \in Nat
  BY BoundsAssumption, RowsFinite DEF LInv
<1>b. PICK x \in Nat, n \in Nat : x = issued + 1 /\ n = Retained
  BY <1>a
<1>c. PICK S, all : S = rows /\ all = S \cup {x}
  OBVIOUS
<1>d. PICK kept : kept = IF n = 0 THEN all ELSE Newest(all, n)
  OBVIOUS
<1>1. /\ S = rows /\ x = issued + 1 /\ n = Retained
      /\ all = S \cup {x} /\ kept = IF n = 0 THEN all ELSE Newest(all, n)
  BY <1>b, <1>c, <1>d
<1>2. /\ kind = "revisions" /\ issued' = issued + 1 /\ rows' = kept
      /\ came' = Count(1, came) /\ gone' = Count(Cardinality(all \ kept), gone)
      /\ UNCHANGED <<backend, kind, pending, reader>>
  BY <1>1 DEF AppendRevision
<1>3. /\ IsFiniteSet(S) /\ S \subseteq Nat /\ S \subseteq 1..issued /\ issued \in Nat
      /\ x \notin S /\ kept \subseteq all
      /\ \A k \in S : k < x
  <2>1. /\ IsFiniteSet(S) /\ S \subseteq Nat /\ S \subseteq 1..issued /\ issued \in Nat
    BY <1>1, RowsFinite DEF LInv
  <2>2. kept \subseteq all
    BY <1>1 DEF Newest
  <2>3. x \notin S /\ \A k \in S : k < x
    BY <1>1, <2>1
  <2> QED
    BY <2>1, <2>2, <2>3
<1>4. IsFiniteSet(all) /\ all \subseteq Nat
  BY <1>1, <1>3, FS_AddElement
<1>5. /\ came \in Nat /\ gone \in Nat /\ gone' >= gone
      /\ Begun => came' = came + 1
      /\ ~Begun => came' = came /\ gone' = gone
  <2>1. Cardinality(all \ kept) \in Nat
    <3>1. all \ kept \subseteq all
      OBVIOUS
    <3> QED
      BY <1>4, <3>1, AtMost
  <2> QED
    BY <1>2, <2>1 DEF LInv, TypeOK, Count
<1>6. x \notin start \cup Listed /\ start \subseteq 1..issued /\ Listed \subseteq 1..issued
  BY <1>1, <1>3 DEF Books
<1>7. Books'
  <2>1. 1..issued \subseteq 1..issued' /\ 0..issued \subseteq 0..issued'
    BY <1>2, <1>3
  <2> QED
    BY <1>2, <1>5, <2>1 DEF Books, reader, Listed, Begun
<1>8. ASSUME NEW k \in S, k \in kept PROVE Place(kept, k) = Place(S, k) + 1
  <2>1. Place(all, k) = Place(S, k) + 1
    <3>1. PICK m \in Nat : m = k
      BY <1>3
    <3>2. Place(S \cup {x}, m) = IF x > m THEN Place(S, m) + 1 ELSE Place(S, m)
      BY <1>3, <3>1, PlaceOfAdded
    <3>3. x > m
      BY <1>3, <3>1
    <3> QED
      BY <1>1, <3>1, <3>2, <3>3
  <2>2. Place(kept, k) = Place(all, k)
    <3>1. CASE n = 0
      BY <1>1, <3>1
    <3>2. CASE n # 0
      <4>1. kept = Newest(all, n)
        BY <1>1, <3>2
      <4>2. Place(Newest(all, n), k) = Place(all, k)
        BY <1>4, <1>8, <4>1, PlaceOfKept
      <4> QED
        BY <4>1, <4>2
    <3> QED
      BY <3>1, <3>2
  <2> QED
    BY <2>1, <2>2
<1>9. NoneSkipped'
  <2>1. rows' \subseteq rows \cup {x}
    BY <1>1, <1>2, <1>3
  <2>2. start \cap Seen' \subseteq Seen
    <3>1. CASE backend = "postgres"
      BY <1>2, <1>6, <2>1, <3>1, SeenByKey DEF reader
    <3>2. CASE backend = "sqlite"
      <4> SUFFICES ASSUME NEW k \in start, k \in Seen' PROVE k \in Seen
        OBVIOUS
      <4>1. k \in kept /\ Place(kept, k) < cursor.offset
        BY <1>2, <3>2 DEF Seen, Passed, reader
      <4>2. k \in S
        BY <1>1, <1>3, <1>6, <4>1
      <4>3. Place(S, k) \in Nat /\ cursor.offset \in Nat
        BY <1>3, PlaceType, RowsFinite DEF LInv
      <4>4. Place(S, k) < cursor.offset
        BY <1>8, <4>1, <4>2, <4>3
      <4> QED
        BY <1>1, <3>2, <4>2, <4>4 DEF Seen, Passed
    <3> QED
      BY <3>1, <3>2, BackendsAssumption DEF LInv, TypeOK
  <2>3. ASSUME backend = "postgres", Active, cursor.id \notin rows', NEW k \in rows'
        PROVE  k > cursor.id
    <3>1. cursor.id \in 0..issued
      BY DEF Books
    <3>2. CASE k = x
      BY <1>1, <1>3, <3>1, <3>2
    <3>3. CASE k # x
      <4>1. k \in S /\ k \in kept
        BY <1>1, <1>2, <1>3, <2>3, <3>3
      <4>2. CASE cursor.id \notin rows
        BY <1>1, <1>2, <2>3, <4>1, <4>2 DEF NoneSkipped
      <4>3. CASE cursor.id \in rows
        <5>1. PICK id : id = cursor.id
          OBVIOUS
        <5>2. id \in all /\ id \notin kept
          BY <1>1, <1>2, <2>3, <4>3, <5>1
        <5>3. kept = Newest(all, n)
          BY <1>1, <5>2
        <5>4. k > id
          BY <1>4, <4>1, <5>2, <5>3, KeptAreNewer
        <5> QED
          BY <5>1, <5>4
      <4> QED
        BY <4>2, <4>3
    <3> QED
      BY <3>2, <3>3
  <2> QED
    BY <1>2, <1>6, <2>1, <2>2, <2>3, RowsNoneSkipped
<1>10. ExactSoFar'
  <2>1. came' + gone' > 0 \/ ~Begun
    <3>1. gone' \in Nat
      BY DEF LInv, TypeOK
    <3> QED
      BY <1>5, <3>1
  <2> QED
    BY <1>2, <1>7, <2>1, RowsExactSoFar
<1>11. DriftSoFar'
  <2>1. rows' \subseteq rows \cup {x}
    BY <1>1, <1>2, <1>3
  <2>2. \A k \in rows \cap rows' : Place(rows', k) \in {Place(rows, k), Place(rows, k) + 1}
    BY <1>1, <1>2, <1>8
  <2> QED
    BY <1>2, <1>5, <1>6, <1>7, <2>1, <2>2, RowsGrowDrift
<1> QED
  BY <1>7, <1>9, <1>10, <1>11

(* Steps that leave the rows and the counts alone.                         *)
LEMMA RowsStay ==
    ASSUME CountsInv, LInv', Books', UNCHANGED <<backend, kind, rows, reader, came, gone>>
    PROVE  CountsInv'
<1>1. /\ Listed' = Listed /\ (Active' <=> Active) /\ (Begun' <=> Begun) /\ Again' = Again
      /\ Seen' = Seen /\ Missed' = Missed
      /\ \A k : Times(k)' = Times(k)
  BY DEF reader, Listed, Active, Begun, Again, Times, Seen, Missed
<1>2. Overlooked' = Overlooked /\ Due' = Due
  BY <1>1 DEF Overlooked, Due, reader
<1>3. (Again \cup Due)' = Again \cup Due
  BY <1>1, <1>2
<1>4. NoneSkipped'
  BY <1>1 DEF CountsInv, NoneSkipped, NothingSkipped, reader
<1>5. ExactSoFar'
  BY <1>1 DEF CountsInv, ExactSoFar, reader
<1>6. DriftSoFar'
  BY <1>1, <1>2, <1>3 DEF CountsInv, DriftSoFar, reader
<1> QED
  BY <1>4, <1>5, <1>6 DEF CountsInv

LEMMA FindFileCounts ==
    ASSUME CountsInv, LInv', FindFile
    PROVE  CountsInv'
<1> USE DEF CountsInv
<1>1. /\ pc = "ready" /\ pc' \in {"query", "missing"}
      /\ UNCHANGED <<backend, kind, issued, pending, rows, cursor, pages, start, cut, came, gone>>
  BY DEF FindFile, table
<1>2. /\ Listed' = Listed /\ (Begun' <=> Begun) /\ Again' = Again
      /\ Seen' = Seen /\ Missed' = Missed /\ Active /\ pc' # "done"
      /\ \A k : Times(k)' = Times(k)
  BY <1>1 DEF Listed, Active, Begun, Again, Times, Seen, Missed
<1>3. Books'
  BY <1>1, <1>2 DEF Books
<1>4. NoneSkipped'
  BY <1>1, <1>2 DEF NoneSkipped, NothingSkipped
<1>5. ExactSoFar'
  BY <1>1, <1>2 DEF ExactSoFar
<1>6. DriftSoFar'
  <2>1. Overlooked' \subseteq Overlooked /\ (Again \cup Due)' \subseteq Again \cup Due
    BY <1>1, <1>2 DEF Overlooked, Due
  <2>2. IsFiniteSet(Overlooked) /\ IsFiniteSet(Again \cup Due)
    BY CountedFinite DEF LInv
  <2>3. /\ Cardinality(Overlooked') \in Nat /\ Cardinality(Overlooked) \in Nat
        /\ Cardinality(Overlooked') <= Cardinality(Overlooked)
    BY <2>1, <2>2, AtMost
  <2>4. /\ Cardinality((Again \cup Due)') \in Nat /\ Cardinality(Again \cup Due) \in Nat
        /\ Cardinality((Again \cup Due)') <= Cardinality(Again \cup Due)
    BY <2>1, <2>2, AtMost
  <2>5. came \in Nat /\ gone \in Nat
    BY DEF LInv, TypeOK
  <2> QED
    BY <1>1, <1>2, <2>3, <2>4, <2>5 DEF DriftSoFar
<1> QED
  BY <1>3, <1>4, <1>5, <1>6

LEMMA CountsStep == CountsInv /\ [Next]_vars => CountsInv'
<1> SUFFICES ASSUME CountsInv, [Next]_vars PROVE CountsInv'
  OBVIOUS
<1>1. LInv'
  BY LStep DEF CountsInv
<1>2. CASE BeginCreate
  <2>1. UNCHANGED <<backend, kind, rows, reader, came, gone>>
    BY <1>2 DEF BeginCreate
  <2>2. Books'
    <3>1. issued \in Nat /\ rows \subseteq 1..issued
      BY RowsFinite DEF CountsInv, LInv
    <3>2. /\ issued' = issued + 1 /\ pending' = pending \cup {issued + 1} /\ kind = "files"
      BY <1>2 DEF BeginCreate
    <3>3. 1..issued \subseteq 1..issued' /\ 0..issued \subseteq 0..issued' /\ issued + 1 \notin 1..issued
      BY <3>1, <3>2
    <3>4. Listed' = Listed /\ (Begun' <=> Begun)
      BY <2>1 DEF Listed, Begun, reader
    <3> QED
      BY <2>1, <3>1, <3>2, <3>3, <3>4 DEF CountsInv, Books, reader
  <2> QED
    BY <1>1, <2>1, <2>2, RowsStay
<1>3. ASSUME NEW k \in Keys, CommitCreate(k) PROVE CountsInv'
  BY <1>1, <1>3, CommitCounts
<1>4. ASSUME NEW k \in Keys, AbandonCreate(k) PROVE CountsInv'
  <2>1. UNCHANGED <<backend, kind, issued, rows, reader, came, gone>> /\ pending' = pending \ {k}
    BY <1>4 DEF AbandonCreate
  <2>2. Books'
    BY <2>1 DEF CountsInv, Books, reader, Listed, Begun
  <2> QED
    BY <1>1, <2>1, <2>2, RowsStay
<1>5. ASSUME NEW k \in Keys, DeleteFile(k) PROVE CountsInv'
  BY <1>1, <1>5, DeleteFileCounts
<1>6. CASE DeleteAll
  BY <1>1, <1>6, DeleteAllCounts
<1>7. CASE AppendRevision
  BY <1>1, <1>7, AppendCounts
<1>8. CASE kind = "revisions" /\ FindFile
  BY <1>1, <1>8, FindFileCounts
<1>9. ASSUME NEW limit \in PageSizes, ListPage(limit) PROVE CountsInv'
  <2>1. PICK page : TakesPage(page)
    BY <1>9, PageStep DEF CountsInv
  <2>2. TypeOK'
    BY <1>1 DEF LInv
  <2>3. Books'
    BY <2>1, PageBooks DEF CountsInv
  <2>4. NoneSkipped'
    BY <2>1, PageNoneSkipped DEF CountsInv
  <2>5. ExactSoFar'
    BY <2>1, PageExactSoFar DEF CountsInv
  <2>6. DriftSoFar'
    BY <2>1, <2>2, PageDriftSoFar DEF CountsInv
  <2> QED
    BY <1>1, <2>3, <2>4, <2>5, <2>6 DEF CountsInv
<1>10. CASE UNCHANGED vars
  <2>1. UNCHANGED <<backend, kind, issued, pending, rows, reader, came, gone>>
    BY <1>10 DEF vars, table
  <2>2. Books'
    BY <2>1 DEF CountsInv, Books, reader, Listed, Begun
  <2> QED
    BY <1>1, <2>1, <2>2, RowsStay
<1> QED
  BY <1>2, <1>3, <1>4, <1>5, <1>6, <1>7, <1>8, <1>9, <1>10 DEF Next

LEMMA CountsInvariant == Spec => []CountsInv
BY CountsInit, CountsStep, PTL DEF Spec

(* Whatever limits the client asks with, and whatever others create,       *)
(* delete and prune between two pages: a row that was there throughout is  *)
(* on a page, for revisions on both backends and for files on PostgreSQL   *)
(* unless the file of a cursor was deleted.                                *)
THEOREM NoRowSkipped == Spec => []NothingSkipped
<1>1. CountsInv => NothingSkipped
  BY DEF CountsInv, NoneSkipped
<1> QED
  BY <1>1, CountsInvariant, PTL

(* On SQLite the rows missed are no more than the rows deleted since the   *)
(* first page, and the rows returned twice no more than the rows created;  *)
(* none is returned more often than one time for each of these and once.   *)
THEOREM DriftBounded == Spec => []DriftIsBounded
<1>1. CountsInv => DriftIsBounded
  <2> SUFFICES ASSUME CountsInv, pc = "done", backend = "sqlite"
               PROVE  /\ Cardinality(Missed) <= gone
                      /\ \A k \in Listed : Times(k) <= came + 1
                      /\ Cardinality({k \in Listed : Times(k) > 1}) <= came
    BY DEF DriftIsBounded
  <2>1. Overlooked = Missed /\ Again \cup Due = {k \in Listed : Times(k) > 1}
    BY DEF Overlooked, Again, Due, Active
  <2> QED
    BY <2>1 DEF CountsInv, DriftSoFar
<1> QED
  BY <1>1, CountsInvariant, PTL

(* When nothing comes or goes meanwhile, the pages together are exactly    *)
(* the list, each row once and in order, whatever limits are asked for.    *)
THEOREM QuietExact == Spec => []QuietListingExact
<1>1. CountsInv => QuietListingExact
  BY DEF CountsInv, ExactSoFar, QuietListingExact
<1> QED
  BY <1>1, CountsInvariant, PTL
=============================================================================
