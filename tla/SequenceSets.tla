---------------------------- MODULE SequenceSets ----------------------------
(***************************************************************************)
(* Facts about finite sets of rows ordered by a number each row carries:   *)
(* which rows the prune statement of Revisions.Create finds beyond the     *)
(* limit, and how many it leaves (used by RevisionTx_proofs).  And, from   *)
(* the least number of a set, induction up to a bound, and that what is    *)
(* defined step by step up to a bound exists (Reading_proofs, Tui_proofs). *)
(***************************************************************************)
EXTENDS Naturals, FiniteSets, FiniteSetTheorems, WellFoundedInduction, TLAPS

(* The rows of S with a higher, or a lower, number than row d. *)
Above(S, f, d) == {e \in S : f[e] > f[d]}
Below(S, f, d) == {e \in S : f[e] < f[d]}

(* The rows beyond the k with the highest numbers. *)
Old(S, f, k) == {d \in S : Cardinality(Above(S, f, d)) >= k}

Numbered(S, f) == \A x \in S : f[x] \in Nat
Distinct(S, f) == \A x, y \in S : f[x] = f[y] => x = y

(* A finite non-empty set has a row with the highest number.               *)
LEMMA HasTop ==
    ASSUME NEW S, NEW f, IsFiniteSet(S), S # {}, Numbered(S, f)
    PROVE  \E d \in S : \A e \in S : f[e] <= f[d]
<1> DEFINE T == {Above(S, f, d) : d \in S}
<1>1. IsWellFoundedOn(StrictSubsetOrdering(S), FiniteSubsetsOf(S))
  BY FS_StrictSubsetOrderingWellFounded
<1>2. T \subseteq FiniteSubsetsOf(S) /\ T # {}
  <2>1. \A d \in S : Above(S, f, d) \in SUBSET S
    BY DEF Above
  <2>2. \A d \in S : IsFiniteSet(Above(S, f, d))
    BY <2>1, FS_Subset
  <2> QED
    BY <2>1, <2>2 DEF FiniteSubsetsOf
<1>3. PICK X \in T : \A Y \in T : ~(<<Y, X>> \in StrictSubsetOrdering(S))
  <2> HIDE DEF T
  <2> QED
    BY <1>1, <1>2, WFMin
<1>4. PICK d \in S : X = Above(S, f, d)
  BY <1>3
<1>5. SUFFICES ASSUME NEW e \in S, f[e] > f[d]
               PROVE  FALSE
  BY DEF Numbered
<1>6. Above(S, f, e) \subseteq X /\ Above(S, f, e) # X
  BY <1>4, <1>5 DEF Above, Numbered
<1>7. <<Above(S, f, e), X>> \in StrictSubsetOrdering(S)
  BY <1>6, <1>4 DEF StrictSubsetOrdering, Above
<1> QED
  BY <1>3, <1>7

(* ... and one with the lowest.                                            *)
LEMMA HasBottom ==
    ASSUME NEW S, NEW f, IsFiniteSet(S), S # {}, Numbered(S, f)
    PROVE  \E d \in S : \A e \in S : f[d] <= f[e]
<1> DEFINE T == {Below(S, f, d) : d \in S}
<1>1. IsWellFoundedOn(StrictSubsetOrdering(S), FiniteSubsetsOf(S))
  BY FS_StrictSubsetOrderingWellFounded
<1>2. T \subseteq FiniteSubsetsOf(S) /\ T # {}
  <2>1. \A d \in S : Below(S, f, d) \in SUBSET S
    BY DEF Below
  <2>2. \A d \in S : IsFiniteSet(Below(S, f, d))
    BY <2>1, FS_Subset
  <2> QED
    BY <2>1, <2>2 DEF FiniteSubsetsOf
<1>3. PICK X \in T : \A Y \in T : ~(<<Y, X>> \in StrictSubsetOrdering(S))
  <2> HIDE DEF T
  <2> QED
    BY <1>1, <1>2, WFMin
<1>4. PICK d \in S : X = Below(S, f, d)
  BY <1>3
<1>5. SUFFICES ASSUME NEW e \in S, f[e] < f[d]
               PROVE  FALSE
  BY DEF Numbered
<1>6. Below(S, f, e) \subseteq X /\ Below(S, f, e) # X
  BY <1>4, <1>5 DEF Below, Numbered
<1>7. <<Below(S, f, e), X>> \in StrictSubsetOrdering(S)
  BY <1>6, <1>4 DEF StrictSubsetOrdering, Below
<1> QED
  BY <1>3, <1>7

(* The sets above are finite, so their sizes are numbers.                  *)
LEMMA AboveSize ==
    ASSUME NEW S, NEW f, IsFiniteSet(S), NEW d
    PROVE  IsFiniteSet(Above(S, f, d)) /\ Cardinality(Above(S, f, d)) \in Nat
<1>1. Above(S, f, d) \in SUBSET S
  BY DEF Above
<1> QED
  BY <1>1, FS_Subset, FS_CardinalityType

(* Every row older than one beyond the limit is beyond the limit.          *)
LEMMA OldClosed ==
    ASSUME NEW S, NEW f, NEW k \in Nat, IsFiniteSet(S), Numbered(S, f),
           NEW d \in Old(S, f, k), NEW e \in S, f[e] <= f[d]
    PROVE  e \in Old(S, f, k)
<1>1. Above(S, f, d) \in SUBSET Above(S, f, e)
  BY DEF Above, Old, Numbered
<1>2. Cardinality(Above(S, f, d)) <= Cardinality(Above(S, f, e))
  BY <1>1, AboveSize, FS_Subset
<1> QED
  BY <1>2, AboveSize DEF Old

(* The newest row is never beyond the limit.                               *)
LEMMA TopKept ==
    ASSUME NEW S, NEW f, NEW k \in Nat \ {0}, Numbered(S, f),
           NEW c \in S, \A e \in S : f[e] <= f[c]
    PROVE  c \notin Old(S, f, k)
<1>1. Above(S, f, c) = {}
  BY DEF Above, Numbered
<1> QED
  BY <1>1, FS_EmptySet DEF Old

(* When rows are pruned, exactly k are left.                               *)
LEMMA OldCount ==
    ASSUME NEW S, NEW f, NEW k \in Nat \ {0}, IsFiniteSet(S),
           Numbered(S, f), Distinct(S, f), Old(S, f, k) # {}
    PROVE  Cardinality(S \ Old(S, f, k)) = k
<1> DEFINE O == Old(S, f, k)
           K == S \ O
<1>1. O \in SUBSET S /\ IsFiniteSet(O) /\ Numbered(O, f)
  <2>1. O \in SUBSET S
    BY DEF Old
  <2> QED
    BY <2>1, FS_Subset DEF Numbered
<1>2. IsFiniteSet(K) /\ Cardinality(K) \in Nat /\ Numbered(K, f)
  <2>1. K \in SUBSET S
    OBVIOUS
  <2> QED
    BY <2>1, FS_Subset, FS_CardinalityType DEF Numbered
<1>3. PICK d \in O : \A e \in O : f[e] <= f[d]
  <2>1. O # {}
    OBVIOUS
  <2> HIDE DEF O
  <2> QED
    BY <1>1, <2>1, HasTop
<1>4. Cardinality(K) >= k
  <2>1. Above(S, f, d) \in SUBSET K
    BY <1>1, <1>3 DEF Above, Numbered
  <2>2. Cardinality(Above(S, f, d)) <= Cardinality(K)
    BY <2>1, <1>2, FS_Subset
  <2>3. Cardinality(Above(S, f, d)) >= k
    BY <1>3 DEF Old
  <2>4. Cardinality(Above(S, f, d)) \in Nat
    BY AboveSize
  <2> QED
    BY <2>2, <2>3, <2>4, <1>2
<1>5. K # {}
  BY <1>4, FS_EmptySet
<1>6. PICK m \in K : \A e \in K : f[m] <= f[e]
  BY <1>2, <1>5, HasBottom
<1>7. K \ {m} \in SUBSET Above(S, f, m)
  BY <1>6 DEF Above, Numbered, Distinct
<1>8. Cardinality(K \ {m}) = Cardinality(K) - 1
  BY <1>2, <1>6, FS_RemoveElement
<1>9. Cardinality(K \ {m}) <= Cardinality(Above(S, f, m))
  BY <1>7, AboveSize, FS_Subset
<1>10. Cardinality(Above(S, f, m)) < k
  BY <1>6, AboveSize DEF Old
<1> QED
  BY <1>2, <1>4, <1>8, <1>9, <1>10, AboveSize

(* More rows than the limit: some are beyond it.                           *)
LEMMA OldSome ==
    ASSUME NEW S, NEW f, NEW k \in Nat \ {0}, IsFiniteSet(S),
           Numbered(S, f), Distinct(S, f), Cardinality(S) > k
    PROVE  Old(S, f, k) # {}
<1>1. S # {}
  BY FS_EmptySet
<1>2. PICK m \in S : \A e \in S : f[m] <= f[e]
  BY <1>1, HasBottom
<1>3. Above(S, f, m) = S \ {m}
  BY <1>2 DEF Above, Numbered, Distinct
<1>4. Cardinality(S \ {m}) = Cardinality(S) - 1
  BY <1>2, FS_RemoveElement
<1>5. Cardinality(S) \in Nat
  BY FS_CardinalityType
<1>6. Cardinality(Above(S, f, m)) >= k
  BY <1>3, <1>4, <1>5
<1> QED
  BY <1>2, <1>6 DEF Old

(* A row older than a full window is the only one beyond the limit.        *)
LEMMA OldStale ==
    ASSUME NEW R, NEW f, NEW k \in Nat \ {0}, IsFiniteSet(R), NEW c, c \notin R,
           Numbered(R \cup {c}, f), Cardinality(R) = k, \A d \in R : f[c] < f[d]
    PROVE  Old(R \cup {c}, f, k) = {c}
<1> DEFINE S == R \cup {c}
<1>1. IsFiniteSet(S)
  BY FS_AddElement
<1>2. Above(S, f, c) = R
  BY DEF Above, Numbered
<1>3. c \in Old(S, f, k)
  BY <1>2 DEF Old
<1>4. ASSUME NEW d \in R
      PROVE  d \notin Old(S, f, k)
  <2>1. Above(S, f, d) \in SUBSET (R \ {d})
    BY DEF Above, Numbered
  <2>2. IsFiniteSet(R \ {d}) /\ Cardinality(R \ {d}) = k - 1
    BY FS_RemoveElement
  <2>3. Cardinality(Above(S, f, d)) <= Cardinality(R \ {d})
    <3> HIDE DEF S
    <3> QED
      BY <2>1, <2>2, FS_Subset
  <2>4. Cardinality(Above(S, f, d)) \in Nat
    BY <1>1, AboveSize
  <2> QED
    BY <2>2, <2>3, <2>4 DEF Old
<1> QED
  BY <1>3, <1>4 DEF Old

(* With distinct numbers, counting rows is counting their numbers: the     *)
(* rows within the limit carry the k highest numbers.                      *)
LEMMA NewestNumbers ==
    ASSUME NEW S, NEW f, NEW k \in Nat, IsFiniteSet(S), Numbered(S, f), Distinct(S, f)
    PROVE  LET N == {f[d] : d \in S} IN
           {f[d] : d \in S \ Old(S, f, k)} =
               {m \in N : Cardinality({n \in N : n > m}) < k}
<1> DEFINE N == {f[d] : d \in S}
           Higher(m) == {n \in N : n > m}
<1>1. ASSUME NEW d \in S
      PROVE  /\ Cardinality(Higher(f[d])) = Cardinality(Above(S, f, d))
             /\ Cardinality(Above(S, f, d)) \in Nat
  <2> DEFINE A == Above(S, f, d)
             H == Higher(f[d])
             g == [e \in A |-> f[e]]
  <2>1. g \in [A -> H]
    BY DEF Above
  <2>2. \A x, y \in A : g[x] = g[y] => x = y
    BY DEF Above, Distinct
  <2>3. \A n \in H : \E e \in A : g[e] = n
    BY DEF Above
  <2>4. g \in Bijection(A, H)
    <3> HIDE DEF A, H, g
    <3> QED
      BY <2>1, <2>2, <2>3 DEF Bijection, Injection, Surjection, IsInjective
  <2>5. IsFiniteSet(A) /\ Cardinality(A) \in Nat
    BY AboveSize
  <2> HIDE DEF A, H, g
  <2>6. Cardinality(H) = Cardinality(A)
    BY <2>4, <2>5, FS_Bijection DEF ExistsBijection
  <2> QED
    BY <2>5, <2>6 DEF A, H
<1>2. \A d \in S : d \notin Old(S, f, k) <=> Cardinality(Higher(f[d])) < k
  BY <1>1 DEF Old
<1> HIDE DEF Higher
<1>3. {f[d] : d \in S \ Old(S, f, k)} = {m \in N : Cardinality(Higher(m)) < k}
  BY <1>2
<1> QED
  BY <1>3 DEF Higher

(* Induction up to a bound, for a set that holds the numbers for which a   *)
(* statement is true.                                                      *)
LEMMA InductionTo ==
    ASSUME NEW N \in Nat, NEW T \in SUBSET (0..N), 0 \in T,
           \A n \in 1..N : n - 1 \in T => n \in T
    PROVE  T = 0..N
<1> DEFINE S == (0..N) \ T
           id == [x \in S |-> x]
<1> SUFFICES ASSUME S # {} PROVE FALSE
  OBVIOUS
<1>1. IsFiniteSet(0..N)
  BY FS_Interval
<1>2. S \subseteq 0..N
  OBVIOUS
<1>3. IsFiniteSet(S)
  BY <1>1, <1>2, FS_Subset
<1>4. Numbered(S, id)
  BY DEF Numbered
<1>5. PICK d \in S : \A e \in S : id[d] <= id[e]
  <2> HIDE DEF S, id
  <2> QED
    BY <1>3, <1>4, HasBottom
<1>6. d \in 1..N /\ d - 1 \in 0..N
  OBVIOUS
<1>7. d - 1 \in S
  BY <1>6
<1> QED
  BY <1>5, <1>6, <1>7

(* A function defined from its value at n - 1 exists.                      *)
IsLoop(f, N, a, step) == f = [n \in 0..N |-> IF n = 0 THEN a ELSE step[n][f[n - 1]]]

LEMMA LoopExists ==
    ASSUME NEW N \in Nat, NEW S, NEW a \in S, NEW step \in [1..N -> [S -> S]]
    PROVE  \E f \in [0..N -> S] : IsLoop(f, N, a, step)
<1> DEFINE Upto(m, f) == f \in [0..m -> S] /\ f[0] = a /\ \A n \in 1..m : f[n] = step[n][f[n - 1]]
           T == {m \in 0..N : \E f \in [0..m -> S] : Upto(m, f)}
<1>1. 0 \in T
  <2> DEFINE z == [n \in 0..0 |-> a]
  <2>1. z \in [0..0 -> S] /\ Upto(0, z)
    OBVIOUS
  <2> HIDE DEF z, Upto
  <2> QED
    BY <2>1
<1>2. ASSUME NEW m \in 1..N, m - 1 \in T PROVE m \in T
  <2>1. PICK f \in [0..(m - 1) -> S] : Upto(m - 1, f)
    BY <1>2
  <2> DEFINE g == [n \in 0..m |-> IF n < m THEN f[n] ELSE step[m][f[m - 1]]]
  <2>2. f[m - 1] \in S /\ step[m][f[m - 1]] \in S
    OBVIOUS
  <2>3. g \in [0..m -> S] /\ g[0] = a
    BY <2>1, <2>2
  <2>4. \A n \in 1..m : g[n] = step[n][g[n - 1]]
    BY <2>1
  <2> HIDE DEF g
  <2>5. Upto(m, g)
    BY <2>3, <2>4
  <2> HIDE DEF Upto
  <2> QED
    BY <2>3, <2>5
<1>3. N \in T
  <2> HIDE DEF T
  <2>1. T = 0..N
    <3>1. T \in SUBSET (0..N)
      BY DEF T
    <3> QED
      BY <1>1, <1>2, <3>1, InductionTo
  <2> QED
    BY <2>1
<1>4. PICK f \in [0..N -> S] : Upto(N, f)
  BY <1>3
<1>5. IsLoop(f, N, a, step)
  BY <1>4 DEF IsLoop
<1> QED
  BY <1>5
=============================================================================
