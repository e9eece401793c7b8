---------------------------- MODULE Reading_proofs ----------------------------
(***************************************************************************)
(* What a reader is shown, for any number of contents, revisions and links *)
(* and any interleaving of the owner's steps with the reads of an answer,  *)
(* and that a lifetime is read as it is written, for any width of the      *)
(* integers, any units and any numbers.                                    *)
(***************************************************************************)
EXTENDS Reading, SequenceSets

-----------------------------------------------------------------------------
(* Arithmetic the provers need to be told of.                              *)
LEMMA Division ==
    ASSUME NEW x \in Int, NEW m \in Nat \ {0}
    PROVE  /\ x \div m \in Int /\ m * (x \div m) \in Int
           /\ m * (x \div m) <= x /\ x < m * (x \div m) + m
OBVIOUS

LEMMA Remainder ==
    ASSUME NEW x \in Nat, NEW m \in Nat \ {0}, x < m
    PROVE  x % m = x
OBVIOUS

LEMMA ProductGrows ==
    ASSUME NEW a \in Int, NEW b \in Int, NEW m \in Nat \ {0}, a <= b
    PROVE  m * a \in Int /\ m * b \in Int /\ m * a <= m * b
OBVIOUS

LEMMA SumOfThree ==
    ASSUME NEW a \in Nat, NEW b \in Nat, NEW c \in Nat
    PROVE  a + (b + c) = a + b + c /\ a + b + c \in Nat
OBVIOUS

(* Of what there is a term, there are units, so an integer has two bits.   *)
LEMMA HalfSize ==
    ASSUME NEW t \in Terms
    PROVE  /\ Half \in Nat /\ Half >= 2
           /\ t.v \in Nat /\ t.unit \in 1..(Half - 1) /\ t.fraction \in 0..t.unit
<1>1. Half \in Int
  BY WidthAssumption DEF Half
<1>2. t.v \in Nat /\ t.unit \in 1..(Half - 1)
  BY UnitsAssumption, NumbersAssumption DEF Terms
<1>3. t.fraction \in {0, t.unit - 1, t.unit}
  BY DEF Terms
<1> QED
  BY <1>1, <1>2, <1>3

LEMMA TermParts ==
    ASSUME NEW t \in Terms
    PROVE  /\ t.v \in Nat /\ t.unit \in Nat /\ t.fraction \in Nat /\ t.v * t.unit \in Nat
           /\ t.v * t.unit + t.fraction \in Nat
<1>1. t.v \in Nat /\ t.unit \in Nat /\ t.fraction \in Nat
  BY HalfSize
<1>2. PICK a \in Nat, b \in Nat : a = t.v /\ b = t.unit
  BY <1>1
<1>3. a * b \in Nat
  OBVIOUS
<1> QED
  BY <1>1, <1>2, <1>3

(* One turn of the loop: an accepted term adds what it says to the sum,    *)
(* unless both are 1 << 63.                                                *)
LEMMA TermAdded ==
    ASSUME NEW t \in Terms, NEW d \in 0..Half
    PROVE  LET x == t.v * t.unit + t.fraction IN
           /\ x \in Nat
           /\ AddTerm(d, t) \in 0..Half \cup {Invalid}
           /\ AddTerm(d, t) # Invalid =>
                 /\ x <= Half /\ AddTerm(0, t) = x
                 /\ ~(d = Half /\ x = Half) => AddTerm(d, t) = d + x
<1> DEFINE p == t.v * t.unit
           x == p + t.fraction
<1>1. /\ Half \in Nat /\ Half >= 2 /\ Invalid = 2 * Half
      /\ t.v \in Nat /\ t.unit \in 1..(Half - 1) /\ t.fraction \in 0..t.unit
  BY HalfSize DEF Invalid
<1>2. p \in Nat /\ x \in Nat
  BY <1>1
<1>3. ASSUME NEW n \in Nat, n < 2 * Half PROVE Wrap(n) = n
  BY <1>1, <1>3, Remainder DEF Wrap
<1>4. ASSUME NEW n \in Nat PROVE Wrap(n) \in Nat
  BY <1>1 DEF Wrap
<1> DEFINE v == Wrap(Wrap(p) + t.fraction)
<1>5. v \in Nat
  BY <1>1, <1>2, <1>4
<1>6. CASE TooLong(t.v) \/ t.v > Half \div t.unit \/ v > Half
  BY <1>1, <1>2, <1>6 DEF AddTerm
<1>7. CASE ~(TooLong(t.v) \/ t.v > Half \div t.unit \/ v > Half)
  <2>1. p <= Half
    <3>1. t.v <= Half \div t.unit /\ Half \div t.unit \in Int
      BY <1>1, <1>7, Division
    <3>2. t.unit * t.v <= t.unit * (Half \div t.unit)
      BY <1>1, <3>1, ProductGrows
    <3>3. t.unit * (Half \div t.unit) <= Half /\ t.unit * (Half \div t.unit) \in Int
      <4>1. PICK m \in Nat \ {0} : m = t.unit
        BY <1>1
      <4>2. PICK h \in Int : h = Half
        BY <1>1
      <4>3. m * (h \div m) \in Int /\ m * (h \div m) <= h
        BY Division
      <4> QED
        BY <4>1, <4>2, <4>3
    <3>4. p = t.unit * t.v
      BY <1>1
    <3> QED
      BY <1>1, <1>2, <3>2, <3>3, <3>4
  <2> HIDE DEF p
  <2>2. Wrap(p) = p
    BY <1>1, <1>2, <1>3, <2>1
  <2>3. v = x
    BY <1>1, <1>2, <1>3, <2>1, <2>2
  <2>4. x <= Half
    BY <1>7, <2>3, <1>1, <1>2
  <2> DEFINE sum == Wrap(d + v)
  <2>5. sum \in Nat /\ (d + x < 2 * Half => sum = d + x)
    BY <1>1, <1>2, <1>3, <1>4, <2>3
  <2>6. AddTerm(d, t) = IF sum > Half THEN Invalid ELSE sum
    BY <1>7 DEF AddTerm, p
  <2>7. AddTerm(0, t) = x
    <3>1. Wrap(0 + v) = x
      BY <1>1, <1>2, <1>3, <2>3, <2>4
    <3> QED
      BY <1>1, <1>2, <1>7, <2>4, <3>1 DEF AddTerm, p
  <2> HIDE DEF sum
  <2>8. ~(d = Half /\ x = Half) => d + x < 2 * Half
    BY <1>1, <1>2, <2>4
  <2>9. AddTerm(d, t) \in 0..Half \cup {Invalid}
    BY <1>1, <2>5, <2>6
  <2>10. AddTerm(d, t) # Invalid => (~(d = Half /\ x = Half) => AddTerm(d, t) = d + x)
    BY <1>1, <1>2, <2>4, <2>5, <2>6, <2>8
  <2> QED
    BY <1>2, <2>4, <2>7, <2>9, <2>10 DEF p
<1> QED
  BY <1>6, <1>7

-----------------------------------------------------------------------------
(* The loops over the terms of a text, by induction on their number.       *)

LEMMA SumsLoop ==
    ASSUME NEW terms \in Seq(Terms)
    PROVE  /\ Sums(terms)[0] = 0
           /\ \A n \in 1..Len(terms) :
                 Sums(terms)[n] = IF Sums(terms)[n - 1] = Invalid THEN Invalid
                                  ELSE AddTerm(Sums(terms)[n - 1], terms[n])
<1> DEFINE N == Len(terms)
           S == 0..Half \cup {Invalid}
           step == [n \in 1..N |->
                      [d \in S |-> IF d = Invalid THEN Invalid ELSE AddTerm(d, terms[n])]]
           IsSum(f) == f = [n \in 0..N |-> IF n = 0 THEN 0
                                       ELSE IF f[n - 1] = Invalid THEN Invalid
                                       ELSE AddTerm(f[n - 1], terms[n])]
<1>1. CASE N = 0
  <2>1. IsSum([n \in 0..N |-> 0])
    BY <1>1
  <2>2. IsSum(Sums(terms))
    BY <2>1 DEF Sums
  <2> QED
    BY <1>1, <2>2
<1>2. CASE N # 0
  <2>1. N \in Nat /\ 0 \in S
    BY <1>2, HalfSize
  <2>2. step \in [1..N -> [S -> S]]
    BY TermAdded
  <2>3. PICK f \in [0..N -> S] : IsLoop(f, N, 0, step)
    <3> HIDE DEF step, S, N
    <3> QED
      BY <2>1, <2>2, LoopExists
  <2>4. IsSum(f)
    <3>1. \A n \in 1..N : f[n - 1] \in S
      OBVIOUS
    <3>2. \A n \in 1..N : step[n][f[n - 1]] = IF f[n - 1] = Invalid THEN Invalid
                                            ELSE AddTerm(f[n - 1], terms[n])
      BY <3>1
    <3> HIDE DEF step, S
    <3> QED
      BY <2>3, <3>2 DEF IsLoop
  <2>5. IsSum(Sums(terms))
    BY <2>4 DEF Sums
  <2> QED
    BY <2>1, <2>5
<1> QED
  BY <1>1, <1>2

LEMMA TotalsLoop ==
    ASSUME NEW terms \in Seq(Terms)
    PROVE  /\ Totals(terms)[0] = 0
           /\ \A n \in 1..Len(terms) :
                 Totals(terms)[n] =
                   Totals(terms)[n - 1] + terms[n].v * terms[n].unit + terms[n].fraction
<1> DEFINE N == Len(terms)
           x(n) == terms[n].v * terms[n].unit + terms[n].fraction
           step == [n \in 1..N |-> [d \in Nat |-> d + x(n)]]
           IsTotal(f) == f = [n \in 0..N |-> IF n = 0 THEN 0
                                  ELSE f[n - 1] + terms[n].v * terms[n].unit + terms[n].fraction]
<1>1. N \in Nat
  OBVIOUS
<1>2. ASSUME NEW n \in 1..N
      PROVE  terms[n].v * terms[n].unit \in Nat /\ terms[n].fraction \in Nat /\ x(n) \in Nat
  <2>1. terms[n] \in Terms
    OBVIOUS
  <2>2. PICK t \in Terms : t = terms[n]
    BY <2>1
  <2> QED
    BY <2>2, TermParts
<1>3. step \in [1..N -> [Nat -> Nat]]
  <2> HIDE DEF x
  <2> QED
    BY <1>2
<1>4. PICK f \in [0..N -> Nat] : IsLoop(f, N, 0, step)
  <2> HIDE DEF step, N
  <2> QED
    BY <1>1, <1>3, LoopExists
<1>5. IsTotal(f)
  <2>1. ASSUME NEW n \in 1..N
        PROVE  f[n - 1] \in Nat /\ step[n][f[n - 1]] = f[n - 1] + x(n)
    <3>1. f[n - 1] \in Nat
      BY <1>1
    <3> HIDE DEF x
    <3> QED
      BY <3>1
  <2>2. ASSUME NEW n \in 1..N
        PROVE  f[n] = f[n - 1] + terms[n].v * terms[n].unit + terms[n].fraction
    <3>1. f[n] = f[n - 1] + x(n)
      <4> HIDE DEF step, x
      <4>1. n \in 0..N /\ n # 0
        BY <1>1
      <4>2. f[n] = step[n][f[n - 1]]
        BY <1>4, <4>1 DEF IsLoop
      <4> QED
        BY <2>1, <4>2
    <3>2. /\ f[n - 1] \in Nat /\ terms[n].v * terms[n].unit \in Nat
          /\ terms[n].fraction \in Nat
      BY <1>2, <2>1
    <3>3. f[n - 1] + x(n) = f[n - 1] + terms[n].v * terms[n].unit + terms[n].fraction
      BY <3>2, SumOfThree
    <3> QED
      BY <3>1, <3>3
  <2>3. f[0] = 0
    BY <1>1, <1>4 DEF IsLoop
  <2> QED
    BY <2>2, <2>3
<1>6. IsTotal(Totals(terms))
  BY <1>5 DEF Totals
<1> QED
  BY <1>1, <1>6

(* A text that is accepted, and does not hit the one sum the code does not *)
(* see wrapping around, is read as it is written.                          *)
THEOREM ReadAsWritten ==
    ASSUME NEW text \in [neg : BOOLEAN, terms : Seq(Terms)], Half \in Nat
    PROVE  /\ ParseDuration(text) \in Int /\ Written(text) \in Int
           /\ ParseDuration(text) # Invalid /\ ~Wraps(text) =>
                 ParseDuration(text) = Written(text)
<1> DEFINE terms == text.terms
           N == Len(terms)
           s == Sums(terms)
           w == Totals(terms)
           Overrun(n) == \E m \in 1..n : s[m - 1] = Half /\ AddTerm(0, terms[m]) = Half
           Good(n) == /\ s[n] \in 0..Half \cup {Invalid} /\ w[n] \in Nat
                      /\ s[n] # Invalid /\ ~Overrun(n) => s[n] = w[n]
           T == {n \in 0..N : Good(n)}
<1>1. terms \in Seq(Terms) /\ N \in Nat
  OBVIOUS
<1>2. Invalid = 2 * Half
  BY DEF Invalid
<1>3. s[0] = 0 /\ w[0] = 0
  BY <1>1, SumsLoop, TotalsLoop
<1>4. 0 \in T
  <2> HIDE DEF s, w
  <2> QED
    BY <1>1, <1>3
<1>5. ASSUME NEW n \in 1..N, n - 1 \in T PROVE n \in T
  <2> DEFINE d == s[n - 1]
             t == terms[n]
             x == t.v * t.unit + t.fraction
  <2>1. t \in Terms /\ n \in 0..N /\ n - 1 \in 0..N
    BY <1>1
  <2>2. Good(n - 1)
    BY <1>5
  <2>3. /\ s[n] = IF d = Invalid THEN Invalid ELSE AddTerm(d, t)
        /\ w[n] = w[n - 1] + t.v * t.unit + t.fraction
    BY <1>1, SumsLoop, TotalsLoop
  <2>4. /\ x \in Nat /\ t.v \in Nat /\ t.unit \in Nat /\ t.fraction \in Nat
        /\ t.v * t.unit \in Nat
    <3>1. PICK u \in Terms : u = t
      BY <2>1
    <3> QED
      BY <3>1, TermParts
  <2>5. w[n] = w[n - 1] + x /\ w[n] \in Nat
    <3>1. w[n - 1] \in Nat
      BY <2>2
    <3>2. w[n - 1] + x = w[n - 1] + t.v * t.unit + t.fraction /\ w[n - 1] + x \in Nat
      <4>1. PICK p \in Nat : p = t.v * t.unit
        BY <2>4
      <4>2. PICK a \in Nat : a = w[n - 1]
        BY <3>1
      <4>3. a + (p + t.fraction) = a + p + t.fraction /\ a + p + t.fraction \in Nat
        BY <2>4, SumOfThree
      <4> HIDE DEF w, t
      <4> QED
        BY <4>1, <4>2, <4>3
    <3> QED
      BY <2>3, <3>2
  <2>6. CASE d = Invalid
    <3>1. s[n] = Invalid
      BY <2>3, <2>6
    <3> HIDE DEF s, w
    <3> QED
      BY <2>1, <2>5, <3>1
  <2>7. CASE d # Invalid
    <3>1. d \in 0..Half
      BY <2>2, <2>7
    <3>2. /\ AddTerm(d, t) \in 0..Half \cup {Invalid}
          /\ AddTerm(d, t) # Invalid =>
                /\ x <= Half /\ AddTerm(0, t) = x
                /\ ~(d = Half /\ x = Half) => AddTerm(d, t) = d + x
      BY <2>1, <3>1, TermAdded
    <3>3. s[n] = AddTerm(d, t)
      BY <2>3, <2>7
    <3>4. ASSUME s[n] # Invalid, ~Overrun(n) PROVE s[n] = w[n]
      <4>1. ~Overrun(n - 1)
        BY <3>4
      <4>2. ~(d = Half /\ AddTerm(0, t) = Half)
        BY <3>4
      <4>3. d = w[n - 1]
        BY <2>2, <2>7, <4>1
      <4>4. s[n] = d + x
        BY <3>2, <3>3, <3>4, <4>2
      <4> QED
        BY <2>5, <4>3, <4>4
    <3> HIDE DEF s, w, d, t, x, Overrun
    <3> QED
      BY <2>1, <2>5, <3>2, <3>3, <3>4
  <2> QED
    BY <2>6, <2>7
<1>6. Good(N)
  <2> HIDE DEF Good
  <2>1. T \in SUBSET (0..N)
    OBVIOUS
  <2> HIDE DEF T
  <2>2. T = 0..N
    BY <1>1, <1>4, <1>5, <2>1, InductionTo
  <2>3. N \in T
    BY <1>1, <2>2
  <2> QED
    BY <2>3 DEF T
<1>7. Wraps(text) <=> Overrun(N)
  BY DEF Wraps
<1>8. text.neg \in BOOLEAN
  OBVIOUS
<1>9. /\ ParseDuration(text) = IF s[N] = Invalid \/ (~text.neg /\ s[N] > Half - 1)
                              THEN Invalid
                              ELSE IF text.neg THEN 0 - s[N] ELSE s[N]
      /\ Written(text) = IF text.neg THEN 0 - w[N] ELSE w[N]
  BY DEF ParseDuration, Written
<1> HIDE DEF s, w, N, Overrun
<1> QED
  BY <1>2, <1>6, <1>7, <1>8, <1>9

-----------------------------------------------------------------------------
(* The inductive invariant. *)

(* The contents still to be stored have their numbers.                     *)
Room ==
    /\ IsFiniteSet(updates)
    /\ Exists => file.version + Cardinality(updates) <= MaxVersion

(* The revisions kept are the last ones made: none is missing between, and *)
(* if any was pruned there are as many as some limit there has been.       *)
Enough(count, last) == count >= last \/ \E n \in limits \ {0} : count >= n
Kept(lo, last) == lo \in 1..(last + 1) /\ Enough(last - lo + 1, last)
Window == \E last \in 0..MaxVersion, lo \in 1..(MaxVersion + 1) :
             revs = lo..last /\ Kept(lo, last)

(* The limit in force is one of those there have been.                    *)
InForce == limit \in limits

(* A revision is made before its content is stored.                        *)
RevisionsFirst ==
    Exists => /\ file.rev <= Latest(revs)
              /\ \A u \in updates : u.rev <= Latest(revs)

PublicIsExposed == Exists /\ ~file.private => file.version \in exposed

(* A signed URL holds the second in which its lifetime ends.               *)
Honest(link) == link # NoLink /\ ~link.wraps => link.exp = link.promised \div Second
LinksHonest == \A link \in links : Honest(link)

(* What is asked for goes with where the request is.                       *)
Stage ==
    /\ req.pc = "content" => req.kind \in {"page", "raw"}
    /\ req.pc = "count" => req.kind = "page"
    /\ req.pc = "list" => req.kind = "revisions"
    /\ req.pc \in {"revision", "diff"} => req.kind = "diff"
    /\ req.pc \notin {"count", "answered"} => req.stored = Nothing
    /\ req.kind \in {"metadata", "revisions", "diff"} => req.stored = Nothing
    /\ req.kind \in {"revisions", "diff"} => req.link = NoLink

(* Nobody else has been let in to a private file, unless it was hidden.    *)
Outsider ==
    /\ req.pc = "content" /\ req.who # "owner" /\ ~req.private /\ ~req.hidden /\ Exists =>
          ~file.private
    /\ req.who # "owner" /\ ~req.private /\ req.stored # Nothing =>
          req.stored \in exposed \/ (req.kind # "content" /\ req.hidden)

(* What was read, against what there is by now.                            *)
Answer ==
    /\ req.kind \in {"page", "raw", "content"} =>
          /\ req.shown = req.stored \/ req.disguised
          /\ req.pc \in {"count", "answered"} /\ req.stored = Nothing => ~Exists
    /\ req.kind = "diff" /\ req.pc \in {"diff", "answered"} /\ Exists =>
          req.asked <= Latest(revs)
    /\ req.kind = "diff" /\ req.pc = "answered" =>
          req.shown = req.asked \/ (req.shown = Nothing /\ req.asked \notin revs)

(* The revisions counted, against the revision of the content shown.       *)
Count ==
    /\ req.pc = "count" /\ Exists => req.rev <= Latest(revs)
    /\ req.pc = "answered" /\ req.kind = "page" /\ req.stored # Nothing /\ Exists
       /\ req.counted => Enough(req.count, req.rev)

Store == Room /\ Window /\ InForce /\ RevisionsFirst /\ PublicIsExposed /\ LinksHonest
RequestOK == Stage /\ Outsider /\ Answer /\ Count /\ Honest(req.link) /\ LinkAsPromised

RInv == TypeOK /\ Store /\ (req # NoReq => RequestOK)

-----------------------------------------------------------------------------
(* Lifetimes and the seconds in which they end.                            *)

LEMMA TTLsTrue ==
    ASSUME NEW r \in TTLs
    PROVE  /\ r.parsed \in Int /\ r.written \in Int /\ r.wraps \in BOOLEAN
           /\ ~r.wraps => r.parsed = r.written
<1>1. PICK t \in Texts : r = [parsed |-> ParseDuration(t), written |-> Written(t), wraps |-> Wraps(t)]
  BY DEF TTLs, Readings
<1>2. PICK n \in 1..MaxTerms : t.terms \in [1..n -> Terms]
  BY MaxTermsAssumption DEF Texts
<1>3. n \in Nat \ {0}
  BY MaxTermsAssumption
<1>4. t.terms \in Seq(Terms)
  BY <1>2, <1>3
<1>5. t.terms[1] \in Terms
  BY <1>2, <1>3
<1>6. t = [neg |-> t.neg, terms |-> t.terms] /\ t.neg \in BOOLEAN
  BY DEF Texts
<1>7. t \in [neg : BOOLEAN, terms : Seq(Terms)]
  BY <1>4, <1>6
<1>8. Wraps(t) \in BOOLEAN
  BY DEF Wraps
<1>9. r.parsed # Invalid
  BY DEF TTLs
<1> QED
  BY <1>1, <1>5, <1>7, <1>8, <1>9, HalfSize, ReadAsWritten

(* Of two times, by the seconds they fall in.                              *)
LEMMA SecondsOrder ==
    ASSUME NEW p \in Int, NEW n \in Int
    PROVE  /\ p \div Second > n \div Second => n < p
           /\ p \div Second <= n \div Second => n > p - Second
<1> DEFINE a == p \div Second
           b == n \div Second
<1>1. Second \in Nat \ {0}
  BY ReadingAssumption
<1>2. /\ a \in Int /\ Second * a \in Int /\ Second * a <= p /\ p < Second * a + Second
      /\ b \in Int /\ Second * b \in Int /\ Second * b <= n /\ n < Second * b + Second
  BY <1>1, Division
<1> HIDE DEF a, b
<1>3. CASE a > b
  <2>1. Second * (b + 1) <= Second * a /\ Second * (b + 1) \in Int
    BY <1>1, <1>2, <1>3, ProductGrows
  <2>2. Second * (b + 1) = Second * b + Second
    BY <1>1, <1>2
  <2>3. n < p
    BY <1>1, <1>2, <2>1, <2>2
  <2> QED
    BY <1>2, <1>3, <2>3 DEF a, b
<1>4. CASE a <= b
  <2>1. Second * a <= Second * b
    BY <1>1, <1>2, <1>4, ProductGrows
  <2>2. n > p - Second
    BY <1>1, <1>2, <2>1
  <2> QED
    BY <1>2, <1>4, <2>2 DEF a, b
<1> QED
  BY <1>2, <1>3, <1>4

(* A signed URL with an honest expiry is in time before its promised end,  *)
(* and expires in the last second before it.                               *)
LEMMA HonestInTime ==
    ASSUME NEW link \in Link, link # NoLink, ~link.wraps, Honest(link), now \in Nat
    PROVE  /\ NotExpired(link) => now < link.promised
           /\ ~NotExpired(link) => now > link.promised - Second
<1>1. link.promised \in Int /\ link.exp = link.promised \div Second
  BY DEF Link, Honest
<1>2. PICK n \in Int : n = now
  OBVIOUS
<1>3. /\ link.promised \div Second > n \div Second => n < link.promised
      /\ link.promised \div Second <= n \div Second => n > link.promised - Second
  BY <1>1, SecondsOrder
<1>4. link.promised \div Second \in Int /\ n \div Second \in Int
  BY <1>1, ReadingAssumption, Division
<1> QED
  BY <1>1, <1>2, <1>3, <1>4 DEF NotExpired

-----------------------------------------------------------------------------
(* The revisions kept.                                                     *)

LEMMA LimitsAreNumbers ==
    ASSUME TypeOK
    PROVE  limit \in Nat /\ limits \subseteq Nat
BY ReadingAssumption DEF TypeOK

LEMMA WindowOf ==
    ASSUME NEW last \in Nat, NEW lo \in 1..(last + 1), last = 0 \/ lo <= last
    PROVE  LET S == lo..last IN
           /\ Latest(S) = last
           /\ IsFiniteSet(S)
           /\ Cardinality(S) = last - lo + 1
<1> DEFINE S == lo..last
<1>1. IsFiniteSet(S) /\ Cardinality(S) = last - lo + 1
  <2>1. /\ IsFiniteSet(lo..last)
        /\ Cardinality(lo..last) = IF lo > last THEN 0 ELSE last - lo + 1
    BY FS_Interval
  <2> QED
    BY <2>1
<1>2. CASE last = 0
  <2>1. S = {}
    BY <1>2
  <2> QED
    BY <1>1, <1>2, <2>1 DEF Latest
<1>3. CASE last # 0
  <2>1. last \in S /\ \A m \in S : m <= last
    BY <1>3
  <2>2. \A n \in S : (\A m \in S : m <= n) => n = last
    BY <2>1
  <2> HIDE DEF S
  <2>3. Latest(S) = last
    BY <2>1, <2>2 DEF Latest
  <2> QED
    BY <1>1, <2>3 DEF S
<1> QED
  BY <1>2, <1>3

(* Making one more moves the end of the window, and pruning its begin.     *)
LEMMA WindowMoves ==
    ASSUME NEW last \in Nat, NEW lo \in 1..(last + 1), NEW k \in Nat,
           NEW all, all = (lo..last) \cup {last + 1}
    PROVE  \E up \in lo..(last + 1) :
              /\ (IF k = 0 THEN all ELSE Newest(all, k)) = up..(last + 1)
              /\ up = lo \/ (k # 0 /\ (last + 1) - up + 1 = k)
<1>1. all = lo..(last + 1)
  OBVIOUS
<1>2. CASE k = 0
  BY <1>1, <1>2
<1>3. CASE k # 0
  <2>1. ASSUME NEW n \in all
        PROVE  Cardinality({m \in all : m > n}) = last + 1 - n
    <3>1. n \in Nat /\ n <= last + 1
      BY <1>1
    <3>2. {m \in all : m > n} = (n + 1)..(last + 1)
      BY <1>1, <2>1
    <3>3. Cardinality((n + 1)..(last + 1)) =
             IF n + 1 > last + 1 THEN 0 ELSE (last + 1) - (n + 1) + 1
      BY <3>1, FS_Interval
    <3>4. Cardinality((n + 1)..(last + 1)) = last + 1 - n
      BY <3>1, <3>3
    <3> QED
      BY <3>2, <3>4
  <2>2. Newest(all, k) = {n \in all : last + 1 - n < k}
    <3> QED
      BY <2>1 DEF Newest
  <2>3. CASE last + 1 - lo < k
    <3>1. {n \in all : last + 1 - n < k} = lo..(last + 1)
      BY <1>1, <2>3
    <3>2. lo \in lo..(last + 1)
      OBVIOUS
    <3> QED
      BY <1>3, <2>2, <3>1, <3>2
  <2>4. CASE ~(last + 1 - lo < k)
    <3>1. PICK up \in Int : up = last + 1 - k + 1
      OBVIOUS
    <3>2. up \in lo..(last + 1) /\ (last + 1) - up + 1 = k
      BY <1>3, <2>4, <3>1
    <3>3. {n \in all : last + 1 - n < k} = up..(last + 1)
      BY <1>1, <1>3, <2>4, <3>1, <3>2
    <3> QED
      BY <1>3, <2>2, <3>2, <3>3
  <2> QED
    BY <2>3, <2>4
<1> QED
  BY <1>2, <1>3

LEMMA KeptWindow ==
    ASSUME NEW last \in Nat, NEW lo \in Int, Kept(lo, last), limits \subseteq Nat
    PROVE  lo \in 1..(last + 1) /\ (last = 0 \/ lo <= last)
BY DEF Kept, Enough

LEMMA LatestIsNumber ==
    ASSUME Window, limits \subseteq Nat
    PROVE  /\ Latest(revs) \in 0..MaxVersion
           /\ \E lo \in 1..(Latest(revs) + 1) :
                 revs = lo..Latest(revs) /\ Kept(lo, Latest(revs))
           /\ \A n \in revs : n <= Latest(revs)
           /\ Cardinality(revs) \in 0..MaxVersion
           /\ Enough(Cardinality(revs), Latest(revs))
<1>1. MaxVersion \in Nat
  BY ReadingAssumption
<1>2. PICK last \in 0..MaxVersion, lo \in 1..(MaxVersion + 1) :
         revs = lo..last /\ Kept(lo, last)
  BY DEF Window
<1>3. PICK S : S = revs
  OBVIOUS
<1>4. lo \in 1..(last + 1) /\ (last = 0 \/ lo <= last)
  BY <1>1, <1>2, KeptWindow
<1>5. Latest(S) = last /\ Cardinality(S) = last - lo + 1
  BY <1>1, <1>2, <1>3, <1>4, WindowOf
<1>6. Enough(Cardinality(S), last)
  BY <1>2, <1>5 DEF Kept
<1> QED
  BY <1>1, <1>2, <1>3, <1>4, <1>5, <1>6

-----------------------------------------------------------------------------
(* The steps of the owner leave the request as it is, but for its learning *)
(* that the file was hidden.                                               *)

LEMMA RequestsAreNot ==
    ASSUME NEW r \in Requests
    PROVE  r # NoReq /\ r.pc # "idle"
BY DEF Requests, NoReq

LEMMA RequestKept ==
    ASSUME RInv, Window', limits \subseteq limits', limits' \subseteq Nat,
           \/ req' = req \/ req' = NoReq
           \/ req # NoReq /\ req' = [req EXCEPT !.hidden = TRUE],
           Exists' => Exists /\ Latest(revs) <= Latest(revs'),
           \A n \in revs' : n \in revs \/ (Exists /\ n > Latest(revs)),
           exposed \subseteq exposed',
           Exists' /\ file'.private /\ ~file.private /\ req' # NoReq => req'.hidden
    PROVE  /\ req' \in {NoReq} \cup Requests
           /\ req' # NoReq => RequestOK'
<1>1. req \in {NoReq} \cup Requests
  BY DEF RInv, TypeOK
<1>2. CASE req' = NoReq
  BY <1>2
<1>3. CASE req' # NoReq
  <2>1. PICK r \in Requests : r = req
    BY <1>1, <1>3
  <2>2. PICK q : q = req'
    OBVIOUS
  <2>3. q = r \/ q = [r EXCEPT !.hidden = TRUE]
    BY <1>3, <2>1, <2>2
  <2>4. /\ q \in Requests
        /\ q.pc = r.pc /\ q.kind = r.kind /\ q.who = r.who /\ q.link = r.link
        /\ q.at = r.at /\ q.private = r.private /\ q.stored = r.stored
        /\ q.shown = r.shown /\ q.rev = r.rev /\ q.disguised = r.disguised
        /\ q.asked = r.asked /\ q.count = r.count /\ q.counted = r.counted
        /\ r.hidden => q.hidden
        /\ r.rev \in Int /\ r.asked \in Int /\ r.count \in Int
    <3>1. /\ q.pc = r.pc /\ q.kind = r.kind /\ q.who = r.who /\ q.link = r.link
          /\ q.at = r.at /\ q.private = r.private /\ q.stored = r.stored
          /\ q.shown = r.shown /\ q.rev = r.rev /\ q.disguised = r.disguised
          /\ q.asked = r.asked /\ q.count = r.count /\ q.counted = r.counted
      BY <2>3 DEF Requests
    <3>2. r.hidden => q.hidden
      BY <2>3 DEF Requests
    <3>3. q \in Requests
      <4>1. CASE q = r
        BY <4>1
      <4>2. CASE q = [r EXCEPT !.hidden = TRUE]
        BY <4>2 DEF Requests
      <4> QED
        BY <2>3, <4>1, <4>2
    <3>4. r.rev \in Int /\ r.asked \in Int /\ r.count \in Int
      BY DEF Requests
    <3> QED
      BY <3>1, <3>2, <3>3, <3>4
  <2>5. RequestOK /\ Window
    BY <1>3, <2>1, RequestsAreNot DEF RInv, Store
  <2>6. Latest(revs) \in Int
    BY <2>5, LatestIsNumber
  <2>7. Latest(revs') \in Int
    <3>1. PICK last \in 0..MaxVersion, lo \in 1..(MaxVersion + 1) :
             revs' = lo..last /\ Kept(lo, last)'
      BY DEF Window
    <3>2. PICK S : S = revs'
      OBVIOUS
    <3>3. last \in Nat /\ lo \in 1..(last + 1) /\ (last = 0 \/ lo <= last)
      BY <3>1, ReadingAssumption DEF Kept, Enough
    <3>4. Latest(S) = last
      BY <3>1, <3>2, <3>3, WindowOf
    <3> QED
      BY <3>2, <3>3, <3>4
  <2>8. Stage'
    BY <2>1, <2>2, <2>4, <2>5 DEF RequestOK, Stage
  <2>9. Outsider'
    BY <1>3, <2>1, <2>2, <2>4, <2>5 DEF RequestOK, Outsider
  <2>10. Answer'
    BY <2>1, <2>2, <2>4, <2>5, <2>6, <2>7 DEF RequestOK, Answer
  <2>11. Count'
    BY <2>1, <2>2, <2>4, <2>5, <2>6, <2>7 DEF RequestOK, Count, Enough
  <2>12. Honest(req.link)' /\ LinkAsPromised'
    BY <1>3, <2>1, <2>2, <2>4, <2>5, RequestsAreNot DEF RequestOK, Honest, LinkAsPromised
  <2> QED
    BY <1>3, <2>2, <2>4, <2>8, <2>9, <2>10, <2>11, <2>12 DEF RequestOK
<1> QED
  BY <1>2, <1>3

LEMMA FileTypes ==
    ASSUME file \in Row \cup {NoFile}
    PROVE  /\ Exists => file \in Row
           /\ Exists => /\ file.version \in 1..MaxVersion /\ file.rev \in 0..MaxVersion
                        /\ file.private \in BOOLEAN
           /\ NoFile \notin Row
BY DEF Exists, Row, NoFile, Versions

LEMMA Beginning == Init => RInv
<1> SUFFICES ASSUME Init PROVE RInv
  OBVIOUS
<1>1. MaxVersion \in Nat \ {0} /\ MaxTime \in Nat
  BY ReadingAssumption
<1>2. file \in Row /\ file.version = 1 /\ file.rev = 0
  BY <1>1 DEF Init, Row, Versions
<1>3. TypeOK
  BY <1>1, <1>2 DEF Init, TypeOK, Versions
<1>4. revs = 1..0 /\ Kept(1, 0) /\ Latest(revs) = 0
  <2>1. 1..0 = {} /\ 1 \in 1..(0 + 1)
    OBVIOUS
  <2>2. PICK S : S = 1..0
    OBVIOUS
  <2>3. Latest(S) = 0
    BY <2>1, <2>2, WindowOf
  <2> QED
    BY <2>1, <2>2, <2>3 DEF Init, Kept, Enough
<1>5. Room
  BY <1>1, <1>2, FS_EmptySet DEF Init, Room
<1>6. Window /\ RevisionsFirst /\ InForce
  BY <1>1, <1>2, <1>4 DEF Init, Window, RevisionsFirst, InForce
<1>7. PublicIsExposed /\ LinksHonest
  BY <1>2 DEF Init, PublicIsExposed, LinksHonest
<1> QED
  BY <1>3, <1>5, <1>6, <1>7 DEF Init, RInv, Store

LEMMA AppendRevisionKeeps ==
    ASSUME RInv, AppendRevision
    PROVE  RInv'
<1>1. TypeOK /\ Store /\ Exists
  BY DEF RInv, AppendRevision
<1>2. MaxVersion \in Nat \ {0} /\ limit \in Nat /\ limits \subseteq Nat
      /\ limit \in limits
  BY <1>1, ReadingAssumption, LimitsAreNumbers DEF Store, InForce
<1>3. PICK last \in 0..MaxVersion, lo \in 1..(MaxVersion + 1) :
         /\ last = Latest(revs) /\ revs = lo..last
         /\ lo \in 1..(last + 1) /\ Enough(last - lo + 1, last)
  <2>1. PICK last \in 0..MaxVersion : last = Latest(revs)
    BY <1>1, <1>2, LatestIsNumber DEF Store
  <2>2. PICK lo \in 1..(last + 1) : revs = lo..last /\ Kept(lo, last)
    BY <1>1, <1>2, <2>1, LatestIsNumber DEF Store
  <2> QED
    BY <1>2, <2>1, <2>2 DEF Kept
<1>4. /\ file' = file /\ Exists' /\ exposed' = exposed /\ links' = links /\ req' = req
      /\ now' = now /\ last < MaxVersion /\ limit' = limit /\ limits' = limits
  BY <1>1, <1>3 DEF AppendRevision, Exists, limiting
<1>5. PICK u \in [rev : 0..MaxVersion, private : BOOLEAN], next \in 0..MaxVersion,
            up \in 1..(MaxVersion + 1) :
         /\ updates' = updates \cup {u}
         /\ next \in {last, last + 1} /\ u.rev \in 0..next
         /\ revs' = up..next /\ Kept(up, next)' /\ up >= lo
  <2>1. file.private \in BOOLEAN
    BY <1>1, FileTypes DEF TypeOK
  <2>2. CASE updates' = updates \cup {[rev |-> 0, private |-> file.private]} /\ revs' = revs
    <3>1. PICK u : u = [rev |-> 0, private |-> file.private]
      OBVIOUS
    <3>2. u \in [rev : 0..MaxVersion, private : BOOLEAN] /\ u.rev \in 0..last
      BY <1>2, <2>1, <3>1
    <3>3. Kept(lo, last)'
      BY <1>3, <1>4 DEF Kept, Enough
    <3> QED
      BY <1>3, <2>2, <3>1, <3>2, <3>3
  <2>3. CASE /\ updates' = updates \cup {[rev |-> last + 1, private |-> file.private]}
             /\ revs' = IF limit = 0 THEN revs \cup {last + 1}
                        ELSE Newest(revs \cup {last + 1}, limit)
    <3>1. PICK u : u = [rev |-> last + 1, private |-> file.private]
      OBVIOUS
    <3>2. u \in [rev : 0..MaxVersion, private : BOOLEAN] /\ u.rev = last + 1
      BY <1>2, <1>4, <2>1, <3>1
    <3>3. PICK S : S = revs
      OBVIOUS
    <3>4. PICK k \in Nat : k = limit
      BY <1>2
    <3>5. S = lo..last /\ last \in Nat
      BY <1>3, <3>3
    <3>6. PICK all : all = (lo..last) \cup {last + 1}
      OBVIOUS
    <3>6a. PICK up \in lo..(last + 1) :
             /\ (IF k = 0 THEN all ELSE Newest(all, k)) = up..(last + 1)
             /\ up = lo \/ (k # 0 /\ (last + 1) - up + 1 = k)
      <4>1. lo \in 1..(last + 1)
        BY <1>3
      <4> QED
        BY <3>5, <3>6, <4>1, WindowMoves
    <3>7. revs' = up..(last + 1)
      BY <2>3, <3>3, <3>4, <3>5, <3>6, <3>6a
    <3>8. up \in 1..(last + 2) /\ last + 1 \in 0..MaxVersion /\ up \in 1..(MaxVersion + 1)
      BY <1>2, <1>3, <1>4, <3>5
    <3>9. Enough((last + 1) - up + 1, last + 1)'
      <4>1. CASE up = lo
        <5>1. last - lo + 1 \in Int /\ (last + 1) - up + 1 >= last - lo + 1
          BY <1>3, <4>1
        <5> QED
          BY <1>2, <1>3, <1>4, <4>1, <5>1 DEF Enough
      <4>2. CASE k # 0 /\ (last + 1) - up + 1 = k
        BY <1>2, <1>4, <3>4, <4>2 DEF Enough
      <4> QED
        BY <3>6a, <4>1, <4>2
    <3>10. Kept(up, last + 1)'
      BY <3>6a, <3>8, <3>9 DEF Kept
    <3>11. up >= lo /\ updates' = updates \cup {u} /\ u.rev \in 0..(last + 1)
      BY <1>3, <2>3, <3>1, <3>2, <3>6a
    <3>12. PICK next \in 0..MaxVersion : next = last + 1
      BY <3>8
    <3> QED
      BY <3>2, <3>7, <3>8, <3>10, <3>11, <3>12
  <2> QED
    BY <1>3, <2>2, <2>3 DEF AppendRevision
<1>6. next \in 0..MaxVersion /\ last <= next
  BY <1>5
<1>7. Window' /\ Latest(revs') = next
  <2>1. PICK S : S = revs'
    OBVIOUS
  <2>2. next \in Nat /\ up \in 1..(next + 1) /\ (next = 0 \/ up <= next)
    BY <1>2, <1>4, <1>5 DEF Kept, Enough
  <2>3. Latest(S) = next
    BY <1>5, <2>1, <2>2, WindowOf
  <2> QED
    BY <1>5, <2>1, <2>3 DEF Window
<1>8. Room'
  <2>1. /\ IsFiniteSet(updates) /\ Cardinality(updates) \in Nat
        /\ file.version \in Nat /\ file.version + Cardinality(updates) < MaxVersion
    BY <1>1, FileTypes, FS_CardinalityType DEF Store, Room, TypeOK, AppendRevision
  <2>2. /\ IsFiniteSet(updates') /\ Cardinality(updates') \in Nat
        /\ Cardinality(updates') <= Cardinality(updates) + 1
    <3>1. PICK U : U = updates
      OBVIOUS
    <3>2. IsFiniteSet(U \cup {u}) /\ Cardinality(U \cup {u}) <= Cardinality(U) + 1
      <4>1. PICK w : w = u
        OBVIOUS
      <4>2. IsFiniteSet(U) /\ Cardinality(U) \in Nat
        BY <2>1, <3>1
      <4>3. /\ IsFiniteSet(U \cup {w})
            /\ Cardinality(U \cup {w}) = IF w \in U THEN Cardinality(U) ELSE Cardinality(U) + 1
        BY <4>2, FS_AddElement
      <4> QED
        BY <4>1, <4>2, <4>3
    <3> QED
      BY <1>5, <3>1, <3>2, FS_CardinalityType
  <2> QED
    BY <1>2, <1>4, <2>1, <2>2 DEF Room
<1>9. RevisionsFirst'
  <2>1. file.rev \in Int /\ file.rev <= last
    BY <1>1, <1>3, FileTypes DEF Store, RevisionsFirst, TypeOK
  <2>2. \A w \in updates : w.rev <= last /\ w.rev \in Int
    BY <1>1, <1>3 DEF Store, RevisionsFirst, TypeOK
  <2> QED
    BY <1>3, <1>4, <1>5, <1>6, <1>7, <2>1, <2>2 DEF RevisionsFirst
<1>10. PublicIsExposed' /\ LinksHonest' /\ InForce'
  BY <1>1, <1>4 DEF Store, PublicIsExposed, LinksHonest, InForce
<1>11. req' \in {NoReq} \cup Requests /\ (req' # NoReq => RequestOK')
  <2>1. \A n \in revs' : n \in revs \/ (Exists /\ n > Latest(revs))
    <3>1. \A n \in up..next : n \in lo..last \/ n > last
      BY <1>2, <1>3, <1>5, <1>6
    <3> QED
      BY <1>1, <1>3, <1>5, <3>1
  <2>2. Latest(revs) <= Latest(revs')
    BY <1>3, <1>6, <1>7
  <2> QED
    BY <1>1, <1>2, <1>4, <1>7, <2>1, <2>2, RequestKept
<1>12. TypeOK'
  <2>1. revs' \subseteq Versions
    BY <1>2, <1>5, <1>6 DEF Versions
  <2>2. updates' \subseteq [rev : 0..MaxVersion, private : BOOLEAN]
    BY <1>1, <1>5 DEF TypeOK
  <2> QED
    BY <1>1, <1>4, <1>11, <2>1, <2>2 DEF TypeOK
<1> QED
  BY <1>7, <1>8, <1>9, <1>10, <1>11, <1>12 DEF RInv, Store

LEMMA StoreContentKeeps ==
    ASSUME RInv, NEW u \in [rev : 0..MaxVersion, private : BOOLEAN],
           NEW compress \in BOOLEAN, StoreContent(u, compress)
    PROVE  RInv'
<1>1. TypeOK /\ Store
  BY DEF RInv
<1>2. MaxVersion \in Nat \ {0}
  BY ReadingAssumption
<1>3. /\ u \in updates /\ updates' = updates \ {u}
      /\ revs' = revs /\ now' = now /\ links' = links
      /\ limit' = limit /\ limits' = limits /\ limits \subseteq Nat
  BY <1>1, LimitsAreNumbers DEF StoreContent, limiting
<1>4. Latest(revs) \in Int /\ Window' /\ InForce'
  BY <1>1, <1>2, <1>3, LatestIsNumber DEF Store, Window, Kept, Enough, InForce
<1>5. IsFiniteSet(updates) /\ Cardinality(updates) \in Nat
  BY <1>1, FS_CardinalityType DEF Store, Room
<1>6. IsFiniteSet(updates') /\ Cardinality(updates') = Cardinality(updates) - 1
  <2>1. PICK U : U = updates
    OBVIOUS
  <2>2. IsFiniteSet(U \ {u}) /\ Cardinality(U \ {u}) = Cardinality(U) - 1
    BY <1>3, <1>5, <2>1, FS_RemoveElement
  <2> QED
    BY <1>3, <2>1, <2>2
<1>7. updates' \subseteq [rev : 0..MaxVersion, private : BOOLEAN]
  BY <1>1, <1>3 DEF TypeOK
<1>8. CASE ~Exists
  <2>1. file' = file /\ req' = req /\ exposed' = exposed /\ ~Exists'
    BY <1>8 DEF StoreContent, Exists, Expose
  <2>2. req' \in {NoReq} \cup Requests /\ (req' # NoReq => RequestOK')
    BY <1>1, <1>3, <1>4, <2>1, RequestKept
  <2>3. TypeOK'
    BY <1>1, <1>3, <1>7, <2>1, <2>2 DEF TypeOK
  <2>4. Room' /\ RevisionsFirst' /\ PublicIsExposed' /\ LinksHonest'
    BY <1>1, <1>3, <1>6, <2>1
    DEF Store, Room, RevisionsFirst, PublicIsExposed, LinksHonest
  <2> QED
    BY <1>4, <2>2, <2>3, <2>4 DEF RInv, Store
<1>9. CASE Exists
  <2>1. /\ file' = [version |-> file.version + 1, rev |-> u.rev, private |-> u.private,
                    disguised |-> Disguised(file.version + 1, compress)]
        /\ Hide(u.private) /\ exposed' = Expose(file')
    BY <1>9 DEF StoreContent
  <2>2. /\ file.version \in 1..MaxVersion
        /\ file.version + Cardinality(updates) <= MaxVersion
    BY <1>1, <1>9, FileTypes DEF TypeOK, Store, Room
  <2>3. Cardinality(updates) > 0
    <3>1. updates # {}
      BY <1>3
    <3>2. PICK U : U = updates
      OBVIOUS
    <3>3. Cardinality(U) # 0
      BY <1>5, <3>1, <3>2, FS_EmptySet
    <3> QED
      BY <1>5, <3>2, <3>3
  <2>4. /\ file'.version \in 1..MaxVersion /\ file'.version + Cardinality(updates') <= MaxVersion
        /\ file'.rev = u.rev /\ file'.private = u.private /\ file'.private \in BOOLEAN
        /\ file' \in Row
    <3>1. file.version + 1 \in 1..MaxVersion
      BY <1>2, <1>5, <2>2, <2>3
    <3>2. Disguised(file.version + 1, compress) \in BOOLEAN
      BY DEF Disguised
    <3>3. file' \in Row
      BY <2>1, <3>1, <3>2 DEF Row, Versions
    <3> QED
      BY <1>2, <1>5, <1>6, <2>1, <2>2, <3>1, <3>3
  <2>5. Exists'
    BY <2>4, FileTypes, <1>1 DEF Exists, TypeOK
  <2>6. /\ exposed \subseteq exposed' /\ exposed' \subseteq Versions
        /\ ~file'.private => file'.version \in exposed'
    <3>1. exposed \subseteq Versions
      BY <1>1 DEF TypeOK
    <3> QED
      BY <2>1, <2>4, <2>5, <3>1 DEF Expose, Exists, Versions
  <2>7. \/ req' = req
        \/ req # NoReq /\ req' = [req EXCEPT !.hidden = TRUE]
    BY <2>1 DEF Hide
  <2>8. file'.private /\ ~file.private /\ req' # NoReq => req'.hidden
    <3>1. SUFFICES ASSUME file'.private, ~file.private, req' # NoReq PROVE req'.hidden
      OBVIOUS
    <3>2. req # NoReq /\ req' = [req EXCEPT !.hidden = TRUE]
      BY <2>1, <2>4, <3>1 DEF Hide
    <3>3. req \in Requests
      BY <1>1, <3>2 DEF TypeOK
    <3> QED
      BY <3>2, <3>3 DEF Requests
  <2>9. req' \in {NoReq} \cup Requests /\ (req' # NoReq => RequestOK')
    BY <1>3, <1>4, <1>9, <2>6, <2>7, <2>8, RequestKept
  <2>10. TypeOK'
    BY <1>1, <1>3, <1>7, <2>4, <2>6, <2>9 DEF TypeOK
  <2>11. Room' /\ RevisionsFirst' /\ PublicIsExposed' /\ LinksHonest'
    BY <1>1, <1>3, <1>6, <1>9, <2>4, <2>6
    DEF Store, Room, RevisionsFirst, PublicIsExposed, LinksHonest
  <2> QED
    BY <1>4, <2>9, <2>10, <2>11 DEF RInv, Store
<1> QED
  BY <1>8, <1>9

LEMMA SetPrivateKeeps ==
    ASSUME RInv, NEW private \in BOOLEAN, SetPrivate(private)
    PROVE  RInv'
<1>1. TypeOK /\ Store /\ Exists
  BY DEF RInv, SetPrivate
<1>2. /\ updates' = updates /\ revs' = revs /\ now' = now /\ links' = links
      /\ limit' = limit /\ limits' = limits /\ limits \subseteq Nat
      /\ file' = [file EXCEPT !.private = private] /\ Hide(private)
      /\ exposed' = Expose(file')
  BY <1>1, LimitsAreNumbers DEF SetPrivate, limiting
<1>3. Latest(revs) \in Int /\ Window' /\ InForce'
  BY <1>1, <1>2, LatestIsNumber, ReadingAssumption
  DEF Store, Window, Kept, Enough, InForce
<1>4. /\ file' \in Row /\ Exists'
      /\ file'.version = file.version /\ file'.rev = file.rev /\ file'.private = private
      /\ file'.version \in Versions
  <2>1. file \in Row
    BY <1>1, FileTypes DEF TypeOK
  <2>2. file' \in Row
    BY <1>2, <2>1 DEF Row
  <2> QED
    BY <1>1, <1>2, <2>1, <2>2, FileTypes DEF Exists, TypeOK, Row
<1>5. /\ exposed \subseteq exposed' /\ exposed' \subseteq Versions
      /\ ~file'.private => file'.version \in exposed'
  <2>1. exposed \subseteq Versions
    BY <1>1 DEF TypeOK
  <2> QED
    BY <1>2, <1>4, <2>1 DEF Expose, Exists
<1>6. \/ req' = req
      \/ req # NoReq /\ req' = [req EXCEPT !.hidden = TRUE]
  BY <1>2 DEF Hide
<1>7. file'.private /\ ~file.private /\ req' # NoReq => req'.hidden
  <2>1. SUFFICES ASSUME file'.private, ~file.private, req' # NoReq PROVE req'.hidden
    OBVIOUS
  <2>2. req # NoReq /\ req' = [req EXCEPT !.hidden = TRUE]
    BY <1>2, <1>4, <2>1 DEF Hide
  <2>3. req \in Requests
    BY <1>1, <2>2 DEF TypeOK
  <2> QED
    BY <2>2, <2>3 DEF Requests
<1>8. req' \in {NoReq} \cup Requests /\ (req' # NoReq => RequestOK')
  BY <1>1, <1>2, <1>3, <1>5, <1>6, <1>7, RequestKept
<1>9. TypeOK'
  BY <1>1, <1>2, <1>4, <1>5, <1>8 DEF TypeOK
<1>10. Room' /\ RevisionsFirst' /\ PublicIsExposed' /\ LinksHonest'
  BY <1>1, <1>2, <1>4, <1>5 DEF Store, Room, RevisionsFirst, PublicIsExposed, LinksHonest
<1> QED
  BY <1>3, <1>8, <1>9, <1>10 DEF RInv, Store

(* Deleting the file, a restart, the clock and a new signed URL.           *)
LEMMA OtherStepsKeep ==
    ASSUME RInv,
           \/ DeleteFile \/ Tick
           \/ \E n \in Limits : Restart(n)
           \/ \E ttl \in TTLs : SignFile(ttl)
    PROVE  RInv'
<1>1. TypeOK /\ Store
  BY DEF RInv
<1>2. /\ Latest(revs) \in Int /\ MaxTime \in Nat /\ MaxVersion \in Nat
      /\ limits \subseteq Nat
  BY <1>1, LatestIsNumber, LimitsAreNumbers, ReadingAssumption DEF Store
<1>3. CASE DeleteFile
  <2>1. /\ file' = NoFile /\ revs' = {} /\ ~Exists'
        /\ now' = now /\ updates' = updates /\ exposed' = exposed /\ links' = links /\ req' = req
        /\ limit' = limit /\ limits' = limits
    BY <1>3 DEF DeleteFile, Exists, limiting
  <2>2. Window' /\ InForce'
    <3>1. 1..0 = {} /\ 0 \in 0..MaxVersion /\ 1 \in 1..(MaxVersion + 1)
      BY <1>2
    <3>2. Kept(1, 0)'
      BY DEF Kept, Enough
    <3> QED
      BY <1>1, <2>1, <3>1, <3>2 DEF Window, Store, InForce
  <2>3. req' \in {NoReq} \cup Requests /\ (req' # NoReq => RequestOK')
    BY <1>2, <2>1, <2>2, RequestKept
  <2>4. TypeOK'
    BY <1>1, <2>1, <2>3 DEF TypeOK
  <2>5. Room' /\ RevisionsFirst' /\ PublicIsExposed' /\ LinksHonest'
    BY <1>1, <2>1 DEF Store, Room, RevisionsFirst, PublicIsExposed, LinksHonest
  <2> QED
    BY <2>2, <2>3, <2>4, <2>5 DEF RInv, Store
<1>4. ASSUME NEW n \in Limits, Restart(n) PROVE RInv'
  <2>1. /\ updates' = {} /\ req' = NoReq /\ now' = now /\ file' = file /\ revs' = revs
        /\ exposed' = exposed /\ links' = links /\ Exists' = Exists
        /\ limit' = n /\ limits' = limits \cup {n}
    BY <1>4 DEF Restart, Exists
  <2>2. TypeOK'
    BY <1>1, <2>1 DEF TypeOK
  <2>3. Room'
    <3>1. Exists => file.version \in 1..MaxVersion
      BY <1>1, FileTypes DEF TypeOK
    <3> QED
      BY <1>2, <2>1, <3>1, FS_EmptySet DEF Room
  <2>4. Window' /\ InForce'
    <3>1. \A last \in 0..MaxVersion, lo \in 1..(MaxVersion + 1) :
             Kept(lo, last) => Kept(lo, last)'
      BY <2>1 DEF Kept, Enough
    <3> QED
      BY <1>1, <2>1, <3>1 DEF Store, Window, InForce
  <2>5. RevisionsFirst' /\ PublicIsExposed' /\ LinksHonest'
    BY <1>1, <2>1 DEF Store, RevisionsFirst, PublicIsExposed, LinksHonest
  <2> QED
    BY <2>1, <2>2, <2>3, <2>4, <2>5 DEF RInv, Store
<1>5. CASE Tick \/ \E ttl \in TTLs : SignFile(ttl)
  <2>1. /\ file' = file /\ revs' = revs /\ updates' = updates /\ exposed' = exposed
        /\ req' = req /\ Exists' = Exists /\ limit' = limit /\ limits' = limits
    BY <1>5 DEF Tick, SignFile, owned, limiting, Exists
  <2>2. now' \in 0..MaxTime
    BY <1>1, <1>2, <1>5 DEF Tick, SignFile, TypeOK
  <2>3. links' \subseteq Link /\ LinksHonest'
    <3>1. CASE Tick
      BY <1>1, <3>1 DEF Tick, TypeOK, Store, LinksHonest
    <3>2. ASSUME NEW ttl \in TTLs, SignFile(ttl)
          PROVE  links' \subseteq Link /\ LinksHonest'
      <4>1. PICK n \in 0..MaxTime : n = now
        BY <1>1 DEF TypeOK
      <4>2. PICK link : link = [exp |-> (n + ttl.parsed) \div Second,
                                promised |-> n + ttl.written, wraps |-> ttl.wraps]
        OBVIOUS
      <4>3. links' = links \cup {link}
        BY <3>2, <4>1, <4>2 DEF SignFile, SignURLWithTTL
      <4>4. /\ ttl.parsed \in Int /\ ttl.written \in Int /\ ttl.wraps \in BOOLEAN
            /\ ~ttl.wraps => ttl.parsed = ttl.written
        BY TTLsTrue
      <4>5. n + ttl.parsed \in Int /\ n + ttl.written \in Int
        BY <4>4
      <4>6. (n + ttl.parsed) \div Second \in Int
        BY <4>5, Division, ReadingAssumption
      <4>7. link \in Link
        BY <4>2, <4>4, <4>5, <4>6 DEF Link
      <4>8. Honest(link)
        BY <4>2, <4>4 DEF Honest
      <4> QED
        BY <1>1, <4>3, <4>7, <4>8 DEF TypeOK, Store, LinksHonest
    <3> QED
      BY <1>5, <3>1, <3>2
  <2>4. Window' /\ InForce' /\ Room' /\ RevisionsFirst' /\ PublicIsExposed'
    BY <1>1, <2>1
    DEF Store, Window, Kept, Enough, InForce, Room, RevisionsFirst, PublicIsExposed
  <2>5. req' \in {NoReq} \cup Requests /\ (req' # NoReq => RequestOK')
    BY <1>2, <2>1, <2>4, RequestKept
  <2>6. TypeOK'
    BY <1>1, <2>1, <2>2, <2>3, <2>5 DEF TypeOK
  <2> QED
    BY <2>3, <2>4, <2>5, <2>6 DEF RInv, Store
<1> QED
  BY <1>3, <1>4, <1>5

-----------------------------------------------------------------------------
(* The reads of an answer change the request and the links, and nothing    *)
(* else.                                                                   *)

LEMMA ReadKeeps ==
    ASSUME RInv, UNCHANGED <<now, owned>>,
           links' = links \/ (req # NoReq /\ links' = links \cup {req.link}),
           req' \in {NoReq} \cup Requests, req' # NoReq => RequestOK'
    PROVE  RInv'
<1>1. TypeOK /\ Store
  BY DEF RInv
<1>2. /\ file' = file /\ revs' = revs /\ updates' = updates /\ exposed' = exposed
      /\ now' = now /\ Exists' = Exists /\ limit' = limit /\ limits' = limits
  BY DEF owned, limiting, Exists
<1>3. links' \subseteq Link /\ LinksHonest'
  <2>1. req # NoReq => req.link \in Link /\ Honest(req.link)
    BY DEF RInv, TypeOK, Requests, RequestOK
  <2> QED
    BY <1>1, <2>1 DEF TypeOK, Store, LinksHonest
<1>4. TypeOK'
  BY <1>1, <1>2, <1>3 DEF TypeOK
<1>5. Window' /\ InForce' /\ Room' /\ RevisionsFirst' /\ PublicIsExposed'
  BY <1>1, <1>2
  DEF Store, Window, Kept, Enough, InForce, Room, RevisionsFirst, PublicIsExposed
<1> QED
  BY <1>3, <1>4, <1>5 DEF RInv, Store

LEMMA AskedFields ==
    ASSUME NEW kind \in Kinds, NEW who \in {"owner", "anyone"}, NEW link \in Link,
           NEW number \in Versions, NEW at \in 0..MaxTime
    PROVE  LET a == [pc |-> "refused", kind |-> kind, who |-> who, link |-> link, at |-> at,
                     private |-> FALSE, hidden |-> FALSE, stored |-> Nothing,
                     shown |-> Nothing, rev |-> 0, disguised |-> FALSE, asked |-> number,
                     count |-> 0, counted |-> FALSE]
           IN a \in Requests
BY ReadingAssumption DEF Requests, Nothing, Versions

LEMMA FindFileKeeps ==
    ASSUME RInv, NEW kind \in ByWeb \cup ByUser, NEW who \in {"owner", "anyone"},
           NEW link \in Link, Honest(link), NEW number \in Versions,
           link # NoLink => who = "anyone" /\ kind \in {"page", "raw"},
           FindFile(kind, who, link, number)
    PROVE  RInv'
<1>1. TypeOK /\ Store
  BY DEF RInv
<1>2. /\ UNCHANGED <<now, owned>> /\ links' = links
      /\ file' = file /\ revs' = revs /\ exposed' = exposed /\ Exists' = Exists
  BY DEF FindFile, owned, Exists
<1>3. now \in 0..MaxTime /\ now \in Nat
  BY <1>1, ReadingAssumption DEF TypeOK
<1>4. kind \in Kinds /\ kind # "content"
  BY DEF Kinds, ByWeb, ByUser
<1>5. PICK a : a = Asked(kind, who, link, number)
  OBVIOUS
<1>6. /\ a \in Requests /\ a.pc = "refused"
      /\ a.kind = kind /\ a.who = who /\ a.link = link /\ a.asked = number
      /\ a.at = IF link = NoLink THEN 0 ELSE now
      /\ a.private = FALSE /\ a.hidden = FALSE /\ a.stored = Nothing
      /\ a.shown = Nothing /\ a.rev = 0 /\ a.disguised = FALSE /\ a.count = 0
  <2>1. PICK at \in 0..MaxTime : at = IF link = NoLink THEN 0 ELSE now
    BY <1>3, ReadingAssumption
  <2>2. a = [pc |-> "refused", kind |-> kind, who |-> who, link |-> link, at |-> at,
             private |-> FALSE, hidden |-> FALSE, stored |-> Nothing,
             shown |-> Nothing, rev |-> 0, disguised |-> FALSE, asked |-> number,
             count |-> 0, counted |-> FALSE]
    BY <1>5, <2>1 DEF Asked
  <2>3. a \in Requests
    BY <1>4, <2>2, AskedFields
  <2> QED
    BY <2>1, <2>2, <2>3
<1>7. PICK q \in Requests :
         /\ req' = q
         /\ q.kind = kind /\ q.who = who /\ q.link = link /\ q.asked = number
         /\ q.at = a.at /\ q.hidden = FALSE /\ q.stored = Nothing
         /\ q.shown = Nothing /\ q.rev = 0 /\ q.disguised = FALSE /\ q.count = 0
         /\ \/ Admits(who, link) /\ q.pc = NextRead(kind) /\ q.private = file.private
            \/ ~Admits(who, link) /\ q.pc = Refusal /\ q.private = FALSE
  <2>1. CASE Admits(who, link)
    <3>1. file.private \in BOOLEAN
      BY <1>1, <2>1, FileTypes DEF Admits, TypeOK
    <3>2. NextRead(kind) \in {"answered", "content", "list", "revision"}
      BY DEF NextRead
    <3>3. PICK q : q = [a EXCEPT !.pc = NextRead(kind), !.private = file.private]
      OBVIOUS
    <3>4. q \in Requests
      BY <1>6, <3>1, <3>2, <3>3 DEF Requests
    <3>5. /\ q.pc = NextRead(kind) /\ q.private = file.private
          /\ q.kind = kind /\ q.who = who /\ q.link = link /\ q.asked = number
          /\ q.at = a.at /\ q.hidden = FALSE /\ q.stored = Nothing
          /\ q.shown = Nothing /\ q.rev = 0 /\ q.disguised = FALSE /\ q.count = 0
      BY <1>6, <3>3 DEF Requests
    <3>6. req' = q
      BY <1>5, <2>1, <3>3 DEF FindFile
    <3> QED
      BY <2>1, <3>1, <3>4, <3>5, <3>6
  <2>2. CASE ~Admits(who, link)
    <3>1. PICK q : q = [a EXCEPT !.pc = Refusal]
      OBVIOUS
    <3>2. q \in Requests
      BY <1>6, <3>1 DEF Requests, Refusal
    <3>3. /\ q.pc = Refusal /\ q.private = FALSE
          /\ q.kind = kind /\ q.who = who /\ q.link = link /\ q.asked = number
          /\ q.at = a.at /\ q.hidden = FALSE /\ q.stored = Nothing
          /\ q.shown = Nothing /\ q.rev = 0 /\ q.disguised = FALSE /\ q.count = 0
      BY <1>6, <3>1 DEF Requests
    <3>4. req' = q
      BY <1>5, <2>2, <3>1 DEF FindFile
    <3> QED
      BY <2>2, <3>2, <3>3, <3>4
  <2> QED
    BY <2>1, <2>2
<1>8. /\ q.pc \notin {"count", "diff"}
      /\ q.pc = "content" => kind \in {"page", "raw"}
      /\ q.pc = "list" => kind = "revisions"
      /\ q.pc = "revision" => kind = "diff"
      /\ q.pc = "answered" => kind = "metadata"
  BY <1>4, <1>7 DEF NextRead, Refusal, Kinds
<1>9. Stage'
  BY <1>7, <1>8 DEF Stage
<1>10. Outsider'
  <2>1. SUFFICES ASSUME q.pc = "content", who # "owner", ~q.private, Exists PROVE ~file.private
    BY <1>2, <1>7 DEF Outsider
  <2>2. q.pc = NextRead(kind) /\ q.private = file.private
    BY <1>7, <2>1 DEF Refusal
  <2> QED
    BY <2>1, <2>2
<1>11. Answer' /\ Count'
  BY <1>2, <1>7, <1>8 DEF Answer, Count
<1>12. Honest(req.link)'
  BY <1>7 DEF Honest
<1>13. LinkAsPromised'
  <2>1. SUFFICES ASSUME link # NoLink, ~link.wraps
                 PROVE  /\ q.pc \notin {"missing", "refused"} /\ q.private => now < link.promised
                        /\ q.pc = "refused" => now > link.promised - Second
    BY <1>6, <1>7 DEF LinkAsPromised
  <2>2. /\ NotExpired(link) => now < link.promised
        /\ ~NotExpired(link) => now > link.promised - Second
    BY <1>3, <2>1, HonestInTime
  <2>3. CASE Admits(who, link)
    <3>1. q.pc # "refused"
      BY <1>7, <2>3 DEF NextRead
    <3>2. q.private => NotExpired(link)
      BY <1>7, <2>1, <2>3 DEF Admits
    <3> QED
      BY <2>2, <3>1, <3>2
  <2>4. CASE ~Admits(who, link)
    <3>1. q.pc \in {"refused", "missing"}
      BY <1>7, <2>4 DEF Refusal
    <3>2. q.pc = "refused" => ~NotExpired(link)
      BY <1>7, <2>4 DEF Refusal, Admits
    <3> QED
      BY <2>2, <3>1, <3>2
  <2> QED
    BY <2>3, <2>4
<1>14. RequestOK'
  BY <1>9, <1>10, <1>11, <1>12, <1>13 DEF RequestOK
<1> QED
  BY <1>2, <1>7, <1>14, ReadKeeps

(* What a request is after a content was read for it.                      *)
LEMMA Shown ==
    ASSUME NEW r \in Requests, NEW pc \in {"count", "answered"}, NEW row \in Row,
           Show(r, pc, row)
    PROVE  \E q \in Requests :
              /\ req' = q
              /\ q.kind = r.kind /\ q.who = r.who /\ q.link = r.link /\ q.at = r.at
              /\ q.private = r.private /\ q.hidden = r.hidden
              /\ q.asked = r.asked /\ q.count = r.count
              /\ \/ /\ q.pc = "error" /\ q.stored = r.stored
                    /\ q.shown = r.shown /\ q.disguised = r.disguised
                 \/ /\ q.pc = pc /\ q.stored = row.version /\ q.rev = row.rev
                    /\ q.shown = q.stored \/ q.disguised
<1>1. MaxVersion \in Nat \ {0}
  BY ReadingAssumption
<1>2. /\ row.version \in 1..MaxVersion /\ row.rev \in 0..MaxVersion
      /\ row.disguised \in BOOLEAN
  BY DEF Row, Versions
<1>3. PICK c \in Decoded(row) :
         req' = IF c = Undecodable
                  THEN [r EXCEPT !.pc = "error"]
                  ELSE [r EXCEPT !.pc = pc, !.shown = c, !.stored = row.version,
                                 !.rev = row.rev, !.disguised = row.disguised]
  BY DEF Show
<1>4. PICK q : q = req'
  OBVIOUS
<1>5. CASE c = Undecodable
  <2>1. q = [r EXCEPT !.pc = "error"]
    BY <1>3, <1>4, <1>5
  <2>2. q \in Requests
    BY <2>1 DEF Requests
  <2> QED
    BY <1>4, <2>1, <2>2 DEF Requests
<1>6. CASE c # Undecodable
  <2>1. q = [r EXCEPT !.pc = pc, !.shown = c, !.stored = row.version,
                      !.rev = row.rev, !.disguised = row.disguised]
    BY <1>3, <1>4, <1>6
  <2>2. c \in 0..(MaxVersion + 1) /\ (c = row.version \/ row.disguised)
    BY <1>1, <1>2, <1>6 DEF Decoded, Garbled, Undecodable
  <2>3. q \in Requests
    <3>1. PICK p : p = [r EXCEPT !.pc = pc, !.shown = c]
      OBVIOUS
    <3>2. p \in Requests
      BY <2>2, <3>1 DEF Requests
    <3>3. q = [p EXCEPT !.stored = row.version, !.rev = row.rev, !.disguised = row.disguised]
      BY <2>1, <3>1
    <3>4. row.version \in 0..MaxVersion
      BY <1>1, <1>2
    <3> QED
      BY <1>2, <3>2, <3>3, <3>4 DEF Requests
  <2>4. /\ q.kind = r.kind /\ q.who = r.who /\ q.link = r.link /\ q.at = r.at
        /\ q.private = r.private /\ q.hidden = r.hidden
        /\ q.asked = r.asked /\ q.count = r.count
        /\ q.pc = pc /\ q.stored = row.version /\ q.rev = row.rev
        /\ q.shown = c /\ q.disguised = row.disguised
    BY <2>1 DEF Requests
  <2> QED
    BY <1>4, <2>2, <2>3, <2>4
<1> QED
  BY <1>5, <1>6

LEMMA FindContentKeeps ==
    ASSUME RInv, FindContent
    PROVE  RInv'
<1>1. TypeOK /\ Store /\ req.pc = "content"
  BY DEF RInv, FindContent
<1>2. /\ UNCHANGED <<now, owned>>
      /\ file' = file /\ revs' = revs /\ exposed' = exposed /\ Exists' = Exists
  BY DEF FindContent, owned, Exists
<1>3. req # NoReq
  BY <1>1 DEF NoReq
<1>4. PICK r \in Requests : r = req
  BY <1>1, <1>3 DEF TypeOK
<1>5. links' = links \/ links' = links \cup {req.link}
  BY DEF FindContent, RawHref
<1>6. RequestOK
  BY <1>3 DEF RInv
<1>7. /\ r.kind \in {"page", "raw"} /\ r.stored = Nothing
      /\ r.shown = r.stored \/ r.disguised
  BY <1>1, <1>4, <1>6 DEF RequestOK, Stage, Answer
<1>8. PICK pc \in {"count", "answered"} : pc = IF r.kind = "page" THEN "count" ELSE "answered"
  BY <1>7
<1>9. PICK q \in Requests :
         /\ req' = q
         /\ q.kind = r.kind /\ q.who = r.who /\ q.link = r.link /\ q.at = r.at
         /\ q.private = r.private /\ q.hidden = r.hidden
         /\ q.asked = r.asked /\ q.count = r.count
         /\ \/ q.pc = "error" /\ q.stored = Nothing
            \/ q.pc = pc /\ ~Exists /\ q.stored = Nothing
            \/ q.pc = pc /\ Exists /\ q.stored = file.version /\ q.rev = file.rev
         /\ q.shown = q.stored \/ q.disguised
  <2>1. CASE Exists
    <3>1. PICK row \in Row : row = file
      BY <1>1, <2>1, FileTypes DEF TypeOK
    <3>2. Show(r, pc, row)
      BY <1>4, <1>8, <2>1, <3>1 DEF FindContent, Show
    <3>3. PICK q \in Requests :
              /\ req' = q
              /\ q.kind = r.kind /\ q.who = r.who /\ q.link = r.link /\ q.at = r.at
              /\ q.private = r.private /\ q.hidden = r.hidden
              /\ q.asked = r.asked /\ q.count = r.count
              /\ \/ /\ q.pc = "error" /\ q.stored = r.stored
                    /\ q.shown = r.shown /\ q.disguised = r.disguised
                 \/ /\ q.pc = pc /\ q.stored = row.version /\ q.rev = row.rev
                    /\ q.shown = q.stored \/ q.disguised
      BY <3>2, Shown
    <3> QED
      BY <1>7, <2>1, <3>1, <3>3
  <2>2. CASE ~Exists
    <3>1. PICK q : q = [r EXCEPT !.pc = pc]
      OBVIOUS
    <3>2. req' = q
      BY <1>4, <1>8, <2>2, <3>1 DEF FindContent, Goto
    <3>3. q \in Requests
      BY <3>1 DEF Requests
    <3>4. /\ q.kind = r.kind /\ q.who = r.who /\ q.link = r.link /\ q.at = r.at
          /\ q.private = r.private /\ q.hidden = r.hidden
          /\ q.asked = r.asked /\ q.count = r.count
          /\ q.pc = pc /\ q.stored = r.stored /\ q.shown = r.shown
          /\ q.disguised = r.disguised
      BY <3>1 DEF Requests
    <3> QED
      BY <1>7, <2>2, <3>2, <3>3, <3>4
  <2> QED
    BY <2>1, <2>2
<1>10. Exists => file.version \in 1..MaxVersion /\ file.rev <= Latest(revs)
  BY <1>1, FileTypes DEF TypeOK, Store, RevisionsFirst
<1>11. Exists => file.version # Nothing
  BY <1>10, ReadingAssumption DEF Nothing
<1>12. Stage'
  BY <1>7, <1>8, <1>9 DEF Stage
<1>13. Outsider'
  <2>1. q.pc # "content"
    BY <1>8, <1>9
  <2>2. SUFFICES ASSUME r.who # "owner", ~r.private, q.stored # Nothing, ~r.hidden
                 PROVE  q.stored \in exposed
    BY <1>2, <1>7, <1>9, <2>1 DEF Outsider
  <2>3. Exists /\ q.stored = file.version
    BY <1>9, <2>2
  <2>4. ~file.private
    BY <1>1, <1>4, <1>6, <2>2, <2>3 DEF RequestOK, Outsider
  <2> QED
    BY <1>1, <2>3, <2>4 DEF Store, PublicIsExposed
<1>14. Answer'
  BY <1>2, <1>7, <1>9, <1>11 DEF Answer
<1>15. Count'
  BY <1>2, <1>7, <1>8, <1>9, <1>10 DEF Count
<1>16. Honest(req.link)' /\ LinkAsPromised'
  BY <1>1, <1>3, <1>4, <1>6, <1>9, RequestsAreNot DEF RequestOK, Honest, LinkAsPromised
<1>17. RequestOK'
  BY <1>12, <1>13, <1>14, <1>15, <1>16 DEF RequestOK
<1> QED
  BY <1>2, <1>3, <1>5, <1>9, <1>17, ReadKeeps

LEMMA FindWithContentKeeps ==
    ASSUME RInv, NEW who \in {"owner", "anyone"}, FindWithContent(who)
    PROVE  RInv'
<1>1. TypeOK /\ Store /\ Exists /\ Admits(who, NoLink)
  BY DEF RInv, FindWithContent, Admits
<1>2. /\ UNCHANGED <<now, owned>> /\ links' = links
      /\ file' = file /\ revs' = revs /\ exposed' = exposed /\ Exists' = Exists
  BY DEF FindWithContent, owned, Exists
<1>3. PICK row \in Row : row = file
  BY <1>1, FileTypes DEF TypeOK
<1>4. row.version \in 1..MaxVersion /\ row.private \in BOOLEAN
  BY DEF Row, Versions
<1>5. MaxVersion \in Nat \ {0} /\ MaxTime \in Nat
  BY ReadingAssumption
<1>6. PICK a : a = [pc |-> "refused", kind |-> "content", who |-> who, link |-> NoLink,
                    at |-> 0, private |-> FALSE, hidden |-> FALSE, stored |-> Nothing,
                    shown |-> Nothing, rev |-> 0, disguised |-> FALSE, asked |-> 1,
                    count |-> 0, counted |-> FALSE]
  OBVIOUS
<1>7. a \in Requests
  <2>1. "content" \in Kinds /\ NoLink \in Link /\ 1 \in Versions /\ 0 \in 0..MaxTime
    BY <1>5 DEF Kinds, NoLink, Link, Versions
  <2> QED
    BY <1>6, <2>1, AskedFields
<1>8. PICK r : r = [a EXCEPT !.private = row.private]
  OBVIOUS
<1>9. r \in Requests
  BY <1>4, <1>7, <1>8 DEF Requests
<1>10. /\ r.kind = "content" /\ r.who = who /\ r.link = NoLink
       /\ r.stored = Nothing /\ r.shown = Nothing /\ r.private = row.private
  BY <1>6, <1>8
<1>11. Show(r, "answered", row)
  BY <1>3, <1>6, <1>8 DEF FindWithContent, Asked
<1>12. PICK pc \in {"count", "answered"} : pc = "answered"
  OBVIOUS
<1>13. PICK q \in Requests :
          /\ req' = q
          /\ q.kind = r.kind /\ q.who = r.who /\ q.link = r.link /\ q.at = r.at
          /\ q.private = r.private /\ q.hidden = r.hidden
          /\ q.asked = r.asked /\ q.count = r.count
          /\ \/ /\ q.pc = "error" /\ q.stored = r.stored
                /\ q.shown = r.shown /\ q.disguised = r.disguised
             \/ /\ q.pc = pc /\ q.stored = row.version /\ q.rev = row.rev
                /\ q.shown = q.stored \/ q.disguised
  BY <1>9, <1>11, <1>12, Shown
<1>14. Stage' /\ Count'
  BY <1>10, <1>12, <1>13 DEF Stage, Count
<1>15. Outsider'
  <2>1. who # "owner" => ~row.private
    BY <1>1, <1>3 DEF Admits, NotExpired
  <2>2. ~row.private => row.version \in exposed
    BY <1>1, <1>3 DEF Store, PublicIsExposed
  <2> QED
    BY <1>2, <1>10, <1>12, <1>13, <2>1, <2>2 DEF Outsider
<1>16. Answer'
  BY <1>4, <1>5, <1>10, <1>12, <1>13 DEF Answer, Nothing
<1>17. Honest(req.link)' /\ LinkAsPromised'
  BY <1>10, <1>13 DEF Honest, LinkAsPromised
<1>18. RequestOK'
  BY <1>14, <1>15, <1>16, <1>17 DEF RequestOK
<1> QED
  BY <1>2, <1>13, <1>18, ReadKeeps

(* The other reads change where the request is, the count or what is shown. *)
LEMMA OtherReadsKeep ==
    ASSUME RInv, CountRevisions \/ ListRevisions \/ FindRevision \/ FindDiff
    PROVE  RInv'
<1>1. TypeOK /\ Store /\ req # NoReq
  <2>1. req.pc \in {"count", "list", "revision", "diff"}
    BY DEF CountRevisions, ListRevisions, FindRevision, FindDiff
  <2> QED
    BY <2>1 DEF RInv, NoReq
<1>2. /\ UNCHANGED <<now, owned>> /\ links' = links
      /\ file' = file /\ revs' = revs /\ exposed' = exposed /\ Exists' = Exists
      /\ limits' = limits
  BY DEF CountRevisions, ListRevisions, FindRevision, FindDiff, owned, limiting, Exists
<1>3. PICK r \in Requests : r = req
  BY <1>1 DEF TypeOK
<1>4. RequestOK
  BY <1>1 DEF RInv
<1>5. MaxVersion \in Nat \ {0} /\ limits \subseteq Nat
  BY <1>1, ReadingAssumption, LimitsAreNumbers
<1>6. /\ \A n \in revs : n <= Latest(revs)
      /\ Cardinality(revs) \in 0..MaxVersion
      /\ Enough(Cardinality(revs), Latest(revs))
      /\ Latest(revs) \in Int
  BY <1>1, <1>5, LatestIsNumber DEF Store
<1>7. CASE CountRevisions \/ ListRevisions
  <2>1. PICK counted \in BOOLEAN, n \in 0..MaxVersion :
           /\ counted => n = Cardinality(revs)
           /\ r.pc \in {"count", "list"} /\ (r.pc = "list" => counted = r.counted)
           /\ req' = [r EXCEPT !.pc = "answered", !.counted = counted, !.count = n]
    <3>1. CASE CountRevisions
      <4>1. PICK counted \in BOOLEAN :
               req' = [r EXCEPT !.pc = "answered", !.counted = counted,
                                !.count = IF counted THEN Cardinality(revs) ELSE 0]
        BY <1>3, <3>1 DEF CountRevisions
      <4>2. PICK n \in 0..MaxVersion : n = IF counted THEN Cardinality(revs) ELSE 0
        BY <1>5, <1>6
      <4>3. req' = [r EXCEPT !.pc = "answered", !.counted = counted, !.count = n]
        BY <4>1, <4>2
      <4>4. r.pc = "count"
        BY <1>3, <3>1 DEF CountRevisions
      <4> QED
        BY <4>2, <4>3, <4>4
    <3>2. CASE ListRevisions
      <4>1. PICK n \in 0..MaxVersion : n = Cardinality(revs)
        BY <1>6
      <4>2. r.pc = "list" /\ req' = [r EXCEPT !.pc = "answered", !.count = n]
        BY <1>3, <3>2, <4>1 DEF ListRevisions
      <4>3. PICK counted \in BOOLEAN : counted = r.counted
        BY DEF Requests
      <4>4. [r EXCEPT !.pc = "answered", !.count = n]
               = [r EXCEPT !.pc = "answered", !.counted = counted, !.count = n]
        BY <4>3 DEF Requests
      <4> QED
        BY <4>1, <4>2, <4>3, <4>4
    <3> QED
      BY <1>7, <3>1, <3>2
  <2>2. PICK q : q = [r EXCEPT !.pc = "answered", !.counted = counted, !.count = n]
    OBVIOUS
  <2>3. req' = q /\ r.pc \in {"count", "list"}
    BY <2>1, <2>2
  <2>4. q \in Requests
    BY <2>2 DEF Requests
  <2>5. /\ q.kind = r.kind /\ q.who = r.who /\ q.link = r.link /\ q.at = r.at
        /\ q.private = r.private /\ q.hidden = r.hidden /\ q.asked = r.asked
        /\ q.stored = r.stored /\ q.shown = r.shown /\ q.disguised = r.disguised
        /\ q.rev = r.rev /\ q.pc = "answered" /\ q.count = n /\ q.counted = counted
        /\ r.rev \in Int
    BY <2>2 DEF Requests
  <2>6. r.kind = IF r.pc = "count" THEN "page" ELSE "revisions"
    BY <1>3, <1>4, <2>3 DEF RequestOK, Stage
  <2>7. Stage'
    BY <1>3, <1>4, <2>3, <2>5 DEF RequestOK, Stage
  <2>8. Outsider'
    BY <1>2, <1>3, <1>4, <2>3, <2>5 DEF RequestOK, Outsider
  <2>9. Answer'
    BY <1>2, <1>3, <1>4, <2>3, <2>5, <2>6 DEF RequestOK, Answer
  <2>10. Count'
    <3>1. SUFFICES ASSUME r.kind = "page", Exists, counted
                   PROVE  Enough(n, r.rev)
      BY <1>2, <2>3, <2>5 DEF Count, Enough
    <3>2. r.rev <= Latest(revs)
      BY <1>3, <1>4, <2>3, <2>6, <3>1 DEF RequestOK, Count
    <3> QED
      BY <1>5, <1>6, <2>1, <2>5, <3>1, <3>2 DEF Enough
  <2>11. Honest(req.link)' /\ LinkAsPromised'
    BY <1>1, <1>3, <1>4, <2>3, <2>4, <2>5, RequestsAreNot DEF RequestOK, Honest, LinkAsPromised
  <2>12. RequestOK'
    BY <2>7, <2>8, <2>9, <2>10, <2>11 DEF RequestOK
  <2> QED
    BY <1>2, <2>3, <2>4, <2>12, ReadKeeps
<1>8. CASE FindRevision \/ FindDiff
  <2>1. PICK q \in Requests :
           /\ req' = q
           /\ q.kind = r.kind /\ q.who = r.who /\ q.link = r.link /\ q.at = r.at
           /\ q.private = r.private /\ q.hidden = r.hidden /\ q.asked = r.asked
           /\ q.stored = r.stored /\ r.pc \in {"revision", "diff"}
           /\ \/ q.pc = "missing"
              \/ q.pc = "diff" /\ q.asked \in revs
              \/ /\ q.pc = "answered" /\ r.pc = "diff"
                 /\ q.shown = IF q.asked \in revs THEN q.asked ELSE Nothing
    <3>1. CASE FindRevision
      <4>1. PICK q : q = [r EXCEPT !.pc = IF r.asked \in revs THEN "diff" ELSE "missing"]
        OBVIOUS
      <4>2. req' = q /\ r.pc = "revision"
        BY <1>3, <3>1, <4>1 DEF FindRevision, Goto
      <4>3. q \in Requests
        BY <4>1 DEF Requests
      <4>4. /\ q.kind = r.kind /\ q.who = r.who /\ q.link = r.link /\ q.at = r.at
            /\ q.private = r.private /\ q.hidden = r.hidden /\ q.asked = r.asked
            /\ q.stored = r.stored
            /\ q.pc = IF r.asked \in revs THEN "diff" ELSE "missing"
        BY <4>1 DEF Requests
      <4> QED
        BY <4>2, <4>3, <4>4
    <3>2. CASE FindDiff
      <4>1. PICK shown : shown = IF r.asked \in revs THEN r.asked ELSE Nothing
        OBVIOUS
      <4>2. r.asked \in 0..MaxVersion
        BY DEF Requests
      <4>3. shown \in 0..(MaxVersion + 1)
        BY <1>5, <4>1, <4>2 DEF Nothing
      <4>4. PICK q : q = [r EXCEPT !.pc = "answered", !.shown = shown]
        OBVIOUS
      <4>5. req' = q /\ r.pc = "diff"
        BY <1>3, <3>2, <4>1, <4>4 DEF FindDiff
      <4>6. q \in Requests
        BY <4>3, <4>4 DEF Requests
      <4>7. /\ q.kind = r.kind /\ q.who = r.who /\ q.link = r.link /\ q.at = r.at
            /\ q.private = r.private /\ q.hidden = r.hidden /\ q.asked = r.asked
            /\ q.stored = r.stored /\ q.pc = "answered" /\ q.shown = shown
        BY <4>4 DEF Requests
      <4> QED
        BY <4>1, <4>5, <4>6, <4>7
    <3> QED
      BY <1>8, <3>1, <3>2
  <2>2. r.kind = "diff" /\ r.stored = Nothing /\ r.link = NoLink
    BY <1>3, <1>4, <2>1 DEF RequestOK, Stage
  <2>3. Stage' /\ Outsider' /\ Count'
    BY <1>2, <2>1, <2>2 DEF Stage, Outsider, Count
  <2>4. Answer'
    <3>1. r.pc = "diff" /\ Exists => r.asked <= Latest(revs)
      BY <1>3, <1>4, <2>2 DEF RequestOK, Answer
    <3> QED
      BY <1>2, <1>6, <2>1, <2>2, <3>1 DEF Answer
  <2>5. Honest(req.link)' /\ LinkAsPromised'
    BY <2>1, <2>2 DEF Honest, LinkAsPromised
  <2>6. RequestOK'
    BY <2>3, <2>4, <2>5 DEF RequestOK
  <2> QED
    BY <1>2, <2>1, <2>6, ReadKeeps
<1> QED
  BY <1>7, <1>8

-----------------------------------------------------------------------------
LEMMA Unchanged == RInv /\ UNCHANGED vars => RInv'
BY DEF vars, owned, limiting, RInv, TypeOK, Store, Room, Window, Kept, Enough, InForce, RevisionsFirst, PublicIsExposed,
       LinksHonest, Honest, Exists, RequestOK, Stage, Outsider, Answer, Count,
       LinkAsPromised

LEMMA Inductive == RInv /\ [Next]_vars => RInv'
<1> SUFFICES ASSUME RInv, [Next]_vars PROVE RInv'
  OBVIOUS
<1>1. TypeOK /\ Store
  BY DEF RInv
<1>2. CASE AppendRevision
  BY <1>2, AppendRevisionKeeps
<1>3. ASSUME NEW rev \in 0..MaxVersion, NEW private \in BOOLEAN, NEW compress \in BOOLEAN,
             StoreContent([rev |-> rev, private |-> private], compress)
      PROVE  RInv'
  BY <1>3, StoreContentKeeps
<1>4. ASSUME NEW private \in BOOLEAN, SetPrivate(private) PROVE RInv'
  BY <1>4, SetPrivateKeeps
<1>5. CASE \/ DeleteFile \/ Tick
           \/ \E n \in Limits : Restart(n)
           \/ \E ttl \in TTLs : SignFile(ttl)
  BY <1>5, OtherStepsKeep
<1>6. ASSUME NEW kind \in ByWeb, NEW link \in links \cup {NoLink}, NEW number \in Versions,
             Visit(kind, link, number)
      PROVE  RInv'
  <2>1. link \in Link /\ Honest(link)
    <3>1. NoLink \in Link /\ Honest(NoLink)
      BY DEF Honest, Link, NoLink
    <3>2. link \in links => link \in Link /\ Honest(link)
      BY <1>1 DEF TypeOK, Store, LinksHonest
    <3> QED
      BY <3>1, <3>2
  <2>2. kind \in ByWeb \cup ByUser
    OBVIOUS
  <2> QED
    BY <1>6, <2>1, <2>2, FindFileKeeps DEF Visit
<1>7. ASSUME NEW kind \in ByUser, NEW number \in Versions, Request(kind, number)
      PROVE  RInv'
  <2>1. NoLink \in Link /\ Honest(NoLink) /\ kind \in ByWeb \cup ByUser
    BY DEF Honest, Link, NoLink
  <2> QED
    BY <1>7, <2>1, FindFileKeeps DEF Request
<1>8. ASSUME NEW who \in {"owner", "anyone"}, FindWithContent(who) PROVE RInv'
  BY <1>8, FindWithContentKeeps
<1>9. CASE FindContent
  BY <1>9, FindContentKeeps
<1>10. CASE CountRevisions \/ ListRevisions \/ FindRevision \/ FindDiff
  BY <1>10, OtherReadsKeep
<1>11. CASE Leave
  BY <1>11, ReadKeeps DEF Leave
<1>12. CASE UNCHANGED vars
  BY <1>12, Unchanged
<1> QED
  BY <1>2, <1>3, <1>4, <1>5, <1>6, <1>7, <1>8, <1>9, <1>10, <1>11, <1>12 DEF Next

LEMMA Invariance == Spec => []RInv
BY Beginning, Inductive, PTL DEF Spec

(* Every answer and everything it was made of stays within its type: no    *)
(* more contents are stored than there is room for, and no lifetime makes  *)
(* an expiry that is not a number.                                         *)
THEOREM TypeCorrect == Spec => []TypeOK
<1>1. RInv => TypeOK
  BY DEF RInv
<1> QED
  BY <1>1, Invariance, PTL

(* Who is neither the owner nor holds a signed URL is shown no content     *)
(* that never was public, unless the owner hid the file between the test   *)
(* of a page and its read; the single query of the API leaves no between.  *)
THEOREM OutsidersSeePublic == Spec => []OutsiderSawPublic
<1>1. RInv => OutsiderSawPublic
  BY DEF RInv, RequestOK, Outsider, OutsiderSawPublic, ReadContent
<1> QED
  BY <1>1, Invariance, PTL

(* A page whose revisions could be counted says at least as many as led to *)
(* the content it shows, or as some limit that has been in force, however  *)
(* the limit changes with restarts.                                        *)
THEOREM CountsCover == Spec => []CountCoversContent
<1>1. RInv => CountCoversContent
  BY DEF RInv, RequestOK, Count, Enough, CountCoversContent, ReadContent
<1> QED
  BY <1>1, Invariance, PTL

(* A signed URL opens a private file exactly until the time its lifetime   *)
(* says, but for the rest of the last second.                              *)
THEOREM LinksKeepPromises == Spec => []LinkAsPromised
<1>1. RInv => LinkAsPromised
  BY DEF RInv, RequestOK, LinkAsPromised
<1> QED
  BY <1>1, Invariance, PTL

(* What is shown is what was stored, and nothing is shown only of what has *)
(* gone.                                                                   *)
THEOREM AnswersTrue == Spec => []AnswersAreTrue
<1>1. RInv => AnswersAreTrue
  BY DEF RInv, RequestOK, Answer, AnswersAreTrue, ReadContent
<1> QED
  BY <1>1, Invariance, PTL
=============================================================================
