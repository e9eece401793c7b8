------------------------------ MODULE Durations -------------------------------
(***************************************************************************)
(* timeutil.ParseDuration in unsigned integers of a given width.  A text   *)
(* is a sign and a sequence of terms; of a term only the number before the *)
(* point, what its fraction comes to in nanoseconds and its unit matter.   *)
(***************************************************************************)
EXTENDS Integers, Sequences

CONSTANTS
    Width,       \* of the code's uint64
    Units,       \* unitMap: nanoseconds in each unit
    Numbers,     \* numbers written before a point
    MaxTerms     \* bound on the terms of a text

Half == 2 ^ (Width - 1)

ASSUME WidthAssumption == Width \in Nat \ {0}
ASSUME UnitsAssumption == Units \subseteq 1..(Half - 1)   \* the largest is a week
ASSUME NumbersAssumption == Numbers \subseteq Nat
ASSUME MaxTermsAssumption == MaxTerms \in Nat

Wrap(n) == n % (2 * Half)

(* A fraction comes to less than a unit, or to a whole one when it is      *)
(* rounded: it is computed in floating point.                              *)
Terms == {t \in [v : Numbers, unit : Units, fraction : 0..Half] :
             t.fraction \in {0, t.unit - 1, t.unit}}

Texts == [neg : BOOLEAN, terms : UNION {[1..n -> Terms] : n \in 1..MaxTerms}]

Invalid == 2 * Half   \* no sum and no duration

\* leadingInt: the digits come to more than 1 << 63.
TooLong(v) == v > Half

(* Mutant: the product is tested after it was formed. *)
AddTermUnchecked(d, t) ==
    LET v == Wrap(Wrap(t.v * t.unit) + t.fraction)
        sum == Wrap(d + v) IN
    IF TooLong(t.v) \/ v > Half \/ sum > Half THEN Invalid ELSE sum

(* One turn of the loop. *)
AddTerm(d, t) ==
    LET v == Wrap(Wrap(t.v * t.unit) + t.fraction)
        sum == Wrap(d + v) IN
    IF TooLong(t.v) \/ t.v > Half \div t.unit \/ v > Half \/ sum > Half
      THEN Invalid
      ELSE sum

(* The loop: Sums(terms)[n] is what the first n terms come to. *)
Sums(terms) ==
    LET sum[n \in 0..Len(terms)] ==
            IF n = 0 THEN 0
            ELSE IF sum[n - 1] = Invalid THEN Invalid
            ELSE AddTerm(sum[n - 1], terms[n])
    IN sum

(* - time.Duration(d) of 1 << 63 is the smallest int64, and the largest is *)
(* one less than 1 << 63.                                                  *)
ParseDuration(text) ==
    LET d == Sums(text.terms)[Len(text.terms)] IN
    IF d = Invalid \/ (~text.neg /\ d > Half - 1)
      THEN Invalid
      ELSE IF text.neg THEN 0 - d ELSE d

(* What the first n terms say. *)
Totals(terms) ==
    LET total[n \in 0..Len(terms)] ==
            IF n = 0 THEN 0
            ELSE total[n - 1] + terms[n].v * terms[n].unit + terms[n].fraction
    IN total

Written(text) ==
    LET d == Totals(text.terms)[Len(text.terms)] IN IF text.neg THEN 0 - d ELSE d

(* d > 1<<63 does not see a sum of 1<<63 and 1<<63, which wraps to 0.      *)
Wraps(text) ==
    \E n \in 1..Len(text.terms) :
        Sums(text.terms)[n - 1] = Half /\ AddTerm(0, text.terms[n]) = Half

(* Each text as it is read and as it is written. *)
Readings ==
    {[parsed |-> ParseDuration(t), written |-> Written(t), wraps |-> Wraps(t)] : t \in Texts}
=============================================================================
