------------------------------- MODULE Coords -------------------------------
(***************************************************************************)
(* Numbers of a plot: integers and floats side by side, compared as        *)
(* floats, and the ranges they span.                                       *)
(*                                                                         *)
(* A value of nushell is a record whose t says what it is; numbers are     *)
(* counted in tenths.  Floats are exact near zero and get coarser in three *)
(* steps, as doubles do before and after 2^53, here Exact: halves, whole   *)
(* numbers, even numbers.  Numbers stay below twice Exact.                 *)
(*                                                                         *)
(* A conversion returns the set of what it yields: one value, or nothing   *)
(* when it fails.                                                          *)
(***************************************************************************)
EXTENDS Integers, Sequences

CONSTANT Exact        \* every integer up to Exact is a float: 2^53

ASSUME ExactAssumption == Exact \in Nat /\ Exact >= 4 /\ Exact % 4 = 0

IntValue(n) == [t |-> "int", num |-> 10 * n]
FloatValue(tenths) == [t |-> "float", num |-> tenths]
NaN == [t |-> "nan"]                   \* or an infinity
Nothing == [t |-> "nothing"]
String(chars) == [t |-> "string", chars |-> chars]
List(items) == [t |-> "list", items |-> items]
Record(fields) == [t |-> "record", fields |-> fields]
IsNumber(v) == v.t \in {"int", "float"}
HasFields(v, names) == v.t = "record" /\ names \subseteq DOMAIN v.fields
HasItems(v, n) == v.t = "list" /\ Len(v.items) >= n

-----------------------------------------------------------------------------
(* Floats. *)

Ulp(x) == LET size == IF x < 0 THEN -x ELSE x
          IN  IF 4 * size < 10 * Exact THEN 1
              ELSE IF 2 * size < 10 * Exact THEN 5
              ELSE IF size < 10 * Exact THEN 10 ELSE 20

(* The float nearest to x, of two the even one. *)
ToMultiple(x, unit) ==
    LET up == 2 * (x % unit) > unit \/ (2 * (x % unit) = unit /\ (x \div unit) % 2 = 1)
    IN  unit * ((x \div unit) + IF up THEN 1 ELSE 0)
Rounded(x) == ToMultiple(x, Ulp(x))

-----------------------------------------------------------------------------
(* Coordinates: Coord1d. *)

CoordOf(v) == IF IsNumber(v) THEN {v} ELSE {}

AsFloat(c) == IF c.t = "int" THEN Rounded(c.num) ELSE c.num
Below(c, d) == AsFloat(c) < AsFloat(d)
Least(c, d) == IF Below(d, c) THEN d ELSE c         \* cmp::min: the first of equals
Greatest(c, d) == IF Below(d, c) THEN c ELSE d      \* cmp::max: the second

Floor(c) == c.num \div 10
Ceil(c) == -((-c.num) \div 10)

Plus(c, d) == IF c.t = "int" /\ d.t = "int" THEN [t |-> "int", num |-> c.num + d.num]
              ELSE FloatValue(Rounded(AsFloat(c) + AsFloat(d)))
Minus(c, d) == IF c.t = "int" /\ d.t = "int" THEN [t |-> "int", num |-> c.num - d.num]
               ELSE FloatValue(Rounded(AsFloat(c) - AsFloat(d)))
Over(c, d) == FloatValue(Rounded((10 * AsFloat(c)) \div AsFloat(d)))

-----------------------------------------------------------------------------
(* Points: a pair is a list of two numbers (the rest of a longer list is   *)
(* not looked at), a point a pair or a record of x and y.                  *)
PairOf(v) ==
    IF HasItems(v, 2) /\ IsNumber(v.items[1]) /\ IsNumber(v.items[2])
    THEN {[x |-> v.items[1], y |-> v.items[2]]} ELSE {}
PointOf(v) ==
    IF HasFields(v, {"x", "y"}) /\ IsNumber(v.fields.x) /\ IsNumber(v.fields.y)
    THEN {[x |-> v.fields.x, y |-> v.fields.y]} ELSE PairOf(v)

-----------------------------------------------------------------------------
(* Ranges. *)

Between(min, max) == [min |-> min, max |-> max, discrete |-> FALSE]

(* A range of nushell becomes one of floats, whatever it was and whether   *)
(* its end belongs to it; it must have one.  A list must have two numbers. *)
RangeOf(v) ==
    CASE v.t = "range" /\ Len(v.ends) = 2 ->
            {Between(FloatValue(AsFloat(v.ends[1])), FloatValue(AsFloat(v.ends[2])))}
      [] v.t = "list" /\ Len(v.items) = 2 /\ IsNumber(v.items[1]) /\ IsNumber(v.items[2]) ->
            {Between(v.items[1], v.items[2])}
      [] HasFields(v, {"min", "max"}) /\ IsNumber(v.fields.min) /\ IsNumber(v.fields.max) ->
            {Between(v.fields.min, v.fields.max)}
      [] OTHER -> {}

(* The ticks of a discrete axis are the integers within it; those of any   *)
(* other are chosen by the plotters crate.                                 *)
KeyPointsAround(r) == IF r.discrete THEN Floor(r.min)..Ceil(r.max) ELSE {}  \* mutant
KeyPoints(r) == IF r.discrete THEN Ceil(r.min)..Floor(r.max) ELSE {}

Within(r, c) == AsFloat(r.min) <= AsFloat(c) /\ AsFloat(c) <= AsFloat(r.max)
=============================================================================
