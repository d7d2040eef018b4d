----------------------------- MODULE CypherValues -----------------------------
(***************************************************************************)
(* What Cypher values are equal, how they compare and how they sort        *)
(* (cypher/value.rs, cypher/value_order.rs), the same relations with       *)
(* cancellation points (query/expression/compare_control.rs) and the key   *)
(* by which DISTINCT and grouping tell rows apart (query/spill/codec.rs).  *)
(*                                                                         *)
(* A value is a tuple that starts with its family.  Floats are counted in  *)
(* halves; IntMin .. IntMax stands for the 64-bit integers, so that floats *)
(* beyond both ends exist.  Names and identities are numbers.              *)
(***************************************************************************)
EXTENDS Integers, Sequences, FiniteSets, FiniteSetsExt

CONSTANTS
    IntMax,   \* i64::MAX
    JsSafe    \* the largest integer JSON carries as a number

IntMin == -(IntMax + 1)

Null == <<"null">>
Nan == <<"float", "nan", 0>>
Infinity == <<"float", "inf", 0>>
NegInfinity == <<"float", "neginf", 0>>
NegZero == <<"float", "negzero", 0>>
Float(halves) == <<"float", "finite", halves>>

IsNan(v) == v[2] = "nan"

Ordering(a, b) == IF a < b THEN "less" ELSE IF a = b THEN "equal" ELSE "greater"

Reverse(o) == CASE o = "less" -> "greater" [] o = "greater" -> "less" [] OTHER -> o

\* float.trunc(), of a number of halves.
Trunc(halves) == IF halves >= 0 THEN halves \div 2 ELSE -((-halves) \div 2)

\* A change of IntegerFloatCmp that OrderIsTotal notices.
TruncatedCmp(i, f) ==
    CASE f[2] = "nan" -> "unordered"
      [] f[2] = "inf" -> "less"
      [] f[2] = "neginf" -> "greater"
      [] OTHER -> Ordering(i, Trunc(f[3]))

IntegerFloatCmp(i, f) ==
    LET halves == f[3] IN
    CASE f[2] = "nan" -> "unordered"
      [] f[2] = "inf" \/ halves >= 2 * (IntMax + 1) -> "less"
      [] f[2] = "neginf" \/ halves < 2 * IntMin -> "greater"
      [] OTHER -> IF i # Trunc(halves) THEN Ordering(i, Trunc(halves))
                  ELSE Ordering(0, halves - 2 * Trunc(halves))

\* The place of a float among the floats; both zeros are at the same place.
FloatPlace(f) ==
    CASE f[2] = "neginf" -> 2 * IntMin - 100
      [] f[2] = "inf" -> 2 * IntMax + 100
      [] OTHER -> f[3]

PartialNumberCmp(f, g) ==
    IF IsNan(f) \/ IsNan(g) THEN "unordered" ELSE Ordering(FloatPlace(f), FloatPlace(g))

\* Every NaN sorts behind every other number.
SortFloat(f, g) ==
    IF IsNan(f) \/ IsNan(g)
    THEN Ordering(IF IsNan(f) THEN 1 ELSE 0, IF IsNan(g) THEN 1 ELSE 0)
    ELSE Ordering(FloatPlace(f), FloatPlace(g))

SortIntegerFloat(i, f) == IF IsNan(f) THEN "less" ELSE IntegerFloatCmp(i, f)

-----------------------------------------------------------------------------
(* Ordering of sequences: the first place that differs, then the length.   *)

Shorter(s, t) == IF Len(s) < Len(t) THEN Len(s) ELSE Len(t)

FirstDifference(places, lengths) ==
    LET differ == {i \in DOMAIN places : places[i] # "equal"}
    IN IF differ = {} THEN lengths ELSE places[Min(differ)]

\* cmp gives the ordering at a place.
Lexicographic(s, t, cmp(_)) ==
    FirstDifference([i \in 1 .. Shorter(s, t) |-> cmp(i)], Ordering(Len(s), Len(t)))

TextOrder(s, t) == Lexicographic(s, t, LAMBDA i : Ordering(s[i], t[i]))

Rank(v) ==
    CASE v[1] = "map" -> 0 [] v[1] = "node" -> 1 [] v[1] = "rel" -> 2
      [] v[1] = "list" -> 3 [] v[1] = "path" -> 4 [] v[1] = "vector" -> 5
      [] v[1] = "point" -> 6 [] v[1] = "zoned" -> 7 [] v[1] = "date" -> 9
      [] v[1] = "time" -> 10 [] v[1] = "duration" -> 12 [] v[1] = "string" -> 13
      [] v[1] = "boolean" -> 14 [] v[1] = "uuid" -> 15
      [] v[1] \in {"integer", "float"} -> 16 [] v[1] = "null" -> 17

\* A path <<"path", nodes, rels>>, its identities in the order of the walk.
WellFormed(p) == Len(p[2]) = Len(p[3]) + 1

PathIdentity(p, i) == IF i % 2 = 1 THEN p[2][(i + 1) \div 2] ELSE p[3][i \div 2]

Walk(p) == [i \in 1 .. Len(p[2]) + Len(p[3]) |-> PathIdentity(p, i)]

PathOrder(p, q) ==
    IF ~ WellFormed(p) \/ ~ WellFormed(q) THEN "error" ELSE TextOrder(Walk(p), Walk(q))

\* A point <<"point", srid, coordinates>>; a shared srid means a shared dimension.
PointOrder(p, q) ==
    IF p[2] # q[2] THEN Ordering(p[2], q[2])
    ELSE Lexicographic(p[3], q[3], LAMBDA i : PartialNumberCmp(p[3][i], q[3][i]))

\* A vector <<"vector", type, coordinates>>: type 0 holds integers, type 1 floats.
VectorOrder(p, q) ==
    IF p[2] # q[2] THEN Ordering(p[2], q[2])
    ELSE IF Len(p[3]) # Len(q[3]) THEN Ordering(Len(p[3]), Len(q[3]))
    ELSE Lexicographic(p[3], q[3],
             LAMBDA i : IF p[2] = 0 THEN Ordering(p[3][i][2], q[3][i][2])
                                    ELSE SortFloat(p[3][i], q[3][i]))

\* <<"duration", months, days>>; a month counts as 30.436875 days.
DurationSortKey(d) == d[2] * 48699 + d[3] * 1600

\* <<"time", instant, offset>>, <<"zoned", instant, offset, zone>>.
InstantOrder(t, u) == TextOrder(Tail(t), Tail(u))

RECURSIVE OrderCompare(_, _)

\* <<"map", keys, values>>, the keys ascending.
MapOrder(m, n) ==
    IF Len(m[2]) # Len(n[2]) THEN Ordering(Len(m[2]), Len(n[2]))
    ELSE IF m[2] # n[2] THEN TextOrder(m[2], n[2])
    ELSE Lexicographic(m[3], n[3], LAMBDA i : OrderCompare(m[3][i], n[3][i]))

SequenceOrder(s, t) == Lexicographic(s, t, LAMBDA i : OrderCompare(s[i], t[i]))

NumberOrder(v, w) ==
    CASE v[1] = "integer" /\ w[1] = "integer" -> Ordering(v[2], w[2])
      [] v[1] = "integer" /\ w[1] = "float" -> SortIntegerFloat(v[2], w)
      [] v[1] = "float" /\ w[1] = "integer" -> Reverse(SortIntegerFloat(w[2], v))
      [] OTHER -> SortFloat(v, w)

OrderWithin(rank, v, w) ==
    CASE rank = 0 -> MapOrder(v, w)
      [] rank = 3 -> SequenceOrder(v[2], w[2])
      [] rank = 4 -> PathOrder(v, w)
      [] rank = 5 -> VectorOrder(v, w)
      [] rank = 6 -> PointOrder(v, w)
      [] rank \in {7, 10} -> InstantOrder(v, w)
      [] rank = 12 -> Ordering(DurationSortKey(v), DurationSortKey(w))
      [] rank = 16 -> NumberOrder(v, w)
      [] rank = 17 -> "equal"
      [] OTHER -> Ordering(v[2], w[2])

\* cypher_order_compare: the order of ORDER BY, min and max.
OrderCompare(v, w) ==
    IF Rank(v) # Rank(w) THEN Ordering(Rank(v), Rank(w)) ELSE OrderWithin(Rank(v), v, w)

-----------------------------------------------------------------------------
(* Equality is three-valued, and an error between families.                *)

Truth(b) == IF b THEN "true" ELSE "false"

\* The first false or error ends a walk over pairs; a null makes a truth unknown.
Conjunction(results) ==
    LET ends == {i \in DOMAIN results : results[i] \in {"false", "error"}}
    IN IF ends # {} THEN results[Min(ends)]
       ELSE IF \E i \in DOMAIN results : results[i] = "null" THEN "null" ELSE "true"

VectorEquals(p, q) ==
    IF p[2] # q[2] \/ Len(p[3]) # Len(q[3]) THEN "error"
    ELSE Truth(\A i \in DOMAIN p[3] :
                  IF p[2] = 0 THEN p[3][i] = q[3][i]
                  ELSE PartialNumberCmp(p[3][i], q[3][i]) = "equal")

PathListEquals(p, values) ==
    Truth(/\ WellFormed(p) /\ Len(values) = Len(p[2]) + Len(p[3])
          /\ \A i \in DOMAIN values :
                values[i] = <<IF i % 2 = 1 THEN "node" ELSE "rel", PathIdentity(p, i)>>)

PointEquals(p, q) ==
    Truth(/\ p[2] = q[2]
          /\ \A i \in DOMAIN p[3] : PartialNumberCmp(p[3][i], q[3][i]) = "equal")

NumberEquals(v, w) ==
    Truth("equal" = CASE v[1] = "integer" /\ w[1] = "integer" -> Ordering(v[2], w[2])
                      [] v[1] = "integer" /\ w[1] = "float" -> IntegerFloatCmp(v[2], w)
                      [] v[1] = "float" /\ w[1] = "integer" -> IntegerFloatCmp(w[2], v)
                      [] OTHER -> PartialNumberCmp(v, w))

RECURSIVE Equals(_, _)

ListEquals(s, t) ==
    IF Len(s) # Len(t) THEN "false" ELSE Conjunction([i \in DOMAIN s |-> Equals(s[i], t[i])])

MapEquals(m, n) ==
    IF m[2] # n[2] THEN "false" ELSE Conjunction([i \in DOMAIN m[3] |-> Equals(m[3][i], n[3][i])])

\* cypher_equals
Equals(v, w) ==
    CASE Null \in {v, w} -> "null"
      [] {v[1], w[1]} \subseteq {"integer", "float"} -> NumberEquals(v, w)
      [] v[1] = "path" /\ w[1] = "list" -> PathListEquals(v, w[2])
      [] v[1] = "list" /\ w[1] = "path" -> PathListEquals(w, v[2])
      [] v[1] # w[1] -> "error"
      [] v[1] = "list" -> ListEquals(v[2], w[2])
      [] v[1] = "map" -> MapEquals(v, w)
      [] v[1] = "vector" -> VectorEquals(v, w)
      [] v[1] = "point" -> PointEquals(v, w)
      [] OTHER -> Truth(v = w)

\* list_compare: a null at the top of either list leaves the comparison unknown.
ListCompare(s, t) ==
    Lexicographic(s, t, LAMBDA i : IF Null \in {s[i], t[i]} THEN "null" ELSE OrderCompare(s[i], t[i]))

\* cypher_compare: what <, <=, > and >= ask.
Compare(v, w) ==
    CASE Null \in {v, w} -> "null"
      [] v[1] = "integer" /\ w[1] = "integer" -> Ordering(v[2], w[2])
      [] v[1] = "integer" /\ w[1] = "float" -> IntegerFloatCmp(v[2], w)
      [] v[1] = "float" /\ w[1] = "integer" -> Reverse(IntegerFloatCmp(w[2], v))
      [] v[1] = "float" /\ w[1] = "float" -> PartialNumberCmp(v, w)
      [] v[1] = "list" /\ w[1] = "list" -> ListCompare(v[2], w[2])
      [] v[1] = w[1] /\ v[1] \in {"duration", "point", "vector"} -> "null"
      [] OTHER -> OrderCompare(v, w)

-----------------------------------------------------------------------------
(* The relations with cancellation points: containers, paths and vectors   *)
(* have loops of their own, everything else is handed to the plain ones.   *)

\* map_keys, by zip and then by length.
MapKeys(m, n) == TextOrder(m[2], n[2])

\* coordinates_equal compares with ==, which a NaN never is.
CoordinatesEqual(p, q) ==
    \A i \in DOMAIN p[3] : IF p[2] = 0 THEN p[3][i] = q[3][i]
                           ELSE ~ IsNan(p[3][i]) /\ SortFloat(p[3][i], q[3][i]) = "equal"

\* path_list_equals by kind and identity of every place of the list.
PathListEqualsControlled(p, values) ==
    Truth(/\ WellFormed(p) /\ Len(values) = Len(p[2]) + Len(p[3])
          /\ \A i \in DOMAIN values :
                /\ values[i][1] = (IF i % 2 = 1 THEN "node" ELSE "rel")
                /\ values[i][2] = PathIdentity(p, i))

RECURSIVE EqualsControlled(_, _)

PairsEqual(s, t) == Conjunction([i \in 1 .. Shorter(s, t) |-> EqualsControlled(s[i], t[i])])

EqualsControlled(v, w) ==
    CASE v[1] = "list" /\ w[1] = "list" ->
            IF Len(v[2]) # Len(w[2]) THEN "false" ELSE PairsEqual(v[2], w[2])
      [] v[1] = "map" /\ w[1] = "map" ->
            IF Len(v[2]) # Len(w[2]) \/ MapKeys(v, w) # "equal" THEN "false"
            ELSE PairsEqual(v[3], w[3])
      [] v[1] = "vector" /\ w[1] = "vector" ->
            IF v[2] # w[2] \/ Len(v[3]) # Len(w[3]) THEN "error" ELSE Truth(CoordinatesEqual(v, w))
      [] v[1] = "path" /\ w[1] = "path" ->
            Truth(Len(v[2]) = Len(w[2]) /\ Len(v[3]) = Len(w[3])
                  /\ TextOrder(v[2] \o v[3], w[2] \o w[3]) = "equal")
      [] v[1] = "path" /\ w[1] = "list" -> PathListEqualsControlled(v, w[2])
      [] v[1] = "list" /\ w[1] = "path" -> PathListEqualsControlled(w, v[2])
      [] OTHER -> Equals(v, w)

RECURSIVE OrderControlled(_, _)

ListOrderControlled(s, t) == Lexicographic(s, t, LAMBDA i : OrderControlled(s[i], t[i]))

MapOrderControlled(m, n) ==
    IF Len(m[2]) # Len(n[2]) THEN Ordering(Len(m[2]), Len(n[2]))
    ELSE IF m[2] # n[2] THEN MapKeys(m, n)
    ELSE ListOrderControlled(m[3], n[3])

PathOrderControlled(p, q) ==
    IF ~ WellFormed(p) \/ ~ WellFormed(q) THEN "error"
    ELSE Lexicographic(Walk(p), Walk(q), LAMBDA i : Ordering(PathIdentity(p, i), PathIdentity(q, i)))

OrderControlled(v, w) ==
    CASE v[1] = "list" /\ w[1] = "list" -> ListOrderControlled(v[2], w[2])
      [] v[1] = "map" /\ w[1] = "map" -> MapOrderControlled(v, w)
      [] v[1] = "path" /\ w[1] = "path" -> PathOrderControlled(v, w)
      [] v[1] = "vector" /\ w[1] = "vector" -> VectorOrder(v, w)
      [] OTHER -> OrderCompare(v, w)

CompareControlled(v, w) ==
    CASE v[1] = "list" /\ w[1] = "list" ->
            Lexicographic(v[2], w[2],
                LAMBDA i : IF Null \in {v[2][i], w[2][i]} THEN "null" ELSE OrderControlled(v[2][i], w[2][i]))
      [] v[1] = w[1] /\ v[1] \in {"map", "path", "node", "rel"} -> OrderControlled(v, w)
      [] OTHER -> Compare(v, w)

-----------------------------------------------------------------------------
(* The DISTINCT key: whole floats share the key of their integer.          *)

FloatDistinctKey(f) ==
    IF f[2] = "nan" THEN <<"nan", 0>>
    ELSE IF f[2] \in {"finite", "negzero"} /\ f[3] % 2 = 0
            /\ f[3] >= 2 * IntMin /\ f[3] < 2 * (IntMax + 1)
         THEN <<"i", f[3] \div 2>>
         ELSE <<f[2], f[3]>>

\* canonicalize_json_numbers of one coordinate; a large integer is not a number in JSON.
CoordinateKey(c) ==
    CASE c[1] = "float" -> FloatDistinctKey(c)
      [] c[1] = "integer" -> IF c[2] \in -JsSafe .. JsSafe THEN FloatDistinctKey(Float(2 * c[2]))
                             ELSE <<"Integer", c[2]>>

RECURSIVE DistinctKey(_)
DistinctKey(v) ==
    CASE v[1] = "integer" -> <<"number", <<"i", v[2]>>>>
      [] v[1] = "float" -> <<"number", FloatDistinctKey(v)>>
      [] v[1] = "list" -> <<"list", [i \in DOMAIN v[2] |-> DistinctKey(v[2][i])]>>
      [] v[1] = "map" -> <<"map", [i \in DOMAIN v[2] |-> <<v[2][i], DistinctKey(v[3][i])>>]>>
      [] v[1] \in {"point", "vector"} ->
            <<"value", v[1], v[2], [i \in DOMAIN v[3] |-> CoordinateKey(v[3][i])]>>
      [] OTHER -> v

=============================================================================
