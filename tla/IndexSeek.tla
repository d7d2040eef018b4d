------------------------------ MODULE IndexSeek ------------------------------
(***************************************************************************)
(* How a MATCH with a WHERE reads a standard index instead of the label:   *)
(* the comparisons with constants found in the WHERE, the type constraints *)
(* that prove an index holds everything the comparison can be true of, the *)
(* choice among indexes (schema/index.rs, index/constant.rs), and the      *)
(* pages read from the index cache (index/cache.rs, cache/range.rs).       *)
(*                                                                         *)
(* A query is a record: `indexes' (name, kind, label, properties),         *)
(* `constraints' (label, property, types: a union), the pattern's labels,  *)
(* the conjuncts of its WHERE and the denied properties; `data' gives      *)
(* every owner its labels and properties.  A conjunct compares a property  *)
(* with a constant, or with None, a constant expression whose evaluation   *)
(* fails; `flipped' has the constant on the left.  A text is a sequence of *)
(* characters up to LastChar.                                              *)
(***************************************************************************)
EXTENDS CypherValues, TLC

Seqs == INSTANCE SequencesExt

CONSTANTS
    PageSize,      \* PIPELINE_BATCH
    Generations,   \* the persistent generations an index may be bound to
    LastChar       \* char::MAX

None == <<"none">>
Local == 0        \* the index is a query-local cache, no generation

Numeric(v) == v[1] \in {"integer", "float"}

-----------------------------------------------------------------------------
(* Candidates: what the WHERE says about properties.                       *)

Pred(op, x, inclusive) == [op |-> op, x |-> x, inclusive |-> inclusive]

OrderCandidate(c) ==
    Pred(IF (c.op \in {"<", "<="}) = ~ c.flipped THEN "less" ELSE "greater",
         c.const, c.op \in {"<=", ">="})

\* The candidate of a conjunct, if it has one.
Candidate(c) ==
    CASE c.op = "notnull" -> <<Pred("notnull", Null, FALSE)>>
      [] c.op # "notnull" /\ c.const = None -> <<>>
      [] c.op = "=" -> <<Pred("equal", c.const, FALSE)>>
      [] c.op = "in" -> IF c.const[1] = "list" THEN <<Pred("in", c.const[2], FALSE)>> ELSE <<>>
      [] c.op \in {"<", "<=", ">", ">="} -> <<OrderCandidate(c)>>
      [] c.op \in {"starts", "ends", "contains"} ->
            IF c.const[1] = "string" THEN <<Pred(c.op, c.const[2], FALSE)>> ELSE <<>>
      [] c.op = "bbox" -> <<Pred("bbox", c.const, TRUE)>>
      [] c.op \in {"near", "within"} -> <<Pred("distance", c.const, c.op = "within")>>

Candidates(q, prop) ==
    Seqs!FlattenSeq([i \in DOMAIN q.where |->
                       IF q.where[i].prop = prop /\ prop \notin q.denied
                       THEN Candidate(q.where[i]) ELSE <<>>])

-----------------------------------------------------------------------------
(* Support: an index may answer a candidate only if every value the        *)
(* property can have is one the comparison would not fail on.              *)

Proves(q, index, prop, accepted) ==
    \E c \in q.constraints :
        /\ c.prop = prop /\ c.label = index.label
        /\ c.types # {} /\ c.types \subseteq accepted

\* property_type_scalar_compatible
Scalars(v) == IF Numeric(v) THEN {<<"integer">>, <<"float">>} ELSE {<<v[1]>>}

\* property_type_equality_compatible: the types a value may be looked up in.
EqualityTypes(v) ==
    IF v[1] = "list"
    THEN {<<"list", e>> : e \in {f \in {"integer", "float", "string"} :
                                   \A i \in DOMAIN v[2] : <<f>> \in Scalars(v[2][i])}}
    ELSE Scalars(v)

IsPropertyValue(v) ==
    CASE v[1] = "list" -> /\ \A i \in DOMAIN v[2] : v[2][i][1] = v[2][1][1]
                          /\ v[2] # <<>> => v[2][1][1] \notin {"list", "vector", "null", "map"}
      [] OTHER -> v[1] \notin {"null", "map", "node", "rel", "path"}

RangeEqualityValue(q, index, prop, v) ==
    IsPropertyValue(v) /\ Proves(q, index, prop, EqualityTypes(v))

RangeOrderValue(v) == v[1] \in {"boolean", "integer", "float", "string", "date", "time", "zoned"}

RangeSupports(q, index, prop, p) ==
    CASE p.op = "equal" -> RangeEqualityValue(q, index, prop, p.x)
      [] p.op = "in" -> p.x # <<>> /\ \A i \in DOMAIN p.x : RangeEqualityValue(q, index, prop, p.x[i])
      [] p.op \in {"less", "greater"} -> RangeOrderValue(p.x) /\ Proves(q, index, prop, Scalars(p.x))
      [] p.op = "notnull" -> TRUE
      [] p.op = "starts" -> Proves(q, index, prop, {<<"string">>})
      [] OTHER -> FALSE

PointSupports(q, index, prop, p) ==
    /\ CASE p.op = "equal" -> p.x[1] = "point"
         [] p.op = "in" -> p.x # <<>> /\ \A i \in DOMAIN p.x : p.x[i][1] = "point"
         [] p.op = "bbox" -> p.x[1][1] = "point" /\ p.x[2][1] = "point"
         [] p.op = "distance" -> p.x[1][1] = "point" /\ Numeric(p.x[2])
         [] OTHER -> FALSE
    /\ Proves(q, index, prop, {<<"point">>})

TextSupports(q, index, prop, p) ==
    /\ CASE p.op = "equal" -> p.x[1] = "string"
         [] p.op = "in" -> p.x # <<>> /\ \A i \in DOMAIN p.x : p.x[i][1] = "string"
         [] OTHER -> p.op \in {"starts", "ends", "contains"}
    /\ Proves(q, index, prop, {<<"string">>})

\* predicate_supported
Supported(q, index, prop, p) ==
    CASE index.kind = "range" -> RangeSupports(q, index, prop, p)
      [] index.kind = "point" -> PointSupports(q, index, prop, p)
      [] index.kind = "text" -> TextSupports(q, index, prop, p)
      [] OTHER -> FALSE

-----------------------------------------------------------------------------
(* The choice of a seek.                                                   *)

PredicatePriority(p) ==
    CASE p.op = "equal" -> 0 [] p.op = "in" -> 1 [] p.op \in {"bbox", "distance"} -> 2
      [] p.op \in {"less", "greater"} -> 3 [] p.op = "starts" -> 4
      [] p.op \in {"ends", "contains"} -> 5 [] p.op = "notnull" -> 6

\* The first numeric bound of one side: a value and whether it is included.
FirstBound(supported, op) ==
    LET bounds == SelectSeq(supported, LAMBDA p : p.op = op /\ Numeric(p.x))
    IN IF bounds = <<>> THEN <<>> ELSE <<bounds[1].x, bounds[1].inclusive>>

\* choose_property_predicate
ChoosePredicate(single, supported) ==
    LET least == Min({PredicatePriority(supported[i]) : i \in DOMAIN supported})
        best == SelectSeq(supported, LAMBDA p : PredicatePriority(p) = least)[1]
        lower == FirstBound(supported, "greater")
        upper == FirstBound(supported, "less")
    IN IF single /\ best.op \in {"less", "greater"} /\ (lower # <<>> \/ upper # <<>>)
       THEN Pred("bounds", <<lower, upper>>, FALSE)
       ELSE best

SupportedFor(q, index, i) ==
    SelectSeq(Candidates(q, index.props[i]), LAMBDA p : Supported(q, index, index.props[i], p))

\* scoped_index_properties and choose_property_seek: each property has a candidate.
Eligible(q, index) ==
    /\ index.kind # "lookup" /\ index.label \in q.labels
    /\ \A i \in DOMAIN index.props : SupportedFor(q, index, i) # <<>>

PropertySeek(q, index) ==
    [index |-> index,
     preds |-> [i \in {j \in DOMAIN index.props : SupportedFor(q, index, j) # <<>>} |->
                  ChoosePredicate(index.kind = "range" /\ Len(index.props) = 1,
                                  SupportedFor(q, index, i))]]

\* index_seek_priority: the kind, more properties before fewer, the name.
SeekPriority(seek) ==
    <<CASE seek.index.kind = "text" /\ seek.preds[1].op \in {"ends", "contains"} -> 0
        [] seek.index.kind \in {"range", "point"} -> 1
        [] OTHER -> 2,
      - Len(seek.index.props), seek.index.name>>

\* best_property_seek
BestSeek(seeks) ==
    LET First(s) == \A t \in seeks : TextOrder(SeekPriority(s), SeekPriority(t)) # "greater"
    IN IF seeks = {} THEN <<>> ELSE <<CHOOSE s \in seeks : First(s)>>

\* A label lookup reads the same pages as no index at all.
ChooseSeek(q) ==
    BestSeek({PropertySeek(q, index) : index \in {i \in q.indexes : Eligible(q, i)}})

-----------------------------------------------------------------------------
(* What an index holds, and which owners it gives for a predicate.         *)

Property(q, o, prop) == IF prop \in DOMAIN q.data[o].props THEN q.data[o].props[prop] ELSE Null

\* cache_value_supported
Indexable(kind, v) ==
    CASE kind = "text" -> v[1] = "string" [] kind = "point" -> v[1] = "point" [] OTHER -> v # Null

\* insert_owner: an owner with all of the properties, or not at all.
Entries(q, index) ==
    {o \in DOMAIN q.data :
        /\ index.label \in q.data[o].labels
        /\ \A i \in DOMAIN index.props : Indexable(index.kind, Property(q, o, index.props[i]))}

\* Whole floats share the key of their integer; nothing is equal to NaN.
NumberKey(v) ==
    IF v[1] = "integer" THEN <<"i", v[2]>>
    ELSE IF IsNan(v) THEN None ELSE FloatDistinctKey(v)

\* equality_key
EqualityKey(v) ==
    CASE Numeric(v) -> <<"number", NumberKey(v)>>
      [] v[1] = "list" -> <<"list", [i \in DOMAIN v[2] |->
                               IF Numeric(v[2][i]) THEN NumberKey(v[2][i]) ELSE v[2][i]]>>
      [] v[1] = "point" -> <<"point", v[2], [i \in DOMAIN v[3] |-> FloatPlace(v[3][i])]>>
      [] OTHER -> v

\* A value with a NaN in it has no key.
HasKey(v) ==
    CASE Numeric(v) -> v # Nan
      [] v[1] = "list" -> \A i \in DOMAIN v[2] : v[2][i] # Nan
      [] OTHER -> TRUE

SameKey(v, w) == v[1] \in {w[1], "integer", "float"} /\ HasKey(v) /\ HasKey(w) /\ EqualityKey(v) = EqualityKey(w)

\* range_order_key, as the columns of an entry are compared.
KeyOrder(v, w) ==
    IF Numeric(v) THEN IF ~ Numeric(w) \/ Nan \in {v, w} THEN "none" ELSE NumberOrder(v, w)
    ELSE IF v[1] # w[1] THEN "none"
    ELSE IF v[1] = "string" THEN TextOrder(v[2], w[2])
    ELSE TextOrder(Tail(v), Tail(w))

InOrder(ordering, op, inclusive) == ordering = op \/ (inclusive /\ ordering = "equal")

\* prefix_upper_bound: the next text behind every text with the prefix, or <<>>.
PrefixUpperBound(prefix) ==
    LET can == {i \in DOMAIN prefix : prefix[i] < LastChar}
    IN IF can = {} THEN <<>> ELSE LET i == Max(can) IN SubSeq(prefix, 1, i - 1) \o <<prefix[i] + 1>>

StartsWith(text, prefix) == Len(prefix) <= Len(text) /\ SubSeq(text, 1, Len(prefix)) = prefix

EndsWith(text, suffix) ==
    Len(suffix) <= Len(text) /\ SubSeq(text, Len(text) - Len(suffix) + 1, Len(text)) = suffix

Contains(text, part) == \E i \in 0 .. Len(text) : StartsWith(SubSeq(text, i + 1, Len(text)), part)

\* scan_range_prefix_candidates
RangePrefix(text, prefix) ==
    /\ TextOrder(text, prefix) # "less"
    /\ PrefixUpperBound(prefix) # <<>> => TextOrder(text, PrefixUpperBound(prefix)) = "less"
    /\ StartsWith(text, prefix)

\* substr(text, -length(suffix)) = suffix: SQLite's substr(text, 0) is the whole text.
SubstrFromEnd(text, suffix) == IF suffix = <<>> THEN text = <<>> ELSE EndsWith(text, suffix)

At(p, i) == p[3][i][3]    \* a coordinate, in halves
Geographic(p) == p[2] = 4326

InBox(v, lower, upper) ==
    /\ IF Geographic(v) /\ At(lower, 1) > At(upper, 1)
       THEN At(v, 1) >= At(lower, 1) \/ At(v, 1) <= At(upper, 1)
       ELSE At(v, 1) >= At(lower, 1) /\ At(v, 1) <= At(upper, 1)
    /\ At(v, 2) >= At(lower, 2) /\ At(v, 2) <= At(upper, 2)

Square(n) == n * n

Halves(r) == IF r[1] = "integer" THEN 2 * r[2] ELSE FloatPlace(r)

\* distance < radius or <= radius, for points of the plane.
Near(v, center, radius, inclusive) ==
    LET d == Square(At(v, 1) - At(center, 1)) + Square(At(v, 2) - At(center, 2))
    IN ~ (Numeric(radius) /\ radius = Nan) /\ Halves(radius) >= 0
       /\ InOrder(Ordering(d, Square(Halves(radius))), "less", inclusive)

\* scan_point_distance_candidates: a box first, then the distance.
PointNear(v, center, radius, inclusive) ==
    /\ radius \notin {Nan, Infinity, NegInfinity} /\ Halves(radius) >= 0
    /\ v[2] = center[2]
    /\ \A i \in 1 .. 2 : At(v, i) \in At(center, i) - Halves(radius) .. At(center, i) + Halves(radius)
    /\ Near(v, center, radius, inclusive)

BoundsMatch(p, v) ==
    /\ p.x[1] # <<>> => InOrder(KeyOrder(v, p.x[1][1]), "greater", p.x[1][2])
    /\ p.x[2] # <<>> => InOrder(KeyOrder(v, p.x[2][1]), "less", p.x[2][2])

\* The rows of the cache a predicate selects (scan_predicate_candidates).
Selects(kind, p, v) ==
    CASE p.op = "equal" -> SameKey(v, p.x)
      [] p.op = "in" -> \E i \in DOMAIN p.x : SameKey(v, p.x[i])
      [] p.op \in {"less", "greater"} -> InOrder(KeyOrder(v, p.x), p.op, p.inclusive)
      [] p.op = "bounds" -> BoundsMatch(p, v)
      [] p.op = "notnull" -> TRUE
      [] p.op = "starts" -> v[1] = "string" /\ IF kind = "range" THEN RangePrefix(v[2], p.x)
                                                ELSE StartsWith(v[2], p.x)
      [] p.op = "ends" -> v[1] = "string" /\ SubstrFromEnd(v[2], p.x)
      [] p.op = "contains" -> v[1] = "string" /\ Contains(v[2], p.x)
      [] p.op = "bbox" -> /\ p.x[1][2] = p.x[2][2] /\ v[2] = p.x[1][2]
                          /\ InBox(v, p.x[1], p.x[2])
      [] p.op = "distance" -> PointNear(v, p.x[1], p.x[2], p.inclusive)

\* A NaN is no bound of a range: numeric_range_bounds has nothing to say.
NoBounds(p) == p.op = "bounds" /\ \E i \in 1 .. 2 : p.x[i] # <<>> /\ p.x[i][1] = Nan

\* The owners that satisfy the predicates of all properties (intersect_candidates).
Owners(q, seek) ==
    {o \in Entries(q, seek.index) :
        \A i \in DOMAIN seek.preds :
            Selects(seek.index.kind, seek.preds[i], Property(q, o, seek.index.props[i]))}

-----------------------------------------------------------------------------
(* The WHERE itself, evaluated for every owner the index gives.            *)

AsTruth(ordering, op, inclusive) ==
    IF ordering \in {"null", "error"} THEN ordering ELSE Truth(InOrder(ordering, op, inclusive))

CompareText(v, w) == IF v[1] = "string" /\ w[1] = "string" THEN TextOrder(v[2], w[2]) ELSE Compare(v, w)

TextTest(op, v, w) ==
    IF v[1] # "string" \/ w[1] # "string" THEN "null"
    ELSE Truth(CASE op = "starts" -> StartsWith(v[2], w[2])
                 [] op = "ends" -> EndsWith(v[2], w[2])
                 [] op = "contains" -> Contains(v[2], w[2]))

\* value IN list: the first true or error ends it; a null leaves it unknown.
FirstTrue(results) ==
    LET ends == {i \in DOMAIN results : results[i] \in {"true", "error"}}
    IN IF ends # {} THEN results[Min(ends)]
       ELSE IF \E i \in DOMAIN results : results[i] = "null" THEN "null" ELSE "false"

InTest(v, items) ==
    IF items = <<>> THEN "false"
    ELSE IF v = Null THEN "null"
    ELSE FirstTrue([i \in DOMAIN items |-> Equals(v, items[i])])

PointTest(v, points, test) ==
    CASE v = Null -> "null"
      [] v[1] # "point" -> "error"
      [] \E i \in DOMAIN points : points[i][2] # v[2] -> "null"
      [] OTHER -> Truth(test)

\* The truth of a conjunct for a value of its property.
Test(c, v) ==
    CASE c.op = "notnull" -> Truth(v # Null)
      [] c.op # "notnull" /\ c.const = None -> "error"
      [] c.op = "=" -> Equals(v, c.const)
      [] c.op = "in" -> IF c.const = Null THEN "null" ELSE InTest(v, c.const[2])
      [] c.op \in {"<", "<=", ">", ">="} ->
            AsTruth(CompareText(IF c.flipped THEN c.const ELSE v, IF c.flipped THEN v ELSE c.const),
                    IF c.op \in {"<", "<="} THEN "less" ELSE "greater", c.op \in {"<=", ">="})
      [] c.op \in {"starts", "ends", "contains"} -> TextTest(c.op, v, c.const)
      [] c.op = "bbox" ->
            PointTest(v, c.const, v[1] = "point" /\ v[2] = c.const[1][2] /\ InBox(v, c.const[1], c.const[2]))
      [] c.op \in {"near", "within"} ->
            PointTest(v, <<c.const[1]>>, v[1] = "point" /\ v[2] = c.const[1][2]
                                           /\ Near(v, c.const[1], c.const[2], c.op = "within"))

Readable(q, o, prop) == IF prop \in q.denied THEN Null ELSE Property(q, o, prop)

\* AND from the left: false ends it, a null goes on, an error fails the query.
Where(q, o) ==
    Conjunction([i \in DOMAIN q.where |-> Test(q.where[i], Readable(q, o, q.where[i].prop))])

Matching(q, o) == q.labels \subseteq q.data[o].labels

-----------------------------------------------------------------------------
-----------------------------------------------------------------------------
(* IndexSeek for nodes whose property has values of one family: numbers    *)
(* with whole floats, NaN and both infinities, texts over two characters,  *)
(* points of two reference systems, lists and times, typed by constraints, *)
(* by unions, by a constraint of another label or not at all.              *)

Integer(n) == <<"integer", n>>
Text(s) == <<"string", s>>
List(s) == <<"list", s>>
Point(srid, x, y) == <<"point", srid, <<Float(x), Float(y)>>>>

\* Property 1 of the owners, property 2 is a number or missing.
Node(labels, v, w) == [labels |-> labels, props |-> IF w = Null THEN 1 :> v ELSE (1 :> v @@ 2 :> w)]
Missing(labels) == [labels |-> labels, props |-> (2 :> Integer(1))]

Numbers == <<Node({1}, Integer(1), Integer(0)), Node({1, 2}, Float(2), Integer(1)), Node({1}, Nan, Null),
             Node({2}, Integer(1), Integer(1)), Missing({1}), Node({1, 2}, Float(1), Null),
             Node({1}, NegZero, Float(2))>>

Texts == <<Node({1}, Text(<<>>), Integer(0)), Node({1, 2}, Text(<<1>>), Integer(1)), Node({1}, Text(<<1, 2>>), Null),
           Node({2}, Text(<<2>>), Integer(1)), Missing({1}), Node({1, 2}, Text(<<2, 1>>), Null),
           Node({1}, Text(<<2, 2, 1>>), Integer(1))>>

Points == <<Node({1}, Point(7203, 0, 0), Integer(0)), Node({1, 2}, Point(7203, 3, 4), Integer(1)),
            Node({1}, Point(4326, 8, 0), Null), Node({1}, Point(4326, -8, 2), Integer(1)), Missing({1}),
            Node({1}, <<"point", 7203, <<NegZero, Float(2)>>>>, Null)>>

Lists == <<Node({1}, List(<<>>), Integer(0)), Node({1}, List(<<Integer(1)>>), Integer(1)),
           Node({1, 2}, List(<<Integer(1), Integer(2)>>), Null), Missing({1})>>

Times == <<Node({1}, <<"time", 0, 1>>, Integer(0)), Node({1}, <<"time", 1, 0>>, Integer(1)),
           Node({1, 2}, <<"time", 0, 0>>, Null), Missing({1})>>

\* No constraint keeps the families apart.
Mixed == <<Node({1}, Integer(1), Integer(1)), Node({1}, Text(<<1>>), Integer(0)), Node({2}, Text(<<1>>), Text(<<1>>)),
           Node({1}, Null, Text(<<1>>)), Node({1}, Float(2), Integer(1))>>

C(prop, op, const, flipped) == [prop |-> prop, op |-> op, const |-> const, flipped |-> flipped]

NumberTests ==
    {C(1, op, Integer(1), f) : op \in {"=", "<", ">="}, f \in BOOLEAN}
    \cup {C(1, "=", Float(2), FALSE), C(1, "=", Nan, FALSE), C(1, ">", Float(0), FALSE), C(1, "<=", Infinity, FALSE),
          C(1, "<", Float(1), FALSE), C(1, ">", Nan, FALSE), C(1, "=", None, FALSE), C(1, "notnull", None, FALSE),
          C(1, "in", List(<<Integer(0), Float(1)>>), FALSE), C(1, "in", List(<<Integer(1), Null>>), FALSE),
          C(1, "in", List(<<>>), FALSE), C(1, "=", Text(<<1>>), FALSE), C(1, "<", Text(<<1>>), FALSE)}

TextTests ==
    {C(1, op, Text(t), FALSE) : op \in {"starts", "ends", "contains"}, t \in {<<>>, <<1>>, <<2>>, <<1, 2>>}}
    \cup {C(1, "=", Text(<<1>>), TRUE), C(1, "in", List(<<Text(<<2>>), Text(<<1, 2>>)>>), FALSE),
          C(1, ">=", Text(<<1, 2>>), FALSE), C(1, "starts", Integer(1), FALSE), C(1, "starts", Text(<<2, 2>>), FALSE)}

PointTests ==
    {C(1, "=", Point(7203, 0, 2), FALSE), C(1, "in", List(<<Point(4326, 8, 0)>>), FALSE),
     C(1, "bbox", <<Point(7203, 0, 0), Point(7203, 2, 2)>>, FALSE),
     C(1, "bbox", <<Point(4326, 6, 0), Point(4326, -6, 1)>>, FALSE),
     C(1, "bbox", <<Point(4326, 0, 0), Point(7203, 8, 8)>>, FALSE),
     C(1, "near", <<Point(7203, 0, 0), Float(5)>>, FALSE), C(1, "within", <<Point(7203, 0, 0), Float(5)>>, FALSE),
     C(1, "within", <<Point(7203, 0, 0), Integer(-1)>>, FALSE), C(1, "near", <<Point(7203, 0, 0), Infinity>>, FALSE)}

ListTests ==
    {C(1, "=", List(s), FALSE) : s \in {<<>>, <<Integer(1)>>, <<Float(2)>>, <<Integer(1), Float(4)>>, <<Null>>}}

TimeTests == {C(1, op, <<"time", 0, 1>>, FALSE) : op \in {"=", "<", ">="}}

SecondTests == {C(2, "=", Integer(1), FALSE), C(2, ">", Integer(0), TRUE)}

RangeOn(name, props) == [name |-> name, kind |-> "range", label |-> 1, props |-> props]
Kind(name, kind) == [name |-> name, kind |-> kind, label |-> 1, props |-> <<1>>]

Typed(label, prop, types) == [label |-> label, prop |-> prop, types |-> types]

NumberTypes == {<<"integer">>, <<"float">>}

IndexSets(kind) ==
    {{RangeOn(1, <<1>>)}, {RangeOn(2, <<1>>), RangeOn(1, <<1, 2>>)}, {Kind(1, kind), RangeOn(2, <<2>>)},
     {RangeOn(2, <<1>>), Kind(1, kind), [name |-> 3, kind |-> "lookup", label |-> 1, props |-> <<>>]}}

\* The data fit the constraints.
Constraints(types) ==
    {{Typed(1, 1, types), Typed(1, 2, NumberTypes)}, {Typed(1, 1, types)}, {Typed(2, 1, types)}, {}}

Wheres(tests) ==
    {<<c>> : c \in tests} \cup {<<c, d>> : c \in tests, d \in SecondTests}
        \cup {<<d, c>> : c \in tests, d \in SecondTests}

Shape(data, types, tests, kind) ==
    [data : {data}, indexes : IndexSets(kind), constraints : Constraints(types),
     labels : {{1, 2}}, where : Wheres(tests), denied : {{}}]
    \cup [data : {data}, indexes : IndexSets(kind), constraints : {{Typed(1, 1, types), Typed(1, 2, NumberTypes)}},
          labels : {{1}}, where : Wheres(tests), denied : {{2}}]

\* Two comparisons of the same property, as in an interval.
Intervals ==
    [data : {Numbers}, indexes : {{RangeOn(1, <<1>>)}, {RangeOn(1, <<1, 2>>), RangeOn(2, <<1>>)}},
     constraints : {{Typed(1, 1, NumberTypes)}}, labels : {{1}},
     where : {<<c, d>> : c, d \in {t \in NumberTests : t.op \in {"<", ">", ">=", "<=", "="}}}, denied : {{}}]

MixedQueries ==
    [data : {Mixed}, indexes : IndexSets("text"),
     constraints : {{}, {Typed(1, 1, {<<"integer">>, <<"float">>, <<"string">>})}},
     labels : {{1}}, where : Wheres({C(1, "=", Integer(1), FALSE), C(1, "<", Integer(2), FALSE),
                                     C(1, "notnull", None, FALSE), C(1, "starts", Text(<<1>>), FALSE)}),
     denied : {{}}]

Queries ==
    Shape(Numbers, NumberTypes, NumberTests, "point") \cup Shape(Texts, {<<"string">>}, TextTests, "text")
        \cup Shape(Points, {<<"point">>}, PointTests, "point") \cup Shape(Lists, {<<"list", "integer">>}, ListTests, "text")
        \cup Shape(Times, {<<"time">>}, TimeTests, "text") \cup Intervals \cup MixedQueries

-----------------------------------------------------------------------------

VARIABLES
    query,
    seek,      \* <<>>, or the seek chosen for the pattern
    binding,   \* the generation the index is bound to, or Local
    cursor,    \* <<>>, <<"owner", owner>> or <<"range", generation, number, owner>>
    rows,      \* the owners that passed the WHERE, in order
    status     \* "planning", "reading", "done", "failed", "changed" or "interrupted"

vars == <<query, seek, binding, cursor, rows, status>>

Init ==
    /\ query \in Queries
    /\ seek = <<>> /\ binding \in Generations \cup {Local} /\ cursor = <<>> /\ rows = <<>>
    /\ status = "planning"

\* select_standard_index_seeks
Plan ==
    /\ status = "planning"
    /\ seek' = ChooseSeek(query)
    /\ status' = "reading"
    /\ UNCHANGED <<query, binding, cursor, rows>>

\* A cancelled evaluation of a constant or proof ends the query, not only the seek.
Cancel ==
    /\ status \in {"planning", "reading"}
    /\ status' = "interrupted"
    /\ UNCHANGED <<query, seek, binding, cursor, rows>>

\* The generation is gone before the next page: another one, or a local cache.
Rebind ==
    /\ status = "reading" /\ seek # <<>> /\ binding # Local
    /\ \E g \in (Generations \cup {Local}) \ {binding} : binding' = g
    /\ UNCHANGED <<query, seek, cursor, rows, status>>

After == IF cursor = <<>> THEN 0 ELSE cursor[2]

\* The owners of the next page, in order of their number.
FirstPage(later) == SubSeq(later, 1, Min({PageSize, Len(later)}))

OwnerPage(owners) == FirstPage(Seqs!SetToSortSeq({o \in owners : o > After}, <))

NumberOf(o) == Property(query, o, seek[1].index.props[1])

\* (sort_number, owner_id), as SQLite compares rows.
PairLess(v, o, w, p) == InOrder(NumberOrder(v, w), "less", o < p)

RangePage(owners) ==
    FirstPage(Seqs!SetToSortSeq(
        {o \in owners : cursor # <<>> => PairLess(cursor[3], cursor[4], NumberOf(o), o)},
        LAMBDA o, p : PairLess(NumberOf(o), o, NumberOf(p), p)))

\* The page is checked against the pattern and the WHERE, owner by owner.
Deliver(page, NextCursor(_)) ==
    \E read \in {SelectSeq(page, LAMBDA o : Matching(query, o))} :
        \E verdicts \in {[o \in {read[i] : i \in DOMAIN read} |-> Where(query, o)]} :
            IF \E o \in DOMAIN verdicts : verdicts[o] = "error"
            THEN status' = "failed" /\ UNCHANGED <<rows, cursor>>
            ELSE /\ rows' = rows \o SelectSeq(read, LAMBDA o : verdicts[o] = "true")
                 /\ IF Len(page) = PageSize
                    THEN cursor' = NextCursor(page[Len(page)]) /\ UNCHANGED status
                    ELSE status' = "done" /\ UNCHANGED cursor

DeliverOwners(owners) == Deliver(OwnerPage(owners), LAMBDA o : <<"owner", o>>)

\* scan_nodes_after: every owner of the label, where there is no index to read.
ReadLabel ==
    /\ status = "reading" /\ seek = <<>>
    /\ DeliverOwners({o \in DOMAIN query.data : Matching(query, o)})
    /\ UNCHANGED <<query, seek, binding>>

Bounded == seek # <<>> /\ seek[1].preds[1].op = "bounds"

\* A page of a numeric range of the bound generation.
ReadRange ==
    /\ status = "reading" /\ Bounded /\ ~ NoBounds(seek[1].preds[1]) /\ binding # Local
    /\ IF cursor # <<>> /\ cursor[2] # binding
       THEN status' = "changed" /\ UNCHANGED <<rows, cursor>>
       ELSE Deliver(RangePage(Owners(query, seek[1])), LAMBDA o : <<"range", binding, NumberOf(o), o>>)
    /\ UNCHANGED <<query, seek, binding>>

\* A page of any other seek, in the order of the owners.
ReadOwners ==
    /\ status = "reading" /\ seek # <<>>
    /\ Bounded => NoBounds(seek[1].preds[1]) \/ binding = Local
    /\ CASE Bounded /\ NoBounds(seek[1].preds[1]) -> status' = "failed" /\ UNCHANGED <<rows, cursor>>
         [] Bounded /\ cursor # <<>> /\ cursor[1] = "range" -> status' = "changed" /\ UNCHANGED <<rows, cursor>>
         [] OTHER -> DeliverOwners(Owners(query, seek[1]))
    /\ UNCHANGED <<query, seek, binding>>

Ended == status \in {"done", "failed", "changed", "interrupted"} /\ UNCHANGED vars

Next == Plan \/ Cancel \/ Rebind \/ ReadLabel \/ ReadRange \/ ReadOwners \/ Ended

Spec == Init /\ [][Next]_vars

-----------------------------------------------------------------------------
(* What the query gives without any index.                                 *)
ScanGives(truth) == {o \in DOMAIN query.data : Matching(query, o) /\ Where(query, o) = truth}

ScanFails == ScanGives("error") # {}

ScanRows == ScanGives("true")

Uses(op) == seek # <<>> /\ \E i \in DOMAIN seek[1].preds : seek[1].preds[i].op = op

The(op) == seek[1].preds[CHOOSE i \in DOMAIN seek[1].preds : seek[1].preds[i].op = op]

EmptySuffix == Uses("ends") /\ The("ends").x = <<>>
NanBound == Uses("bounds") /\ NoBounds(The("bounds"))
InfiniteRadius == Uses("distance") /\ The("distance").x[2] = Infinity

Once(s) == \A i, j \in DOMAIN s : s[i] = s[j] => i = j

SameRows == Once(rows) /\ {rows[i] : i \in DOMAIN rows} = ScanRows

(* A query that reads an index gives the rows it would give without one,   *)
(* each once, however the pages fall and whatever generation is read; it   *)
(* fails only if the scan fails.  The known exceptions are named.  It may  *)
(* also be interrupted, or end with the internal error (changed) that the  *)
(* generation of a numeric range is not the one its last page was read in, *)
(* as range.rs says of itself; it then promises nothing about its rows.    *)
SameResult ==
    ~ (EmptySuffix \/ NanBound \/ InfiniteRadius) =>
        /\ status = "done" /\ ~ ScanFails => SameRows
        /\ status = "failed" => ScanFails

=============================================================================
