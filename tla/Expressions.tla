------------------------------ MODULE Expressions ------------------------------
(***************************************************************************)
(* How an expression of a query is evaluated for a row (query/expression/  *)
(* evaluate.rs, operators.rs, lazy.rs, scoped.rs) and how the subqueries   *)
(* inside it are answered first and put in as literals (query/completeness *)
(* /execute/graph_expression.rs, query/expression/transform.rs), together  *)
(* with the part of the compiler that gives chains of operators their      *)
(* meaning (query/expression.rs, query/expression/comparison.rs).          *)
(*                                                                         *)
(* Values are those of CypherValues; nodes and relationships carry the     *)
(* properties they were read with: <<"node", id, properties>>.  An         *)
(* expression is a tuple that starts with its form; parts that may be      *)
(* missing are sequences of at most one expression.  A string and a key of *)
(* a map are the same number.                                              *)
(*                                                                         *)
(* An environment has the graph, the bindings of the row, the aliases of   *)
(* the enclosing comprehensions and the property keys that the access      *)
(* rules deny.                                                             *)
(***************************************************************************)
EXTENDS CypherValues, TLC

Seqs == INSTANCE SequencesExt

Err == <<"error">>

Boolean(b) == <<"boolean", IF b THEN 1 ELSE 0>>
True == Boolean(TRUE)
False == Boolean(FALSE)
IsTruth(v) == v[1] \in {"boolean", "null"}

OfTruth(t) == CASE t = "null" -> Null [] t = "error" -> Err [] OTHER -> Boolean(t = "true")

Failed(values) == \E i \in DOMAIN values : values[i] = Err

\* An error ends what depends on it.
Then(v, Go(_)) == IF v = Err THEN Err ELSE Go(v)

ThenAll(values, Go(_)) == IF Failed(values) THEN Err ELSE Go(values)

-----------------------------------------------------------------------------
(* Graph values and what the access rules leave of them.                   *)

Lookup(map, key) ==
    IF \E i \in DOMAIN map[2] : map[2][i] = key
    THEN map[3][CHOOSE i \in DOMAIN map[2] : map[2][i] = key] ELSE Null

Allowed(map, denied) ==
    LET kept == SelectSeq([i \in DOMAIN map[2] |-> i], LAMBDA i : map[2][i] \notin denied)
    IN <<"map", [i \in DOMAIN kept |-> map[2][kept[i]]], [i \in DOMAIN kept |-> map[3][kept[i]]]>>

FilterElement(v, denied) == <<v[1], v[2], Allowed(v[3], denied)>>

\* clone_filtered_value: ordinary maps keep all their keys.
RECURSIVE Filter(_, _)
Filter(v, denied) ==
    CASE v[1] = "list" -> <<"list", [i \in DOMAIN v[2] |-> Filter(v[2][i], denied)]>>
      [] v[1] = "map" -> <<"map", v[2], [i \in DOMAIN v[3] |-> Filter(v[3][i], denied)]>>
      [] v[1] \in {"node", "rel"} -> FilterElement(v, denied)
      [] v[1] = "path" ->
            <<"path", [i \in DOMAIN v[2] |-> FilterElement(v[2][i], denied)],
                      [i \in DOMAIN v[3] |-> FilterElement(v[3][i], denied)]>>
      [] OTHER -> v

\* A binding of a row is <<"node", id>>, <<"rel", id>>, <<"path", ids, ids>>,
\* <<"scalar", value>> or null.
Node(env, id) == <<"node", id, Allowed(env.graph.nodes[id], env.denied)>>
Relationship(env, id) == <<"rel", id, Allowed(env.graph.rels[id].properties, env.denied)>>

BindingToValue(env, b) ==
    CASE b[1] = "node" -> Node(env, b[2])
      [] b[1] = "rel" -> Relationship(env, b[2])
      [] b[1] = "path" -> <<"path", [i \in DOMAIN b[2] |-> Node(env, b[2][i])],
                                    [i \in DOMAIN b[3] |-> Relationship(env, b[3][i])]>>
      [] b[1] = "scalar" -> Filter(b[2], env.denied)
      [] OTHER -> Null

\* binding_from_value: elements go back to their identities.
ValueToBinding(v) ==
    CASE v[1] \in {"node", "rel"} -> <<v[1], v[2]>>
      [] v[1] = "path" -> <<"path", [i \in DOMAIN v[2] |-> v[2][i][2]],
                                    [i \in DOMAIN v[3] |-> v[3][i][2]]>>
      [] v = Null -> Null
      [] OTHER -> <<"scalar", v>>

RowValue(env, name) == IF name \in DOMAIN env.row THEN env.row[name] ELSE Null

\* Elements are compared by their identity alone.
RECURSIVE Bare(_)
Bare(v) ==
    CASE v[1] = "list" -> <<"list", [i \in DOMAIN v[2] |-> Bare(v[2][i])]>>
      [] v[1] = "map" -> <<"map", v[2], [i \in DOMAIN v[3] |-> Bare(v[3][i])]>>
      [] v[1] \in {"node", "rel"} -> <<v[1], v[2]>>
      [] v[1] = "path" -> ValueToBinding(v)
      [] OTHER -> v

Same(v, w) == EqualsControlled(Bare(v), Bare(w))

-----------------------------------------------------------------------------
(* Operators on values.                                                    *)

Not(v) == CASE v = Null -> Null [] v[1] = "boolean" -> Boolean(v # True) [] OTHER -> Err

Negative(v) ==
    IF v[1] = "integer" /\ -v[2] \in IntMin .. IntMax THEN <<"integer", -v[2]>> ELSE Err

Positive(v) == IF v[1] \in {"integer", "float"} THEN v ELSE Err

EvaluateUnary(op, v) ==
    CASE op = "not" -> Not(v) [] op = "-" -> Negative(v) [] op = "+" -> Positive(v)

BooleanBinary(op, v, w) ==
    CASE ~ IsTruth(v) \/ ~ IsTruth(w) -> Err
      [] op = "and" -> IF False \in {v, w} THEN False ELSE IF Null \in {v, w} THEN Null ELSE True
      [] op = "or" -> IF True \in {v, w} THEN True ELSE IF Null \in {v, w} THEN Null ELSE False
      [] op = "xor" -> IF Null \in {v, w} THEN Null ELSE Boolean(v # w)

EqualityBinary(op, v, w) ==
    Then(OfTruth(Same(v, w)), LAMBDA equal : IF op = "<>" THEN Not(equal) ELSE equal)

OfOrdering(op, c) ==
    CASE c = "null" -> Null
      [] c = "error" -> Err
      [] OTHER -> Boolean(\/ c = "less" /\ op \in {"<", "<="}
                          \/ c = "equal" /\ op \in {"<=", ">="}
                          \/ c = "greater" /\ op \in {">", ">="})

OrderedBinary(op, v, w) == OfOrdering(op, CompareControlled(Bare(v), Bare(w)))

\* The first list element that is equal or cannot be compared decides.
Among(at) ==
    LET ends == {i \in DOMAIN at : at[i] \in {"true", "error"}}
    IN IF ends # {} THEN OfTruth(at[Min(ends)])
       ELSE IF \E i \in DOMAIN at : at[i] = "null" THEN Null ELSE False

InOperator(v, w) ==
    CASE w = Null -> Null
      [] w[1] # "list" -> Err
      [] w[2] = <<>> -> False
      [] v = Null -> Null
      [] OTHER -> Among([i \in DOMAIN w[2] |-> Same(v, w[2][i])])

\* Division truncates towards zero and the remainder has the sign of the dividend.
Quotient(a, b) ==
    LET q == (IF a < 0 THEN -a ELSE a) \div (IF b < 0 THEN -b ELSE b)
    IN IF (a < 0) = (b < 0) THEN q ELSE -q

\* checked_rem overflows where checked_div does.
IntegerBinary(op, a, b) ==
    LET exact == CASE op = "+" -> a + b [] op = "-" -> a - b [] op = "*" -> a * b
                   [] op = "/" -> Quotient(a, b) [] op = "%" -> a - b * Quotient(a, b)
        overflow == \/ op = "%" /\ a = IntMin /\ b = -1
                    \/ exact \notin IntMin .. IntMax
    IN IF (op \in {"/", "%"} /\ b = 0) \/ overflow THEN Err ELSE <<"integer", exact>>

\* Integers and lists; the arithmetic of floats is the machine's.
\* What is added to a list becomes its element, a null too.
NumericBinary(op, v, w) ==
    CASE op = "+" /\ v[1] = "list" /\ w[1] = "list" -> <<"list", v[2] \o w[2]>>
      [] op = "+" /\ v[1] = "list" -> <<"list", Append(v[2], w)>>
      [] op = "+" /\ w[1] = "list" -> <<"list", <<v>> \o w[2]>>
      [] Null \in {v, w} -> Null
      [] v[1] = "integer" /\ w[1] = "integer" -> IntegerBinary(op, v[2], w[2])
      [] OTHER -> Err

EvaluateBinary(op, v, w) ==
    CASE op \in {"and", "or", "xor"} -> BooleanBinary(op, v, w)
      [] op \in {"=", "<>"} -> EqualityBinary(op, v, w)
      [] op \in {"<", "<=", ">", ">="} -> OrderedBinary(op, v, w)
      [] op = "in" -> InOperator(v, w)
      [] OTHER -> NumericBinary(op, v, w)

-----------------------------------------------------------------------------
(* Subscripts, slices and properties.                                      *)

NormalizeIndex(index, length) == IF index < 0 THEN length + index ELSE index

Subscript(v, index, denied) ==
    LET i == NormalizeIndex(index[2], Len(v[2])) IN
    CASE v = Null -> Null
      [] v[1] = "list" /\ index[1] = "integer" ->
            Filter(IF i \in 0 .. Len(v[2]) - 1 THEN v[2][i + 1] ELSE Null, denied)
      [] v[1] = "map" /\ index[1] = "string" -> Filter(Lookup(v, index[2]), denied)
      [] v[1] \in {"node", "rel"} /\ index[1] = "string" -> Filter(Lookup(v[3], index[2]), denied)
      [] index = Null -> Null
      [] OTHER -> Err

Clamp(i, length) == LET n == NormalizeIndex(i, length) IN Max({0, Min({n, length})})

\* A change of SliceBounds that SlicesPartition notices.
SliceBoundsFromZero(starts, ends, length) ==
    LET start == IF starts = <<>> THEN 0 ELSE Max({0, Min({starts[1][2], length})})
        end == IF ends = <<>> THEN length ELSE Clamp(ends[1][2], length)
    IN <<start, Max({start, end})>>

SliceBounds(starts, ends, length) ==
    LET start == IF starts = <<>> THEN 0 ELSE Clamp(starts[1][2], length)
        end == IF ends = <<>> THEN length ELSE Clamp(ends[1][2], length)
    IN <<start, Max({start, end})>>

Slice(v, starts, ends) ==
    LET bounds == SliceBounds(starts, ends, Len(v[2])) IN
    CASE v = Null -> Null
      [] Null \in {starts[i] : i \in DOMAIN starts} \cup {ends[i] : i \in DOMAIN ends} -> Null
      [] \E i \in DOMAIN starts : starts[i][1] # "integer" -> Err
      [] \E i \in DOMAIN ends : ends[i][1] # "integer" -> Err
      [] v[1] # "list" -> Err
      [] OTHER -> <<"list", SubSeq(v[2], bounds[1] + 1, bounds[2])>>

\* value_property_tracked
ValueProperty(v, key, denied) ==
    CASE v[1] \in {"node", "rel"} -> IF key \in denied THEN Null ELSE Lookup(v[3], key)
      [] v[1] = "map" -> Filter(Lookup(v, key), denied)
      [] v = Null -> Null
      [] OTHER -> Err

\* node_property and relationship_property read the one property from the graph.
BindingProperty(env, b, key) ==
    CASE b[1] = "node" -> IF key \in env.denied THEN Null ELSE Lookup(env.graph.nodes[b[2]], key)
      [] b[1] = "rel" ->
            IF key \in env.denied THEN Null ELSE Lookup(env.graph.rels[b[2]].properties, key)
      [] b[1] = "scalar" -> ValueProperty(b[2], key, env.denied)
      [] b = Null -> Null
      [] OTHER -> Err

ElementId(kind, id) == <<"string", IF kind = "node" THEN 100 + id ELSE 200 + id>>

\* elementId(), startNode() and endNode() of a value.
Function(env, name, v) ==
    CASE v = Null -> Null
      [] name = "elementId" -> IF v[1] \in {"node", "rel"} THEN ElementId(v[1], v[2]) ELSE Err
      [] OTHER -> IF v[1] # "rel" THEN Err ELSE Node(env, env.graph.rels[v[2]][name])

-----------------------------------------------------------------------------
(* Forms that do not evaluate all of their parts.  Ev evaluates an         *)
(* expression in an environment: the scalar evaluator and the graph        *)
(* evaluator have one each.                                                *)

\* evaluate_boolean; the right side is not looked at when the left decides.
ShortCircuit(short, v, w) ==
    CASE ~ IsTruth(v) -> Err
      [] v = short -> v
      [] OTHER -> CASE ~ IsTruth(w) -> Err
                    [] w = short \/ v # Null -> w
                    [] OTHER -> Null

Boolean2(op, l, r, env, Ev(_, _)) == ShortCircuit(Boolean(op = "or"), Ev(l, env), Ev(r, env))

\* case_condition
Takes(operand, condition) ==
    CASE Err \in {operand, condition} -> Err
      [] operand # <<>> -> Then(OfTruth(Same(operand, condition)), LAMBDA same : Boolean(same = True))
      [] condition = Null -> False
      [] condition[1] = "boolean" -> condition
      [] OTHER -> Err

\* The first alternative that is taken or fails to be tested, or the fallback.
Taken(takes, Alternative(_), fallback) ==
    LET ends == {i \in DOMAIN takes : takes[i] # False}
    IN IF ends = {} THEN fallback ELSE Then(takes[Min(ends)], LAMBDA yes : Alternative(Min(ends)))

Case(operands, alternatives, fallbacks, env, Ev(_, _)) ==
    Then(IF operands = <<>> THEN <<>> ELSE Ev(operands[1], env),
         LAMBDA operand :
             Taken([i \in DOMAIN alternatives |-> Takes(operand, Ev(alternatives[i][1], env))],
                   LAMBDA i : Ev(alternatives[i][2], env),
                   IF fallbacks = <<>> THEN Null ELSE Ev(fallbacks[1], env)))

Bind(env, name, v) == [env EXCEPT !.aliases = (name :> v) @@ env.aliases]

\* evaluate_list_input; a list, null or an error.
ListInput(e, env, Ev(_, _)) ==
    Then(Ev(e, env), LAMBDA v : IF v[1] \in {"list", "null"} THEN v ELSE Err)

\* A list is gone through, a null or an error is the result.
OverList(list, Go(_)) == IF list[1] = "list" THEN Go(list[2]) ELSE list

Kept(truth, shown) ==
    CASE ~ IsTruth(truth) -> <<Err>> [] truth = True -> <<shown>> [] OTHER -> <<>>

\* <<"comprehension", name, list, predicates, projections>>
ListComprehension(e, env, Ev(_, _)) ==
    LET Keep(v) == IF e[4] = <<>> THEN True ELSE Ev(e[4][1], Bind(env, e[2], v))
        Shown(v) == IF e[5] = <<>> THEN v ELSE Ev(e[5][1], Bind(env, e[2], v))
    IN OverList(ListInput(e[3], env, Ev),
                LAMBDA list : ThenAll(Seqs!FlattenSeq([i \in DOMAIN list |-> Kept(Keep(list[i]), Shown(list[i]))]),
                                      LAMBDA output : <<"list", output>>))

\* list_predicate_result, of the truths of all elements.
Quantified(kind, tests) ==
    LET Count(v) == Cardinality({i \in DOMAIN tests : tests[i] = v})
        Undecided(v) == IF Count(Null) > 0 THEN Null ELSE v
    IN CASE \E i \in DOMAIN tests : ~ IsTruth(tests[i]) -> Err
         [] kind = "all" -> IF Count(False) > 0 THEN False ELSE Undecided(True)
         [] kind = "any" -> IF Count(True) > 0 THEN True ELSE Undecided(False)
         [] kind = "none" -> IF Count(True) > 0 THEN False ELSE Undecided(True)
         [] kind = "single" -> IF Count(True) > 1 THEN False ELSE Undecided(Boolean(Count(True) = 1))

\* <<"quantifier", kind, name, list, predicates>>: every element is tested.
ListPredicate(e, env, Ev(_, _)) ==
    LET Test(v) == IF e[5] = <<>> THEN v ELSE Ev(e[5][1], Bind(env, e[3], v))
    IN OverList(ListInput(e[4], env, Ev),
                LAMBDA list : Quantified(e[2], [i \in DOMAIN list |-> Test(list[i])]))

\* The accumulators of a fold, the initial one first.
Scan(op(_, _), initial, values) ==
    Seqs!FoldLeftDomain(LAMBDA accs, i : Append(accs, op(accs[i], values[i])), <<initial>>, values)

\* The first false or error decides.
AllOf(tests) ==
    LET ends == {i \in DOMAIN tests : tests[i] = False \/ ~ IsTruth(tests[i])}
    IN CASE ends # {} -> IF tests[Min(ends)] = False THEN False ELSE Err
         [] OTHER -> IF \E i \in DOMAIN tests : tests[i] = Null THEN Null ELSE True

\* <<"reduce", accumulator, initial, name, list, reduction, predicates>>; with a
\* predicate this is allReduce, which ends at the first false.
Reduction(e, env, Ev(_, _)) ==
    LET At(acc, v) == Bind(Bind(env, e[2], acc), e[4], v)
        Accumulate(acc, v) == Then(acc, LAMBDA a : Ev(e[6], At(a, v)))
        Test(acc, v) == Then(acc, LAMBDA a : Ev(e[7][1], At(a, v)))
        Through(accs, values) ==
            IF e[7] = <<>> THEN accs[Len(accs)]
            ELSE AllOf([i \in DOMAIN values |-> Test(accs[i + 1], values[i])])
    IN Then(Ev(e[3], env),
            LAMBDA initial :
                OverList(ListInput(e[5], env, Ev),
                         LAMBDA values : Through(Scan(Accumulate, initial, values), values)))

Scoped(e, env, Ev(_, _)) ==
    CASE e[1] = "comprehension" -> ListComprehension(e, env, Ev)
      [] e[1] = "quantifier" -> ListPredicate(e, env, Ev)
      [] e[1] = "reduce" -> Reduction(e, env, Ev)

IsLazy(e) == e[1] = "case" \/ (e[1] = "binary" /\ e[2] \in {"and", "or"})
IsScoped(e) == e[1] \in {"comprehension", "quantifier", "reduce"}

Lazy(e, env, Ev(_, _)) ==
    IF e[1] = "case" THEN Case(e[2], e[3], e[4], env, Ev) ELSE Boolean2(e[2], e[3], e[4], env, Ev)

-----------------------------------------------------------------------------
(* The scalar evaluator.                                                   *)

Variable(env, name) ==
    IF name \in DOMAIN env.aliases THEN Filter(env.aliases[name], env.denied)
    ELSE BindingToValue(env, RowValue(env, name))

\* The keys of later entries replace those of earlier ones.
Overwrite(map, key, v) ==
    LET at == CHOOSE n \in 0 .. Len(map[2]) :
                 /\ \A i \in 1 .. n : map[2][i] < key
                 /\ \A i \in n + 1 .. Len(map[2]) : map[2][i] >= key
        rest == IF at < Len(map[2]) /\ map[2][at + 1] = key THEN at + 2 ELSE at + 1
        Into(s, x) == SubSeq(s, 1, at) \o <<x>> \o SubSeq(s, rest, Len(s))
    IN <<"map", Into(map[2], key), Into(map[3], v)>>

\* <<"projection", name, include all, keys, expressions>>
Projection(base, all, keys, values) ==
    LET kept == CASE ~ all -> <<"map", <<>>, <<>>>>
                  [] base[1] = "map" -> base
                  [] base[1] \in {"node", "rel"} -> base[3]
                  [] OTHER -> Err
    IN CASE base \in {Null, Err} -> base
         [] kept = Err \/ Failed(values) -> Err
         [] OTHER -> Seqs!FoldLeftDomain(LAMBDA map, i : Overwrite(map, keys[i], values[i]), kept, keys)

RECURSIVE Evaluate(_, _)

Values(es, env) == [i \in DOMAIN es |-> Evaluate(es[i], env)]

PropertyOf(base, key, env) ==
    IF base[1] = "variable" /\ base[2] \notin DOMAIN env.aliases
    THEN BindingProperty(env, RowValue(env, base[2]), key)
    ELSE Then(Evaluate(base, env), LAMBDA v : ValueProperty(v, key, env.denied))

\* evaluate_bound_metadata answers for a variable of the row, not for an alias.
FunctionOf(name, e, env) ==
    LET b == RowValue(env, e[2])
    IN IF e[1] = "variable" /\ e[2] \notin DOMAIN env.aliases /\ name = "elementId"
          /\ b[1] \in {"node", "rel"}
       THEN ElementId(b[1], b[2])
       ELSE Then(Evaluate(e, env), LAMBDA v : Function(env, name, v))

SubscriptOf(e, env) ==
    LET Part(v, starts, ends) ==
            IF e[5] THEN Slice(v, starts, ends) ELSE Subscript(v, starts[1], env.denied)
    IN Then(Evaluate(e[2], env), LAMBDA v :
           ThenAll(Values(e[3], env), LAMBDA starts :
               ThenAll(Values(e[4], env), LAMBDA ends : Part(v, starts, ends))))

LabelOf(v, label, negated, env) ==
    CASE v = Null -> Null
      [] v[1] \notin {"node", "rel"} -> Err
      [] OTHER -> Boolean((IF v[1] = "node" THEN label \in env.graph.labels[v[2]]
                                            ELSE label = env.graph.rels[v[2]].type) # negated)

\* A subquery that was not answered before is an internal error.
Evaluate(e, env) ==
    CASE e[1] = "literal" -> Filter(e[2], env.denied)
      [] e[1] = "variable" -> Variable(env, e[2])
      [] e[1] = "list" -> ThenAll(Values(e[2], env), LAMBDA vs : <<"list", vs>>)
      [] e[1] = "map" -> ThenAll(Values(e[3], env), LAMBDA vs : <<"map", e[2], vs>>)
      [] e[1] = "property" -> PropertyOf(e[2], e[3], env)
      [] e[1] = "function" -> FunctionOf(e[2], e[3], env)
      [] e[1] = "projection" ->
            Projection(Variable(env, e[2]), e[3], e[4], Values(e[5], env))
      [] e[1] = "subscript" -> SubscriptOf(e, env)
      [] e[1] = "isnull" -> Then(Evaluate(e[2], env), LAMBDA v : Boolean((v = Null) # e[3]))
      [] e[1] = "label" -> LabelOf(Evaluate(e[2], env), e[3], e[4], env)
      [] e[1] = "unary" -> Then(Evaluate(e[3], env), LAMBDA v : EvaluateUnary(e[2], v))
      [] IsLazy(e) -> Lazy(e, env, Evaluate)
      [] IsScoped(e) -> Scoped(e, env, Evaluate)
      [] e[1] = "binary" ->
            ThenAll(Values(<<e[3], e[4]>>, env), LAMBDA vs : EvaluateBinary(e[2], vs[1], vs[2]))
      [] OTHER -> Err

-----------------------------------------------------------------------------
(* The graph evaluator: what asks the graph is answered first and replaced *)
(* by a literal; the rest is then a scalar expression.                     *)

\* The outgoing neighbours of a bound node: the rows of the subquery.
\* <<"subquery", kind, name>>; a variable bound to something else is an error.
Answer(kind, b, env) ==
    LET rows == {r \in DOMAIN env.graph.rels : env.graph.rels[r].startNode = b[2]}
        ordered == CHOOSE s \in [1 .. Cardinality(rows) -> rows] :
                      \A i, j \in DOMAIN s : i < j => s[i] < s[j]
    IN CASE b[1] \notin {"node", "null"} -> Err
         [] kind = "exists" -> Boolean(b # Null /\ rows # {})
         [] kind = "count" -> <<"integer", IF b = Null THEN 0 ELSE Cardinality(rows)>>
         [] kind = "collect" ->
               <<"list", IF b = Null THEN <<>>
                         ELSE [i \in DOMAIN ordered |-> Node(env, env.graph.rels[ordered[i]].endNode)]>>

\* scoped_binding_row: the aliases become bindings of the row.
ScopedRow(env) ==
    [env EXCEPT !.row = [x \in DOMAIN env.aliases |-> ValueToBinding(env.aliases[x])] @@ env.row]

\* The expressions a form is made of.
SubexpressionsOf(e) ==
    CASE e[1] \in {"literal", "variable", "subquery"} -> {}
      [] e[1] = "list" -> Range(e[2])
      [] e[1] = "map" -> Range(e[3])
      [] e[1] \in {"property", "isnull", "label"} -> {e[2]}
      [] e[1] \in {"function", "unary"} -> {e[3]}
      [] e[1] = "binary" -> {e[3], e[4]}
      [] e[1] = "projection" -> Range(e[5])
      [] e[1] = "subscript" -> {e[2]} \cup Range(e[3]) \cup Range(e[4])
      [] e[1] = "case" -> Range(e[2]) \cup Range(e[4])
                            \cup UNION {{e[3][i][1], e[3][i][2]} : i \in DOMAIN e[3]}
      [] e[1] = "comprehension" -> {e[3]} \cup Range(e[4]) \cup Range(e[5])
      [] e[1] = "quantifier" -> {e[4]} \cup Range(e[5])
      [] e[1] = "reduce" -> {e[3], e[5], e[6]} \cup Range(e[7])

RECURSIVE AsksTheGraph(_)
AsksTheGraph(e) == e[1] = "subquery" \/ \E part \in SubexpressionsOf(e) : AsksTheGraph(part)

RECURSIVE Materialize(_, _)

\* evaluate_with_aliases
GraphEvaluate(e, env) == Then(Materialize(e, env), LAMBDA scalar : Evaluate(scalar, env))

\* In a list that binds a variable the row gets the variable, too.
InScope(e, env) == GraphEvaluate(e, ScopedRow(env))

MaterializeAll(es, env) == [i \in DOMAIN es |-> Materialize(es[i], env)]

AsLiteral(result) == Then(result, LAMBDA v : <<"literal", v>>)

\* materialize_subqueries and transform_expression: an expression without
\* subqueries, or the error of answering one.
Materialize(e, env) ==
    CASE IsLazy(e) /\ AsksTheGraph(e) -> AsLiteral(Lazy(e, env, GraphEvaluate))
      [] IsScoped(e) /\ AsksTheGraph(e) -> AsLiteral(Scoped(e, env, InScope))
      [] e[1] = "subquery" -> AsLiteral(Answer(e[2], RowValue(ScopedRow(env), e[3]), env))
      [] ~ AsksTheGraph(e) -> e
      [] e[1] \in {"property", "isnull", "label"} ->
            Then(Materialize(e[2], env), LAMBDA x : [e EXCEPT ![2] = x])
      [] e[1] \in {"function", "unary"} ->
            Then(Materialize(e[3], env), LAMBDA x : [e EXCEPT ![3] = x])
      [] e[1] = "binary" ->
            ThenAll(MaterializeAll(<<e[3], e[4]>>, env), LAMBDA xs : <<"binary", e[2], xs[1], xs[2]>>)
      [] e[1] = "list" -> ThenAll(MaterializeAll(e[2], env), LAMBDA xs : <<"list", xs>>)
      [] e[1] = "map" -> ThenAll(MaterializeAll(e[3], env), LAMBDA xs : <<"map", e[2], xs>>)
      [] e[1] = "projection" -> ThenAll(MaterializeAll(e[5], env), LAMBDA xs : [e EXCEPT ![5] = xs])
      [] e[1] = "subscript" ->
            Then(Materialize(e[2], env), LAMBDA x :
                ThenAll(MaterializeAll(e[3], env), LAMBDA xs :
                    ThenAll(MaterializeAll(e[4], env), LAMBDA ys : <<"subscript", x, xs, ys, e[5]>>)))

-----------------------------------------------------------------------------
(* The compiler: chains of operators become trees.                         *)

\* compile_fold and compile_operator_fold group from the left.
FoldLeft(first, steps) ==
    LET trees[i \in 0 .. Len(steps)] ==
            IF i = 0 THEN first ELSE <<"binary", steps[i][1], trees[i - 1], steps[i][2]>>
    IN trees[Len(steps)]

IsChained(op) == op \in {"=", "<>", "<", "<=", ">", ">="}

\* compile_comparison.  A suffix is <<"is null", negated>> or <<operator, operand>>.
\* The state of the walk: the current operand, the comparison waiting for its
\* right side and the conjunction so far, the last two as sequences.
CompileComparison(first, suffixes) ==
    LET Conjoin(chain, e) == IF chain = <<>> THEN <<e>> ELSE <<<<"binary", "and", chain[1], e>>>>
        Close(w) == IF w.pending = <<>> THEN w.chain
                    ELSE Conjoin(w.chain, <<"binary", w.pending[1][2], w.pending[1][1], w.current>>)
        After(w, s) ==
            CASE s[1] = "is null" -> [w EXCEPT !.current = <<"isnull", w.current, s[2]>>]
              [] ~ IsChained(s[1]) -> [w EXCEPT !.current = <<"binary", s[1], w.current, s[2]>>]
              [] OTHER -> [current |-> s[2], pending |-> <<<<w.current, s[1]>>>>, chain |-> Close(w)]
        walk[i \in 0 .. Len(suffixes)] ==
            IF i = 0 THEN [current |-> first, pending |-> <<>>, chain |-> <<>>]
            ELSE After(walk[i - 1], suffixes[i])
        end == walk[Len(suffixes)]
    IN IF end.pending = <<>> /\ end.chain = <<>> THEN end.current ELSE Close(end)[1]

\* compile_unary: signs, outermost first, before a magnitude without a sign.
\* i64::MIN has no positive counterpart, so an odd number of minus signs before
\* its magnitude is one literal; any other integer has to fit by itself.
CompileSigned(signs, magnitude) ==
    LET minus == Cardinality({i \in DOMAIN signs : signs[i] = "-"})
        trees[i \in 0 .. Len(signs)] ==
            IF i = 0 THEN <<"literal", <<"integer", magnitude>>>>
            ELSE <<"unary", signs[Len(signs) + 1 - i], trees[i - 1]>>
    IN CASE minus % 2 = 1 /\ magnitude = IntMax + 1 -> <<"literal", <<"integer", IntMin>>>>
         [] magnitude > IntMax -> Err
         [] OTHER -> trees[Len(signs)]

-----------------------------------------------------------------------------
(* Expressions that grow around a leaf, lists of truths, chains of         *)
(* comparisons and rows of signs, each evaluated in a small graph.         *)

CONSTANTS
    MaxDepth,   \* how many forms are put around a leaf
    MaxLength   \* how long lists of truths, chains and rows of signs become

Integer(n) == <<"integer", n>>
Public == 1
Secret == 2

Properties(n, secret) == <<"map", <<Public, Secret>>, <<Integer(n), Integer(secret)>>>>

\* Node 1 points at node 2, and only nodes that point somewhere have the label 1.
Graph(secret) ==
    [nodes |-> <<Properties(1, secret), Properties(0, secret)>>,
     labels |-> <<{1}, {}>>,
     rels |-> <<[startNode |-> 1, endNode |-> 2, type |-> 9,
                 properties |-> Properties(1, secret)]>>]

BaseEnv(secret) == [graph |-> Graph(secret), denied |-> {Secret}, row |-> <<>>, aliases |-> <<>>]

\* n, m: nodes or null; r: a relationship; p: a path; xs: a list of nodes made earlier.
Env(secret, node) ==
    LET base == BaseEnv(secret) IN
    [base EXCEPT
        !.row = [n |-> <<"node", node>>, m |-> Null, r |-> <<"rel", 1>>,
                 p |-> <<"path", <<1, 2>>, <<1>>>>,
                 xs |-> <<"scalar", <<"list", <<Node(base, 1), Node(base, 2), Null>>>>>>]]

Literal(v) == <<"literal", v>>
Var(name) == <<"variable", name>>
Broken == <<"binary", "/", Literal(Integer(1)), Literal(Integer(0))>>
Exists(name) == <<"subquery", "exists", name>>

SmallLeaves == {Literal(Null), Var("n")}

Leaves ==
    SmallLeaves
        \cup {Literal(False), Literal(Integer(1)), Var("m"), Var("r"), Var("p"), Var("xs"),
              Broken, Exists("n"), <<"subquery", "collect", "n">>}

Around(e) ==
    {<<"unary", "not", e>>, <<"unary", "-", e>>, <<"isnull", e, FALSE>>, <<"label", e, 1, FALSE>>,
     <<"list", <<e>>>>, <<"map", <<Secret>>, <<e>>>>, <<"property", e, Public>>,
     <<"property", e, Secret>>, <<"function", "elementId", e>>, <<"function", "startNode", e>>,
     <<"subscript", e, <<Literal(Integer(0))>>, <<>>, FALSE>>,
     <<"subscript", e, <<Literal(<<"string", Secret>>)>>, <<>>, FALSE>>,
     <<"subscript", e, <<>>, <<Literal(Integer(-1))>>, TRUE>>,
     <<"quantifier", "any", "n", Var("xs"), <<e>>>>,
     <<"quantifier", "all", "n", e, <<Exists("n")>>>>,
     <<"comprehension", "n", e, <<>>, <<<<"property", Var("n"), Secret>>>>>>,
     <<"comprehension", "n", Var("xs"), <<e>>, <<>>>>,
     <<"reduce", "m", e, "n", Var("xs"), <<"binary", "or", Var("m"), Exists("n")>>, <<>>>>,
     <<"reduce", "m", Literal(Integer(0)), "n", Var("xs"), Var("n"), <<e>>>>,
     <<"projection", "n", TRUE, <<Secret>>, <<e>>>>, <<"projection", "m", FALSE, <<Public>>, <<e>>>>}

AroundBoth(e, l) ==
    {<<"binary", op, e, l>> : op \in {"<", "in", "and"}}
        \cup {<<"binary", op, l, e>> : op \in {"or", "+"}}
        \cup {<<"case", <<>>, <<<<e, l>>>>, <<Broken>>>>, <<"case", <<>>, <<<<l, Literal(Null)>>>>, <<e>>>>,
              <<"case", <<l>>, <<<<e, Literal(True)>>>>, <<>>>>, <<"list", <<l, e>>>>,
              <<"subscript", <<"list", <<e, l>>>>, <<l>>, <<>>, FALSE>>}

VARIABLES
    form,   \* what is built: "expression", "truths", "chain" or "signs"
    item,   \* what has been built of it
    depth   \* how many steps it took

vars == <<form, item, depth>>

Init ==
    /\ depth = 0
    /\ \/ form = "expression" /\ item \in Leaves
       \/ form \in {"truths", "chain", "signs"} /\ item = <<>>

Wrap ==
    /\ form = "expression" /\ depth < MaxDepth
    /\ item' \in Around(item) \cup UNION {AroundBoth(item, l) : l \in SmallLeaves}

AddTruth ==
    /\ form = "truths" /\ depth < MaxLength
    /\ \E v \in {True, False, Null} : item' = Append(item, v)

AddSuffix ==
    /\ form = "chain" /\ depth < MaxLength
    /\ item' \in {Append(item, s) :
                     s \in {<<op, Literal(v)>> : op \in {"<", "="}, v \in {Integer(0), Integer(1), Null}}
                             \cup {<<"in", Literal(<<"list", <<Integer(1)>>>>)>>, <<"is null", TRUE>>}}

AddSign ==
    /\ form = "signs" /\ depth < MaxLength
    /\ \E sign \in {"+", "-"} : item' = Append(item, sign)

Next == (Wrap \/ AddTruth \/ AddSuffix \/ AddSign) /\ depth' = depth + 1 /\ UNCHANGED form

Spec == Init /\ [][Next]_vars

IsExpression == form = "expression"

\* The expressions have one value in all of the environments.
OneValue(es, envs) == Cardinality({GraphEvaluate(e, env) : e \in es, env \in envs}) = 1

-----------------------------------------------------------------------------
(* What a denied property holds shows in no result: graphs that differ     *)
(* only in denied values give every expression the same value, however a   *)
(* node was reached (access.rs, evaluate_property, clone_filtered_value).  *)
DeniedIsInvisible == IsExpression => OneValue({item}, {Env(1, 1), Env(0, 1)})

(* In a graph where the nodes with a label are those that point somewhere, *)
(* EXISTS is an ordinary predicate, and an error for a relationship.       *)
(* Answering subqueries first, through rows made of aliases and around     *)
(* lazy forms, gives what evaluating that predicate in place gives; only   *)
(* the entries of a projection are answered although the projection of     *)
(* null does not need them (materialize_subqueries, scoped_binding_row).   *)
RECURSIVE Plain(_)
Plain(e) ==
    CASE e[1] = "subquery" ->
            <<"case", <<>>, <<<<<<"isnull", Var(e[3]), FALSE>>, Literal(False)>>,
                              <<<<"label", Var(e[3]), 9, FALSE>>, Broken>>>>,
              <<<<"label", Var(e[3]), 1, FALSE>>>>>>
      [] e[1] \in {"literal", "variable"} -> e
      [] e[1] = "list" -> <<"list", [i \in DOMAIN e[2] |-> Plain(e[2][i])]>>
      [] e[1] \in {"map", "case"} ->
            IF e[1] = "map" THEN <<"map", e[2], [i \in DOMAIN e[3] |-> Plain(e[3][i])]>>
            ELSE <<"case", [i \in DOMAIN e[2] |-> Plain(e[2][i])],
                   [i \in DOMAIN e[3] |-> <<Plain(e[3][i][1]), Plain(e[3][i][2])>>],
                   [i \in DOMAIN e[4] |-> Plain(e[4][i])]>>
      [] e[1] \in {"property", "isnull", "label"} -> [e EXCEPT ![2] = Plain(e[2])]
      [] e[1] \in {"function", "unary"} -> [e EXCEPT ![3] = Plain(e[3])]
      [] e[1] = "binary" -> <<"binary", e[2], Plain(e[3]), Plain(e[4])>>
      [] e[1] = "projection" -> [e EXCEPT ![5] = [i \in DOMAIN e[5] |-> Plain(e[5][i])]]
      [] e[1] = "subscript" ->
            <<"subscript", Plain(e[2]), [i \in DOMAIN e[3] |-> Plain(e[3][i])],
              [i \in DOMAIN e[4] |-> Plain(e[4][i])], e[5]>>
      [] e[1] = "comprehension" ->
            <<"comprehension", e[2], Plain(e[3]), [i \in DOMAIN e[4] |-> Plain(e[4][i])],
              [i \in DOMAIN e[5] |-> Plain(e[5][i])]>>
      [] e[1] = "quantifier" ->
            <<"quantifier", e[2], e[3], Plain(e[4]), [i \in DOMAIN e[5] |-> Plain(e[5][i])]>>
      [] e[1] = "reduce" ->
            <<"reduce", e[2], Plain(e[3]), e[4], Plain(e[5]), Plain(e[6]),
              [i \in DOMAIN e[7] |-> Plain(e[7][i])]>>

RECURSIVE Collects(_)
Collects(e) ==
    (e[1] = "subquery" /\ e[2] = "collect") \/ \E part \in SubexpressionsOf(e) : Collects(part)

RECURSIVE Projects(_)
Projects(e) == e[1] = "projection" \/ \E part \in SubexpressionsOf(e) : Projects(part)

AnsweredFirstAgrees ==
    IsExpression /\ ~ Collects(item) =>
        GraphEvaluate(item, Env(1, 1)) \in {Evaluate(Plain(item), Env(1, 1))}
                                              \cup (IF Projects(item) THEN {Err} ELSE {})

(* An alias hides the row's variable of its name from every form, from     *)
(* those that read the binding without evaluating it and from subqueries   *)
(* (evaluate_bound_metadata, evaluate_property, scoped_binding_row).       *)
AliasesShadow ==
    IsExpression => OneValue({item}, {Bind(Env(1, n), "n", Node(Env(1, 1), 2)) : n \in {1, 2}})

(* CASE x WHEN a THEN b ELSE c END is CASE WHEN x = a THEN b ELSE c END:   *)
(* a null selects nothing, not even WHEN null.                             *)
CaseTakesTheFirst ==
    IsExpression =>
        \A l \in SmallLeaves :
            OneValue({<<"case", <<l>>, <<<<item, Literal(True)>>>>, <<Literal(False)>>>>,
                      <<"case", <<>>, <<<<<<"binary", "=", l, item>>, Literal(True)>>>>, <<Literal(False)>>>>},
                     {Env(1, 1)})

(* allReduce is all() over the values reduce() goes through, unless a      *)
(* false one ends it before an error.                                      *)
AllReduceIsAll ==
    IsExpression =>
        LET xs == <<Integer(1), Integer(0), Null>>
            Prefix(k) == Literal(<<"list", SubSeq(xs, 1, k)>>)
            sum == <<"binary", "+", Var("a"), Var("x")>>
            Reached(k) == <<"reduce", "a", item, "x", Prefix(k), sum, <<>>>>
            below == <<"binary", "<", Var("a"), Literal(Integer(2))>>
            through == <<"list", [k \in DOMAIN xs |-> Reached(k)]>>
        IN \A all \in {GraphEvaluate(<<"quantifier", "all", "a", through, <<below>>>>, Env(1, 1))} :
              GraphEvaluate(<<"reduce", "a", item, "x", Prefix(3), sum, <<below>>>>, Env(1, 1))
                 \in {all} \cup (IF all = Err THEN {False} ELSE {})

-----------------------------------------------------------------------------
(* A quantifier is unknown exactly when replacing the unknown truths can   *)
(* still make it come out either way (list_predicate_result).              *)
QuantifiersAreExact ==
    form = "truths" =>
        LET Completions == {f \in [DOMAIN item -> {True, False}] :
                               \A i \in DOMAIN item : item[i] # Null => f[i] = item[i]}
            Holds(kind, f) ==
                LET trues == Cardinality({i \in DOMAIN f : f[i] = True}) IN
                CASE kind = "all" -> trues = Len(item) [] kind = "any" -> trues > 0
                  [] kind = "none" -> trues = 0 [] kind = "single" -> trues = 1
        IN \A kind \in {"all", "any", "none", "single"} :
              LET outcomes == {Boolean(Holds(kind, f)) : f \in Completions}
              IN Evaluate(<<"quantifier", kind, "x", Literal(<<"list", item>>), <<>>>>, Env(1, 1))
                    = IF Cardinality(outcomes) = 2 THEN Null ELSE CHOOSE v \in outcomes : TRUE

(* A list is cut by L[..k] and L[k..] for every k, also for one beyond     *)
(* either end or counted from the end, and L[k] is the first element of    *)
(* L[k..] when it exists (slice_bounds, normalize_index).                  *)
SlicesPartition ==
    form = "truths" =>
        LET list == Literal(<<"list", item>>)
            Parts(at) == <<"list", <<<<"subscript", list, <<>>, at, TRUE>>, <<"subscript", list, at, <<>>, TRUE>>,
                                     <<"subscript", list, at, <<>>, FALSE>>>>>>
        IN \A k \in IntMin .. IntMax :
              \A parts \in {Evaluate(Parts(<<Literal(Integer(k))>>), Env(1, 1))[2]} :
                 /\ parts[1][2] \o parts[2][2] = item
                 /\ k \in -Len(item) .. Len(item) - 1 => parts[3] = parts[2][2][1]
                 /\ k \notin -Len(item) .. Len(item) - 1 => parts[3] = Null

\* What a conjunction of truths comes to when it is evaluated in order.
Decided(truths) ==
    LET ends == {i \in DOMAIN truths : truths[i] \in {False, Err}}
    IN IF ends # {} THEN truths[Min(ends)]
       ELSE IF \E i \in DOMAIN truths : truths[i] = Null THEN Null ELSE True

(* a < b = c means a < b and b = c, where IN and IS NULL bind tighter, and *)
(* the first false or failing comparison decides (compile_comparison).     *)
ChainIsPairs ==
    form = "chain" =>
        LET zero == Literal(Integer(0))
            cuts == {i \in DOMAIN item : item[i][1] \notin {"in", "is null"}}
            Tight(e, s) == IF s[1] = "is null" THEN <<"isnull", e, s[2]>> ELSE <<"binary", s[1], e, s[2]>>
            operands[i \in 0 .. Len(item)] ==
                IF i = 0 THEN zero
                ELSE IF i \in cuts THEN item[i][2] ELSE Tight(operands[i - 1], item[i])
            Last(i) == Max({j \in i .. Len(item) : \A k \in i + 1 .. j : k \notin cuts})
            pairs == [i \in cuts |-> <<"binary", item[i][1], operands[i - 1], operands[Last(i)]>>]
        IN Evaluate(CompileComparison(zero, item), Env(1, 1))
              = IF cuts = {} THEN Evaluate(operands[Len(item)], Env(1, 1))
                ELSE Decided([i \in cuts |-> Evaluate(pairs[i], Env(1, 1))])

(* Signs before an integer give the number they denote when 64 bits hold   *)
(* it and an error when they do not, at both ends of the range             *)
(* (compile_unary, is_i64_min_unary_expression, checked_neg).              *)
SignsAreExact ==
    form = "signs" =>
        \A magnitude \in 0 .. IntMax + 1 :
            LET minus == Cardinality({i \in DOMAIN item : item[i] = "-"})
                n == IF minus % 2 = 0 THEN magnitude ELSE -magnitude
                e == CompileSigned(item, magnitude)
            IN (IF e = Err THEN Err ELSE Evaluate(e, Env(1, 1)))
                  = IF n \in IntMin .. IntMax THEN Integer(n) ELSE Err

=============================================================================
