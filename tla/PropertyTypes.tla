--------------------------- MODULE PropertyTypes ---------------------------
(***************************************************************************)
(* Property type expressions of Graph Types and of type constraints: what  *)
(* the front end lets through (cypher/semantic_schema.rs), how an          *)
(* expression becomes a PropertyRule in normal form                        *)
(* (schema/command/property_type.rs), what values a rule accepts           *)
(* (storage/schema_state.rs), and how SHOW prints it (schema/show.rs).     *)
(*                                                                         *)
(* An expression is a sequence of terms:                                   *)
(*   <<"scalar", x, notNull>>, <<"list", x, notNull>> (LIST<x NOT NULL>),  *)
(*   <<"any", notNull>> and <<"dynamic", expression>> (ANY<...>).          *)
(* A type is <<"any">>, <<"scalar", x>>, <<"list", type>> or               *)
(* <<"union", sequence of types>>.  Vector types are scalars here.         *)
(***************************************************************************)
EXTENDS Naturals, Sequences, FiniteSets

CONSTANTS
    Scalars,        \* scalar type names, as numbers in the order of the sort keys
    Written,        \* the expressions that users write
    Other           \* a scalar value of no type in Scalars

Seqs == INSTANCE SequencesExt

VARIABLES
    stage,          \* "written", "parsed", "shown", "parsedAgain" or "refused"
    expression,     \* what the user wrote
    surface,        \* "property" of a Graph Type or "constraint"
    rule,           \* the PropertyRule, once there is one
    text            \* the expression that SHOW prints

vars == <<stage, expression, surface, rule, text>>

Range(s) == {s[i] : i \in DOMAIN s}
Nothing == [type |-> <<"any">>, required |-> FALSE]

-----------------------------------------------------------------------------
(* The front end.                                                          *)

\* term_outer_non_null; a dynamic union has no NOT NULL of its own
OuterNotNull(term) == IF term[1] = "dynamic" THEN FALSE ELSE term[Len(term)]

\* validate_union_nullability
UniformNullability(e) == \A i, j \in DOMAIN e : OuterNotNull(e[i]) = OuterNotNull(e[j])

\* validate_type_expression_structure, validate_property_type_expression
RECURSIVE IsValid(_, _)
IsValid(e, where) ==
    /\ UniformNullability(e)
    /\ \A i \in DOMAIN e :
        /\ where = "constraint" => ~ OuterNotNull(e[i])
        /\ e[i][1] = "any" => where = "property" /\ OuterNotNull(e[i])
        /\ e[i][1] = "dynamic" => IsValid(e[i][2], where)

-----------------------------------------------------------------------------
(* Normal form.                                                            *)

\* property_type_sort_key
SortKey(t) ==
    CASE t[1] = "scalar" -> t[2]
      [] t[1] = "list" -> 100 + t[2][2]
      [] t[1] = "any" -> 1000
      [] OTHER -> 500

(* property_type_subsumes on the members of a flattened union, in which    *)
(* there is no union and lists are lists of scalars.                       *)
Subsumes(container, candidate) == container = candidate \/ container = <<"any">>

\* normalize_union_members: flatten, sort, remove duplicates and members
\* that another one subsumes, and unwrap a single member
NormalizeUnion(members) ==
    LET flattened == UNION {IF m[1] = "union" THEN Range(m[2]) ELSE {m} : m \in Range(members)}
        kept == {m \in flattened : \A n \in flattened \ {m} : ~ Subsumes(n, m)}
        sorted == Seqs!SetToSortSeq(kept, LAMBDA m, n : SortKey(m) < SortKey(n))
    IN  IF Len(sorted) = 1 THEN sorted[1] ELSE <<"union", sorted>>

(* parse_property_rule: a union is required if every member is.            *)
Required(rules) == \A r \in rules : r.required

\* parse_property_rule, parse_property_type_rule, parse_dynamic_union_rule
RECURSIVE ParseRule(_)
ParseRule(e) ==
    LET Rule(term) ==
            CASE term[1] = "dynamic" -> ParseRule(term[2])
              [] term[1] = "scalar" -> [type |-> <<"scalar", term[2]>>, required |-> OuterNotNull(term)]
              [] term[1] = "list" -> [type |-> <<"list", <<"scalar", term[2]>>>>, required |-> OuterNotNull(term)]
              [] term[1] = "any" -> [type |-> <<"any">>, required |-> OuterNotNull(term)]
        rules == [i \in DOMAIN e |-> Rule(e[i])]
    IN  IF Len(e) = 1 THEN rules[1]
        ELSE [type |-> NormalizeUnion([i \in DOMAIN e |-> rules[i].type]),
              required |-> Required(Range(rules))]

\* PropertyType::accepts; a value is <<"scalar", x>> or <<"list", values>>
RECURSIVE Accepts(_, _)
Accepts(t, value) ==
    CASE t[1] = "any" -> TRUE
      [] t[1] = "scalar" -> value = t
      [] t[1] = "list" -> value[1] = "list" /\ \A i \in DOMAIN value[2] : Accepts(t[2], value[2][i])
      [] t[1] = "union" -> \E i \in DOMAIN t[2] : Accepts(t[2][i], value)

(* format_property_rule, format_property_type.                             *)
Format(r) ==
    LET Term(t, notNull) ==
            CASE t[1] = "any" -> <<"any", notNull>>
              [] t[1] = "scalar" -> <<"scalar", t[2], notNull>>
              [] t[1] = "list" -> <<"list", t[2][2], notNull>>
    IN  IF r.type[1] = "union" THEN [i \in DOMAIN r.type[2] |-> Term(r.type[2][i], r.required)]
        ELSE <<Term(r.type, r.required)>>

-----------------------------------------------------------------------------
(* An expression is written, parsed, shown and parsed again.               *)

Init ==
    /\ stage = "written" /\ expression \in Written
    /\ surface \in {"property", "constraint"}
    /\ rule = Nothing /\ text = <<>>

Parse ==
    /\ stage = "written"
    /\ IF IsValid(expression, surface)
       THEN stage' = "parsed" /\ rule' = ParseRule(expression)
       ELSE stage' = "refused" /\ UNCHANGED rule
    /\ UNCHANGED <<expression, surface, text>>

Show ==
    /\ stage = "parsed"
    /\ stage' = "shown" /\ text' = Format(rule)
    /\ UNCHANGED <<expression, surface, rule>>

ParseShown ==
    /\ stage = "shown"
    /\ IF IsValid(text, surface)
       THEN stage' = "parsedAgain" /\ rule' = ParseRule(text)
       ELSE stage' = "refused" /\ UNCHANGED rule
    /\ UNCHANGED <<expression, surface, text>>

Next == Parse \/ Show \/ ParseShown

Spec == Init /\ [][Next]_vars

-----------------------------------------------------------------------------
(* Properties.                                                             *)

Values ==
    LET simple == {<<"scalar", x>> : x \in Scalars \cup {Other}}
    IN  simple \cup {<<"list", s>> : s \in UNION {[1..n -> simple] : n \in 0..2}}

\* What an expression says, term by term.
RECURSIVE Means(_, _)
Means(e, value) ==
    \E i \in DOMAIN e :
        CASE e[i][1] = "any" -> TRUE
          [] e[i][1] = "scalar" -> value = <<"scalar", e[i][2]>>
          [] e[i][1] = "list" -> /\ value[1] = "list"
                                 /\ \A j \in DOMAIN value[2] : value[2][j] = <<"scalar", e[i][2]>>
          [] e[i][1] = "dynamic" -> Means(e[i][2], value)
RECURSIVE AllowsNull(_)
AllowsNull(e) ==
    \E i \in DOMAIN e : IF e[i][1] = "dynamic" THEN AllowsNull(e[i][2]) ELSE ~ OuterNotNull(e[i])

Parsed == stage \in {"parsed", "shown", "parsedAgain"}

(* The rule accepts exactly the values, and the absence of one, that some  *)
(* term of the expression allows: flattening, removing subsumed members    *)
(* and combining NOT NULL lose nothing.                                    *)
RuleMeansTheExpression ==
    Parsed => /\ \A v \in Values : Accepts(rule.type, v) = Means(expression, v)
              /\ rule.required = ~ AllowsNull(expression)

(* Expressions with the same meaning have the same rule, which is what the *)
(* search for conflicting type constraints and the IF NOT EXISTS of a      *)
(* constraint compare.                                                     *)
OneRulePerMeaning ==
    stage = "parsed" =>
        \A e \in Written :
            /\ IsValid(e, surface)
            /\ AllowsNull(e) = AllowsNull(expression)
            /\ \A v \in Values : Means(e, v) = Means(expression, v)
            => ParseRule(e) = rule

=============================================================================
