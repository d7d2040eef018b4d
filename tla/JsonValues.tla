----------------------------- MODULE JsonValues -----------------------------
(***************************************************************************)
(* Values as tagged JSON (cypher/json.rs): the public results, parameters, *)
(* merge resolutions and spilled rows; and the rows of bindings a spill    *)
(* writes (query/spill/codec.rs).                                          *)
(*                                                                         *)
(* A value is a tuple that starts with its family; maps and properties are *)
(* functions of names.  JSON is a tuple that starts with its kind; a text  *)
(* is <<"j-string", kind, content>>, so that the text of a number is not   *)
(* the number.  Floats are counted in halves.                              *)
(***************************************************************************)
EXTENDS Integers, Sequences, FiniteSets, SequencesExt

CONSTANT JsSafe   \* integers beyond -JsSafe .. JsSafe are no JSON numbers

Error == <<"error">>

Str(s) == <<"j-string", "text", s>>
Digits(n) == <<"j-string", "digits", n>>
Number(kind, n) == <<"j-number", kind, n>>
Array(s) == <<"j-array", s>>
Object(f) == <<"j-object", f>>

\* A function of names, written as pairs.
Pairs(p) == [k \in {p[i][1] : i \in DOMAIN p} |-> (CHOOSE i \in DOMAIN p : p[i][1] = k)]
Fields(p) == Object([k \in DOMAIN Pairs(p) |-> p[Pairs(p)[k]][2]])

Tagged(tag, content) == Fields(<<<<"$type", Str(tag)>>, <<"value", content>>>>)

-----------------------------------------------------------------------------
(* Encoding, with the property names that may be shown.                    *)

NonFinite == [nan |-> "NaN", inf |-> "Infinity", neginf |-> "-Infinity"]

RECURSIVE Encode(_, _)

\* filter_keys: only the properties of graph elements are filtered by name.
MapJson(f, allowed, filterKeys) ==
    Object([k \in {n \in DOMAIN f : filterKeys => n \in allowed} |-> Encode(f[k], allowed)])

EncodeMap(f, allowed) ==
    IF "$type" \in DOMAIN f
    THEN Fields(<<<<"$type", Str("Map")>>, <<"entries", MapJson(f, allowed, FALSE)>>>>)
    ELSE MapJson(f, allowed, FALSE)

EncodeNode(v, allowed) ==
    Fields(<<<<"$type", Str("Node")>>, <<"elementId", Str(v[2])>>,
             <<"properties", MapJson(v[4], allowed, TRUE)>>,
             <<"labels", Array([i \in DOMAIN v[3] |-> Str(v[3][i])])>>>>)

EncodeRelationship(v, allowed) ==
    Fields(<<<<"$type", Str("Relationship")>>, <<"elementId", Str(v[2])>>,
             <<"properties", MapJson(v[4], allowed, TRUE)>>, <<"type", Str(v[3][1])>>,
             <<"start", Str(v[3][2])>>, <<"end", Str(v[3][3])>>>>)

EncodePath(v, allowed) ==
    Fields(<<<<"$type", Str("Path")>>,
             <<"nodes", Array([i \in DOMAIN v[2] |-> EncodeNode(v[2][i], allowed)])>>,
             <<"relationships", Array([i \in DOMAIN v[3] |-> EncodeRelationship(v[3][i], allowed)])>>>>)

EncodeVector(v, allowed) ==
    Fields(<<<<"$type", Str("Vector")>>, <<"coordinateType", Str(v[2])>>,
             <<"dimension", Number("integer", Len(v[3]))>>,
             <<"values", Array([i \in DOMAIN v[3] |-> Encode(v[3][i], allowed)])>>>>)

\* encode_json_filtered_checked
Encode(v, allowed) ==
    CASE v[1] = "null" -> <<"j-null">>
      [] v[1] = "boolean" -> <<"j-bool", v[2]>>
      [] v[1] = "integer" -> IF v[2] \in -JsSafe .. JsSafe THEN Number("integer", v[2])
                             ELSE Tagged("Integer", Digits(v[2]))
      [] v[1] = "float" -> IF v[2] \in DOMAIN NonFinite THEN Tagged("Float", Str(NonFinite[v[2]]))
                           ELSE Number(v[2], v[3])
      [] v[1] = "string" -> Str(v[2])
      [] v[1] = "list" -> Array([i \in DOMAIN v[2] |-> Encode(v[2][i], allowed)])
      [] v[1] = "map" -> EncodeMap(v[2], allowed)
      [] v[1] = "node" -> EncodeNode(v, allowed)
      [] v[1] = "relationship" -> EncodeRelationship(v, allowed)
      [] v[1] = "path" -> EncodePath(v, allowed)
      [] v[1] = "vector" -> EncodeVector(v, allowed)
      [] v[1] = "date" -> Tagged("Date", Str(v[2]))

-----------------------------------------------------------------------------
(* Decoding                                                                *)

IsString(j) == j[1] = "j-string" /\ j[2] = "text"

\* Every field is one of the allowed; a missing one is found when it is read.
ExactFields(f, allowed) == DOMAIN f \subseteq allowed

Has(f, name, kind) == name \in DOMAIN f /\ f[name][1] = kind

\* Error, or the list of what was decoded.
AllOk(s) == \A i \in DOMAIN s : s[i] # Error

RECURSIVE Decode(_)

DecodePlainMap(f) ==
    LET values == [k \in DOMAIN f |-> Decode(f[k])]
    IN IF \E k \in DOMAIN f : values[k] = Error THEN Error ELSE <<"map", values>>

DecodeArray(s) == [i \in DOMAIN s |-> Decode(s[i])]

DecodeElement(f, extra, Content(_)) ==
    LET properties == DecodePlainMap(f["properties"][2])
    IN IF /\ ExactFields(f, {"$type", "elementId", "properties"} \cup extra)
          /\ Has(f, "elementId", "j-string") /\ Has(f, "properties", "j-object")
          /\ \A e \in extra : e \in DOMAIN f
       THEN IF properties = Error THEN Error
            ELSE <<f["elementId"][3], Content(f), properties[2]>>
       ELSE Error

DecodeNode(f) ==
    LET Labels(g) == [i \in DOMAIN g["labels"][2] |-> g["labels"][2][i][3]]
        element == DecodeElement(f, {"labels"}, Labels)
    IN IF element = Error THEN Error ELSE <<"node">> \o element

DecodeRelationship(f) ==
    LET Ends(g) == <<g["type"][3], g["start"][3], g["end"][3]>>
        element == DecodeElement(f, {"type", "start", "end"}, Ends)
    IN IF element = Error THEN Error ELSE <<"relationship">> \o element

DecodePath(f) ==
    LET nodes == DecodeArray(f["nodes"][2])
        rels == DecodeArray(f["relationships"][2])
    IN IF /\ ExactFields(f, {"$type", "nodes", "relationships"})
          /\ Has(f, "nodes", "j-array") /\ Has(f, "relationships", "j-array")
          /\ \A i \in DOMAIN nodes : nodes[i][1] = "node"
          /\ \A i \in DOMAIN rels : rels[i][1] = "relationship"
          /\ Len(nodes) = Len(rels) + 1
       THEN <<"path", nodes, rels>> ELSE Error

\* A coordinate of an integer vector is an integer; one of a float vector is read as a float.
Coordinate(type, v) ==
    CASE type = "INTEGER64" -> IF v[1] = "integer" THEN v ELSE Error
      [] type = "FLOAT64" -> CASE v[1] = "integer" -> <<"float", "finite", 2 * v[2]>>
                               [] v[1] = "float" -> IF v[2] \in DOMAIN NonFinite THEN Error ELSE v
                               [] OTHER -> Error
      [] OTHER -> Error

DecodeVector(f) ==
    LET type == f["coordinateType"][3]
        values == [i \in DOMAIN f["values"][2] |-> Coordinate(type, Decode(f["values"][2][i]))]
    IN IF /\ ExactFields(f, {"$type", "coordinateType", "dimension", "values"})
          /\ Has(f, "coordinateType", "j-string") /\ Has(f, "values", "j-array")
          /\ Has(f, "dimension", "j-number")
          /\ f["dimension"] = Number("integer", Len(f["values"][2]))
          /\ AllOk(values)
       THEN <<"vector", type, values>> ELSE Error

DecodeText(f, Read(_)) ==
    IF ExactFields(f, {"$type", "value"}) /\ Has(f, "value", "j-string") THEN Read(f["value"]) ELSE Error

\* decode_float: only the values JSON has no number for.
FloatText(t) ==
    LET kinds == {k \in DOMAIN NonFinite : Str(NonFinite[k]) = t}
    IN IF kinds = {} THEN Error ELSE <<"float", CHOOSE k \in kinds : TRUE, 0>>

IntegerText(t) == IF t[2] = "digits" THEN <<"integer", t[3]>> ELSE Error

DateText(t) == IF t[2] = "text" THEN <<"date", t[3]>> ELSE Error

DecodeObject(f) ==
    IF "$type" \notin DOMAIN f THEN DecodePlainMap(f)
    ELSE IF ~ IsString(f["$type"]) THEN Error
    ELSE CASE f["$type"][3] = "Integer" -> DecodeText(f, IntegerText)
           [] f["$type"][3] = "Float" -> DecodeText(f, FloatText)
           [] f["$type"][3] = "Date" -> DecodeText(f, DateText)
           [] f["$type"][3] = "Map" ->
                 IF ExactFields(f, {"$type", "entries"}) /\ Has(f, "entries", "j-object")
                 THEN DecodePlainMap(f["entries"][2]) ELSE Error
           [] f["$type"][3] = "Node" -> DecodeNode(f)
           [] f["$type"][3] = "Relationship" -> DecodeRelationship(f)
           [] f["$type"][3] = "Path" -> DecodePath(f)
           [] f["$type"][3] = "Vector" -> DecodeVector(f)
           [] OTHER -> Error

Decode(j) ==
    CASE j[1] = "j-null" -> <<"null">>
      [] j[1] = "j-bool" -> <<"boolean", j[2]>>
      [] j[1] = "j-number" -> IF j[2] = "integer" THEN <<"integer", j[3]>> ELSE <<"float", j[2], j[3]>>
      [] j[1] = "j-string" -> <<"string", j[3]>>
      [] j[1] = "j-array" -> LET values == DecodeArray(j[2])
                             IN IF AllOk(values) THEN <<"list", values>> ELSE Error
      [] j[1] = "j-object" -> DecodeObject(j[2])

\* parameter_value_checked: no graph element anywhere.
RECURSIVE IsParameter(_)
IsParameter(v) ==
    CASE v[1] \in {"node", "relationship", "path"} -> FALSE
      [] v[1] = "list" -> \A i \in DOMAIN v[2] : IsParameter(v[2][i])
      [] v[1] = "map" -> \A k \in DOMAIN v[2] : IsParameter(v[2][k])
      [] OTHER -> TRUE

\* decode_parameters: name -> value, or Error.
DecodeParameters(j) ==
    IF j[1] # "j-object" THEN Error
    ELSE LET values == DecodePlainMap(j[2])
         IN IF values = Error THEN Error
            ELSE IF \E k \in DOMAIN values[2] : ~ IsParameter(values[2][k]) THEN Error ELSE values

-----------------------------------------------------------------------------
(* Rows of bindings in a spill: nodes by number, relationships by record,  *)
(* scalars as values that are not filtered.                                *)

JInt(n) == Number("integer", n)

RelationshipJson(r) == Array([i \in DOMAIN r |-> JInt(r[i])])

EncodeBinding(b, allNames) ==
    CASE b[1] = "node" -> Fields(<<<<"kind", Str("node")>>, <<"id", JInt(b[2])>>>>)
      [] b[1] = "relationship" -> Fields(<<<<"kind", Str("relationship")>>, <<"record", RelationshipJson(b[2])>>>>)
      [] b[1] = "scalar" -> Fields(<<<<"kind", Str("scalar")>>, <<"value", Encode(b[2], allNames)>>>>)
      [] b[1] = "null" -> Fields(<<<<"kind", Str("null")>>>>)
      [] b[1] = "path" -> Fields(<<<<"kind", Str("path")>>,
                                   <<"nodes", Array([i \in DOMAIN b[2] |-> JInt(b[2][i])])>>,
                                   <<"relationships", Array([i \in DOMAIN b[3] |-> RelationshipJson(b[3][i])])>>>>)

Numbers(array) == [i \in DOMAIN array[2] |-> array[2][i][3]]

DecodeBinding(j) ==
    LET f == j[2] kind == f["kind"][3] IN
    CASE kind = "node" -> <<"node", f["id"][3]>>
      [] kind = "relationship" -> <<"relationship", Numbers(f["record"])>>
      [] kind = "scalar" -> <<"scalar", Decode(f["value"])>>
      [] kind = "null" -> <<"null">>
      [] kind = "path" -> <<"path", Numbers(f["nodes"]),
                            [i \in DOMAIN f["relationships"][2] |-> Numbers(f["relationships"][2][i])]>>
      [] OTHER -> Error

\* A LOAD CSV context is <<>>, or <<file, line>>, each <<>> or <<it>>.
EncodeContext(c) ==
    IF c = <<>> THEN <<"j-null">>
    ELSE Fields(<<<<"file", IF c[1] = <<>> THEN <<"j-null">> ELSE Str(c[1][1])>>,
                  <<"line", IF c[2] = <<>> THEN <<"j-null">> ELSE JInt(c[2][1])>>>>)

DecodeContext(j) ==
    IF j = <<"j-null">> THEN <<>>
    ELSE LET Given(name) == IF j[2][name] = <<"j-null">> THEN <<>> ELSE <<j[2][name][3]>>
         IN <<Given("file"), Given("line")>>

EncodeRow(row, allNames) ==
    Fields(<<<<"values", Object([k \in DOMAIN row.values |-> EncodeBinding(row.values[k], allNames)])>>,
             <<"usedRelationships", Array(LET s == SetToSeq(row.used) IN [i \in DOMAIN s |-> JInt(s[i])])>>,
             <<"order", Array([i \in DOMAIN row.order |-> Str(row.order[i])])>>,
             <<"loadCsvContext", EncodeContext(row.csv)>>>>)

DecodeRow(j) ==
    [values |-> [k \in DOMAIN j[2]["values"][2] |-> DecodeBinding(j[2]["values"][2][k])],
     used |-> Range(Numbers(j[2]["usedRelationships"])),
     order |-> Numbers(j[2]["order"]),
     csv |-> DecodeContext(j[2]["loadCsvContext"])]

-----------------------------------------------------------------------------
(* JsonValues over values built step by step: scalars, then containers and *)
(* graph elements that hold what was built before.                         *)

CONSTANTS
    Names,      \* names of keys and properties
    MaxDepth    \* bound: steps by which a value is nested

VARIABLES
    value,      \* the value built so far
    depth,      \* steps taken
    allowed     \* the property names readAccess shows

vars == <<value, depth, allowed>>

Scalars ==
    {<<"null">>, <<"integer", JsSafe>>, <<"integer", -JsSafe - 1>>,
     <<"float", "finite", 0>>, <<"float", "negzero", 0>>, <<"float", "nan", 0>>,
     <<"string", "Map">>,
     <<"vector", "INTEGER64", <<<<"integer", JsSafe + 1>>>>>>}

Init == value \in Scalars /\ depth = 0 /\ allowed \in SUBSET Names

Node(properties) == <<"node", "n1", <<"A">>, properties>>
Rel(properties) == <<"relationship", "r1", <<"T", "n1", "n1">>, properties>>

Wrap(v) ==
    /\ depth < MaxDepth
    /\ value' = v /\ depth' = depth + 1
    /\ UNCHANGED allowed

InList == Wrap(<<"list", <<value, <<"integer", 1>>>>>>)
InMap == \E k \in Names : Wrap(<<"map", [n \in {k} |-> value]>>)
InTwoKeys == \E k \in Names, l \in Names : Wrap(<<"map", [n \in {k, l} |-> value]>>)
InNode == \E k \in Names : Wrap(Node([n \in {k} |-> value]))
InRelationship == \E k \in Names : Wrap(Rel([n \in {k} |-> value]))
InPath == \E k \in Names : Wrap(<<"path", <<Node([n \in {k} |-> value]), Node(<<>>)>>, <<Rel([n \in {k} |-> value])>>>>)

Next == InList \/ InMap \/ InTwoKeys \/ InNode \/ InRelationship \/ InPath

Spec == Init /\ [][Next]_vars

-----------------------------------------------------------------------------
\* The value without the properties of graph elements that may not be shown.
RECURSIVE Strip(_)
Strip(v) ==
    LET Shown(p) == [k \in DOMAIN p \cap allowed |-> Strip(p[k])] IN
    CASE v[1] = "list" -> <<"list", [i \in DOMAIN v[2] |-> Strip(v[2][i])]>>
      [] v[1] = "map" -> <<"map", [k \in DOMAIN v[2] |-> Strip(v[2][k])]>>
      [] v[1] \in {"node", "relationship"} -> <<v[1], v[2], v[3], Shown(v[4])>>
      [] v[1] = "path" -> <<"path", [i \in DOMAIN v[2] |-> Strip(v[2][i])],
                            [i \in DOMAIN v[3] |-> Strip(v[3][i])]>>
      [] OTHER -> v

(* What is encoded is decoded as itself, whatever is nested in what: maps  *)
(* that have a key like a tag, integers JSON cannot carry, NaN and both    *)
(* zeros.                                                                  *)
JsonRoundTrip == Decode(Encode(value, Names)) = value

(* A result shows every property that is allowed and none that is not,     *)
(* in lists, maps, paths and properties at every depth; keys of ordinary   *)
(* maps are not properties and stay.                                       *)
ResultShowsTheAllowed == Decode(Encode(value, allowed)) = Strip(value)

\* Some graph element is nested somewhere in the value.
RECURSIVE HoldsElement(_)
HoldsElement(v) ==
    \/ v[1] \in {"node", "relationship", "path"}
    \/ v[1] = "list" /\ \E i \in DOMAIN v[2] : HoldsElement(v[2][i])
    \/ v[1] = "map" /\ \E k \in DOMAIN v[2] : HoldsElement(v[2][k])

(* Parameters take every value except one that holds a graph element.      *)
ParametersHoldNoElements ==
    (DecodeParameters(Object([p \in {"p", "q"} |-> IF p = "p" THEN Encode(value, Names) ELSE <<"j-null">>]))
        = Error) = HoldsElement(value)

Bindings ==
    {<<"scalar", value>>, <<"null">>, <<"node", JsSafe + 1>>, <<"relationship", <<1, 2, 3, 2>>>>,
     <<"path", <<1, 2>>, <<<<1, 1, 3, 2>>>>>>}

Contexts == {<<>>, <<<<>>, <<>>>>, <<<<"f">>, <<3>>>>}

(* A row that was spilled comes back as it was: graph elements stay        *)
(* elements, null stays null, and the columns keep their order             *)
(* (phases/08-search-ingestion.md on the spill round trip).                *)
SpillRoundTrip ==
    \A b \in Bindings, c \in Contexts :
        LET row == [values |-> [k \in {"a", "b"} |-> IF k = "a" THEN b ELSE <<"scalar", value>>],
                    used |-> {1, 2}, order |-> <<"b", "a">>, csv |-> c]
        IN DecodeRow(EncodeRow(row, Names)) = row

=============================================================================
