--------------------------- MODULE CanonicalValues ---------------------------
(***************************************************************************)
(* The canonical bytes of property values (storage/encoding.rs,            *)
(* storage/value.rs), the columns a property is stored in                  *)
(* (storage/property.rs) and the walk that sizes a value before anything   *)
(* is allocated for it (storage/read_memory.rs).                           *)
(*                                                                         *)
(* A byte is a number below 2 * Base.  A value is <<tag, fields>>, each    *)
(* field a sequence of bytes, or <<5, values>> for a list.  Fixed-width    *)
(* numbers are one byte wide; a character is one byte below Base, or a     *)
(* leading byte Base .. 2 * Base - 2 with one Continuation.                *)
(***************************************************************************)
EXTENDS Integers, Sequences, FiniteSets, SequencesExt, FiniteSetsExt

CONSTANTS
    Base,         \* 0x80: the numbers one byte of a ULEB128 carries
    MaxLength,    \* 2^64 - 1, the largest number a ULEB128 may carry
    Chunk         \* 64 KiB: text is checked and copied in chunks

Continuation == 2 * Base - 1
Magic == <<2 * Base - 1, 0>>
CanonicalNan == 3
OtherNan == 4
NegativeZero == 2

\* No number or range, no fields, no value and no text.
Error == <<-1, -1>>
NoFields == <<Error>>
BadValue == <<-1>>
BadText == <<-1>>

-----------------------------------------------------------------------------
(* Numbers of variable length, least significant group first.              *)

RECURSIVE PutUleb(_)
PutUleb(n) == IF n < Base THEN <<n>> ELSE <<(n % Base) + Base>> \o PutUleb(n \div Base)

UlebLen(n) == Len(PutUleb(n))

RECURSIVE Power(_)
Power(n) == IF n = 0 THEN 1 ELSE Base * Power(n - 1)

\* [value, at]: the number at a place of the bytes and the place behind it.
UlebValue(groups) ==
    FoldLeft(LAMBDA sum, i : sum + (groups[i] % Base) * Power(i - 1), 0, [i \in DOMAIN groups |-> i])

UlebChecked(number, at, length) ==
    IF number > MaxLength \/ UlebLen(number) # length THEN Error ELSE <<number, at + length>>

ReadUleb(bytes, at) ==
    LET last == {i \in at .. Len(bytes) : bytes[i] < Base} IN
    IF last = {} THEN Error
    ELSE UlebChecked(UlebValue(SubSeq(bytes, at, Min(last))), at, Min(last) - at + 1)

Slice(bytes, at, length) == SubSeq(bytes, at, at + length - 1)

\* <<first, end>> of the field whose length stands at a place of bytes.
FieldBehind(bytes, length) ==
    IF length = Error THEN Error
    ELSE IF length[2] + length[1] - 1 > Len(bytes) THEN Error
    ELSE <<length[2], length[2] + length[1]>>

Field(bytes, at) == FieldBehind(bytes, ReadUleb(bytes, at))

FieldAndRest(field, rest) == IF rest = NoFields THEN NoFields ELSE <<field>> \o rest

RECURSIVE FieldsFrom(_, _, _)
FieldsFrom(bytes, at, remaining) ==
    IF remaining = 0 THEN IF at = Len(bytes) + 1 THEN <<>> ELSE NoFields
    ELSE LET field == Field(bytes, at) IN
         IF field = Error THEN NoFields
         ELSE FieldAndRest(field, FieldsFrom(bytes, field[2], remaining - 1))

\* The counted fields that follow a place: a list of ranges of bytes.
FieldsBehind(bytes, count) ==
    IF count = Error THEN NoFields
    ELSE IF count[1] > Len(bytes) - count[2] + 1 THEN NoFields
    ELSE FieldsFrom(bytes, count[2], count[1])

CountedFields(bytes, at) == FieldsBehind(bytes, ReadUleb(bytes, at))

RecordFields(bytes) ==
    IF ~ IsPrefix(Magic, bytes) THEN NoFields ELSE CountedFields(bytes, Len(Magic) + 1)

EncodeCounted(items) ==
    FoldLeft(LAMBDA out, item : out \o PutUleb(Len(item)) \o item, PutUleb(Len(items)), items)

-----------------------------------------------------------------------------
(* Text in chunks: a character cut by the end of a chunk is left to the    *)
(* next one.                                                               *)

IsLead(b) == b >= Base /\ b # Continuation

Boundary(text, i) == i = Len(text) \/ text[i + 1] # Continuation

RECURSIVE ValidUpTo(_, _)
ValidUpTo(text, from) ==
    IF from >= Len(text) THEN from
    ELSE IF text[from + 1] < Base THEN ValidUpTo(text, from + 1)
    ELSE IF IsLead(text[from + 1]) /\ from + 2 <= Len(text) /\ text[from + 2] = Continuation
         THEN ValidUpTo(text, from + 2)
    ELSE from

\* from_utf8 says whether an invalid end may only be a cut character.
MaybeCut(text) ==
    LET valid == ValidUpTo(text, 0) IN valid = Len(text) - 1 /\ IsLead(text[Len(text)])

RECURSIVE Utf8Checked(_, _)
Utf8Checked(bytes, start) ==
    IF start = Len(bytes) THEN <<>>
    ELSE LET end == IF start + Chunk < Len(bytes) THEN start + Chunk ELSE Len(bytes)
             chunk == SubSeq(bytes, start + 1, end)
             valid == ValidUpTo(chunk, 0)
         IN IF valid = Len(chunk) \/ (MaybeCut(chunk) /\ end < Len(bytes))
            THEN LET rest == Utf8Checked(bytes, start + valid)
                 IN IF rest = BadText THEN BadText ELSE SubSeq(chunk, 1, valid) \o rest
            ELSE BadText

RECURSIVE CopyText(_, _)
CopyText(text, start) ==
    IF start = Len(text) THEN <<>>
    ELSE LET limit == IF start + Chunk < Len(text) THEN start + Chunk ELSE Len(text)
             ends == {e \in 0 .. limit : Boundary(text, e)}
             end == CHOOSE e \in ends : \A f \in ends : f <= e
         IN SubSeq(text, start + 1, end) \o CopyText(text, end)

-----------------------------------------------------------------------------
(* Values                                                                  *)

\* The shape of the fields behind the tag: "fixed" one byte, "text", "count" and "packed".
Shape(tag) ==
    CASE tag = 1 -> <<"bool">>  [] tag = 2 -> <<"fixed">>  [] tag = 3 -> <<"float">>
      [] tag = 4 -> <<"text">>  [] tag = 5 -> <<"list">>   [] tag = 7 -> <<"fixed">>
      [] tag = 8 -> <<"fixed", "fixed">>
      [] tag = 10 -> <<"fixed", "fixed", "text">>
      [] tag = 11 -> <<"fixed", "fixed", "fixed", "fixed">>
      [] tag = 12 -> <<"fixed", "count", "packed">>
      [] OTHER -> <<>>

CanonicalFloat(bits) == IF bits \in {CanonicalNan, OtherNan} THEN CanonicalNan ELSE bits

CanonicalField(kind, field) ==
    IF kind \in {"float", "packed"} THEN [i \in DOMAIN field |-> CanonicalFloat(field[i])] ELSE field

RECURSIVE CanonicalBytes(_)
CanonicalBytes(v) ==
    LET fields == IF v[1] = 5
                  THEN <<EncodeCounted([i \in DOMAIN v[2] |-> CanonicalBytes(v[2][i])])>>
                  ELSE [i \in DOMAIN v[2] |-> CanonicalField(Shape(v[1])[i], v[2][i])]
    IN Magic \o EncodeCounted(<<<<v[1]>>>> \o fields)

\* What a field of a kind must look like; a packed field fills the count before it.
FieldOk(kind, field, before) ==
    CASE kind \in {"fixed", "float"} -> Len(field) = 1
      [] kind = "bool" -> field \in {<<0>>, <<1>>}
      [] kind = "text" -> Utf8Checked(field, 0) # BadText
      [] kind = "count" -> ReadUleb(field, 1) # Error /\ ReadUleb(field, 1)[2] = Len(field) + 1
      [] kind = "packed" -> Len(field) = ReadUleb(before, 1)[1]

Decoded(tag, fields) ==
    IF \A i \in DOMAIN fields :
          FieldOk(Shape(tag)[i], fields[i], IF i = 1 THEN <<>> ELSE fields[i - 1])
    THEN <<tag, fields>> ELSE BadValue

\* The bytes must be the ones this value is written with.
IsCanonical(v, bytes) == v # BadValue /\ CanonicalBytes(v) = bytes

RECURSIVE FromCanonicalBytes(_)

ListOf(values) == IF BadValue \in Range(values) THEN BadValue ELSE <<5, values>>

Cut(bytes, ranges) == [i \in DOMAIN ranges |-> SubSeq(bytes, ranges[i][1], ranges[i][2] - 1)]

DecodeList(payload) ==
    LET items == CountedFields(payload, 1) IN
    IF items = NoFields THEN BadValue
    ELSE ListOf([i \in DOMAIN items |-> FromCanonicalBytes(Cut(payload, items)[i])])

DecodeRecord(fields) ==
    LET tag == fields[1][1] IN
    IF Shape(tag) = <<>> \/ Len(Shape(tag)) + 1 # Len(fields) THEN BadValue
    ELSE IF Shape(tag) = <<"list">> THEN DecodeList(fields[2])
    ELSE Decoded(tag, Tail(fields))

IfCanonical(v, bytes) == IF IsCanonical(v, bytes) THEN v ELSE BadValue

\* BadValue, or the value these bytes are the canonical bytes of.
FromCanonicalBytes(bytes) ==
    LET ranges == RecordFields(bytes) IN
    IF ranges = NoFields THEN BadValue
    ELSE IF ranges = <<>> \/ Len(ranges) > 5 THEN BadValue
    ELSE IF ranges[1][2] - ranges[1][1] # 1 THEN BadValue
    ELSE IfCanonical(DecodeRecord(Cut(bytes, ranges)), bytes)

-----------------------------------------------------------------------------
(* Columns of a property: [tag, int, real, text, blob, aux], None if NULL. *)

None == <<"none">>
Some(x) == <<"some", x>>

\* A REAL column does not keep the sign of a zero.
StoredReal(bits) == IF bits = NegativeZero THEN 0 ELSE bits

Columns(tag) == [tag |-> tag, int |-> None, real |-> None, text |-> None, blob |-> None, aux |-> None]

FromValue(v) ==
    LET c == Columns(v[1]) IN
    CASE v[1] \in {1, 2, 7} -> [c EXCEPT !.int = Some(v[2][1])]
      [] v[1] = 3 -> [c EXCEPT !.real = IF v[2][1][1] \in {CanonicalNan, OtherNan} THEN None
                                        ELSE Some(<<StoredReal(v[2][1][1])>>),
                               !.aux = Some(<<CanonicalFloat(v[2][1][1])>>)]
      [] v[1] = 4 -> [c EXCEPT !.text = Some(CopyText(v[2][1], 0))]
      [] v[1] = 8 -> [c EXCEPT !.int = Some(v[2][1]), !.aux = Some(v[2][2])]
      [] v[1] = 10 -> [c EXCEPT !.int = Some(v[2][1]), !.aux = Some(v[2][2] \o v[2][3])]
      [] OTHER -> [c EXCEPT !.blob = Some(CanonicalBytes(v))]

\* validate_columns: exactly the columns of the tag are set.
ColumnsMatch(c) ==
    LET Set == {f \in {"int", "real", "text", "blob", "aux"} : c[f] # None} IN
    CASE c.tag \in {1, 2, 7} -> Set = {"int"}
      [] c.tag = 3 -> Set \ {"real"} = {"aux"} /\ Len(c.aux[2]) = 1
      [] c.tag = 4 -> Set = {"text"}
      [] c.tag \in {8, 10} -> Set = {"int", "aux"}
      [] c.tag \in {5, 11, 12} -> Set = {"blob"}
      [] OTHER -> FALSE

FloatOk(c) ==
    IF c.aux[2][1] \in {CanonicalNan, OtherNan}
    THEN c.real = None /\ c.aux[2][1] = CanonicalNan
    ELSE c.real # None /\ StoredReal(c.real[2][1]) = StoredReal(c.aux[2][1])

OfTag(v, tag) == IF v # BadValue /\ v[1] = tag THEN v ELSE BadValue

ToValue(c) ==
    IF ~ ColumnsMatch(c) THEN BadValue
    ELSE CASE c.tag = 1 -> IF c.int[2] \in {<<0>>, <<1>>} THEN <<1, <<c.int[2]>>>> ELSE BadValue
           [] c.tag \in {2, 7} -> <<c.tag, <<c.int[2]>>>>
           [] c.tag = 3 -> IF FloatOk(c) THEN <<3, <<c.aux[2]>>>> ELSE BadValue
           [] c.tag = 4 -> <<4, <<CopyText(c.text[2], 0)>>>>
           [] c.tag = 8 -> IF Len(c.aux[2]) = 1 THEN <<8, <<c.int[2], c.aux[2]>>>> ELSE BadValue
           [] c.tag = 10 -> IF Len(c.aux[2]) >= 1
                            THEN <<10, <<c.int[2], SubSeq(c.aux[2], 1, 1), CopyText(Tail(c.aux[2]), 0)>>>>
                            ELSE BadValue
           [] OTHER -> OfTag(FromCanonicalBytes(c.blob[2]), c.tag)

-----------------------------------------------------------------------------
(* The walk that sizes a value: slots of a list and payloads, without a    *)
(* stack.  The end of a nested value is followed by the length of its next *)
(* sibling, whatever the depth.                                            *)

VARIABLES
    bytes,      \* the canonical bytes, or what became of them
    current,    \* <<first, end>> of the value to look at
    retained,   \* slots and payload bytes counted
    status      \* "walking", "done" or "error"

vars == <<bytes, current, retained, status>>

Part(range) == SubSeq(bytes, range[1], range[2] - 1)

\* Fields of the current value, as ranges of its own bytes; refused unless the tag has them.
Tagged(own, fields) ==
    IF fields = NoFields THEN NoFields
    ELSE IF Len(fields) < 2 THEN NoFields
    ELSE IF fields[1][2] - fields[1][1] # 1 THEN NoFields
    ELSE IF Len(Shape(own[fields[1][1]])) + 1 # Len(fields) THEN NoFields
    ELSE fields

CurrentFields == Tagged(Part(current), RecordFields(Part(current)))

Own(range) == SubSeq(Part(current), range[1], range[2] - 1)

Tag(fields) == Own(fields[1])[1]

\* The payload of a value that is no list, -1 when it does not fill its count.
Payload(fields) ==
    CASE Tag(fields) = 4 -> Len(Own(fields[2]))
      [] Tag(fields) = 10 -> Len(Own(fields[4]))
      [] Tag(fields) = 12 ->
            LET count == ReadUleb(Own(fields[3]), 1)
            IN IF count = <<Len(Own(fields[4])), Len(Own(fields[3])) + 1>> THEN count[1] ELSE -1
      [] OTHER -> 0

\* The value is over: the next one's length follows, or the bytes end.
Onward(end) ==
    IF end > Len(bytes)
    THEN status' = "done" /\ UNCHANGED current
    ELSE IF Field(bytes, end) = Error
    THEN status' = "error" /\ UNCHANGED current
    ELSE current' = Field(bytes, end) /\ UNCHANGED status

RefuseValue ==
    /\ status = "walking" /\ CurrentFields = NoFields
    /\ status' = "error"
    /\ UNCHANGED <<bytes, current, retained>>

VisitScalar(fields) ==
    /\ status = "walking" /\ fields # NoFields
    /\ Tag(fields) # 5
    /\ IF Payload(fields) = -1 THEN status' = "error" /\ UNCHANGED <<current, retained>>
       ELSE retained' = retained + Payload(fields) /\ Onward(current[2])
    /\ UNCHANGED bytes

\* list_memory counts the slots and gives the first item, at its place in all of the bytes.
VisitList(fields) ==
    /\ status = "walking" /\ fields # NoFields
    /\ Tag(fields) = 5
    /\ \E items \in {CountedFields(Own(fields[2]), 1)}, origin \in {current[1] + fields[2][1] - 2} :
         IF items = NoFields THEN status' = "error" /\ UNCHANGED <<current, retained>>
         ELSE /\ retained' = retained + Len(items)
              /\ IF items = <<>> THEN Onward(current[2])
                 ELSE /\ current' = <<origin + items[1][1], origin + items[1][2]>>
                      /\ UNCHANGED status
    /\ UNCHANGED bytes

Next == RefuseValue \/ \E fields \in {CurrentFields} : VisitScalar(fields) \/ VisitList(fields)

-----------------------------------------------------------------------------
(* CanonicalValues over values nested three deep and over bytes that a     *)
(* page of the database may have become: one byte changed, cut or added.   *)

VARIABLE value   \* the value whose bytes were written

Scalars ==
    {<<1, <<<<1>>>>>>, <<2, <<<<Base>>>>>>, <<4, <<<<>>>>>>, <<4, <<<<1, Base, Continuation>>>>>>,
     <<3, <<<<NegativeZero>>>>>>, <<3, <<<<OtherNan>>>>>>, <<3, <<<<CanonicalNan>>>>>>, <<7, <<<<2>>>>>>,
     <<8, <<<<1>>, <<2>>>>>>, <<10, <<<<1>>, <<2>>, <<0, Base, Continuation, 1, 1>>>>>>,
     <<11, <<<<1>>, <<0>>, <<1>>, <<2>>>>>>, <<12, <<<<0>>, <<2>>, <<OtherNan, 1>>>>>>}

Small == {<<1, <<<<0>>>>>>, <<4, <<<<1>>>>>>, <<3, <<<<OtherNan>>>>>>}

Flat == {<<5, s>> : s \in {<<>>} \cup {<<a>> : a \in Small} \cup {<<a, b>> : a \in Small, b \in Small}}

Nested ==
    {<<5, <<a, b>>>> : a \in Flat, b \in Small \cup {<<5, <<>>>>}}
        \cup {<<5, <<a, <<5, <<b>>>>, c>>>> : a \in Small, b \in Flat, c \in Small}

Values == Scalars \cup Flat \cup Nested

\* Ways a written encoding may be spoilt.
Spoilt(b) ==
    {[b EXCEPT ![i] = x] : i \in DOMAIN b, x \in {0, 1, Base - 1, Base, 2 * Base - 1, OtherNan}}
        \cup {SubSeq(b, 1, i) : i \in 0 .. Len(b) - 1} \cup {Append(b, 0)}

Init ==
    /\ value \in Values
    /\ bytes \in {CanonicalBytes(value)} \cup IF value \in Nested THEN {} ELSE Spoilt(CanonicalBytes(value))
    /\ current = <<1, Len(bytes) + 1>>
    /\ retained = 1
    /\ status = "walking"

MCNext == Next /\ UNCHANGED value

Spec == Init /\ [][MCNext]_<<vars, value>>

-----------------------------------------------------------------------------
Written == bytes = CanonicalBytes(value)

\* Whole bytes of a text are valid characters.
RECURSIVE IsText(_)
IsText(text) ==
    \/ text = <<>>
    \/ text[1] < Base /\ IsText(Tail(text))
    \/ /\ IsLead(text[1]) /\ Len(text) >= 2
       /\ text[2] = Continuation /\ IsText(SubSeq(text, 3, Len(text)))

RECURSIVE Canonical(_)
Canonical(v) ==
    IF v[1] = 5 THEN <<5, [i \in DOMAIN v[2] |-> Canonical(v[2][i])]>>
    ELSE <<v[1], [i \in DOMAIN v[2] |-> CanonicalField(Shape(v[1])[i], v[2][i])]>>

\* Slots and payloads of a decoded value.
RECURSIVE Size(_)
Size(v) ==
    1 + CASE v[1] = 5 -> FoldLeft(LAMBDA sum, item : sum + Size(item), 0, v[2])
          [] v[1] = 4 -> Len(v[2][1])
          [] v[1] \in {10, 12} -> Len(v[2][3])
          [] OTHER -> 0

(* What was written is read back, NaN as the one canonical NaN, and bytes  *)
(* that were spoilt are refused or are the canonical bytes of the value    *)
(* they are read as: no value has two encodings, no encoding two values.   *)
OneEncodingPerValue ==
    status = "walking" /\ current[1] = 1 =>
        \A read \in {FromCanonicalBytes(bytes)} :
            /\ Written => read = Canonical(value)
            /\ read # BadValue => CanonicalBytes(read) = bytes

(* The columns of a property give its value back, the sign of zero and the *)
(* NaN that a REAL column cannot hold included.                            *)
ColumnsRoundTrip == Written => ToValue(FromValue(value)) = Canonical(value)

(* Texts are read and copied as if there were no chunks: a character       *)
(* across a chunk's end is neither lost nor taken for an error.            *)
ChunksAreInvisible ==
    /\ (Utf8Checked(bytes, 0) # BadText) = IsText(bytes)
    /\ IsText(bytes) => Utf8Checked(bytes, 0) = bytes /\ CopyText(bytes, 0) = bytes

(* The sizing walk counts what the decoded value retains, nested lists of  *)
(* every shape included, and refuses nothing that can be decoded.          *)
PreflightIsExact ==
    status \in {"done", "error"} =>
        \A v \in {FromCanonicalBytes(bytes)} :
            v # BadValue => status = "done" /\ retained = Size(v)

=============================================================================
