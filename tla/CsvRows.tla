------------------------------ MODULE CsvRows ------------------------------
(***************************************************************************)
(* The CSV reader of LOAD CSV: physical lines are taken up to a line feed  *)
(* and consumed one character at a time; a record may span lines, and with *)
(* headers each record becomes a map.  A file is written from a table, so  *)
(* what is read can be compared with what was written.                     *)
(***************************************************************************)
EXTENDS Integers, Sequences, SequencesExt

CONSTANTS
    Fields,     \* the field contents of the tables
    Endings,    \* the record endings the file may use
    MaxWidth,   \* bound on the fields of a record
    MaxHeight   \* bound on the records of a table

(* Characters: an ordinary one, the delimiter, a quotation mark, a         *)
(* backslash, carriage return and line feed.                               *)
Chars == {"x", "y", "comma", "quote", "backslash", "cr", "lf"}

Tables == UNION {[1..h -> UNION {[1..w -> Fields] : w \in 1..MaxWidth}] : h \in 0..MaxHeight}

VARIABLES
    table,      \* what the file was written from
    file,       \* its characters and how it was written
    reader,     \* the characters already taken from the file
    line,       \* what is left of the physical line
    record,     \* CsvRecordState
    headers,    \* the first record, or <<>>
    values,     \* what the stream gave: [fields, line]
    status      \* reading, done or error

vars == <<table, file, reader, line, record, headers, values, status>>

-----------------------------------------------------------------------------
(* How a file is written                                                   *)

Special == Chars \ {"x", "y", "backslash"}

MustQuote(field) == \E i \in DOMAIN field : field[i] \in Special

(* Inside quotes a mark is doubled or follows a backslash.                 *)
Escaped(field, escape) ==
    FlattenSeq([i \in DOMAIN field |->
        IF field[i] = "quote" THEN <<escape, "quote">> ELSE <<field[i]>>])

(* A backslash before a mark or before the end of a quoted field cannot be *)
(* written.                                                                *)
Writable(field) ==
    MustQuote(field) =>
        \A i \in DOMAIN field : field[i] = "backslash" =>
            i < Len(field) /\ field[i + 1] # "quote"

Written(field, how) ==
    IF how.quoteAll \/ MustQuote(field)
    THEN <<"quote">> \o Escaped(field, how.escape) \o <<"quote">>
    ELSE field

WrittenRecord(fields, how) ==
    FlattenSeq([i \in DOMAIN fields |->
        IF i = 1 THEN Written(fields[i], how) ELSE <<"comma">> \o Written(fields[i], how)])

Text(t, how) ==
    FlattenSeq([i \in DOMAIN t |->
        WrittenRecord(t[i], how) \o (IF i = Len(t) /\ how.open THEN <<>> ELSE how.ending)])

(* open: the last record has no ending; spoilt: a character or a mark that *)
(* does not belong there follows it, and the file is malformed.            *)
Styles == [escape : {"quote", "backslash"}, quoteAll : BOOLEAN, ending : Endings,
           open : BOOLEAN, withHeaders : BOOLEAN, spoilt : {"no", "y", "quote"}]

Sensible(t, how) ==
    /\ \A i \in DOMAIN t : \A j \in DOMAIN t[i] :
           /\ Writable(t[i][j])
           /\ how.quoteAll => \A k \in DOMAIN t[i][j] : t[i][j][k] # "backslash"
    /\ how.open => t # <<>> /\ WrittenRecord(t[Len(t)], how) # <<>>
    /\ how.spoilt # "no" => how.open
    /\ how.spoilt = "y" => how.quoteAll

-----------------------------------------------------------------------------
NewRecord == [fields |-> <<>>, field |-> <<>>, inQuotes |-> FALSE, afterQuote |-> FALSE, sawInput |-> FALSE]

Init ==
    /\ table \in Tables
    /\ \E how \in Styles :
           /\ Sensible(table, how)
           /\ file = [text |-> Text(table, how) \o (IF how.spoilt = "no" THEN <<>> ELSE <<how.spoilt>>), how |-> how]
    /\ reader = 0 /\ line = <<>> /\ record = NewRecord
    /\ headers = <<>> /\ values = <<>> /\ status = "reading"

FirstIndex(s, c) == LET at == {i \in DOMAIN s : s[i] = c} IN
                    IF at = {} THEN Len(s) ELSE CHOOSE i \in at : \A j \in at : i <= j

(* read_line: up to and with the next line feed.                           *)
ReadLine ==
    /\ status = "reading" /\ line = <<>> /\ reader < Len(file.text)
    /\ LET rest == SubSeq(file.text, reader + 1, Len(file.text))
           n    == FirstIndex(rest, "lf")
       IN  line' = SubSeq(rest, 1, n) /\ reader' = reader + n
    /\ record' = [record EXCEPT !.sawInput = TRUE]
    /\ UNCHANGED <<table, file, headers, values, status>>

FinishField(r) == [r EXCEPT !.fields = Append(@, r.field), !.field = <<>>, !.afterQuote = FALSE]

Unique(fields) == \A i, j \in DOMAIN fields : i # j => fields[i] # fields[j]

(* next_value: the first record may be the header, whose names must be     *)
(* different and not empty; a record with headers is a map, with NULL for  *)
(* the missing fields and without the ones too many.                       *)
RecordMap(fields) ==
    [i \in DOMAIN headers |-> IF i \in DOMAIN fields THEN fields[i] ELSE <<"NULL">>]

Emit(fields) ==
    IF file.how.withHeaders /\ headers = <<>>
    THEN /\ headers' = fields /\ values' = values
         /\ status' = IF Unique(fields) /\ <<>> \notin Range(fields) THEN "reading" ELSE "error"
    ELSE /\ values' = Append(values, [fields |-> IF headers = <<>> THEN fields ELSE RecordMap(fields),
                                      line |-> Len(values) + (IF headers = <<>> THEN 1 ELSE 2)])
         /\ UNCHANGED <<headers, status>>

Head1 == line[1]
Peek(c) == Len(line) > 1 /\ line[2] = c

(* The mark that follows is escaped by this character.                     *)
EscapesMark(c) == c \in {"quote", "backslash"} /\ Peek("quote")

(* consume_quoted_character                                                *)
Quoted ==
    /\ status = "reading" /\ line # <<>> /\ record.inQuotes
    /\ LET escaped == EscapesMark(Head1)
           closing == ~ escaped /\ Head1 = "quote"
       IN  /\ record' = IF closing THEN [record EXCEPT !.inQuotes = FALSE, !.afterQuote = TRUE]
                        ELSE [record EXCEPT !.field = Append(@, IF escaped THEN "quote" ELSE Head1)]
           /\ line' = SubSeq(line, IF escaped THEN 3 ELSE 2, Len(line))
    /\ UNCHANGED <<table, file, reader, headers, values, status>>

Outside == status = "reading" /\ line # <<>> /\ ~ record.inQuotes

(* consume_delimiter_or_record_ending                                      *)
Delimiter ==
    /\ Outside /\ Head1 = "comma"
    /\ record' = FinishField(record) /\ line' = Tail(line)
    /\ UNCHANGED <<table, file, reader, headers, values, status>>

(* consume_line stops at the end of a record, and the line is dropped.     *)
AfterEnding == <<>>

RecordEnding ==
    /\ Outside /\ Head1 \in {"cr", "lf"}
    /\ Emit(FinishField(record).fields)
    /\ record' = NewRecord /\ line' = AfterEnding
    /\ UNCHANGED <<table, file, reader>>

(* What may come at this place of an unquoted field.                       *)
Acceptable == ~ record.afterQuote /\ (Head1 = "quote" => record.field = <<>>)

Malformed == Outside /\ Head1 \notin {"comma", "cr", "lf"} /\ ~ Acceptable

(* consume_outside_quotes                                                  *)
Character ==
    /\ Outside /\ Head1 \notin {"comma", "cr", "lf"} /\ Acceptable
    /\ record' = IF Head1 = "quote" THEN [record EXCEPT !.inQuotes = TRUE]
                 ELSE [record EXCEPT !.field = Append(@, Head1)]
    /\ line' = Tail(line)
    /\ UNCHANGED <<table, file, reader, headers, values, status>>

Refuse ==
    /\ Malformed
    /\ status' = "error"
    /\ UNCHANGED <<table, file, reader, line, record, headers, values>>

AtEof == status = "reading" /\ line = <<>> /\ reader = Len(file.text)

(* finish_eof: nothing was read, a last record, or an open quotation.      *)
Eof ==
    /\ AtEof /\ ~ record.inQuotes /\ ~ record.sawInput
    /\ status' = "done"
    /\ UNCHANGED <<table, file, reader, line, record, headers, values>>

LastRecord ==
    /\ AtEof /\ ~ record.inQuotes /\ record.sawInput
    /\ Emit(FinishField(record).fields)
    /\ record' = NewRecord
    /\ UNCHANGED <<table, file, reader, line>>

OpenQuote ==
    /\ AtEof /\ record.inQuotes
    /\ status' = "error"
    /\ UNCHANGED <<table, file, reader, line, record, headers, values>>

Next ==
    \/ ReadLine \/ Quoted \/ Delimiter \/ RecordEnding \/ Character
    \/ Refuse \/ Eof \/ LastRecord \/ OpenQuote

Spec == Init /\ [][Next]_vars

-----------------------------------------------------------------------------
(* Properties                                                              *)

(* The header of a table and what its records must come out as.            *)
GoodHeader == table # <<>> /\ Unique(table[1]) /\ <<>> \notin Range(table[1])

Expected ==
    IF ~ file.how.withHeaders
    THEN [i \in DOMAIN table |-> [fields |-> table[i], line |-> i]]
    ELSE [i \in 1..Len(table) - 1 |->
             [fields |-> [j \in DOMAIN table[1] |->
                             IF j \in DOMAIN table[i + 1] THEN table[i + 1][j] ELSE <<"NULL">>],
              line |-> i + 1]]

(* Whatever the style, quotations over line ends included, the values that *)
(* were given are those of the table, in order and numbered by record; and *)
(* when the file ends without an error all of them were given.             *)
ReadsWhatWasWritten ==
    file.how.spoilt = "no" =>
        /\ status # "error" => IsPrefix(values, Expected)
        /\ status = "done" => values = Expected

(* Only a bad header makes a written file fail, and a spoilt one fails.    *)
FailsWhenMalformed ==
    /\ status = "error" => file.how.spoilt # "no" \/ (file.how.withHeaders /\ ~ GoodHeader)
    /\ status = "done" => file.how.spoilt = "no"
=============================================================================
