------------------------------ MODULE Serialize ------------------------------
(***************************************************************************)
(* The conversions of src/serialize.rs between Lua values, JSON and CSV,   *)
(* which scripts use directly (tables json and csv) and through the        *)
(* document store (doc.set encodes, doc.get decodes).                      *)
(*                                                                         *)
(* A Lua value is <<"nil">>, <<"bool", b>>, <<"int", n>>, <<"str", s>> or  *)
(* <<"tab", f>> with f from keys (integers and strings) to values that are *)
(* not nil.  A JSON value is <<"null">>, <<"bool", b>>, <<"num", n>>,      *)
(* <<"str", s>>, <<"arr", e>> or <<"obj", m>>.  A CSV text is its header   *)
(* and its records; quoting is the csv crate's, and JSON text is           *)
(* serde_json's.  Keys hold no dot, and texts no blank at their ends.      *)
(***************************************************************************)
EXTENDS Integers, Sequences, SequencesExt

CONSTANTS
    Numeral,   \* the decimal text of each integer that occurs
    KeyOrder,  \* the column names that occur, in string order
    FieldKey,  \* keys the script uses in its table
    Element    \* values it puts there

ASSUME SerializeAssumption ==
    /\ \A m, n \in DOMAIN Numeral : m # n => Numeral[m] # Numeral[n]
    /\ \A n \in DOMAIN Numeral : n \in Int

VARIABLE value  \* the table a script has built and converts

Nil == <<"nil">>
EmptyTable == <<"tab", <<>>>>
IsTable(v) == v[1] = "tab"
KeysOf(v) == DOMAIN v[2]
RawGet(v, k) == IF k \in KeysOf(v) THEN v[2][k] ELSE Nil

\* A table from the pairs whose value is not nil.
TableOf(keys, At(_)) ==
    <<"tab", [k \in {x \in keys : At(x) # Nil} |-> At(k)]>>

\* raw_len: any border of the table, as Lua has it, also one beyond a first
\* element that is nil.
RawLens(v) ==
    LET filled == {n \in DOMAIN Numeral : n >= 1 /\ <<"int", n>> \in KeysOf(v)}
    IN  {n \in filled : n + 1 \notin filled} \cup (IF 1 \in filled THEN {} ELSE {0})

-----------------------------------------------------------------------------
(* JSON.                                                                   *)

\* The key of an object: strings as they are, integers in decimal.
KeyText(k) == IF k[1] = "str" THEN k[2] ELSE Numeral[k[2]]

RECURSIVE LuaToJson(_)

\* Mutant of ArraysOf: the loop runs over 1..len, the last element excluded.
ArraysOfOpenRange(v, n) ==
    LET at(i) == LuaToJson(RawGet(v, <<"int", i>>)) IN
    {<<"arr", e>> : e \in {g \in [1 .. n - 1 -> UNION {at(i) : i \in 1 .. n}] :
                              \A i \in 1 .. n - 1 : g[i] \in at(i)}}

\* The arrays a table with border n may become.
ArraysOf(v, n) ==
    LET at(i) == LuaToJson(RawGet(v, <<"int", i>>)) IN
    {<<"arr", e>> : e \in {g \in [1 .. n -> UNION {at(i) : i \in 1 .. n}] :
                              \A i \in 1 .. n : g[i] \in at(i)}}

ObjectsOf(v) ==
    LET text == {KeyText(k) : k \in KeysOf(v)}
        at(s) == UNION {LuaToJson(v[2][k]) : k \in {x \in KeysOf(v) : KeyText(x) = s}}
    IN  {<<"obj", m>> : m \in {g \in [text -> UNION {at(s) : s \in text}] :
                                  \A s \in text : g[s] \in at(s)}}

\* lua_to_json: everything v may become.  A table with a border above 0 is an
\* array, and its other keys are dropped; any other table is an object.
LuaToJson(v) ==
    CASE v[1] = "nil" -> {<<"null">>}
      [] v[1] = "int" -> {<<"num", v[2]>>}
      [] v[1] \in {"bool", "str"} -> {v}
      [] OTHER -> UNION {IF n > 0 THEN ArraysOf(v, n) ELSE ObjectsOf(v) : n \in RawLens(v)}

RECURSIVE JsonToLua(_)

\* json_to_lua: a null field is a nil, that is, no field.
JsonToLua(j) ==
    CASE j[1] = "null" -> Nil
      [] j[1] = "num" -> <<"int", j[2]>>
      [] j[1] \in {"bool", "str"} -> j
      [] j[1] = "arr" ->
           LET at(k) == JsonToLua(j[2][k[2]])
           IN  TableOf({<<"int", i>> : i \in DOMAIN j[2]}, at)
      [] OTHER ->
           LET at(k) == JsonToLua(j[2][k[2]])
           IN  TableOf({<<"str", s>> : s \in DOMAIN j[2]}, at)

\* json_query_value along the segments of a path; an error is <<"error">>.
JsonQuery(j, path) ==
    LET index(s) == {n \in DOMAIN Numeral : Numeral[n] = s}
        step(cur, s) ==
          CASE cur[1] = "obj" /\ s \in DOMAIN cur[2] -> cur[2][s]
            [] cur[1] = "arr" /\ \E n \in index(s) : n + 1 \in DOMAIN cur[2] ->
                 cur[2][(CHOOSE n \in index(s) : TRUE) + 1]
            [] OTHER -> <<"error">>
    IN  FoldLeft(step, j, path)

-----------------------------------------------------------------------------
(* CSV.                                                                    *)

\* csv_encode of a field.  Arrays and objects are written as JSON.
CellText(j) ==
    CASE j[1] = "null" -> ""
      [] j[1] = "str" -> j[2]
      [] j[1] = "num" -> Numeral[j[2]]
      [] j[1] = "bool" -> IF j[2] THEN "true" ELSE "false"
      [] OTHER -> "json"

\* The columns are the keys of all rows, sorted; a row that is not an object is
\* an error.
Encodable(j) == j[1] = "arr" /\ \A i \in DOMAIN j[2] : j[2][i][1] = "obj"

CsvEncode(j) ==
    LET used == UNION {DOMAIN j[2][i][2] : i \in DOMAIN j[2]}
        columns == SelectSeq(KeyOrder, LAMBDA c : c \in used)
        cell(row, c) == IF c \in DOMAIN row THEN CellText(row[c]) ELSE ""
    IN  [columns |-> columns,
         records |-> [i \in DOMAIN j[2] |->
                        [n \in DOMAIN columns |-> cell(j[2][i][2], columns[n])]]]

\* Mutant of FieldValue: no attempt at a number.
FieldValueText(s) == IF s = "" THEN Nil ELSE <<"str", s>>

\* csv_decode of a field: a number if it parses as one, nil if it is empty; a
\* boolean is not recognised.
FieldValue(s) ==
    IF \E n \in DOMAIN Numeral : Numeral[n] = s
    THEN <<"int", CHOOSE n \in DOMAIN Numeral : Numeral[n] = s>>
    ELSE IF s = "" THEN Nil ELSE <<"str", s>>

RowTable(columns, record) ==
    LET at(k) == FieldValue(record[CHOOSE n \in DOMAIN columns : columns[n] = k[2]])
    IN  TableOf({<<"str", c>> : c \in ToSet(columns)}, at)

CsvDecode(text) ==
    LET at(k) == RowTable(text.columns, text.records[k[2]])
    IN  TableOf({<<"int", i>> : i \in DOMAIN text.records}, at)

\* Mutant of Selects: the value may be in any column.
SelectsAnyColumn(text, r, col, expected) ==
    \E n \in DOMAIN text.columns : text.records[r][n] = expected

Selects(text, r, col, expected) ==
    \E n \in DOMAIN text.columns : text.columns[n] = col /\ text.records[r][n] = expected

\* csv_query: the rows whose field col is expected, each at its own index.
CsvQuery(text, col, expected) ==
    LET at(k) == RowTable(text.columns, text.records[k[2]])
    IN  TableOf({<<"int", i>> : i \in {r \in DOMAIN text.records :
                                          Selects(text, r, col, expected)}}, at)

-----------------------------------------------------------------------------
(* A script fills a table.                                                 *)

SetField(k, v) ==
    /\ k \notin KeysOf(value)
    /\ value' = <<"tab", [x \in KeysOf(value) \cup {k} |-> IF x = k THEN v ELSE value[2][x]]>>

SerializeInit == value = EmptyTable
SerializeNext == \E k \in FieldKey, v \in Element : SetField(k, v)

-----------------------------------------------------------------------------
(* Properties.                                                             *)

IsArray(v) ==
    \E n \in {0} \cup DOMAIN Numeral : KeysOf(v) = {<<"int", i>> : i \in 1 .. n}
IsObject(v) == \A k \in KeysOf(v) : k[1] = "str"

RECURSIVE Proper(_)

\* Every table in v is a list without holes or has string keys only.
Proper(v) ==
    IsTable(v) => /\ IsArray(v) \/ IsObject(v)
                  /\ \A k \in KeysOf(v) : Proper(v[2][k])

\* What doc.set or json.enc wrote, doc.get or json.dec gives back: a table of
\* lists and string-keyed tables, nested in any way, is restored exactly, and
\* its JSON does not depend on which border Lua reports.  (A list with holes or
\* with further keys is outside: part of it is lost, which part is up to Lua.)
JsonRoundTrip ==
    Proper(value) => \E j \in LuaToJson(value) :
                        LuaToJson(value) = {j} /\ JsonToLua(j) = value

\* A list of rows with different columns survives csv.enc and csv.dec as long as
\* no text in it is empty or looks like a number, and there is no boolean in it,
\* which would come back as text.
CsvRoundTrip ==
    LET plain(v) == \/ v[1] = "int"
                    \/ v[1] = "str" /\ v[2] # "" /\ \A n \in DOMAIN Numeral : Numeral[n] # v[2]
        rows == {value[2][k] : k \in KeysOf(value)}
    IN  (/\ IsArray(value)
         /\ \A r \in rows : IsTable(r) /\ IsObject(r) /\ \A k \in KeysOf(r) : plain(r[2][k])
         /\ \E r \in rows : KeysOf(r) # {})
        => \A j \in LuaToJson(value) : CsvDecode(CsvEncode(j)) = value

\* Everything csv.q is asked about text: a column and a value of one of its fields.
Filters(text) ==
    {<<text.columns[n], text.records[r][n]>> : n \in DOMAIN text.columns, r \in DOMAIN text.records}
RowsOf(v) == {v[2][k] : k \in KeysOf(v)}

\* A query selects what a script would select from the decoded text, whichever
\* border Lua reports.  json.q indexes the value, and the tables in it, with list
\* positions counted from 0.  The rows of csv.q are those of csv.dec in which the
\* column decodes to the value: a number, a text, or nothing.  (A text that parses
\* as a number but is not its decimal form, such as 07, is outside.)
QueriesAgree ==
    LET segment(k) == IF k[1] = "int" THEN Numeral[k[2] - 1] ELSE k[2] IN
    \A j \in LuaToJson(value) :
        /\ LET v == JsonToLua(j) IN
           \A k \in KeysOf(v) :
               /\ JsonToLua(JsonQuery(j, <<segment(k)>>)) = v[2][k]
               /\ IsTable(v[2][k]) => \A l \in KeysOf(v[2][k]) :
                    JsonToLua(JsonQuery(j, <<segment(k), segment(l)>>)) = v[2][k][2][l]
        /\ Encodable(j) =>
             LET text == CsvEncode(j) IN
             \A f \in Filters(text) :
                 RowsOf(CsvQuery(text, f[1], f[2])) =
                     {r \in RowsOf(CsvDecode(text)) :
                        RawGet(r, <<"str", f[1]>>) = FieldValue(f[2])}

\* "Returns an array of matching rows" (serialize.rs:416): csv.q numbers the rows
\* it returns from 1 on, so that a script can go through them with ipairs.
CsvQueryIsArray ==
    \A j \in LuaToJson(value) :
        Encodable(j) =>
            LET text == CsvEncode(j) IN
            \A f \in Filters(text) : IsArray(CsvQuery(text, f[1], f[2]))
=============================================================================
