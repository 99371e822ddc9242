------------------------------- MODULE Render -------------------------------
(***************************************************************************)
(* The renderers of leveldb4n6/src/render.rs: one line for each record, as *)
(* text, as a JSON object or as a CSV row.                                 *)
(*                                                                         *)
(* A text is a sequence of tokens: a character each, or a word of the      *)
(* program or a number, of which no character is ever special.  Records    *)
(* have the form the decoders (SessionStorage, LocalStorage, Value) give   *)
(* them, with kind |-> "Raw" for the records of read_dir.                  *)
(***************************************************************************)
EXTENDS Integers, Sequences, SequencesExt, TLC

CONSTANT CodePoint      \* of each character that is not a word or a number

\* No two characters have the same code point.
ASSUME CodePointAssumption ==
    /\ \A c \in DOMAIN CodePoint : CodePoint[c] \in Nat
    /\ \A c, d \in DOMAIN CodePoint : CodePoint[c] = CodePoint[d] => c = d

Digits == <<"0", "1", "2", "3", "4", "5", "6", "7", "8", "9", "a", "b", "c", "d", "e", "f">>

hex(bytes) == FlattenSeq([k \in DOMAIN bytes |-> <<Digits[1 + (bytes[k] \div 16)],
                                                   Digits[1 + (bytes[k] % 16)]>>])

IsControl(c) == c \in DOMAIN CodePoint /\ CodePoint[c] < 32

\* The character after the backslash of a short escape.
Escapes == [c \in {"\"", "\\", "\n", "\r", "\t"} |->
                CASE c = "\n" -> "n" [] c = "\r" -> "r" [] c = "\t" -> "t" [] OTHER -> c]

\* Mutant: a backslash is copied.
EscapedButBackslash(c) == IF c \in DOMAIN Escapes \ {"\\"} THEN <<"\\", Escapes[c]>>
                          ELSE IF IsControl(c) THEN <<"\\", "u", "0", "0">> \o hex(<<CodePoint[c]>>)
                          ELSE <<c>>

Escaped(c) == IF c \in DOMAIN Escapes THEN <<"\\", Escapes[c]>>
              ELSE IF IsControl(c) THEN <<"\\", "u", "0", "0">> \o hex(<<CodePoint[c]>>)
              ELSE <<c>>

json_string(s) == <<"\"">> \o FlattenSeq([k \in DOMAIN s |-> Escaped(s[k])]) \o <<"\"">>

\* jsonguard::csv_field (external): a lead-in that a spreadsheet would execute
\* is guarded by an apostrophe, then the field is quoted if it has to be.
LeadIns == {"=", "+", "-", "@"}

Guarded(s) == IF s # <<>> /\ s[1] \in LeadIns THEN <<"'">> \o s ELSE s

csv_field(s) ==
    LET cell   == Guarded(s)
        double == FlattenSeq([k \in DOMAIN cell |-> IF cell[k] = "\"" THEN <<"\"", "\"">>
                                                    ELSE <<cell[k]>>])
    IN  IF Range(cell) \cap {",", "\"", "\n", "\r"} = {} THEN cell
        ELSE <<"\"">> \o double \o <<"\"">>

\* Mutant: carriage returns and tabs only are flattened.
OnelineButNewline(s) == [k \in DOMAIN s |-> IF s[k] \in {"\r", "\t"} THEN " " ELSE s[k]]

oneline(s) == [k \in DOMAIN s |-> IF s[k] \in {"\n", "\r", "\t"} THEN " " ELSE s[k]]

\* The payload of Encoding::Unknown is the first byte of the value.
encoding_str(v) ==
    CASE v.encoding = "Utf16Le" -> <<"utf-16-le">>
      [] v.encoding = "Latin1"  -> <<"latin-1">>
      [] v.encoding = "Empty"   -> <<"empty">>
      [] v.encoding = "Unknown" -> <<"unknown(0x">> \o hex(<<v.raw[1]>>) \o <<")">>

Num(n)  == <<ToString(n)>>
Bool(b) == <<IF b THEN "true" ELSE "false">>

\* An Option is a set of at most one: its element, or none.
MapOr(option, none) == IF option = {} THEN none ELSE CHOOSE x \in option : TRUE

Nums(option) == {Num(n) : n \in option}

Joined(parts, sep) ==
    FlattenSeq([k \in DOMAIN parts |-> IF k = 1 THEN parts[k] ELSE <<sep>> \o parts[k]])

\* " name=content" pairs, members of an object, the object, the cells of a row.
Field(name, content)  == <<name, "=">> \o content
Fields(kind, fs)      == Joined(<<<<kind>>>> \o fs, " ")
Member(name, content) == <<"\"", name, "\"", ":">> \o content
Object(members)       == <<"{">> \o Joined(members, ",") \o <<"}">>
Row(cells)            == Joined(cells, ",")

SeqFields(r)  == <<Field("seq", Num(r.seq)), Field("deleted", Bool(r.deleted))>>
SeqMembers(r) == <<Member("seq", Num(r.seq)), Member("deleted", Bool(r.deleted))>>
SeqCells(r)   == <<Num(r.seq), Bool(r.deleted)>>

ValueFields(v)  == <<Field("value", oneline(v.text)), Field("enc", encoding_str(v)),
                     Field("lossy", Bool(v.lossy))>>
ValueMembers(v) == <<Member("value", json_string(v.text)),
                     Member("value_encoding", json_string(encoding_str(v))),
                     Member("lossy", Bool(v.lossy))>>
ValueCells(v)   == <<csv_field(v.text), encoding_str(v), Bool(v.lossy)>>

NoCell == <<>>

-----------------------------------------------------------------------------
raw_text(r) == Joined(SeqFields(r) \o <<Field("file", r.origin_file), Field("key", hex(r.key)),
                                        Field("value", hex(r.value))>>, " ")

raw_jsonl(r) == Object(<<Member("origin_file", json_string(r.origin_file))>>
                         \o SeqMembers(r)
                         \o <<Member("key_hex", json_string(hex(r.key))),
                              Member("value_hex", json_string(hex(r.value)))>>)

raw_header == <<"origin_file", "seq", "deleted", "key_hex", "value_hex">>
raw_csv(r) == Row(<<csv_field(r.origin_file)>> \o SeqCells(r) \o <<hex(r.key), hex(r.value)>>)

other_text(r)  == Fields("other", <<Field("key", hex(r.key))>> \o SeqFields(r))
other_jsonl(r) == Object(<<Member("kind", json_string(<<"other">>)),
                           Member("key_hex", json_string(hex(r.key)))>> \o SeqMembers(r))

local_text(r) ==
    CASE r.kind = "Meta" ->
            Fields("meta", <<Field("origin", r.origin), Field("ts_webkit_micros", Num(r.timestamp)),
                             Field("size", MapOr(Nums(r.size), <<"-">>))>> \o SeqFields(r))
      [] r.kind = "Data" ->
            Fields("data", <<Field("origin", r.origin), Field("key", oneline(r.script_key.text))>>
                             \o ValueFields(r.value) \o SeqFields(r))
      [] r.kind = "Other" -> other_text(r)

local_jsonl(r) ==
    CASE r.kind = "Meta" ->
            Object(<<Member("kind", json_string(<<"meta">>)),
                     Member("origin", json_string(r.origin)),
                     Member("timestamp_webkit_micros", Num(r.timestamp)),
                     Member("size", MapOr(Nums(r.size), <<"null">>))>> \o SeqMembers(r))
      [] r.kind = "Data" ->
            Object(<<Member("kind", json_string(<<"data">>)),
                     Member("origin", json_string(r.origin)),
                     Member("key", json_string(r.script_key.text))>>
                   \o ValueMembers(r.value)
                   \o <<Member("value_raw_hex", json_string(hex(r.value.raw)))>> \o SeqMembers(r))
      [] r.kind = "Other" -> other_jsonl(r)

local_header == <<"kind", "origin", "key", "value", "value_encoding", "lossy",
                  "timestamp_webkit_micros", "size", "seq", "deleted">>

local_csv(r) ==
    CASE r.kind = "Meta" ->
            Row(<<<<"meta">>, csv_field(r.origin), NoCell, NoCell, NoCell, NoCell,
                  Num(r.timestamp), MapOr(Nums(r.size), NoCell)>> \o SeqCells(r))
      [] r.kind = "Data" ->
            Row(<<<<"data">>, csv_field(r.origin), csv_field(r.script_key.text)>>
                \o ValueCells(r.value) \o <<NoCell, NoCell>> \o SeqCells(r))
      [] r.kind = "Other" ->
            Row(<<<<"other">>, NoCell, hex(r.key), NoCell, NoCell, NoCell, NoCell, NoCell>>
                \o SeqCells(r))

session_text(r) ==
    CASE r.kind = "Namespace" ->
            Fields("namespace", <<Field("guid", r.guid), Field("host", r.host),
                                  Field("map_id", r.map_id)>> \o SeqFields(r))
      [] r.kind = "Map" ->
            Fields("map", <<Field("map_id", r.map_id), Field("host", MapOr(r.host, <<"-">>)),
                            Field("key", oneline(r.script_key))>>
                            \o ValueFields(r.value) \o SeqFields(r))
      [] r.kind = "Other" -> other_text(r)

session_jsonl(r) ==
    CASE r.kind = "Namespace" ->
            Object(<<Member("kind", json_string(<<"namespace">>)),
                     Member("guid", json_string(r.guid)),
                     Member("host", json_string(r.host)),
                     Member("map_id", json_string(r.map_id))>> \o SeqMembers(r))
      [] r.kind = "Map" ->
            Object(<<Member("kind", json_string(<<"map">>)),
                     Member("map_id", json_string(r.map_id)),
                     Member("host", MapOr({json_string(h) : h \in r.host}, <<"null">>)),
                     Member("key", json_string(r.script_key))>>
                   \o ValueMembers(r.value) \o SeqMembers(r))
      [] r.kind = "Other" -> other_jsonl(r)

session_header == <<"kind", "guid", "host", "map_id", "key", "value", "value_encoding",
                    "lossy", "seq", "deleted">>

\* Mutant: a column is missing from the row of a map.
SessionCsvShort(r) ==
    CASE r.kind = "Namespace" ->
            Row(<<<<"namespace">>, csv_field(r.guid), csv_field(r.host), csv_field(r.map_id),
                  NoCell, NoCell, NoCell, NoCell>> \o SeqCells(r))
      [] r.kind = "Map" ->
            Row(<<<<"map">>, csv_field(MapOr(r.host, <<>>)), csv_field(r.map_id),
                  csv_field(r.script_key)>> \o ValueCells(r.value) \o SeqCells(r))
      [] r.kind = "Other" ->
            Row(<<<<"other">>, NoCell, NoCell, NoCell, hex(r.key), NoCell, NoCell, NoCell>>
                \o SeqCells(r))

session_csv(r) ==
    CASE r.kind = "Namespace" ->
            Row(<<<<"namespace">>, csv_field(r.guid), csv_field(r.host), csv_field(r.map_id),
                  NoCell, NoCell, NoCell, NoCell>> \o SeqCells(r))
      [] r.kind = "Map" ->
            Row(<<<<"map">>, NoCell, csv_field(MapOr(r.host, <<>>)), csv_field(r.map_id),
                  csv_field(r.script_key)>> \o ValueCells(r.value) \o SeqCells(r))
      [] r.kind = "Other" ->
            Row(<<<<"other">>, NoCell, NoCell, NoCell, hex(r.key), NoCell, NoCell, NoCell>>
                \o SeqCells(r))
=============================================================================
