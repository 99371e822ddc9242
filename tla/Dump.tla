-------------------------------- MODULE Dump --------------------------------
(***************************************************************************)
(* The command line, leveldb4n6/src/main.rs and lib.rs: dump reads and     *)
(* decodes a directory, writes one line for each record to the standard    *)
(* output, and exits.  Any of the writes may fail.                         *)
(*                                                                         *)
(* Standard output is line buffered: what a failed write leaves of its     *)
(* line is a prefix of it, and after the last line there is nothing left   *)
(* for flush to write, so that its ignored result is not modelled.         *)
(***************************************************************************)
EXTENDS OutputReaders

CONSTANTS Decoded,      \* Decoded[m]: the lists that may be decoded in mode m
          Replacement   \* the character U+FFFD

Text  == Seq(DOMAIN CodePoint)
Bytes == Seq(0..255)

StoredText == {v \in [text : Text, raw : Bytes, lossy : BOOLEAN,
                      encoding : {"Utf16Le", "Latin1", "Empty", "Unknown"}] :
                  v.encoding = "Unknown" => v.raw # <<>>}

\* An Option over X.
Option(X) == {option \in SUBSET X : \A x, y \in option : x = y}

\* What read_dir and the two decoders give.
RawRecord       == [kind : {"Raw"}, origin_file : Text, key : Bytes, value : Bytes,
                    seq : Nat, deleted : BOOLEAN]
MetaRecord      == [kind : {"Meta"}, origin : Text, timestamp : Nat, size : Option(Nat),
                    seq : Nat, deleted : BOOLEAN]
DataRecord      == [kind : {"Data"}, origin : Text, script_key : StoredText,
                    value : StoredText, seq : Nat, deleted : BOOLEAN]
NamespaceRecord == [kind : {"Namespace"}, guid : Text, host : Text, map_id : Text,
                    seq : Nat, deleted : BOOLEAN]
MapRecord       == [kind : {"Map"}, map_id : Text, host : Option(Text), script_key : Text,
                    value : StoredText, seq : Nat, deleted : BOOLEAN]
OtherRecord     == [kind : {"Other"}, key : Bytes, seq : Nat, deleted : BOOLEAN]

Record(m) == CASE m = "Raw"     -> RawRecord
               [] m = "Local"   -> MetaRecord \cup DataRecord \cup OtherRecord
               [] m = "Session" -> NamespaceRecord \cup MapRecord \cup OtherRecord

ASSUME DecodedAssumption ==
    \A m \in {"Raw", "Local", "Session"} : Decoded[m] \subseteq Seq(Record(m))

\* The numbers that are written of a record.
Numbers(r) == {r.seq} \cup IF r.kind = "Meta" THEN {r.timestamp} \cup r.size ELSE {}

\* A number that is written is nothing that a format takes for something else.
ASSUME NumberAssumption ==
    \A m \in {"Raw", "Local", "Session"} : \A rs \in Decoded[m] : \A k \in DOMAIN rs :
        \A n \in Numbers(rs[k]) : ToString(n) \notin {"\n", "\r", "\"", ",", "null"}

\* The name of a member is a word of the program.
ASSUME NameAssumption ==
    \A names \in {raw_header, local_header, session_header, <<"value_raw_hex">>} :
        \A name \in Range(names) : ~IsControl(name)

VARIABLES mode, format,
          records,
          next,         \* the record to write next, 0 for the header row
          output,
          exit          \* "none" while the program runs

vars == <<mode, format, records, next, output, exit>>

Modes   == {"Raw", "Local", "Session"}
Formats == {"Text", "Jsonl", "Csv"}

HEADER  == 0
READING == -1

TypeOK == /\ mode \in Modes /\ format \in Formats
          /\ records \in Seq(Record(mode))
          /\ next \in READING..Len(records) + 1
          /\ exit \in {"none", "success", "failure"}
          /\ next = READING => records = <<>>
          /\ exit = "success" => next = Len(records) + 1

-----------------------------------------------------------------------------
header == CASE mode = "Raw"     -> raw_header
            [] mode = "Local"   -> local_header
            [] mode = "Session" -> session_header

render(r) ==
    CASE mode = "Raw" /\ format = "Text"      -> raw_text(r)
      [] mode = "Raw" /\ format = "Jsonl"     -> raw_jsonl(r)
      [] mode = "Raw" /\ format = "Csv"       -> raw_csv(r)
      [] mode = "Local" /\ format = "Text"    -> local_text(r)
      [] mode = "Local" /\ format = "Jsonl"   -> local_jsonl(r)
      [] mode = "Local" /\ format = "Csv"     -> local_csv(r)
      [] mode = "Session" /\ format = "Text"  -> session_text(r)
      [] mode = "Session" /\ format = "Jsonl" -> session_jsonl(r)
      [] mode = "Session" /\ format = "Csv"   -> session_csv(r)

\* The line to write next.
Line(n) == (IF n = HEADER THEN Row([k \in DOMAIN header |-> <<header[k]>>])
                          ELSE render(records[n])) \o <<"\n">>

FirstLine == IF format = "Csv" THEN HEADER ELSE 1

Everything == FlattenSeq([k \in 1..Len(records) + 1 - FirstLine |-> Line(FirstLine + k - 1)])

-----------------------------------------------------------------------------
Init == /\ mode \in Modes
        /\ format \in Formats
        /\ records = <<>>
        /\ next = READING
        /\ output = <<>>
        /\ exit = "none"

Reads == next = READING /\ exit = "none"

\* CliError::Read.
ReadFails == /\ Reads
             /\ exit' = "failure"
             /\ UNCHANGED <<mode, format, records, next, output>>

ReadAndDecode == /\ Reads
                 /\ records' \in Decoded[mode]
                 /\ next' = FirstLine
                 /\ UNCHANGED <<mode, format, output, exit>>

Writes == next \in HEADER..Len(records) /\ exit = "none"

WriteLine == /\ Writes
             /\ output' = output \o Line(next)
             /\ next' = next + 1
             /\ UNCHANGED <<mode, format, records, exit>>

\* Where a line of n tokens may be cut.
Cuts(n) == 0..n - 1

\* Mutant: the result of a write is ignored.
WriteErrorIgnored == /\ Writes
                     /\ \E cut \in Cuts(Len(Line(next))) :
                            output' = output \o SubSeq(Line(next), 1, cut)
                     /\ next' = next + 1
                     /\ UNCHANGED <<mode, format, records, exit>>

\* CliError::Write.
WriteFails == /\ Writes
              /\ \E cut \in Cuts(Len(Line(next))) :
                     output' = output \o SubSeq(Line(next), 1, cut)
              /\ exit' = "failure"
              /\ UNCHANGED <<mode, format, records, next>>

\* Mutant: the last record is left out.
DoneEarly == /\ next \in {Len(records), Len(records) + 1}
             /\ exit = "none"
             /\ exit' = "success"
             /\ UNCHANGED <<mode, format, records, next, output>>

Done == /\ next = Len(records) + 1
        /\ exit = "none"
        /\ exit' = "success"
        /\ UNCHANGED <<mode, format, records, next, output>>

Finished == exit # "none" /\ UNCHANGED vars

Next == ReadFails \/ ReadAndDecode \/ WriteLine \/ WriteFails \/ Done \/ Finished

Spec == Init /\ [][Next]_vars

-----------------------------------------------------------------------------
(* Properties.                                                             *)

\* What a reader should find in the line of a record, by the names of its
\* members.
null == Bare(<<"null">>)

Shown(r) ==
    CASE r.kind = "Raw" ->
            [origin_file |-> Str(r.origin_file),
             key_hex |-> Str(hex(r.key)), value_hex |-> Str(hex(r.value)),
             seq |-> Bare(Num(r.seq)), deleted |-> Bare(Bool(r.deleted))]
      [] r.kind = "Meta" ->
            [kind |-> Str(<<"meta">>), origin |-> Str(r.origin),
             timestamp_webkit_micros |-> Bare(Num(r.timestamp)),
             size |-> IF r.size = {} THEN null ELSE Bare(Num(CHOOSE n \in r.size : TRUE)),
             seq |-> Bare(Num(r.seq)), deleted |-> Bare(Bool(r.deleted))]
      [] r.kind = "Data" ->
            [kind |-> Str(<<"data">>), origin |-> Str(r.origin), key |-> Str(r.script_key.text),
             value |-> Str(r.value.text), value_encoding |-> Str(encoding_str(r.value)),
             lossy |-> Bare(Bool(r.value.lossy)), value_raw_hex |-> Str(hex(r.value.raw)),
             seq |-> Bare(Num(r.seq)), deleted |-> Bare(Bool(r.deleted))]
      [] r.kind = "Namespace" ->
            [kind |-> Str(<<"namespace">>), guid |-> Str(r.guid),
             host |-> Str(r.host), map_id |-> Str(r.map_id),
             seq |-> Bare(Num(r.seq)), deleted |-> Bare(Bool(r.deleted))]
      [] r.kind = "Map" ->
            [kind |-> Str(<<"map">>), map_id |-> Str(r.map_id),
             host |-> IF r.host = {} THEN null ELSE Str(CHOOSE h \in r.host : TRUE),
             key |-> Str(r.script_key),
             value |-> Str(r.value.text), value_encoding |-> Str(encoding_str(r.value)),
             lossy |-> Bare(Bool(r.value.lossy)),
             seq |-> Bare(Num(r.seq)), deleted |-> Bare(Bool(r.deleted))]
      [] r.kind = "Other" ->
            [kind |-> Str(<<"other">>), key_hex |-> Str(hex(r.key)),
             seq |-> Bare(Num(r.seq)), deleted |-> Bare(Bool(r.deleted))]

\* jsonl is "the faithful, round-trippable machine view" (render.rs:4-5): a
\* parser reads in every whole line, also of an output that a failed write cut
\* short, one object with what the record of that line shows and nothing else,
\* whatever characters its strings hold.
JsonlComesBack ==
    format = "Jsonl" =>
        LET lines == WholeLines(output)
        IN  /\ \A k \in DOMAIN lines : ReadObject(lines[k]) = {Shown(records[k])}
            /\ exit = "success" => Len(lines) = Len(records)

\* The cell that shows a member in the row of a record: null and a member that
\* its kind does not have are empty, the bytes of an unclassified key stand in
\* the column of the keys.
Cell(r, column) ==
    LET shown == Shown(r)
        name  == IF r.kind = "Other" /\ column = "key" THEN "key_hex" ELSE column
    IN  IF name \notin DOMAIN shown \/ shown[name] = null THEN <<>>
        ELSE IF shown[name].type = "string" THEN Guarded(shown[name].is)
        ELSE shown[name].is

\* csv is "RFC 4180 quoted" under a header row (render.rs:5-9, lib.rs:25): a
\* parser reads one row for each record, with a cell for each column of the
\* header and under each name the member of that name, whatever separators,
\* quotes and newlines the strings hold.
CsvComesBack ==
    format = "Csv" /\ exit = "success" =>
        ReadRows(output) =
            <<[j \in DOMAIN header |-> <<header[j]>>]>>
              \o [k \in DOMAIN records |-> [j \in DOMAIN header |-> Cell(records[k], header[j])]]

\* The strings that the text format writes as they are.
Verbatim(r) == CASE r.kind = "Raw"              -> {r.origin_file}
                 [] r.kind \in {"Meta", "Data"} -> {r.origin}
                 [] r.kind = "Namespace"        -> {r.guid, r.host, r.map_id}
                 [] r.kind = "Map"              -> {r.map_id} \cup r.host
                 [] r.kind = "Other"            -> {}

\* text keeps "a record on one line" (render.rs:3-4, lib.rs:21): the k-th line of
\* the output is that of the k-th record, whatever its script key and its value
\* hold.  Origins, hosts, ids and paths are taken to hold no line break, since
\* the code writes them as they are.
TextLinePerRecord ==
    LET breaks   == {"\n", "\r"}
        tame(r)  == \A s \in Verbatim(r) : Range(s) \cap breaks = {}
    IN  format = "Text" /\ exit = "success" /\ (\A k \in DOMAIN records : tame(records[k])) =>
            /\ WholeLines(output) = [k \in DOMAIN records |-> render(records[k])]
            /\ "\r" \notin Range(output)

\* "a loud CliError, never a silent empty dump" (lib.rs:69-70, main.rs:43-51):
\* success is reported exactly when the directory was read and every line was
\* written; what a failure leaves is the beginning of that output.
ExitIsHonest ==
    /\ exit = "success" => next # READING /\ output = Everything
    /\ exit = "failure" /\ next # READING => output # Everything
    /\ IF next = READING THEN output = <<>> ELSE IsPrefix(output, Everything)

\* The members of the line of r that show its stored value, and not all of it.
Lossy(r) ==
    CASE r.kind \in {"Data", "Map"} -> {name \in {"value"} : r.value.lossy}
      [] r.kind = "Namespace"       -> {name \in {"map_id"} : Replacement \in Range(r.map_id)}
      [] OTHER                      -> {}

RawName == ("value" :> "value_raw_hex") @@ ("map_id" :> "map_id_raw_hex")

\* "An examiner sees the raw bytes for any value the decoder could not cleanly
\* interpret" (docs/decisions/0006:47; "nothing truncated or altered",
\* render.rs:4-5): in a jsonl dump, a member with the raw bytes stands beside every
\* stored value that lost something, as value_raw_hex does in Local Storage.
LossyShowsRaw ==
    format = "Jsonl" /\ exit = "success" =>
        \A k \in DOMAIN records : \A name \in Lossy(records[k]) :
            \A line \in ReadObject(WholeLines(output)[k]) : RawName[name] \in DOMAIN line
=============================================================================
