----------------------------- MODULE DumpProofs -----------------------------
(***************************************************************************)
(* Theorems about Dump: whatever the decoders give, wherever a write       *)
(* fails, the exit code tells whether all of the output was written, a     *)
(* record keeps its line as text, and a parser reads back what the records *)
(* show as JSON and as CSV.                                                *)
(***************************************************************************)
EXTENDS Dump, SequenceLemmas, FiniteSetTheorems

-----------------------------------------------------------------------------
(* What lines are made of.                                                 *)

\* The words that the renderers write.
Words ==
    {"0", "1", "2", "3", "4", "5", "6", "7", "8", "9", "a", "b", "c", "d", "e", "f",
     "\"", "\\", "n", "r", "t", "u", "'", ",", " ", "=", ":", "{", "}", "-",
     "utf-16-le", "latin-1", "empty", "unknown(0x", ")", "true", "false", "null",
     "meta", "data", "other", "namespace", "map", "kind", "seq", "deleted", "value", "enc",
     "lossy", "value_encoding", "file", "key", "origin_file", "key_hex", "value_hex",
     "origin", "ts_webkit_micros", "size", "timestamp_webkit_micros", "value_raw_hex",
     "guid", "host", "map_id"}

\* The words of which nothing needs to be quoted, guarded or escaped.
PlainWords ==
    {"0", "1", "2", "3", "4", "5", "6", "7", "8", "9", "a", "b", "c", "d", "e", "f",
     "utf-16-le", "latin-1", "empty", "unknown(0x", ")", "meta", "data", "other", "namespace",
     "map", "true", "false"}

Token == DOMAIN CodePoint \cup Words \cup {"\n"} \cup {ToString(n) : n \in Nat}

\* Words and the characters of the texts are tokens, and a number is one.
LEMMA Tokens ==
    /\ Words \subseteq Token
    /\ DOMAIN CodePoint \subseteq Token
    /\ \A n \in Nat : Num(n) \in Seq(Token)
  <1>1. Words \subseteq Token /\ DOMAIN CodePoint \subseteq Token
    BY Zenon DEF Token
  <1>2. ASSUME NEW n \in Nat
        PROVE  Num(n) \in Seq(Token)
    <2>1. ToString(n) \in Token
      BY Zenon DEF Token
    <2>2. \A t \in Token : <<t>> \in Seq(Token)
      OBVIOUS
    <2> QED
      BY <2>1, <2>2, Zenon DEF Num
  <1> QED
    BY <1>1, <1>2

\* Short sequences, and one sequence after another.
LEMMA Ones ==
    ASSUME NEW X, NEW a \in X, NEW b \in X, NEW c \in X, NEW d \in X
    PROVE  /\ <<a>> \in Seq(X)
           /\ <<a, b>> \in Seq(X)
           /\ <<a, b, c>> \in Seq(X)
           /\ <<a, b, c, d>> \in Seq(X)
  OBVIOUS

LEMMA MoreOnes ==
    ASSUME NEW X, NEW a \in X, NEW b \in X, NEW c \in X, NEW d \in X,
           NEW e \in X, NEW f \in X, NEW g \in X, NEW h \in X
    PROVE  /\ <<a, b, c, d, e>> \in Seq(X)
           /\ <<a, b, c, d, e, f, g, h>> \in Seq(X)
  OBVIOUS

LEMMA FirstType ==
    ASSUME NEW X, NEW s \in Seq(X), s # <<>>
    PROVE  s[1] \in X
  <1>1. Len(s) \in Nat /\ Len(s) # 0
    BY EmptySeq, LenProperties
  <1> QED
    BY <1>1, ElementOfSeq

LEMMA Concat ==
    ASSUME NEW X, NEW s \in Seq(X), NEW t \in Seq(X)
    PROVE  s \o t \in Seq(X)
  OBVIOUS

\* Texts are lines.
LEMMA TextIsTokens ==
    ASSUME NEW s \in Text
    PROVE  s \in Seq(Token)
  BY Tokens DEF Text

\* Sequences of lines put together are a line.
LEMMA FlattenParts ==
    ASSUME NEW X, NEW n \in Nat, NEW f \in [1..n -> Seq(X)]
    PROVE  FlattenSeq(f) \in Seq(X)
  <1>1. f \in Seq(Seq(X))
    OBVIOUS
  <1> QED
    BY <1>1, FlattenType

\* Two digits for a byte.
LEMMA HexOf ==
    ASSUME NEW X, PlainWords \subseteq X, NEW bytes \in Bytes
    PROVE  hex(bytes) \in Seq(X)
  <1>1. bytes \in Seq(0..255) /\ Len(bytes) \in Nat /\ DOMAIN bytes = 1..Len(bytes)
    BY DEF Bytes
  <1>2. \A d \in 0..15 : Digits[1 + d] \in PlainWords
    <2> DEFINE D == {"0", "1", "2", "3", "4", "5", "6", "7", "8", "9", "a", "b", "c", "d", "e", "f"}
    <2>0. D \subseteq PlainWords
      BY DEF PlainWords
    <2>1. \A n \in 1..16 : Digits[n] \in D
      BY DEF Digits
    <2>2. \A d \in 0..15 : 1 + d \in 1..16
      OBVIOUS
    <2> HIDE DEF D
    <2> QED
      BY <2>0, <2>1, <2>2
  <1>3. ASSUME NEW k \in DOMAIN bytes
        PROVE  <<Digits[1 + (bytes[k] \div 16)], Digits[1 + (bytes[k] % 16)]>> \in Seq(X)
    <2>1. bytes[k] \in 0..255
      BY <1>1, ElementOfSeq
    <2>2. bytes[k] \div 16 \in 0..15 /\ bytes[k] % 16 \in 0..15
      BY <2>1
    <2> DEFINE x == Digits[1 + (bytes[k] \div 16)]
               y == Digits[1 + (bytes[k] % 16)]
    <2>3. x \in X /\ y \in X
      BY <1>2, <2>2
    <2> HIDE DEF x, y
    <2>4. <<x, y>> \in Seq(X)
      BY <2>3
    <2> QED
      BY <2>4 DEF x, y
  <1>4. [k \in DOMAIN bytes |-> <<Digits[1 + (bytes[k] \div 16)], Digits[1 + (bytes[k] % 16)]>>]
            \in [1..Len(bytes) -> Seq(X)]
    BY <1>1, <1>3, Zenon
  <1> QED
    BY <1>1, <1>4, FlattenParts DEF hex

\* Such words are words.
LEMMA PlainInWords == PlainWords \subseteq Words
  BY DEF PlainWords, Words

\* Two digits for a byte, and a name of an encoding, are made of words.
LEMMA HexOver ==
    ASSUME NEW X, Words \subseteq X, NEW bytes \in Bytes
    PROVE  hex(bytes) \in Seq(X)
  BY HexOf, PlainInWords

LEMMA HexType ==
    ASSUME NEW bytes \in Bytes
    PROVE  hex(bytes) \in Seq(Token)
  BY HexOver, Tokens

\* An escaped character.
LEMMA EscapedType ==
    ASSUME NEW c \in Token
    PROVE  Escaped(c) \in Seq(Token)
  <1>1. CASE c \in DOMAIN Escapes
    <2>1. "\\" \in Token /\ Escapes[c] \in Token
      BY <1>1, Tokens DEF Escapes, Words
    <2>2. Escaped(c) = <<"\\", Escapes[c]>>
      BY <1>1 DEF Escaped
    <2> DEFINE e == Escapes[c]
    <2> HIDE DEF e
    <2>3. <<"\\", e>> \in Seq(Token)
      BY <2>1 DEF e
    <2> QED
      BY <2>2, <2>3 DEF e
  <1>2. CASE c \notin DOMAIN Escapes /\ IsControl(c)
    <2>1. <<CodePoint[c]>> \in Bytes
      <3>1. CodePoint[c] \in 0..255
        BY <1>2, CodePointAssumption DEF IsControl
      <3> QED
        BY <3>1 DEF Bytes
    <2>2. <<"\\", "u", "0", "0">> \in Seq(Token)
      <3>1. "\\" \in Token /\ "u" \in Token /\ "0" \in Token
        BY Tokens DEF Words
      <3> QED
        BY <3>1
    <2>3. Escaped(c) = <<"\\", "u", "0", "0">> \o hex(<<CodePoint[c]>>)
      BY <1>2 DEF Escaped
    <2> QED
      BY <2>1, <2>2, <2>3, HexType, ConcatFacts
  <1>3. CASE c \notin DOMAIN Escapes /\ ~IsControl(c)
    BY <1>3 DEF Escaped
  <1> QED
    BY <1>1, <1>2, <1>3

\* A JSON string.
LEMMA JsonStringType ==
    ASSUME NEW s \in Seq(Token)
    PROVE  json_string(s) \in Seq(Token)
  <1>1. Len(s) \in Nat /\ DOMAIN s = 1..Len(s) /\ \A k \in DOMAIN s : s[k] \in Token
    OBVIOUS
  <1>2. [k \in DOMAIN s |-> Escaped(s[k])] \in [1..Len(s) -> Seq(Token)]
    BY <1>1, EscapedType
  <1>3. FlattenSeq([k \in DOMAIN s |-> Escaped(s[k])]) \in Seq(Token)
    BY <1>1, <1>2, FlattenParts
  <1> DEFINE f == FlattenSeq([k \in DOMAIN s |-> Escaped(s[k])])
  <1> HIDE DEF f
  <1>4. "\"" \in Token
    BY Tokens DEF Words
  <1>5. <<"\"">> \o f \o <<"\"">> \in Seq(Token)
    BY <1>3, <1>4, Ones, Concat, Zenon DEF f
  <1> QED
    BY <1>5 DEF f, json_string

\* A CSV field.
LEMMA CsvFieldType ==
    ASSUME NEW s \in Seq(Token)
    PROVE  csv_field(s) \in Seq(Token)
  <1> DEFINE cell   == Guarded(s)
             double == FlattenSeq([k \in DOMAIN cell |-> IF cell[k] = "\"" THEN <<"\"", "\"">>
                                                         ELSE <<cell[k]>>])
  <1>1. "'" \in Token /\ "\"" \in Token
    BY Tokens DEF Words
  <1>2. cell \in Seq(Token)
    <2>1. <<"'">> \o s \in Seq(Token)
      BY <1>1, Ones, Concat, Zenon
    <2> QED
      BY <2>1, Zenon DEF Guarded
  <1>3. csv_field(s) = cell \/ csv_field(s) = <<"\"">> \o double \o <<"\"">>
    BY DEF csv_field
  <1> HIDE DEF cell
  <1>4. Len(cell) \in Nat /\ DOMAIN cell = 1..Len(cell) /\ \A k \in DOMAIN cell : cell[k] \in Token
    BY <1>2
  <1>5. \A k \in DOMAIN cell :
            (IF cell[k] = "\"" THEN <<"\"", "\"">> ELSE <<cell[k]>>) \in Seq(Token)
    BY <1>1, <1>4, Ones, Zenon
  <1>6. double \in Seq(Token)
    <2>1. [k \in DOMAIN cell |-> IF cell[k] = "\"" THEN <<"\"", "\"">> ELSE <<cell[k]>>]
             \in [1..Len(cell) -> Seq(Token)]
      BY <1>4, <1>5
    <2> QED
      BY <1>4, <2>1, FlattenParts
  <1> HIDE DEF double
  <1>7. <<"\"">> \o double \o <<"\"">> \in Seq(Token)
    BY <1>1, <1>6, Ones, Concat, Zenon
  <1> QED
    BY <1>2, <1>3, <1>7

\* A text on one line.
LEMMA OnelineType ==
    ASSUME NEW s \in Seq(Token)
    PROVE  oneline(s) \in Seq(Token)
  <1>1. Len(s) \in Nat /\ DOMAIN s = 1..Len(s) /\ \A k \in DOMAIN s : s[k] \in Token
    OBVIOUS
  <1>2. " " \in Token
    BY Tokens DEF Words
  <1>3. oneline(s) \in [1..Len(s) -> Token]
    BY <1>1, <1>2 DEF oneline
  <1> QED
    BY <1>1, <1>3

\* Parts with a separator between them.
LEMMA JoinedOver ==
    ASSUME NEW X, NEW parts \in Seq(Seq(X)), NEW sep \in X
    PROVE  Joined(parts, sep) \in Seq(X)
  <1>1. Len(parts) \in Nat /\ DOMAIN parts = 1..Len(parts)
        /\ \A k \in DOMAIN parts : parts[k] \in Seq(X)
    OBVIOUS
  <1>2. \A k \in DOMAIN parts : (IF k = 1 THEN parts[k] ELSE <<sep>> \o parts[k]) \in Seq(X)
    BY <1>1
  <1>3. [k \in DOMAIN parts |-> IF k = 1 THEN parts[k] ELSE <<sep>> \o parts[k]]
            \in [1..Len(parts) -> Seq(X)]
    BY <1>1, <1>2
  <1> QED
    BY <1>1, <1>3, FlattenParts DEF Joined

\* Fields and members.
LEMMA MemberOver ==
    ASSUME NEW X, Words \subseteq X, NEW name \in Words, NEW content \in Seq(X)
    PROVE  Field(name, content) \in Seq(X) /\ Member(name, content) \in Seq(X)
  <1>1. name \in X /\ "=" \in X /\ "\"" \in X /\ ":" \in X
    BY DEF Words
  <1>2. Field(name, content) \in Seq(X)
    BY <1>1, Ones, Concat, Zenon DEF Field
  <1>3. Member(name, content) \in Seq(X)
    BY <1>1, Ones, Concat, Zenon DEF Member
  <1> QED
    BY <1>2, <1>3

LEMMA MemberType ==
    ASSUME NEW name \in Words, NEW content \in Seq(Token)
    PROVE  Field(name, content) \in Seq(Token) /\ Member(name, content) \in Seq(Token)
  BY MemberOver, Tokens

\* Lines of fields, objects and rows.
LEMMA LineOver ==
    ASSUME NEW X, Words \subseteq X, NEW kind \in Words, NEW parts \in Seq(Seq(X))
    PROVE  /\ Fields(kind, parts) \in Seq(X)
           /\ Joined(parts, " ") \in Seq(X)
           /\ Object(parts) \in Seq(X)
           /\ Row(parts) \in Seq(X)
  <1>1. kind \in X /\ " " \in X /\ "{" \in X /\ "}" \in X /\ "," \in X
    BY DEF Words
  <1>2. Fields(kind, parts) \in Seq(X)
    <2>1. <<kind>> \in Seq(X)
      BY <1>1, Ones, Zenon
    <2>2. <<<<kind>>>> \o parts \in Seq(Seq(X))
      BY <2>1, Ones, Concat, Zenon
    <2> QED
      BY <1>1, <2>2, JoinedOver DEF Fields
  <1>3. Joined(parts, ",") \in Seq(X) /\ Joined(parts, " ") \in Seq(X)
    BY <1>1, JoinedOver
  <1> DEFINE j == Joined(parts, ",")
  <1> HIDE DEF j
  <1>4. <<"{">> \o j \o <<"}">> \in Seq(X)
    BY <1>1, <1>3, Ones, Concat, Zenon DEF j
  <1> QED
    BY <1>2, <1>3, <1>4 DEF Object, Row, j

LEMMA LineType ==
    ASSUME NEW parts \in Seq(Seq(Token))
    PROVE  Object(parts) \in Seq(Token) /\ Row(parts) \in Seq(Token)
  <1>1. "kind" \in Words
    BY DEF Words
  <1> QED
    BY <1>1, LineOver, Tokens

\* What an option shows.
LEMMA MapOrType ==
    ASSUME NEW X, NEW option \in SUBSET X, NEW none \in X
    PROVE  MapOr(option, none) \in X
  <1>1. option # {} => (CHOOSE x \in option : TRUE) \in option
    OBVIOUS
  <1> QED
    BY <1>1 DEF MapOr

\* A yes or no.
LEMMA BoolOver ==
    ASSUME NEW X, Words \subseteq X, NEW b \in BOOLEAN
    PROVE  Bool(b) \in Seq(X)
  <1>1. (IF b THEN "true" ELSE "false") \in X
    BY DEF Words
  <1> QED
    BY <1>1, Ones, Zenon DEF Bool

\* Sequence number and deletion mark.
LEMMA SeqPartsType ==
    ASSUME NEW r, r.seq \in Nat, r.deleted \in BOOLEAN
    PROVE  /\ SeqMembers(r) \in Seq(Seq(Token))
           /\ SeqCells(r) \in Seq(Seq(Token))
  <1>1. Num(r.seq) \in Seq(Token)
    BY Tokens
  <1>2. Bool(r.deleted) \in Seq(Token)
    BY BoolOver, Tokens
  <1>3. "seq" \in Words /\ "deleted" \in Words
    BY DEF Words
  <1>4. /\ Member("seq", Num(r.seq)) \in Seq(Token)
        /\ Member("deleted", Bool(r.deleted)) \in Seq(Token)
    BY <1>1, <1>2, <1>3, MemberType, Zenon
  <1>5. SeqMembers(r) \in Seq(Seq(Token))
    BY <1>4, Ones, Zenon DEF SeqMembers
  <1>6. SeqCells(r) \in Seq(Seq(Token))
    BY <1>1, <1>2, Ones, Zenon DEF SeqCells
  <1> QED
    BY <1>5, <1>6

\* The name of an encoding.
LEMMA EncodingOf ==
    ASSUME NEW X, PlainWords \subseteq X, NEW v \in StoredText
    PROVE  encoding_str(v) \in Seq(X)
  <1>1. /\ v.raw \in Bytes /\ v.encoding \in {"Utf16Le", "Latin1", "Empty", "Unknown"}
        /\ v.encoding = "Unknown" => v.raw # <<>>
    BY DEF StoredText
  <1>2. /\ "utf-16-le" \in X /\ "latin-1" \in X /\ "empty" \in X
        /\ "unknown(0x" \in X /\ ")" \in X
    BY DEF PlainWords
  <1>3. CASE v.encoding = "Unknown"
    <2>1. <<v.raw[1]>> \in Bytes
      <3>1. v.raw \in Seq(0..255) /\ v.raw # <<>>
        BY <1>1, <1>3 DEF Bytes
      <3>2. v.raw[1] \in 0..255
        BY <3>1, FirstType, Zenon
      <3> QED
        BY <3>2, Ones, Zenon DEF Bytes
    <2>2. hex(<<v.raw[1]>>) \in Seq(X)
      BY <2>1, HexOf
    <2>3. <<"unknown(0x">> \o hex(<<v.raw[1]>>) \o <<")">> \in Seq(X)
      BY <1>2, <2>2, Ones, Concat, Zenon
    <2>4. encoding_str(v) = <<"unknown(0x">> \o hex(<<v.raw[1]>>) \o <<")">>
      BY <1>3 DEF encoding_str
    <2> QED
      BY <2>3, <2>4
  <1>4. CASE v.encoding # "Unknown"
    <2>1. encoding_str(v) \in {<<"utf-16-le">>, <<"latin-1">>, <<"empty">>}
      BY <1>1, <1>4 DEF encoding_str
    <2>2. /\ <<"utf-16-le">> \in Seq(X) /\ <<"latin-1">> \in Seq(X)
          /\ <<"empty">> \in Seq(X)
      BY <1>2, Ones, Zenon
    <2> QED
      BY <2>1, <2>2
  <1> QED
    BY <1>3, <1>4

LEMMA EncodingOver ==
    ASSUME NEW X, Words \subseteq X, NEW v \in StoredText
    PROVE  encoding_str(v) \in Seq(X)
  BY EncodingOf, PlainInWords

\* A stored text.
LEMMA StoredTextType ==
    ASSUME NEW v \in StoredText
    PROVE  /\ v.text \in Seq(Token)
           /\ hex(v.raw) \in Seq(Token)
           /\ ValueMembers(v) \in Seq(Seq(Token))
           /\ ValueCells(v) \in Seq(Seq(Token))
  <1>1. /\ v.text \in Text /\ v.raw \in Bytes /\ v.lossy \in BOOLEAN
        /\ v.encoding \in {"Utf16Le", "Latin1", "Empty", "Unknown"}
        /\ v.encoding = "Unknown" => v.raw # <<>>
    BY DEF StoredText
  <1>2. v.text \in Seq(Token) /\ hex(v.raw) \in Seq(Token)
    BY <1>1, TextIsTokens, HexType
  <1>3. encoding_str(v) \in Seq(Token) /\ Bool(v.lossy) \in Seq(Token)
    BY <1>1, EncodingOver, BoolOver, Tokens
  <1>4. /\ csv_field(v.text) \in Seq(Token)
        /\ json_string(v.text) \in Seq(Token) /\ json_string(encoding_str(v)) \in Seq(Token)
    BY <1>2, <1>3, CsvFieldType, JsonStringType
  <1>5. "value" \in Words /\ "lossy" \in Words /\ "value_encoding" \in Words
    BY DEF Words
  <1>6. ValueMembers(v) \in Seq(Seq(Token))
    <2>1. /\ Member("value", json_string(v.text)) \in Seq(Token)
          /\ Member("value_encoding", json_string(encoding_str(v))) \in Seq(Token)
          /\ Member("lossy", Bool(v.lossy)) \in Seq(Token)
      BY <1>3, <1>4, <1>5, MemberType, Zenon
    <2> QED
      BY <2>1, Ones, Zenon DEF ValueMembers
  <1>7. ValueCells(v) \in Seq(Seq(Token))
    BY <1>3, <1>4, Ones, Zenon DEF ValueCells
  <1> QED
    BY <1>2, <1>6, <1>7

-----------------------------------------------------------------------------
(* Lines of text, over any set X of tokens with the words of the program.  *)

\* All that the text of r is made of, besides words and digits, is over X.
TextOver(X, r) ==
    /\ Words \subseteq X
    /\ \A s \in Verbatim(r) : s \in Seq(X)
    /\ \A n \in Numbers(r) : Num(n) \in Seq(X)
    /\ r.kind = "Data" => /\ oneline(r.script_key.text) \in Seq(X)
                          /\ oneline(r.value.text) \in Seq(X)
    /\ r.kind = "Map"  => /\ oneline(r.script_key) \in Seq(X)
                          /\ oneline(r.value.text) \in Seq(X)

\* Sequence number and deletion mark.
LEMMA SeqFieldsOver ==
    ASSUME NEW X, Words \subseteq X, NEW r, Num(r.seq) \in Seq(X), r.deleted \in BOOLEAN
    PROVE  SeqFields(r) \in Seq(Seq(X))
  <1>1. "seq" \in Words /\ "deleted" \in Words /\ Bool(r.deleted) \in Seq(X)
    BY BoolOver DEF Words
  <1>2. Field("seq", Num(r.seq)) \in Seq(X) /\ Field("deleted", Bool(r.deleted)) \in Seq(X)
    BY <1>1, MemberOver, Zenon
  <1> QED
    BY <1>2, Ones, Zenon DEF SeqFields

\* A stored text.
LEMMA ValueFieldsOver ==
    ASSUME NEW X, Words \subseteq X, NEW v \in StoredText, oneline(v.text) \in Seq(X)
    PROVE  ValueFields(v) \in Seq(Seq(X))
  <1>1. v.lossy \in BOOLEAN
    BY DEF StoredText
  <1>2. /\ "value" \in Words /\ "enc" \in Words /\ "lossy" \in Words
        /\ encoding_str(v) \in Seq(X) /\ Bool(v.lossy) \in Seq(X)
    BY <1>1, EncodingOver, BoolOver DEF Words
  <1>3. /\ Field("value", oneline(v.text)) \in Seq(X)
        /\ Field("enc", encoding_str(v)) \in Seq(X)
        /\ Field("lossy", Bool(v.lossy)) \in Seq(X)
    BY <1>2, MemberOver, Zenon
  <1> QED
    BY <1>3, Ones, Zenon DEF ValueFields

\* A record of the directory.
LEMMA RawText ==
    ASSUME NEW X, NEW r \in RawRecord, TextOver(X, r)
    PROVE  raw_text(r) \in Seq(X)
  <1>1. /\ r.kind = "Raw" /\ r.key \in Bytes /\ r.value \in Bytes /\ r.deleted \in BOOLEAN
    BY DEF RawRecord
  <1>2. r.origin_file \in Seq(X) /\ Num(r.seq) \in Seq(X) /\ Words \subseteq X
    BY <1>1 DEF TextOver, Verbatim, Numbers
  <1>3. hex(r.key) \in Seq(X) /\ hex(r.value) \in Seq(X) /\ SeqFields(r) \in Seq(Seq(X))
    BY <1>1, <1>2, HexOver, SeqFieldsOver
  <1>4. "file" \in Words /\ "key" \in Words /\ "value" \in Words
    BY DEF Words
  <1>5. /\ Field("file", r.origin_file) \in Seq(X)
        /\ Field("key", hex(r.key)) \in Seq(X)
        /\ Field("value", hex(r.value)) \in Seq(X)
    BY <1>2, <1>3, <1>4, MemberOver, Zenon
  <1>6. SeqFields(r) \o <<Field("file", r.origin_file), Field("key", hex(r.key)),
                          Field("value", hex(r.value))>> \in Seq(Seq(X))
    BY <1>3, <1>5, Ones, Concat, Zenon
  <1> QED
    BY <1>2, <1>4, <1>6, LineOver, Zenon DEF raw_text

\* A record that no decoder classifies.
LEMMA OtherText ==
    ASSUME NEW X, NEW r \in OtherRecord, TextOver(X, r)
    PROVE  other_text(r) \in Seq(X)
  <1>1. /\ r.kind = "Other" /\ r.key \in Bytes /\ r.deleted \in BOOLEAN
    BY DEF OtherRecord
  <1>2. Num(r.seq) \in Seq(X) /\ Words \subseteq X
    BY <1>1 DEF TextOver, Numbers
  <1>3. hex(r.key) \in Seq(X) /\ SeqFields(r) \in Seq(Seq(X))
    BY <1>1, <1>2, HexOver, SeqFieldsOver
  <1>4. "other" \in Words /\ "key" \in Words
    BY DEF Words
  <1>5. Field("key", hex(r.key)) \in Seq(X)
    BY <1>2, <1>3, <1>4, MemberOver, Zenon
  <1>6. <<Field("key", hex(r.key))>> \o SeqFields(r) \in Seq(Seq(X))
    BY <1>3, <1>5, Ones, Concat, Zenon
  <1> QED
    BY <1>2, <1>4, <1>6, LineOver, Zenon DEF other_text

\* The metadata of an origin.
LEMMA MetaText ==
    ASSUME NEW X, NEW r \in MetaRecord, TextOver(X, r)
    PROVE  local_text(r) \in Seq(X)
  <1>1. r.kind = "Meta" /\ r.size \in SUBSET Nat /\ r.deleted \in BOOLEAN
    BY DEF MetaRecord, Option
  <1>2. /\ r.origin \in Seq(X) /\ Words \subseteq X
        /\ Num(r.seq) \in Seq(X) /\ Num(r.timestamp) \in Seq(X)
        /\ \A n \in r.size : Num(n) \in Seq(X)
    BY <1>1 DEF TextOver, Verbatim, Numbers
  <1>3. /\ "meta" \in Words /\ "origin" \in Words /\ "ts_webkit_micros" \in Words
        /\ "size" \in Words /\ "-" \in Words
    BY DEF Words
  <1>4. MapOr(Nums(r.size), <<"-">>) \in Seq(X)
    <2>1. Nums(r.size) \in SUBSET Seq(X)
      BY <1>2, Zenon DEF Nums
    <2>2. "-" \in X
      BY <1>2, <1>3
    <2>3. <<"-">> \in Seq(X)
      BY <2>2, Ones, Zenon
    <2> QED
      BY <2>1, <2>3, MapOrType, Zenon
  <1>5. SeqFields(r) \in Seq(Seq(X))
    BY <1>1, <1>2, SeqFieldsOver
  <1>6. /\ Field("origin", r.origin) \in Seq(X)
        /\ Field("ts_webkit_micros", Num(r.timestamp)) \in Seq(X)
        /\ Field("size", MapOr(Nums(r.size), <<"-">>)) \in Seq(X)
    BY <1>2, <1>3, <1>4, MemberOver, Zenon
  <1>7. <<Field("origin", r.origin), Field("ts_webkit_micros", Num(r.timestamp)),
          Field("size", MapOr(Nums(r.size), <<"-">>))>> \o SeqFields(r) \in Seq(Seq(X))
    BY <1>5, <1>6, Ones, Concat, Zenon
  <1>8. Fields("meta", <<Field("origin", r.origin), Field("ts_webkit_micros", Num(r.timestamp)),
                         Field("size", MapOr(Nums(r.size), <<"-">>))>> \o SeqFields(r))
            \in Seq(X)
    BY <1>2, <1>3, <1>7, LineOver, Zenon
  <1> QED
    BY <1>1, <1>8 DEF local_text

\* An entry of an origin.
LEMMA DataText ==
    ASSUME NEW X, NEW r \in DataRecord, TextOver(X, r)
    PROVE  local_text(r) \in Seq(X)
  <1>1. r.kind = "Data" /\ r.value \in StoredText /\ r.deleted \in BOOLEAN
    BY DEF DataRecord
  <1>2. /\ r.origin \in Seq(X) /\ Words \subseteq X /\ Num(r.seq) \in Seq(X)
        /\ oneline(r.script_key.text) \in Seq(X) /\ oneline(r.value.text) \in Seq(X)
    BY <1>1 DEF TextOver, Verbatim, Numbers
  <1>3. "data" \in Words /\ "origin" \in Words /\ "key" \in Words
    BY DEF Words
  <1>4. SeqFields(r) \in Seq(Seq(X)) /\ ValueFields(r.value) \in Seq(Seq(X))
    BY <1>1, <1>2, SeqFieldsOver, ValueFieldsOver
  <1>5. /\ Field("origin", r.origin) \in Seq(X)
        /\ Field("key", oneline(r.script_key.text)) \in Seq(X)
    BY <1>2, <1>3, MemberOver, Zenon
  <1>6. <<Field("origin", r.origin), Field("key", oneline(r.script_key.text))>>
            \o ValueFields(r.value) \o SeqFields(r) \in Seq(Seq(X))
    BY <1>4, <1>5, Ones, Concat, Zenon
  <1>7. Fields("data", <<Field("origin", r.origin), Field("key", oneline(r.script_key.text))>>
                           \o ValueFields(r.value) \o SeqFields(r)) \in Seq(X)
    BY <1>2, <1>3, <1>6, LineOver, Zenon
  <1> QED
    BY <1>1, <1>7 DEF local_text

\* A namespace of a session.
LEMMA NamespaceText ==
    ASSUME NEW X, NEW r \in NamespaceRecord, TextOver(X, r)
    PROVE  session_text(r) \in Seq(X)
  <1>1. r.kind = "Namespace" /\ r.deleted \in BOOLEAN
    BY DEF NamespaceRecord
  <1>2. /\ r.guid \in Seq(X) /\ r.host \in Seq(X) /\ r.map_id \in Seq(X)
        /\ Words \subseteq X /\ Num(r.seq) \in Seq(X)
    BY <1>1 DEF TextOver, Verbatim, Numbers
  <1>3. "namespace" \in Words /\ "guid" \in Words /\ "host" \in Words /\ "map_id" \in Words
    BY DEF Words
  <1>4. SeqFields(r) \in Seq(Seq(X))
    BY <1>1, <1>2, SeqFieldsOver
  <1>5. /\ Field("guid", r.guid) \in Seq(X) /\ Field("host", r.host) \in Seq(X)
        /\ Field("map_id", r.map_id) \in Seq(X)
    BY <1>2, <1>3, MemberOver, Zenon
  <1>6. <<Field("guid", r.guid), Field("host", r.host), Field("map_id", r.map_id)>>
            \o SeqFields(r) \in Seq(Seq(X))
    BY <1>4, <1>5, Ones, Concat, Zenon
  <1>7. Fields("namespace", <<Field("guid", r.guid), Field("host", r.host),
                              Field("map_id", r.map_id)>> \o SeqFields(r)) \in Seq(X)
    BY <1>2, <1>3, <1>6, LineOver, Zenon
  <1> QED
    BY <1>1, <1>7 DEF session_text

\* An entry of a map.
LEMMA MapText ==
    ASSUME NEW X, NEW r \in MapRecord, TextOver(X, r)
    PROVE  session_text(r) \in Seq(X)
  <1>1. r.kind = "Map" /\ r.value \in StoredText /\ r.deleted \in BOOLEAN
    BY DEF MapRecord
  <1>2. /\ r.map_id \in Seq(X) /\ r.host \in SUBSET Seq(X) /\ Words \subseteq X
        /\ Num(r.seq) \in Seq(X)
        /\ oneline(r.script_key) \in Seq(X) /\ oneline(r.value.text) \in Seq(X)
    BY <1>1 DEF TextOver, Verbatim, Numbers
  <1>3. "map" \in Words /\ "map_id" \in Words /\ "host" \in Words /\ "key" \in Words
        /\ "-" \in Words
    BY DEF Words
  <1>4. MapOr(r.host, <<"-">>) \in Seq(X)
    <2>1. "-" \in X
      BY <1>2, <1>3
    <2>2. <<"-">> \in Seq(X)
      BY <2>1, Ones, Zenon
    <2> QED
      BY <1>2, <2>2, MapOrType, Zenon
  <1>5. SeqFields(r) \in Seq(Seq(X)) /\ ValueFields(r.value) \in Seq(Seq(X))
    BY <1>1, <1>2, SeqFieldsOver, ValueFieldsOver
  <1>6. /\ Field("map_id", r.map_id) \in Seq(X)
        /\ Field("host", MapOr(r.host, <<"-">>)) \in Seq(X)
        /\ Field("key", oneline(r.script_key)) \in Seq(X)
    BY <1>2, <1>3, <1>4, MemberOver, Zenon
  <1>7. <<Field("map_id", r.map_id), Field("host", MapOr(r.host, <<"-">>)),
          Field("key", oneline(r.script_key))>>
            \o ValueFields(r.value) \o SeqFields(r) \in Seq(Seq(X))
    BY <1>5, <1>6, Ones, Concat, Zenon
  <1>8. Fields("map", <<Field("map_id", r.map_id), Field("host", MapOr(r.host, <<"-">>)),
                        Field("key", oneline(r.script_key))>>
                          \o ValueFields(r.value) \o SeqFields(r)) \in Seq(X)
    BY <1>2, <1>3, <1>7, LineOver, Zenon
  <1> QED
    BY <1>1, <1>8 DEF session_text

\* A line of text is made of what it shows.
LEMMA TextLine ==
    ASSUME mode \in Modes, format = "Text", NEW r \in Record(mode), NEW X, TextOver(X, r)
    PROVE  render(r) \in Seq(X)
  <1>1. CASE mode = "Raw"
    <2>1. r \in RawRecord
      BY <1>1 DEF Record
    <2> QED
      BY <1>1, <2>1, RawText DEF render
  <1>2. CASE mode = "Local"
    <2>1. r \in MetaRecord \/ r \in DataRecord \/ r \in OtherRecord
      BY <1>2 DEF Record
    <2>2. CASE r \in OtherRecord
      <3>1. local_text(r) = other_text(r)
        BY <2>2 DEF OtherRecord, local_text
      <3> QED
        BY <1>2, <2>2, <3>1, OtherText DEF render
    <2>3. CASE r \in MetaRecord \/ r \in DataRecord
      BY <1>2, <2>3, MetaText, DataText DEF render
    <2> QED
      BY <2>1, <2>2, <2>3
  <1>3. CASE mode = "Session"
    <2>1. r \in NamespaceRecord \/ r \in MapRecord \/ r \in OtherRecord
      BY <1>3 DEF Record
    <2>2. CASE r \in OtherRecord
      <3>1. session_text(r) = other_text(r)
        BY <2>2 DEF OtherRecord, session_text
      <3> QED
        BY <1>3, <2>2, <3>1, OtherText DEF render
    <2>3. CASE r \in NamespaceRecord \/ r \in MapRecord
      BY <1>3, <2>3, NamespaceText, MapText DEF render
    <2> QED
      BY <2>1, <2>2, <2>3
  <1> QED
    BY <1>1, <1>2, <1>3 DEF Modes

\* All of it is tokens.
LEMMA AnyTextType ==
    ASSUME mode \in Modes, NEW r \in Record(mode)
    PROVE  TextOver(Token, r)
  <1>1. \/ r \in RawRecord \/ r \in MetaRecord \/ r \in DataRecord
        \/ r \in NamespaceRecord \/ r \in MapRecord \/ r \in OtherRecord
    BY DEF Record, Modes
  <1>2. \A s \in Text : s \in Seq(Token)
    BY TextIsTokens
  <1>3. \A s \in Text : oneline(s) \in Seq(Token)
    BY <1>2, OnelineType
  <1>4. \A v \in StoredText : oneline(v.text) \in Seq(Token)
    BY <1>3 DEF StoredText
  <1>5. Words \subseteq Token /\ \A n \in Nat : Num(n) \in Seq(Token)
    BY Tokens
  <1>6. \A s \in Verbatim(r) : s \in Text
    BY <1>1 DEF Verbatim, RawRecord, MetaRecord, DataRecord, NamespaceRecord, MapRecord, OtherRecord, Option
  <1>7. \A n \in Numbers(r) : n \in Nat
    BY <1>1 DEF Numbers, RawRecord, MetaRecord, DataRecord, NamespaceRecord, MapRecord, OtherRecord, Option
  <1>8. /\ r.kind = "Data" => r.script_key \in StoredText /\ r.value \in StoredText
        /\ r.kind = "Map"  => r.script_key \in Text /\ r.value \in StoredText
    BY <1>1 DEF RawRecord, MetaRecord, DataRecord, NamespaceRecord, MapRecord, OtherRecord
  <1> QED
    BY <1>2, <1>3, <1>4, <1>5, <1>6, <1>7, <1>8 DEF TextOver

-----------------------------------------------------------------------------
(* Objects and rows, for each kind of record.                              *)

\* A record of the directory.
LEMMA RawLines ==
    ASSUME NEW r \in RawRecord
    PROVE  /\ raw_jsonl(r) \in Seq(Token)
           /\ raw_csv(r) \in Seq(Token)
  <1>1. /\ r.origin_file \in Text /\ r.key \in Bytes /\ r.value \in Bytes
        /\ r.seq \in Nat /\ r.deleted \in BOOLEAN
    BY DEF RawRecord
  <1>2. /\ SeqMembers(r) \in Seq(Seq(Token)) /\ SeqCells(r) \in Seq(Seq(Token))
    BY <1>1, SeqPartsType
  <1>3. /\ r.origin_file \in Seq(Token) /\ hex(r.key) \in Seq(Token)
        /\ hex(r.value) \in Seq(Token)
    BY <1>1, TextIsTokens, HexType
  <1>4. /\ "origin_file" \in Words /\ "key_hex" \in Words /\ "value_hex" \in Words
    BY DEF Words
  <1>5. raw_jsonl(r) \in Seq(Token)
    <2>1. /\ json_string(r.origin_file) \in Seq(Token)
          /\ json_string(hex(r.key)) \in Seq(Token)
          /\ json_string(hex(r.value)) \in Seq(Token)
      BY <1>3, JsonStringType
    <2>2. /\ Member("origin_file", json_string(r.origin_file)) \in Seq(Token)
          /\ Member("key_hex", json_string(hex(r.key))) \in Seq(Token)
          /\ Member("value_hex", json_string(hex(r.value))) \in Seq(Token)
      BY <1>4, <2>1, MemberType, Zenon
    <2>3. /\ <<Member("origin_file", json_string(r.origin_file))>> \in Seq(Seq(Token))
          /\ <<Member("key_hex", json_string(hex(r.key))),
               Member("value_hex", json_string(hex(r.value)))>> \in Seq(Seq(Token))
      BY <2>2, Ones, Zenon
    <2>4. <<Member("origin_file", json_string(r.origin_file))>> \o SeqMembers(r)
              \o <<Member("key_hex", json_string(hex(r.key))),
                   Member("value_hex", json_string(hex(r.value)))>> \in Seq(Seq(Token))
      BY <1>2, <2>3, Concat, Zenon
    <2> QED
      BY <1>4, <2>4, LineType, Zenon DEF raw_jsonl
  <1>6. raw_csv(r) \in Seq(Token)
    <2>1. csv_field(r.origin_file) \in Seq(Token)
      BY <1>3, CsvFieldType
    <2>2. /\ <<csv_field(r.origin_file)>> \in Seq(Seq(Token))
          /\ <<hex(r.key), hex(r.value)>> \in Seq(Seq(Token))
      BY <1>3, <2>1, Ones, Zenon
    <2>3. <<csv_field(r.origin_file)>> \o SeqCells(r) \o <<hex(r.key), hex(r.value)>>
              \in Seq(Seq(Token))
      BY <1>2, <2>2, Concat, Zenon
    <2> QED
      BY <1>4, <2>3, LineType, Zenon DEF raw_csv
  <1> QED
    BY <1>5, <1>6

\* A record that no decoder classifies.
LEMMA OtherLines ==
    ASSUME NEW r \in OtherRecord
    PROVE  /\ other_jsonl(r) \in Seq(Token)
           /\ local_csv(r) \in Seq(Token)
           /\ session_csv(r) \in Seq(Token)
  <1>1. r.kind = "Other" /\ r.key \in Bytes /\ r.seq \in Nat /\ r.deleted \in BOOLEAN
    BY DEF OtherRecord
  <1>2. /\ SeqMembers(r) \in Seq(Seq(Token)) /\ SeqCells(r) \in Seq(Seq(Token))
    BY <1>1, SeqPartsType
  <1>3. hex(r.key) \in Seq(Token)
    BY <1>1, HexType
  <1>4. "other" \in Words /\ "kind" \in Words /\ "key_hex" \in Words
    BY DEF Words
  <1>5. <<"other">> \in Seq(Token)
    <2>1. "other" \in Token
      BY <1>4, Tokens
    <2> QED
      BY <2>1, Ones, Zenon
  <1>6. other_jsonl(r) \in Seq(Token)
    <2>1. json_string(<<"other">>) \in Seq(Token) /\ json_string(hex(r.key)) \in Seq(Token)
      BY <1>3, <1>5, JsonStringType
    <2>2. /\ Member("kind", json_string(<<"other">>)) \in Seq(Token)
          /\ Member("key_hex", json_string(hex(r.key))) \in Seq(Token)
      BY <1>4, <2>1, MemberType, Zenon
    <2>3. <<Member("kind", json_string(<<"other">>)), Member("key_hex", json_string(hex(r.key)))>>
              \o SeqMembers(r) \in Seq(Seq(Token))
      BY <1>2, <2>2, Ones, Concat, Zenon
    <2> QED
      BY <1>4, <2>3, LineType, Zenon DEF other_jsonl
  <1>7. NoCell \in Seq(Token)
    BY EmptySeq DEF NoCell
  <1>8. local_csv(r) \in Seq(Token)
    <2>1. <<<<"other">>, NoCell, hex(r.key), NoCell, NoCell, NoCell, NoCell, NoCell>>
              \in Seq(Seq(Token))
      BY <1>3, <1>5, <1>7, MoreOnes, Zenon
    <2>2. Row(<<<<"other">>, NoCell, hex(r.key), NoCell, NoCell, NoCell, NoCell, NoCell>>
                \o SeqCells(r)) \in Seq(Token)
      BY <1>2, <1>4, <2>1, Concat, LineType, Zenon
    <2> QED
      BY <1>1, <2>2 DEF local_csv
  <1>9. session_csv(r) \in Seq(Token)
    <2>1. <<<<"other">>, NoCell, NoCell, NoCell, hex(r.key), NoCell, NoCell, NoCell>>
              \in Seq(Seq(Token))
      BY <1>3, <1>5, <1>7, MoreOnes, Zenon
    <2>2. Row(<<<<"other">>, NoCell, NoCell, NoCell, hex(r.key), NoCell, NoCell, NoCell>>
                \o SeqCells(r)) \in Seq(Token)
      BY <1>2, <1>4, <2>1, Concat, LineType, Zenon
    <2> QED
      BY <1>1, <2>2 DEF session_csv
  <1> QED
    BY <1>6, <1>8, <1>9

\* The metadata of an origin.
LEMMA MetaLines ==
    ASSUME NEW r \in MetaRecord
    PROVE  /\ local_jsonl(r) \in Seq(Token)
           /\ local_csv(r) \in Seq(Token)
  <1>1. /\ r.kind = "Meta" /\ r.origin \in Text /\ r.timestamp \in Nat
        /\ r.size \in SUBSET Nat /\ r.seq \in Nat /\ r.deleted \in BOOLEAN
    BY DEF MetaRecord, Option
  <1>2. /\ SeqMembers(r) \in Seq(Seq(Token)) /\ SeqCells(r) \in Seq(Seq(Token))
    BY <1>1, SeqPartsType
  <1>3. r.origin \in Seq(Token) /\ Num(r.timestamp) \in Seq(Token)
    BY <1>1, TextIsTokens, Tokens
  <1>4. /\ "meta" \in Words /\ "origin" \in Words
        /\ "size" \in Words /\ "kind" \in Words /\ "null" \in Words
        /\ "timestamp_webkit_micros" \in Words
    BY DEF Words
  <1>5. /\ <<"meta">> \in Seq(Token) /\ <<"null">> \in Seq(Token)
        /\ NoCell \in Seq(Token)
    <2>1. "meta" \in Token /\ "null" \in Token
      BY <1>4, Tokens
    <2>2. <<"meta">> \in Seq(Token) /\ <<"null">> \in Seq(Token)
      BY <2>1, Ones, Zenon
    <2> QED
      BY <2>2, EmptySeq DEF NoCell
  <1>6. /\ MapOr(Nums(r.size), <<"null">>) \in Seq(Token)
        /\ MapOr(Nums(r.size), NoCell) \in Seq(Token)
    <2>1. Nums(r.size) \in SUBSET Seq(Token)
      BY <1>1, Tokens, Zenon DEF Nums
    <2> QED
      BY <1>5, <2>1, MapOrType, Zenon
  <1>7. local_jsonl(r) \in Seq(Token)
    <2>1. json_string(<<"meta">>) \in Seq(Token) /\ json_string(r.origin) \in Seq(Token)
      BY <1>3, <1>5, JsonStringType
    <2>2. /\ Member("kind", json_string(<<"meta">>)) \in Seq(Token)
          /\ Member("origin", json_string(r.origin)) \in Seq(Token)
          /\ Member("timestamp_webkit_micros", Num(r.timestamp)) \in Seq(Token)
          /\ Member("size", MapOr(Nums(r.size), <<"null">>)) \in Seq(Token)
      BY <1>3, <1>4, <1>6, <2>1, MemberType, Zenon
    <2>3. <<Member("kind", json_string(<<"meta">>)), Member("origin", json_string(r.origin)),
            Member("timestamp_webkit_micros", Num(r.timestamp)),
            Member("size", MapOr(Nums(r.size), <<"null">>))>> \o SeqMembers(r)
              \in Seq(Seq(Token))
      BY <1>2, <2>2, Ones, Concat, Zenon
    <2>4. Object(<<Member("kind", json_string(<<"meta">>)), Member("origin", json_string(r.origin)),
                   Member("timestamp_webkit_micros", Num(r.timestamp)),
                   Member("size", MapOr(Nums(r.size), <<"null">>))>> \o SeqMembers(r))
              \in Seq(Token)
      BY <1>4, <2>3, LineType, Zenon
    <2> QED
      BY <1>1, <2>4 DEF local_jsonl
  <1>8. local_csv(r) \in Seq(Token)
    <2>1. csv_field(r.origin) \in Seq(Token)
      BY <1>3, CsvFieldType
    <2>2. <<<<"meta">>, csv_field(r.origin), NoCell, NoCell, NoCell, NoCell,
            Num(r.timestamp), MapOr(Nums(r.size), NoCell)>> \in Seq(Seq(Token))
      BY <1>3, <1>5, <1>6, <2>1, MoreOnes, Zenon
    <2>3. Row(<<<<"meta">>, csv_field(r.origin), NoCell, NoCell, NoCell, NoCell,
                Num(r.timestamp), MapOr(Nums(r.size), NoCell)>> \o SeqCells(r)) \in Seq(Token)
      BY <1>2, <1>4, <2>2, Concat, LineType, Zenon
    <2> QED
      BY <1>1, <2>3 DEF local_csv
  <1> QED
    BY <1>7, <1>8

\* An entry of an origin.
LEMMA DataLines ==
    ASSUME NEW r \in DataRecord
    PROVE  /\ local_jsonl(r) \in Seq(Token)
           /\ local_csv(r) \in Seq(Token)
  <1>1. /\ r.kind = "Data" /\ r.origin \in Text /\ r.script_key \in StoredText
        /\ r.value \in StoredText /\ r.seq \in Nat /\ r.deleted \in BOOLEAN
    BY DEF DataRecord
  <1>2. /\ SeqMembers(r) \in Seq(Seq(Token)) /\ SeqCells(r) \in Seq(Seq(Token))
    BY <1>1, SeqPartsType
  <1>3. /\ r.origin \in Seq(Token) /\ r.script_key.text \in Seq(Token)
        /\ hex(r.value.raw) \in Seq(Token)
        /\ ValueMembers(r.value) \in Seq(Seq(Token))
        /\ ValueCells(r.value) \in Seq(Seq(Token))
    BY <1>1, TextIsTokens, StoredTextType
  <1>4. /\ "data" \in Words /\ "origin" \in Words /\ "key" \in Words /\ "kind" \in Words
        /\ "value_raw_hex" \in Words
    BY DEF Words
  <1>5. <<"data">> \in Seq(Token) /\ NoCell \in Seq(Token)
    <2>1. "data" \in Token
      BY <1>4, Tokens
    <2>2. <<"data">> \in Seq(Token)
      BY <2>1, Ones, Zenon
    <2> QED
      BY <2>2, EmptySeq DEF NoCell
  <1>6. local_jsonl(r) \in Seq(Token)
    <2>1. /\ json_string(<<"data">>) \in Seq(Token) /\ json_string(r.origin) \in Seq(Token)
          /\ json_string(r.script_key.text) \in Seq(Token)
          /\ json_string(hex(r.value.raw)) \in Seq(Token)
      BY <1>3, <1>5, JsonStringType
    <2>2. /\ Member("kind", json_string(<<"data">>)) \in Seq(Token)
          /\ Member("origin", json_string(r.origin)) \in Seq(Token)
          /\ Member("key", json_string(r.script_key.text)) \in Seq(Token)
          /\ Member("value_raw_hex", json_string(hex(r.value.raw))) \in Seq(Token)
      BY <1>4, <2>1, MemberType, Zenon
    <2>3. /\ <<Member("kind", json_string(<<"data">>)), Member("origin", json_string(r.origin)),
               Member("key", json_string(r.script_key.text))>> \in Seq(Seq(Token))
          /\ <<Member("value_raw_hex", json_string(hex(r.value.raw)))>> \in Seq(Seq(Token))
      BY <2>2, Ones, Zenon
    <2>4. <<Member("kind", json_string(<<"data">>)), Member("origin", json_string(r.origin)),
            Member("key", json_string(r.script_key.text))>>
              \o ValueMembers(r.value)
              \o <<Member("value_raw_hex", json_string(hex(r.value.raw)))>> \o SeqMembers(r)
              \in Seq(Seq(Token))
      BY <1>2, <1>3, <2>3, Concat, Zenon
    <2>5. Object(<<Member("kind", json_string(<<"data">>)), Member("origin", json_string(r.origin)),
                   Member("key", json_string(r.script_key.text))>>
                     \o ValueMembers(r.value)
                     \o <<Member("value_raw_hex", json_string(hex(r.value.raw)))>>
                     \o SeqMembers(r)) \in Seq(Token)
      BY <1>4, <2>4, LineType, Zenon
    <2> QED
      BY <1>1, <2>5 DEF local_jsonl
  <1>7. local_csv(r) \in Seq(Token)
    <2>1. csv_field(r.origin) \in Seq(Token) /\ csv_field(r.script_key.text) \in Seq(Token)
      BY <1>3, CsvFieldType
    <2>2. /\ <<<<"data">>, csv_field(r.origin), csv_field(r.script_key.text)>> \in Seq(Seq(Token))
          /\ <<NoCell, NoCell>> \in Seq(Seq(Token))
      BY <1>5, <2>1, Ones, Zenon
    <2>3. <<<<"data">>, csv_field(r.origin), csv_field(r.script_key.text)>> \o ValueCells(r.value)
              \o <<NoCell, NoCell>> \o SeqCells(r) \in Seq(Seq(Token))
      BY <1>2, <1>3, <2>2, Concat, Zenon
    <2>4. Row(<<<<"data">>, csv_field(r.origin), csv_field(r.script_key.text)>>
                \o ValueCells(r.value) \o <<NoCell, NoCell>> \o SeqCells(r)) \in Seq(Token)
      BY <1>4, <2>3, LineType, Zenon
    <2> QED
      BY <1>1, <2>4 DEF local_csv
  <1> QED
    BY <1>6, <1>7

\* A namespace of a session.
LEMMA NamespaceLines ==
    ASSUME NEW r \in NamespaceRecord
    PROVE  /\ session_jsonl(r) \in Seq(Token)
           /\ session_csv(r) \in Seq(Token)
  <1>1. /\ r.kind = "Namespace" /\ r.guid \in Text /\ r.host \in Text /\ r.map_id \in Text
        /\ r.seq \in Nat /\ r.deleted \in BOOLEAN
    BY DEF NamespaceRecord
  <1>2. /\ SeqMembers(r) \in Seq(Seq(Token)) /\ SeqCells(r) \in Seq(Seq(Token))
    BY <1>1, SeqPartsType
  <1>3. r.guid \in Seq(Token) /\ r.host \in Seq(Token) /\ r.map_id \in Seq(Token)
    BY <1>1, TextIsTokens
  <1>4. /\ "namespace" \in Words /\ "guid" \in Words /\ "host" \in Words /\ "map_id" \in Words
        /\ "kind" \in Words
    BY DEF Words
  <1>5. <<"namespace">> \in Seq(Token) /\ NoCell \in Seq(Token)
    <2>1. "namespace" \in Token
      BY <1>4, Tokens
    <2>2. <<"namespace">> \in Seq(Token)
      BY <2>1, Ones, Zenon
    <2> QED
      BY <2>2, EmptySeq DEF NoCell
  <1>6. session_jsonl(r) \in Seq(Token)
    <2>1. /\ json_string(<<"namespace">>) \in Seq(Token) /\ json_string(r.guid) \in Seq(Token)
          /\ json_string(r.host) \in Seq(Token) /\ json_string(r.map_id) \in Seq(Token)
      BY <1>3, <1>5, JsonStringType
    <2>2. /\ Member("kind", json_string(<<"namespace">>)) \in Seq(Token)
          /\ Member("guid", json_string(r.guid)) \in Seq(Token)
          /\ Member("host", json_string(r.host)) \in Seq(Token)
          /\ Member("map_id", json_string(r.map_id)) \in Seq(Token)
      BY <1>4, <2>1, MemberType, Zenon
    <2>3. <<Member("kind", json_string(<<"namespace">>)), Member("guid", json_string(r.guid)),
            Member("host", json_string(r.host)), Member("map_id", json_string(r.map_id))>>
              \o SeqMembers(r) \in Seq(Seq(Token))
      BY <1>2, <2>2, Ones, Concat, Zenon
    <2>4. Object(<<Member("kind", json_string(<<"namespace">>)),
                   Member("guid", json_string(r.guid)), Member("host", json_string(r.host)),
                   Member("map_id", json_string(r.map_id))>> \o SeqMembers(r)) \in Seq(Token)
      BY <1>4, <2>3, LineType, Zenon
    <2> QED
      BY <1>1, <2>4 DEF session_jsonl
  <1>7. session_csv(r) \in Seq(Token)
    <2>1. /\ csv_field(r.guid) \in Seq(Token) /\ csv_field(r.host) \in Seq(Token)
          /\ csv_field(r.map_id) \in Seq(Token)
      BY <1>3, CsvFieldType
    <2>2. <<<<"namespace">>, csv_field(r.guid), csv_field(r.host), csv_field(r.map_id),
            NoCell, NoCell, NoCell, NoCell>> \in Seq(Seq(Token))
      BY <1>5, <2>1, MoreOnes, Zenon
    <2>3. Row(<<<<"namespace">>, csv_field(r.guid), csv_field(r.host), csv_field(r.map_id),
                NoCell, NoCell, NoCell, NoCell>> \o SeqCells(r)) \in Seq(Token)
      BY <1>2, <1>4, <2>2, Concat, LineType, Zenon
    <2> QED
      BY <1>1, <2>3 DEF session_csv
  <1> QED
    BY <1>6, <1>7

\* An entry of a map.
LEMMA MapLines ==
    ASSUME NEW r \in MapRecord
    PROVE  /\ session_jsonl(r) \in Seq(Token)
           /\ session_csv(r) \in Seq(Token)
  <1>1. /\ r.kind = "Map" /\ r.map_id \in Text /\ r.host \in SUBSET Text
        /\ r.script_key \in Text /\ r.value \in StoredText
        /\ r.seq \in Nat /\ r.deleted \in BOOLEAN
    BY DEF MapRecord, Option
  <1>2. /\ SeqMembers(r) \in Seq(Seq(Token)) /\ SeqCells(r) \in Seq(Seq(Token))
    BY <1>1, SeqPartsType
  <1>3. /\ r.map_id \in Seq(Token) /\ r.script_key \in Seq(Token)
        /\ r.host \in SUBSET Seq(Token)
    BY <1>1, TextIsTokens
  <1>4. /\ "map" \in Words /\ "map_id" \in Words /\ "host" \in Words /\ "key" \in Words
        /\ "kind" \in Words /\ "null" \in Words
    BY DEF Words
  <1>5. /\ <<"map">> \in Seq(Token) /\ <<"null">> \in Seq(Token)
        /\ NoCell \in Seq(Token) /\ <<>> \in Seq(Token)
    <2>1. "map" \in Token /\ "null" \in Token
      BY <1>4, Tokens
    <2>2. <<"map">> \in Seq(Token) /\ <<"null">> \in Seq(Token)
      BY <2>1, Ones, Zenon
    <2> QED
      BY <2>2, EmptySeq DEF NoCell
  <1>6. /\ ValueMembers(r.value) \in Seq(Seq(Token))
        /\ ValueCells(r.value) \in Seq(Seq(Token))
    BY <1>1, StoredTextType
  <1>7. session_jsonl(r) \in Seq(Token)
    <2>1. /\ json_string(<<"map">>) \in Seq(Token) /\ json_string(r.map_id) \in Seq(Token)
          /\ json_string(r.script_key) \in Seq(Token)
      BY <1>3, <1>5, JsonStringType
    <2>2. MapOr({json_string(h) : h \in r.host}, <<"null">>) \in Seq(Token)
      <3>1. {json_string(h) : h \in r.host} \in SUBSET Seq(Token)
        BY <1>3, JsonStringType
      <3> QED
        BY <1>5, <3>1, MapOrType, Zenon
    <2>3. /\ Member("kind", json_string(<<"map">>)) \in Seq(Token)
          /\ Member("map_id", json_string(r.map_id)) \in Seq(Token)
          /\ Member("host", MapOr({json_string(h) : h \in r.host}, <<"null">>)) \in Seq(Token)
          /\ Member("key", json_string(r.script_key)) \in Seq(Token)
      BY <1>4, <2>1, <2>2, MemberType, Zenon
    <2>4. <<Member("kind", json_string(<<"map">>)), Member("map_id", json_string(r.map_id)),
            Member("host", MapOr({json_string(h) : h \in r.host}, <<"null">>)),
            Member("key", json_string(r.script_key))>>
              \o ValueMembers(r.value) \o SeqMembers(r) \in Seq(Seq(Token))
      BY <1>2, <1>6, <2>3, Ones, Concat, Zenon
    <2>5. Object(<<Member("kind", json_string(<<"map">>)), Member("map_id", json_string(r.map_id)),
                   Member("host", MapOr({json_string(h) : h \in r.host}, <<"null">>)),
                   Member("key", json_string(r.script_key))>>
                     \o ValueMembers(r.value) \o SeqMembers(r)) \in Seq(Token)
      BY <1>4, <2>4, LineType, Zenon
    <2> QED
      BY <1>1, <2>5 DEF session_jsonl
  <1>8. session_csv(r) \in Seq(Token)
    <2>1. MapOr(r.host, <<>>) \in Seq(Token)
      BY <1>3, <1>5, MapOrType, Zenon
    <2>2. /\ csv_field(MapOr(r.host, <<>>)) \in Seq(Token) /\ csv_field(r.map_id) \in Seq(Token)
          /\ csv_field(r.script_key) \in Seq(Token)
      BY <1>3, <2>1, CsvFieldType
    <2>3. <<<<"map">>, NoCell, csv_field(MapOr(r.host, <<>>)), csv_field(r.map_id),
            csv_field(r.script_key)>> \in Seq(Seq(Token))
      BY <1>5, <2>2, MoreOnes, Zenon
    <2>4. Row(<<<<"map">>, NoCell, csv_field(MapOr(r.host, <<>>)), csv_field(r.map_id),
                csv_field(r.script_key)>> \o ValueCells(r.value) \o SeqCells(r)) \in Seq(Token)
      BY <1>2, <1>4, <1>6, <2>3, Concat, LineType, Zenon
    <2> QED
      BY <1>1, <2>4 DEF session_csv
  <1> QED
    BY <1>7, <1>8

-----------------------------------------------------------------------------
(* What is written up to a line.                                           *)

\* Every column has a name.
LEMMA HeaderType ==
    ASSUME mode \in Modes
    PROVE  header \in Seq(Words)
  <1> DEFINE R == {"origin_file", "seq", "deleted", "key_hex", "value_hex"}
             L == {"kind", "origin", "key", "value", "value_encoding", "lossy",
                   "timestamp_webkit_micros", "size", "seq", "deleted"}
             S == {"kind", "guid", "host", "map_id", "key", "value", "value_encoding",
                   "lossy", "seq", "deleted"}
  <1>1. R \subseteq Words /\ L \subseteq Words /\ S \subseteq Words
    BY DEF Words
  <1>2. raw_header \in Seq(R)
    BY DEF raw_header
  <1>3. local_header \in Seq(L)
    BY DEF local_header
  <1>4. session_header \in Seq(S)
    BY DEF session_header
  <1> HIDE DEF R, L, S
  <1>5. raw_header \in Seq(Words) /\ local_header \in Seq(Words) /\ session_header \in Seq(Words)
    BY <1>1, <1>2, <1>3, <1>4, SeqMonotonic
  <1> QED
    BY <1>5 DEF header, Modes

\* The line of a record.
LEMMA RenderType ==
    ASSUME mode \in Modes, format \in Formats, NEW r \in Record(mode)
    PROVE  render(r) \in Seq(Token)
  <1>1. CASE format = "Text"
    BY <1>1, AnyTextType, TextLine
  <1>2. CASE format # "Text" /\ mode = "Raw"
    <2>1. r \in RawRecord
      BY <1>2 DEF Record
    <2>2. raw_jsonl(r) \in Seq(Token) /\ raw_csv(r) \in Seq(Token)
      BY <2>1, RawLines
    <2> QED
      BY <1>2, <2>2 DEF render, Formats
  <1>3. CASE format # "Text" /\ mode = "Local"
    <2>1. r \in MetaRecord \/ r \in DataRecord \/ r \in OtherRecord
      BY <1>3 DEF Record
    <2>2. local_jsonl(r) \in Seq(Token) /\ local_csv(r) \in Seq(Token)
      <3>1. CASE r \in MetaRecord
        BY <3>1, MetaLines
      <3>2. CASE r \in DataRecord
        BY <3>2, DataLines
      <3>3. CASE r \in OtherRecord
        <4>1. r.kind = "Other"
          BY <3>3 DEF OtherRecord
        <4>2. local_jsonl(r) = other_jsonl(r)
          BY <4>1 DEF local_jsonl
        <4> QED
          BY <3>3, <4>2, OtherLines
      <3> QED
        BY <2>1, <3>1, <3>2, <3>3
    <2> QED
      BY <1>3, <2>2 DEF render, Formats
  <1>4. CASE format # "Text" /\ mode = "Session"
    <2>1. r \in NamespaceRecord \/ r \in MapRecord \/ r \in OtherRecord
      BY <1>4 DEF Record
    <2>2. session_jsonl(r) \in Seq(Token) /\ session_csv(r) \in Seq(Token)
      <3>1. CASE r \in NamespaceRecord
        BY <3>1, NamespaceLines
      <3>2. CASE r \in MapRecord
        BY <3>2, MapLines
      <3>3. CASE r \in OtherRecord
        <4>1. r.kind = "Other"
          BY <3>3 DEF OtherRecord
        <4>2. session_jsonl(r) = other_jsonl(r)
          BY <4>1 DEF session_jsonl
        <4> QED
          BY <3>3, <4>2, OtherLines
      <3> QED
        BY <2>1, <3>1, <3>2, <3>3
    <2> QED
      BY <1>4, <2>2 DEF render, Formats
  <1> QED
    BY <1>1, <1>2, <1>3, <1>4 DEF Modes

\* A line is never empty.
LEMMA LineIsThere ==
    ASSUME TypeOK, NEW n \in FirstLine..Len(records)
    PROVE  Line(n) \in Seq(Token) /\ Len(Line(n)) > 0
  <1> DEFINE row == IF n = HEADER THEN Row([k \in DOMAIN header |-> <<header[k]>>])
                                  ELSE render(records[n])
  <1>1. mode \in Modes /\ format \in Formats /\ records \in Seq(Record(mode))
    BY DEF TypeOK
  <1>2. row \in Seq(Token)
    <2>1. CASE n = HEADER
      <3>1. header \in Seq(Words)
        BY <1>1, HeaderType
      <3>2. Len(header) \in Nat /\ DOMAIN header = 1..Len(header)
            /\ \A k \in DOMAIN header : header[k] \in Words
        BY <3>1
      <3>3. \A k \in DOMAIN header : <<header[k]>> \in Seq(Token)
        BY <3>2, Tokens, Ones
      <3>4. [k \in DOMAIN header |-> <<header[k]>>] \in [1..Len(header) -> Seq(Token)]
        BY <3>2, <3>3, Zenon
      <3>5. [k \in DOMAIN header |-> <<header[k]>>] \in Seq(Seq(Token))
        BY <3>2, <3>4
      <3>6. "seq" \in Words
        BY DEF Words
      <3>7. Row([k \in DOMAIN header |-> <<header[k]>>]) \in Seq(Token)
        BY <3>5, <3>6, LineType, Zenon
      <3> QED
        BY <2>1, <3>7, Zenon
    <2>2. CASE n # HEADER
      <3>1. n \in 1..Len(records)
        BY <1>1, <2>2 DEF FirstLine, HEADER
      <3>2. records[n] \in Record(mode)
        BY <1>1, <3>1, ElementOfSeq
      <3>3. render(records[n]) \in Seq(Token)
        BY <1>1, <3>2, RenderType
      <3> QED
        BY <2>2, <3>3, Zenon
    <2> QED
      BY <2>1, <2>2
  <1>3. Line(n) = row \o <<"\n">>
    BY Zenon DEF Line
  <1> HIDE DEF row
  <1>4. "\n" \in Token
    BY Zenon DEF Token
  <1>5. <<"\n">> \in Seq(Token) /\ Len(<<"\n">>) = 1
    BY <1>4
  <1> QED
    BY <1>2, <1>3, <1>5, ConcatFacts

\* The lines before line n.
LinesTo(n) == [k \in 1..n - FirstLine |-> Line(FirstLine + k - 1)]

Written(n) == FlattenSeq(LinesTo(n))

\* The places of lines and the place after the last.
Places == FirstLine..Len(records) + 1

\* Lines put together are a text.
LEMMA WrittenType ==
    ASSUME TypeOK, NEW n \in Places
    PROVE  LinesTo(n) \in Seq(Seq(Token)) /\ Written(n) \in Seq(Token)
  <1>1. FirstLine \in {0, 1} /\ Len(records) \in Nat
    BY DEF FirstLine, HEADER, TypeOK
  <1>2. n - FirstLine \in Nat
    BY <1>1 DEF Places
  <1>3. \A k \in 1..n - FirstLine : Line(FirstLine + k - 1) \in Seq(Token)
    <2>1. \A k \in 1..n - FirstLine : FirstLine + k - 1 \in FirstLine..Len(records)
      BY <1>1 DEF Places
    <2> QED
      BY <2>1, LineIsThere
  <1>4. LinesTo(n) \in [1..n - FirstLine -> Seq(Token)]
    BY <1>3, Zenon DEF LinesTo
  <1>5. LinesTo(n) \in Seq(Seq(Token))
    BY <1>2, <1>4
  <1> QED
    BY <1>5, FlattenType DEF Written

\* Nothing stands before the first line.
LEMMA WrittenNothing == FirstLine \in {0, 1} /\ Written(FirstLine) = <<>>
  <1>1. FirstLine \in {0, 1}
    BY DEF FirstLine, HEADER
  <1>2. LinesTo(FirstLine) = <<>>
    BY <1>1 DEF LinesTo
  <1> QED
    BY <1>1, <1>2, FlattenEmpty DEF Written

\* Each line goes after those before it.
LEMMA WrittenNext ==
    ASSUME TypeOK, NEW n \in FirstLine..Len(records)
    PROVE  /\ n \in Places /\ n + 1 \in Places
           /\ Written(n + 1) = Written(n) \o Line(n)
  <1>1. FirstLine \in {0, 1} /\ Len(records) \in Nat
    BY DEF FirstLine, HEADER, TypeOK
  <1>2. n \in Places /\ n + 1 \in Places /\ n \in Int
    BY <1>1 DEF Places
  <1> DEFINE s == LinesTo(n)
             t == LinesTo(n + 1)
             d == n - FirstLine
  <1>3. d \in Nat /\ (n + 1) - FirstLine = d + 1 /\ FirstLine + (d + 1) - 1 = n
    BY <1>1
  <1>4. s \in Seq(Seq(Token)) /\ t \in Seq(Seq(Token)) /\ Line(n) \in Seq(Token)
    BY <1>2, WrittenType, LineIsThere
  <1>5. /\ DOMAIN s = 1..d /\ DOMAIN t = 1..d + 1
        /\ \A k \in 1..d : s[k] = Line(FirstLine + k - 1)
        /\ \A k \in 1..d + 1 : t[k] = Line(FirstLine + k - 1)
    BY <1>3 DEF LinesTo
  <1> HIDE DEF s, t, d
  <1>6. Len(s) = d /\ Len(t) = d + 1
    BY <1>3, <1>4, <1>5
  <1>7. t = Append(s, Line(n))
    <2> DEFINE a == Append(s, Line(n))
    <2>1. a \in Seq(Seq(Token)) /\ Len(a) = d + 1
          /\ (\A k \in 1..d : a[k] = s[k]) /\ a[d + 1] = Line(n)
      BY <1>4, <1>6, AppendProperties, AppendFacts
    <2>2. ASSUME NEW k \in 1..Len(t)
          PROVE  t[k] = a[k]
      <3>1. k \in 1..d \/ k = d + 1
        BY <1>3, <1>6
      <3>2. k \in 1..d + 1
        BY <1>6
      <3> QED
        BY <1>3, <1>5, <2>1, <3>1, <3>2
    <2> HIDE DEF a
    <2>3. t = a
      BY <1>4, <1>6, <2>1, <2>2, SeqEqual
    <2> QED
      BY <2>3 DEF a
  <1>8. FlattenSeq(t) = FlattenSeq(s) \o Line(n)
    BY <1>4, <1>7, FlattenAppend
  <1> QED
    BY <1>2, <1>8 DEF s, t, Written

\* p is the beginning of s, place by place.
Begins(p, s) == Len(p) <= Len(s) /\ \A k \in 1..Len(p) : s[k] = p[k]

\* What is written first is the beginning of what is written later.
LEMMA WrittenGrows ==
    ASSUME TypeOK, NEW m \in Places, NEW n \in Places, m <= n
    PROVE  Begins(Written(m), Written(n))
  <1> DEFINE S == {d \in Nat : m + d \in Places => Begins(Written(m), Written(m + d))}
  <1>1. FirstLine \in {0, 1} /\ Len(records) \in Nat
    BY DEF FirstLine, HEADER, TypeOK
  <1>2. m \in Int /\ n \in Int
    BY <1>1 DEF Places
  <1>3. 0 \in S
    <2>1. m + 0 = m /\ Written(m) \in Seq(Token)
      BY <1>2, WrittenType
    <2>2. Begins(Written(m), Written(m + 0))
      BY <2>1 DEF Begins
    <2> QED
      BY <2>2
  <1>4. ASSUME NEW d \in Nat, d \in S, m + (d + 1) \in Places
        PROVE  Begins(Written(m), Written(m + (d + 1)))
    <2>1. /\ m + d \in FirstLine..Len(records) /\ m + (d + 1) = (m + d) + 1
          /\ m + d \in Places
      BY <1>1, <1>2, <1>4 DEF Places
    <2>2. Begins(Written(m), Written(m + d))
      BY <1>4, <2>1
    <2>3. Written(m + (d + 1)) = Written(m + d) \o Line(m + d)
      BY <2>1, WrittenNext, Zenon
    <2>4. Written(m) \in Seq(Token) /\ Written(m + d) \in Seq(Token)
          /\ Line(m + d) \in Seq(Token)
      BY <2>1, WrittenType, LineIsThere
    <2>5. /\ Len(Written(m + d) \o Line(m + d)) = Len(Written(m + d)) + Len(Line(m + d))
          /\ Len(Written(m + d)) \in Nat /\ Len(Line(m + d)) \in Nat /\ Len(Written(m)) \in Nat
          /\ \A k \in 1..Len(Written(m + d)) :
                 (Written(m + d) \o Line(m + d))[k] = Written(m + d)[k]
      BY <2>4, ConcatFacts
    <2> QED
      BY <2>2, <2>3, <2>5 DEF Begins
  <1>5. \A d \in Nat : d \in S => d + 1 \in S
    BY <1>4
  <1>6. Nat \subseteq S
    <2> HIDE DEF S
    <2> QED
      BY <1>3, <1>5, InductionOnSet
  <1>7. n - m \in Nat /\ m + (n - m) = n
    BY <1>2
  <1> QED
    BY <1>6, <1>7

-----------------------------------------------------------------------------
(* The invariants.                                                         *)

\* What has been written: the lines before next, and after a write that
\* failed a beginning of the next one too.
LinesWritten ==
    /\ next = READING => output = <<>> /\ exit # "success"
    /\ next # READING => next \in Places
    /\ next # READING /\ exit # "failure" => output = Written(next)
    /\ next # READING /\ exit = "failure" =>
           /\ next <= Len(records)
           /\ \E cut \in Cuts(Len(Line(next))) :
                  output = Written(next) \o SubSeq(Line(next), 1, cut)

Inv == TypeOK /\ LinesWritten

\* Lines depend on the mode, the format and the records.
LEMMA SameLines ==
    ASSUME mode' = mode, format' = format, records' = records
    PROVE  /\ FirstLine' = FirstLine
           /\ Places' = Places
           /\ \A n : Line(n)' = Line(n)
           /\ \A n : Written(n)' = Written(n)
  <1>1. FirstLine' = FirstLine
    BY DEF FirstLine
  <1>2. \A n : Line(n)' = Line(n)
    BY DEF Line, header, render
  <1>3. \A n : LinesTo(n)' = LinesTo(n)
    BY <1>1, <1>2 DEF LinesTo
  <1> QED
    BY <1>1, <1>2, <1>3 DEF Written, Places

\* The types, step by step.
LEMMA TypeStays ==
    ASSUME TypeOK, [Next]_vars
    PROVE  TypeOK'
  <1> USE DEF READING, HEADER
  <1>1. CASE ReadFails
    BY <1>1 DEF TypeOK, ReadFails, Reads
  <1>2. CASE ReadAndDecode
    <2>1. mode \in {"Raw", "Local", "Session"}
      BY DEF TypeOK, Modes
    <2>2. records' \in Seq(Record(mode))
      BY <1>2, <2>1, DecodedAssumption DEF ReadAndDecode
    <2>3. Record(mode)' = Record(mode)
      BY <1>2 DEF ReadAndDecode, Record
    <2>4. Len(records') \in Nat /\ FirstLine \in {0, 1}
      BY <2>2 DEF FirstLine
    <2> HIDE DEF READING
    <2>5. next' = FirstLine /\ mode' = mode /\ format' = format /\ exit' = exit /\ exit = "none"
      BY <1>2 DEF ReadAndDecode, Reads
    <2> QED
      BY <2>2, <2>3, <2>4, <2>5 DEF TypeOK, READING
  <1>3. CASE WriteLine
    BY <1>3 DEF TypeOK, WriteLine, Writes
  <1>4. CASE WriteFails
    BY <1>4 DEF TypeOK, WriteFails, Writes
  <1>5. CASE Done
    BY <1>5 DEF TypeOK, Done
  <1>6. CASE UNCHANGED vars
    BY <1>6 DEF TypeOK, vars
  <1> QED
    BY <1>1, <1>2, <1>3, <1>4, <1>5, <1>6 DEF Next, Finished

\* The lines written, step by step.
LEMMA WrittenStays ==
    ASSUME Inv, [Next]_vars, TypeOK'
    PROVE  LinesWritten'
  <1>1. TypeOK /\ LinesWritten
    BY DEF Inv
  <1>2. CASE ReadFails
    BY <1>1, <1>2 DEF LinesWritten, ReadFails, Reads
  <1>3. CASE ReadAndDecode
    <2>1. next' = FirstLine' /\ FirstLine' \in {0, 1} /\ FirstLine' # READING
      BY <1>3 DEF ReadAndDecode, FirstLine, HEADER, READING
    <2>2. output' = <<>> /\ exit' = "none"
      BY <1>1, <1>3 DEF ReadAndDecode, Reads, LinesWritten
    <2>3. Len(records') \in Nat
      BY DEF TypeOK
    <2>4. (FirstLine \in {0, 1} /\ Written(FirstLine) = <<>>)'
      BY WrittenNothing, PTL
    <2>5. Written(FirstLine)' = <<>>
      BY <2>4
    <2>6. (next \in Places)'
      BY <2>1, <2>3 DEF Places
    <2>7. Written(next)' = <<>>
      BY <2>1, <2>5
    <2> QED
      BY <2>1, <2>2, <2>6, <2>7 DEF LinesWritten
  <1>4. CASE WriteLine
    <2>1. /\ mode' = mode /\ format' = format /\ records' = records /\ exit' = exit
          /\ exit = "none" /\ next' = next + 1 /\ output' = output \o Line(next)
          /\ next \in HEADER..Len(records)
      BY <1>4 DEF WriteLine, Writes
    <2>2. Len(records) \in Nat /\ FirstLine \in {0, 1}
      BY <1>1 DEF TypeOK, FirstLine, HEADER
    <2>3. next # READING /\ next + 1 # READING
      BY <2>1, <2>2 DEF HEADER, READING
    <2>4. next \in Places /\ output = Written(next)
      BY <1>1, <2>1, <2>3 DEF LinesWritten
    <2>5. next \in FirstLine..Len(records)
      BY <2>1, <2>2, <2>4 DEF Places
    <2>6. next + 1 \in Places /\ Written(next + 1) = Written(next) \o Line(next)
      BY <1>1, <2>5, WrittenNext
    <2>7. (\A n : Written(n)' = Written(n)) /\ Places' = Places
      BY <2>1, SameLines
    <2>8. next' \in Places'
      BY <2>1, <2>6, <2>7
    <2>9. output' = Written(next)'
      BY <2>1, <2>4, <2>6, <2>7
    <2> QED
      BY <2>1, <2>3, <2>8, <2>9 DEF LinesWritten
  <1>5. CASE WriteFails
    <2>1. /\ mode' = mode /\ format' = format /\ records' = records /\ exit' = "failure"
          /\ exit = "none" /\ next' = next /\ next \in HEADER..Len(records)
      BY <1>5 DEF WriteFails, Writes
    <2>2. PICK cut \in Cuts(Len(Line(next))) : output' = output \o SubSeq(Line(next), 1, cut)
      BY <1>5 DEF WriteFails
    <2>3. next # READING /\ next <= Len(records)
      BY <1>1, <2>1 DEF HEADER, READING, TypeOK
    <2>4. next \in Places /\ output = Written(next)
      BY <1>1, <2>1, <2>3 DEF LinesWritten
    <2>5. /\ \A n : Written(n)' = Written(n)
          /\ \A n : Line(n)' = Line(n)
          /\ Places' = Places
      BY <2>1, SameLines
    <2>6. Written(next)' = Written(next) /\ Line(next)' = Line(next)
      BY <2>1, <2>5
    <2>7. (\E c \in Cuts(Len(Line(next))) :
               output = Written(next) \o SubSeq(Line(next), 1, c))'
      BY <2>2, <2>4, <2>6 DEF Cuts
    <2> QED
      BY <2>1, <2>3, <2>4, <2>5, <2>7 DEF LinesWritten
  <1>6. CASE Done
    <2>1. /\ mode' = mode /\ format' = format /\ records' = records /\ exit' = "success"
          /\ exit = "none" /\ next' = next /\ output' = output /\ next = Len(records) + 1
      BY <1>6 DEF Done
    <2>2. next # READING
      BY <1>1, <2>1 DEF TypeOK, READING
    <2>3. next \in Places /\ output = Written(next)
      BY <1>1, <2>1, <2>2 DEF LinesWritten
    <2>4. (\A n : Written(n)' = Written(n)) /\ Places' = Places
      BY <2>1, SameLines
    <2>5. output' = Written(next)'
      BY <2>1, <2>3, <2>4
    <2> QED
      BY <2>1, <2>2, <2>3, <2>4, <2>5 DEF LinesWritten
  <1>7. CASE UNCHANGED vars
    <2>1. /\ mode' = mode /\ format' = format /\ records' = records /\ exit' = exit
          /\ next' = next /\ output' = output
      BY <1>7 DEF vars
    <2>2. /\ \A n : Written(n)' = Written(n)
          /\ \A n : Line(n)' = Line(n)
          /\ Places' = Places
      BY <2>1, SameLines
    <2>3. Written(next)' = Written(next) /\ Line(next)' = Line(next)
      BY <2>1, <2>2
    <2> QED
      BY <1>1, <2>1, <2>2, <2>3 DEF LinesWritten, Cuts
  <1> QED
    BY <1>2, <1>3, <1>4, <1>5, <1>6, <1>7 DEF Next, Finished

\* They hold in every state.
LEMMA Invariance == Spec => []Inv
  <1>1. Init => Inv
    <2>1. <<>> \in Seq(Record(mode)) /\ Len(<<>>) = 0
      BY EmptySeq
    <2> QED
      BY <2>1 DEF Init, Inv, TypeOK, LinesWritten, READING
  <1>2. Inv /\ [Next]_vars => Inv'
    BY TypeStays, WrittenStays DEF Inv
  <1> QED
    BY <1>1, <1>2, PTL DEF Spec

-----------------------------------------------------------------------------
\* Type correctness: whatever is read, decoded and written, records are those
\* of the mode, and success comes after the last of them (lib.rs:52-101).
THEOREM TypeCorrect == Spec => []TypeOK
  <1>1. Inv => TypeOK
    BY DEF Inv
  <1> QED
    BY <1>1, Invariance, PTL

\* Where that is what has been written, the exit code is honest.
LEMMA InvIsHonest ==
    ASSUME Inv
    PROVE  ExitIsHonest
  <1>1. TypeOK /\ LinesWritten
    BY DEF Inv
  <1>2. FirstLine \in {0, 1} /\ Len(records) \in Nat
    BY <1>1 DEF TypeOK, FirstLine, HEADER
  <1> DEFINE last == Len(records) + 1
  <1>3. Everything = Written(last) /\ last \in Places
    <2>1. Len(records) + 1 - FirstLine = last - FirstLine
      BY <1>2
    <2> HIDE DEF last
    <2>2. Everything = Written(last)
      BY <2>1, Zenon DEF Everything, Written, LinesTo
    <2>3. last \in Places
      BY <1>2 DEF Places, last
    <2> QED
      BY <2>2, <2>3
  <1>4. Written(last) \in Seq(Token) /\ Len(Written(last)) \in Nat
    BY <1>1, <1>3, WrittenType, LenProperties
  <1>5. CASE next = READING
    <2>1. output = <<>> /\ exit # "success"
      BY <1>1, <1>5 DEF LinesWritten
    <2> QED
      BY <1>5, <2>1 DEF ExitIsHonest
  <1>6. CASE next # READING /\ exit # "failure"
    <2>1. next \in Places /\ output = Written(next) /\ next <= last
      BY <1>1, <1>2, <1>6 DEF LinesWritten, Places
    <2>2. exit = "success" => next = last
      BY <1>1 DEF TypeOK
    <2>3. Begins(Written(next), Written(last)) /\ Written(next) \in Seq(Token)
      BY <1>1, <1>3, <2>1, WrittenGrows, WrittenType
    <2>4. IsPrefix(Written(next), Written(last))
      BY <1>4, <2>3, StartsWith DEF Begins
    <2> HIDE DEF last
    <2> QED
      BY <1>3, <1>6, <2>1, <2>2, <2>4 DEF ExitIsHonest
  <1>7. CASE next # READING /\ exit = "failure"
    <2>1. next \in FirstLine..Len(records)
      BY <1>1, <1>2, <1>7 DEF LinesWritten, Places
    <2> DEFINE w == Written(next)
               line == Line(next)
    <2>2. PICK cut \in Cuts(Len(line)) : output = w \o SubSeq(line, 1, cut)
      BY <1>1, <1>7 DEF LinesWritten
    <2>3. /\ next \in Places /\ next + 1 \in Places /\ next + 1 <= last
          /\ Written(next + 1) = w \o line
      BY <1>1, <1>2, <2>1, WrittenNext
    <2>4. w \in Seq(Token) /\ line \in Seq(Token) /\ Written(next + 1) \in Seq(Token)
      BY <1>1, <2>1, <2>3, WrittenType, LineIsThere
    <2>5. Begins(Written(next + 1), Written(last))
      BY <1>1, <1>3, <2>3, WrittenGrows
    <2> DEFINE part == SubSeq(line, 1, cut)
    <2> HIDE DEF w, line, last
    <2>6. Len(line) \in Nat /\ cut \in Nat /\ cut < Len(line)
      BY <2>2, <2>4 DEF Cuts
    <2>7. part \in Seq(Token) /\ Len(part) = cut /\ \A k \in 1..cut : part[k] = line[k]
      <3>1. part \in Seq(Token)
        BY <2>4, <2>6, PartType
      <3>2. \A k \in 1..Len(line) : line[k] \in Token
        BY <2>4, ElementOfSeq
      <3>3. /\ Len(part) = IF 1 <= cut THEN cut - 1 + 1 ELSE 0
            /\ \A k \in 1..cut - 1 + 1 : part[k] = line[1 + k - 1]
        BY <2>6, <3>2, SubSeqProperties
      <3> QED
        BY <2>6, <3>1, <3>3
    <2> HIDE DEF part
    <2>8. /\ output \in Seq(Token) /\ Len(output) = Len(w) + cut /\ Len(w) \in Nat
          /\ \A k \in 1..Len(w) : output[k] = w[k]
          /\ \A k \in 1..cut : output[Len(w) + k] = part[k]
      BY <2>2, <2>4, <2>7, ConcatFacts DEF part
    <2>9. /\ Len(Written(next + 1)) = Len(w) + Len(line)
          /\ \A k \in 1..Len(w) : Written(next + 1)[k] = w[k]
          /\ \A k \in 1..Len(line) : Written(next + 1)[Len(w) + k] = line[k]
      BY <2>3, <2>4, ConcatFacts
    <2>10. Len(output) < Len(Written(last))
      BY <2>5, <2>6, <2>8, <2>9, <1>4 DEF Begins
    <2>11. ASSUME NEW k \in 1..Len(output)
           PROVE  Written(last)[k] = output[k]
      <3>1. Written(last)[k] = Written(next + 1)[k]
        BY <2>5, <2>6, <2>8, <2>9, <2>11 DEF Begins
      <3>2. k \in 1..Len(w) \/ (k - Len(w) \in 1..cut /\ Len(w) + (k - Len(w)) = k)
        BY <2>6, <2>8
      <3>3. CASE k \in 1..Len(w)
        BY <2>8, <2>9, <3>1, <3>3
      <3>4. CASE k - Len(w) \in 1..cut /\ Len(w) + (k - Len(w)) = k
        <4> DEFINE j == k - Len(w)
        <4>1. j \in 1..cut /\ Len(w) + j = k
          BY <3>4
        <4> HIDE DEF j
        <4>2. j \in 1..Len(line)
          BY <2>6, <4>1
        <4>3. Written(next + 1)[k] = line[j] /\ output[k] = part[j] /\ part[j] = line[j]
          BY <2>7, <2>8, <2>9, <4>1, <4>2
        <4> QED
          BY <3>1, <4>3
      <3> QED
        BY <3>2, <3>3, <3>4
    <2>12. IsPrefix(output, Written(last))
      BY <1>4, <2>8, <2>10, <2>11, StartsWith
    <2>13. output # Written(last)
      BY <2>10, <1>4
    <2> QED
      BY <1>3, <1>7, <2>12, <2>13 DEF ExitIsHonest, last
  <1> QED
    BY <1>5, <1>6, <1>7

\* The exit code is honest: success is reported exactly when the directory was
\* read and every line written, and what a failure leaves is a beginning of
\* that output and not all of it (lib.rs:69-70, main.rs:43-51).
THEOREM HonestExit == Spec => []ExitIsHonest
  <1>1. Inv => ExitIsHonest
    BY InvIsHonest
  <1> QED
    BY <1>1, Invariance, PTL

-----------------------------------------------------------------------------
(* Text keeps a record on its line.                                        *)

\* Tokens that break no line.
Calm == Token \ {"\n", "\r"}

\* The records are none, or what was decoded.
FromDecoded == records = <<>> \/ records \in Decoded[mode]

LEMMA DecodedHolds == Spec => []FromDecoded
  <1>1. Init => FromDecoded
    BY DEF Init, FromDecoded
  <1>2. FromDecoded /\ [Next]_vars => FromDecoded'
    BY DEF FromDecoded, Next, ReadFails, ReadAndDecode, WriteLine, WriteFails, Done, Finished,
           Reads, Writes, vars
  <1> QED
    BY <1>1, <1>2, PTL DEF Spec

\* Words and the numbers of a record break no line.
LEMMA CalmWords ==
    /\ Words \subseteq Calm
    /\ \A n \in Nat : ToString(n) \notin {"\n", "\r"} => Num(n) \in Seq(Calm)
  <1>1. Words \subseteq Token
    BY Tokens
  <1>2. Words \cap {"\n", "\r"} = {}
    BY DEF Words
  <1>3. ASSUME NEW n \in Nat, ToString(n) \notin {"\n", "\r"}
        PROVE  Num(n) \in Seq(Calm)
    <2>1. ToString(n) \in Token
      BY Zenon DEF Token
    <2>2. ToString(n) \in Calm
      BY <1>3, <2>1 DEF Calm
    <2> QED
      BY <2>2, Ones, Zenon DEF Num
  <1> QED
    BY <1>1, <1>2, <1>3 DEF Calm

\* A text without breaks breaks no line, and no text does once it is on one.
LEMMA CalmTexts ==
    ASSUME NEW s \in Text
    PROVE  /\ Range(s) \cap {"\n", "\r"} = {} => s \in Seq(Calm)
           /\ oneline(s) \in Seq(Calm)
  <1>1. s \in Seq(Token)
    BY TextIsTokens
  <1>2. Len(s) \in Nat /\ DOMAIN s = 1..Len(s) /\ \A k \in DOMAIN s : s[k] \in Token
    BY <1>1
  <1>3. ASSUME Range(s) \cap {"\n", "\r"} = {}
        PROVE  s \in Seq(Calm)
    <2>1. \A k \in DOMAIN s : s[k] \in Range(s)
      BY DEF Range
    <2>2. \A k \in DOMAIN s : s[k] \in Calm
      BY <1>2, <1>3, <2>1 DEF Calm
    <2>3. s \in [1..Len(s) -> Calm]
      BY <1>1, <1>2, <2>2
    <2> QED
      BY <1>2, <2>3
  <1>4. oneline(s) \in Seq(Calm)
    <2>1. " " \in Calm
      BY CalmWords DEF Words
    <2>2. \A k \in DOMAIN s : (IF s[k] \in {"\n", "\r", "\t"} THEN " " ELSE s[k]) \in Calm
      BY <1>2, <2>1 DEF Calm
    <2>3. oneline(s) \in [1..Len(s) -> Calm]
      BY <1>2, <2>2 DEF oneline
    <2> QED
      BY <1>2, <2>3
  <1> QED
    BY <1>3, <1>4

\* The line of a record whose strings are written as they are breaks nowhere else.
LEMMA CalmLine ==
    ASSUME TypeOK, FromDecoded, format = "Text", NEW k \in DOMAIN records,
           \A s \in Verbatim(records[k]) : Range(s) \cap {"\n", "\r"} = {}
    PROVE  render(records[k]) \in Seq(Calm)
  <1> DEFINE r == records[k]
  <1>1. mode \in Modes /\ r \in Record(mode)
    BY ElementOfSeq DEF TypeOK
  <1>2. /\ \A n \in Numbers(r) : ToString(n) \notin {"\n", "\r"}
    <2>1. records # <<>>
      BY DEF TypeOK
    <2>2. mode \in {"Raw", "Local", "Session"} /\ records \in Decoded[mode]
      BY <1>1, <2>1 DEF FromDecoded, Modes
    <2> QED
      BY <2>2, NumberAssumption
  <1>3. \/ r \in RawRecord \/ r \in MetaRecord \/ r \in DataRecord
        \/ r \in NamespaceRecord \/ r \in MapRecord \/ r \in OtherRecord
    BY <1>1 DEF Record, Modes
  <1> HIDE DEF r
  <1>4. \A s \in Verbatim(r) : s \in Text
    BY <1>3 DEF Verbatim, RawRecord, MetaRecord, DataRecord, NamespaceRecord, MapRecord, OtherRecord, Option
  <1>5. \A n \in Numbers(r) : n \in Nat
    BY <1>3 DEF Numbers, RawRecord, MetaRecord, DataRecord, NamespaceRecord, MapRecord, OtherRecord, Option
  <1>6. /\ r.kind = "Data" => r.script_key \in StoredText /\ r.value \in StoredText
        /\ r.kind = "Map"  => r.script_key \in Text /\ r.value \in StoredText
    BY <1>3 DEF RawRecord, MetaRecord, DataRecord, NamespaceRecord, MapRecord, OtherRecord
  <1>7. \A v \in StoredText : oneline(v.text) \in Seq(Calm)
    BY CalmTexts DEF StoredText
  <1>8. \A s \in Verbatim(r) : s \in Seq(Calm)
    BY <1>4, CalmTexts DEF r
  <1>9. \A n \in Numbers(r) : Num(n) \in Seq(Calm)
    BY <1>2, <1>5, CalmWords
  <1>10. TextOver(Calm, r)
    BY <1>6, <1>7, <1>8, <1>9, CalmWords, CalmTexts DEF TextOver
  <1>11. render(r) \in Seq(Calm)
    BY <1>1, <1>10, TextLine
  <1> QED
    BY <1>11 DEF r

\* Where the lines of s end.
Ends(s) == {k \in DOMAIN s : s[k] = "\n"}

\* v is w and then a line that holds row.
OneMore(w, row, v) ==
    /\ v \in Seq(Token)
    /\ Len(v) = Len(w) + Len(row) + 1
    /\ \A k \in 1..Len(row) : v[Len(w) + k] = row[k]
    /\ Ends(v) = Ends(w) \cup {Len(v)}
    /\ Len(v) \notin Ends(w)
    /\ "\r" \notin Range(w) => "\r" \notin Range(v)

\* One line more has one end more, which is its last token.
LEMMA EndsGrow ==
    ASSUME NEW w \in Seq(Token), NEW row \in Seq(Calm)
    PROVE  OneMore(w, row, w \o (row \o <<"\n">>))
  <1> DEFINE line == row \o <<"\n">>
             v    == w \o line
  <1>1. row \in Seq(Token)
    BY DEF Calm
  <1>2. "\n" \in Token
    BY Zenon DEF Token
  <1>3. <<"\n">> \in Seq(Token) /\ Len(<<"\n">>) = 1 /\ <<"\n">>[1] = "\n"
    BY <1>2
  <1>4. /\ line \in Seq(Token) /\ Len(line) = Len(row) + 1 /\ Len(row) \in Nat
        /\ \A k \in 1..Len(row) : line[k] = row[k]
        /\ line[Len(row) + 1] = "\n"
    BY <1>1, <1>3, ConcatFacts
  <1> HIDE DEF line
  <1>5. /\ v \in Seq(Token) /\ Len(v) = Len(w) + Len(line) /\ Len(w) \in Nat
        /\ \A k \in 1..Len(w) : v[k] = w[k]
        /\ \A k \in 1..Len(line) : v[Len(w) + k] = line[k]
    <2>1. line \in Seq(Token)
      BY <1>4
    <2> QED
      BY <2>1, ConcatFacts DEF v
  <1> HIDE DEF v
  <1>6. /\ Len(v) = Len(w) + Len(row) + 1 /\ Len(v) \in Nat
        /\ \A k \in 1..Len(row) : v[Len(w) + k] = row[k]
        /\ v[Len(v)] = "\n"
    <2>1. \A k \in 1..Len(row) : v[Len(w) + k] = row[k]
      BY <1>4, <1>5
    <2>2. Len(row) + 1 \in 1..Len(line)
      BY <1>4
    <2>3. v[Len(w) + (Len(row) + 1)] = "\n"
      BY <1>4, <1>5, <2>2
    <2>4. Len(v) = Len(w) + (Len(row) + 1)
      BY <1>4, <1>5
    <2> QED
      BY <1>4, <1>5, <2>1, <2>3, <2>4
  <1>7. \A k \in 1..Len(row) : row[k] \in Calm
    BY ElementOfSeq
  <1>8. ASSUME NEW k \in 1..Len(v)
        PROVE  \/ k \in 1..Len(w) /\ v[k] = w[k]
               \/ k \notin 1..Len(w) /\ k # Len(v) /\ v[k] \in Calm
               \/ k = Len(v)
    <2>1. k \in 1..Len(w) \/ k = Len(v) \/ k - Len(w) \in 1..Len(row)
      <3>1. Len(w) \in Nat /\ Len(row) \in Nat /\ Len(v) = Len(w) + Len(row) + 1
        BY <1>4, <1>5, <1>6
      <3> QED
        BY <3>1
    <2>2. CASE k \notin 1..Len(w) /\ k # Len(v) /\ k - Len(w) \in 1..Len(row)
      <3> DEFINE j == k - Len(w)
      <3>1. j \in 1..Len(row) /\ Len(w) + j = k
        BY <1>5, <2>2
      <3> HIDE DEF j
      <3> QED
        BY <1>6, <1>7, <2>2, <3>1
    <2> QED
      BY <1>5, <2>1, <2>2
  <1>9. DOMAIN v = 1..Len(v) /\ DOMAIN w = 1..Len(w)
    BY <1>5
  <1>10. Ends(v) = Ends(w) \cup {Len(v)}
    <2>1. ASSUME NEW k \in Ends(v)
          PROVE  k \in Ends(w) \cup {Len(v)}
      <3>1. k \in 1..Len(v) /\ v[k] = "\n"
        BY <1>9, <2>1 DEF Ends
      <3>2. v[k] \notin Calm
        BY <3>1 DEF Calm
      <3> QED
        BY <1>8, <1>9, <3>1, <3>2 DEF Ends
    <2>2. Len(v) \in Ends(v)
      BY <1>4, <1>5, <1>6, <1>9 DEF Ends
    <2>3. \A k \in Ends(w) : k \in 1..Len(w) /\ w[k] = "\n"
      BY <1>9 DEF Ends
    <2>4. \A k \in Ends(w) : k \in 1..Len(v) /\ v[k] = "\n"
      BY <1>4, <1>5, <1>6, <2>3
    <2>5. \A k \in Ends(w) : k \in Ends(v)
      BY <1>9, <2>4 DEF Ends
    <2> QED
      BY <2>1, <2>2, <2>5
  <1>11. Len(v) \notin Ends(w)
    BY <1>4, <1>5, <1>6, <1>9 DEF Ends
  <1>12. ASSUME "\r" \notin Range(w)
         PROVE  "\r" \notin Range(v)
    <2>1. \A k \in 1..Len(w) : w[k] # "\r"
      BY <1>9, <1>12 DEF Range
    <2>2. "\r" \notin Calm /\ "\r" # "\n"
      BY DEF Calm
    <2>3. \A k \in 1..Len(v) : v[k] # "\r"
      BY <1>6, <1>8, <2>1, <2>2
    <2> QED
      BY <1>9, <2>3 DEF Range
  <1>13. OneMore(w, row, v)
    BY <1>5, <1>6, <1>10, <1>11, <1>12 DEF OneMore
  <1> QED
    BY <1>13 DEF v, line

\* The place of a number in a finite set is that of no other.
LEMMA SamePlace ==
    ASSUME NEW S, S \subseteq Nat, IsFiniteSet(S), NEW d \in S, NEW e \in S,
           Cardinality({m \in S : m <= d}) = Cardinality({m \in S : m <= e})
    PROVE  d = e
  <1> DEFINE U(x) == {m \in S : m <= x}
  <1>1. IsFiniteSet(U(d)) /\ IsFiniteSet(U(e))
    BY FS_Subset
  <1>2. d \in Nat /\ e \in Nat /\ d \in U(d) /\ e \in U(e)
    OBVIOUS
  <1>3. Cardinality(U(d)) = Cardinality(U(e))
    OBVIOUS
  <1>4. CASE d <= e
    <2>1. \A m \in S : m <= d => m <= e
      BY <1>2, <1>4
    <2>2. U(d) = U(e)
      <3>1. U(d) \subseteq U(e) \/ U(e) \subseteq U(d)
        BY <2>1
      <3> HIDE DEF U
      <3> QED
        BY <1>1, <1>3, <3>1, FS_Subset
    <2> QED
      BY <1>2, <1>4, <2>2
  <1>5. CASE e <= d
    <2>1. \A m \in S : m <= e => m <= d
      BY <1>2, <1>5
    <2>2. U(d) = U(e)
      <3>1. U(d) \subseteq U(e) \/ U(e) \subseteq U(d)
        BY <2>1
      <3> HIDE DEF U
      <3> QED
        BY <1>1, <1>3, <3>1, FS_Subset
    <2> QED
      BY <1>2, <1>5, <2>2
  <1> QED
    BY <1>2, <1>4, <1>5

\* A dump of records whose lines break nowhere.
CalmDump == /\ TypeOK /\ format \in {"Text", "Jsonl"}
            /\ \A k \in DOMAIN records : render(records[k]) \in Seq(Calm)

\* The n-th line is written after those before it.
LEMMA CalmNext ==
    ASSUME CalmDump, NEW n \in 1..Len(records)
    PROVE  /\ FirstLine = 1 /\ n \in Places /\ n + 1 \in Places
           /\ Written(n) \in Seq(Token) /\ render(records[n]) \in Seq(Calm)
           /\ OneMore(Written(n), render(records[n]), Written(n + 1))
  <1>1. FirstLine = 1 /\ TypeOK
    BY DEF CalmDump, FirstLine
  <1>2. n \in FirstLine..Len(records)
    BY <1>1
  <1>3. n \in Places /\ n + 1 \in Places /\ Written(n + 1) = Written(n) \o Line(n)
    BY <1>1, <1>2, WrittenNext
  <1>4. Written(n) \in Seq(Token)
    BY <1>1, <1>3, WrittenType
  <1>5. n \in DOMAIN records
    BY <1>1 DEF TypeOK
  <1>6. render(records[n]) \in Seq(Calm)
    BY <1>5 DEF CalmDump
  <1>7. Line(n) = render(records[n]) \o <<"\n">>
    <2>1. n # HEADER
      BY DEF HEADER
    <2> QED
      BY <2>1, Zenon DEF Line
  <1> QED
    BY <1>1, <1>3, <1>4, <1>6, <1>7, EndsGrow

\* Before line n there are n - 1 ends of lines.
LEMMA EndsCounted ==
    ASSUME CalmDump, NEW n \in 1..Len(records) + 1
    PROVE  /\ IsFiniteSet(Ends(Written(n))) /\ Cardinality(Ends(Written(n))) = n - 1
           /\ "\r" \notin Range(Written(n))
  <1> DEFINE Counted(j) == /\ IsFiniteSet(Ends(Written(j)))
                           /\ Cardinality(Ends(Written(j))) = j - 1
                           /\ "\r" \notin Range(Written(j))
             S == {d \in Nat : d + 1 <= Len(records) + 1 => Counted(d + 1)}
  <1>1. FirstLine = 1 /\ Len(records) \in Nat
    BY DEF CalmDump, FirstLine, TypeOK
  <1>2. 0 \in S
    <2>1. Written(1) = <<>>
      BY <1>1, WrittenNothing
    <2>2. Ends(<<>>) = {} /\ "\r" \notin Range(<<>>)
      BY DEF Ends, Range
    <2>3. Cardinality({}) = 1 - 1 /\ IsFiniteSet({})
      BY FS_EmptySet
    <2>4. Counted(1)
      BY <2>1, <2>2, <2>3
    <2>5. 0 \in Nat /\ 0 + 1 = 1
      OBVIOUS
    <2> HIDE DEF Counted
    <2> QED
      BY <2>4, <2>5
  <1>3. ASSUME NEW d \in Nat, d \in S
        PROVE  d + 1 \in S
    <2> SUFFICES ASSUME d + 2 <= Len(records) + 1
                 PROVE  Counted(d + 2)
      BY <1>1
    <2>1. d + 1 \in 1..Len(records) /\ (d + 1) + 1 = d + 2 /\ (d + 2) - 1 = ((d + 1) - 1) + 1
      BY <1>1
    <2>2. Counted(d + 1)
      BY <1>1, <1>3
    <2>3. OneMore(Written(d + 1), render(records[d + 1]), Written(d + 2))
      BY <2>1, CalmNext, Zenon
    <2> DEFINE A == Ends(Written(d + 1))
               e == Len(Written(d + 2))
    <2>4. Ends(Written(d + 2)) = A \cup {e} /\ e \notin A
      BY <2>3 DEF OneMore
    <2>5. IsFiniteSet(A) /\ Cardinality(A) = (d + 1) - 1
      BY <2>2
    <2>6. "\r" \notin Range(Written(d + 2))
      BY <2>2, <2>3 DEF OneMore
    <2> HIDE DEF A, e
    <2>7. IsFiniteSet(A \cup {e}) /\ Cardinality(A \cup {e}) = Cardinality(A) + 1
      BY <2>4, <2>5, FS_AddElement
    <2> QED
      BY <2>1, <2>4, <2>5, <2>6, <2>7
  <1>4. Nat \subseteq S
    <2> HIDE DEF S
    <2> QED
      BY <1>2, <1>3, InductionOnSet
  <1>5. n - 1 \in S /\ (n - 1) + 1 = n /\ n <= Len(records) + 1
    BY <1>1, <1>4
  <1>6. Counted((n - 1) + 1)
    BY <1>1, <1>5
  <1> QED
    BY <1>5, <1>6

\* Of the ends in a later output, those of an earlier one are the first.
LEMMA EndsBelow ==
    ASSUME CalmDump, NEW m \in 1..Len(records) + 1, NEW n \in 1..Len(records) + 1, m <= n
    PROVE  {k \in Ends(Written(n)) : k <= Len(Written(m))} = Ends(Written(m))
  <1>1. TypeOK /\ m \in Places /\ n \in Places
    BY DEF CalmDump, FirstLine, Places
  <1>2. Written(m) \in Seq(Token) /\ Written(n) \in Seq(Token)
        /\ Begins(Written(m), Written(n))
    BY <1>1, WrittenType, WrittenGrows
  <1> DEFINE u == Written(m)
             v == Written(n)
  <1>3. /\ DOMAIN u = 1..Len(u) /\ DOMAIN v = 1..Len(v)
        /\ Len(u) \in Nat /\ Len(v) \in Nat /\ Len(u) <= Len(v)
        /\ \A k \in 1..Len(u) : v[k] = u[k]
    BY <1>2 DEF Begins
  <1> HIDE DEF u, v
  <1>4. \A k : k \in Ends(v) /\ k <= Len(u) <=> k \in Ends(u)
    BY <1>3 DEF Ends
  <1>5. {k \in Ends(v) : k <= Len(u)} = Ends(u)
    BY <1>4
  <1> QED
    BY <1>5 DEF u, v

\* What begins what is the beginning of something begins it too.
LEMMA BeginsAll ==
    ASSUME NEW s, NEW t, NEW u, Len(s) \in Nat, Len(t) \in Nat, Len(u) \in Nat,
           Begins(s, t), Begins(t, u)
    PROVE  Begins(s, u)
  BY DEF Begins

\* The whole lines of an output are those of the records before the n-th, where
\* what stands after them does not end.
LEMMA CalmLines ==
    ASSUME CalmDump, NEW n \in 1..Len(records) + 1, NEW out \in Seq(Token),
           Begins(Written(n), out), Ends(out) = Ends(Written(n))
    PROVE  WholeLines(out) = [k \in 1..n - 1 |-> render(records[k])]
  <1> DEFINE N      == n - 1
             w(k)   == Len(Written(k))
             ends   == Ends(out)
             end(k) == IF k = 0 THEN 0
                       ELSE CHOOSE e \in ends : Cardinality({m \in ends : m <= e}) = k
  <1>1. TypeOK /\ FirstLine = 1 /\ Len(records) \in Nat /\ N \in Nat /\ N <= Len(records)
    BY DEF CalmDump, FirstLine, TypeOK
  <1>2. n \in Places /\ N + 1 = n /\ n \in Nat
    BY <1>1 DEF Places
  <1>3. Len(out) \in Nat
    BY LenProperties
  <1>4. IsFiniteSet(ends) /\ Cardinality(ends) = N
    BY EndsCounted
  <1>5. WholeLines(out) = [k \in 1..Cardinality(ends) |-> SubSeq(out, end(k - 1) + 1, end(k) - 1)]
    BY DEF WholeLines, Ends
  <1>6. ends \subseteq Nat
    BY <1>3 DEF Ends
  <1>7. w(1) = 0
    BY <1>1, WrittenNothing, EmptySeq
  <1>8. ASSUME NEW k \in 1..N
        PROVE  /\ OneMore(Written(k), render(records[k]), Written(k + 1))
               /\ Written(k) \in Seq(Token) /\ render(records[k]) \in Seq(Calm)
               /\ Begins(Written(k + 1), out)
    <2>1. k \in 1..Len(records) /\ k + 1 <= n
      BY <1>1, <1>2
    <2>2. /\ k + 1 \in Places /\ Written(k) \in Seq(Token) /\ render(records[k]) \in Seq(Calm)
          /\ OneMore(Written(k), render(records[k]), Written(k + 1))
      BY <2>1, CalmNext
    <2>3. Written(k + 1) \in Seq(Token) /\ Written(n) \in Seq(Token)
          /\ Begins(Written(k + 1), Written(n))
      BY <1>1, <1>2, <2>1, <2>2, WrittenType, WrittenGrows
    <2>4. Len(Written(k + 1)) \in Nat /\ Len(Written(n)) \in Nat
      BY <2>3, LenProperties
    <2>5. Begins(Written(k + 1), out)
      BY <1>3, <2>3, <2>4, BeginsAll
    <2> QED
      BY <2>2, <2>5
  <1>9. ASSUME NEW k \in 1..N
        PROVE  end(k) = w(k + 1)
    <2>1. k + 1 \in 1..Len(records) + 1 /\ k + 1 <= n /\ (k + 1) - 1 = k /\ k # 0
      BY <1>1, <1>2
    <2>2. {e \in ends : e <= w(k + 1)} = Ends(Written(k + 1))
      BY <2>1, EndsBelow
    <2>3. Cardinality({e \in ends : e <= w(k + 1)}) = k
      BY <2>1, <2>2, EndsCounted
    <2>4. w(k + 1) \in Ends(Written(k + 1))
      BY <1>8 DEF OneMore
    <2> DEFINE e == w(k + 1)
               f == CHOOSE d \in ends : Cardinality({m \in ends : m <= d}) = k
    <2>5. e \in ends
      BY <2>2, <2>4
    <2> HIDE DEF ends, e
    <2>6. Cardinality({m \in ends : m <= e}) = k
      BY <2>3 DEF e
    <2>7. f \in ends /\ Cardinality({m \in ends : m <= f}) = k
      BY <2>5, <2>6
    <2> HIDE DEF f
    <2>8. f = e
      <3>1. /\ ends \subseteq Nat /\ IsFiniteSet(ends) /\ f \in ends /\ e \in ends
            /\ Cardinality({m \in ends : m <= f}) = Cardinality({m \in ends : m <= e})
        BY <1>4, <1>6, <2>5, <2>6, <2>7
      <3> QED
        BY <3>1, SamePlace, ZenonT(40)
    <2> QED
      BY <2>1, <2>8 DEF e, f
  <1> HIDE DEF end
  <1>10. ASSUME NEW k \in 1..N
         PROVE  SubSeq(out, end(k - 1) + 1, end(k) - 1) = render(records[k])
    <2> DEFINE row == render(records[k])
               u   == Written(k)
               v   == Written(k + 1)
    <2>1. end(k - 1) = Len(u)
      <3>1. CASE k = 1
        BY <1>7, <3>1 DEF end
      <3>2. CASE k # 1
        <4>1. k - 1 \in 1..N /\ (k - 1) + 1 = k
          BY <1>1, <3>2
        <4>2. end(k - 1) = w((k - 1) + 1)
          BY <1>9, <4>1
        <4> QED
          BY <4>1, <4>2
      <3> QED
        BY <3>1, <3>2
    <2>2. end(k) = Len(v)
      BY <1>9
    <2>3. OneMore(u, row, v) /\ u \in Seq(Token) /\ row \in Seq(Calm) /\ Begins(v, out)
      BY <1>8
    <2> HIDE DEF ends, row, u, v
    <2>4. /\ Len(u) \in Nat /\ Len(row) \in Nat /\ row \in Seq(Token)
          /\ Len(v) = Len(u) + Len(row) + 1
          /\ \A i \in 1..Len(row) : v[Len(u) + i] = row[i]
      BY <2>3 DEF OneMore, Calm
    <2>5. /\ Len(u) + Len(row) <= Len(out)
          /\ \A i \in 1..Len(row) : out[Len(u) + i] = row[i]
      <3>1. Len(v) <= Len(out) /\ \A i \in 1..Len(v) : out[i] = v[i]
        BY <2>3 DEF Begins
      <3>2. \A i \in 1..Len(row) : Len(u) + i \in 1..Len(v)
        BY <2>4
      <3> QED
        BY <1>3, <2>4, <3>1, <3>2
    <2>6. SubSeq(out, Len(u) + 1, Len(u) + Len(row)) = row
      BY <1>3, <2>4, <2>5, PartIs
    <2>7. Len(v) - 1 = Len(u) + Len(row)
      BY <2>4
    <2> QED
      BY <2>1, <2>2, <2>6, <2>7 DEF row
  <1> HIDE DEF ends, N
  <1>11. WholeLines(out) = [k \in 1..N |-> render(records[k])]
    <2>1. [k \in 1..N |-> SubSeq(out, end(k - 1) + 1, end(k) - 1)]
              = [k \in 1..N |-> render(records[k])]
      BY <1>10
    <2> QED
      BY <1>4, <1>5, <2>1
  <1> QED
    BY <1>11 DEF N

\* In a dump as text, the k-th line is that of the k-th record, whatever bytes
\* its script key and its value hold (render.rs:3-4, 55-65).
THEOREM RecordsKeepTheirLines == Spec => []TextLinePerRecord
  <1>1. ASSUME Inv, FromDecoded
        PROVE  TextLinePerRecord
    <2> SUFFICES ASSUME format = "Text", exit = "success",
                        \A k \in DOMAIN records : \A s \in Verbatim(records[k]) :
                            Range(s) \cap {"\n", "\r"} = {}
                 PROVE  /\ WholeLines(output) = [k \in DOMAIN records |-> render(records[k])]
                        /\ "\r" \notin Range(output)
      BY DEF TextLinePerRecord
    <2>1. TypeOK /\ LinesWritten
      BY <1>1 DEF Inv
    <2>2. output = Written(Len(records) + 1)
      BY <2>1 DEF TypeOK, LinesWritten
    <2>3. \A k \in DOMAIN records : render(records[k]) \in Seq(Calm)
      BY <1>1, <2>1, CalmLine
    <2>4. CalmDump
      BY <2>1, <2>3 DEF CalmDump
    <2> DEFINE N == Len(records)
    <2>5. /\ N + 1 \in 1..N + 1 /\ N + 1 \in Places /\ (N + 1) - 1 = N
          /\ DOMAIN records = 1..N
      BY <2>1 DEF TypeOK, FirstLine, Places
    <2>6. output \in Seq(Token) /\ Begins(output, output)
      <3>1. output \in Seq(Token)
        BY <2>1, <2>2, <2>5, WrittenType
      <3>2. Len(output) \in Nat
        BY <3>1, LenProperties
      <3> QED
        BY <3>1, <3>2 DEF Begins
    <2>7. WholeLines(output) = [k \in 1..N |-> render(records[k])]
      <3>1. WholeLines(output) = [k \in 1..(N + 1) - 1 |-> render(records[k])]
        BY <2>2, <2>4, <2>5, <2>6, CalmLines
      <3> QED
        BY <2>5, <3>1
    <2>8. "\r" \notin Range(output)
      BY <2>2, <2>4, <2>5, EndsCounted
    <2> QED
      BY <2>5, <2>7, <2>8
  <1> QED
    BY <1>1, Invariance, DecodedHolds, PTL

-----------------------------------------------------------------------------
(* The JSON parser, token by token.                                        *)

\* From state p the parser comes to state q when it takes the tokens of s.
JsonRun(p, s, q) == \E f : /\ f[0] = p /\ f[Len(s)] = q
                           /\ \A k \in 1..Len(s) : f[k] = JsonStep(f[k - 1], s[k])

\* Two functions on the places of two sequences put together as the sequences are:
\* each place of the result is one of the two.
GluedTo(s, t, f, g, h) ==
    /\ h[0] = f[0] /\ h[Len(s \o t)] = g[Len(t)]
    /\ \A k \in 1..Len(s \o t) :
           \/ \E j \in 1..Len(s) : h[k] = f[j] /\ h[k - 1] = f[j - 1] /\ (s \o t)[k] = s[j]
           \/ \E j \in 1..Len(t) : h[k] = g[j] /\ h[k - 1] = g[j - 1] /\ (s \o t)[k] = t[j]

\* Two such functions can be put together when the first ends where the second begins.
LEMMA Glued ==
    ASSUME NEW X, NEW s \in Seq(X), NEW t \in Seq(X), NEW f, NEW g, f[Len(s)] = g[0]
    PROVE  \E h : GluedTo(s, t, f, g, h)
  <1> DEFINE m == Len(s)
             n == Len(t)
             u == s \o t
             h == [k \in 0..m + n |-> IF k <= m THEN f[k] ELSE g[k - m]]
  <1>1. /\ m \in Nat /\ n \in Nat /\ Len(u) = m + n
        /\ \A k \in 1..m : u[k] = s[k]
        /\ \A k \in 1..n : u[m + k] = t[k]
    BY ConcatFacts
  <1>2. f[m] = g[0]
    OBVIOUS
  <1> HIDE DEF m, n, u
  <1>3. \A k \in 0..m : h[k] = f[k]
    BY <1>1
  <1>4. \A k \in 0..n : h[m + k] = g[k]
    <2>1. ASSUME NEW k \in 0..n
          PROVE  h[m + k] = g[k]
      <3>1. m + k \in 0..m + n /\ (m + k) - m = k /\ (m + k <= m => k = 0 /\ m + k = m)
        BY <1>1
      <3>2. h[m + k] = IF m + k <= m THEN f[m + k] ELSE g[(m + k) - m]
        BY <3>1
      <3> HIDE DEF h
      <3> QED
        BY <1>2, <3>1, <3>2
    <2> QED
      BY <2>1
  <1> HIDE DEF h
  <1>5. h[0] = f[0] /\ h[Len(u)] = g[n]
    BY <1>1, <1>3, <1>4
  <1>6. ASSUME NEW k \in 1..Len(u)
        PROVE  \/ \E j \in 1..m : h[k] = f[j] /\ h[k - 1] = f[j - 1] /\ u[k] = s[j]
               \/ \E j \in 1..n : h[k] = g[j] /\ h[k - 1] = g[j - 1] /\ u[k] = t[j]
    <2>1. CASE k <= m
      <3>1. k \in 1..m /\ k \in 0..m /\ k - 1 \in 0..m
        BY <1>1, <2>1
      <3> QED
        BY <1>1, <1>3, <3>1
    <2>2. CASE ~(k <= m)
      <3> DEFINE j == k - m
      <3>1. j \in 1..n /\ j \in 0..n /\ j - 1 \in 0..n /\ m + j = k /\ m + (j - 1) = k - 1
        BY <1>1, <2>2
      <3> HIDE DEF j
      <3>2. h[m + j] = g[j] /\ h[m + (j - 1)] = g[j - 1] /\ u[m + j] = t[j]
        BY <1>1, <1>4, <3>1
      <3> QED
        BY <3>1, <3>2
    <2> QED
      BY <2>1, <2>2
  <1> QED
    <2>1. GluedTo(s, t, f, g, h)
      BY <1>5, <1>6, Zenon DEF m, n, u, GluedTo
    <2> QED
      BY <2>1

\* One run after another.
LEMMA JsonRuns ==
    ASSUME NEW X, NEW s \in Seq(X), NEW t \in Seq(X), NEW p, NEW q, NEW r,
           JsonRun(p, s, q), JsonRun(q, t, r)
    PROVE  JsonRun(p, s \o t, r)
  <1>1. PICK f : f[0] = p /\ f[Len(s)] = q /\ \A k \in 1..Len(s) : f[k] = JsonStep(f[k - 1], s[k])
    BY Zenon DEF JsonRun
  <1>2. PICK g : g[0] = q /\ g[Len(t)] = r /\ \A k \in 1..Len(t) : g[k] = JsonStep(g[k - 1], t[k])
    BY Zenon DEF JsonRun
  <1>3. f[Len(s)] = g[0]
    BY <1>1, <1>2
  <1>4. PICK h : GluedTo(s, t, f, g, h)
    BY <1>3, Glued
  <1>5. ASSUME NEW k \in 1..Len(s \o t)
        PROVE  h[k] = JsonStep(h[k - 1], (s \o t)[k])
    BY <1>1, <1>2, <1>4, Zenon DEF GluedTo
  <1>6. h[0] = p /\ h[Len(s \o t)] = r
    BY <1>1, <1>2, <1>4 DEF GluedTo
  <1> QED
    BY <1>5, <1>6, Zenon DEF JsonRun

\* A run over nothing, and over one token.
LEMMA JsonRunOne ==
    ASSUME NEW p, NEW c
    PROVE  JsonRun(p, <<>>, p) /\ JsonRun(p, <<c>>, JsonStep(p, c))
  <1>1. JsonRun(p, <<>>, p)
    <2> DEFINE f == [k \in 0..0 |-> p]
    <2>1. f[0] = p /\ Len(<<>>) = 0
      OBVIOUS
    <2> HIDE DEF f
    <2> QED
      BY <2>1 DEF JsonRun
  <1>2. JsonRun(p, <<c>>, JsonStep(p, c))
    <2> DEFINE q == JsonStep(p, c)
    <2> HIDE DEF q
    <2> DEFINE f == [k \in 0..1 |-> IF k = 0 THEN p ELSE q]
    <2>1. f[0] = p /\ f[1] = q
      OBVIOUS
    <2>2. Len(<<c>>) = 1 /\ <<c>>[1] = c
      OBVIOUS
    <2> HIDE DEF f
    <2>3. \A k \in 1..Len(<<c>>) : f[k] = JsonStep(f[k - 1], <<c>>[k])
      <3> SUFFICES ASSUME NEW k \in 1..Len(<<c>>)
                   PROVE  f[k] = JsonStep(f[k - 1], <<c>>[k])
        OBVIOUS
      <3>1. k = 1 /\ k - 1 = 0
        BY <2>2
      <3> QED
        BY <2>1, <2>2, <3>1, Zenon DEF q
    <2> QED
      BY <2>1, <2>2, <2>3, Zenon DEF JsonRun, q
  <1> QED
    BY <1>1, <1>2

\* The parser comes to one state, which is that of Parse.
LEMMA JsonParse ==
    ASSUME NEW s, Len(s) \in Nat, NEW q, JsonRun(JsonStart, s, q)
    PROVE  Parse(JsonStep, JsonStart, s) = q
  <1> DEFINE n == Len(s)
             after == CHOOSE a : a = [k \in 0..n |-> IF k = 0 THEN JsonStart
                                                     ELSE JsonStep(a[k - 1], s[k])]
  <1>1. Parse(JsonStep, JsonStart, s) = after[n]
    BY Zenon DEF Parse
  <1>2. PICK f : /\ f[0] = JsonStart /\ f[n] = q
                 /\ \A k \in 1..n : f[k] = JsonStep(f[k - 1], s[k])
    BY Zenon DEF JsonRun
  <1> DEFINE g == [k \in 0..n |-> f[k]]
  <1>3. g = [k \in 0..n |-> IF k = 0 THEN JsonStart ELSE JsonStep(g[k - 1], s[k])]
    <2> SUFFICES ASSUME NEW k \in 0..n
                 PROVE  f[k] = IF k = 0 THEN JsonStart ELSE JsonStep(g[k - 1], s[k])
      BY Zenon
    <2>1. CASE k = 0
      BY <1>2, <2>1
    <2>2. CASE k # 0
      <3>1. k \in 1..n /\ k - 1 \in 0..n
        BY <2>2
      <3>2. g[k - 1] = f[k - 1]
        BY <3>1
      <3> QED
        BY <1>2, <2>2, <3>1, <3>2, Zenon
    <2> QED
      BY <2>1, <2>2
  <1> HIDE DEF g
  <1>4. after = [k \in 0..n |-> IF k = 0 THEN JsonStart ELSE JsonStep(after[k - 1], s[k])]
    BY <1>3, Zenon
  <1> HIDE DEF after
  <1> DEFINE S == {k \in Nat : k <= n => after[k] = f[k]}
  <1>5. 0 \in S
    BY <1>2, <1>4, SMT
  <1>6. ASSUME NEW k \in Nat, k \in S
        PROVE  k + 1 \in S
    <2> SUFFICES ASSUME k + 1 <= n
                 PROVE  after[k + 1] = f[k + 1]
      OBVIOUS
    <2>1. k + 1 \in 0..n /\ k + 1 \in 1..n /\ k + 1 # 0 /\ (k + 1) - 1 = k /\ k <= n
      OBVIOUS
    <2>2. after[k + 1] = JsonStep(after[(k + 1) - 1], s[k + 1])
      <3> DEFINE e == [j \in 0..n |-> IF j = 0 THEN JsonStart ELSE JsonStep(after[j - 1], s[j])]
      <3>1. e[k + 1] = JsonStep(after[(k + 1) - 1], s[k + 1])
        BY <2>1, Zenon
      <3> HIDE DEF e
      <3>2. after = e
        BY <1>4, Zenon DEF e
      <3> QED
        BY <3>1, <3>2
    <2>3. f[k + 1] = JsonStep(f[(k + 1) - 1], s[k + 1])
      BY <1>2, <2>1, Zenon
    <2>4. after[k] = f[k]
      BY <1>6, <2>1
    <2> QED
      BY <2>1, <2>2, <2>3, <2>4
  <1> HIDE DEF S
  <1>7. n \in S
    BY <1>5, <1>6, InductionOnSet
  <1> QED
    BY <1>1, <1>2, <1>7 DEF S

-----------------------------------------------------------------------------
(* What the parser makes of strings.                                       *)

\* A state of the parser: outside of strings with these items read, or in a string
\* with these characters.
JsonAt(at, chars, code, items) == [at |-> at, chars |-> chars, code |-> code, items |-> items]

Outside(p, items)       == \E chars, code : p = JsonAt("out", chars, code, items)
Inside(p, chars, items) == \E code : p = JsonAt("string", chars, code, items)

\* A quote opens a string, any other token stands for itself.
LEMMA StepOutside ==
    ASSUME NEW p, NEW items, Outside(p, items), NEW c
    PROVE  /\ c = "\"" => Inside(JsonStep(p, c), <<>>, items)
           /\ c # "\"" => Outside(JsonStep(p, c), Append(items, Bare(<<c>>)))
  <1>1. PICK chars, code : p = JsonAt("out", chars, code, items)
    BY Zenon DEF Outside
  <1>2. ASSUME c = "\""
        PROVE  JsonStep(p, c) = JsonAt("string", <<>>, code, items)
    BY <1>1, <1>2 DEF JsonStep, JsonAt
  <1> DEFINE more == Append(items, Bare(<<c>>))
  <1>3. ASSUME c # "\""
        PROVE  JsonStep(p, c) = JsonAt("out", chars, code, more)
    BY <1>1, <1>3 DEF JsonStep, JsonAt
  <1> HIDE DEF more
  <1> QED
    BY <1>2, <1>3 DEF Inside, Outside, more

\* In a string a quote closes it, and a character that is not special is one of it.
LEMMA StepInside ==
    ASSUME NEW p, NEW chars, NEW items, Inside(p, chars, items), NEW c
    PROVE  /\ c = "\"" => Outside(JsonStep(p, c), Append(items, Str(chars)))
           /\ c \notin {"\"", "\\"} /\ ~IsControl(c) =>
                  Inside(JsonStep(p, c), Append(chars, c), items)
  <1>1. PICK code : p = JsonAt("string", chars, code, items)
    BY Zenon DEF Inside
  <1> DEFINE more == Append(items, Str(chars))
             next1 == Append(chars, c)
  <1>2. ASSUME c = "\""
        PROVE  JsonStep(p, c) = JsonAt("out", chars, code, more)
    BY <1>1, <1>2 DEF JsonStep, JsonAt
  <1>3. ASSUME c \notin {"\"", "\\"}, ~IsControl(c)
        PROVE  JsonStep(p, c) = JsonAt("string", next1, code, items)
    BY <1>1, <1>3 DEF JsonStep, JsonAt
  <1> HIDE DEF more, next1
  <1> QED
    BY <1>2, <1>3 DEF Inside, Outside, more, next1

\* A backslash and what follows it.
LEMMA StepEscape ==
    ASSUME NEW chars, NEW code, NEW items, NEW c
    PROVE  /\ JsonStep(JsonAt("string", chars, code, items), "\\")
                  = JsonAt("escape", chars, code, items)
           /\ c \in DOMAIN Escapes =>
                  JsonStep(JsonAt("escape", chars, code, items), Escapes[c])
                      = JsonAt("string", Append(chars, c), code, items)
           /\ JsonStep(JsonAt("escape", chars, code, items), "u")
                  = JsonAt("code", chars, <<>>, items)
  <1>1. JsonStep(JsonAt("string", chars, code, items), "\\") = JsonAt("escape", chars, code, items)
    BY DEF JsonStep, JsonAt
  <1>2. ASSUME c \in DOMAIN Escapes
        PROVE  JsonStep(JsonAt("escape", chars, code, items), Escapes[c])
                   = JsonAt("string", Append(chars, c), code, items)
    <2> DEFINE e == Escapes[c]
    <2>1. e # "u" /\ e \in Range(Escapes)
      BY <1>2 DEF Escapes, Range
    <2>2. \A d \in DOMAIN Escapes : Escapes[d] = e => d = c
      BY <1>2 DEF Escapes
    <2>3. (CHOOSE d \in DOMAIN Escapes : Escapes[d] = e) = c
      BY <1>2, <2>2, Zenon
    <2> HIDE DEF e
    <2>4. JsonStep(JsonAt("escape", chars, code, items), e)
              = [JsonAt("escape", chars, code, items) EXCEPT !.at = "string",
                     !.chars = Append(@, CHOOSE d \in DOMAIN Escapes : Escapes[d] = e)]
      BY <2>1 DEF JsonStep, JsonAt
    <2> QED
      BY <2>3, <2>4 DEF e, JsonAt
  <1>3. JsonStep(JsonAt("escape", chars, code, items), "u") = JsonAt("code", chars, <<>>, items)
    <2>1. "u" \notin Range(Escapes)
      BY DEF Escapes, Range
    <2> QED
      BY <2>1 DEF JsonStep, JsonAt
  <1> QED
    BY <1>1, <1>2, <1>3

\* The digits are sixteen.
LEMMA DigitIs ==
    ASSUME NEW n \in 0..15
    PROVE  Digits[1 + n] \in Range(Digits) /\ Digit(Digits[1 + n]) = n
  <1> DEFINE d == Digits[1 + n]
             m == CHOOSE k \in DOMAIN Digits : Digits[k] = d
  <1>1. DOMAIN Digits = 1..16
    BY DEF Digits
  <1>2. d \in Range(Digits)
    BY <1>1 DEF Range
  <1>3. \A k \in 1..16 : Digits[k] = d => k = 1 + n
    BY DEF Digits
  <1>4. m = 1 + n
    <2>1. m \in 1..16 /\ Digits[m] = d
      BY <1>1
    <2> QED
      BY <1>3, <2>1
  <1> HIDE DEF m
  <1>5. m - 1 = n
    BY <1>4
  <1>6. Digit(d) = m - 1
    BY Zenon DEF Digit, m
  <1> HIDE DEF d
  <1>7. d \in Range(Digits) /\ Digit(d) = n
    BY <1>2, <1>5, <1>6
  <1> QED
    BY <1>7 DEF d

\* The first three digits of a code.
LEMMA StepCode ==
    ASSUME NEW chars, NEW code, NEW items, NEW c \in Range(Digits)
    PROVE  /\ Len(code) < 3 =>
                  JsonStep(JsonAt("code", chars, code, items), c)
                      = JsonAt("code", chars, Append(code, c), items)
           /\ ~(Len(code) < 3) =>
                  JsonStep(JsonAt("code", chars, code, items), c)
                      = JsonAt("string", Append(chars, Char(Append(code, c))), code, items)
  <1> DEFINE ch  == Char(Append(code, c))
             one == Append(code, c)
  <1>1. ASSUME Len(code) < 3
        PROVE  JsonStep(JsonAt("code", chars, code, items), c) = JsonAt("code", chars, one, items)
    BY <1>1 DEF JsonStep, JsonAt
  <1>2. ASSUME ~(Len(code) < 3)
        PROVE  JsonStep(JsonAt("code", chars, code, items), c)
                   = JsonAt("string", Append(chars, ch), code, items)
    <2> HIDE DEF ch
    <2> QED
      BY <1>2 DEF JsonStep, JsonAt, ch
  <1> QED
    BY <1>1, <1>2

\* A token more.
LEMMA JsonRunMore ==
    ASSUME NEW X, NEW s \in Seq(X), NEW c \in X, NEW p, NEW q, JsonRun(p, s, q)
    PROVE  JsonRun(p, Append(s, c), JsonStep(q, c))
  <1>1. JsonRun(q, <<c>>, JsonStep(q, c))
    BY JsonRunOne
  <1>2. <<c>> \in Seq(X) /\ Append(s, c) = s \o <<c>>
    OBVIOUS
  <1> QED
    BY <1>1, <1>2, JsonRuns

\* A byte is written in two digits.
LEMMA HexOfOne ==
    ASSUME NEW n \in 0..255
    PROVE  hex(<<n>>) = <<Digits[1 + (n \div 16)], Digits[1 + (n % 16)]>>
  <1> DEFINE two(d) == <<Digits[1 + (d \div 16)], Digits[1 + (d % 16)]>>
             one    == <<n>>
             parts  == [k \in DOMAIN one |-> two(one[k])]
             w      == two(n)
  <1>1. DOMAIN one = 1..1 /\ one[1] = n
    OBVIOUS
  <1>2. hex(one) = FlattenSeq(parts)
    BY Zenon DEF hex
  <1>3. w \in Seq({Digits[1 + (n \div 16)], Digits[1 + (n % 16)]})
    OBVIOUS
  <1> HIDE DEF two, one
  <1>4. parts = [k \in 1..1 |-> w]
    BY <1>1
  <1> HIDE DEF parts, w
  <1> DEFINE X == {Digits[1 + (n \div 16)], Digits[1 + (n % 16)]}
  <1>5. parts = <<w>> /\ Append(<<>>, w) = <<w>>
    BY <1>4
  <1> HIDE DEF X
  <1>6. w \in Seq(X) /\ <<>> \in Seq(Seq(X)) /\ <<>> \o w = w
    BY <1>3 DEF X
  <1>7. FlattenSeq(Append(<<>>, w)) = <<>> \o w
    BY <1>6, FlattenAppend, FlattenEmpty
  <1> QED
    BY <1>2, <1>5, <1>6, <1>7 DEF w, two, one

\* The code of a control character is read as that character.
LEMMA CharIs ==
    ASSUME NEW c, IsControl(c), NEW x, NEW y,
           Digit(x) = CodePoint[c] \div 16, Digit(y) = CodePoint[c] % 16
    PROVE  Char(<<"0", "0", x, y>>) = c
  <1> DEFINE n == CodePoint[c]
             code == <<"0", "0", x, y>>
  <1>1. c \in DOMAIN CodePoint /\ n \in Nat
    BY CodePointAssumption DEF IsControl
  <1>2. Digit("0") = 0
    <2>1. Digits[1 + 0] = "0" /\ 0 \in 0..15
      BY DEF Digits
    <2>2. Digit(Digits[1 + 0]) = 0
      BY <2>1, DigitIs
    <2> QED
      BY <2>1, <2>2
  <1>3. code[1] = "0" /\ code[2] = "0" /\ code[3] = x /\ code[4] = y
    OBVIOUS
  <1> DEFINE m == 4096 * Digit(code[1]) + 256 * Digit(code[2]) + 16 * Digit(code[3])
                     + Digit(code[4])
             a == n \div 16
             b == n % 16
  <1> HIDE DEF code
  <1>4. a \in Int /\ b \in Int /\ 16 * a + b = n /\ n \in Nat
    BY <1>1
  <1>40. Digit(x) = a /\ Digit(y) = b
    OBVIOUS
  <1> HIDE DEF n, a, b
  <1>41. m = 4096 * 0 + 256 * 0 + 16 * a + b
    BY <1>2, <1>3, <1>40
  <1>5. m = n
    BY <1>4, <1>41
  <1> HIDE DEF m
  <1>6. (CHOOSE d \in DOMAIN CodePoint : CodePoint[d] = m) = c
    <2>1. \A d \in DOMAIN CodePoint : CodePoint[d] = m => d = c
      BY <1>1, <1>5, CodePointAssumption DEF n
    <2> QED
      BY <1>1, <1>5, <2>1, Zenon DEF n
  <1> QED
    BY <1>6, Zenon DEF Char, m, code

\* A sequence that is another and one element more is what Append gives.
LEMMA AppendIs ==
    ASSUME NEW X, NEW s \in Seq(X), NEW c \in X, NEW t \in Seq(X), Len(t) = Len(s) + 1,
           \A k \in 1..Len(s) : t[k] = s[k], t[Len(s) + 1] = c
    PROVE  Append(s, c) = t
  <1> DEFINE u == Append(s, c)
  <1>1. /\ Len(s) \in Nat /\ Len(u) = Len(s) + 1
        /\ \A k \in 1..Len(s) : u[k] = s[k]
        /\ u[Len(s) + 1] = c
    BY AppendFacts
  <1>2. u \in Seq(X)
    BY AppendProperties
  <1> HIDE DEF u
  <1>3. \A k \in 1..Len(u) : u[k] = t[k]
    BY <1>1
  <1>4. u = t
    BY <1>1, <1>2, <1>3, SeqEqual
  <1> QED
    BY <1>4 DEF u

\* Short sequences grow by one.
LEMMA AfterOne ==
    ASSUME NEW a, NEW b
    PROVE  Append(<<a>>, b) = <<a, b>> /\ Append(<<>>, a) = <<a>>
  <1> DEFINE X == {a, b}
  <1>1. <<a>> \in Seq(X) /\ <<a, b>> \in Seq(X) /\ b \in X
    OBVIOUS
  <1>2. /\ Len(<<a, b>>) = Len(<<a>>) + 1 /\ <<a, b>>[Len(<<a>>) + 1] = b
        /\ \A k \in 1..Len(<<a>>) : <<a, b>>[k] = <<a>>[k]
    OBVIOUS
  <1>3. Append(<<>>, a) = <<a>>
    OBVIOUS
  <1> HIDE DEF X
  <1> QED
    BY <1>1, <1>2, <1>3, AppendIs

\* Two elements and one more.
LEMMA AfterTwo ==
    ASSUME NEW a, NEW b, NEW c
    PROVE  Append(<<a, b>>, c) = <<a, b, c>>
  <1> DEFINE X == {a, b, c}
  <1>1. <<a, b>> \in Seq(X) /\ <<a, b, c>> \in Seq(X) /\ c \in X
    OBVIOUS
  <1>2. /\ Len(<<a, b, c>>) = Len(<<a, b>>) + 1 /\ <<a, b, c>>[Len(<<a, b>>) + 1] = c
        /\ \A k \in 1..Len(<<a, b>>) : <<a, b, c>>[k] = <<a, b>>[k]
    OBVIOUS
  <1> HIDE DEF X
  <1> QED
    BY <1>1, <1>2, AppendIs

\* Three elements and one more.
LEMMA AfterThree ==
    ASSUME NEW a, NEW b, NEW c, NEW d
    PROVE  Append(<<a, b, c>>, d) = <<a, b, c, d>>
  <1> DEFINE X == {a, b, c, d}
  <1>1. <<a, b, c>> \in Seq(X) /\ <<a, b, c, d>> \in Seq(X) /\ d \in X
    OBVIOUS
  <1>2. /\ Len(<<a, b, c, d>>) = Len(<<a, b, c>>) + 1
        /\ <<a, b, c, d>>[Len(<<a, b, c>>) + 1] = d
        /\ \A k \in 1..Len(<<a, b, c>>) : <<a, b, c, d>>[k] = <<a, b, c>>[k]
    OBVIOUS
  <1> HIDE DEF X
  <1> QED
    BY <1>1, <1>2, AppendIs

\* An escaped character is read as that character.
LEMMA EscapedReads ==
    ASSUME NEW p, NEW chars, NEW items, Inside(p, chars, items), NEW c
    PROVE  \E q : Inside(q, Append(chars, c), items) /\ JsonRun(p, Escaped(c), q)
  <1>1. PICK code : p = JsonAt("string", chars, code, items)
    BY Zenon DEF Inside
  <1>2. \A s, co : Inside(JsonAt("string", s, co, items), s, items)
    BY DEF Inside
  <1>3. JsonRun(p, <<"\\">>, JsonAt("escape", chars, code, items))
    <2>1. JsonStep(JsonAt("string", chars, code, items), "\\") = JsonAt("escape", chars, code, items)
      BY StepEscape
    <2> QED
      BY <1>1, <2>1, JsonRunOne
  <1>4. CASE c \in DOMAIN Escapes
    <2> DEFINE e == Escapes[c]
               q == JsonAt("string", Append(chars, c), code, items)
               m == JsonAt("escape", chars, code, items)
    <2>1. Escaped(c) = <<"\\", e>>
      BY <1>4, Zenon DEF Escaped
    <2>2. JsonStep(m, e) = q
      BY <1>4, StepEscape
    <2>3. Inside(q, Append(chars, c), items) /\ JsonRun(p, <<"\\">>, m)
      BY <1>2, <1>3, Zenon
    <2> HIDE DEF e, q, m
    <2>4. JsonRun(p, <<"\\", e>>, q)
      <3> DEFINE X == {"\\", e}
      <3>1. <<"\\">> \in Seq(X) /\ e \in X
        OBVIOUS
      <3>2. Append(<<"\\">>, e) = <<"\\", e>>
        BY AfterOne, Zenon
      <3> QED
        BY <2>2, <2>3, <3>1, <3>2, JsonRunMore, Zenon
    <2> QED
      BY <2>1, <2>3, <2>4
  <1>5. CASE c \notin DOMAIN Escapes /\ IsControl(c)
    <2> DEFINE n == CodePoint[c]
               x == Digits[1 + (n \div 16)]
               y == Digits[1 + (n % 16)]
    <2>1. n \in Nat /\ n < 32
      BY <1>5, CodePointAssumption DEF IsControl
    <2>2. Escaped(c) = <<"\\", "u", "0", "0">> \o hex(<<n>>)
      BY <1>5, Zenon DEF Escaped
    <2>3. n \in 0..255 /\ n \div 16 \in 0..15 /\ n % 16 \in 0..15
      <3> HIDE DEF n
      <3> QED
        BY <2>1
    <2>4. hex(<<n>>) = <<x, y>>
      BY <2>3, HexOfOne
    <2>5. /\ x \in Range(Digits) /\ Digit(x) = CodePoint[c] \div 16
          /\ y \in Range(Digits) /\ Digit(y) = CodePoint[c] % 16
      BY <2>3, DigitIs
    <2>6. "0" \in Range(Digits)
      <3>1. Digits[1] = "0" /\ 1 \in DOMAIN Digits
        BY DEF Digits
      <3> QED
        BY <3>1 DEF Range
    <2> HIDE DEF n, x, y
    <2>7. Escaped(c) = <<"\\", "u", "0", "0">> \o <<x, y>>
      BY <2>2, <2>4
    <2>8. Char(<<"0", "0", x, y>>) = c
      BY <1>5, <2>5, CharIs
    <2> DEFINE p1 == JsonAt("escape", chars, code, items)
               p2 == JsonAt("code", chars, <<>>, items)
               p3 == JsonAt("code", chars, <<"0">>, items)
               p4 == JsonAt("code", chars, <<"0", "0">>, items)
               p5 == JsonAt("code", chars, <<"0", "0", x>>, items)
               q  == JsonAt("string", Append(chars, c), <<"0", "0", x>>, items)
    <2>9. Append(<<>>, "0") = <<"0">> /\ Append(<<"0">>, "0") = <<"0", "0">>
      BY AfterOne, Zenon
    <2>91. Append(<<"0", "0">>, x) = <<"0", "0", x>>
      BY AfterTwo, Zenon
    <2>92. Append(<<"0", "0", x>>, y) = <<"0", "0", x, y>>
      BY AfterThree, Zenon
    <2>90. Len(<<>>) < 3 /\ Len(<<"0">>) < 3 /\ Len(<<"0", "0">>) < 3 /\ ~(Len(<<"0", "0", x>>) < 3)
      OBVIOUS
    <2>10. JsonStep(p1, "u") = p2
      BY StepEscape
    <2>11. JsonStep(p2, "0") = JsonAt("code", chars, Append(<<>>, "0"), items)
      <3> DEFINE co == <<>>
      <3>1. Len(co) < 3
        BY <2>90
      <3> HIDE DEF co
      <3>2. JsonStep(JsonAt("code", chars, co, items), "0")
                = JsonAt("code", chars, Append(co, "0"), items)
        BY <2>6, <3>1, StepCode
      <3> QED
        BY <3>2, Zenon DEF co
    <2>12. JsonStep(p3, "0") = JsonAt("code", chars, Append(<<"0">>, "0"), items)
      <3> DEFINE co == <<"0">>
      <3>1. Len(co) < 3
        BY <2>90
      <3> HIDE DEF co
      <3>2. JsonStep(JsonAt("code", chars, co, items), "0")
                = JsonAt("code", chars, Append(co, "0"), items)
        BY <2>6, <3>1, StepCode
      <3> QED
        BY <3>2, Zenon DEF co
    <2>13. JsonStep(p4, x) = JsonAt("code", chars, Append(<<"0", "0">>, x), items)
      <3> DEFINE co == <<"0", "0">>
      <3>1. Len(co) < 3
        BY <2>90
      <3> HIDE DEF co
      <3>2. JsonStep(JsonAt("code", chars, co, items), x)
                = JsonAt("code", chars, Append(co, x), items)
        BY <2>5, <3>1, StepCode
      <3> QED
        BY <3>2, Zenon DEF co
    <2>24. JsonStep(p2, "0") = p3 /\ JsonStep(p3, "0") = p4 /\ JsonStep(p4, x) = p5
      BY <2>9, <2>91, <2>11, <2>12, <2>13, Zenon
    <2>14. JsonStep(p5, y) = q
      <3> DEFINE co == <<"0", "0", x>>
      <3>1. JsonStep(JsonAt("code", chars, co, items), y)
                = JsonAt("string", Append(chars, Char(Append(co, y))), co, items)
        <4>1. ~(Len(co) < 3)
          BY <2>90
        <4> HIDE DEF co
        <4> QED
          BY <2>5, <4>1, StepCode
      <3>2. Char(Append(co, y)) = c
        BY <2>8, <2>92, Zenon
      <3> QED
        BY <3>1, <3>2, Zenon
    <2>15. JsonRun(p, <<"\\">>, p1) /\ Inside(q, Append(chars, c), items)
      BY <1>2, <1>3, Zenon
    <2> HIDE DEF p1, p2, p3, p4, p5, q
    <2> DEFINE X == {"\\", "u", "0", x, y}
    <2>16. /\ <<"\\">> \in Seq(X) /\ <<"\\", "u">> \in Seq(X) /\ <<"\\", "u", "0">> \in Seq(X)
           /\ <<"\\", "u", "0", "0">> \in Seq(X) /\ <<x>> \in Seq(X) /\ <<x, y>> \in Seq(X)
           /\ "u" \in X /\ "0" \in X /\ x \in X /\ y \in X
      OBVIOUS
    <2>17. Append(<<"\\">>, "u") = <<"\\", "u">> /\ Append(<<x>>, y) = <<x, y>>
      BY AfterOne, Zenon
    <2>25. Append(<<"\\", "u">>, "0") = <<"\\", "u", "0">>
      BY AfterTwo, Zenon
    <2>26. Append(<<"\\", "u", "0">>, "0") = <<"\\", "u", "0", "0">>
      BY AfterThree, Zenon
    <2> HIDE DEF X
    <2>18. JsonRun(p, <<"\\", "u">>, p2)
      BY <2>10, <2>15, <2>16, <2>17, JsonRunMore, Zenon
    <2>19. JsonRun(p, <<"\\", "u", "0">>, p3)
      BY <2>24, <2>16, <2>25, <2>18, JsonRunMore, Zenon
    <2>20. JsonRun(p, <<"\\", "u", "0", "0">>, p4)
      BY <2>24, <2>16, <2>26, <2>19, JsonRunMore, Zenon
    <2>21. JsonRun(p4, <<x>>, p5)
      BY <2>24, JsonRunOne, Zenon
    <2>22. JsonRun(p4, <<x, y>>, q)
      BY <2>14, <2>16, <2>17, <2>21, JsonRunMore, Zenon
    <2>23. JsonRun(p, Escaped(c), q)
      BY <2>7, <2>16, <2>20, <2>22, JsonRuns, Zenon
    <2> QED
      BY <2>15, <2>23
  <1>6. CASE c \notin DOMAIN Escapes /\ ~IsControl(c)
    <2>1. Escaped(c) = <<c>>
      BY <1>6, Zenon DEF Escaped
    <2>2. c \notin {"\"", "\\"}
      BY <1>6 DEF Escapes
    <2>3. Inside(JsonStep(p, c), Append(chars, c), items)
      BY <1>6, <2>2, StepInside
    <2> QED
      BY <2>1, <2>3, JsonRunOne
  <1> QED
    BY <1>4, <1>5, <1>6

\* The escaped characters of a text are read as that text.
LEMMA TextReads ==
    ASSUME NEW s \in Seq(Token), NEW p, NEW items, Inside(p, <<>>, items)
    PROVE  \E q : /\ Inside(q, s, items)
                  /\ JsonRun(p, FlattenSeq([k \in DOMAIN s |-> Escaped(s[k])]), q)
  <1> DEFINE es == [k \in DOMAIN s |-> Escaped(s[k])]
             n  == Len(s)
             Good == {k \in Nat : k <= n => \E q : /\ Inside(q, SubSeq(s, 1, k), items)
                                                   /\ JsonRun(p, JoinedTo(es, k), q)}
  <1>1. n \in Nat /\ DOMAIN s = 1..n /\ \A k \in 1..n : s[k] \in Token
    OBVIOUS
  <1>2. es \in Seq(Seq(Token)) /\ Len(es) = n /\ \A k \in 1..n : es[k] = Escaped(s[k])
    <2>1. \A k \in 1..n : Escaped(s[k]) \in Seq(Token)
      BY <1>1, EscapedType
    <2>2. es \in [1..n -> Seq(Token)]
      BY <1>1, <2>1
    <2>3. \A k \in 1..n : es[k] = Escaped(s[k])
      BY <1>1
    <2> HIDE DEF es
    <2> QED
      BY <1>1, <2>2, <2>3
  <1> HIDE DEF es
  <1>3. 0 \in Good
    <2>1. SubSeq(s, 1, 0) = <<>>
      BY SubSeqEmpty
    <2>3. JoinedTo(es, 0) = <<>>
      BY <1>2, JoinedFacts
    <2>2. Inside(p, SubSeq(s, 1, 0), items) /\ JsonRun(p, JoinedTo(es, 0), p)
      BY <2>1, <2>3, JsonRunOne
    <2> QED
      BY <2>2
  <1>4. ASSUME NEW k \in Nat, k \in Good
        PROVE  k + 1 \in Good
    <2> SUFFICES ASSUME k + 1 <= n
                 PROVE  \E q : /\ Inside(q, SubSeq(s, 1, k + 1), items)
                               /\ JsonRun(p, JoinedTo(es, k + 1), q)
      OBVIOUS
    <2>1. k + 1 \in 1..n /\ (k + 1) - 1 = k /\ k <= n /\ k \in 0..n
      BY <1>1
    <2>2. PICK q : Inside(q, SubSeq(s, 1, k), items) /\ JsonRun(p, JoinedTo(es, k), q)
      BY <1>4, <2>1
    <2>3. PICK r : /\ Inside(r, Append(SubSeq(s, 1, k), s[k + 1]), items)
                   /\ JsonRun(q, Escaped(s[k + 1]), r)
      BY <2>2, EscapedReads
    <2>4. SubSeq(s, 1, k + 1) = Append(SubSeq(s, 1, k), s[k + 1])
      <3>1. SubSeq(s, 1, k + 1) = Append(SubSeq(s, 1, (k + 1) - 1), s[k + 1])
        BY <1>1, <2>1, SubSeqRecursiveSecond
      <3> QED
        BY <2>1, <3>1
    <2>5. JoinedTo(es, k + 1) = JoinedTo(es, k) \o Escaped(s[k + 1])
      <3>1. JoinedTo(es, k + 1) = JoinedTo(es, (k + 1) - 1) \o es[k + 1]
        BY <1>2, <2>1, JoinedFacts
      <3> QED
        BY <1>2, <2>1, <3>1
    <2>6. JoinedTo(es, k) \in Seq(Token) /\ Escaped(s[k + 1]) \in Seq(Token)
      BY <1>1, <1>2, <2>1, JoinedFacts, EscapedType
    <2>7. JsonRun(p, JoinedTo(es, k + 1), r)
      BY <2>2, <2>3, <2>5, <2>6, JsonRuns
    <2> QED
      BY <2>3, <2>4, <2>7
  <1> HIDE DEF Good
  <1>5. n \in Good
    BY <1>1, <1>3, <1>4, InductionOnSet
  <1>6. PICK q : Inside(q, SubSeq(s, 1, n), items) /\ JsonRun(p, JoinedTo(es, n), q)
    BY <1>1, <1>5 DEF Good
  <1>7. SubSeq(s, 1, n) = s /\ JoinedTo(es, n) = FlattenSeq(es)
    BY <1>2, SubSeqFull, JoinedFacts
  <1> QED
    BY <1>6, <1>7 DEF es

-----------------------------------------------------------------------------
(* What the parser reads between strings.                                  *)

Item == [type : {"string", "bare"}, is : Seq(Token)]

\* One element more.
LEMMA OneMoreElement ==
    ASSUME NEW X, NEW s \in Seq(X), NEW e \in X
    PROVE  <<e>> \in Seq(X) /\ s \o <<e>> = Append(s, e)
  OBVIOUS

\* Strings and bare words over tokens are items.
LEMMA ItemType == \A s \in Seq(Token) : Str(s) \in Item /\ Bare(s) \in Item
  BY DEF Item, Str, Bare

\* What is calm is a token.
LEMMA CalmIsToken == Calm \subseteq Token /\ Seq(Calm) \subseteq Seq(Token)
  <1>1. Calm \subseteq Token
    BY DEF Calm
  <1> QED
    BY <1>1, SeqMonotonic

\* No escaped character breaks a line, and no string does.
LEMMA EscapedCalm ==
    ASSUME NEW c \in Token
    PROVE  Escaped(c) \in Seq(Calm)
  <1>1. CASE c \in DOMAIN Escapes
    <2>1. "\\" \in Calm /\ Escapes[c] \in Calm
      BY <1>1, CalmWords, ZenonT(40) DEF Escapes, Words
    <2>2. Escaped(c) = <<"\\", Escapes[c]>>
      BY <1>1 DEF Escaped
    <2> DEFINE e == Escapes[c]
    <2> HIDE DEF e
    <2>3. <<"\\", e>> \in Seq(Calm)
      BY <2>1, Ones, Zenon DEF e
    <2> QED
      BY <2>2, <2>3 DEF e
  <1>2. CASE c \notin DOMAIN Escapes /\ IsControl(c)
    <2>1. <<CodePoint[c]>> \in Bytes
      <3>1. CodePoint[c] \in 0..255
        BY <1>2, CodePointAssumption DEF IsControl
      <3> QED
        BY <3>1 DEF Bytes
    <2>2. <<"\\", "u", "0", "0">> \in Seq(Calm)
      <3>1. "\\" \in Calm /\ "u" \in Calm /\ "0" \in Calm
        BY CalmWords DEF Words
      <3> QED
        BY <3>1, Ones, Zenon
    <2>3. Escaped(c) = <<"\\", "u", "0", "0">> \o hex(<<CodePoint[c]>>)
      BY <1>2 DEF Escaped
    <2>4. hex(<<CodePoint[c]>>) \in Seq(Calm)
      BY <2>1, CalmWords, HexOver
    <2> QED
      BY <2>2, <2>3, <2>4, Concat, Zenon
  <1>3. CASE c \notin DOMAIN Escapes /\ ~IsControl(c)
    <2>1. Escaped(c) = <<c>>
      BY <1>3 DEF Escaped
    <2>2. c \in Calm
      BY <1>3 DEF Calm, Escapes
    <2> QED
      BY <2>1, <2>2, Ones, Zenon
  <1> QED
    BY <1>1, <1>2, <1>3

\* A JSON string holds no line feed and no carriage return.
LEMMA JsonStringCalm ==
    ASSUME NEW s \in Seq(Token)
    PROVE  json_string(s) \in Seq(Calm)
  <1>1. Len(s) \in Nat /\ DOMAIN s = 1..Len(s) /\ \A k \in DOMAIN s : s[k] \in Token
    OBVIOUS
  <1>2. [k \in DOMAIN s |-> Escaped(s[k])] \in [1..Len(s) -> Seq(Calm)]
    BY <1>1, EscapedCalm
  <1>3. FlattenSeq([k \in DOMAIN s |-> Escaped(s[k])]) \in Seq(Calm)
    BY <1>1, <1>2, FlattenParts
  <1> DEFINE f == FlattenSeq([k \in DOMAIN s |-> Escaped(s[k])])
  <1> HIDE DEF f
  <1>4. "\"" \in Calm
    BY CalmWords DEF Words
  <1>5. <<"\"">> \o f \o <<"\"">> \in Seq(Calm)
    BY <1>3, <1>4, Ones, Concat, Zenon DEF f
  <1> QED
    BY <1>5 DEF f, json_string

\* s is read as the items of more, whatever was read before.
JsonAdds(s, more) ==
    /\ s \in Seq(Calm) /\ more \in Seq(Item)
    /\ \A p : \A items \in Seq(Item) :
           Outside(p, items) => \E q : Outside(q, items \o more) /\ JsonRun(p, s, q)

\* One after the other they are read as the items of both.
LEMMA AddsBoth ==
    ASSUME NEW s, NEW more, JsonAdds(s, more), NEW t, NEW rest, JsonAdds(t, rest)
    PROVE  JsonAdds(s \o t, more \o rest)
  <1>1. /\ s \in Seq(Calm) /\ more \in Seq(Item) /\ t \in Seq(Calm) /\ rest \in Seq(Item)
        /\ s \o t \in Seq(Calm) /\ more \o rest \in Seq(Item)
    BY Concat DEF JsonAdds
  <1>2. ASSUME NEW p, NEW items \in Seq(Item), Outside(p, items)
        PROVE  \E q : Outside(q, items \o (more \o rest)) /\ JsonRun(p, s \o t, q)
    <2>1. PICK q : Outside(q, items \o more) /\ JsonRun(p, s, q)
      BY <1>2, Zenon DEF JsonAdds
    <2>2. items \o more \in Seq(Item)
      BY <1>1, Concat
    <2>3. PICK r : Outside(r, (items \o more) \o rest) /\ JsonRun(q, t, r)
      BY <2>1, <2>2, Zenon DEF JsonAdds
    <2>4. (items \o more) \o rest = items \o (more \o rest)
      BY <1>1
    <2>5. JsonRun(p, s \o t, r)
      BY <1>1, <2>1, <2>3, JsonRuns
    <2> QED
      BY <2>3, <2>4, <2>5
  <1> QED
    BY <1>1, <1>2, Zenon DEF JsonAdds

\* A token that is no quote stands for itself.
LEMMA AddsBare ==
    ASSUME NEW c \in Calm, c # "\""
    PROVE  JsonAdds(<<c>>, <<Bare(<<c>>)>>)
  <1> DEFINE b == Bare(<<c>>)
  <1>1. <<c>> \in Seq(Calm)
    BY EmptySeq, OneMoreElement, Zenon
  <1>4. b \in Item
    <2>1. <<c>> \in Seq(Token)
      BY <1>1, CalmIsToken
    <2> QED
      BY <2>1, ItemType, Zenon
  <1> HIDE DEF b
  <1>2. <<b>> \in Seq(Item)
    BY <1>4, EmptySeq, OneMoreElement, Zenon
  <1>3. ASSUME NEW p, NEW items \in Seq(Item), Outside(p, items)
        PROVE  \E q : Outside(q, items \o <<b>>) /\ JsonRun(p, <<c>>, q)
    <2>1. Outside(JsonStep(p, c), Append(items, b))
      BY <1>3, StepOutside DEF b
    <2>2. items \o <<b>> = Append(items, b)
      BY <1>4, OneMoreElement, Zenon
    <2> QED
      BY <2>1, <2>2, JsonRunOne
  <1> QED
    BY <1>1, <1>2, <1>3, Zenon DEF JsonAdds, b

\* A string is read as that string, whatever characters it holds.
LEMMA AddsString ==
    ASSUME NEW s \in Seq(Token)
    PROVE  JsonAdds(json_string(s), <<Str(s)>>)
  <1> DEFINE f == FlattenSeq([k \in DOMAIN s |-> Escaped(s[k])])
             b == Str(s)
  <1>1. json_string(s) \in Seq(Calm) /\ b \in Item
    BY ItemType, JsonStringCalm
  <1>2. json_string(s) = <<"\"">> \o f \o <<"\"">>
    BY Zenon DEF json_string
  <1>3. f \in Seq(Calm) /\ <<"\"">> \in Seq(Calm) /\ <<"\"">> \o f \in Seq(Calm)
    <2>1. \A k \in DOMAIN s : Escaped(s[k]) \in Seq(Calm)
      <3>1. \A k \in DOMAIN s : s[k] \in Token
        OBVIOUS
      <3> QED
        BY <3>1, EscapedCalm
    <2>2. [k \in DOMAIN s |-> Escaped(s[k])] \in [1..Len(s) -> Seq(Calm)] /\ Len(s) \in Nat
      BY <2>1
    <2>3. f \in Seq(Calm)
      BY <2>2, FlattenParts
    <2>4. "\"" \in Calm
      BY CalmWords DEF Words
    <2> HIDE DEF f
    <2> QED
      BY <2>3, <2>4, Ones, Concat, Zenon
  <1>4. ASSUME NEW p, NEW items \in Seq(Item), Outside(p, items)
        PROVE  \E q : Outside(q, items \o <<b>>) /\ JsonRun(p, json_string(s), q)
    <2> DEFINE q1 == JsonStep(p, "\"")
    <2>1. JsonRun(p, <<"\"">>, q1) /\ Inside(q1, <<>>, items)
      BY <1>4, StepOutside, JsonRunOne
    <2> HIDE DEF q1
    <2>2. PICK q2 : Inside(q2, s, items) /\ JsonRun(q1, f, q2)
      BY <2>1, TextReads
    <2> DEFINE q3 == JsonStep(q2, "\"")
    <2>3. JsonRun(q2, <<"\"">>, q3) /\ Outside(q3, Append(items, b))
      BY <2>2, StepInside, JsonRunOne
    <2> HIDE DEF q3, f, b
    <2>4. JsonRun(p, <<"\"">> \o f, q2)
      BY <1>3, <2>1, <2>2, JsonRuns
    <2>5. JsonRun(p, <<"\"">> \o f \o <<"\"">>, q3)
      BY <1>3, <2>3, <2>4, JsonRuns
    <2>6. items \o <<b>> = Append(items, b)
      BY <1>1
    <2> QED
      BY <1>2, <2>3, <2>5, <2>6
  <1> HIDE DEF b
  <1>5. <<b>> \in Seq(Item)
    BY <1>1
  <1> QED
    BY <1>1, <1>4, <1>5, Zenon DEF JsonAdds, b

\* Two elements more, and the element of a sequence of one.
LEMMA TwoMoreElements ==
    ASSUME NEW X, NEW s \in Seq(X), NEW a \in X, NEW b \in X
    PROVE  s \o <<a, b>> = Append(Append(s, a), b)
  <1>1. <<a>> \in Seq(X) /\ <<b>> \in Seq(X) /\ s \o <<a>> = Append(s, a)
    BY OneMoreElement
  <1>2. Append(s, a) \in Seq(X)
    BY AppendProperties
  <1>3. <<a>> \o <<b>> = <<a, b>>
    BY <1>1, OneMoreElement, AfterOne, Zenon
  <1>4. (s \o <<a>>) \o <<b>> = s \o (<<a>> \o <<b>>)
    <2> DEFINE u == <<a>>
               v == <<b>>
    <2>1. u \in Seq(X) /\ v \in Seq(X)
      BY <1>1
    <2> HIDE DEF u, v
    <2>2. (s \o u) \o v = s \o (u \o v)
      BY <2>1
    <2> QED
      BY <2>2 DEF u, v
  <1>5. Append(s, a) \o <<b>> = Append(Append(s, a), b)
    BY <1>2, OneMoreElement, Zenon
  <1> QED
    BY <1>1, <1>3, <1>4, <1>5, Zenon

\* The element of a sequence of one.
LEMMA ElementOfOne ==
    ASSUME NEW X, NEW v, <<v>> \in Seq(X)
    PROVE  v \in X
  <1>1. Len(<<v>>) = 1 /\ <<v>>[1] = v
    OBVIOUS
  <1>2. 1 \in 1..Len(<<v>>)
    BY <1>1
  <1>3. <<v>>[1] \in X
    BY <1>2, ElementOfSeq, Zenon
  <1> QED
    BY <1>1, <1>3

\* What two items more are is two items added.
LEMMA AddsTwo ==
    ASSUME NEW s \in Seq(Calm), NEW a \in Item, NEW b \in Item,
           \A p : \A items \in Seq(Item) :
               Outside(p, items) => \E q : /\ Outside(q, Append(Append(items, a), b))
                                           /\ JsonRun(p, s, q)
    PROVE  JsonAdds(s, <<a, b>>)
  <1>1. <<a, b>> \in Seq(Item)
    BY Ones, Zenon
  <1>2. ASSUME NEW items \in Seq(Item)
        PROVE  items \o <<a, b>> = Append(Append(items, a), b)
    BY TwoMoreElements
  <1> DEFINE ab == <<a, b>>
  <1> HIDE DEF ab
  <1>3. \A items \in Seq(Item) : items \o ab = Append(Append(items, a), b)
    BY <1>2 DEF ab
  <1>4. ab \in Seq(Item)
    BY <1>1 DEF ab
  <1>5. JsonAdds(s, ab)
    BY <1>3, <1>4, Zenon DEF JsonAdds
  <1> QED
    BY <1>5 DEF ab

\* The name of a member before its value.
LEMMA AddsMember ==
    ASSUME NEW name \in Calm, name \notin {"\"", "\\"}, ~IsControl(name),
           NEW content, NEW v, JsonAdds(content, <<v>>)
    PROVE  JsonAdds(Member(name, content), <<Str(<<name>>), Bare(<<":">>), v>>)
  <1> DEFINE s1 == Str(<<name>>)
             s2 == Bare(<<":">>)
             lead == <<"\"", name, "\"", ":">>
  <1>1. "\"" \in Calm /\ ":" \in Calm /\ ":" # "\""
    BY CalmWords DEF Words
  <1>2. /\ <<"\"">> \in Seq(Calm) /\ <<"\"", name>> \in Seq(Calm)
        /\ <<"\"", name, "\"">> \in Seq(Calm) /\ lead \in Seq(Calm)
        /\ <<name>> \in Seq(Calm) /\ <<":">> \in Seq(Calm)
    BY <1>1, Ones, Zenon
  <1>3. s1 \in Item /\ s2 \in Item
    <2>1. <<name>> \in Seq(Token) /\ <<":">> \in Seq(Token)
      BY <1>2, CalmIsToken
    <2> QED
      BY <2>1, ItemType, Zenon
  <1>4. Append(<<"\"">>, name) = <<"\"", name>> /\ Append(<<>>, name) = <<name>>
    BY AfterOne, Zenon
  <1>5. Append(<<"\"", name>>, "\"") = <<"\"", name, "\"">>
    BY AfterTwo, Zenon
  <1>6. Append(<<"\"", name, "\"">>, ":") = lead
    BY AfterThree, Zenon
  <1>7. ASSUME NEW p, NEW items \in Seq(Item), Outside(p, items)
        PROVE  \E q : Outside(q, Append(Append(items, s1), s2)) /\ JsonRun(p, lead, q)
    <2> DEFINE q1 == JsonStep(p, "\"")
    <2>1. JsonRun(p, <<"\"">>, q1) /\ Inside(q1, <<>>, items)
      BY <1>7, StepOutside, JsonRunOne
    <2> HIDE DEF q1
    <2> DEFINE q2 == JsonStep(q1, name)
    <2>2. Inside(q2, Append(<<>>, name), items)
      BY <2>1, StepInside
    <2>3. JsonRun(p, <<"\"", name>>, q2)
      BY <1>2, <1>4, <2>1, JsonRunMore, Zenon
    <2>4. Inside(q2, <<name>>, items)
      BY <1>4, <2>2, Zenon
    <2> HIDE DEF q2
    <2> DEFINE q3 == JsonStep(q2, "\"")
    <2>5. Outside(q3, Append(items, s1))
      BY <2>4, StepInside
    <2>6. JsonRun(p, <<"\"", name, "\"">>, q3)
      BY <1>1, <1>2, <1>5, <2>3, JsonRunMore, Zenon
    <2> HIDE DEF q3
    <2> DEFINE q4 == JsonStep(q3, ":")
    <2>7. Outside(q4, Append(Append(items, s1), s2))
      BY <1>1, <2>5, StepOutside
    <2>8. JsonRun(p, lead, q4)
      BY <1>1, <1>2, <1>6, <2>6, JsonRunMore, Zenon
    <2> QED
      BY <2>7, <2>8, Zenon
  <1> HIDE DEF s1, s2, lead
  <1>10. JsonAdds(lead, <<s1, s2>>)
    BY <1>2, <1>3, <1>7, AddsTwo, Zenon
  <1>8. <<s1, s2>> \in Seq(Item)
    BY <1>10, Zenon DEF JsonAdds
  <1>11. JsonAdds(lead \o content, <<s1, s2>> \o <<v>>)
    BY <1>10, AddsBoth
  <1>12. <<s1, s2>> \o <<v>> = <<s1, s2, v>>
    <2>1. <<v>> \in Seq(Item)
      BY Zenon DEF JsonAdds
    <2>2. v \in Item
      BY <2>1, ElementOfOne, Zenon
    <2>3. <<s1, s2>> \o <<v>> = Append(<<s1, s2>>, v)
      BY <1>8, <2>2, OneMoreElement, Zenon
    <2> QED
      BY <2>3, AfterTwo, Zenon
  <1>13. Member(name, content) = lead \o content
    BY Zenon DEF Member, lead
  <1> QED
    BY <1>11, <1>12, <1>13, Zenon DEF s1, s2

\* The members parts, named by the elements of S, are read as shown tells.
Named(parts, names, S, shown) ==
    /\ parts \in Seq(Seq(Calm)) /\ Len(names) = Len(parts)
    /\ \A k \in 1..Len(parts) :
           /\ names[k] \in S
           /\ JsonAdds(parts[k], <<Str(<<names[k]>>), Bare(<<":">>), shown[names[k]]>>)
    /\ \A k, m \in 1..Len(parts) : names[k] = names[m] => k = m
    /\ \A name \in S : \E k \in 1..Len(parts) : names[k] = name

ReadAs(parts, S, shown) == \E names \in Seq(S) : Named(parts, names, S, shown)

\* No members, and one more.
LEMMA ReadsNone ==
    ASSUME NEW shown
    PROVE  ReadAs(<<>>, {}, shown)
  <1>1. <<>> \in Seq({}) /\ <<>> \in Seq(Seq(Calm)) /\ Len(<<>>) = 0
    OBVIOUS
  <1>2. Named(<<>>, <<>>, {}, shown)
    BY <1>1 DEF Named
  <1> QED
    BY <1>1, <1>2, Zenon DEF ReadAs

\* Members that are read as what is shown, and one more of another name.
LEMMA ReadsMore ==
    ASSUME NEW parts, NEW S, NEW shown, ReadAs(parts, S, shown), NEW name, name \notin S,
           NEW part, JsonAdds(part, <<Str(<<name>>), Bare(<<":">>), shown[name]>>)
    PROVE  ReadAs(Append(parts, part), S \cup {name}, shown)
  <1>1. PICK names \in Seq(S) : Named(parts, names, S, shown)
    BY Zenon DEF ReadAs
  <1> DEFINE n == Len(parts)
             T == S \cup {name}
             ns == Append(names, name)
             ps == Append(parts, part)
  <1>2. parts \in Seq(Seq(Calm)) /\ part \in Seq(Calm) /\ Len(names) = n
    BY <1>1, Zenon DEF Named, JsonAdds
  <1>3. /\ ns \in Seq(T) /\ Len(ns) = n + 1 /\ n \in Nat
        /\ \A k \in 1..n : ns[k] = names[k]
        /\ ns[n + 1] = name
    BY <1>2, AppendFacts
  <1>4. /\ ps \in Seq(Seq(Calm)) /\ Len(ps) = n + 1
        /\ \A k \in 1..n : ps[k] = parts[k]
        /\ ps[n + 1] = part
    BY <1>2, AppendFacts, AppendProperties
  <1> HIDE DEF ns, ps, n
  <1>5. \A k \in 1..n + 1 : k \in 1..n \/ k = n + 1
    BY <1>3
  <1>6. \A k \in 1..n : k \in 1..n + 1 /\ k # n + 1
    BY <1>3
  <1>7. n + 1 \in 1..n + 1
    BY <1>3
  <1>8. ASSUME NEW k \in 1..n
        PROVE  /\ names[k] \in S
               /\ JsonAdds(parts[k], <<Str(<<names[k]>>), Bare(<<":">>), shown[names[k]]>>)
    BY <1>1, Zenon DEF Named, n
  <1>9. ASSUME NEW k \in 1..n + 1
        PROVE  /\ ns[k] \in T
               /\ JsonAdds(ps[k], <<Str(<<ns[k]>>), Bare(<<":">>), shown[ns[k]]>>)
    <2>1. CASE k \in 1..n
      BY <1>3, <1>4, <1>8, <2>1, Zenon
    <2>2. CASE k = n + 1
      BY <1>3, <1>4, <2>2, Zenon
    <2> QED
      BY <1>5, <2>1, <2>2
  <1>10. ASSUME NEW k \in 1..n + 1, NEW m \in 1..n + 1, ns[k] = ns[m]
         PROVE  k = m
    <2>1. CASE k \in 1..n /\ m \in 1..n
      BY <1>1, <1>3, <1>10, <2>1, Zenon DEF Named, n
    <2>2. CASE k = n + 1 /\ m = n + 1
      BY <2>2
    <2>3. CASE k \in 1..n /\ m = n + 1
      BY <1>3, <1>8, <1>10, <2>3, Zenon
    <2>4. CASE k = n + 1 /\ m \in 1..n
      BY <1>3, <1>8, <1>10, <2>4, Zenon
    <2> QED
      BY <1>5, <2>1, <2>2, <2>3, <2>4, Zenon
  <1>11. ASSUME NEW x \in T
         PROVE  \E k \in 1..n + 1 : ns[k] = x
    <2>1. CASE x = name
      BY <1>3, <1>7, <2>1, Zenon
    <2>2. CASE x # name
      <3>1. PICK k \in 1..n : names[k] = x
        BY <1>1, <2>2, Zenon DEF Named, n
      <3> QED
        BY <1>3, <1>6, <3>1, Zenon
    <2> QED
      BY <2>1, <2>2
  <1>12. Named(ps, ns, T, shown)
    BY <1>3, <1>4, <1>9, <1>10, <1>11, Zenon DEF Named
  <1> QED
    BY <1>3, <1>12, Zenon DEF ReadAs, ps

\* Members after members.
LEMMA ReadsBoth ==
    ASSUME NEW parts, NEW S, NEW shown, ReadAs(parts, S, shown),
           NEW rest, NEW T, ReadAs(rest, T, shown), S \cap T = {}
    PROVE  ReadAs(parts \o rest, S \cup T, shown)
  <1>1. PICK names \in Seq(S) : Named(parts, names, S, shown)
    BY Zenon DEF ReadAs
  <1>2. PICK others \in Seq(T) : Named(rest, others, T, shown)
    BY Zenon DEF ReadAs
  <1> DEFINE n  == Len(parts)
             m  == Len(rest)
             U  == S \cup T
             ns == names \o others
             ps == parts \o rest
  <1>3. parts \in Seq(Seq(Calm)) /\ rest \in Seq(Seq(Calm)) /\ Len(names) = n /\ Len(others) = m
    BY <1>1, <1>2, Zenon DEF Named
  <1>4. names \in Seq(U) /\ others \in Seq(U)
    BY SeqMonotonic
  <1>5. /\ ns \in Seq(U) /\ Len(ns) = n + m /\ n \in Nat /\ m \in Nat
        /\ \A k \in 1..n : ns[k] = names[k]
        /\ \A k \in 1..m : ns[n + k] = others[k]
    <2> HIDE DEF U
    <2>1. /\ names \o others \in Seq(U)
          /\ Len(names \o others) = Len(names) + Len(others)
          /\ Len(names) \in Nat /\ Len(others) \in Nat
          /\ \A k \in 1..Len(names) : (names \o others)[k] = names[k]
          /\ \A k \in 1..Len(others) : (names \o others)[Len(names) + k] = others[k]
      BY <1>4, ConcatFacts
    <2> QED
      BY <1>3, <2>1, Zenon
  <1>6. /\ ps \in Seq(Seq(Calm)) /\ Len(ps) = n + m
        /\ \A k \in 1..n : ps[k] = parts[k]
        /\ \A k \in 1..m : ps[n + k] = rest[k]
    BY <1>3, ConcatFacts
  <1>7. ASSUME NEW k \in 1..n
        PROVE  /\ names[k] \in S
               /\ JsonAdds(parts[k], <<Str(<<names[k]>>), Bare(<<":">>), shown[names[k]]>>)
    BY <1>1, Zenon DEF Named
  <1>8. ASSUME NEW k \in 1..m
        PROVE  /\ others[k] \in T
               /\ JsonAdds(rest[k], <<Str(<<others[k]>>), Bare(<<":">>), shown[others[k]]>>)
    BY <1>2, Zenon DEF Named
  <1> HIDE DEF ns, ps, n, m
  <1>9. \A k \in 1..n + m : k \in 1..n \/ \E j \in 1..m : k = n + j
    <2> SUFFICES ASSUME NEW k \in 1..n + m, k \notin 1..n
                 PROVE  \E j \in 1..m : k = n + j
      OBVIOUS
    <2>1. k - n \in 1..m /\ k = n + (k - n)
      BY <1>5
    <2> QED
      BY <2>1
  <1>10. (\A k \in 1..n : k \in 1..n + m) /\ (\A j \in 1..m : n + j \in 1..n + m)
    BY <1>5
  <1>11. ASSUME NEW k \in 1..n + m
         PROVE  /\ ns[k] \in U
                /\ JsonAdds(ps[k], <<Str(<<ns[k]>>), Bare(<<":">>), shown[ns[k]]>>)
    <2>1. CASE k \in 1..n
      BY <1>5, <1>6, <1>7, <2>1, Zenon
    <2>2. ASSUME NEW j \in 1..m, k = n + j
          PROVE  /\ ns[k] \in U
                 /\ JsonAdds(ps[k], <<Str(<<ns[k]>>), Bare(<<":">>), shown[ns[k]]>>)
      <3>1. ns[k] = others[j] /\ ps[k] = rest[j]
        BY <1>5, <1>6, <2>2
      <3> QED
        BY <1>8, <3>1, Zenon
    <2> QED
      BY <1>9, <2>1, <2>2, Zenon
  <1>12. ASSUME NEW k \in 1..n + m, NEW l \in 1..n + m, ns[k] = ns[l]
         PROVE  k = l
    <2>1. CASE k \in 1..n /\ l \in 1..n
      BY <1>1, <1>5, <1>12, <2>1, Zenon DEF Named, n
    <2>2. ASSUME NEW j \in 1..m, k = n + j, NEW i \in 1..m, l = n + i
          PROVE  j = i
      <3>1. others[j] = others[i]
        BY <1>5, <1>12, <2>2, Zenon
      <3> QED
        BY <1>2, <2>2, <3>1, Zenon DEF Named, m
    <2>3. ASSUME NEW j \in 1..n, NEW i \in 1..m
          PROVE  ns[j] # ns[n + i]
      BY <1>5, <1>7, <1>8, Zenon
    <2> QED
      BY <1>9, <1>12, <2>1, <2>2, <2>3, Zenon
  <1>13. ASSUME NEW x \in U
         PROVE  \E k \in 1..n + m : ns[k] = x
    <2>1. CASE x \in S
      <3>1. PICK k \in 1..n : names[k] = x
        BY <1>1, <2>1, Zenon DEF Named, n
      <3> QED
        BY <1>5, <1>10, <3>1, Zenon
    <2>2. CASE x \in T
      <3>1. PICK k \in 1..m : others[k] = x
        BY <1>2, <2>2, Zenon DEF Named, m
      <3> QED
        BY <1>5, <1>10, <3>1, Zenon
    <2> QED
      BY <2>1, <2>2
  <1>14. Named(ps, ns, U, shown)
    BY <1>5, <1>6, <1>11, <1>12, <1>13, Zenon DEF Named
  <1> QED
    BY <1>5, <1>14, Zenon DEF ReadAs, ps

-----------------------------------------------------------------------------
(* Objects.                                                                *)

\* u is s and three elements more.
WithThree(X, s, a, b, c, u) ==
    /\ u \in Seq(X) /\ Len(s) \in Nat /\ Len(u) = Len(s) + 3
    /\ \A k \in 1..Len(s) : u[k] = s[k]
    /\ u[Len(s) + 1] = a /\ u[Len(s) + 2] = b /\ u[Len(s) + 3] = c

\* A sequence and three elements after it.
LEMMA ThreeMore ==
    ASSUME NEW X, NEW s \in Seq(X), NEW a \in X, NEW b \in X, NEW c \in X
    PROVE  WithThree(X, s, a, b, c, s \o <<a, b, c>>)
  <1> DEFINE t == <<a, b, c>>
             u == s \o t
  <1>1. t \in Seq(X) /\ Len(t) = 3 /\ t[1] = a /\ t[2] = b /\ t[3] = c
    OBVIOUS
  <1> HIDE DEF t
  <1>2. /\ u \in Seq(X) /\ Len(u) = Len(s) + Len(t) /\ Len(s) \in Nat
        /\ \A k \in 1..Len(s) : u[k] = s[k]
        /\ \A k \in 1..Len(t) : u[Len(s) + k] = t[k]
    <2>1. t \in Seq(X)
      BY <1>1
    <2> QED
      BY <2>1, ConcatFacts
  <1> HIDE DEF u
  <1>3. u[Len(s) + 1] = a /\ u[Len(s) + 2] = b /\ u[Len(s) + 3] = c
    BY <1>1, <1>2
  <1>4. WithThree(X, s, a, b, c, u)
    BY <1>1, <1>2, <1>3 DEF WithThree
  <1> QED
    BY <1>4 DEF u, t

Comma == Bare(<<",">>)
Colon == Bare(<<":">>)

\* The items of an opened object after its first k members, and before the next.
SoFar(its, names, shown, k) ==
    /\ its \in Seq(Item) /\ Len(its) = IF k = 0 THEN 1 ELSE 4 * k
    /\ its[1] = Bare(<<"{">>)
    /\ \A j \in 1..k : /\ its[4 * j - 2] = Str(<<names[j]>>)
                       /\ its[4 * j - 1] = Colon
                       /\ its[4 * j] = shown[names[j]]
    /\ \A j \in 1..k - 1 : its[4 * j + 1] = Comma

Ready(its, names, shown, k) ==
    /\ its \in Seq(Item) /\ Len(its) = 4 * k + 1
    /\ its[1] = Bare(<<"{">>)
    /\ \A j \in 1..k : /\ its[4 * j - 2] = Str(<<names[j]>>)
                       /\ its[4 * j - 1] = Colon
                       /\ its[4 * j] = shown[names[j]]
                       /\ its[4 * j + 1] = Comma

\* After a comma the object is ready for a member, and then it has one more.
LEMMA ReadyAgain ==
    ASSUME NEW its, NEW names, NEW shown, NEW k \in Nat \ {0}, SoFar(its, names, shown, k),
           Comma \in Item
    PROVE  Ready(Append(its, Comma), names, shown, k)
  <1> DEFINE all == Append(its, Comma)
  <1>1. its \in Seq(Item) /\ Len(its) = 4 * k /\ its[1] = Bare(<<"{">>)
    BY DEF SoFar
  <1>2. /\ all \in Seq(Item) /\ Len(all) = 4 * k + 1
        /\ \A i \in 1..4 * k : all[i] = its[i]
        /\ all[4 * k + 1] = Comma
    <2>1. its \in Seq(Item)
      BY <1>1
    <2>2. /\ all \in Seq(Item) /\ Len(all) = Len(its) + 1
          /\ \A i \in 1..Len(its) : all[i] = its[i]
          /\ all[Len(its) + 1] = Comma
      BY <2>1, AppendFacts, AppendProperties
    <2> HIDE DEF all
    <2> QED
      BY <1>1, <2>2
  <1> HIDE DEF all
  <1>3. ASSUME NEW j \in 1..k
        PROVE  /\ all[4 * j - 2] = Str(<<names[j]>>)
               /\ all[4 * j - 1] = Colon
               /\ all[4 * j] = shown[names[j]]
               /\ all[4 * j + 1] = Comma
    <2>1. 4 * j - 2 \in 1..4 * k /\ 4 * j - 1 \in 1..4 * k /\ 4 * j \in 1..4 * k
      OBVIOUS
    <2>2. /\ all[4 * j - 2] = its[4 * j - 2] /\ all[4 * j - 1] = its[4 * j - 1]
          /\ all[4 * j] = its[4 * j]
      BY <1>2, <2>1
    <2>3. /\ its[4 * j - 2] = Str(<<names[j]>>)
          /\ its[4 * j - 1] = Colon
          /\ its[4 * j] = shown[names[j]]
      BY Zenon DEF SoFar
    <2>4. all[4 * j + 1] = Comma
      <3>1. CASE j = k
        BY <1>2, <3>1
      <3>2. CASE j # k
        <4>1. j \in 1..k - 1 /\ 4 * j + 1 \in 1..4 * k
          BY <3>2
        <4>2. its[4 * j + 1] = Comma
          BY <4>1, Zenon DEF SoFar
        <4> QED
          BY <1>2, <4>1, <4>2
      <3> QED
        BY <3>1, <3>2
    <2> QED
      BY <2>2, <2>3, <2>4, Zenon
  <1>4. all[1] = its[1]
    BY <1>2
  <1>5. Ready(all, names, shown, k)
    BY <1>1, <1>2, <1>3, <1>4, Zenon DEF Ready
  <1> QED
    BY <1>5 DEF all

\* After the items of the first k members, those of the next.
LEMMA SoFarNext ==
    ASSUME NEW its, NEW names, NEW shown, NEW k \in Nat, Ready(its, names, shown, k),
           NEW a \in Item, NEW b \in Item, NEW c \in Item,
           NEW all, WithThree(Item, its, a, b, c, all),
           a = Str(<<names[k + 1]>>), b = Colon, c = shown[names[k + 1]]
    PROVE  SoFar(all, names, shown, k + 1)
  <1>1. its \in Seq(Item) /\ Len(its) = 4 * k + 1 /\ its[1] = Bare(<<"{">>)
    BY Zenon DEF Ready
  <1>2. /\ all \in Seq(Item) /\ Len(all) = Len(its) + 3
        /\ \A i \in 1..Len(its) : all[i] = its[i]
        /\ all[Len(its) + 1] = a /\ all[Len(its) + 2] = b /\ all[Len(its) + 3] = c
    BY Zenon DEF WithThree
  <1>3. /\ Len(its) + 1 = 4 * (k + 1) - 2 /\ Len(its) + 2 = 4 * (k + 1) - 1
        /\ Len(its) + 3 = 4 * (k + 1) /\ k + 1 # 0 /\ 1 \in 1..Len(its)
    <2> DEFINE n == Len(its)
    <2>1. n = 4 * k + 1
      BY <1>1
    <2> HIDE DEF n
    <2>2. /\ n + 1 = 4 * (k + 1) - 2 /\ n + 2 = 4 * (k + 1) - 1
          /\ n + 3 = 4 * (k + 1) /\ k + 1 # 0 /\ 1 \in 1..n
      BY <2>1
    <2> QED
      BY <2>2 DEF n
  <1>4. ASSUME NEW j \in 1..k + 1
        PROVE  /\ all[4 * j - 2] = Str(<<names[j]>>)
               /\ all[4 * j - 1] = Colon
               /\ all[4 * j] = shown[names[j]]
    <2>1. CASE j = k + 1
      <3>1. all[4 * (k + 1) - 2] = a /\ all[4 * (k + 1) - 1] = b /\ all[4 * (k + 1)] = c
        BY <1>2, <1>3, Zenon
      <3> QED
        BY <2>1, <3>1, Zenon
    <2>2. CASE j # k + 1
      <3>1. j \in 1..k /\ 4 * j - 2 \in 1..4 * k + 1 /\ 4 * j - 1 \in 1..4 * k + 1
            /\ 4 * j \in 1..4 * k + 1
        BY <2>2
      <3>2. /\ all[4 * j - 2] = its[4 * j - 2] /\ all[4 * j - 1] = its[4 * j - 1]
            /\ all[4 * j] = its[4 * j]
        BY <1>1, <1>2, <3>1, Zenon
      <3>3. /\ its[4 * j - 2] = Str(<<names[j]>>)
            /\ its[4 * j - 1] = Colon
            /\ its[4 * j] = shown[names[j]]
        BY <3>1, Zenon DEF Ready
      <3> QED
        BY <3>2, <3>3, Zenon
    <2> QED
      BY <2>1, <2>2
  <1>5. ASSUME NEW j \in 1..(k + 1) - 1
        PROVE  all[4 * j + 1] = Comma
    <2>1. j \in 1..k /\ 4 * j + 1 \in 1..4 * k + 1
      OBVIOUS
    <2>2. its[4 * j + 1] = Comma
      BY <2>1, Zenon DEF Ready
    <2> QED
      BY <1>1, <1>2, <2>1, <2>2, Zenon
  <1>6. all[1] = Bare(<<"{">>)
    BY <1>1, <1>2, <1>3, Zenon
  <1>7. Len(all) = IF k + 1 = 0 THEN 1 ELSE 4 * (k + 1)
    BY <1>2, <1>3, Zenon
  <1> QED
    BY <1>2, <1>4, <1>5, <1>6, <1>7, Zenon DEF SoFar

\* After done the object has its first k members.
Opened(done, names, shown, k) ==
    \E its : SoFar(its, names, shown, k) /\ JsonAdds(done, its)

\* The punctuation of an object is no quote.
LEMMA CommaIs == "," \in Calm /\ "{" \in Calm /\ "}" \in Calm /\ "," # "\"" /\ "{" # "\"" /\ "}" # "\""
  BY CalmWords DEF Words

\* After the opening brace alone no member is read.
LEMMA OpenedFirst ==
    ASSUME NEW names, NEW shown
    PROVE  Opened(<<"{">>, names, shown, 0)
  <1> DEFINE its == <<Bare(<<"{">>)>>
  <1>1. JsonAdds(<<"{">>, its)
    BY CommaIs, AddsBare, Zenon
  <1>2. its \in Seq(Item)
    BY <1>1, Zenon DEF JsonAdds
  <1>3. Len(its) = 1 /\ its[1] = Bare(<<"{">>)
    OBVIOUS
  <1> HIDE DEF its
  <1>4. SoFar(its, names, shown, 0)
    <2>1. (\A j : j \notin 1..0) /\ (\A j : j \notin 1..0 - 1)
      OBVIOUS
    <2> QED
      BY <1>2, <1>3, <2>1, Zenon DEF SoFar
  <1> QED
    BY <1>1, <1>4, Zenon DEF Opened

\* A member where one may stand.
LEMMA OneMoreMember ==
    ASSUME NEW its, NEW names, NEW shown, NEW k \in Nat, Ready(its, names, shown, k),
           NEW done, JsonAdds(done, its), NEW part,
           JsonAdds(part, <<Str(<<names[k + 1]>>), Colon, shown[names[k + 1]]>>)
    PROVE  Opened(done \o part, names, shown, k + 1)
  <1> DEFINE a == Str(<<names[k + 1]>>)
             b == Colon
             c == shown[names[k + 1]]
             t == <<a, b, c>>
  <1>1. t \in Seq(Item)
    BY Zenon DEF JsonAdds
  <1>2. a \in Item /\ b \in Item /\ c \in Item
    <2> HIDE DEF a, b, c
    <2>1. Len(t) = 3 /\ t[1] = a /\ t[2] = b /\ t[3] = c
      OBVIOUS
    <2> HIDE DEF t
    <2>2. 1 \in 1..Len(t) /\ 2 \in 1..Len(t) /\ 3 \in 1..Len(t)
      BY <2>1
    <2>3. t[1] \in Item /\ t[2] \in Item /\ t[3] \in Item
      BY <1>1, <2>2, ElementOfSeq, Zenon
    <2> QED
      BY <2>1, <2>3, Zenon
  <1>3. JsonAdds(done \o part, its \o t)
    BY AddsBoth, Zenon
  <1> HIDE DEF a, b, c
  <1>4. its \in Seq(Item)
    BY Zenon DEF Ready
  <1>5. WithThree(Item, its, a, b, c, its \o <<a, b, c>>)
    BY <1>2, <1>4, ThreeMore
  <1> DEFINE all == its \o t
  <1>6. WithThree(Item, its, a, b, c, all)
    BY <1>5, Zenon
  <1> HIDE DEF all, t
  <1>7. SoFar(all, names, shown, k + 1)
    BY <1>2, <1>6, SoFarNext, Zenon DEF a, b, c
  <1>8. JsonAdds(done \o part, all)
    BY <1>3, Zenon DEF all
  <1> QED
    BY <1>7, <1>8, Zenon DEF Opened

\* Each member, with the comma that separates it from the one before, adds its three items.
LEMMA OpenedNext ==
    ASSUME NEW names, NEW shown, NEW k \in Nat, NEW done, Opened(done, names, shown, k), NEW part,
           JsonAdds(part, <<Str(<<names[k + 1]>>), Colon, shown[names[k + 1]]>>)
    PROVE  Opened(done \o (IF k = 0 THEN part ELSE <<",">> \o part), names, shown, k + 1)
  <1>1. PICK its : SoFar(its, names, shown, k) /\ JsonAdds(done, its)
    BY Zenon DEF Opened
  <1>2. CASE k = 0
    <2>1. its \in Seq(Item) /\ Len(its) = 4 * 0 + 1 /\ its[1] = Bare(<<"{">>)
      <3>1. SoFar(its, names, shown, 0)
        BY <1>1, <1>2, Zenon
      <3>2. its \in Seq(Item) /\ Len(its) = 1 /\ its[1] = Bare(<<"{">>)
        BY <3>1, Zenon DEF SoFar
      <3>3. 4 * 0 + 1 = 1
        OBVIOUS
      <3> QED
        BY <3>2, <3>3, Zenon
    <2>2. \A j : j \notin 1..0
      OBVIOUS
    <2>3. Ready(its, names, shown, 0)
      BY <2>1, <2>2, Zenon DEF Ready
    <2>4. Opened(done \o part, names, shown, k + 1)
      BY <1>1, <1>2, <2>3, OneMoreMember, Zenon
    <2> QED
      BY <1>2, <2>4, Zenon
  <1>3. CASE k # 0
    <2> DEFINE sep == <<",">>
    <2>1. JsonAdds(sep, <<Comma>>)
      BY CommaIs, AddsBare, Zenon DEF Comma
    <2>2. its \in Seq(Item) /\ sep \in Seq(Calm) /\ done \in Seq(Calm) /\ part \in Seq(Calm)
          /\ <<Comma>> \in Seq(Item)
      BY <1>1, <2>1, Zenon DEF JsonAdds
    <2>3. Comma \in Item
      BY <2>2, ElementOfOne, Zenon
    <2>4. its \o <<Comma>> = Append(its, Comma)
      BY <2>2, <2>3, OneMoreElement, Zenon
    <2>5. JsonAdds(done \o sep, Append(its, Comma))
      <3>1. JsonAdds(done \o sep, its \o <<Comma>>)
        BY <1>1, <2>1, AddsBoth, Zenon
      <3> QED
        BY <2>4, <3>1, Zenon
    <2>6. Ready(Append(its, Comma), names, shown, k)
      BY <1>1, <1>3, <2>3, ReadyAgain
    <2> HIDE DEF sep
    <2>7. Opened((done \o sep) \o part, names, shown, k + 1)
      BY <2>5, <2>6, OneMoreMember, Zenon
    <2>8. (done \o sep) \o part = done \o (sep \o part)
      BY <2>2
    <2> QED
      BY <1>3, <2>7, <2>8, Zenon DEF sep
  <1> QED
    BY <1>2, <1>3

\* What an object is made of.
Separated(parts, sep) == [k \in DOMAIN parts |-> IF k = 1 THEN parts[k] ELSE <<sep>> \o parts[k]]

\* Parts joined with a separator: each but the first has the separator before it.
LEMMA SeparatedType ==
    ASSUME NEW X, NEW parts \in Seq(Seq(X)), NEW sep \in X
    PROVE  /\ Separated(parts, sep) \in Seq(Seq(X)) /\ Len(Separated(parts, sep)) = Len(parts)
           /\ \A k \in 1..Len(parts) : Separated(parts, sep)[k]
                                           = IF k = 1 THEN parts[k] ELSE <<sep>> \o parts[k]
           /\ Joined(parts, sep) = FlattenSeq(Separated(parts, sep))
  <1>1. Len(parts) \in Nat /\ DOMAIN parts = 1..Len(parts)
        /\ \A k \in DOMAIN parts : parts[k] \in Seq(X)
    OBVIOUS
  <1>2. <<sep>> \in Seq(X)
    OBVIOUS
  <1>3. ASSUME NEW k \in DOMAIN parts
        PROVE  (IF k = 1 THEN parts[k] ELSE <<sep>> \o parts[k]) \in Seq(X)
    <2>1. <<sep>> \o parts[k] \in Seq(X)
      BY <1>1, <1>2, Concat, Zenon
    <2> QED
      BY <1>1, <2>1, Zenon
  <1>4. Separated(parts, sep) \in [1..Len(parts) -> Seq(X)]
    BY <1>1, <1>3, Zenon DEF Separated
  <1> DEFINE all == Separated(parts, sep)
  <1>5. Joined(parts, sep) = FlattenSeq(all)
    BY Zenon DEF Joined, Separated
  <1>6. \A k \in 1..Len(parts) : all[k] = IF k = 1 THEN parts[k] ELSE <<sep>> \o parts[k]
    BY <1>1, Zenon DEF Separated
  <1> HIDE DEF all
  <1>7. all \in Seq(Seq(X)) /\ Len(all) = Len(parts)
    <2> DEFINE n == Len(parts)
    <2>1. n \in Nat /\ all \in [1..n -> Seq(X)]
      BY <1>1, <1>4, Zenon DEF all
    <2> HIDE DEF n
    <2>2. all \in Seq(Seq(X)) /\ Len(all) = n
      BY <2>1
    <2> QED
      BY <2>2, Zenon DEF n
  <1> QED
    BY <1>5, <1>6, <1>7, Zenon DEF all

\* After the brace and all of the members their items are read.
LEMMA MembersOpened ==
    ASSUME NEW parts, NEW names, NEW S, NEW shown, Named(parts, names, S, shown)
    PROVE  Opened(<<"{">> \o Joined(parts, ","), names, shown, Len(parts))
  <1> DEFINE ps == Separated(parts, ",")
             n  == Len(parts)
  <1>1. parts \in Seq(Seq(Calm)) /\ "," \in Calm
    BY CommaIs, Zenon DEF Named
  <1>2. /\ ps \in Seq(Seq(Calm)) /\ Len(ps) = n
        /\ \A k \in 1..n : ps[k] = IF k = 1 THEN parts[k] ELSE <<",">> \o parts[k]
        /\ Joined(parts, ",") = FlattenSeq(ps)
    BY <1>1, SeparatedType, Zenon
  <1>3. n \in Nat
    BY <1>1, LenProperties, Zenon
  <1>4. \A k \in 1..n :
            JsonAdds(parts[k], <<Str(<<names[k]>>), Colon, shown[names[k]]>>)
    BY Zenon DEF Named, Colon
  <1> HIDE DEF ps, n
  <1>5. /\ JoinedTo(ps, 0) = <<>>
        /\ JoinedTo(ps, n) = FlattenSeq(ps)
        /\ \A k \in 0..n : JoinedTo(ps, k) \in Seq(Calm)
        /\ \A k \in 1..n : JoinedTo(ps, k) = JoinedTo(ps, k - 1) \o ps[k]
    BY <1>2, JoinedFacts, Zenon
  <1> DEFINE lead == <<"{">>
             So(k) == Opened(lead \o JoinedTo(ps, k), names, shown, k)
             I == {k \in Nat : k <= n => So(k)}
  <1>6. lead \in Seq(Calm)
    BY CommaIs, Ones, Zenon
  <1>7. Opened(lead, names, shown, 0)
    BY OpenedFirst, Zenon
  <1> HIDE DEF lead
  <1>8. So(0)
    <2>1. lead \o <<>> = lead
      BY <1>6
    <2> QED
      BY <1>5, <1>7, <2>1, Zenon
  <1>9. ASSUME NEW k \in Nat, k + 1 <= n, So(k)
        PROVE  So(k + 1)
    <2> DEFINE part == parts[k + 1]
               more == IF k = 0 THEN part ELSE <<",">> \o part
    <2>1. k + 1 \in 1..n /\ k \in 0..n /\ (k + 1) - 1 = k /\ (k + 1 = 1 <=> k = 0) /\ k + 1 \in 0..n
      BY <1>3, <1>9
    <2>2. ps[k + 1] = more
      BY <1>2, <2>1, Zenon
    <2>3. JsonAdds(part, <<Str(<<names[k + 1]>>), Colon, shown[names[k + 1]]>>)
      BY <1>4, <2>1, Zenon
    <2>4. Opened((lead \o JoinedTo(ps, k)) \o more, names, shown, k + 1)
      <3> DEFINE done == lead \o JoinedTo(ps, k)
      <3>1. Opened(done, names, shown, k)
        BY <1>9, Zenon
      <3> HIDE DEF done
      <3>2. Opened(done \o (IF k = 0 THEN part ELSE <<",">> \o part), names, shown, k + 1)
        BY <2>3, <3>1, OpenedNext
      <3> QED
        BY <3>2, Zenon DEF done
    <2>5. more \in Seq(Calm) /\ JoinedTo(ps, k) \in Seq(Calm)
      <3>1. ps[k + 1] \in Seq(Calm)
        BY <1>2, <2>1, ElementOfSeq, Zenon
      <3> QED
        BY <1>5, <2>1, <2>2, <3>1, Zenon
    <2> HIDE DEF more
    <2>6. JoinedTo(ps, k + 1) = JoinedTo(ps, k) \o more
      BY <1>5, <2>1, <2>2, Zenon
    <2> DEFINE before == JoinedTo(ps, k)
    <2>7. before \in Seq(Calm)
      BY <2>5
    <2> HIDE DEF before
    <2>8. (lead \o before) \o more = lead \o (before \o more)
      BY <1>6, <2>5, <2>7
    <2> QED
      BY <2>4, <2>6, <2>8, Zenon DEF before
  <1> HIDE DEF So
  <1>10. 0 \in I
    BY <1>8
  <1>11. ASSUME NEW k \in Nat, k \in I
         PROVE  k + 1 \in I
    <2> SUFFICES ASSUME k + 1 <= n
                 PROVE  So(k + 1)
      OBVIOUS
    <2>1. k <= n
      BY <1>3
    <2> QED
      BY <1>9, <1>11, <2>1
  <1> HIDE DEF I
  <1>12. n \in I
    BY <1>3, <1>10, <1>11, InductionOnSet
  <1>13. So(n)
    BY <1>3, <1>12 DEF I
  <1> QED
    BY <1>2, <1>5, <1>13, Zenon DEF So, lead, n

\* A whole object.
LEMMA ObjectAdds ==
    ASSUME NEW parts, NEW names, NEW S, NEW shown, Named(parts, names, S, shown)
    PROVE  \E its : /\ SoFar(its, names, shown, Len(parts))
                    /\ JsonAdds(Object(parts), Append(its, Bare(<<"}">>)))
  <1> DEFINE open == <<"{">> \o Joined(parts, ",")
  <1>1. PICK its : SoFar(its, names, shown, Len(parts)) /\ JsonAdds(open, its)
    BY MembersOpened, Zenon DEF Opened
  <1>2. JsonAdds(<<"}">>, <<Bare(<<"}">>)>>)
    BY CommaIs, AddsBare, Zenon
  <1>3. JsonAdds(open \o <<"}">>, its \o <<Bare(<<"}">>)>>)
    BY <1>1, <1>2, AddsBoth, Zenon
  <1>4. its \in Seq(Item) /\ <<Bare(<<"}">>)>> \in Seq(Item)
    BY <1>1, <1>2, Zenon DEF JsonAdds
  <1>5. its \o <<Bare(<<"}">>)>> = Append(its, Bare(<<"}">>))
    <2>1. Bare(<<"}">>) \in Item
      BY <1>4, ElementOfOne, Zenon
    <2> QED
      BY <1>4, <2>1, OneMoreElement, Zenon
  <1>6. Object(parts) = open \o <<"}">>
    <2> DEFINE a == <<"{">>
               b == Joined(parts, ",")
               c == <<"}">>
    <2>1. a \in Seq(Calm) /\ c \in Seq(Calm)
      BY CommaIs, Ones, Zenon
    <2>2. parts \in Seq(Seq(Calm))
      BY Zenon DEF Named
    <2>3. b \in Seq(Calm)
      BY <2>2, CommaIs, JoinedOver, Zenon
    <2>4. Object(parts) = a \o b \o c
      BY Zenon DEF Object
    <2> HIDE DEF a, b, c
    <2>5. a \o b \o c = (a \o b) \o c
      BY <2>1, <2>3
    <2> QED
      BY <2>4, <2>5, Zenon DEF a, b, c
  <1> QED
    BY <1>1, <1>3, <1>5, <1>6, Zenon

Closing == Bare(<<"}">>)

\* The items of a whole object.
ObjectItems(items, names, shown, n) ==
    /\ Len(items) = 4 * n + 1 /\ items[1] = Bare(<<"{">>)
    /\ \A k \in 1..n : /\ items[4 * k - 2] = Str(<<names[k]>>)
                       /\ items[4 * k - 1] = Colon
                       /\ items[4 * k] = shown[names[k]]
                       /\ items[4 * k + 1] = Bare(IF k = n THEN <<"}">> ELSE <<",">>)

\* The closing brace ends the items of an object.
LEMMA ObjectClosed ==
    ASSUME NEW its, NEW names, NEW shown, NEW n \in Nat \ {0}, SoFar(its, names, shown, n),
           Closing \in Item
    PROVE  ObjectItems(Append(its, Closing), names, shown, n)
  <1> DEFINE e   == Closing
             all == Append(its, e)
  <1>1. its \in Seq(Item) /\ Len(its) = 4 * n /\ its[1] = Bare(<<"{">>)
    BY Zenon DEF SoFar
  <1>2. /\ Len(all) = 4 * n + 1
        /\ \A i \in 1..4 * n : all[i] = its[i]
        /\ all[4 * n + 1] = e
    <2>1. its \in Seq(Item)
      BY <1>1
    <2>2. /\ Len(all) = Len(its) + 1
          /\ \A i \in 1..Len(its) : all[i] = its[i]
          /\ all[Len(its) + 1] = e
      BY <2>1, AppendFacts
    <2>3. Len(its) = 4 * n
      BY <1>1
    <2> HIDE DEF all, e
    <2> QED
      BY <2>2, <2>3
  <1> HIDE DEF all
  <1>3. ASSUME NEW j \in 1..n
        PROVE  /\ all[4 * j - 2] = Str(<<names[j]>>)
               /\ all[4 * j - 1] = Colon
               /\ all[4 * j] = shown[names[j]]
               /\ all[4 * j + 1] = Bare(IF j = n THEN <<"}">> ELSE <<",">>)
    <2>1. 4 * j - 2 \in 1..4 * n /\ 4 * j - 1 \in 1..4 * n /\ 4 * j \in 1..4 * n
      OBVIOUS
    <2>2. /\ all[4 * j - 2] = its[4 * j - 2] /\ all[4 * j - 1] = its[4 * j - 1]
          /\ all[4 * j] = its[4 * j]
      BY <1>2, <2>1
    <2>3. /\ its[4 * j - 2] = Str(<<names[j]>>)
          /\ its[4 * j - 1] = Colon
          /\ its[4 * j] = shown[names[j]]
      BY Zenon DEF SoFar
    <2>4. all[4 * j + 1] = Bare(IF j = n THEN <<"}">> ELSE <<",">>)
      <3>1. CASE j = n
        <4>1. all[4 * j + 1] = e
          BY <1>2, <3>1, Zenon
        <4> QED
          BY <3>1, <4>1, Zenon DEF Closing
      <3>2. CASE j # n
        <4>1. j \in 1..n - 1 /\ 4 * j + 1 \in 1..4 * n
          BY <3>2
        <4>2. its[4 * j + 1] = Comma
          BY <4>1, Zenon DEF SoFar
        <4>3. all[4 * j + 1] = Bare(<<",">>)
          BY <1>2, <4>1, <4>2, Zenon DEF Comma
        <4> QED
          BY <3>2, <4>3, Zenon
      <3> QED
        BY <3>1, <3>2
    <2> QED
      BY <2>2, <2>3, <2>4, Zenon
  <1>4. all[1] = its[1]
    <2>1. 1 \in 1..4 * n
      OBVIOUS
    <2> QED
      BY <1>2, <2>1, Zenon
  <1>5. ObjectItems(all, names, shown, n)
    BY <1>1, <1>2, <1>3, <1>4, Zenon DEF ObjectItems
  <1> QED
    BY <1>5, Zenon DEF all, e

\* A sequence that names every element once counts them.
LEMMA NamesCounted ==
    ASSUME NEW S, NEW names \in Seq(S),
           \A k, m \in 1..Len(names) : names[k] = names[m] => k = m,
           \A x \in S : \E k \in 1..Len(names) : names[k] = x
    PROVE  Cardinality(S) = Len(names)
  <1>1. names \in [1..Len(names) -> S] /\ Len(names) \in Nat
    OBVIOUS
  <1>2. names \in Bijection(1..Len(names), S)
    BY <1>1, Zenon DEF Bijection, Injection, Surjection, IsInjective
  <1> QED
    BY <1>1, <1>2, FS_CountingElements, Zenon DEF ExistsBijection

\* A fourth of the items, and one over.
LEMMA FourParts ==
    ASSUME NEW c \in Nat
    PROVE  (4 * c + 1) \div 4 = c
  OBVIOUS

\* A reader takes from such items what was shown.
LEMMA ItemsAreRead ==
    ASSUME NEW line, Parse(JsonStep, JsonStart, line).at = "out",
           NEW S, NEW names \in Seq(S), names # <<>>,
           \A k, m \in 1..Len(names) : names[k] = names[m] => k = m,
           \A x \in S : \E k \in 1..Len(names) : names[k] = x,
           NEW shown, shown = [x \in S |-> shown[x]],
           ObjectItems(Parse(JsonStep, JsonStart, line).items, names, shown, Len(names))
    PROVE  ReadObject(line) = {shown}
  <1> DEFINE p     == Parse(JsonStep, JsonStart, line)
             items == p.items
             n     == Len(items) \div 4
             all   == {items[4 * k - 2].is[1] : k \in 1..n}
             sound == /\ p.at = "out" /\ Len(items) = 4 * n + 1 /\ Cardinality(all) = n
                      /\ items[1] = Bare(<<"{">>)
                      /\ \A k \in 1..n : /\ items[4 * k - 2].type = "string"
                                         /\ items[4 * k - 1] = Bare(<<":">>)
                                         /\ items[4 * k + 1] = Bare(IF k = n THEN <<"}">> ELSE <<",">>)
             read == [name \in all |->
                         items[4 * CHOOSE k \in 1..n : items[4 * k - 2].is[1] = name]]
  <1>1. ReadObject(line) = IF ~sound THEN {} ELSE {read}
    BY DEF ReadObject
  <1>2. p.at = "out" /\ ObjectItems(items, names, shown, Len(names))
    OBVIOUS
  <1> HIDE DEF p, items
  <1>3. n = Len(names) /\ Len(items) = 4 * n + 1
    <2> DEFINE c == Len(names)
               l == Len(items)
    <2>1. c \in Nat
      BY LenProperties, Zenon
    <2>2. l = 4 * c + 1
      BY <1>2, Zenon DEF ObjectItems
    <2> HIDE DEF c, l
    <2>3. l \div 4 = c
      BY <2>1, <2>2, FourParts, Zenon
    <2> QED
      BY <2>2, <2>3, Zenon DEF c, l
  <1> HIDE DEF n
  <1>4. ASSUME NEW k \in 1..n
        PROVE  /\ items[4 * k - 2] = Str(<<names[k]>>)
               /\ items[4 * k - 1] = Colon
               /\ items[4 * k] = shown[names[k]]
               /\ items[4 * k + 1] = Bare(IF k = n THEN <<"}">> ELSE <<",">>)
    BY <1>2, <1>3, Zenon DEF ObjectItems
  <1>5. \A k \in 1..n : names[k] \in S
    BY <1>3, ElementOfSeq, Zenon
  <1>6. ASSUME NEW k \in 1..n
        PROVE  items[4 * k - 2].type = "string" /\ items[4 * k - 2].is[1] = names[k]
    <2>1. Str(<<names[k]>>).type = "string" /\ Str(<<names[k]>>).is = <<names[k]>>
      BY DEF Str
    <2>2. <<names[k]>>[1] = names[k]
      OBVIOUS
    <2> QED
      BY <1>4, <2>1, <2>2, Zenon
  <1>7. \A x \in S : \E k \in 1..n : names[k] = x
    BY <1>3, Zenon
  <1>8. all = S
    <2>1. ASSUME NEW x \in all
          PROVE  x \in S
      <3>1. PICK k \in 1..n : x = items[4 * k - 2].is[1]
        BY <2>1, Zenon
      <3> QED
        BY <1>5, <1>6, <3>1, Zenon
    <2>2. ASSUME NEW x \in S
          PROVE  x \in all
      <3>1. PICK k \in 1..n : names[k] = x
        BY <1>7, <2>2, Zenon
      <3>2. x = items[4 * k - 2].is[1]
        BY <1>6, <3>1, Zenon
      <3> QED
        BY <3>2, Zenon
    <2> QED
      BY <2>1, <2>2, Zenon
  <1>9. Cardinality(S) = n
    <2>1. Cardinality(S) = Len(names)
      BY NamesCounted, Zenon
    <2> QED
      BY <1>3, <2>1, Zenon
  <1>10. sound
    <2>1. items[1] = Bare(<<"{">>)
      BY <1>2, Zenon DEF ObjectItems
    <2>2. ASSUME NEW k \in 1..n
          PROVE  /\ items[4 * k - 2].type = "string"
                 /\ items[4 * k - 1] = Bare(<<":">>)
                 /\ items[4 * k + 1] = Bare(IF k = n THEN <<"}">> ELSE <<",">>)
      BY <1>4, <1>6, Zenon DEF Colon
    <2>3. Cardinality(all) = n
      BY <1>8, <1>9, Zenon
    <2> HIDE DEF all
    <2> QED
      BY <1>2, <1>3, <2>1, <2>2, <2>3, Zenon
  <1> HIDE DEF sound, all
  <1>11. ASSUME NEW name \in S
         PROVE  items[4 * CHOOSE k \in 1..n : items[4 * k - 2].is[1] = name] = shown[name]
    <2> DEFINE d == CHOOSE k \in 1..n : items[4 * k - 2].is[1] = name
    <2>1. \E k \in 1..n : items[4 * k - 2].is[1] = name
      <3>1. PICK k \in 1..n : names[k] = name
        BY <1>7, Zenon
      <3>2. items[4 * k - 2].is[1] = name
        BY <1>6, <3>1, Zenon
      <3> QED
        BY <3>2, Zenon
    <2>2. d \in 1..n /\ items[4 * d - 2].is[1] = name
      BY <2>1, Zenon
    <2> HIDE DEF d
    <2>3. items[4 * d] = shown[names[d]] /\ items[4 * d - 2].is[1] = names[d]
      BY <1>4, <1>6, <2>2, Zenon
    <2>4. items[4 * d] = shown[name]
      BY <2>2, <2>3, Zenon
    <2> QED
      BY <2>4, Zenon DEF d
  <1>12. read = shown
    BY <1>8, <1>11, Zenon
  <1> HIDE DEF read
  <1> QED
    BY <1>1, <1>10, <1>12, Zenon

\* line is read as shown, and does not break.
Readable(line, shown) == line \in Seq(Calm) /\ ReadObject(line) = {shown}

\* An object is read as what its members show, whatever their strings hold.
LEMMA ObjectReads ==
    ASSUME NEW parts, parts # <<>>, NEW S, NEW shown, shown = [x \in S |-> shown[x]],
           ReadAs(parts, S, shown)
    PROVE  Readable(Object(parts), shown)
  <1>1. PICK names \in Seq(S) : Named(parts, names, S, shown)
    BY Zenon DEF ReadAs
  <1>2. PICK its : /\ SoFar(its, names, shown, Len(parts))
                   /\ JsonAdds(Object(parts), Append(its, Closing))
    BY <1>1, ObjectAdds, Zenon DEF Closing
  <1> DEFINE n   == Len(parts)
             all == Append(its, Closing)
  <1>3. parts \in Seq(Seq(Calm)) /\ Len(names) = n
    BY <1>1, Zenon DEF Named
  <1>4. n \in Nat \ {0}
    BY <1>3, EmptySeq, LenProperties
  <1>5. Closing \in Item
    <2>1. <<"}">> \in Seq(Calm)
      BY CommaIs, Ones, Zenon
    <2>2. <<"}">> \in Seq(Token)
      BY <2>1, CalmIsToken
    <2> QED
      BY <2>2, ItemType, Zenon DEF Closing
  <1> HIDE DEF n
  <1>6. ObjectItems(all, names, shown, n)
    BY <1>2, <1>4, <1>5, ObjectClosed, Zenon DEF n
  <1>7. Outside(JsonStart, <<>>)
    BY Zenon DEF Outside, JsonAt, JsonStart
  <1>8. <<>> \in Seq(Item) /\ all \in Seq(Item)
    <2>1. <<>> \in Seq(Item)
      OBVIOUS
    <2> QED
      BY <1>2, <2>1, Zenon DEF JsonAdds
  <1> HIDE DEF all
  <1>9. PICK q : Outside(q, <<>> \o all) /\ JsonRun(JsonStart, Object(parts), q)
    BY <1>2, <1>7, <1>8, Zenon DEF JsonAdds, all
  <1>10. <<>> \o all = all
    BY <1>8
  <1>11. Object(parts) \in Seq(Calm)
    BY <1>2, Zenon DEF JsonAdds
  <1>12. Parse(JsonStep, JsonStart, Object(parts)) = q
    <2>1. Len(Object(parts)) \in Nat
      BY <1>11, LenProperties, Zenon
    <2> QED
      BY <1>9, <2>1, JsonParse, Zenon
  <1>13. q.at = "out" /\ q.items = all
    <2>1. PICK chars, code : q = JsonAt("out", chars, code, all)
      BY <1>9, <1>10, Zenon DEF Outside
    <2> QED
      BY <2>1 DEF JsonAt
  <1>14. \A k, m \in 1..Len(names) : names[k] = names[m] => k = m
    BY <1>1, <1>3, Zenon DEF Named, n
  <1>15. \A x \in S : \E k \in 1..Len(names) : names[k] = x
    BY <1>1, <1>3, Zenon DEF Named, n
  <1>16. ObjectItems(q.items, names, shown, Len(names))
    BY <1>3, <1>6, <1>13, Zenon
  <1>17. names # <<>>
    BY <1>3, <1>4, EmptySeq, Zenon
  <1>18. ReadObject(Object(parts)) = {shown}
    BY <1>12, <1>13, <1>14, <1>15, <1>16, <1>17, ItemsAreRead, Zenon
  <1> QED
    BY <1>11, <1>18, Zenon DEF Readable

-----------------------------------------------------------------------------
(* What is shown of each kind of record.                                   *)

\* f is a function on S.
On(f, S) == f = [x \in S |-> f[x]] /\ DOMAIN f = S

RawNames       == {"origin_file", "key_hex", "value_hex", "seq", "deleted"}
OtherNames     == {"kind", "key_hex", "seq", "deleted"}
MetaNames      == {"kind", "origin", "timestamp_webkit_micros", "size", "seq", "deleted"}
DataNames      == {"kind", "origin", "key", "value", "value_encoding", "lossy", "value_raw_hex",
                   "seq", "deleted"}
NamespaceNames == {"kind", "guid", "host", "map_id", "seq", "deleted"}
MapNames       == {"kind", "map_id", "host", "key", "value", "value_encoding", "lossy",
                   "seq", "deleted"}

\* What is shown of a raw record.
LEMMA RawShown ==
    ASSUME NEW r, r.kind = "Raw"
    PROVE  /\ On(Shown(r), RawNames)
           /\ Shown(r)["origin_file"] = Str(r.origin_file)
           /\ Shown(r)["key_hex"] = Str(hex(r.key))
           /\ Shown(r)["value_hex"] = Str(hex(r.value))
           /\ Shown(r)["seq"] = Bare(Num(r.seq))
           /\ Shown(r)["deleted"] = Bare(Bool(r.deleted))
  BY DEF Shown, On, RawNames

\* What is shown of a record of a key that is not understood.
LEMMA OtherShown ==
    ASSUME NEW r, r.kind = "Other"
    PROVE  /\ On(Shown(r), OtherNames)
           /\ Shown(r)["kind"] = Str(<<"other">>)
           /\ Shown(r)["key_hex"] = Str(hex(r.key))
           /\ Shown(r)["seq"] = Bare(Num(r.seq))
           /\ Shown(r)["deleted"] = Bare(Bool(r.deleted))
  BY DEF Shown, On, OtherNames

\* What is shown of the metadata of an origin.
LEMMA MetaShown ==
    ASSUME NEW r, r.kind = "Meta"
    PROVE  /\ On(Shown(r), MetaNames)
           /\ Shown(r)["kind"] = Str(<<"meta">>)
           /\ Shown(r)["origin"] = Str(r.origin)
           /\ Shown(r)["timestamp_webkit_micros"] = Bare(Num(r.timestamp))
           /\ Shown(r)["size"] = IF r.size = {} THEN null
                                 ELSE Bare(Num(CHOOSE n \in r.size : TRUE))
           /\ Shown(r)["seq"] = Bare(Num(r.seq))
           /\ Shown(r)["deleted"] = Bare(Bool(r.deleted))
  BY DEF Shown, On, MetaNames

\* What is shown of a stored item of an origin.
LEMMA DataShown ==
    ASSUME NEW r, r.kind = "Data"
    PROVE  /\ On(Shown(r), DataNames)
           /\ Shown(r)["kind"] = Str(<<"data">>)
           /\ Shown(r)["origin"] = Str(r.origin)
           /\ Shown(r)["key"] = Str(r.script_key.text)
           /\ Shown(r)["value"] = Str(r.value.text)
           /\ Shown(r)["value_encoding"] = Str(encoding_str(r.value))
           /\ Shown(r)["lossy"] = Bare(Bool(r.value.lossy))
           /\ Shown(r)["value_raw_hex"] = Str(hex(r.value.raw))
           /\ Shown(r)["seq"] = Bare(Num(r.seq))
           /\ Shown(r)["deleted"] = Bare(Bool(r.deleted))
  BY DEF Shown, On, DataNames

\* What is shown of a namespace of a session.
LEMMA NamespaceShown ==
    ASSUME NEW r, r.kind = "Namespace"
    PROVE  /\ On(Shown(r), NamespaceNames)
           /\ Shown(r)["kind"] = Str(<<"namespace">>)
           /\ Shown(r)["guid"] = Str(r.guid)
           /\ Shown(r)["host"] = Str(r.host)
           /\ Shown(r)["map_id"] = Str(r.map_id)
           /\ Shown(r)["seq"] = Bare(Num(r.seq))
           /\ Shown(r)["deleted"] = Bare(Bool(r.deleted))
  BY DEF Shown, On, NamespaceNames

\* What is shown of a stored item of a session.
LEMMA MapShown ==
    ASSUME NEW r, r.kind = "Map"
    PROVE  /\ On(Shown(r), MapNames)
           /\ Shown(r)["kind"] = Str(<<"map">>)
           /\ Shown(r)["map_id"] = Str(r.map_id)
           /\ Shown(r)["host"] = IF r.host = {} THEN null ELSE Str(CHOOSE h \in r.host : TRUE)
           /\ Shown(r)["key"] = Str(r.script_key)
           /\ Shown(r)["value"] = Str(r.value.text)
           /\ Shown(r)["value_encoding"] = Str(encoding_str(r.value))
           /\ Shown(r)["lossy"] = Bare(Bool(r.value.lossy))
           /\ Shown(r)["seq"] = Bare(Num(r.seq))
           /\ Shown(r)["deleted"] = Bare(Bool(r.deleted))
  BY DEF Shown, On, MapNames

-----------------------------------------------------------------------------
(* Members.                                                                *)

\* A string may be the name of a member.
MemberName(name) == name \in Calm /\ name \notin {"\"", "\\"} /\ ~IsControl(name)

\* The names that the renderers write may be the names of members.
LEMMA AllNames ==
    /\ \A name \in RawNames : MemberName(name)
    /\ \A name \in MetaNames : MemberName(name)
    /\ \A name \in DataNames : MemberName(name)
    /\ \A name \in NamespaceNames : MemberName(name)
    /\ \A name \in MapNames : MemberName(name)
    /\ \A name \in OtherNames : MemberName(name)
  <1> DEFINE F == {"origin_file", "seq", "deleted", "key_hex", "value_hex"}
             L == {"kind", "origin", "key", "value", "value_encoding", "lossy",
                   "timestamp_webkit_micros", "size", "seq", "deleted"}
             S == {"kind", "guid", "host", "map_id", "key", "value", "value_encoding",
                   "lossy", "seq", "deleted"}
             V == {"value_raw_hex"}
             All == F \cup L \cup S \cup V
  <1>1. ASSUME NEW name \in All
        PROVE  name \in Calm /\ name \notin {"\"", "\\"}
    <2>1. F \cup V \subseteq Words /\ L \subseteq Words /\ S \subseteq Words
      BY DEF Words
    <2>2. name \in Words
      BY <2>1
    <2>3. name \notin {"\"", "\\"}
      OBVIOUS
    <2> HIDE DEF All
    <2> QED
      BY <2>2, <2>3, CalmWords
  <1>2. ASSUME NEW names, names \in {raw_header, local_header, session_header, <<"value_raw_hex">>},
               NEW k \in DOMAIN names
        PROVE  ~IsControl(names[k])
    BY <1>2, NameAssumption DEF Range
  <1>3. \A name \in F : \E k \in DOMAIN raw_header : raw_header[k] = name
    <2>1. /\ raw_header[1] = "origin_file" /\ raw_header[2] = "seq" /\ raw_header[3] = "deleted"
          /\ raw_header[4] = "key_hex" /\ raw_header[5] = "value_hex"
          /\ DOMAIN raw_header = 1..5
      BY DEF raw_header
    <2> QED
      BY <2>1
  <1>4. \A name \in L : \E k \in DOMAIN local_header : local_header[k] = name
    <2>1. /\ local_header[1] = "kind" /\ local_header[2] = "origin" /\ local_header[3] = "key"
          /\ local_header[4] = "value" /\ local_header[5] = "value_encoding"
          /\ local_header[6] = "lossy" /\ local_header[7] = "timestamp_webkit_micros"
          /\ local_header[8] = "size" /\ local_header[9] = "seq" /\ local_header[10] = "deleted"
          /\ DOMAIN local_header = 1..10
      BY DEF local_header
    <2> QED
      BY <2>1
  <1>5. \A name \in S : \E k \in DOMAIN session_header : session_header[k] = name
    <2>1. /\ session_header[1] = "kind" /\ session_header[2] = "guid" /\ session_header[3] = "host"
          /\ session_header[4] = "map_id" /\ session_header[5] = "key"
          /\ session_header[6] = "value" /\ session_header[7] = "value_encoding"
          /\ session_header[8] = "lossy" /\ session_header[9] = "seq"
          /\ session_header[10] = "deleted" /\ DOMAIN session_header = 1..10
      BY DEF session_header
    <2> QED
      BY <2>1
  <1>6. \A name \in V : \E k \in DOMAIN <<"value_raw_hex">> : <<"value_raw_hex">>[k] = name
    <2>1. DOMAIN <<"value_raw_hex">> = 1..1 /\ <<"value_raw_hex">>[1] = "value_raw_hex"
      OBVIOUS
    <2> QED
      BY <2>1
  <1>7. ASSUME NEW name \in All
        PROVE  ~IsControl(name)
    <2> HIDE DEF F, L, S, V
    <2>1. name \in F \/ name \in L \/ name \in S \/ name \in V
      BY <1>7
    <2> QED
      BY <1>2, <1>3, <1>4, <1>5, <1>6, <2>1, Zenon
  <1>8. ASSUME NEW name \in All
        PROVE  MemberName(name)
    BY <1>1, <1>7, Zenon DEF MemberName
  <1>9. /\ RawNames \subseteq All /\ MetaNames \subseteq All /\ DataNames \subseteq All
        /\ NamespaceNames \subseteq All /\ MapNames \subseteq All /\ OtherNames \subseteq All
    BY DEF RawNames, MetaNames, DataNames, NamespaceNames, MapNames, OtherNames
  <1> HIDE DEF All
  <1> QED
    BY <1>8, <1>9, Zenon

\* content is that of a member that shows what shown has under its name.
Fits(name, content, shown) == MemberName(name) /\ JsonAdds(content, <<shown[name]>>)

\* A member adds its name, a colon and what is shown under the name.
LEMMA FitsAdds ==
    ASSUME NEW name, NEW content, NEW shown, Fits(name, content, shown)
    PROVE  JsonAdds(Member(name, content), <<Str(<<name>>), Bare(<<":">>), shown[name]>>)
  BY AddsMember, Zenon DEF Fits, MemberName

\* One member.
LEMMA ReadsOne ==
    ASSUME NEW shown, NEW a, NEW s, Fits(a, s, shown)
    PROVE  ReadAs(<<Member(a, s)>>, {a}, shown)
  <1> DEFINE m == Member(a, s)
  <1>1. JsonAdds(m, <<Str(<<a>>), Bare(<<":">>), shown[a]>>)
    BY FitsAdds, Zenon
  <1>2. ReadAs(<<>>, {}, shown)
    BY ReadsNone, Zenon
  <1>3. a \notin {}
    OBVIOUS
  <1> HIDE DEF m
  <1>4. ReadAs(Append(<<>>, m), {} \cup {a}, shown)
    BY <1>1, <1>2, <1>3, ReadsMore, Zenon
  <1>5. {} \cup {a} = {a}
    OBVIOUS
  <1>6. Append(<<>>, m) = <<m>>
    BY AfterOne, Zenon
  <1> QED
    BY <1>4, <1>5, <1>6, Zenon DEF m

\* Two members.
LEMMA ReadsTwo ==
    ASSUME NEW shown, NEW a, NEW s, Fits(a, s, shown), NEW b, NEW t, Fits(b, t, shown), a # b
    PROVE  ReadAs(<<Member(a, s), Member(b, t)>>, {a, b}, shown)
  <1> DEFINE m == Member(a, s)
             n == Member(b, t)
  <1>1. JsonAdds(n, <<Str(<<b>>), Bare(<<":">>), shown[b]>>)
    BY FitsAdds, Zenon
  <1>2. ReadAs(<<m>>, {a}, shown)
    BY ReadsOne, Zenon
  <1>3. b \notin {a} /\ {a} \cup {b} = {a, b}
    OBVIOUS
  <1> HIDE DEF m, n
  <1>4. ReadAs(Append(<<m>>, n), {a} \cup {b}, shown)
    BY <1>1, <1>2, <1>3, ReadsMore, Zenon
  <1>5. Append(<<m>>, n) = <<m, n>>
    BY AfterOne, Zenon
  <1> QED
    BY <1>3, <1>4, <1>5, Zenon DEF m, n

\* Three members.
LEMMA ReadsThree ==
    ASSUME NEW shown, NEW a, NEW s, Fits(a, s, shown), NEW b, NEW t, Fits(b, t, shown),
           NEW c, NEW u, Fits(c, u, shown), a # b, a # c, b # c
    PROVE  ReadAs(<<Member(a, s), Member(b, t), Member(c, u)>>, {a, b, c}, shown)
  <1> DEFINE m == Member(a, s)
             n == Member(b, t)
             o == Member(c, u)
  <1>1. JsonAdds(o, <<Str(<<c>>), Bare(<<":">>), shown[c]>>)
    BY FitsAdds, Zenon
  <1>2. ReadAs(<<m, n>>, {a, b}, shown)
    BY ReadsTwo, Zenon
  <1>3. c \notin {a, b} /\ {a, b} \cup {c} = {a, b, c}
    OBVIOUS
  <1> HIDE DEF m, n, o
  <1>4. ReadAs(Append(<<m, n>>, o), {a, b} \cup {c}, shown)
    BY <1>1, <1>2, <1>3, ReadsMore, Zenon
  <1>5. Append(<<m, n>>, o) = <<m, n, o>>
    BY AfterTwo, Zenon
  <1> QED
    BY <1>3, <1>4, <1>5, Zenon DEF m, n, o

\* Four members.
LEMMA ReadsFour ==
    ASSUME NEW shown, NEW a, NEW s, Fits(a, s, shown), NEW b, NEW t, Fits(b, t, shown),
           NEW c, NEW u, Fits(c, u, shown), NEW d, NEW v, Fits(d, v, shown),
           a # b, a # c, b # c, d \notin {a, b, c}
    PROVE  ReadAs(<<Member(a, s), Member(b, t), Member(c, u), Member(d, v)>>, {a, b, c, d}, shown)
  <1> DEFINE m == Member(a, s)
             n == Member(b, t)
             o == Member(c, u)
             p == Member(d, v)
  <1>1. JsonAdds(p, <<Str(<<d>>), Bare(<<":">>), shown[d]>>)
    BY FitsAdds, Zenon
  <1>2. ReadAs(<<m, n, o>>, {a, b, c}, shown)
    BY ReadsThree, Zenon
  <1>3. {a, b, c} \cup {d} = {a, b, c, d}
    OBVIOUS
  <1> HIDE DEF m, n, o, p
  <1>4. ReadAs(Append(<<m, n, o>>, p), {a, b, c} \cup {d}, shown)
    BY <1>1, <1>2, ReadsMore, Zenon
  <1>5. Append(<<m, n, o>>, p) = <<m, n, o, p>>
    BY AfterThree, Zenon
  <1> QED
    BY <1>3, <1>4, <1>5, Zenon DEF m, n, o, p

\* A number is read as a bare word.
LEMMA AddsNum ==
    ASSUME NEW n \in Nat, ToString(n) \notin {"\n", "\r", "\""}
    PROVE  JsonAdds(Num(n), <<Bare(Num(n))>>)
  <1>1. ToString(n) \in Token
    BY Zenon DEF Token
  <1>2. ToString(n) \in Calm /\ ToString(n) # "\""
    BY <1>1 DEF Calm
  <1> QED
    BY <1>2, AddsBare, Zenon DEF Num

\* Yes or no is read as a bare word.
LEMMA AddsBool ==
    ASSUME NEW b \in BOOLEAN
    PROVE  JsonAdds(Bool(b), <<Bare(Bool(b))>>)
  <1> DEFINE t == IF b THEN "true" ELSE "false"
  <1>1. t \in Calm /\ t # "\""
    BY CalmWords DEF Words
  <1> HIDE DEF t
  <1>2. JsonAdds(<<t>>, <<Bare(<<t>>)>>)
    BY <1>1, AddsBare, Zenon
  <1>3. Bool(b) = <<t>>
    BY Zenon DEF Bool, t
  <1> QED
    BY <1>2, <1>3, Zenon

\* So is null.
LEMMA AddsNull == JsonAdds(<<"null">>, <<null>>)
  <1>1. "null" \in Calm /\ "null" # "\""
    BY CalmWords DEF Words
  <1> QED
    BY <1>1, AddsBare, Zenon DEF null

-----------------------------------------------------------------------------
(* The line of each kind of record, as JSON.                               *)

\* The numbers of r are nothing that a format takes for something else.
PlainNumbers(r) == \A n \in Numbers(r) : ToString(n) \notin {"\n", "\r", "\"", ",", "null"}

SequenceNames == {"seq", "deleted"}
ValueNames    == {"value", "value_encoding", "lossy"}

\* A string fits what is shown as that string.
LEMMA StringFits ==
    ASSUME NEW name, MemberName(name), NEW s \in Seq(Token), NEW shown, shown[name] = Str(s)
    PROVE  Fits(name, json_string(s), shown)
  BY AddsString, Zenon DEF Fits

\* The sequence number and the deletion mark.
LEMMA SequenceFits ==
    ASSUME NEW r, r.seq \in Nat, r.deleted \in BOOLEAN, PlainNumbers(r), NEW shown,
           shown["seq"] = Bare(Num(r.seq)), shown["deleted"] = Bare(Bool(r.deleted))
    PROVE  ReadAs(SeqMembers(r), SequenceNames, shown)
  <1>1. "seq" \in RawNames /\ "deleted" \in RawNames /\ "seq" # "deleted"
    BY DEF RawNames
  <1>2. ToString(r.seq) \notin {"\n", "\r", "\""}
    BY DEF PlainNumbers, Numbers
  <1>3. JsonAdds(Num(r.seq), <<shown["seq"]>>)
    BY <1>2, AddsNum, Zenon
  <1>4. JsonAdds(Bool(r.deleted), <<shown["deleted"]>>)
    BY AddsBool, Zenon
  <1>5. Fits("seq", Num(r.seq), shown) /\ Fits("deleted", Bool(r.deleted), shown)
    BY <1>1, <1>3, <1>4, AllNames, Zenon DEF Fits
  <1> QED
    BY <1>1, <1>5, ReadsTwo, Zenon DEF SeqMembers, SequenceNames

\* A stored text.
LEMMA ValueFits ==
    ASSUME NEW v \in StoredText, NEW shown,
           shown["value"] = Str(v.text), shown["value_encoding"] = Str(encoding_str(v)),
           shown["lossy"] = Bare(Bool(v.lossy))
    PROVE  ReadAs(ValueMembers(v), ValueNames, shown)
  <1>1. /\ "value" \in DataNames /\ "value_encoding" \in DataNames /\ "lossy" \in DataNames
        /\ "value" # "value_encoding" /\ "value" # "lossy" /\ "value_encoding" # "lossy"
    BY DEF DataNames
  <1>2. v.text \in Seq(Token) /\ v.lossy \in BOOLEAN
    BY StoredTextType DEF StoredText
  <1>3. encoding_str(v) \in Seq(Token)
    BY EncodingOver, Tokens
  <1>4. /\ Fits("value", json_string(v.text), shown)
        /\ Fits("value_encoding", json_string(encoding_str(v)), shown)
    BY <1>1, <1>2, <1>3, AllNames, StringFits, Zenon
  <1>5. Fits("lossy", Bool(v.lossy), shown)
    BY <1>1, <1>2, AddsBool, AllNames, Zenon DEF Fits
  <1> QED
    BY <1>1, <1>4, <1>5, ReadsThree, Zenon DEF ValueMembers, ValueNames

\* The object with the members parts is read as shown.
LEMMA WholeObject ==
    ASSUME NEW parts, NEW S, NEW shown, On(shown, S), NEW name \in S, ReadAs(parts, S, shown)
    PROVE  Readable(Object(parts), shown)
  <1>1. parts # <<>>
    <2>1. PICK names \in Seq(S) : Named(parts, names, S, shown)
      BY Zenon DEF ReadAs
    <2>2. PICK k \in 1..Len(parts) : names[k] = name
      BY <2>1, Zenon DEF Named
    <2>3. Len(<<>>) = 0
      OBVIOUS
    <2> QED
      BY <2>2, <2>3
  <1>2. shown = [x \in S |-> shown[x]]
    BY Zenon DEF On
  <1> QED
    BY <1>1, <1>2, ObjectReads, Zenon

\* The line of a raw record is read as what it shows.
LEMMA RawReads ==
    ASSUME NEW r \in RawRecord, PlainNumbers(r)
    PROVE  Readable(raw_jsonl(r), Shown(r))
  <1> DEFINE s == Shown(r)
  <1>1. /\ r.kind = "Raw" /\ r.origin_file \in Seq(Token) /\ r.key \in Bytes /\ r.value \in Bytes
        /\ r.seq \in Nat /\ r.deleted \in BOOLEAN
    BY TextIsTokens DEF RawRecord
  <1>2. /\ On(s, RawNames)
        /\ s["origin_file"] = Str(r.origin_file)
        /\ s["key_hex"] = Str(hex(r.key))
        /\ s["value_hex"] = Str(hex(r.value))
        /\ s["seq"] = Bare(Num(r.seq))
        /\ s["deleted"] = Bare(Bool(r.deleted))
    BY <1>1, RawShown, Zenon
  <1> HIDE DEF s
  <1>3. hex(r.key) \in Seq(Token) /\ hex(r.value) \in Seq(Token)
    BY <1>1, HexType
  <1>4. /\ "origin_file" \in RawNames /\ "key_hex" \in RawNames /\ "value_hex" \in RawNames
        /\ "key_hex" # "value_hex"
    BY DEF RawNames
  <1>5. /\ Fits("origin_file", json_string(r.origin_file), s)
        /\ Fits("key_hex", json_string(hex(r.key)), s)
        /\ Fits("value_hex", json_string(hex(r.value)), s)
    BY <1>1, <1>2, <1>3, <1>4, AllNames, StringFits, Zenon
  <1> DEFINE A == <<Member("origin_file", json_string(r.origin_file))>>
             B == SeqMembers(r)
             C == <<Member("key_hex", json_string(hex(r.key))),
                    Member("value_hex", json_string(hex(r.value)))>>
  <1>6. ReadAs(A, {"origin_file"}, s)
    BY <1>5, ReadsOne, Zenon
  <1>7. ReadAs(B, SequenceNames, s)
    BY <1>1, <1>2, SequenceFits, Zenon
  <1>8. ReadAs(C, {"key_hex", "value_hex"}, s)
    BY <1>4, <1>5, ReadsTwo, Zenon
  <1>9. raw_jsonl(r) = Object(A \o B \o C)
    BY Zenon DEF raw_jsonl
  <1> HIDE DEF A, B, C
  <1>10. /\ {"origin_file"} \cap SequenceNames = {}
         /\ ({"origin_file"} \cup SequenceNames) \cap {"key_hex", "value_hex"} = {}
         /\ ({"origin_file"} \cup SequenceNames) \cup {"key_hex", "value_hex"} = RawNames
    BY DEF SequenceNames, RawNames
  <1>11. ReadAs(A \o B, {"origin_file"} \cup SequenceNames, s)
    BY <1>6, <1>7, <1>10, ReadsBoth, Zenon
  <1>12. ReadAs((A \o B) \o C, RawNames, s)
    <2>1. ReadAs((A \o B) \o C, ({"origin_file"} \cup SequenceNames) \cup {"key_hex", "value_hex"}, s)
      BY <1>8, <1>10, <1>11, ReadsBoth, Zenon
    <2> QED
      BY <1>10, <2>1, Zenon
  <1>13. Readable(Object((A \o B) \o C), s)
    BY <1>2, <1>4, <1>12, WholeObject, Zenon
  <1> QED
    BY <1>9, <1>13, Zenon DEF s

\* So is that of a key that is not understood.
LEMMA OtherReads ==
    ASSUME NEW r \in OtherRecord, PlainNumbers(r)
    PROVE  Readable(other_jsonl(r), Shown(r))
  <1> DEFINE s == Shown(r)
             k == <<"other">>
  <1>1. /\ r.kind = "Other" /\ r.key \in Bytes /\ r.seq \in Nat /\ r.deleted \in BOOLEAN
    BY DEF OtherRecord
  <1>2. /\ On(s, OtherNames)
        /\ s["kind"] = Str(k)
        /\ s["key_hex"] = Str(hex(r.key))
        /\ s["seq"] = Bare(Num(r.seq))
        /\ s["deleted"] = Bare(Bool(r.deleted))
    BY <1>1, OtherShown, Zenon
  <1>3. hex(r.key) \in Seq(Token) /\ k \in Seq(Token)
    <2>1. "other" \in Token
      BY Tokens DEF Words
    <2>2. k \in Seq(Token)
      BY <2>1, Ones, Zenon
    <2> QED
      BY <1>1, <2>2, HexType
  <1> HIDE DEF s
  <1>4. "kind" \in OtherNames /\ "key_hex" \in OtherNames /\ "kind" # "key_hex"
    BY DEF OtherNames
  <1>5. Fits("kind", json_string(k), s) /\ Fits("key_hex", json_string(hex(r.key)), s)
    BY <1>2, <1>3, <1>4, AllNames, StringFits, Zenon
  <1> DEFINE A == <<Member("kind", json_string(k)), Member("key_hex", json_string(hex(r.key)))>>
             B == SeqMembers(r)
  <1>6. ReadAs(A, {"kind", "key_hex"}, s)
    BY <1>4, <1>5, ReadsTwo, Zenon
  <1>7. ReadAs(B, SequenceNames, s)
    BY <1>1, <1>2, SequenceFits, Zenon
  <1>8. other_jsonl(r) = Object(A \o B)
    BY Zenon DEF other_jsonl
  <1> HIDE DEF A, B
  <1>9. /\ {"kind", "key_hex"} \cap SequenceNames = {}
        /\ {"kind", "key_hex"} \cup SequenceNames = OtherNames
    BY DEF SequenceNames, OtherNames
  <1>10. ReadAs(A \o B, OtherNames, s)
    <2>1. ReadAs(A \o B, {"kind", "key_hex"} \cup SequenceNames, s)
      BY <1>6, <1>7, <1>9, ReadsBoth, Zenon
    <2> QED
      BY <1>9, <2>1, Zenon
  <1>11. Readable(Object(A \o B), s)
    BY <1>2, <1>4, <1>10, WholeObject, Zenon
  <1> QED
    BY <1>8, <1>11, Zenon DEF s

\* A word is a line.
LEMMA WordType == \A w \in Words : <<w>> \in Seq(Token)
  <1>1. ASSUME NEW w \in Words
        PROVE  <<w>> \in Seq(Token)
    <2>1. w \in Token
      BY Tokens
    <2> QED
      BY <2>1, Ones, Zenon
  <1> QED
    BY <1>1

\* An option is empty or has one element, which is what it shows.
LEMMA OptionIs ==
    ASSUME NEW X, NEW option \in Option(X), option # {}
    PROVE  \E x \in X : option = {x}
  BY DEF Option

\* The element of a set of one.
LEMMA OneOf ==
    ASSUME NEW x
    PROVE  (CHOOSE y \in {x} : TRUE) = x /\ {x} # {}
  OBVIOUS

\* What an option of one element, or an empty one, is mapped to.
LEMMA MapOrIs ==
    ASSUME NEW x, NEW none
    PROVE  MapOr({x}, none) = x /\ MapOr({}, none) = none
  BY OneOf, Zenon DEF MapOr

\* The line of the metadata of an origin is read as what it shows.
LEMMA MetaReads ==
    ASSUME NEW r \in MetaRecord, PlainNumbers(r)
    PROVE  Readable(local_jsonl(r), Shown(r))
  <1> DEFINE s == Shown(r)
             k == <<"meta">>
             n == MapOr(Nums(r.size), <<"null">>)
  <1>1. /\ r.kind = "Meta" /\ r.origin \in Seq(Token) /\ r.timestamp \in Nat
        /\ r.size \in Option(Nat) /\ r.seq \in Nat /\ r.deleted \in BOOLEAN
    BY TextIsTokens DEF MetaRecord
  <1>2. /\ On(s, MetaNames)
        /\ s["kind"] = Str(k)
        /\ s["origin"] = Str(r.origin)
        /\ s["timestamp_webkit_micros"] = Bare(Num(r.timestamp))
        /\ s["size"] = IF r.size = {} THEN null ELSE Bare(Num(CHOOSE x \in r.size : TRUE))
        /\ s["seq"] = Bare(Num(r.seq))
        /\ s["deleted"] = Bare(Bool(r.deleted))
    BY <1>1, MetaShown, Zenon
  <1>3. k \in Seq(Token)
    BY WordType DEF Words
  <1> HIDE DEF s
  <1>4. /\ "kind" \in MetaNames /\ "origin" \in MetaNames
        /\ "timestamp_webkit_micros" \in MetaNames /\ "size" \in MetaNames
        /\ "kind" # "origin" /\ "kind" # "timestamp_webkit_micros"
        /\ "origin" # "timestamp_webkit_micros"
        /\ "size" \notin {"kind", "origin", "timestamp_webkit_micros"}
    BY DEF MetaNames
  <1>5. Fits("kind", json_string(k), s) /\ Fits("origin", json_string(r.origin), s)
    BY <1>1, <1>2, <1>3, <1>4, AllNames, StringFits, Zenon
  <1>6. Fits("timestamp_webkit_micros", Num(r.timestamp), s)
    <2>1. ToString(r.timestamp) \notin {"\n", "\r", "\""}
      BY <1>1 DEF PlainNumbers, Numbers
    <2>2. JsonAdds(Num(r.timestamp), <<s["timestamp_webkit_micros"]>>)
      BY <1>1, <1>2, <2>1, AddsNum, Zenon
    <2> QED
      BY <1>4, <2>2, AllNames, Zenon DEF Fits
  <1>7. JsonAdds(n, <<s["size"]>>)
    <2>1. CASE r.size = {}
      <3>1. Nums(r.size) = {}
        BY <2>1 DEF Nums
      <3>2. n = <<"null">>
        BY <3>1, MapOrIs, Zenon
      <3> QED
        BY <1>2, <2>1, <3>2, AddsNull, Zenon
    <2>2. CASE r.size # {}
      <3>0. \E x \in Nat : r.size = {x}
        BY <1>1, <2>2, OptionIs
      <3>1. PICK x \in Nat : r.size = {x}
        BY <3>0
      <3>2. Nums(r.size) = {Num(x)}
        BY <3>1, Zenon DEF Nums
      <3>3. n = Num(x)
        BY <3>2, MapOrIs, Zenon
      <3>4. s["size"] = Bare(Num(x))
        BY <1>2, <2>2, <3>1, OneOf, Zenon
      <3>5. ToString(x) \notin {"\n", "\r", "\""}
        BY <1>1, <3>1 DEF PlainNumbers, Numbers
      <3> QED
        BY <3>3, <3>4, <3>5, AddsNum, Zenon
    <2> QED
      BY <2>1, <2>2
  <1>8. Fits("size", n, s)
    BY <1>4, <1>7, AllNames, Zenon DEF Fits
  <1> DEFINE A == <<Member("kind", json_string(k)), Member("origin", json_string(r.origin)),
                    Member("timestamp_webkit_micros", Num(r.timestamp)), Member("size", n)>>
             B == SeqMembers(r)
             T == {"kind", "origin", "timestamp_webkit_micros", "size"}
  <1>9. ReadAs(A, T, s)
    BY <1>4, <1>5, <1>6, <1>8, ReadsFour, Zenon
  <1>10. ReadAs(B, SequenceNames, s)
    BY <1>1, <1>2, SequenceFits, Zenon
  <1>11. local_jsonl(r) = Object(A \o B)
    BY <1>1 DEF local_jsonl
  <1>12. T \cap SequenceNames = {} /\ T \cup SequenceNames = MetaNames
    BY DEF SequenceNames, MetaNames
  <1> HIDE DEF A, B, T
  <1>13. ReadAs(A \o B, MetaNames, s)
    <2>1. ReadAs(A \o B, T \cup SequenceNames, s)
      BY <1>9, <1>10, <1>12, ReadsBoth, Zenon
    <2> QED
      BY <1>12, <2>1, Zenon
  <1>14. Readable(Object(A \o B), s)
    BY <1>2, <1>4, <1>13, WholeObject, Zenon
  <1> QED
    BY <1>11, <1>14, Zenon DEF s

\* So is that of a stored item of an origin.
LEMMA DataReads ==
    ASSUME NEW r \in DataRecord, PlainNumbers(r)
    PROVE  Readable(local_jsonl(r), Shown(r))
  <1> DEFINE s == Shown(r)
             k == <<"data">>
             v == r.value
             t == r.script_key.text
  <1>1. /\ r.kind = "Data" /\ r.origin \in Seq(Token) /\ v \in StoredText
        /\ r.script_key \in StoredText /\ r.seq \in Nat /\ r.deleted \in BOOLEAN
    BY TextIsTokens DEF DataRecord
  <1>2. /\ On(s, DataNames)
        /\ s["kind"] = Str(k)
        /\ s["origin"] = Str(r.origin)
        /\ s["key"] = Str(t)
        /\ s["value"] = Str(v.text)
        /\ s["value_encoding"] = Str(encoding_str(v))
        /\ s["lossy"] = Bare(Bool(v.lossy))
        /\ s["value_raw_hex"] = Str(hex(v.raw))
        /\ s["seq"] = Bare(Num(r.seq))
        /\ s["deleted"] = Bare(Bool(r.deleted))
    BY <1>1, DataShown, Zenon
  <1>3. k \in Seq(Token) /\ t \in Seq(Token) /\ hex(v.raw) \in Seq(Token)
    <2>1. k \in Seq(Token)
      BY WordType DEF Words
    <2>2. t \in Seq(Token) /\ hex(v.raw) \in Seq(Token)
      BY <1>1, StoredTextType, Zenon
    <2> QED
      BY <2>1, <2>2
  <1> HIDE DEF s
  <1>4. /\ "kind" \in DataNames /\ "origin" \in DataNames /\ "key" \in DataNames
        /\ "value_raw_hex" \in DataNames
        /\ "kind" # "origin" /\ "kind" # "key" /\ "origin" # "key"
    BY DEF DataNames
  <1>5. /\ Fits("kind", json_string(k), s) /\ Fits("origin", json_string(r.origin), s)
        /\ Fits("key", json_string(t), s)
        /\ Fits("value_raw_hex", json_string(hex(v.raw)), s)
    BY <1>1, <1>2, <1>3, <1>4, AllNames, StringFits, Zenon
  <1> DEFINE A == <<Member("kind", json_string(k)), Member("origin", json_string(r.origin)),
                    Member("key", json_string(t))>>
             B == ValueMembers(v)
             C == <<Member("value_raw_hex", json_string(hex(v.raw)))>>
             D == SeqMembers(r)
             S == {"kind", "origin", "key"}
             T == {"value_raw_hex"}
  <1>6. ReadAs(A, S, s)
    BY <1>4, <1>5, ReadsThree, Zenon
  <1>7. ReadAs(B, ValueNames, s)
    BY <1>1, <1>2, ValueFits, Zenon
  <1>8. ReadAs(C, T, s)
    BY <1>5, ReadsOne, Zenon
  <1>9. ReadAs(D, SequenceNames, s)
    BY <1>1, <1>2, SequenceFits, Zenon
  <1>10. local_jsonl(r) = Object(A \o B \o C \o D)
    BY <1>1 DEF local_jsonl
  <1>11. /\ S \cap ValueNames = {} /\ (S \cup ValueNames) \cap T = {}
         /\ ((S \cup ValueNames) \cup T) \cap SequenceNames = {}
         /\ ((S \cup ValueNames) \cup T) \cup SequenceNames = DataNames
    BY DEF SequenceNames, ValueNames, DataNames
  <1> HIDE DEF A, B, C, D, S, T
  <1>12. ReadAs(A \o B, S \cup ValueNames, s)
    BY <1>6, <1>7, <1>11, ReadsBoth, Zenon
  <1>13. ReadAs((A \o B) \o C, (S \cup ValueNames) \cup T, s)
    BY <1>8, <1>11, <1>12, ReadsBoth, Zenon
  <1>14. ReadAs(((A \o B) \o C) \o D, DataNames, s)
    <2>1. ReadAs(((A \o B) \o C) \o D, ((S \cup ValueNames) \cup T) \cup SequenceNames, s)
      BY <1>9, <1>11, <1>13, ReadsBoth, Zenon
    <2> QED
      BY <1>11, <2>1, Zenon
  <1>15. Readable(Object(((A \o B) \o C) \o D), s)
    BY <1>2, <1>4, <1>14, WholeObject, Zenon
  <1> QED
    BY <1>10, <1>15, Zenon DEF s

\* So is that of a namespace of a session.
LEMMA NamespaceReads ==
    ASSUME NEW r \in NamespaceRecord, PlainNumbers(r)
    PROVE  Readable(session_jsonl(r), Shown(r))
  <1> DEFINE s == Shown(r)
             k == <<"namespace">>
  <1>1. /\ r.kind = "Namespace" /\ r.guid \in Seq(Token) /\ r.host \in Seq(Token)
        /\ r.map_id \in Seq(Token) /\ r.seq \in Nat /\ r.deleted \in BOOLEAN
    BY TextIsTokens DEF NamespaceRecord
  <1>2. /\ On(s, NamespaceNames)
        /\ s["kind"] = Str(k)
        /\ s["guid"] = Str(r.guid)
        /\ s["host"] = Str(r.host)
        /\ s["map_id"] = Str(r.map_id)
        /\ s["seq"] = Bare(Num(r.seq))
        /\ s["deleted"] = Bare(Bool(r.deleted))
    BY <1>1, NamespaceShown, Zenon
  <1>3. k \in Seq(Token)
    BY WordType DEF Words
  <1> HIDE DEF s
  <1>4. /\ "kind" \in NamespaceNames /\ "guid" \in NamespaceNames
        /\ "host" \in NamespaceNames /\ "map_id" \in NamespaceNames
        /\ "kind" # "guid" /\ "kind" # "host" /\ "guid" # "host"
        /\ "map_id" \notin {"kind", "guid", "host"}
    BY DEF NamespaceNames
  <1>5. /\ Fits("kind", json_string(k), s) /\ Fits("guid", json_string(r.guid), s)
        /\ Fits("host", json_string(r.host), s) /\ Fits("map_id", json_string(r.map_id), s)
    BY <1>1, <1>2, <1>3, <1>4, AllNames, StringFits, Zenon
  <1> DEFINE A == <<Member("kind", json_string(k)), Member("guid", json_string(r.guid)),
                    Member("host", json_string(r.host)), Member("map_id", json_string(r.map_id))>>
             B == SeqMembers(r)
             T == {"kind", "guid", "host", "map_id"}
  <1>6. ReadAs(A, T, s)
    BY <1>4, <1>5, ReadsFour, Zenon
  <1>7. ReadAs(B, SequenceNames, s)
    BY <1>1, <1>2, SequenceFits, Zenon
  <1>8. session_jsonl(r) = Object(A \o B)
    BY <1>1 DEF session_jsonl
  <1>9. T \cap SequenceNames = {} /\ T \cup SequenceNames = NamespaceNames
    BY DEF SequenceNames, NamespaceNames
  <1> HIDE DEF A, B, T
  <1>10. ReadAs(A \o B, NamespaceNames, s)
    <2>1. ReadAs(A \o B, T \cup SequenceNames, s)
      BY <1>6, <1>7, <1>9, ReadsBoth, Zenon
    <2> QED
      BY <1>9, <2>1, Zenon
  <1>11. Readable(Object(A \o B), s)
    BY <1>2, <1>4, <1>10, WholeObject, Zenon
  <1> QED
    BY <1>8, <1>11, Zenon DEF s

\* So is that of a stored item of a session.
LEMMA MapReads ==
    ASSUME NEW r \in MapRecord, PlainNumbers(r)
    PROVE  Readable(session_jsonl(r), Shown(r))
  <1> DEFINE s == Shown(r)
             k == <<"map">>
             v == r.value
             h == MapOr({json_string(x) : x \in r.host}, <<"null">>)
  <1>1. /\ r.kind = "Map" /\ r.map_id \in Seq(Token) /\ r.host \in Option(Text)
        /\ r.script_key \in Seq(Token) /\ v \in StoredText
        /\ r.seq \in Nat /\ r.deleted \in BOOLEAN
    BY TextIsTokens DEF MapRecord
  <1>2. /\ On(s, MapNames)
        /\ s["kind"] = Str(k)
        /\ s["map_id"] = Str(r.map_id)
        /\ s["host"] = IF r.host = {} THEN null ELSE Str(CHOOSE x \in r.host : TRUE)
        /\ s["key"] = Str(r.script_key)
        /\ s["value"] = Str(v.text)
        /\ s["value_encoding"] = Str(encoding_str(v))
        /\ s["lossy"] = Bare(Bool(v.lossy))
        /\ s["seq"] = Bare(Num(r.seq))
        /\ s["deleted"] = Bare(Bool(r.deleted))
    BY <1>1, MapShown, Zenon
  <1>3. k \in Seq(Token)
    BY WordType DEF Words
  <1> HIDE DEF s
  <1>4. /\ "kind" \in MapNames /\ "map_id" \in MapNames
        /\ "host" \in MapNames /\ "key" \in MapNames
        /\ "kind" # "map_id" /\ "kind" # "host" /\ "map_id" # "host"
        /\ "key" \notin {"kind", "map_id", "host"}
    BY DEF MapNames
  <1>5. /\ Fits("kind", json_string(k), s) /\ Fits("map_id", json_string(r.map_id), s)
        /\ Fits("key", json_string(r.script_key), s)
    BY <1>1, <1>2, <1>3, <1>4, AllNames, StringFits, Zenon
  <1>6. JsonAdds(h, <<s["host"]>>)
    <2>1. CASE r.host = {}
      <3>1. {json_string(x) : x \in r.host} = {}
        BY <2>1
      <3>2. h = <<"null">>
        BY <3>1, MapOrIs, Zenon
      <3> QED
        BY <1>2, <2>1, <3>2, AddsNull, Zenon
    <2>2. CASE r.host # {}
      <3>1. PICK x \in Text : r.host = {x}
        <4>1. r.host \in Option(Text) /\ r.host # {}
          BY <1>1, <2>2
        <4> QED
          BY <4>1, OptionIs
      <3>2. {json_string(y) : y \in r.host} = {json_string(x)}
        BY <3>1, Zenon
      <3>3. h = json_string(x)
        BY <3>2, MapOrIs, Zenon
      <3>4. s["host"] = Str(x)
        BY <1>2, <2>2, <3>1, OneOf, Zenon
      <3>5. x \in Seq(Token)
        BY TextIsTokens
      <3> QED
        BY <3>3, <3>4, <3>5, AddsString, Zenon
    <2> QED
      BY <2>1, <2>2
  <1>7. Fits("host", h, s)
    BY <1>4, <1>6, AllNames, Zenon DEF Fits
  <1> DEFINE A == <<Member("kind", json_string(k)), Member("map_id", json_string(r.map_id)),
                    Member("host", h), Member("key", json_string(r.script_key))>>
             B == ValueMembers(v)
             D == SeqMembers(r)
             S == {"kind", "map_id", "host", "key"}
  <1>8. ReadAs(A, S, s)
    BY <1>4, <1>5, <1>7, ReadsFour, Zenon
  <1>9. ReadAs(B, ValueNames, s)
    BY <1>1, <1>2, ValueFits, Zenon
  <1>10. ReadAs(D, SequenceNames, s)
    BY <1>1, <1>2, SequenceFits, Zenon
  <1>11. session_jsonl(r) = Object(A \o B \o D)
    BY <1>1 DEF session_jsonl
  <1>12. /\ S \cap ValueNames = {} /\ (S \cup ValueNames) \cap SequenceNames = {}
         /\ (S \cup ValueNames) \cup SequenceNames = MapNames
    BY DEF SequenceNames, ValueNames, MapNames
  <1> HIDE DEF A, B, D, S
  <1>13. ReadAs(A \o B, S \cup ValueNames, s)
    BY <1>8, <1>9, <1>12, ReadsBoth, Zenon
  <1>14. ReadAs((A \o B) \o D, MapNames, s)
    <2>1. ReadAs((A \o B) \o D, (S \cup ValueNames) \cup SequenceNames, s)
      BY <1>10, <1>12, <1>13, ReadsBoth, Zenon
    <2> QED
      BY <1>12, <2>1, Zenon
  <1>15. Readable(Object((A \o B) \o D), s)
    BY <1>2, <1>4, <1>14, WholeObject, Zenon
  <1> QED
    BY <1>11, <1>15, Zenon DEF s

\* In a jsonl dump, the line of every record is read as what it shows.
LEMMA RecordReads ==
    ASSUME mode \in Modes, format = "Jsonl", NEW r \in Record(mode), PlainNumbers(r)
    PROVE  Readable(render(r), Shown(r))
  <1>1. CASE mode = "Raw"
    <2>1. r \in RawRecord /\ render(r) = raw_jsonl(r)
      BY <1>1 DEF Record, render
    <2> QED
      BY <2>1, RawReads, Zenon
  <1>2. CASE mode = "Local"
    <2>1. /\ r \in MetaRecord \/ r \in DataRecord \/ r \in OtherRecord
          /\ render(r) = local_jsonl(r)
      BY <1>2 DEF Record, render
    <2>2. CASE r \in OtherRecord
      <3>1. r.kind = "Other"
        BY <2>2 DEF OtherRecord
      <3>2. local_jsonl(r) = other_jsonl(r)
        BY <3>1 DEF local_jsonl
      <3> QED
        BY <2>1, <2>2, <3>2, OtherReads, Zenon
    <2> QED
      BY <2>1, <2>2, MetaReads, DataReads, Zenon
  <1>3. CASE mode = "Session"
    <2>1. /\ r \in NamespaceRecord \/ r \in MapRecord \/ r \in OtherRecord
          /\ render(r) = session_jsonl(r)
      BY <1>3 DEF Record, render
    <2>2. CASE r \in OtherRecord
      <3>1. r.kind = "Other"
        BY <2>2 DEF OtherRecord
      <3>2. session_jsonl(r) = other_jsonl(r)
        BY <3>1 DEF session_jsonl
      <3> QED
        BY <2>1, <2>2, <3>2, OtherReads, Zenon
    <2> QED
      BY <2>1, <2>2, NamespaceReads, MapReads, Zenon
  <1> QED
    BY <1>1, <1>2, <1>3 DEF Modes

-----------------------------------------------------------------------------
(* The whole dump, as JSON lines.                                          *)

\* A part of a line that is not all of it ends no line.
LEMMA CutEndsNothing ==
    ASSUME CalmDump, NEW n \in 1..Len(records), NEW cut \in Cuts(Len(Line(n))),
           NEW out, out = Written(n) \o SubSeq(Line(n), 1, cut)
    PROVE  out \in Seq(Token) /\ Begins(Written(n), out) /\ Ends(out) = Ends(Written(n))
  <1> DEFINE row  == render(records[n])
             line == Line(n)
             part == SubSeq(line, 1, cut)
             w    == Written(n)
  <1>1. w \in Seq(Token) /\ row \in Seq(Calm) /\ n # 0
    BY CalmNext
  <1>2. line = row \o <<"\n">>
    BY <1>1, Zenon DEF Line, HEADER
  <1>3. row \in Seq(Token) /\ <<"\n">> \in Seq(Token) /\ Len(<<"\n">>) = 1
    <2>1. "\n" \in Token
      BY Zenon DEF Token
    <2>2. <<"\n">> \in Seq(Token)
      BY <2>1, Ones, Zenon
    <2>3. Len(<<"\n">>) = 1
      OBVIOUS
    <2> QED
      BY <1>1, <2>2, <2>3, CalmIsToken
  <1> HIDE DEF row
  <1>4. /\ line \in Seq(Token) /\ Len(line) = Len(row) + 1 /\ Len(row) \in Nat
        /\ \A k \in 1..Len(row) : line[k] = row[k]
    <2> DEFINE nl == <<"\n">>
    <2>1. row \in Seq(Token) /\ nl \in Seq(Token) /\ Len(nl) = 1
      BY <1>3
    <2> HIDE DEF nl
    <2>2. /\ row \o nl \in Seq(Token) /\ Len(row \o nl) = Len(row) + Len(nl) /\ Len(row) \in Nat
          /\ \A k \in 1..Len(row) : (row \o nl)[k] = row[k]
      BY <2>1, ConcatFacts
    <2>3. line = row \o nl
      BY <1>2, Zenon DEF nl
    <2> QED
      BY <2>1, <2>2, <2>3
  <1> HIDE DEF line
  <1>5. cut \in 0..Len(row) /\ cut <= Len(line) /\ cut \in Nat
    <2>1. cut \in 0..Len(line) - 1
      BY DEF Cuts, line
    <2> QED
      BY <1>4, <2>1
  <1>6. /\ part \in Seq(Token) /\ Len(part) = cut
        /\ \A k \in 1..cut : part[k] = line[k]
    BY <1>4, <1>5, SubSeqProperties, PartType
  <1> HIDE DEF part, w
  <1>7. /\ out \in Seq(Token) /\ Len(out) = Len(w) + Len(part) /\ Len(w) \in Nat
        /\ \A k \in 1..Len(w) : out[k] = w[k]
        /\ \A k \in 1..Len(part) : out[Len(w) + k] = part[k]
    <2>1. w \in Seq(Token) /\ part \in Seq(Token)
      BY <1>1, <1>6
    <2>2. out = w \o part
      BY Zenon DEF w, part, line
    <2>3. /\ w \o part \in Seq(Token) /\ Len(w \o part) = Len(w) + Len(part) /\ Len(w) \in Nat
          /\ \A k \in 1..Len(w) : (w \o part)[k] = w[k]
          /\ \A k \in 1..Len(part) : (w \o part)[Len(w) + k] = part[k]
      BY <2>1, ConcatFacts
    <2> QED
      BY <2>2, <2>3, Zenon
  <1>8. Begins(w, out)
    BY <1>5, <1>6, <1>7 DEF Begins
  <1>9. ASSUME NEW k \in 1..Len(part)
        PROVE  out[Len(w) + k] # "\n"
    <2>1. k \in 1..Len(row) /\ k \in 1..cut
      BY <1>4, <1>5, <1>6
    <2>2. row[k] \in Calm
      BY <1>1, <2>1, ElementOfSeq
    <2>3. out[Len(w) + k] = row[k]
      BY <1>4, <1>6, <1>7, <2>1
    <2> QED
      BY <2>2, <2>3 DEF Calm
  <1>10. DOMAIN out = 1..Len(out) /\ DOMAIN w = 1..Len(w)
    BY <1>1, <1>7
  <1>11. Ends(out) = Ends(w)
    <2>1. ASSUME NEW k \in 1..Len(out), k \notin 1..Len(w)
          PROVE  out[k] # "\n"
      <3> DEFINE j == k - Len(w)
      <3>1. j \in 1..Len(part) /\ Len(w) + j = k
        BY <1>5, <1>6, <1>7, <2>1
      <3> HIDE DEF j
      <3> QED
        BY <1>9, <3>1
    <2>2. \A k \in 1..Len(w) : k \in 1..Len(out)
      BY <1>5, <1>6, <1>7
    <2>3. \A k : k \in Ends(out) <=> k \in Ends(w)
      BY <1>7, <1>10, <2>1, <2>2 DEF Ends
    <2> QED
      BY <2>3
  <1> QED
    BY <1>7, <1>8, <1>11 DEF w

\* Every record is rendered as a line that is read as what it shows.
LEMMA AllReadable ==
    ASSUME TypeOK, FromDecoded, format = "Jsonl", NEW k \in DOMAIN records
    PROVE  Readable(render(records[k]), Shown(records[k]))
  <1>1. mode \in Modes /\ records[k] \in Record(mode)
    BY ElementOfSeq DEF TypeOK
  <1>2. PlainNumbers(records[k])
    <2>1. records # <<>>
      BY DEF TypeOK
    <2>2. mode \in {"Raw", "Local", "Session"} /\ records \in Decoded[mode]
      BY <1>1, <2>1 DEF FromDecoded, Modes
    <2> QED
      BY <2>2, NumberAssumption DEF PlainNumbers
  <1> QED
    BY <1>1, <1>2, RecordReads, Zenon

\* The whole lines of such an output are read as what the records show.
LEMMA LinesReadBack ==
    ASSUME CalmDump, NEW n \in 1..Len(records) + 1, NEW out \in Seq(Token),
           Begins(Written(n), out), Ends(out) = Ends(Written(n)),
           \A k \in DOMAIN records : Readable(render(records[k]), Shown(records[k]))
    PROVE  /\ \A k \in DOMAIN WholeLines(out) : ReadObject(WholeLines(out)[k]) = {Shown(records[k])}
           /\ n = Len(records) + 1 => Len(WholeLines(out)) = Len(records)
  <1> DEFINE N     == n - 1
             lines == WholeLines(out)
  <1>1. lines = [k \in 1..N |-> render(records[k])]
    BY CalmLines
  <1>2. Len(records) \in Nat /\ DOMAIN records = 1..Len(records)
    BY DEF CalmDump, TypeOK
  <1>3. N \in Nat /\ \A k \in 1..N : k \in DOMAIN records
    BY <1>2
  <1> HIDE DEF N, lines
  <1>4. DOMAIN lines = 1..N /\ \A k \in 1..N : lines[k] = render(records[k])
    BY <1>1
  <1>5. \A k \in DOMAIN lines : ReadObject(lines[k]) = {Shown(records[k])}
    BY <1>3, <1>4, Zenon DEF Readable
  <1>6. Len(lines) = N
    BY <1>1, <1>3
  <1>7. n = Len(records) + 1 => N = Len(records)
    BY <1>2 DEF N
  <1> QED
    BY <1>5, <1>6, <1>7, Zenon DEF lines

\* Whatever characters the strings of the records hold, and wherever a write
\* fails, a parser reads in every whole line of a jsonl dump what its record
\* shows and nothing else (render.rs:4-5, 169-225).
THEOREM JsonlReadsBack == Spec => []JsonlComesBack
  <1>1. ASSUME Inv, FromDecoded
        PROVE  JsonlComesBack
    <2> SUFFICES ASSUME format = "Jsonl"
                 PROVE  /\ \A k \in DOMAIN WholeLines(output) :
                               ReadObject(WholeLines(output)[k]) = {Shown(records[k])}
                        /\ exit = "success" => Len(WholeLines(output)) = Len(records)
      BY Zenon DEF JsonlComesBack
    <2>1. TypeOK /\ LinesWritten /\ FirstLine = 1
      BY <1>1 DEF Inv, FirstLine
    <2>2. \A k \in DOMAIN records : Readable(render(records[k]), Shown(records[k]))
      BY <1>1, <2>1, AllReadable
    <2>3. CalmDump
      <3>1. \A k \in DOMAIN records : render(records[k]) \in Seq(Calm)
        BY <2>2, Zenon DEF Readable
      <3> QED
        BY <2>1, <3>1 DEF CalmDump
    <2>4. Len(records) \in Nat /\ Places = 1..Len(records) + 1
      BY <2>1 DEF TypeOK, Places
    <2> DEFINE Reaches(n) == /\ n \in 1..Len(records) + 1 /\ output \in Seq(Token)
                             /\ Begins(Written(n), output) /\ Ends(output) = Ends(Written(n))
    <2>5. ASSUME NEW n, Reaches(n), exit = "success" => n = Len(records) + 1
          PROVE  /\ \A k \in DOMAIN WholeLines(output) :
                        ReadObject(WholeLines(output)[k]) = {Shown(records[k])}
                 /\ exit = "success" => Len(WholeLines(output)) = Len(records)
      BY <2>2, <2>3, <2>5, LinesReadBack, Zenon
    <2>6. ASSUME NEW n \in 1..Len(records) + 1, output = Written(n)
          PROVE  Reaches(n)
      <3>1. Written(n) \in Seq(Token)
        BY <2>1, <2>4, WrittenType
      <3>2. Begins(Written(n), Written(n))
        <4>1. Len(Written(n)) \in Nat
          BY <3>1, LenProperties
        <4> QED
          BY <4>1 DEF Begins
      <3> QED
        BY <2>6, <3>1, <3>2
    <2> HIDE DEF Reaches
    <2>7. CASE next = READING
      <3>1. output = <<>> /\ exit # "success" /\ Written(1) = <<>>
        BY <2>1, <2>7, WrittenNothing DEF LinesWritten
      <3>2. 1 \in 1..Len(records) + 1
        BY <2>4
      <3> QED
        BY <2>5, <2>6, <3>1, <3>2
    <2>8. CASE next # READING /\ exit # "failure"
      <3>1. next \in 1..Len(records) + 1 /\ output = Written(next)
        BY <2>1, <2>4, <2>8 DEF LinesWritten
      <3>2. exit = "success" => next = Len(records) + 1
        BY <2>1 DEF TypeOK
      <3> QED
        BY <2>5, <2>6, <3>1, <3>2
    <2>9. CASE next # READING /\ exit = "failure"
      <3>1. next \in 1..Len(records)
        BY <2>1, <2>4, <2>9 DEF LinesWritten
      <3>2. PICK cut \in Cuts(Len(Line(next))) : output = Written(next) \o SubSeq(Line(next), 1, cut)
        BY <2>1, <2>9 DEF LinesWritten
      <3>3. /\ output \in Seq(Token) /\ Begins(Written(next), output)
            /\ Ends(output) = Ends(Written(next))
        BY <2>3, <3>1, <3>2, CutEndsNothing
      <3>4. Reaches(next)
        BY <2>4, <3>1, <3>3 DEF Reaches
      <3>5. exit # "success"
        BY <2>9
      <3> QED
        BY <2>5, <3>4, <3>5
    <2> QED
      BY <2>7, <2>8, <2>9
  <1> QED
    BY <1>1, Invariance, DecodedHolds, PTL

-----------------------------------------------------------------------------
(* The CSV parser, token by token.                                         *)

\* From state p the parser comes to state q when it takes the tokens of s.
CsvRun(p, s, q) == \E f : /\ f[0] = p /\ f[Len(s)] = q
                          /\ \A k \in 1..Len(s) : f[k] = CsvStep(f[k - 1], s[k])

\* One run after another.
LEMMA CsvRuns ==
    ASSUME NEW X, NEW s \in Seq(X), NEW t \in Seq(X), NEW p, NEW q, NEW r,
           CsvRun(p, s, q), CsvRun(q, t, r)
    PROVE  CsvRun(p, s \o t, r)
  <1>1. PICK f : f[0] = p /\ f[Len(s)] = q /\ \A k \in 1..Len(s) : f[k] = CsvStep(f[k - 1], s[k])
    BY Zenon DEF CsvRun
  <1>2. PICK g : g[0] = q /\ g[Len(t)] = r /\ \A k \in 1..Len(t) : g[k] = CsvStep(g[k - 1], t[k])
    BY Zenon DEF CsvRun
  <1>3. f[Len(s)] = g[0]
    BY <1>1, <1>2
  <1>4. PICK h : GluedTo(s, t, f, g, h)
    BY <1>3, Glued
  <1>5. ASSUME NEW k \in 1..Len(s \o t)
        PROVE  h[k] = CsvStep(h[k - 1], (s \o t)[k])
    BY <1>1, <1>2, <1>4, Zenon DEF GluedTo
  <1>6. h[0] = p /\ h[Len(s \o t)] = r
    BY <1>1, <1>2, <1>4 DEF GluedTo
  <1> QED
    BY <1>5, <1>6, Zenon DEF CsvRun

\* A run over nothing, and over one token.
LEMMA CsvRunOne ==
    ASSUME NEW p, NEW c
    PROVE  CsvRun(p, <<>>, p) /\ CsvRun(p, <<c>>, CsvStep(p, c))
  <1>1. CsvRun(p, <<>>, p)
    <2> DEFINE f == [k \in 0..0 |-> p]
    <2>1. f[0] = p /\ Len(<<>>) = 0
      OBVIOUS
    <2> HIDE DEF f
    <2> QED
      BY <2>1 DEF CsvRun
  <1>2. CsvRun(p, <<c>>, CsvStep(p, c))
    <2> DEFINE q == CsvStep(p, c)
    <2> HIDE DEF q
    <2> DEFINE f == [k \in 0..1 |-> IF k = 0 THEN p ELSE q]
    <2>1. f[0] = p /\ f[1] = q
      OBVIOUS
    <2>2. Len(<<c>>) = 1 /\ <<c>>[1] = c
      OBVIOUS
    <2> HIDE DEF f
    <2>3. \A k \in 1..Len(<<c>>) : f[k] = CsvStep(f[k - 1], <<c>>[k])
      <3> SUFFICES ASSUME NEW k \in 1..Len(<<c>>)
                   PROVE  f[k] = CsvStep(f[k - 1], <<c>>[k])
        OBVIOUS
      <3>1. k = 1 /\ k - 1 = 0
        BY <2>2
      <3> QED
        BY <2>1, <2>2, <3>1, Zenon DEF q
    <2> QED
      BY <2>1, <2>2, <2>3, Zenon DEF CsvRun, q
  <1> QED
    BY <1>1, <1>2

\* The parser comes to one state, which is that of Parse.
LEMMA CsvParse ==
    ASSUME NEW s, Len(s) \in Nat, NEW q, CsvRun(CsvStart, s, q)
    PROVE  Parse(CsvStep, CsvStart, s) = q
  <1> DEFINE n == Len(s)
             after == CHOOSE a : a = [k \in 0..n |-> IF k = 0 THEN CsvStart
                                                     ELSE CsvStep(a[k - 1], s[k])]
  <1>1. Parse(CsvStep, CsvStart, s) = after[n]
    BY Zenon DEF Parse
  <1>2. PICK f : /\ f[0] = CsvStart /\ f[n] = q
                 /\ \A k \in 1..n : f[k] = CsvStep(f[k - 1], s[k])
    BY Zenon DEF CsvRun
  <1> DEFINE g == [k \in 0..n |-> f[k]]
  <1>3. g = [k \in 0..n |-> IF k = 0 THEN CsvStart ELSE CsvStep(g[k - 1], s[k])]
    <2> SUFFICES ASSUME NEW k \in 0..n
                 PROVE  f[k] = IF k = 0 THEN CsvStart ELSE CsvStep(g[k - 1], s[k])
      BY Zenon
    <2>1. CASE k = 0
      BY <1>2, <2>1
    <2>2. CASE k # 0
      <3>1. k \in 1..n /\ k - 1 \in 0..n
        BY <2>2
      <3>2. g[k - 1] = f[k - 1]
        BY <3>1
      <3> QED
        BY <1>2, <2>2, <3>1, <3>2, Zenon
    <2> QED
      BY <2>1, <2>2
  <1> HIDE DEF g
  <1>4. after = [k \in 0..n |-> IF k = 0 THEN CsvStart ELSE CsvStep(after[k - 1], s[k])]
    BY <1>3, Zenon
  <1> HIDE DEF after
  <1> DEFINE S == {k \in Nat : k <= n => after[k] = f[k]}
  <1>5. 0 \in S
    BY <1>2, <1>4, SMT
  <1>6. ASSUME NEW k \in Nat, k \in S
        PROVE  k + 1 \in S
    <2> SUFFICES ASSUME k + 1 <= n
                 PROVE  after[k + 1] = f[k + 1]
      OBVIOUS
    <2>1. k + 1 \in 0..n /\ k + 1 \in 1..n /\ k + 1 # 0 /\ (k + 1) - 1 = k /\ k <= n
      OBVIOUS
    <2>2. after[k + 1] = CsvStep(after[(k + 1) - 1], s[k + 1])
      <3> DEFINE e == [j \in 0..n |-> IF j = 0 THEN CsvStart ELSE CsvStep(after[j - 1], s[j])]
      <3>1. e[k + 1] = CsvStep(after[(k + 1) - 1], s[k + 1])
        BY <2>1, Zenon
      <3> HIDE DEF e
      <3>2. after = e
        BY <1>4, Zenon DEF e
      <3> QED
        BY <3>1, <3>2
    <2>3. f[k + 1] = CsvStep(f[(k + 1) - 1], s[k + 1])
      BY <1>2, <2>1, Zenon
    <2>4. after[k] = f[k]
      BY <1>6, <2>1
    <2> QED
      BY <2>1, <2>2, <2>3, <2>4
  <1> HIDE DEF S
  <1>7. n \in S
    BY <1>5, <1>6, InductionOnSet
  <1> QED
    BY <1>1, <1>2, <1>7 DEF S

\* A token more.
LEMMA CsvRunMore ==
    ASSUME NEW X, NEW s \in Seq(X), NEW c \in X, NEW p, NEW q, CsvRun(p, s, q)
    PROVE  CsvRun(p, Append(s, c), CsvStep(q, c))
  <1>1. CsvRun(q, <<c>>, CsvStep(q, c))
    BY CsvRunOne
  <1>2. <<c>> \in Seq(X) /\ Append(s, c) = s \o <<c>>
    OBVIOUS
  <1> QED
    BY <1>1, <1>2, CsvRuns

-----------------------------------------------------------------------------
(* What the parser makes of one token.                                     *)

CsvAt(at, cell, row, rows) == [at |-> at, cell |-> cell, row |-> row, rows |-> rows]

\* Where a cell can end.
CellEnds == {"start", "plain", "quote"}

\* What a cell without quotes does not hold.
Special == {",", "\"", "\n", "\r"}

\* A cell without quotes.
LEMMA StepPlain ==
    ASSUME NEW at \in {"start", "plain"}, NEW cell, NEW row, NEW rows, NEW c, c \notin Special
    PROVE  CsvStep(CsvAt(at, cell, row, rows), c) = CsvAt("plain", Append(cell, c), row, rows)
  <1> DEFINE more == Append(cell, c)
  <1>1. CsvStep(CsvAt(at, cell, row, rows), c) = CsvAt("plain", more, row, rows)
    BY DEF CsvStep, CsvAt, AddChar, Special
  <1> QED
    BY <1>1

\* A quoted cell begins with a quote.
LEMMA StepOpens ==
    ASSUME NEW cell, NEW row, NEW rows
    PROVE  CsvStep(CsvAt("start", cell, row, rows), "\"") = CsvAt("quoted", cell, row, rows)
  BY DEF CsvStep, CsvAt

\* It holds the tokens that are no quotes.
LEMMA StepQuoted ==
    ASSUME NEW cell, NEW row, NEW rows, NEW c, c # "\""
    PROVE  CsvStep(CsvAt("quoted", cell, row, rows), c) = CsvAt("quoted", Append(cell, c), row, rows)
  <1> DEFINE more == Append(cell, c)
  <1>1. CsvStep(CsvAt("quoted", cell, row, rows), c) = CsvAt("quoted", more, row, rows)
    BY DEF CsvStep, CsvAt, AddChar
  <1> QED
    BY <1>1

\* A quote in a quoted cell ends it, unless another follows.
LEMMA StepQuote ==
    ASSUME NEW cell, NEW row, NEW rows
    PROVE  /\ CsvStep(CsvAt("quoted", cell, row, rows), "\"") = CsvAt("quote", cell, row, rows)
           /\ CsvStep(CsvAt("quote", cell, row, rows), "\"")
                  = CsvAt("quoted", Append(cell, "\""), row, rows)
  <1> DEFINE more == Append(cell, "\"")
  <1>1. CsvStep(CsvAt("quoted", cell, row, rows), "\"") = CsvAt("quote", cell, row, rows)
    BY DEF CsvStep, CsvAt
  <1>2. CsvStep(CsvAt("quote", cell, row, rows), "\"") = CsvAt("quoted", more, row, rows)
    BY DEF CsvStep, CsvAt, AddChar
  <1> QED
    BY <1>1, <1>2

\* A comma ends a cell.
LEMMA StepComma ==
    ASSUME NEW at \in CellEnds, NEW cell, NEW row, NEW rows
    PROVE  CsvStep(CsvAt(at, cell, row, rows), ",") = CsvAt("start", <<>>, Append(row, cell), rows)
  <1> DEFINE whole == Append(row, cell)
  <1>1. CsvStep(CsvAt(at, cell, row, rows), ",") = CsvAt("start", <<>>, whole, rows)
    BY DEF CsvStep, CsvAt, AddCell, CellEnds
  <1> QED
    BY <1>1

\* A line feed ends a row.
LEMMA StepLineFeed ==
    ASSUME NEW at \in CellEnds, NEW cell, NEW row, NEW rows
    PROVE  CsvStep(CsvAt(at, cell, row, rows), "\n")
               = CsvAt("start", <<>>, <<>>, Append(rows, Append(row, cell)))
  <1> DEFINE whole == Append(row, cell)
             more  == Append(rows, whole)
  <1>1. CsvStep(CsvAt(at, cell, row, rows), "\n") = CsvAt("start", <<>>, <<>>, more)
    BY DEF CsvStep, CsvAt, AddRow, CellEnds
  <1> QED
    BY <1>1

-----------------------------------------------------------------------------
(* What the parser makes of a cell.                                        *)

\* Whatever was read before it, the parser reads text as cell.
CellReads(text, cell) ==
    /\ text \in Seq(Token) /\ cell \in Seq(Token)
    /\ \A row, rows : \E at \in CellEnds :
           CsvRun(CsvAt("start", <<>>, row, rows), text, CsvAt(at, cell, row, rows))

\* A cell of tokens none of which is special is read as it is.
LEMMA PlainCell ==
    ASSUME NEW s \in Seq(Token), \A k \in 1..Len(s) : s[k] \notin Special
    PROVE  CellReads(s, s)
  <1> DEFINE n == Len(s)
             At(k) == IF k = 0 THEN "start" ELSE "plain"
  <1>1. n \in Nat
    OBVIOUS
  <1>2. ASSUME NEW row, NEW rows
        PROVE  \E at \in CellEnds : CsvRun(CsvAt("start", <<>>, row, rows), s, CsvAt(at, s, row, rows))
    <2> DEFINE f == [k \in 0..n |-> CsvAt(At(k), SubSeq(s, 1, k), row, rows)]
    <2>1. \A k \in 0..n : f[k] = CsvAt(At(k), SubSeq(s, 1, k), row, rows)
      BY Zenon
    <2>2. At(0) = "start" /\ At(n) \in CellEnds /\ \A k \in 0..n : At(k) \in {"start", "plain"}
      BY DEF CellEnds
    <2>3. \A k \in 1..n : At(k) = "plain"
      OBVIOUS
    <2> HIDE DEF f, At
    <2>4. f[0] = CsvAt("start", <<>>, row, rows)
      <3>1. SubSeq(s, 1, 0) = <<>> /\ 0 \in 0..n
        BY <1>1, SubSeqEmpty
      <3> QED
        BY <2>1, <2>2, <3>1
    <2>5. f[n] = CsvAt(At(n), s, row, rows)
      <3>1. SubSeq(s, 1, n) = s /\ n \in 0..n
        BY <1>1, SubSeqFull
      <3> QED
        BY <2>1, <3>1
    <2>6. ASSUME NEW k \in 1..n
          PROVE  f[k] = CsvStep(f[k - 1], s[k])
      <3>1. k \in 0..n /\ k - 1 \in 0..n
        BY <1>1
      <3> DEFINE before == SubSeq(s, 1, k - 1)
      <3>2. SubSeq(s, 1, k) = Append(before, s[k])
        BY <1>1, SubSeqRecursiveSecond
      <3>3. f[k - 1] = CsvAt(At(k - 1), before, row, rows)
        BY <2>1, <3>1
      <3>4. f[k] = CsvAt("plain", Append(before, s[k]), row, rows)
        BY <2>1, <2>3, <3>1, <3>2
      <3>5. At(k - 1) \in {"start", "plain"} /\ s[k] \notin Special
        BY <2>2, <3>1
      <3> HIDE DEF before
      <3> QED
        BY <3>3, <3>4, <3>5, StepPlain
    <2>7. CsvRun(CsvAt("start", <<>>, row, rows), s, CsvAt(At(n), s, row, rows))
      BY <2>4, <2>5, <2>6, Zenon DEF CsvRun
    <2> QED
      BY <2>2, <2>7
  <1> QED
    BY <1>2, Zenon DEF CellReads

\* A token as it stands between quotes.
Doubled(c) == IF c = "\"" THEN <<"\"", "\"">> ELSE <<c>>

\* The run over the quote that closes, or the first of two.
LEMMA QuoteRun ==
    ASSUME NEW cell, NEW row, NEW rows
    PROVE  CsvRun(CsvAt("quoted", cell, row, rows), <<"\"">>, CsvAt("quote", cell, row, rows))
  <1> DEFINE p == CsvAt("quoted", cell, row, rows)
             q == CsvAt("quote", cell, row, rows)
             c == "\""
  <1>1. CsvStep(p, c) = q
    BY StepQuote
  <1> HIDE DEF p, q, c
  <1>2. CsvRun(p, <<c>>, CsvStep(p, c))
    BY CsvRunOne, Zenon
  <1>3. CsvRun(p, <<c>>, q)
    BY <1>1, <1>2, Zenon
  <1> QED
    BY <1>3, Zenon DEF p, q, c

\* It is read as the token.
LEMMA DoubledReads ==
    ASSUME NEW c \in Token, NEW cell, NEW row, NEW rows
    PROVE  /\ Doubled(c) \in Seq(Token)
           /\ CsvRun(CsvAt("quoted", cell, row, rows), Doubled(c),
                     CsvAt("quoted", Append(cell, c), row, rows))
  <1>1. CASE c = "\""
    <2> DEFINE q == <<"\"">>
    <2>1. "\"" \in Token
      BY Tokens DEF Words
    <2>2. q \in Seq(Token)
      BY <2>1, Ones, Zenon
    <2>3. Append(q, "\"") = Doubled(c)
      BY <1>1, AfterOne, Zenon DEF Doubled
    <2>4. CsvRun(CsvAt("quoted", cell, row, rows), q, CsvAt("quote", cell, row, rows))
      BY QuoteRun, Zenon
    <2> HIDE DEF q
    <2>5. CsvRun(CsvAt("quoted", cell, row, rows), Append(q, "\""),
                 CsvStep(CsvAt("quote", cell, row, rows), "\""))
      BY <2>1, <2>2, <2>4, CsvRunMore
    <2>6. Doubled(c) \in Seq(Token)
      BY <1>1, <2>1, Ones, Zenon DEF Doubled
    <2> QED
      BY <1>1, <2>3, <2>5, <2>6, StepQuote, Zenon
  <1>2. CASE c # "\""
    <2>1. Doubled(c) = <<c>>
      BY <1>2, Zenon DEF Doubled
    <2>2. CsvRun(CsvAt("quoted", cell, row, rows), <<c>>, CsvAt("quoted", Append(cell, c), row, rows))
      <3>1. CsvStep(CsvAt("quoted", cell, row, rows), c) = CsvAt("quoted", Append(cell, c), row, rows)
        BY <1>2, StepQuoted, Zenon
      <3>2. CsvRun(CsvAt("quoted", cell, row, rows), <<c>>, CsvStep(CsvAt("quoted", cell, row, rows), c))
        BY CsvRunOne, Zenon
      <3> QED
        BY <3>1, <3>2, Zenon
    <2>3. <<c>> \in Seq(Token)
      BY Ones, Zenon
    <2> QED
      BY <2>1, <2>2, <2>3, Zenon
  <1> QED
    BY <1>1, <1>2

\* What stands between the quotes is read as what was put there.
LEMMA BetweenQuotes ==
    ASSUME NEW s \in Seq(Token), NEW row, NEW rows
    PROVE  /\ FlattenSeq([k \in DOMAIN s |-> Doubled(s[k])]) \in Seq(Token)
           /\ CsvRun(CsvAt("quoted", <<>>, row, rows), FlattenSeq([k \in DOMAIN s |-> Doubled(s[k])]),
                     CsvAt("quoted", s, row, rows))
  <1> DEFINE es == [k \in DOMAIN s |-> Doubled(s[k])]
             n  == Len(s)
             p  == CsvAt("quoted", <<>>, row, rows)
             So(k) == CsvRun(p, JoinedTo(es, k), CsvAt("quoted", SubSeq(s, 1, k), row, rows))
             Good == {k \in Nat : k <= n => So(k)}
  <1>1. n \in Nat /\ DOMAIN s = 1..n /\ \A k \in 1..n : s[k] \in Token
    OBVIOUS
  <1>2. es \in Seq(Seq(Token)) /\ Len(es) = n /\ \A k \in 1..n : es[k] = Doubled(s[k])
    <2>1. \A k \in 1..n : Doubled(s[k]) \in Seq(Token)
      BY <1>1, DoubledReads
    <2>2. es \in [1..n -> Seq(Token)]
      BY <1>1, <2>1
    <2>3. \A k \in 1..n : es[k] = Doubled(s[k])
      BY <1>1
    <2> HIDE DEF es
    <2> QED
      BY <1>1, <2>2, <2>3
  <1> HIDE DEF es, p
  <1>3. So(0)
    <2>1. SubSeq(s, 1, 0) = <<>>
      BY SubSeqEmpty
    <2>2. JoinedTo(es, 0) = <<>>
      BY <1>2, JoinedFacts
    <2> QED
      BY <2>1, <2>2, CsvRunOne, Zenon DEF p
  <1>4. ASSUME NEW k \in Nat, k + 1 <= n, So(k)
        PROVE  So(k + 1)
    <2>1. k + 1 \in 1..n /\ (k + 1) - 1 = k /\ k <= n /\ k \in 0..n
      BY <1>1, <1>4
    <2>2. SubSeq(s, 1, k + 1) = Append(SubSeq(s, 1, k), s[k + 1])
      <3>1. SubSeq(s, 1, k + 1) = Append(SubSeq(s, 1, (k + 1) - 1), s[k + 1])
        BY <1>1, <2>1, SubSeqRecursiveSecond
      <3> QED
        BY <2>1, <3>1
    <2>3. JoinedTo(es, k + 1) = JoinedTo(es, k) \o Doubled(s[k + 1])
      <3>1. JoinedTo(es, k + 1) = JoinedTo(es, (k + 1) - 1) \o es[k + 1]
        BY <1>2, <2>1, JoinedFacts
      <3> QED
        BY <1>2, <2>1, <3>1
    <2>4. CsvRun(CsvAt("quoted", SubSeq(s, 1, k), row, rows), Doubled(s[k + 1]),
                 CsvAt("quoted", Append(SubSeq(s, 1, k), s[k + 1]), row, rows))
          /\ Doubled(s[k + 1]) \in Seq(Token)
      BY <1>1, <2>1, DoubledReads
    <2>5. JoinedTo(es, k) \in Seq(Token)
      BY <1>2, <2>1, JoinedFacts
    <2> QED
      BY <1>4, <2>2, <2>3, <2>4, <2>5, CsvRuns
  <1> HIDE DEF So
  <1>5. n \in Good
    <2>1. 0 \in Good
      BY <1>3
    <2>2. ASSUME NEW k \in Nat, k \in Good
          PROVE  k + 1 \in Good
      BY <1>1, <1>4, <2>2
    <2> HIDE DEF Good
    <2> QED
      BY <1>1, <2>1, <2>2, InductionOnSet
  <1>6. So(n)
    BY <1>1, <1>5
  <1>7. SubSeq(s, 1, n) = s /\ JoinedTo(es, n) = FlattenSeq(es) /\ JoinedTo(es, n) \in Seq(Token)
    <2>1. n \in 0..n
      BY <1>1
    <2>2. SubSeq(s, 1, n) = s
      BY SubSeqFull
    <2>3. JoinedTo(es, n) = FlattenSeq(es) /\ JoinedTo(es, n) \in Seq(Token)
      BY <1>2, <2>1, JoinedFacts, Zenon
    <2> QED
      BY <2>2, <2>3
  <1> QED
    BY <1>6, <1>7 DEF es, So, p

\* A field is read as what is guarded, whatever it holds.
LEMMA FieldReads ==
    ASSUME NEW s \in Seq(Token)
    PROVE  CellReads(csv_field(s), Guarded(s))
  <1> DEFINE cell   == Guarded(s)
             double == FlattenSeq([k \in DOMAIN cell |-> IF cell[k] = "\"" THEN <<"\"", "\"">>
                                                         ELSE <<cell[k]>>])
             quote  == <<"\"">>
  <1>1. "'" \in Token /\ "\"" \in Token
    BY Tokens DEF Words
  <1>2. cell \in Seq(Token)
    <2>1. <<"'">> \o s \in Seq(Token)
      BY <1>1, Ones, Concat, Zenon
    <2> QED
      BY <2>1, Zenon DEF Guarded
  <1>3. csv_field(s) = IF Range(cell) \cap Special = {} THEN cell ELSE (quote \o double) \o quote
    BY Zenon DEF csv_field, Special
  <1>4. double = FlattenSeq([k \in DOMAIN cell |-> Doubled(cell[k])])
    BY Zenon DEF Doubled
  <1>5. quote \in Seq(Token)
    BY <1>1, Ones, Zenon
  <1> HIDE DEF cell, double
  <1>6. CASE Range(cell) \cap Special = {}
    <2>1. \A k \in 1..Len(cell) : cell[k] \notin Special
      <3>1. DOMAIN cell = 1..Len(cell)
        BY <1>2
      <3> QED
        BY <1>6, <3>1 DEF Range
    <2> QED
      BY <1>2, <1>3, <1>6, <2>1, PlainCell, Zenon DEF cell
  <1>7. CASE Range(cell) \cap Special # {}
    <2>1. double \in Seq(Token)
      BY <1>2, <1>4, BetweenQuotes, Zenon
    <2> DEFINE opened == quote \o double
    <2>2. opened \in Seq(Token) /\ opened \o quote \in Seq(Token)
      BY <1>5, <2>1, Concat, Zenon
    <2>3. ASSUME NEW row, NEW rows
          PROVE  CsvRun(CsvAt("start", <<>>, row, rows), opened \o quote, CsvAt("quote", cell, row, rows))
      <3>1. CsvRun(CsvAt("start", <<>>, row, rows), quote, CsvAt("quoted", <<>>, row, rows))
        <4>1. CsvStep(CsvAt("start", <<>>, row, rows), "\"") = CsvAt("quoted", <<>>, row, rows)
          BY StepOpens, Zenon
        <4>2. CsvRun(CsvAt("start", <<>>, row, rows), quote, CsvStep(CsvAt("start", <<>>, row, rows), "\""))
          BY CsvRunOne, Zenon
        <4> QED
          BY <4>1, <4>2, Zenon
      <3>2. CsvRun(CsvAt("quoted", <<>>, row, rows), double, CsvAt("quoted", cell, row, rows))
        BY <1>2, <1>4, BetweenQuotes, Zenon
      <3>3. CsvRun(CsvAt("quoted", cell, row, rows), quote, CsvAt("quote", cell, row, rows))
        BY QuoteRun, Zenon
      <3> HIDE DEF quote
      <3>4. CsvRun(CsvAt("start", <<>>, row, rows), opened, CsvAt("quoted", cell, row, rows))
        BY <1>5, <2>1, <3>1, <3>2, CsvRuns
      <3> HIDE DEF opened
      <3> QED
        BY <1>5, <2>2, <3>3, <3>4, CsvRuns
    <2>4. "quote" \in CellEnds
      BY DEF CellEnds
    <2>5. CellReads(opened \o quote, cell)
      BY <1>2, <2>2, <2>3, <2>4, Zenon DEF CellReads
    <2> QED
      BY <1>3, <1>7, <2>5, Zenon DEF cell
  <1> QED
    BY <1>6, <1>7

-----------------------------------------------------------------------------
(* What the parser makes of a row.                                         *)

\* After any rows, the parser has after text the cells pre of a row, and cell so far.
RowReads(text, pre, cell) ==
    /\ text \in Seq(Token)
    /\ \A rows : \E at \in CellEnds :
           CsvRun(CsvAt("start", <<>>, <<>>, rows), text, CsvAt(at, cell, pre, rows))

\* A comma and one more cell.
LEMMA RowMore ==
    ASSUME NEW text, NEW pre, NEW cell, RowReads(text, pre, cell),
           NEW more, NEW last, CellReads(more, last)
    PROVE  RowReads(text \o (<<",">> \o more), Append(pre, cell), last)
  <1> DEFINE comma == <<",">>
             all   == text \o (comma \o more)
             row   == Append(pre, cell)
  <1>1. "," \in Token
    BY Tokens DEF Words
  <1>2. comma \in Seq(Token) /\ text \in Seq(Token) /\ more \in Seq(Token)
    BY <1>1, Ones, Zenon DEF RowReads, CellReads
  <1>3. comma \o more \in Seq(Token)
    BY <1>2, Concat, Zenon
  <1>4. all \in Seq(Token)
    BY <1>2, <1>3, Concat, Zenon
  <1>5. ASSUME NEW rows
        PROVE  \E at \in CellEnds : CsvRun(CsvAt("start", <<>>, <<>>, rows), all, CsvAt(at, last, row, rows))
    <2>1. PICK at \in CellEnds :
              CsvRun(CsvAt("start", <<>>, <<>>, rows), text, CsvAt(at, cell, pre, rows))
      BY Zenon DEF RowReads
    <2>2. CsvRun(CsvAt(at, cell, pre, rows), comma, CsvAt("start", <<>>, row, rows))
      <3>1. CsvStep(CsvAt(at, cell, pre, rows), ",") = CsvAt("start", <<>>, row, rows)
        BY StepComma, ZenonT(40)
      <3>2. CsvRun(CsvAt(at, cell, pre, rows), comma, CsvStep(CsvAt(at, cell, pre, rows), ","))
        BY CsvRunOne, Zenon
      <3> QED
        BY <3>1, <3>2, Zenon
    <2>3. PICK end \in CellEnds :
              CsvRun(CsvAt("start", <<>>, row, rows), more, CsvAt(end, last, row, rows))
      BY Zenon DEF CellReads
    <2> HIDE DEF comma, row
    <2>4. CsvRun(CsvAt(at, cell, pre, rows), comma \o more, CsvAt(end, last, row, rows))
      BY <1>2, <2>2, <2>3, CsvRuns, Zenon
    <2>5. CsvRun(CsvAt("start", <<>>, <<>>, rows), all, CsvAt(end, last, row, rows))
      BY <1>2, <1>3, <2>1, <2>4, CsvRuns, Zenon
    <2> QED
      BY <2>5, Zenon
  <1> QED
    BY <1>4, <1>5, Zenon DEF RowReads

\* The cells are read as vals, each as one of them.
CellsRead(cells, vals) ==
    /\ cells \in Seq(Seq(Token)) /\ Len(cells) \in Nat \ {0}
    /\ vals \in Seq(Seq(Token)) /\ Len(vals) = Len(cells)
    /\ \A k \in 1..Len(cells) : CellReads(cells[k], vals[k])

\* A row of them is read up to its last cell.
LEMMA RowUpToItsLast ==
    ASSUME NEW cells, NEW vals, CellsRead(cells, vals)
    PROVE  RowReads(Row(cells), SubSeq(vals, 1, Len(vals) - 1), vals[Len(vals)])
  <1> DEFINE ps == Separated(cells, ",")
             n  == Len(cells)
  <1>1. n \in Nat \ {0} /\ vals \in Seq(Seq(Token)) /\ Len(vals) = n
        /\ \A k \in 1..n : CellReads(cells[k], vals[k])
    BY Zenon DEF CellsRead
  <1>2. cells \in Seq(Seq(Token)) /\ "," \in Token
    <2>1. "," \in Token
      BY Tokens DEF Words
    <2> QED
      BY <2>1, Zenon DEF CellsRead
  <1>3. /\ ps \in Seq(Seq(Token)) /\ Len(ps) = n
        /\ \A k \in 1..n : ps[k] = IF k = 1 THEN cells[k] ELSE <<",">> \o cells[k]
        /\ Row(cells) = FlattenSeq(ps)
    BY <1>2, SeparatedType, Zenon DEF Row
  <1> HIDE DEF ps, n
  <1>4. /\ JoinedTo(ps, 0) = <<>>
        /\ JoinedTo(ps, n) = FlattenSeq(ps)
        /\ \A k \in 0..n : JoinedTo(ps, k) \in Seq(Token)
        /\ \A k \in 1..n : JoinedTo(ps, k) = JoinedTo(ps, k - 1) \o ps[k]
    BY <1>3, JoinedFacts, Zenon
  <1> DEFINE So(k) == RowReads(JoinedTo(ps, k), SubSeq(vals, 1, k - 1), vals[k])
             I == {k \in Nat : k + 1 <= n => So(k + 1)}
  <1>5. So(1)
    <2>1. 1 \in 1..n /\ 1 - 1 = 0
      BY <1>1
    <2>2. JoinedTo(ps, 1) = <<>> \o cells[1]
      <3>1. JoinedTo(ps, 1) = JoinedTo(ps, 1 - 1) \o ps[1]
        BY <1>4, <2>1, Zenon
      <3> QED
        BY <1>3, <1>4, <2>1, <3>1
    <2>3. CellReads(cells[1], vals[1])
      BY <1>1, <2>1
    <2> DEFINE c == cells[1]
               v == vals[1]
    <2>4. CellReads(c, v)
      BY <2>3
    <2> HIDE DEF c, v
    <2>5. RowReads(c, <<>>, v)
      BY <2>4, Zenon DEF CellReads, RowReads
    <2>6. <<>> \o c = c
      <3>1. c \in Seq(Token)
        BY <2>4, Zenon DEF CellReads
      <3> QED
        BY <3>1
    <2>7. SubSeq(vals, 1, 1 - 1) = <<>>
      BY <2>1, SubSeqEmpty
    <2> QED
      BY <2>2, <2>5, <2>6, <2>7, Zenon DEF c, v
  <1>6. ASSUME NEW k \in Nat, (k + 1) + 1 <= n, So(k + 1)
        PROVE  So((k + 1) + 1)
    <2> DEFINE j == k + 1
    <2>1. /\ j \in 1..n /\ j + 1 \in 1..n /\ (j + 1) - 1 = j /\ j + 1 # 1 /\ j \in 0..n
      BY <1>1, <1>6
    <2>2. So(j)
      BY <1>6
    <2> HIDE DEF j
    <2>3. JoinedTo(ps, j + 1) = JoinedTo(ps, j) \o (<<",">> \o cells[j + 1])
      <3>1. JoinedTo(ps, j + 1) = JoinedTo(ps, (j + 1) - 1) \o ps[j + 1]
        BY <1>4, <2>1, Zenon
      <3>2. ps[j + 1] = <<",">> \o cells[j + 1]
        BY <1>3, <2>1, Zenon
      <3> QED
        BY <2>1, <3>1, <3>2
    <2>4. SubSeq(vals, 1, j) = Append(SubSeq(vals, 1, j - 1), vals[j])
      BY <1>1, <2>1, SubSeqRecursiveSecond
    <2>5. CellReads(cells[j + 1], vals[j + 1])
      BY <1>1, <2>1
    <2>6. RowReads(JoinedTo(ps, j) \o (<<",">> \o cells[j + 1]),
                   Append(SubSeq(vals, 1, j - 1), vals[j]), vals[j + 1])
      BY <2>2, <2>5, RowMore, Zenon
    <2>7. So(j + 1)
      BY <2>1, <2>3, <2>4, <2>6, Zenon
    <2> QED
      BY <2>7 DEF j
  <1> HIDE DEF So
  <1>7. 0 \in I
    BY <1>5
  <1>8. ASSUME NEW k \in Nat, k \in I
        PROVE  k + 1 \in I
    <2>1. (k + 1) + 1 <= n => k + 1 <= n
      BY <1>1
    <2> QED
      BY <1>6, <1>8, <2>1
  <1> DEFINE m == n - 1
  <1>9. m \in Nat /\ m + 1 = n
    BY <1>1
  <1> HIDE DEF I, m
  <1>10. m \in I
    BY <1>7, <1>8, <1>9, InductionOnSet
  <1>11. So(n)
    BY <1>1, <1>9, <1>10 DEF I
  <1> QED
    BY <1>1, <1>3, <1>4, <1>11, Zenon DEF So, n

\* A line of such cells is read as the row vals, after whatever rows.
LineReads(line, vals) ==
    /\ line \in Seq(Token)
    /\ \A rows : CsvRun(CsvAt("start", <<>>, <<>>, rows), line,
                        CsvAt("start", <<>>, <<>>, Append(rows, vals)))

\* The line feed ends the row.
LEMMA RowIsRead ==
    ASSUME NEW cells, NEW vals, CellsRead(cells, vals)
    PROVE  LineReads(Row(cells) \o <<"\n">>, vals)
  <1> DEFINE n    == Len(vals)
             pre  == SubSeq(vals, 1, n - 1)
             last == vals[n]
             text == Row(cells)
             end  == <<"\n">>
  <1>1. RowReads(text, pre, last)
    BY RowUpToItsLast
  <1>2. Append(pre, last) = vals
    <2>1. n \in Nat \ {0} /\ vals \in Seq(Seq(Token))
      BY Zenon DEF CellsRead
    <2>2. SubSeq(vals, 1, n) = vals /\ n \in 1..n
      BY <2>1, SubSeqFull
    <2>3. SubSeq(vals, 1, n) = Append(SubSeq(vals, 1, n - 1), vals[n])
      BY <2>1, <2>2, SubSeqRecursiveSecond
    <2> QED
      BY <2>2, <2>3
  <1>3. "\n" \in Token
    BY Zenon DEF Token
  <1>4. text \in Seq(Token) /\ end \in Seq(Token)
    BY <1>1, <1>3, Ones, Zenon DEF RowReads
  <1> HIDE DEF pre, last, text
  <1>5. ASSUME NEW rows
        PROVE  CsvRun(CsvAt("start", <<>>, <<>>, rows), text \o end,
                      CsvAt("start", <<>>, <<>>, Append(rows, vals)))
    <2>1. PICK at \in CellEnds :
              CsvRun(CsvAt("start", <<>>, <<>>, rows), text, CsvAt(at, last, pre, rows))
      BY <1>1, Zenon DEF RowReads
    <2>2. CsvStep(CsvAt(at, last, pre, rows), "\n")
              = CsvAt("start", <<>>, <<>>, Append(rows, Append(pre, last)))
      BY StepLineFeed, Zenon
    <2>3. CsvRun(CsvAt(at, last, pre, rows), end, CsvAt("start", <<>>, <<>>, Append(rows, vals)))
      <3>1. CsvRun(CsvAt(at, last, pre, rows), end, CsvStep(CsvAt(at, last, pre, rows), "\n"))
        BY CsvRunOne, Zenon
      <3> QED
        BY <1>2, <2>2, <3>1, Zenon
    <2> HIDE DEF end
    <2> QED
      BY <1>4, <2>1, <2>3, CsvRuns, Zenon
  <1>6. text \o end \in Seq(Token)
    BY <1>4, Concat, Zenon
  <1> QED
    BY <1>5, <1>6, Zenon DEF LineReads, text

-----------------------------------------------------------------------------
(* What the parser makes of the whole output.                              *)

\* When every line is read as a row, the output is read as these rows.
LEMMA RowsAreRead ==
    ASSUME TypeOK, format = "Csv", NEW all \in Seq(Seq(Seq(Token))), Len(all) = Len(records) + 1,
           \A n \in 0..Len(records) : LineReads(Line(n), all[n + 1])
    PROVE  ReadRows(Written(Len(records) + 1)) = all
  <1> DEFINE N     == Len(records)
             So(n) == CsvRun(CsvStart, Written(n), CsvAt("start", <<>>, <<>>, SubSeq(all, 1, n)))
             I     == {n \in Nat : n <= N + 1 => So(n)}
  <1>1. N \in Nat /\ FirstLine = 0 /\ Len(all) = N + 1
    BY DEF TypeOK, FirstLine, HEADER
  <1>2. So(0)
    <2>1. Written(0) = <<>>
      BY <1>1, WrittenNothing
    <2>2. SubSeq(all, 1, 0) = <<>>
      BY SubSeqEmpty
    <2>3. CsvStart = CsvAt("start", <<>>, <<>>, <<>>)
      BY Zenon DEF CsvStart, CsvAt
    <2> QED
      BY <2>1, <2>2, <2>3, CsvRunOne, Zenon
  <1>3. ASSUME NEW n \in Nat, n + 1 <= N + 1, So(n)
        PROVE  So(n + 1)
    <2>1. n \in 0..N /\ n \in FirstLine..Len(records) /\ n + 1 \in 1..Len(all) /\ (n + 1) - 1 = n
      BY <1>1, <1>3
    <2>2. n \in Places /\ Written(n + 1) = Written(n) \o Line(n)
      BY <2>1, WrittenNext
    <2>3. Written(n) \in Seq(Token) /\ Line(n) \in Seq(Token)
      BY <2>1, <2>2, WrittenType, LineIsThere
    <2> DEFINE rows == SubSeq(all, 1, n)
    <2>4. SubSeq(all, 1, n + 1) = Append(rows, all[n + 1])
      <3>1. SubSeq(all, 1, n + 1) = Append(SubSeq(all, 1, (n + 1) - 1), all[n + 1])
        BY <2>1, SubSeqRecursiveSecond
      <3> QED
        BY <2>1, <3>1
    <2>5. LineReads(Line(n), all[n + 1])
      BY <2>1
    <2>6. CsvRun(CsvAt("start", <<>>, <<>>, rows), Line(n),
                 CsvAt("start", <<>>, <<>>, Append(rows, all[n + 1])))
      BY <2>5, Zenon DEF LineReads
    <2>7. CsvRun(CsvStart, Written(n), CsvAt("start", <<>>, <<>>, rows))
      BY <1>3
    <2> HIDE DEF rows
    <2>8. CsvRun(CsvStart, Written(n) \o Line(n), CsvAt("start", <<>>, <<>>, Append(rows, all[n + 1])))
      BY <2>3, <2>6, <2>7, CsvRuns, Zenon
    <2> QED
      BY <2>2, <2>4, <2>8, Zenon
  <1> HIDE DEF So
  <1>4. 0 \in I
    BY <1>2
  <1>5. ASSUME NEW n \in Nat, n \in I
        PROVE  n + 1 \in I
    <2>1. n + 1 <= N + 1 => n <= N + 1
      BY <1>1
    <2> QED
      BY <1>3, <1>5, <2>1
  <1> DEFINE m == N + 1
  <1>6. m \in Nat /\ m <= N + 1
    BY <1>1
  <1> HIDE DEF I, m
  <1>7. m \in I
    BY <1>4, <1>5, <1>6, InductionOnSet
  <1>8. So(m)
    BY <1>6, <1>7 DEF I
  <1>9. SubSeq(all, 1, m) = all
    BY <1>1, SubSeqFull DEF m
  <1>10. CsvRun(CsvStart, Written(m), CsvAt("start", <<>>, <<>>, all))
    BY <1>8, <1>9, Zenon DEF So
  <1>11. Parse(CsvStep, CsvStart, Written(m)) = CsvAt("start", <<>>, <<>>, all)
    <2>1. m \in Places
      BY <1>1 DEF Places, m
    <2>2. Len(Written(m)) \in Nat
      BY <2>1, WrittenType, LenProperties
    <2> QED
      BY <1>10, <2>2, CsvParse
  <1>12. ReadRows(Written(m)) = all
    BY <1>11 DEF ReadRows, CsvAt
  <1> QED
    BY <1>12 DEF m, N

\* What is in the cells of the header row.
ColumnNames ==
    {"origin_file", "seq", "deleted", "key_hex", "value_hex", "kind", "origin", "key", "value",
     "value_encoding", "lossy", "timestamp_webkit_micros", "size", "guid", "host", "map_id"}

\* A word or a number that is not special is a cell.
LEMMA WordCell ==
    ASSUME NEW w \in Token, w \notin Special
    PROVE  CellReads(<<w>>, <<w>>)
  <1>1. <<w>> \in Seq(Token)
    BY Ones, Zenon
  <1>2. \A k \in 1..Len(<<w>>) : <<w>>[k] \notin Special
    <2>1. Len(<<w>>) = 1 /\ <<w>>[1] = w
      OBVIOUS
    <2>2. \A k \in 1..Len(<<w>>) : k = 1
      BY <2>1
    <2> QED
      BY <2>1, <2>2, Zenon
  <1> QED
    BY <1>1, <1>2, PlainCell, Zenon

\* The columns of each header.
LEMMA Columns ==
    ASSUME mode \in Modes
    PROVE  /\ header \in Seq(ColumnNames) /\ Len(header) \in Nat \ {0}
           /\ \A name \in ColumnNames : name \in Token /\ name \notin Special
  <1>1. /\ raw_header \in Seq(ColumnNames) /\ Len(raw_header) = 5
        /\ local_header \in Seq(ColumnNames) /\ Len(local_header) = 10
        /\ session_header \in Seq(ColumnNames) /\ Len(session_header) = 10
    <2>1. raw_header \in Seq(ColumnNames) /\ Len(raw_header) = 5
      BY DEF raw_header, ColumnNames
    <2>2. local_header \in Seq(ColumnNames) /\ Len(local_header) = 10
      BY DEF local_header, ColumnNames
    <2>3. session_header \in Seq(ColumnNames) /\ Len(session_header) = 10
      BY DEF session_header, ColumnNames
    <2> QED
      BY <2>1, <2>2, <2>3
  <1>2. \A name \in ColumnNames : name \in Token
    <2>1. ColumnNames \subseteq Words
      BY DEF ColumnNames, Words
    <2> QED
      BY <2>1, Tokens
  <1>3. \A name \in ColumnNames : name \notin Special
    BY DEF ColumnNames, Special
  <1>4. header \in Seq(ColumnNames) /\ Len(header) \in {5, 10}
    BY <1>1 DEF header, Modes
  <1>5. Len(header) \in Nat \ {0}
    BY <1>4
  <1> QED
    BY <1>2, <1>3, <1>4, <1>5, Zenon

\* The header row.
LEMMA HeaderReads ==
    ASSUME TypeOK
    PROVE  /\ LineReads(Line(0), [j \in DOMAIN header |-> <<header[j]>>])
           /\ [j \in DOMAIN header |-> <<header[j]>>] \in Seq(Seq(Token))
  <1> DEFINE cells == [j \in DOMAIN header |-> <<header[j]>>]
             n     == Len(header)
  <1>1. /\ header \in Seq(ColumnNames) /\ n \in Nat \ {0}
        /\ \A name \in ColumnNames : name \in Token /\ name \notin Special
    BY Columns DEF TypeOK
  <1>2. DOMAIN header = 1..n /\ \A k \in 1..n : header[k] \in ColumnNames
    BY <1>1
  <1>3. \A k \in 1..n : CellReads(<<header[k]>>, <<header[k]>>)
    BY <1>1, <1>2, WordCell, Zenon
  <1>4. \A k \in 1..n : cells[k] = <<header[k]>> /\ <<header[k]>> \in Seq(Token)
    BY <1>1, <1>2, Ones, Zenon
  <1>5. cells \in [1..n -> Seq(Token)]
    BY <1>2, <1>4, Zenon
  <1>6. Line(0) = Row(cells) \o <<"\n">>
    BY Zenon DEF Line, HEADER
  <1> HIDE DEF cells
  <1>7. cells \in Seq(Seq(Token)) /\ Len(cells) = n
    <2> HIDE DEF n
    <2> QED
      BY <1>1, <1>5
  <1>8. CellsRead(cells, cells)
    BY <1>1, <1>3, <1>4, <1>7 DEF CellsRead
  <1> QED
    BY <1>6, <1>7, <1>8, RowIsRead, Zenon DEF cells

-----------------------------------------------------------------------------
(* The cells of a record.                                                  *)

\* The member that stands in a column.
NameOf(r, column) == IF r.kind = "Other" /\ column = "key" THEN "key_hex" ELSE column

\* A string is guarded.
LEMMA StrCell ==
    ASSUME NEW r, NEW S, On(Shown(r), S), NEW column, NEW name, NameOf(r, column) = name, name \in S,
           NEW s, Shown(r)[name] = Str(s)
    PROVE  Cell(r, column) = Guarded(s)
  <1> DEFINE shown == Shown(r)
  <1>1. Str(s) # null /\ Str(s).type = "string" /\ Str(s).is = s
    <2>1. Str(s).type = "string" /\ Str(s).is = s
      BY DEF Str
    <2>2. null.type = "bare" /\ "bare" # "string"
      BY DEF null, Bare
    <2> QED
      BY <2>1, <2>2
  <1>2. DOMAIN shown = S /\ shown[name] = Str(s)
    BY Zenon DEF On
  <1>3. Cell(r, column) = IF name \notin DOMAIN shown \/ shown[name] = null THEN <<>>
                          ELSE IF shown[name].type = "string" THEN Guarded(shown[name].is)
                          ELSE shown[name].is
    BY Zenon DEF Cell, NameOf
  <1> HIDE DEF shown
  <1> QED
    BY <1>1, <1>2, <1>3, Zenon

\* Any other value that is not null is shown as it is.
LEMMA BareCell ==
    ASSUME NEW r, NEW S, On(Shown(r), S), NEW column, NEW name, NameOf(r, column) = name, name \in S,
           NEW s, Shown(r)[name] = Bare(s), s # <<"null">>
    PROVE  Cell(r, column) = s
  <1> DEFINE shown == Shown(r)
  <1>1. Bare(s) # null /\ Bare(s).type # "string" /\ Bare(s).is = s
    <2>1. Bare(s).type = "bare" /\ Bare(s).is = s
      BY DEF Bare
    <2>2. null.is = <<"null">> /\ "bare" # "string"
      BY DEF null, Bare
    <2> QED
      BY <2>1, <2>2, Zenon
  <1>2. DOMAIN shown = S /\ shown[name] = Bare(s)
    BY Zenon DEF On
  <1>3. Cell(r, column) = IF name \notin DOMAIN shown \/ shown[name] = null THEN <<>>
                          ELSE IF shown[name].type = "string" THEN Guarded(shown[name].is)
                          ELSE shown[name].is
    BY Zenon DEF Cell, NameOf
  <1> HIDE DEF shown
  <1> QED
    BY <1>1, <1>2, <1>3, Zenon

\* What the kind of the record does not have, and null, is an empty cell.
LEMMA NoneCell ==
    ASSUME NEW r, NEW S, On(Shown(r), S), NEW column, NEW name, NameOf(r, column) = name,
           name \notin S \/ Shown(r)[name] = null
    PROVE  Cell(r, column) = <<>>
  <1> DEFINE shown == Shown(r)
  <1>1. DOMAIN shown = S
    BY Zenon DEF On
  <1>2. Cell(r, column) = IF name \notin DOMAIN shown \/ shown[name] = null THEN <<>>
                          ELSE IF shown[name].type = "string" THEN Guarded(shown[name].is)
                          ELSE shown[name].is
    BY Zenon DEF Cell, NameOf
  <1> QED
    BY <1>1, <1>2, Zenon

\* They are tokens, and no lead-ins.
LEMMA PlainIs ==
    /\ PlainWords \subseteq Token
    /\ \A w \in PlainWords : w \notin Special /\ w \notin LeadIns
  <1>1. PlainWords \subseteq Token
    BY PlainInWords, Tokens
  <1>2. \A w \in PlainWords : w \notin Special
    BY DEF PlainWords, Special
  <1>3. \A w \in PlainWords : w \notin LeadIns
    BY DEF PlainWords, LeadIns
  <1> QED
    BY <1>1, <1>2, <1>3

\* What is made of them is read as it is, and guarded as it is.
LEMMA PlainText ==
    ASSUME NEW s \in Seq(PlainWords)
    PROVE  CellReads(s, s) /\ Guarded(s) = s
  <1>1. s \in Seq(Token)
    BY PlainIs, SeqMonotonic
  <1>2. \A k \in 1..Len(s) : s[k] \in PlainWords
    OBVIOUS
  <1>3. CellReads(s, s)
    BY <1>1, <1>2, PlainIs, PlainCell, Zenon
  <1>4. Guarded(s) = s
    <2>1. s # <<>> => s[1] \in PlainWords
      BY FirstType, Zenon
    <2>2. s # <<>> => s[1] \notin LeadIns
      BY <2>1, PlainIs, Zenon
    <2> QED
      BY <2>2, Zenon DEF Guarded
  <1> QED
    BY <1>3, <1>4

\* Nothing is read as nothing.
LEMMA EmptyCell == CellReads(<<>>, <<>>)
  <1>1. <<>> \in Seq(PlainWords)
    OBVIOUS
  <1> QED
    BY <1>1, PlainText, Zenon

\* Bytes in hexadecimal are read as they are.
LEMMA HexCell ==
    ASSUME NEW bytes \in Bytes
    PROVE  CellReads(hex(bytes), hex(bytes)) /\ Guarded(hex(bytes)) = hex(bytes)
  <1>1. hex(bytes) \in Seq(PlainWords)
    BY HexOf
  <1> QED
    BY <1>1, PlainText, Zenon

\* A name of an encoding.
LEMMA EncodingCell ==
    ASSUME NEW v \in StoredText
    PROVE  CellReads(encoding_str(v), encoding_str(v)) /\ Guarded(encoding_str(v)) = encoding_str(v)
  <1>1. encoding_str(v) \in Seq(PlainWords)
    BY EncodingOf
  <1> QED
    BY <1>1, PlainText, Zenon

\* One word.
LEMMA PlainCellOfOne ==
    ASSUME NEW w \in PlainWords
    PROVE  CellReads(<<w>>, <<w>>) /\ Guarded(<<w>>) = <<w>>
  <1>1. <<w>> \in Seq(PlainWords)
    BY Ones, Zenon
  <1> QED
    BY <1>1, PlainText, Zenon

-----------------------------------------------------------------------------
(* Cells in columns.                                                       *)

\* The cells are read as what r shows in the columns.
RowPart(cells, columns, r) ==
    /\ cells \in Seq(Seq(Token)) /\ columns \in Seq(ColumnNames) /\ Len(columns) = Len(cells)
    /\ \A k \in 1..Len(cells) : CellReads(cells[k], Cell(r, columns[k]))

\* One cell in its column.
InColumn(cell, column, r) == column \in ColumnNames /\ CellReads(cell, Cell(r, column))

\* One cell after others.
LEMMA PartMore ==
    ASSUME NEW cells, NEW columns, NEW r, RowPart(cells, columns, r),
           NEW cell, NEW column, InColumn(cell, column, r)
    PROVE  RowPart(Append(cells, cell), Append(columns, column), r)
  <1> DEFINE cs == Append(cells, cell)
             ns == Append(columns, column)
             n  == Len(cells)
  <1>1. /\ cells \in Seq(Seq(Token)) /\ columns \in Seq(ColumnNames) /\ Len(columns) = n
        /\ \A k \in 1..n : CellReads(cells[k], Cell(r, columns[k]))
    BY Zenon DEF RowPart
  <1>2. cell \in Seq(Token) /\ column \in ColumnNames /\ CellReads(cell, Cell(r, column))
    BY Zenon DEF InColumn, CellReads
  <1>3. /\ cs \in Seq(Seq(Token)) /\ Len(cs) = n + 1 /\ n \in Nat /\ cs[n + 1] = cell
        /\ \A k \in 1..n : cs[k] = cells[k]
    BY <1>1, <1>2, AppendProperties, AppendFacts
  <1>4. /\ ns \in Seq(ColumnNames) /\ Len(ns) = n + 1 /\ ns[n + 1] = column
        /\ \A k \in 1..n : ns[k] = columns[k]
    BY <1>1, <1>2, AppendProperties, AppendFacts
  <1> HIDE DEF cs, ns, n
  <1>5. ASSUME NEW k \in 1..n + 1
        PROVE  CellReads(cs[k], Cell(r, ns[k]))
    <2>1. k \in 1..n \/ k = n + 1
      BY <1>3
    <2> QED
      BY <1>1, <1>2, <1>3, <1>4, <2>1, Zenon
  <1>6. RowPart(cs, ns, r)
    BY <1>3, <1>4, <1>5 DEF RowPart
  <1> QED
    BY <1>6 DEF cs, ns

\* Two more elements.
LEMMA TwoAfter ==
    ASSUME NEW X, NEW s \in Seq(X), NEW a \in X, NEW b \in X
    PROVE  s \o <<a, b>> = Append(Append(s, a), b)
  <1>1. <<a>> \in Seq(X) /\ <<a, b>> = <<a>> \o <<b>>
    <2>1. <<a>> \in Seq(X) /\ <<a>> \o <<b>> = Append(<<a>>, b)
      BY Ones, OneMoreElement, Zenon
    <2> QED
      BY <2>1, AfterOne, Zenon
  <1>2. s \o <<a>> = Append(s, a) /\ Append(s, a) \in Seq(X)
    OBVIOUS
  <1>3. Append(s, a) \o <<b>> = Append(Append(s, a), b)
    BY <1>2
  <1>4. s \o (<<a>> \o <<b>>) = (s \o <<a>>) \o <<b>>
    OBVIOUS
  <1> QED
    BY <1>1, <1>2, <1>3, <1>4, Zenon

\* Three more elements.
LEMMA ThreeAfter ==
    ASSUME NEW X, NEW s \in Seq(X), NEW a \in X, NEW b \in X, NEW c \in X
    PROVE  s \o <<a, b, c>> = Append(Append(Append(s, a), b), c)
  <1>1. <<a, b>> \in Seq(X) /\ <<c>> \in Seq(X)
    OBVIOUS
  <1>2. <<a, b, c>> = <<a, b>> \o <<c>>
    BY <1>1, AfterTwo
  <1>3. s \o <<a, b>> = Append(Append(s, a), b) /\ s \o <<a, b>> \in Seq(X)
    BY <1>1, TwoAfter, Concat
  <1>4. s \o (<<a, b>> \o <<c>>) = (s \o <<a, b>>) \o <<c>>
    BY <1>1
  <1>5. (s \o <<a, b>>) \o <<c>> = Append(s \o <<a, b>>, c)
    BY <1>3, OneMoreElement, Zenon
  <1> QED
    BY <1>2, <1>3, <1>4, <1>5, Zenon

\* A tuple of four and one more element.
LEMMA AfterFour ==
    ASSUME NEW a, NEW b, NEW c, NEW d, NEW e
    PROVE  Append(<<a, b, c, d>>, e) = <<a, b, c, d, e>>
  <1> DEFINE X == {a, b, c, d, e}
  <1>1. <<a, b, c, d>> \in Seq(X) /\ <<a, b, c, d, e>> \in Seq(X) /\ e \in X
    OBVIOUS
  <1>2. /\ Len(<<a, b, c, d, e>>) = Len(<<a, b, c, d>>) + 1
        /\ <<a, b, c, d, e>>[Len(<<a, b, c, d>>) + 1] = e
        /\ \A k \in 1..Len(<<a, b, c, d>>) : <<a, b, c, d, e>>[k] = <<a, b, c, d>>[k]
    OBVIOUS
  <1> HIDE DEF X
  <1> QED
    BY <1>1, <1>2, AppendIs

\* A tuple of five and one more element.
LEMMA AfterFive ==
    ASSUME NEW a, NEW b, NEW c, NEW d, NEW e, NEW f
    PROVE  Append(<<a, b, c, d, e>>, f) = <<a, b, c, d, e, f>>
  <1> DEFINE X == {a, b, c, d, e, f}
  <1>1. <<a, b, c, d, e>> \in Seq(X) /\ <<a, b, c, d, e, f>> \in Seq(X) /\ f \in X
    OBVIOUS
  <1>2. /\ Len(<<a, b, c, d, e, f>>) = Len(<<a, b, c, d, e>>) + 1
        /\ <<a, b, c, d, e, f>>[Len(<<a, b, c, d, e>>) + 1] = f
        /\ \A k \in 1..Len(<<a, b, c, d, e>>) : <<a, b, c, d, e, f>>[k] = <<a, b, c, d, e>>[k]
    OBVIOUS
  <1> HIDE DEF X
  <1> QED
    BY <1>1, <1>2, AppendIs

\* A tuple of six and one more element.
LEMMA AfterSix ==
    ASSUME NEW a, NEW b, NEW c, NEW d, NEW e, NEW f, NEW g
    PROVE  Append(<<a, b, c, d, e, f>>, g) = <<a, b, c, d, e, f, g>>
  <1> DEFINE X == {a, b, c, d, e, f, g}
  <1>1. <<a, b, c, d, e, f>> \in Seq(X) /\ <<a, b, c, d, e, f, g>> \in Seq(X) /\ g \in X
    OBVIOUS
  <1>2. /\ Len(<<a, b, c, d, e, f, g>>) = Len(<<a, b, c, d, e, f>>) + 1
        /\ <<a, b, c, d, e, f, g>>[Len(<<a, b, c, d, e, f>>) + 1] = g
        /\ \A k \in 1..Len(<<a, b, c, d, e, f>>) : <<a, b, c, d, e, f, g>>[k] = <<a, b, c, d, e, f>>[k]
    OBVIOUS
  <1> HIDE DEF X
  <1> QED
    BY <1>1, <1>2, AppendIs

\* A tuple of seven and one more element.
LEMMA AfterSeven ==
    ASSUME NEW a, NEW b, NEW c, NEW d, NEW e, NEW f, NEW g, NEW h
    PROVE  Append(<<a, b, c, d, e, f, g>>, h) = <<a, b, c, d, e, f, g, h>>
  <1> DEFINE X == {a, b, c, d, e, f, g, h}
  <1>1. <<a, b, c, d, e, f, g>> \in Seq(X) /\ <<a, b, c, d, e, f, g, h>> \in Seq(X) /\ h \in X
    OBVIOUS
  <1>2. /\ Len(<<a, b, c, d, e, f, g, h>>) = Len(<<a, b, c, d, e, f, g>>) + 1
        /\ <<a, b, c, d, e, f, g, h>>[Len(<<a, b, c, d, e, f, g>>) + 1] = h
        /\ \A k \in 1..Len(<<a, b, c, d, e, f, g>>) : <<a, b, c, d, e, f, g, h>>[k] = <<a, b, c, d, e, f, g>>[k]
    OBVIOUS
  <1> HIDE DEF X
  <1> QED
    BY <1>1, <1>2, AppendIs

\* A tuple of eight and one more element.
LEMMA AfterEight ==
    ASSUME NEW a, NEW b, NEW c, NEW d, NEW e, NEW f, NEW g, NEW h, NEW i
    PROVE  Append(<<a, b, c, d, e, f, g, h>>, i) = <<a, b, c, d, e, f, g, h, i>>
  <1> DEFINE X == {a, b, c, d, e, f, g, h, i}
  <1>1. <<a, b, c, d, e, f, g, h>> \in Seq(X) /\ <<a, b, c, d, e, f, g, h, i>> \in Seq(X) /\ i \in X
    OBVIOUS
  <1>2. /\ Len(<<a, b, c, d, e, f, g, h, i>>) = Len(<<a, b, c, d, e, f, g, h>>) + 1
        /\ <<a, b, c, d, e, f, g, h, i>>[Len(<<a, b, c, d, e, f, g, h>>) + 1] = i
        /\ \A k \in 1..Len(<<a, b, c, d, e, f, g, h>>) : <<a, b, c, d, e, f, g, h, i>>[k] = <<a, b, c, d, e, f, g, h>>[k]
    OBVIOUS
  <1> HIDE DEF X
  <1> QED
    BY <1>1, <1>2, AppendIs

\* A tuple of nine and one more element.
LEMMA AfterNine ==
    ASSUME NEW a, NEW b, NEW c, NEW d, NEW e, NEW f, NEW g, NEW h, NEW i, NEW j
    PROVE  Append(<<a, b, c, d, e, f, g, h, i>>, j) = <<a, b, c, d, e, f, g, h, i, j>>
  <1> DEFINE X == {a, b, c, d, e, f, g, h, i, j}
  <1>1. <<a, b, c, d, e, f, g, h, i>> \in Seq(X) /\ <<a, b, c, d, e, f, g, h, i, j>> \in Seq(X) /\ j \in X
    OBVIOUS
  <1>2. /\ Len(<<a, b, c, d, e, f, g, h, i, j>>) = Len(<<a, b, c, d, e, f, g, h, i>>) + 1
        /\ <<a, b, c, d, e, f, g, h, i, j>>[Len(<<a, b, c, d, e, f, g, h, i>>) + 1] = j
        /\ \A k \in 1..Len(<<a, b, c, d, e, f, g, h, i>>) : <<a, b, c, d, e, f, g, h, i, j>>[k] = <<a, b, c, d, e, f, g, h, i>>[k]
    OBVIOUS
  <1> HIDE DEF X
  <1> QED
    BY <1>1, <1>2, AppendIs

\* One column and two more.
LEMMA OneToThree ==
    ASSUME NEW a, NEW b, NEW c
    PROVE  Append(Append(<<a>>, b), c) = <<a, b, c>>
  <1>1. Append(<<a>>, b) = <<a, b>>
    BY AfterOne, Zenon
  <1>2. Append(<<a, b>>, c) = <<a, b, c>>
    BY AfterTwo, Zenon
  <1> QED
    BY <1>1, <1>2, Zenon

\* Three columns and two more.
LEMMA ThreeToFive ==
    ASSUME NEW a, NEW b, NEW c, NEW d, NEW e
    PROVE  Append(Append(<<a, b, c>>, d), e) = <<a, b, c, d, e>>
  <1>1. Append(<<a, b, c>>, d) = <<a, b, c, d>>
    BY AfterThree, Zenon
  <1>2. Append(<<a, b, c, d>>, e) = <<a, b, c, d, e>>
    BY AfterFour, Zenon
  <1> QED
    BY <1>1, <1>2, Zenon

\* Three columns and three more.
LEMMA ThreeToSix ==
    ASSUME NEW a, NEW b, NEW c, NEW d, NEW e, NEW f
    PROVE  Append(Append(Append(<<a, b, c>>, d), e), f) = <<a, b, c, d, e, f>>
  <1>1. Append(<<a, b, c>>, d) = <<a, b, c, d>>
    BY AfterThree, Zenon
  <1>2. Append(<<a, b, c, d>>, e) = <<a, b, c, d, e>>
    BY AfterFour, Zenon
  <1>3. Append(<<a, b, c, d, e>>, f) = <<a, b, c, d, e, f>>
    BY AfterFive, Zenon
  <1> QED
    BY <1>1, <1>2, <1>3, Zenon

\* Six columns and two more.
LEMMA SixToEight ==
    ASSUME NEW a, NEW b, NEW c, NEW d, NEW e, NEW f, NEW g, NEW h
    PROVE  Append(Append(<<a, b, c, d, e, f>>, g), h) = <<a, b, c, d, e, f, g, h>>
  <1>1. Append(<<a, b, c, d, e, f>>, g) = <<a, b, c, d, e, f, g>>
    BY AfterSix, Zenon
  <1>2. Append(<<a, b, c, d, e, f, g>>, h) = <<a, b, c, d, e, f, g, h>>
    BY AfterSeven, ZenonT(60)
  <1> QED
    BY <1>1, <1>2, Zenon

\* Five columns and three more.
LEMMA FiveToEight ==
    ASSUME NEW a, NEW b, NEW c, NEW d, NEW e, NEW f, NEW g, NEW h
    PROVE  Append(Append(Append(<<a, b, c, d, e>>, f), g), h) = <<a, b, c, d, e, f, g, h>>
  <1>1. Append(<<a, b, c, d, e>>, f) = <<a, b, c, d, e, f>>
    BY AfterFive, Zenon
  <1>2. Append(<<a, b, c, d, e, f>>, g) = <<a, b, c, d, e, f, g>>
    BY AfterSix, Zenon
  <1>3. Append(<<a, b, c, d, e, f, g>>, h) = <<a, b, c, d, e, f, g, h>>
    BY AfterSeven, ZenonT(60)
  <1> QED
    BY <1>1, <1>2, <1>3, Zenon

\* Eight columns and two more, which are all of a header.
LEMMA EightToTen ==
    ASSUME NEW a, NEW b, NEW c, NEW d, NEW e, NEW f, NEW g, NEW h, NEW i, NEW j
    PROVE  Append(Append(<<a, b, c, d, e, f, g, h>>, i), j) = <<a, b, c, d, e, f, g, h, i, j>>
  <1>1. Append(<<a, b, c, d, e, f, g, h>>, i) = <<a, b, c, d, e, f, g, h, i>>
    BY AfterEight
  <1>2. Append(<<a, b, c, d, e, f, g, h, i>>, j) = <<a, b, c, d, e, f, g, h, i, j>>
    BY AfterNine
  <1> QED
    BY <1>1, <1>2, Zenon

\* Two more cells.
LEMMA PartAndTwo ==
    ASSUME NEW cells, NEW columns, NEW r, RowPart(cells, columns, r),
           NEW a, NEW m, InColumn(a, m, r), NEW b, NEW n, InColumn(b, n, r)
    PROVE  RowPart(cells \o <<a, b>>, Append(Append(columns, m), n), r)
  <1>1. RowPart(Append(Append(cells, a), b), Append(Append(columns, m), n), r)
    BY PartMore, Zenon
  <1>2. cells \in Seq(Seq(Token)) /\ a \in Seq(Token) /\ b \in Seq(Token)
    BY Zenon DEF RowPart, InColumn, CellReads
  <1>3. cells \o <<a, b>> = Append(Append(cells, a), b)
    BY <1>2, TwoAfter
  <1> QED
    BY <1>1, <1>3, Zenon

\* Three more cells.
LEMMA PartAndThree ==
    ASSUME NEW cells, NEW columns, NEW r, RowPart(cells, columns, r),
           NEW a, NEW m, InColumn(a, m, r), NEW b, NEW n, InColumn(b, n, r),
           NEW c, NEW o, InColumn(c, o, r)
    PROVE  RowPart(cells \o <<a, b, c>>, Append(Append(Append(columns, m), n), o), r)
  <1>1. RowPart(Append(Append(Append(cells, a), b), c), Append(Append(Append(columns, m), n), o), r)
    BY PartMore, Zenon
  <1>2. cells \in Seq(Seq(Token)) /\ a \in Seq(Token) /\ b \in Seq(Token) /\ c \in Seq(Token)
    BY Zenon DEF RowPart, InColumn, CellReads
  <1>3. cells \o <<a, b, c>> = Append(Append(Append(cells, a), b), c)
    BY <1>2, ThreeAfter
  <1> QED
    BY <1>1, <1>3, Zenon

\* One cell.
LEMMA PartOne ==
    ASSUME NEW r, NEW a, NEW m, InColumn(a, m, r)
    PROVE  RowPart(<<a>>, <<m>>, r)
  <1>1. RowPart(<<>>, <<>>, r)
    BY DEF RowPart
  <1>2. RowPart(Append(<<>>, a), Append(<<>>, m), r)
    BY <1>1, PartMore, Zenon
  <1> QED
    BY <1>2, AfterOne, Zenon

\* Two cells.
LEMMA PartTwo ==
    ASSUME NEW r, NEW a, NEW m, InColumn(a, m, r), NEW b, NEW n, InColumn(b, n, r)
    PROVE  RowPart(<<a, b>>, <<m, n>>, r)
  <1>1. RowPart(Append(<<a>>, b), Append(<<m>>, n), r)
    BY PartOne, PartMore, Zenon
  <1> QED
    BY <1>1, AfterOne, Zenon

\* Three cells.
LEMMA PartThree ==
    ASSUME NEW r, NEW a, NEW m, InColumn(a, m, r), NEW b, NEW n, InColumn(b, n, r),
           NEW c, NEW o, InColumn(c, o, r)
    PROVE  RowPart(<<a, b, c>>, <<m, n, o>>, r)
  <1>1. RowPart(Append(<<a, b>>, c), Append(<<m, n>>, o), r)
    BY PartTwo, PartMore, Zenon
  <1> QED
    BY <1>1, AfterTwo, Zenon

\* Four cells.
LEMMA PartFour ==
    ASSUME NEW r, NEW a, NEW m, InColumn(a, m, r), NEW b, NEW n, InColumn(b, n, r),
           NEW c, NEW o, InColumn(c, o, r), NEW d, NEW p, InColumn(d, p, r)
    PROVE  RowPart(<<a, b, c, d>>, <<m, n, o, p>>, r)
  <1>1. RowPart(Append(<<a, b, c>>, d), Append(<<m, n, o>>, p), r)
    BY PartThree, PartMore, Zenon
  <1> QED
    BY <1>1, AfterThree, Zenon

\* Five cells.
LEMMA PartFive ==
    ASSUME NEW r, NEW a, NEW m, InColumn(a, m, r), NEW b, NEW n, InColumn(b, n, r),
           NEW c, NEW o, InColumn(c, o, r), NEW d, NEW p, InColumn(d, p, r),
           NEW e, NEW q, InColumn(e, q, r)
    PROVE  RowPart(<<a, b, c, d, e>>, <<m, n, o, p, q>>, r)
  <1>1. RowPart(Append(<<a, b, c, d>>, e), Append(<<m, n, o, p>>, q), r)
    BY PartFour, PartMore, Zenon
  <1> QED
    BY <1>1, AfterFour, Zenon

\* Eight cells, one after the other.
LEMMA PartEight ==
    ASSUME NEW r, NEW a, NEW m, InColumn(a, m, r), NEW b, NEW n, InColumn(b, n, r),
           NEW c, NEW o, InColumn(c, o, r), NEW d, NEW p, InColumn(d, p, r),
           NEW e, NEW q, InColumn(e, q, r), NEW f, NEW u, InColumn(f, u, r),
           NEW g, NEW v, InColumn(g, v, r), NEW h, NEW w, InColumn(h, w, r)
    PROVE  RowPart(<<a, b, c, d, e, f, g, h>>, <<m, n, o, p, q, u, v, w>>, r)
  <1>1. RowPart(<<a, b, c, d, e>>, <<m, n, o, p, q>>, r)
    BY PartFive, Zenon
  <1>2. RowPart(Append(<<a, b, c, d, e>>, f), Append(<<m, n, o, p, q>>, u), r)
    BY <1>1, PartMore, Zenon
  <1>3. RowPart(<<a, b, c, d, e, f>>, <<m, n, o, p, q, u>>, r)
    BY <1>2, AfterFive, Zenon
  <1>4. RowPart(Append(<<a, b, c, d, e, f>>, g), Append(<<m, n, o, p, q, u>>, v), r)
    BY <1>3, PartMore, Zenon
  <1>5. RowPart(<<a, b, c, d, e, f, g>>, <<m, n, o, p, q, u, v>>, r)
    BY <1>4, AfterSix, ZenonT(60)
  <1>6. RowPart(Append(<<a, b, c, d, e, f, g>>, h), Append(<<m, n, o, p, q, u, v>>, w), r)
    BY <1>5, PartMore, Zenon
  <1> QED
    BY <1>6, AfterSeven, ZenonT(60)

\* Such cells in the columns of the header are read as the row of the record.
LEMMA RecordRow ==
    ASSUME NEW cells, NEW r, RowPart(cells, header, r), mode \in Modes
    PROVE  /\ LineReads(Row(cells) \o <<"\n">>, [j \in DOMAIN header |-> Cell(r, header[j])])
           /\ [j \in DOMAIN header |-> Cell(r, header[j])] \in Seq(Seq(Token))
  <1> DEFINE vals == [j \in DOMAIN header |-> Cell(r, header[j])]
             n    == Len(header)
  <1>1. /\ cells \in Seq(Seq(Token)) /\ header \in Seq(ColumnNames) /\ n = Len(cells)
        /\ \A k \in 1..n : CellReads(cells[k], Cell(r, header[k]))
    BY Zenon DEF RowPart
  <1>2. n \in Nat \ {0} /\ DOMAIN header = 1..n
    BY <1>1, Columns
  <1>3. \A k \in 1..n : vals[k] = Cell(r, header[k]) /\ Cell(r, header[k]) \in Seq(Token)
    BY <1>1, <1>2, Zenon DEF CellReads
  <1>4. vals \in [1..n -> Seq(Token)]
    BY <1>2, <1>3, Zenon
  <1> HIDE DEF vals
  <1>5. vals \in Seq(Seq(Token)) /\ Len(vals) = n
    <2> HIDE DEF n
    <2> QED
      BY <1>2, <1>4
  <1>6. \A k \in 1..n : CellReads(cells[k], vals[k])
    BY <1>1, <1>3, Zenon
  <1> HIDE DEF n
  <1>7. CellsRead(cells, vals)
    BY <1>1, <1>2, <1>5, <1>6, Zenon DEF CellsRead
  <1> QED
    BY <1>5, <1>7, RowIsRead, Zenon DEF vals

-----------------------------------------------------------------------------
(* The row of each kind of record.                                         *)

\* In a record of a kind that is understood, each column shows its own member.
LEMMA OwnNames ==
    ASSUME NEW r, r.kind # "Other"
    PROVE  \A column : NameOf(r, column) = column
  BY DEF NameOf

\* A string in its column.
LEMMA StrColumn ==
    ASSUME NEW r, NEW S, On(Shown(r), S), NEW column \in ColumnNames, NameOf(r, column) = column,
           column \in S, NEW s \in Seq(Token), Shown(r)[column] = Str(s)
    PROVE  InColumn(csv_field(s), column, r)
  <1>1. Cell(r, column) = Guarded(s)
    BY StrCell, ZenonT(40)
  <1>2. CellReads(csv_field(s), Guarded(s))
    BY FieldReads, Zenon
  <1> QED
    BY <1>1, <1>2, Zenon DEF InColumn

\* A string that needs neither quotes nor a guard.
LEMMA PlainColumn ==
    ASSUME NEW r, NEW S, On(Shown(r), S), NEW column \in ColumnNames, NEW name,
           NameOf(r, column) = name, name \in S,
           NEW s, CellReads(s, s), Guarded(s) = s, Shown(r)[name] = Str(s)
    PROVE  InColumn(s, column, r)
  <1>1. Cell(r, column) = Guarded(s)
    BY StrCell, Zenon
  <1> QED
    BY <1>1, Zenon DEF InColumn

\* A number.
LEMMA NumColumn ==
    ASSUME NEW r, NEW S, On(Shown(r), S), NEW column \in ColumnNames, NameOf(r, column) = column,
           column \in S, NEW n \in Nat, ToString(n) \notin {"\n", "\r", "\"", ",", "null"},
           Shown(r)[column] = Bare(Num(n))
    PROVE  InColumn(Num(n), column, r)
  <1> DEFINE t == ToString(n)
  <1>1. t \in Token
    BY Zenon DEF Token
  <1>2. t \notin Special
    BY DEF Special
  <1>3. Num(n) = <<t>>
    BY Zenon DEF Num
  <1>4. t # "null"
    OBVIOUS
  <1> HIDE DEF t
  <1>5. CellReads(<<t>>, <<t>>)
    BY <1>1, <1>2, WordCell, Zenon
  <1>6. <<t>> # <<"null">>
    BY <1>4
  <1>7. Cell(r, column) = Num(n)
    BY <1>3, <1>6, BareCell, Zenon
  <1> QED
    BY <1>3, <1>5, <1>7, Zenon DEF InColumn

\* Yes or no.
LEMMA BoolColumn ==
    ASSUME NEW r, NEW S, On(Shown(r), S), NEW column \in ColumnNames, NameOf(r, column) = column,
           column \in S, NEW b \in BOOLEAN, Shown(r)[column] = Bare(Bool(b))
    PROVE  InColumn(Bool(b), column, r)
  <1> DEFINE t == IF b THEN "true" ELSE "false"
  <1>1. t \in PlainWords /\ t # "null"
    BY DEF PlainWords
  <1>2. Bool(b) = <<t>>
    BY Zenon DEF Bool
  <1> HIDE DEF t
  <1>3. CellReads(<<t>>, <<t>>)
    BY <1>1, PlainCellOfOne, Zenon
  <1>4. <<t>> # <<"null">>
    BY <1>1
  <1>5. Cell(r, column) = Bool(b)
    BY <1>2, <1>4, BareCell, Zenon
  <1> QED
    BY <1>2, <1>3, <1>5, Zenon DEF InColumn

\* Nothing.
LEMMA NoColumn ==
    ASSUME NEW r, NEW S, On(Shown(r), S), NEW column \in ColumnNames, NEW name,
           NameOf(r, column) = name, name \notin S \/ Shown(r)[name] = null
    PROVE  InColumn(NoCell, column, r)
  <1>1. Cell(r, column) = <<>>
    BY NoneCell, Zenon
  <1> QED
    BY <1>1, EmptyCell, Zenon DEF InColumn, NoCell

\* The cells of SeqCells.
LEMMA SeqColumns ==
    ASSUME NEW r, NEW S, On(Shown(r), S), "seq" \in S, "deleted" \in S,
           r.seq \in Nat, r.deleted \in BOOLEAN, PlainNumbers(r),
           Shown(r)["seq"] = Bare(Num(r.seq)), Shown(r)["deleted"] = Bare(Bool(r.deleted))
    PROVE  InColumn(Num(r.seq), "seq", r) /\ InColumn(Bool(r.deleted), "deleted", r)
  <1>1. "seq" \in ColumnNames /\ "deleted" \in ColumnNames
    BY DEF ColumnNames
  <1>2. NameOf(r, "seq") = "seq" /\ NameOf(r, "deleted") = "deleted"
    BY DEF NameOf
  <1>3. ToString(r.seq) \notin {"\n", "\r", "\"", ",", "null"}
    BY DEF PlainNumbers, Numbers
  <1>4. InColumn(Num(r.seq), "seq", r)
    BY <1>1, <1>2, <1>3, NumColumn, Zenon
  <1>5. InColumn(Bool(r.deleted), "deleted", r)
    BY <1>1, <1>2, BoolColumn, Zenon
  <1> QED
    BY <1>4, <1>5

\* The cells of ValueCells.
LEMMA ValueColumns ==
    ASSUME NEW r, r.kind # "Other", NEW S, On(Shown(r), S),
           "value" \in S, "value_encoding" \in S, "lossy" \in S, NEW v \in StoredText,
           Shown(r)["value"] = Str(v.text), Shown(r)["value_encoding"] = Str(encoding_str(v)),
           Shown(r)["lossy"] = Bare(Bool(v.lossy))
    PROVE  /\ InColumn(csv_field(v.text), "value", r)
           /\ InColumn(encoding_str(v), "value_encoding", r)
           /\ InColumn(Bool(v.lossy), "lossy", r)
  <1>1. /\ "value" \in ColumnNames /\ "value_encoding" \in ColumnNames /\ "lossy" \in ColumnNames
    BY DEF ColumnNames
  <1>2. v.text \in Seq(Token) /\ v.lossy \in BOOLEAN
    BY StoredTextType DEF StoredText
  <1>3. InColumn(csv_field(v.text), "value", r)
    BY <1>1, <1>2, OwnNames, StrColumn, Zenon
  <1>4. InColumn(encoding_str(v), "value_encoding", r)
    BY <1>1, OwnNames, EncodingCell, PlainColumn, Zenon
  <1>5. InColumn(Bool(v.lossy), "lossy", r)
    BY <1>1, <1>2, OwnNames, BoolColumn, Zenon
  <1> QED
    BY <1>3, <1>4, <1>5

\* A raw record.
LEMMA RawRow ==
    ASSUME NEW r \in RawRecord, PlainNumbers(r), mode = "Raw"
    PROVE  LineReads(raw_csv(r) \o <<"\n">>, [j \in DOMAIN header |-> Cell(r, header[j])])
           /\ [j \in DOMAIN header |-> Cell(r, header[j])] \in Seq(Seq(Token))
  <1>1. /\ r.kind = "Raw" /\ r.origin_file \in Seq(Token) /\ r.key \in Bytes /\ r.value \in Bytes
        /\ r.seq \in Nat /\ r.deleted \in BOOLEAN
    BY TextIsTokens DEF RawRecord
  <1> DEFINE s == Shown(r)
             F == csv_field(r.origin_file)
             K == hex(r.key)
             V == hex(r.value)
  <1>2. /\ On(s, RawNames)
        /\ s["origin_file"] = Str(r.origin_file) /\ s["key_hex"] = Str(K) /\ s["value_hex"] = Str(V)
        /\ s["seq"] = Bare(Num(r.seq)) /\ s["deleted"] = Bare(Bool(r.deleted))
    BY <1>1, RawShown, Zenon
  <1>3. /\ "origin_file" \in ColumnNames /\ "key_hex" \in ColumnNames /\ "value_hex" \in ColumnNames
    BY DEF ColumnNames
  <1>4. /\ "origin_file" \in RawNames /\ "key_hex" \in RawNames /\ "value_hex" \in RawNames
        /\ "seq" \in RawNames /\ "deleted" \in RawNames
    BY DEF RawNames
  <1>5. \A column : NameOf(r, column) = column
    BY <1>1, OwnNames
  <1>6. /\ InColumn(Num(r.seq), "seq", r) /\ InColumn(Bool(r.deleted), "deleted", r)
    BY <1>1, <1>2, <1>4, SeqColumns, Zenon
  <1>7. InColumn(F, "origin_file", r)
    BY <1>1, <1>2, <1>3, <1>4, <1>5, StrColumn, Zenon
  <1>8. InColumn(K, "key_hex", r) /\ InColumn(V, "value_hex", r)
    <2>1. /\ CellReads(K, K) /\ Guarded(K) = K
          /\ CellReads(V, V) /\ Guarded(V) = V
      BY <1>1, HexCell
    <2> QED
      BY <1>2, <1>3, <1>4, <1>5, <2>1, PlainColumn, Zenon
  <1> HIDE DEF F, K, V
  <1>9. RowPart(<<F>> \o <<Num(r.seq), Bool(r.deleted)>> \o <<K, V>>, raw_header, r)
    <2>1. RowPart(<<F>>, <<"origin_file">>, r)
      BY <1>7, PartOne, Zenon
    <2>2. RowPart(<<F>> \o <<Num(r.seq), Bool(r.deleted)>>,
                  Append(Append(<<"origin_file">>, "seq"), "deleted"), r)
      BY <1>6, <2>1, PartAndTwo, Zenon
    <2>3. Append(Append(<<"origin_file">>, "seq"), "deleted") = <<"origin_file", "seq", "deleted">>
      BY OneToThree, Zenon
    <2>4. RowPart((<<F>> \o <<Num(r.seq), Bool(r.deleted)>>) \o <<K, V>>,
                  Append(Append(<<"origin_file", "seq", "deleted">>, "key_hex"), "value_hex"), r)
      BY <1>8, <2>2, <2>3, PartAndTwo, Zenon
    <2>5. Append(Append(<<"origin_file", "seq", "deleted">>, "key_hex"), "value_hex") = raw_header
      BY ThreeToFive, Zenon DEF raw_header
    <2> QED
      BY <2>4, <2>5, Zenon
  <1>10. raw_csv(r) = Row(<<F>> \o <<Num(r.seq), Bool(r.deleted)>> \o <<K, V>>)
    BY Zenon DEF raw_csv, SeqCells, F, K, V
  <1>11. header = raw_header /\ mode \in Modes
    BY DEF header, Modes
  <1> QED
    BY <1>9, <1>10, <1>11, RecordRow, Zenon

\* The metadata of an origin.
LEMMA MetaRow ==
    ASSUME NEW r \in MetaRecord, PlainNumbers(r), mode = "Local"
    PROVE  LineReads(local_csv(r) \o <<"\n">>, [j \in DOMAIN header |-> Cell(r, header[j])])
           /\ [j \in DOMAIN header |-> Cell(r, header[j])] \in Seq(Seq(Token))
  <1>1. /\ r.kind = "Meta" /\ r.origin \in Seq(Token) /\ r.timestamp \in Nat
        /\ r.size \in Option(Nat) /\ r.seq \in Nat /\ r.deleted \in BOOLEAN
    BY TextIsTokens DEF MetaRecord
  <1> DEFINE s == Shown(r)
             A == <<"meta">>
             B == csv_field(r.origin)
             T == Num(r.timestamp)
             Z == MapOr(Nums(r.size), NoCell)
             cells == <<A, B, NoCell, NoCell, NoCell, NoCell, T, Z>>
  <1>2. /\ On(s, MetaNames)
        /\ s["kind"] = Str(A) /\ s["origin"] = Str(r.origin)
        /\ s["timestamp_webkit_micros"] = Bare(T)
        /\ s["size"] = IF r.size = {} THEN null ELSE Bare(Num(CHOOSE x \in r.size : TRUE))
        /\ s["seq"] = Bare(Num(r.seq)) /\ s["deleted"] = Bare(Bool(r.deleted))
    BY <1>1, MetaShown, Zenon
  <1>3. /\ "kind" \in ColumnNames /\ "origin" \in ColumnNames /\ "key" \in ColumnNames
        /\ "value" \in ColumnNames /\ "value_encoding" \in ColumnNames /\ "lossy" \in ColumnNames
        /\ "timestamp_webkit_micros" \in ColumnNames /\ "size" \in ColumnNames
    BY DEF ColumnNames
  <1>4. /\ "kind" \in MetaNames /\ "origin" \in MetaNames
        /\ "timestamp_webkit_micros" \in MetaNames /\ "size" \in MetaNames
        /\ "seq" \in MetaNames /\ "deleted" \in MetaNames
    BY DEF MetaNames
  <1>5. /\ "key" \notin MetaNames /\ "value" \notin MetaNames
        /\ "value_encoding" \notin MetaNames /\ "lossy" \notin MetaNames
    BY DEF MetaNames
  <1>6. \A column : NameOf(r, column) = column
    BY <1>1, OwnNames
  <1>7. InColumn(Num(r.seq), "seq", r) /\ InColumn(Bool(r.deleted), "deleted", r)
    BY <1>1, <1>2, <1>4, SeqColumns, Zenon
  <1>8. InColumn(A, "kind", r)
    <2>1. "meta" \in PlainWords
      BY DEF PlainWords
    <2>2. CellReads(A, A) /\ Guarded(A) = A
      BY <2>1, PlainCellOfOne
    <2> QED
      BY <1>2, <1>3, <1>4, <1>6, <2>2, PlainColumn, Zenon
  <1>9. InColumn(B, "origin", r)
    BY <1>1, <1>2, <1>3, <1>4, <1>6, StrColumn, Zenon
  <1>10. /\ InColumn(NoCell, "key", r) /\ InColumn(NoCell, "value", r)
         /\ InColumn(NoCell, "value_encoding", r) /\ InColumn(NoCell, "lossy", r)
    BY <1>2, <1>3, <1>5, <1>6, NoColumn, Zenon
  <1>11. InColumn(T, "timestamp_webkit_micros", r)
    <2>1. ToString(r.timestamp) \notin {"\n", "\r", "\"", ",", "null"}
      BY <1>1 DEF PlainNumbers, Numbers
    <2> QED
      BY <1>1, <1>2, <1>3, <1>4, <1>6, <2>1, NumColumn, Zenon
  <1>12. InColumn(Z, "size", r)
    <2>1. CASE r.size = {}
      <3>1. Nums(r.size) = {}
        BY <2>1 DEF Nums
      <3>2. Z = NoCell
        BY <3>1, MapOrIs, Zenon
      <3> QED
        BY <1>2, <1>3, <1>6, <2>1, <3>2, NoColumn, Zenon
    <2>2. CASE r.size # {}
      <3>0. \E x \in Nat : r.size = {x}
        BY <1>1, <2>2, OptionIs
      <3>1. PICK x \in Nat : r.size = {x}
        BY <3>0
      <3>2. Nums(r.size) = {Num(x)}
        BY <3>1, Zenon DEF Nums
      <3>3. Z = Num(x)
        BY <3>2, MapOrIs, Zenon
      <3>4. s["size"] = Bare(Num(x))
        BY <1>2, <2>2, <3>1, OneOf, Zenon
      <3>5. ToString(x) \notin {"\n", "\r", "\"", ",", "null"}
        BY <1>1, <3>1 DEF PlainNumbers, Numbers
      <3> QED
        BY <1>2, <1>3, <1>4, <1>6, <3>3, <3>4, <3>5, NumColumn, Zenon
    <2> QED
      BY <2>1, <2>2
  <1>13. local_csv(r) = Row(cells \o <<Num(r.seq), Bool(r.deleted)>>)
    BY <1>1 DEF local_csv, SeqCells
  <1> HIDE DEF A, B, T, Z
  <1>14. RowPart(cells, <<"kind", "origin", "key", "value", "value_encoding", "lossy",
                          "timestamp_webkit_micros", "size">>, r)
    BY <1>8, <1>9, <1>10, <1>11, <1>12, PartEight, Zenon
  <1> HIDE DEF cells
  <1>15. RowPart(cells \o <<Num(r.seq), Bool(r.deleted)>>, local_header, r)
    <2>1. RowPart(cells \o <<Num(r.seq), Bool(r.deleted)>>,
                  Append(Append(<<"kind", "origin", "key", "value", "value_encoding", "lossy",
                                  "timestamp_webkit_micros", "size">>, "seq"), "deleted"), r)
      BY <1>7, <1>14, PartAndTwo, Zenon
    <2>2. Append(Append(<<"kind", "origin", "key", "value", "value_encoding", "lossy",
                          "timestamp_webkit_micros", "size">>, "seq"), "deleted") = local_header
      BY EightToTen DEF local_header
    <2> QED
      BY <2>1, <2>2, Zenon
  <1>16. header = local_header /\ mode \in Modes
    BY DEF header, Modes
  <1> QED
    BY <1>13, <1>15, <1>16, RecordRow, Zenon

\* A stored item of an origin.
LEMMA DataRow ==
    ASSUME NEW r \in DataRecord, PlainNumbers(r), mode = "Local"
    PROVE  LineReads(local_csv(r) \o <<"\n">>, [j \in DOMAIN header |-> Cell(r, header[j])])
           /\ [j \in DOMAIN header |-> Cell(r, header[j])] \in Seq(Seq(Token))
  <1>1. /\ r.kind = "Data" /\ r.origin \in Seq(Token) /\ r.script_key \in StoredText
        /\ r.value \in StoredText /\ r.seq \in Nat /\ r.deleted \in BOOLEAN
    BY TextIsTokens DEF DataRecord
  <1> DEFINE s == Shown(r)
             v == r.value
             A == <<"data">>
             B == csv_field(r.origin)
             K == csv_field(r.script_key.text)
             V == csv_field(v.text)
             E == encoding_str(v)
             L == Bool(v.lossy)
             first == <<A, B, K>>
             six   == first \o <<V, E, L>>
             eight == six \o <<NoCell, NoCell>>
  <1>2. /\ On(s, DataNames)
        /\ s["kind"] = Str(A) /\ s["origin"] = Str(r.origin) /\ s["key"] = Str(r.script_key.text)
        /\ s["value"] = Str(v.text) /\ s["value_encoding"] = Str(E) /\ s["lossy"] = Bare(L)
        /\ s["seq"] = Bare(Num(r.seq)) /\ s["deleted"] = Bare(Bool(r.deleted))
    BY <1>1, DataShown, Zenon
  <1>3. /\ "kind" \in ColumnNames /\ "origin" \in ColumnNames /\ "key" \in ColumnNames
        /\ "timestamp_webkit_micros" \in ColumnNames /\ "size" \in ColumnNames
    BY DEF ColumnNames
  <1>4. /\ "kind" \in DataNames /\ "origin" \in DataNames /\ "key" \in DataNames
        /\ "value" \in DataNames /\ "value_encoding" \in DataNames /\ "lossy" \in DataNames
        /\ "seq" \in DataNames /\ "deleted" \in DataNames
    BY DEF DataNames
  <1>5. "timestamp_webkit_micros" \notin DataNames /\ "size" \notin DataNames
    BY DEF DataNames
  <1>6. r.kind # "Other" /\ \A column : NameOf(r, column) = column
    BY <1>1, OwnNames
  <1>7. InColumn(Num(r.seq), "seq", r) /\ InColumn(Bool(r.deleted), "deleted", r)
    BY <1>1, <1>2, <1>4, SeqColumns, Zenon
  <1>8. InColumn(A, "kind", r)
    <2>1. "data" \in PlainWords
      BY DEF PlainWords
    <2>2. CellReads(A, A) /\ Guarded(A) = A
      BY <2>1, PlainCellOfOne
    <2> QED
      BY <1>2, <1>3, <1>4, <1>6, <2>2, PlainColumn, Zenon
  <1>9. InColumn(B, "origin", r) /\ InColumn(K, "key", r)
    <2>1. r.script_key.text \in Seq(Token)
      BY <1>1, StoredTextType
    <2> QED
      BY <1>1, <1>2, <1>3, <1>4, <1>6, <2>1, StrColumn, Zenon
  <1>10. InColumn(V, "value", r) /\ InColumn(E, "value_encoding", r) /\ InColumn(L, "lossy", r)
    BY <1>1, <1>2, <1>4, <1>6, ValueColumns, Zenon
  <1>11. InColumn(NoCell, "timestamp_webkit_micros", r) /\ InColumn(NoCell, "size", r)
    BY <1>2, <1>3, <1>5, <1>6, NoColumn, Zenon
  <1>12. local_csv(r) = Row(eight \o <<Num(r.seq), Bool(r.deleted)>>)
    BY <1>1 DEF local_csv, SeqCells, ValueCells
  <1> HIDE DEF A, B, K, V, E, L
  <1>13. RowPart(first, <<"kind", "origin", "key">>, r)
    BY <1>8, <1>9, PartThree, Zenon
  <1> HIDE DEF first
  <1>14. RowPart(six, <<"kind", "origin", "key", "value", "value_encoding", "lossy">>, r)
    <2>1. RowPart(six, Append(Append(Append(<<"kind", "origin", "key">>, "value"), "value_encoding"),
                              "lossy"), r)
      BY <1>10, <1>13, PartAndThree, Zenon
    <2>2. Append(Append(Append(<<"kind", "origin", "key">>, "value"), "value_encoding"), "lossy")
              = <<"kind", "origin", "key", "value", "value_encoding", "lossy">>
      BY ThreeToSix
    <2> QED
      BY <2>1, <2>2, Zenon
  <1> HIDE DEF six
  <1>15. RowPart(eight, <<"kind", "origin", "key", "value", "value_encoding", "lossy",
                          "timestamp_webkit_micros", "size">>, r)
    <2>1. RowPart(eight, Append(Append(<<"kind", "origin", "key", "value", "value_encoding", "lossy">>,
                                       "timestamp_webkit_micros"), "size"), r)
      BY <1>11, <1>14, PartAndTwo, Zenon
    <2>2. Append(Append(<<"kind", "origin", "key", "value", "value_encoding", "lossy">>,
                        "timestamp_webkit_micros"), "size")
              = <<"kind", "origin", "key", "value", "value_encoding", "lossy",
                  "timestamp_webkit_micros", "size">>
      BY SixToEight
    <2> QED
      BY <2>1, <2>2, Zenon
  <1> HIDE DEF eight
  <1>16. RowPart(eight \o <<Num(r.seq), Bool(r.deleted)>>, local_header, r)
    <2>1. RowPart(eight \o <<Num(r.seq), Bool(r.deleted)>>,
                  Append(Append(<<"kind", "origin", "key", "value", "value_encoding", "lossy",
                                  "timestamp_webkit_micros", "size">>, "seq"), "deleted"), r)
      BY <1>7, <1>15, PartAndTwo, Zenon
    <2>2. Append(Append(<<"kind", "origin", "key", "value", "value_encoding", "lossy",
                          "timestamp_webkit_micros", "size">>, "seq"), "deleted") = local_header
      BY EightToTen DEF local_header
    <2> QED
      BY <2>1, <2>2, Zenon
  <1>17. header = local_header /\ mode \in Modes
    BY DEF header, Modes
  <1> QED
    BY <1>12, <1>16, <1>17, RecordRow, Zenon

\* A namespace of a session.
LEMMA NamespaceRow ==
    ASSUME NEW r \in NamespaceRecord, PlainNumbers(r), mode = "Session"
    PROVE  LineReads(session_csv(r) \o <<"\n">>, [j \in DOMAIN header |-> Cell(r, header[j])])
           /\ [j \in DOMAIN header |-> Cell(r, header[j])] \in Seq(Seq(Token))
  <1>1. /\ r.kind = "Namespace" /\ r.guid \in Seq(Token) /\ r.host \in Seq(Token)
        /\ r.map_id \in Seq(Token) /\ r.seq \in Nat /\ r.deleted \in BOOLEAN
    BY TextIsTokens DEF NamespaceRecord
  <1> DEFINE s == Shown(r)
             A == <<"namespace">>
             B == csv_field(r.guid)
             C == csv_field(r.host)
             D == csv_field(r.map_id)
             cells == <<A, B, C, D, NoCell, NoCell, NoCell, NoCell>>
  <1>2. /\ On(s, NamespaceNames)
        /\ s["kind"] = Str(A) /\ s["guid"] = Str(r.guid) /\ s["host"] = Str(r.host)
        /\ s["map_id"] = Str(r.map_id)
        /\ s["seq"] = Bare(Num(r.seq)) /\ s["deleted"] = Bare(Bool(r.deleted))
    BY <1>1, NamespaceShown, Zenon
  <1>3. /\ "kind" \in ColumnNames /\ "guid" \in ColumnNames /\ "host" \in ColumnNames
        /\ "map_id" \in ColumnNames /\ "key" \in ColumnNames /\ "value" \in ColumnNames
        /\ "value_encoding" \in ColumnNames /\ "lossy" \in ColumnNames
    BY DEF ColumnNames
  <1>4. /\ "kind" \in NamespaceNames /\ "guid" \in NamespaceNames
        /\ "host" \in NamespaceNames /\ "map_id" \in NamespaceNames
        /\ "seq" \in NamespaceNames /\ "deleted" \in NamespaceNames
    BY DEF NamespaceNames
  <1>5. /\ "key" \notin NamespaceNames /\ "value" \notin NamespaceNames
        /\ "value_encoding" \notin NamespaceNames /\ "lossy" \notin NamespaceNames
    BY DEF NamespaceNames
  <1>6. \A column : NameOf(r, column) = column
    BY <1>1, OwnNames
  <1>7. InColumn(Num(r.seq), "seq", r) /\ InColumn(Bool(r.deleted), "deleted", r)
    BY <1>1, <1>2, <1>4, SeqColumns, Zenon
  <1>8. InColumn(A, "kind", r)
    <2>1. "namespace" \in PlainWords
      BY DEF PlainWords
    <2>2. CellReads(A, A) /\ Guarded(A) = A
      BY <2>1, PlainCellOfOne
    <2> QED
      BY <1>2, <1>3, <1>4, <1>6, <2>2, PlainColumn, Zenon
  <1>9. InColumn(B, "guid", r) /\ InColumn(C, "host", r) /\ InColumn(D, "map_id", r)
    BY <1>1, <1>2, <1>3, <1>4, <1>6, StrColumn, Zenon
  <1>10. /\ InColumn(NoCell, "key", r) /\ InColumn(NoCell, "value", r)
         /\ InColumn(NoCell, "value_encoding", r) /\ InColumn(NoCell, "lossy", r)
    BY <1>2, <1>3, <1>5, <1>6, NoColumn, Zenon
  <1>11. session_csv(r) = Row(cells \o <<Num(r.seq), Bool(r.deleted)>>)
    BY <1>1 DEF session_csv, SeqCells
  <1> HIDE DEF A, B, C, D
  <1>12. RowPart(cells, <<"kind", "guid", "host", "map_id", "key", "value", "value_encoding",
                          "lossy">>, r)
    BY <1>8, <1>9, <1>10, PartEight, Zenon
  <1> HIDE DEF cells
  <1>13. RowPart(cells \o <<Num(r.seq), Bool(r.deleted)>>, session_header, r)
    <2>1. RowPart(cells \o <<Num(r.seq), Bool(r.deleted)>>,
                  Append(Append(<<"kind", "guid", "host", "map_id", "key", "value",
                                  "value_encoding", "lossy">>, "seq"), "deleted"), r)
      BY <1>7, <1>12, PartAndTwo, Zenon
    <2>2. Append(Append(<<"kind", "guid", "host", "map_id", "key", "value",
                          "value_encoding", "lossy">>, "seq"), "deleted") = session_header
      BY EightToTen DEF session_header
    <2> QED
      BY <2>1, <2>2, Zenon
  <1>14. header = session_header /\ mode \in Modes
    BY DEF header, Modes
  <1> QED
    BY <1>11, <1>13, <1>14, RecordRow, Zenon

\* Nothing, as a string.
LEMMA NoStringColumn ==
    ASSUME NEW r, NEW S, On(Shown(r), S), NEW column \in ColumnNames, NameOf(r, column) = column,
           column \notin S \/ Shown(r)[column] = null
    PROVE  InColumn(csv_field(<<>>), column, r)
  <1>1. Cell(r, column) = <<>>
    BY NoneCell, Zenon
  <1>2. CellReads(csv_field(<<>>), <<>>)
    <2>1. <<>> \in Seq(Token)
      OBVIOUS
    <2>2. Guarded(<<>>) = <<>>
      BY Zenon DEF Guarded
    <2> QED
      BY <2>1, <2>2, FieldReads, Zenon
  <1> QED
    BY <1>1, <1>2, Zenon DEF InColumn

\* A stored item of a session.
LEMMA MapRow ==
    ASSUME NEW r \in MapRecord, PlainNumbers(r), mode = "Session"
    PROVE  LineReads(session_csv(r) \o <<"\n">>, [j \in DOMAIN header |-> Cell(r, header[j])])
           /\ [j \in DOMAIN header |-> Cell(r, header[j])] \in Seq(Seq(Token))
  <1>1. /\ r.kind = "Map" /\ r.map_id \in Seq(Token) /\ r.host \in Option(Text)
        /\ r.script_key \in Seq(Token) /\ r.value \in StoredText
        /\ r.seq \in Nat /\ r.deleted \in BOOLEAN
    BY TextIsTokens DEF MapRecord
  <1> DEFINE s == Shown(r)
             v == r.value
             A == <<"map">>
             H == csv_field(MapOr(r.host, <<>>))
             M == csv_field(r.map_id)
             K == csv_field(r.script_key)
             V == csv_field(v.text)
             E == encoding_str(v)
             L == Bool(v.lossy)
             five  == <<A, NoCell, H, M, K>>
             eight == five \o <<V, E, L>>
  <1>2. /\ On(s, MapNames)
        /\ s["kind"] = Str(A) /\ s["map_id"] = Str(r.map_id) /\ s["key"] = Str(r.script_key)
        /\ s["host"] = IF r.host = {} THEN null ELSE Str(CHOOSE h \in r.host : TRUE)
        /\ s["value"] = Str(v.text) /\ s["value_encoding"] = Str(E) /\ s["lossy"] = Bare(L)
        /\ s["seq"] = Bare(Num(r.seq)) /\ s["deleted"] = Bare(Bool(r.deleted))
    BY <1>1, MapShown, Zenon
  <1>3. /\ "kind" \in ColumnNames /\ "guid" \in ColumnNames /\ "host" \in ColumnNames
        /\ "map_id" \in ColumnNames /\ "key" \in ColumnNames
    BY DEF ColumnNames
  <1>4. /\ "kind" \in MapNames /\ "host" \in MapNames /\ "map_id" \in MapNames /\ "key" \in MapNames
        /\ "value" \in MapNames /\ "value_encoding" \in MapNames /\ "lossy" \in MapNames
        /\ "seq" \in MapNames /\ "deleted" \in MapNames
    BY DEF MapNames
  <1>5. "guid" \notin MapNames
    BY DEF MapNames
  <1>6. r.kind # "Other" /\ \A column : NameOf(r, column) = column
    BY <1>1, OwnNames
  <1>7. InColumn(Num(r.seq), "seq", r) /\ InColumn(Bool(r.deleted), "deleted", r)
    BY <1>1, <1>2, <1>4, SeqColumns, Zenon
  <1>8. InColumn(A, "kind", r)
    <2>1. "map" \in PlainWords
      BY DEF PlainWords
    <2>2. CellReads(A, A) /\ Guarded(A) = A
      BY <2>1, PlainCellOfOne
    <2> QED
      BY <1>2, <1>3, <1>4, <1>6, <2>2, PlainColumn, Zenon
  <1>9. InColumn(M, "map_id", r) /\ InColumn(K, "key", r)
    BY <1>1, <1>2, <1>3, <1>4, <1>6, StrColumn, Zenon
  <1>10. InColumn(V, "value", r) /\ InColumn(E, "value_encoding", r) /\ InColumn(L, "lossy", r)
    BY <1>1, <1>2, <1>4, <1>6, ValueColumns, Zenon
  <1>11. InColumn(NoCell, "guid", r)
    BY <1>2, <1>3, <1>5, <1>6, NoColumn, Zenon
  <1>12. InColumn(H, "host", r)
    <2>1. CASE r.host = {}
      <3>1. MapOr(r.host, <<>>) = <<>>
        BY <2>1, MapOrIs, Zenon
      <3> QED
        BY <1>2, <1>3, <1>6, <2>1, <3>1, NoStringColumn, Zenon
    <2>2. CASE r.host # {}
      <3>0. \E h \in Text : r.host = {h}
        BY <1>1, <2>2, OptionIs
      <3>1. PICK h \in Text : r.host = {h}
        BY <3>0
      <3>2. MapOr(r.host, <<>>) = h
        BY <3>1, MapOrIs, Zenon
      <3>3. H = csv_field(h)
        BY <3>2, Zenon
      <3>4. s["host"] = Str(h)
        BY <1>2, <2>2, <3>1, OneOf, Zenon
      <3>5. h \in Seq(Token)
        BY TextIsTokens
      <3> QED
        BY <1>2, <1>3, <1>4, <1>6, <3>3, <3>4, <3>5, StrColumn, Zenon
    <2> QED
      BY <2>1, <2>2
  <1>13. session_csv(r) = Row(eight \o <<Num(r.seq), Bool(r.deleted)>>)
    BY <1>1 DEF session_csv, SeqCells, ValueCells
  <1> HIDE DEF A, H, M, K, V, E, L
  <1>14. RowPart(five, <<"kind", "guid", "host", "map_id", "key">>, r)
    BY <1>8, <1>9, <1>11, <1>12, PartFive, Zenon
  <1> HIDE DEF five
  <1>15. RowPart(eight, <<"kind", "guid", "host", "map_id", "key", "value", "value_encoding",
                          "lossy">>, r)
    <2>1. RowPart(eight, Append(Append(Append(<<"kind", "guid", "host", "map_id", "key">>,
                                              "value"), "value_encoding"), "lossy"), r)
      BY <1>10, <1>14, PartAndThree, Zenon
    <2>2. Append(Append(Append(<<"kind", "guid", "host", "map_id", "key">>,
                               "value"), "value_encoding"), "lossy")
              = <<"kind", "guid", "host", "map_id", "key", "value", "value_encoding", "lossy">>
      BY FiveToEight
    <2> QED
      BY <2>1, <2>2, Zenon
  <1> HIDE DEF eight
  <1>16. RowPart(eight \o <<Num(r.seq), Bool(r.deleted)>>, session_header, r)
    <2>1. RowPart(eight \o <<Num(r.seq), Bool(r.deleted)>>,
                  Append(Append(<<"kind", "guid", "host", "map_id", "key", "value",
                                  "value_encoding", "lossy">>, "seq"), "deleted"), r)
      BY <1>7, <1>15, PartAndTwo, Zenon
    <2>2. Append(Append(<<"kind", "guid", "host", "map_id", "key", "value",
                          "value_encoding", "lossy">>, "seq"), "deleted") = session_header
      BY EightToTen DEF session_header
    <2> QED
      BY <2>1, <2>2, Zenon
  <1>17. header = session_header /\ mode \in Modes
    BY DEF header, Modes
  <1> QED
    BY <1>13, <1>16, <1>17, RecordRow, Zenon

\* A key that is not understood, in its columns.
LEMMA OtherColumns ==
    ASSUME NEW r \in OtherRecord, PlainNumbers(r)
    PROVE  /\ r.kind = "Other"
           /\ InColumn(<<"other">>, "kind", r) /\ InColumn(hex(r.key), "key", r)
           /\ InColumn(Num(r.seq), "seq", r) /\ InColumn(Bool(r.deleted), "deleted", r)
           /\ \A column \in ColumnNames \ {"kind", "key", "key_hex", "seq", "deleted"} :
                  InColumn(NoCell, column, r)
  <1>1. r.kind = "Other" /\ r.key \in Bytes /\ r.seq \in Nat /\ r.deleted \in BOOLEAN
    BY DEF OtherRecord
  <1> DEFINE s == Shown(r)
             A == <<"other">>
             K == hex(r.key)
  <1>2. /\ On(s, OtherNames)
        /\ s["kind"] = Str(A) /\ s["key_hex"] = Str(K)
        /\ s["seq"] = Bare(Num(r.seq)) /\ s["deleted"] = Bare(Bool(r.deleted))
    BY <1>1, OtherShown, Zenon
  <1>3. "kind" \in ColumnNames /\ "key" \in ColumnNames
    BY DEF ColumnNames
  <1>4. /\ "kind" \in OtherNames /\ "key_hex" \in OtherNames
        /\ "seq" \in OtherNames /\ "deleted" \in OtherNames
    BY DEF OtherNames
  <1>5. /\ NameOf(r, "key") = "key_hex" /\ NameOf(r, "kind") = "kind"
        /\ \A column : column # "key" => NameOf(r, column) = column
    BY <1>1 DEF NameOf
  <1>6. InColumn(Num(r.seq), "seq", r) /\ InColumn(Bool(r.deleted), "deleted", r)
    BY <1>1, <1>2, <1>4, SeqColumns, Zenon
  <1>7. InColumn(A, "kind", r)
    <2>1. "other" \in PlainWords
      BY DEF PlainWords
    <2>2. CellReads(A, A) /\ Guarded(A) = A
      BY <2>1, PlainCellOfOne
    <2> QED
      BY <1>2, <1>3, <1>4, <1>5, <2>2, PlainColumn, Zenon
  <1>8. InColumn(K, "key", r)
    <2>1. CellReads(K, K) /\ Guarded(K) = K
      BY <1>1, HexCell
    <2> QED
      BY <1>2, <1>3, <1>4, <1>5, <2>1, PlainColumn, Zenon
  <1>9. ASSUME NEW column \in ColumnNames \ {"kind", "key", "key_hex", "seq", "deleted"}
        PROVE  InColumn(NoCell, column, r)
    <2>1. NameOf(r, column) = column /\ column \notin OtherNames /\ column \in ColumnNames
      BY <1>5 DEF OtherNames
    <2> QED
      BY <1>2, <2>1, NoColumn, Zenon
  <1> QED
    BY <1>1, <1>6, <1>7, <1>8, <1>9

\* A key that is not understood, in local storage.
LEMMA LocalOtherRow ==
    ASSUME NEW r \in OtherRecord, PlainNumbers(r), mode = "Local"
    PROVE  LineReads(local_csv(r) \o <<"\n">>, [j \in DOMAIN header |-> Cell(r, header[j])])
           /\ [j \in DOMAIN header |-> Cell(r, header[j])] \in Seq(Seq(Token))
  <1> DEFINE A == <<"other">>
             K == hex(r.key)
             cells == <<A, NoCell, K, NoCell, NoCell, NoCell, NoCell, NoCell>>
  <1>1. /\ r.kind = "Other" /\ InColumn(A, "kind", r) /\ InColumn(K, "key", r)
        /\ InColumn(Num(r.seq), "seq", r) /\ InColumn(Bool(r.deleted), "deleted", r)
        /\ \A column \in ColumnNames \ {"kind", "key", "key_hex", "seq", "deleted"} :
               InColumn(NoCell, column, r)
    BY OtherColumns, Zenon
  <1>2. {"origin", "value", "value_encoding", "lossy", "timestamp_webkit_micros", "size"}
            \subseteq ColumnNames \ {"kind", "key", "key_hex", "seq", "deleted"}
    BY DEF ColumnNames
  <1>3. /\ InColumn(NoCell, "origin", r) /\ InColumn(NoCell, "value", r)
        /\ InColumn(NoCell, "value_encoding", r) /\ InColumn(NoCell, "lossy", r)
        /\ InColumn(NoCell, "timestamp_webkit_micros", r) /\ InColumn(NoCell, "size", r)
    BY <1>1, <1>2
  <1>4. local_csv(r) = Row(cells \o <<Num(r.seq), Bool(r.deleted)>>)
    BY <1>1 DEF local_csv, SeqCells
  <1> HIDE DEF A, K
  <1>5. RowPart(cells, <<"kind", "origin", "key", "value", "value_encoding", "lossy",
                         "timestamp_webkit_micros", "size">>, r)
    BY <1>1, <1>3, PartEight, Zenon
  <1> HIDE DEF cells
  <1>6. RowPart(cells \o <<Num(r.seq), Bool(r.deleted)>>, local_header, r)
    <2>1. RowPart(cells \o <<Num(r.seq), Bool(r.deleted)>>,
                  Append(Append(<<"kind", "origin", "key", "value", "value_encoding", "lossy",
                                  "timestamp_webkit_micros", "size">>, "seq"), "deleted"), r)
      BY <1>1, <1>5, PartAndTwo, Zenon
    <2>2. Append(Append(<<"kind", "origin", "key", "value", "value_encoding", "lossy",
                          "timestamp_webkit_micros", "size">>, "seq"), "deleted") = local_header
      BY EightToTen DEF local_header
    <2> QED
      BY <2>1, <2>2, Zenon
  <1>7. header = local_header /\ mode \in Modes
    BY DEF header, Modes
  <1> QED
    BY <1>4, <1>6, <1>7, RecordRow, Zenon

\* A key that is not understood, in session storage.
LEMMA SessionOtherRow ==
    ASSUME NEW r \in OtherRecord, PlainNumbers(r), mode = "Session"
    PROVE  LineReads(session_csv(r) \o <<"\n">>, [j \in DOMAIN header |-> Cell(r, header[j])])
           /\ [j \in DOMAIN header |-> Cell(r, header[j])] \in Seq(Seq(Token))
  <1> DEFINE A == <<"other">>
             K == hex(r.key)
             cells == <<A, NoCell, NoCell, NoCell, K, NoCell, NoCell, NoCell>>
  <1>1. /\ r.kind = "Other" /\ InColumn(A, "kind", r) /\ InColumn(K, "key", r)
        /\ InColumn(Num(r.seq), "seq", r) /\ InColumn(Bool(r.deleted), "deleted", r)
        /\ \A column \in ColumnNames \ {"kind", "key", "key_hex", "seq", "deleted"} :
               InColumn(NoCell, column, r)
    BY OtherColumns, Zenon
  <1>2. {"guid", "host", "map_id", "value", "value_encoding", "lossy"}
            \subseteq ColumnNames \ {"kind", "key", "key_hex", "seq", "deleted"}
    BY DEF ColumnNames
  <1>3. /\ InColumn(NoCell, "guid", r) /\ InColumn(NoCell, "host", r)
        /\ InColumn(NoCell, "map_id", r) /\ InColumn(NoCell, "value", r)
        /\ InColumn(NoCell, "value_encoding", r) /\ InColumn(NoCell, "lossy", r)
    BY <1>1, <1>2
  <1>4. session_csv(r) = Row(cells \o <<Num(r.seq), Bool(r.deleted)>>)
    BY <1>1 DEF session_csv, SeqCells
  <1> HIDE DEF A, K
  <1>5. RowPart(cells, <<"kind", "guid", "host", "map_id", "key", "value", "value_encoding",
                         "lossy">>, r)
    BY <1>1, <1>3, PartEight, Zenon
  <1> HIDE DEF cells
  <1>6. RowPart(cells \o <<Num(r.seq), Bool(r.deleted)>>, session_header, r)
    <2>1. RowPart(cells \o <<Num(r.seq), Bool(r.deleted)>>,
                  Append(Append(<<"kind", "guid", "host", "map_id", "key", "value",
                                  "value_encoding", "lossy">>, "seq"), "deleted"), r)
      BY <1>1, <1>5, PartAndTwo, Zenon
    <2>2. Append(Append(<<"kind", "guid", "host", "map_id", "key", "value",
                          "value_encoding", "lossy">>, "seq"), "deleted") = session_header
      BY EightToTen DEF session_header
    <2> QED
      BY <2>1, <2>2, Zenon
  <1>7. header = session_header /\ mode \in Modes
    BY DEF header, Modes
  <1> QED
    BY <1>4, <1>6, <1>7, RecordRow, Zenon

\* Every record is rendered as a line that is read as its row.
LEMMA CsvRecordReads ==
    ASSUME mode \in Modes, format = "Csv", NEW r \in Record(mode), PlainNumbers(r)
    PROVE  LineReads(render(r) \o <<"\n">>, [j \in DOMAIN header |-> Cell(r, header[j])])
           /\ [j \in DOMAIN header |-> Cell(r, header[j])] \in Seq(Seq(Token))
  <1>1. CASE mode = "Raw"
    <2>1. r \in RawRecord /\ render(r) = raw_csv(r)
      BY <1>1 DEF Record, render
    <2> QED
      BY <1>1, <2>1, RawRow, Zenon
  <1>2. CASE mode = "Local"
    <2>1. /\ r \in MetaRecord \/ r \in DataRecord \/ r \in OtherRecord
          /\ render(r) = local_csv(r)
      BY <1>2 DEF Record, render
    <2> QED
      BY <1>2, <2>1, MetaRow, DataRow, LocalOtherRow, Zenon
  <1>3. CASE mode = "Session"
    <2>1. /\ r \in NamespaceRecord \/ r \in MapRecord \/ r \in OtherRecord
          /\ render(r) = session_csv(r)
      BY <1>3 DEF Record, render
    <2> QED
      BY <1>3, <2>1, NamespaceRow, MapRow, SessionOtherRow, Zenon
  <1> QED
    BY <1>1, <1>2, <1>3 DEF Modes

-----------------------------------------------------------------------------
(* The whole dump, as rows.                                                *)

\* The header row and the rows of the records.
RowsOf == <<[j \in DOMAIN header |-> <<header[j]>>]>>
            \o [k \in DOMAIN records |-> [j \in DOMAIN header |-> Cell(records[k], header[j])]]

\* Every line of the dump is read as its row.
LEMMA EveryRowReads ==
    ASSUME TypeOK, FromDecoded, format = "Csv"
    PROVE  /\ RowsOf \in Seq(Seq(Seq(Token))) /\ Len(RowsOf) = Len(records) + 1
           /\ \A n \in 0..Len(records) : LineReads(Line(n), RowsOf[n + 1])
  <1> DEFINE top    == [j \in DOMAIN header |-> <<header[j]>>]
             row(k) == [j \in DOMAIN header |-> Cell(records[k], header[j])]
             rows   == [k \in DOMAIN records |-> row(k)]
             one    == <<top>>
             N      == Len(records)
  <1>1. LineReads(Line(0), top) /\ top \in Seq(Seq(Token))
    BY HeaderReads
  <1>2. ASSUME NEW k \in DOMAIN records
        PROVE  LineReads(render(records[k]) \o <<"\n">>, row(k)) /\ row(k) \in Seq(Seq(Token))
    <2>1. mode \in Modes /\ records[k] \in Record(mode)
      BY ElementOfSeq DEF TypeOK
    <2>2. PlainNumbers(records[k])
      <3>1. records # <<>>
        BY DEF TypeOK
      <3>2. mode \in {"Raw", "Local", "Session"} /\ records \in Decoded[mode]
        BY <2>1, <3>1 DEF FromDecoded, Modes
      <3> QED
        BY <3>2, NumberAssumption DEF PlainNumbers
    <2> QED
      BY <2>1, <2>2, CsvRecordReads, Zenon
  <1>3. N \in Nat /\ DOMAIN records = 1..N
    BY DEF TypeOK
  <1>4. ASSUME NEW k \in 1..N
        PROVE  LineReads(Line(k), row(k))
    <2>1. k # 0 /\ k \in DOMAIN records
      BY <1>3
    <2>2. Line(k) = render(records[k]) \o <<"\n">>
      BY <2>1, Zenon DEF Line, HEADER
    <2> QED
      BY <1>2, <2>1, <2>2, Zenon
  <1>5. RowsOf = one \o rows
    BY Zenon DEF RowsOf
  <1>6. rows \in [1..N -> Seq(Seq(Token))] /\ \A k \in 1..N : rows[k] = row(k)
    BY <1>2, <1>3, Zenon
  <1> HIDE DEF top, row, rows, N
  <1>7. rows \in Seq(Seq(Seq(Token))) /\ Len(rows) = N
    BY <1>3, <1>6
  <1>8. one \in Seq(Seq(Seq(Token))) /\ Len(one) = 1 /\ one[1] = top
    <2>1. one \in Seq(Seq(Seq(Token)))
      BY <1>1, Ones, Zenon
    <2> QED
      BY <2>1
  <1> HIDE DEF one
  <1>9. /\ one \o rows \in Seq(Seq(Seq(Token))) /\ Len(one \o rows) = Len(one) + Len(rows)
        /\ \A k \in 1..Len(one) : (one \o rows)[k] = one[k]
        /\ \A k \in 1..Len(rows) : (one \o rows)[Len(one) + k] = rows[k]
    <2> DEFINE X == Seq(Seq(Token))
    <2>1. one \in Seq(X) /\ rows \in Seq(X)
      BY <1>7, <1>8
    <2> HIDE DEF X
    <2>2. /\ one \o rows \in Seq(X) /\ Len(one \o rows) = Len(one) + Len(rows)
          /\ \A k \in 1..Len(one) : (one \o rows)[k] = one[k]
          /\ \A k \in 1..Len(rows) : (one \o rows)[Len(one) + k] = rows[k]
      BY <2>1, ConcatFacts
    <2> QED
      BY <2>2 DEF X
  <1>10. /\ RowsOf \in Seq(Seq(Seq(Token))) /\ Len(RowsOf) = N + 1
         /\ RowsOf[1] = top /\ \A k \in 1..N : RowsOf[k + 1] = row(k)
    BY <1>3, <1>5, <1>6, <1>7, <1>8, <1>9
  <1>11. ASSUME NEW n \in 0..N
         PROVE  LineReads(Line(n), RowsOf[n + 1])
    <2>1. CASE n = 0
      <3>1. n + 1 = 1
        BY <2>1
      <3> QED
        BY <1>1, <1>10, <2>1, <3>1, Zenon
    <2>2. CASE n # 0
      <3>1. n \in 1..N
        BY <1>3, <2>2
      <3> QED
        BY <1>4, <1>10, <3>1, Zenon
    <2> QED
      BY <2>1, <2>2
  <1> QED
    BY <1>10, <1>11 DEF N

\* A parser of RFC 4180 reads in a whole csv dump the header row and one row
\* for each record with what it shows under each name, whatever separators,
\* quotes and line breaks its strings hold (render.rs:5-9, 107-166).
THEOREM CsvReadsBack == Spec => []CsvComesBack
  <1>1. ASSUME Inv, FromDecoded
        PROVE  CsvComesBack
    <2> SUFFICES ASSUME format = "Csv", exit = "success"
                 PROVE  ReadRows(output) = RowsOf
      BY Zenon DEF CsvComesBack, RowsOf
    <2>1. TypeOK /\ LinesWritten
      BY <1>1 DEF Inv
    <2>2. next = Len(records) + 1 /\ Len(records) \in Nat
      BY <2>1 DEF TypeOK
    <2>3. next # READING /\ exit # "failure"
      BY <2>2 DEF READING
    <2>4. output = Written(next)
      BY <2>1, <2>3 DEF LinesWritten
    <2>5. /\ RowsOf \in Seq(Seq(Seq(Token))) /\ Len(RowsOf) = Len(records) + 1
          /\ \A n \in 0..Len(records) : LineReads(Line(n), RowsOf[n + 1])
      BY <1>1, <2>1, EveryRowReads, Zenon
    <2>6. ReadRows(Written(Len(records) + 1)) = RowsOf
      BY <2>1, <2>5, RowsAreRead, Zenon
    <2> QED
      BY <2>2, <2>4, <2>6, Zenon
  <1> QED
    BY <1>1, Invariance, DecodedHolds, PTL
=============================================================================
