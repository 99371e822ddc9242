------------------------------- MODULE MCDump -------------------------------
(***************************************************************************)
(* Instance of Dump.  The texts hold what the formats treat as special, at *)
(* the start, in the middle, twice and next to one another; each string of *)
(* each kind of record takes all of them, the other strings staying as     *)
(* they are.  A list is empty, or such a record before or after another.   *)
(***************************************************************************)
EXTENDS Dump

MCCodePoint == ("a" :> 97) @@ ("n" :> 110) @@ ("u" :> 117) @@ ("0" :> 48) @@ ("c" :> 99)
                 @@ (" " :> 32) @@ ("\"" :> 34) @@ ("'" :> 39) @@ ("," :> 44)
                 @@ ("=" :> 61) @@ ("-" :> 45) @@ ("\\" :> 92) @@ ("\t" :> 9) @@ ("\n" :> 10)
                 @@ ("\f" :> 12) @@ ("\r" :> 13) @@ ("U+FFFD" :> 65533)

Texts == {<<>>, <<"a">>, <<"\"">>, <<"\"", "\"">>, <<"a", "\"", "a">>, <<"\\">>, <<"\\", "\\">>,
          <<"\\", "n">>, <<"\\", "\"">>, <<"\"", "\\">>, <<"\\", "u", "0", "0", "0", "c">>, <<"\f">>,
          <<"a", "\f", "0">>, <<"\n">>, <<"a", "\n", "a">>, <<"\r">>, <<"\r", "\n">>, <<"\t">>,
          <<" ">>, <<",">>, <<"a", ",", "a">>, <<"\"", ",", "\"">>, <<"\"", "\n">>,
          <<"=", "a">>, <<"'", "=", "a">>, <<"-", "\"">>, <<"=", ",", "\n">>, <<"a", "=">>,
          <<"'">>}

\* What from_utf8_lossy puts in the place of a byte that is not UTF-8.
LossyTexts == {<<"U+FFFD">>, <<"0", "U+FFFD">>}

-----------------------------------------------------------------------------
\* The decoders of stored strings, on bytes.
V == INSTANCE Value WITH BYTE <- 256, HIGH <- 216..219, LOW <- 220..223, REPLACEMENT <- 65533

CharOf(units) == CHOOSE c \in DOMAIN CodePoint : <<CodePoint[c]>> = units

WithText(v) == [v EXCEPT !.text = [k \in DOMAIN v.text |-> CharOf(v.text[k])]]

\* Stored strings of every encoding; of UTF-16 a lossy one too.
Latin1(s)  == <<1>> \o [k \in DOMAIN s |-> CodePoint[s[k]]]
Stored     == {Latin1(s) : s \in Texts}
                \cup {<<>>, <<0>>, <<0, 97, 0, 34, 0>>, <<0, 0, 216>>, <<0, 97, 0, 97>>}
LocalText(raw)   == WithText(V!decode_type_prefixed(raw))
SessionText(raw) == WithText(V!decode_session_value(raw))
LocalValues      == {LocalText(raw) : raw \in Stored \cup {<<7>>, <<200, 1>>}}
SessionValues    == {SessionText(raw) : raw \in Stored \cup {<<97, 0>>, <<97, 0, 34>>}}

Numbered(r) == r @@ [seq |-> 7, deleted |-> FALSE]

\* The records that differ from r in one field, which takes every value.
Varied(r, field, values) == {[r EXCEPT ![field] = x] : x \in values}

Deleted(r) == [r EXCEPT !.deleted = TRUE, !.seq = 8]

Other == Numbered([kind |-> "Other", key |-> <<0, 255>>])
Raw   == Numbered([kind |-> "Raw", origin_file |-> <<"a">>, key |-> <<10, 34>>, value |-> <<>>])
Meta  == Numbered([kind |-> "Meta", origin |-> <<"a">>, timestamp |-> 0, size |-> {}])
Data  == Numbered([kind |-> "Data", origin |-> <<"a">>, script_key |-> LocalText(<<1, 97>>),
                   value |-> LocalText(<<1, 97>>)])
Namespace == Numbered([kind |-> "Namespace", guid |-> <<"a">>, host |-> <<"a">>,
                       map_id |-> <<"0">>])
Map == Numbered([kind |-> "Map", map_id |-> <<"0">>, host |-> {<<"a">>}, script_key |-> <<"a">>,
                 value |-> SessionText(<<1, 97>>)])

Records(m) ==
    CASE m = "Raw" -> {Raw, Deleted(Raw)} \cup Varied(Raw, "origin_file", Texts)
                        \cup Varied(Raw, "key", {<<>>, <<0>>})
                        \cup Varied(Raw, "value", {<<9, 160>>})
      [] m = "Local" -> {Meta, Deleted(Meta), Data, Other} \cup Varied(Meta, "origin", Texts)
                        \cup Varied(Meta, "size", {{0}, {5}}) \cup Varied(Data, "origin", Texts)
                        \cup Varied(Data, "script_key", LocalValues)
                        \cup Varied(Data, "value", LocalValues)
                        \cup {Deleted([Data EXCEPT !.value = V!empty])}
      [] m = "Session" -> {Namespace, Deleted(Namespace), Map, Other}
                        \cup Varied(Namespace, "guid", Texts) \cup Varied(Namespace, "host", Texts)
                        \cup Varied(Namespace, "map_id", Texts \cup LossyTexts)
                        \cup Varied(Map, "map_id", Texts)
                        \cup Varied(Map, "host", {{}} \cup {{s} : s \in Texts})
                        \cup Varied(Map, "script_key", Texts)
                        \cup Varied(Map, "value", SessionValues)
                        \cup {Deleted([Map EXCEPT !.value = V!empty])}

Others(m) == CASE m = "Raw" -> {Raw} [] m = "Local" -> {Meta, Data} [] m = "Session" -> {Namespace, Map}

MCDecoded == [m \in Modes |->
                 {<<>>} \cup {<<r, o>> : r \in Records(m), o \in Others(m)}
                   \cup {<<o, r>> : r \in Records(m), o \in Others(m)}]
=============================================================================
