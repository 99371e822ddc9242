--------------------------- MODULE MCLocalHistory ---------------------------
(***************************************************************************)
(* Instance of LocalHistory: every list of up to MaxRecords records.       *)
(***************************************************************************)
EXTENDS LocalHistory

CONSTANT MaxRecords     \* bound on the records of a list

\* Strings that are stored as Latin-1, as UTF-16 with zero bytes, with a NUL.
MCScripts == {<<>>, <<5>>, <<0, 5>>, <<16, 5>>, <<80>>}

MCOrigins == {<<6>>, <<6, 7>>}

Raw(key, value) == [key |-> key, value |-> value, seq |-> 4, deleted |-> FALSE]

\* A key of another kind, an entry without NUL, a script key of an unknown
\* prefix, metadata that is no protobuf, that starts with another field, that
\* has no varint for a time, that has no size or another field for it.
MCStray == {Raw(<<9>>, <<1>>),
            Raw(<<12, 6>>, <<1>>),
            Raw(<<12, 6, 0, 9>>, <<9>>),
            Raw(<<11, 6>>, <<8, 3, 5>>),
            Raw(<<11, 6>>, <<16, 3>>),
            Raw(<<11, 6>>, <<10, 3>>),
            Raw(<<11, 6>>, <<>>),
            Raw(<<11, 6>>, <<8, 3>>),
            Raw(<<11, 6>>, <<8, 3, 18, 2>>)}

MCInputs == UNION {[1..n -> Universe] : n \in 0..MaxRecords}
=============================================================================
