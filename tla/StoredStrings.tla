--------------------------- MODULE StoredStrings ----------------------------
(***************************************************************************)
(* One script string on its way through the store: Chromium encodes it     *)
(* (external), the stored bytes may lose their end or carry a prefix not   *)
(* known here, Value decodes them.                                         *)
(***************************************************************************)
EXTENDS Value

CONSTANT Strings        \* the script strings: sequences of code units

ASSUME StringsAssumption == Strings \subseteq Seq(0..BYTE * BYTE - 1)

VARIABLES written,      \* the string, which may hold lone surrogates
          codec,        \* how it was stored
          bytes,        \* what is stored of it
          value         \* what it is decoded to: at most one value

stringVars == <<written, codec, bytes, value>>

\* Local Storage prefixes the string, Session Storage does not.
Codecs == {"prefixed", "latin1", "session"}

Stored(us, c) == CASE c = "prefixed" -> <<0>> \o LittleEndian(us)
                   [] c = "latin1"   -> <<1>> \o us
                   [] c = "session"  -> LittleEndian(us)

StringInit == /\ written \in Strings
              /\ codec \in Codecs
              /\ codec = "latin1" => \A k \in DOMAIN written : written[k] < BYTE
              /\ bytes = Stored(written, codec)
              /\ value = {}

\* What is stored ends early.
Cut == /\ value = {}
       /\ bytes = Stored(written, codec)
       /\ \E n \in 0..Len(bytes) - 1 : bytes' = SubSeq(bytes, 1, n)
       /\ UNCHANGED <<written, codec, value>>

\* A prefix this decoder does not know.
Foreign == /\ value = {}
           /\ codec # "session"
           /\ bytes = Stored(written, codec)
           /\ \E b \in 2..BYTE - 1 : bytes' = [bytes EXCEPT ![1] = b]
           /\ UNCHANGED <<written, codec, value>>

Decode == /\ value = {}
          /\ value' = {IF codec = "session" THEN decode_session_value(bytes)
                                            ELSE decode_type_prefixed(bytes)}
          /\ UNCHANGED <<written, codec, bytes>>

Decoded == value # {} /\ UNCHANGED stringVars

StringNext == Cut \/ Foreign \/ Decode \/ Decoded

StringSpec == StringInit /\ [][StringNext]_stringVars

-----------------------------------------------------------------------------
\* The string is well-formed UTF-16.
WellPaired ==
    \A k \in DOMAIN written :
        /\ IsHigh(written[k]) => k < Len(written) /\ IsLow(written[k + 1])
        /\ IsLow(written[k])  => k > 1 /\ IsHigh(written[k - 1])

Whole == bytes = Stored(written, codec)

\* A string of Session Storage whose first byte looks like a prefix.
LooksPrefixed == codec = "session" /\ bytes # <<>> /\ bytes[1] \in {0, 1}

\* The text accounts for every byte: stored again it is the bytes, and so it is
\* what was written, or the start of it where the end is cut off.
Faithful(v) == \/ Stored(FlattenSeq(v.text), codec) = bytes
               \/ bytes = <<>> /\ v.text = <<>>

\* Every value keeps the stored bytes, and characters of one or two units.
StringTypeOK ==
    \A v \in value : /\ v.raw = bytes
                     /\ v.encoding \in Encodings
                     /\ v.lossy \in BOOLEAN
                     /\ \A k \in DOMAIN v.text : Len(v.text[k]) \in {1, 2}

\* A value is never marked clean when its text is not what the script stored
\* (value.rs:23-26): neither a lone surrogate nor a cut that leaves half a code
\* unit or half a pair goes unnoticed.
CleanMeansExact == \A v \in value : ~LooksPrefixed /\ ~v.lossy => Faithful(v)

\* A value is marked lossy only when something was lost: text that was stored
\* whole and is well-formed UTF-16 comes back clean, a genuine U+FFFD included
\* (value.rs:51-90).
LossyMeansLoss == \A v \in value : ~LooksPrefixed /\ WellPaired /\ Whole => ~v.lossy

\* "A caller cannot mistake a lossy decode for a clean one" (value.rs:23-26), of
\* every string, those of Session Storage included.
NeverMistaken == \A v \in value : ~v.lossy => Faithful(v)
=============================================================================
