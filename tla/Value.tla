------------------------------- MODULE Value --------------------------------
(***************************************************************************)
(* leveldb-forensic/src/value.rs: the decoders of stored strings.          *)
(*                                                                         *)
(* A text is a sequence of characters, a character the one or two UTF-16   *)
(* code units it is made of; Latin-1 characters are units below BYTE.  The *)
(* triage text of an unknown prefix (from_utf8_lossy) is left out.         *)
(***************************************************************************)
EXTENDS Integers, Sequences, SequencesExt

CONSTANTS BYTE,         \* how many values a byte has: 256
          HIGH,         \* the upper bytes of the high surrogates
          LOW,          \* the upper bytes of the low surrogates
          REPLACEMENT   \* the unit of U+FFFD

ASSUME ByteAssumption ==
    /\ BYTE \in Nat /\ BYTE > 1
    /\ HIGH \cup LOW \subseteq 0..BYTE - 1
    /\ HIGH \cap LOW = {}
    /\ REPLACEMENT \in 0..BYTE * BYTE - 1

Encodings == {"Utf16Le", "Latin1", "Empty", "Unknown"}

StorageValue(text, raw, encoding, lossy) ==
    [text |-> text, raw |-> raw, encoding |-> encoding, lossy |-> lossy]

empty == StorageValue(<<>>, <<>>, "Empty", FALSE)

\* The little-endian code units of body; a trailing odd byte is left over.
Units(body) == [k \in 1..Len(body) \div 2 |-> body[2 * k - 1] + BYTE * body[2 * k]]

\* The bytes that Chromium stores for code units (external).
LittleEndian(us) ==
    [k \in 1..2 * Len(us) |-> IF k % 2 = 1 THEN us[(k + 1) \div 2] % BYTE
                                           ELSE us[k \div 2] \div BYTE]

IsHigh(u) == u \div BYTE \in HIGH
IsLow(u)  == u \div BYTE \in LOW

\* A surrogate pair starts at k.
PairAt(us, k) == /\ k \in 1..Len(us) - 1
                 /\ IsHigh(us[k])
                 /\ IsLow(us[k + 1])

\* Mutant: the second half of a pair is looked at on its own.
LoneSecondHalf(us, k) == (IsHigh(us[k]) \/ IsLow(us[k])) /\ ~PairAt(us, k)

LoneAt(us, k) == /\ IsHigh(us[k]) \/ IsLow(us[k])
                 /\ ~PairAt(us, k)
                 /\ ~PairAt(us, k - 1)

\* The characters that decode_utf16 yields when it comes to unit k.
CharsAt(us, k) == CASE PairAt(us, k)     -> <<<<us[k], us[k + 1]>>>>
                    [] PairAt(us, k - 1) -> <<>>
                    [] LoneAt(us, k)     -> <<<<REPLACEMENT>>>>
                    [] OTHER             -> <<<<us[k]>>>>

Text(us) == FlattenSeq([k \in DOMAIN us |-> CharsAt(us, k)])

\* Mutant: a replaced character does not make the value lossy.
DecodeSilently(body, raw) == StorageValue(Text(Units(body)), raw, "Utf16Le", Len(body) % 2 = 1)

decode_utf16le(body, raw) ==
    LET us == Units(body)
    IN  StorageValue(Text(us), raw, "Utf16Le",
                     Len(body) % 2 = 1 \/ \E k \in DOMAIN us : LoneAt(us, k))

\* Mutant: the raw bytes lose their prefix.
Latin1WithoutRaw(body, raw) ==
    StorageValue([k \in DOMAIN body |-> <<body[k]>>], body, "Latin1", FALSE)

decode_latin1(body, raw) ==
    StorageValue([k \in DOMAIN body |-> <<body[k]>>], raw, "Latin1", FALSE)

\* Script keys and values of Local Storage.
decode_type_prefixed(raw) ==
    IF raw = <<>> THEN empty
    ELSE CASE raw[1] = 0 -> decode_utf16le(Tail(raw), raw)
           [] raw[1] = 1 -> decode_latin1(Tail(raw), raw)
           [] OTHER      -> StorageValue(<<>>, raw, "Unknown", TRUE)

\* Values of Session Storage: the prefix is optional.
decode_session_value(raw) ==
    IF raw = <<>> THEN empty
    ELSE CASE raw[1] = 0 -> decode_utf16le(Tail(raw), raw)
           [] raw[1] = 1 -> decode_latin1(Tail(raw), raw)
           [] OTHER      -> decode_utf16le(raw, raw)
=============================================================================
