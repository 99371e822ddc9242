------------------------- MODULE LocalStorageProofs -------------------------
(***************************************************************************)
(* First proofs about the values, for any number of values of a byte and   *)
(* any surrogates: what the decoders of Value make of bytes and of strings *)
(* and, for StoredStrings, that the mark of a lossy value is right in both *)
(* directions.                                                             *)
(*                                                                         *)
(* Then proofs about LocalStorage, for any list of records, and about      *)
(* LocalHistory, for any lists of what Chromium writes: types, that every  *)
(* key can be put together again, and that entries and metadata come back. *)
(***************************************************************************)
EXTENDS LocalHistory, StoredStrings, SequenceLemmas

-----------------------------------------------------------------------------
(* The values.                                                             *)

Byte     == 0..BYTE - 1
CodeUnit == 0..BYTE * BYTE - 1

\* A code unit is its two bytes.
LEMMA Halves ==
    ASSUME NEW u \in CodeUnit
    PROVE  /\ u % BYTE \in Byte /\ u \div BYTE \in Byte
           /\ (u % BYTE) + BYTE * (u \div BYTE) = u
  <1>1. BYTE \in Nat /\ BYTE > 1
    BY ByteAssumption
  <1>2. BYTE * BYTE \in Nat
    BY <1>1
  <1>3. u % BYTE \in Byte /\ u \div BYTE \in Nat
    BY <1>1 DEF Byte, CodeUnit
  <1>4. (u % BYTE) + BYTE * (u \div BYTE) = u
    BY <1>1 DEF CodeUnit
  <1> QED
    BY <1>1, <1>2, <1>3, <1>4 DEF Byte, CodeUnit

\* Two bytes are those of the code unit they make.
LEMMA TwoBytes ==
    ASSUME NEW a \in Byte, NEW b \in Byte
    PROVE  /\ a + BYTE * b \in CodeUnit
           /\ (a + BYTE * b) % BYTE = a /\ (a + BYTE * b) \div BYTE = b
  <1>1. BYTE \in Nat /\ BYTE > 1
    BY ByteAssumption
  <1> QED
    BY <1>1 DEF Byte, CodeUnit

\* A function on the first numbers is a sequence.
LEMMA FunctionIsSeq ==
    ASSUME NEW X, NEW n \in Nat, NEW f \in [1..n -> X]
    PROVE  f \in Seq(X) /\ Len(f) = n
  OBVIOUS

\* Stored, code units are two bytes each, and these make the units again.
LEMMA StoredUnits ==
    ASSUME NEW us \in Seq(CodeUnit)
    PROVE  /\ LittleEndian(us) \in Seq(Byte)
           /\ Len(LittleEndian(us)) = 2 * Len(us)
           /\ Units(LittleEndian(us)) = us
  <1> DEFINE le == LittleEndian(us)
             n  == Len(us)
  <1>1. n \in Nat /\ 2 * n \in Nat
    OBVIOUS
  <1>2. ASSUME NEW k \in 1..n
        PROVE  /\ us[k] \in CodeUnit
               /\ le[2 * k - 1] = us[k] % BYTE /\ le[2 * k] = us[k] \div BYTE
    <2>1. /\ 2 * k - 1 \in 1..2 * n /\ (2 * k - 1) % 2 = 1 /\ ((2 * k - 1) + 1) \div 2 = k
          /\ 2 * k \in 1..2 * n /\ (2 * k) % 2 # 1 /\ (2 * k) \div 2 = k
      BY <1>1
    <2> QED
      BY <2>1 DEF LittleEndian
  <1>3. le \in [1..2 * n -> Byte]
    <2> SUFFICES ASSUME NEW k \in 1..2 * n
                 PROVE  le[k] \in Byte
      BY DEF LittleEndian
    <2>1. CASE k % 2 = 1
      <3>1. (k + 1) \div 2 \in 1..n
        BY <1>1, <2>1
      <3>2. us[(k + 1) \div 2] \in CodeUnit
        BY <3>1
      <3> QED
        BY <2>1, <3>2, Halves DEF LittleEndian
    <2>2. CASE k % 2 # 1
      <3>1. k \div 2 \in 1..n
        BY <1>1, <2>2
      <3>2. us[k \div 2] \in CodeUnit
        BY <3>1
      <3> QED
        BY <2>2, <3>2, Halves DEF LittleEndian
    <2> QED
      BY <2>1, <2>2
  <1> HIDE DEF le, n
  <1>4. le \in Seq(Byte) /\ Len(le) = 2 * n
    BY <1>1, <1>3, FunctionIsSeq
  <1>5. Units(le) \in [1..n -> CodeUnit] /\ \A k \in 1..n : Units(le)[k] = us[k]
    <2>1. Len(le) \div 2 = n
      BY <1>1, <1>4
    <2>2. \A k \in 1..n : Units(le)[k] = us[k] /\ us[k] \in CodeUnit
      BY <1>2, <2>1, Halves DEF Units
    <2> QED
      BY <2>1, <2>2 DEF Units
  <1>6. Units(le) \in Seq(CodeUnit) /\ Len(Units(le)) = n
    BY <1>1, <1>5, FunctionIsSeq
  <1>7. Units(le) = us
    BY <1>5, <1>6, SeqEqual DEF n
  <1> QED
    BY <1>4, <1>7 DEF le, n

\* Whole code units, stored again, are the bytes they were made of.
LEMMA UnitsStored ==
    ASSUME NEW body \in Seq(Byte)
    PROVE  /\ Units(body) \in Seq(CodeUnit)
           /\ Len(body) % 2 = 0 => LittleEndian(Units(body)) = body
  <1> DEFINE us == Units(body)
             n  == Len(body) \div 2
  <1>1. n \in Nat /\ Len(body) \in Nat /\ 2 * n <= Len(body)
        /\ (Len(body) % 2 = 0 => 2 * n = Len(body))
    OBVIOUS
  <1>2. ASSUME NEW k \in 1..n
        PROVE  /\ body[2 * k - 1] \in Byte /\ body[2 * k] \in Byte
               /\ us[k] = body[2 * k - 1] + BYTE * body[2 * k]
               /\ us[k] \in CodeUnit
               /\ us[k] % BYTE = body[2 * k - 1] /\ us[k] \div BYTE = body[2 * k]
    <2>1. 2 * k - 1 \in 1..Len(body) /\ 2 * k \in 1..Len(body)
      BY <1>1
    <2>2. body[2 * k - 1] \in Byte /\ body[2 * k] \in Byte
      BY <2>1
    <2>3. us[k] = body[2 * k - 1] + BYTE * body[2 * k]
      BY DEF Units
    <2> HIDE DEF us
    <2> QED
      BY <2>2, <2>3, TwoBytes
  <1>3. us \in [1..n -> CodeUnit]
    <2>1. us = [k \in 1..n |-> us[k]]
      BY DEF Units
    <2> HIDE DEF us, n
    <2> QED
      BY <1>2, <2>1
  <1> HIDE DEF us
  <1>4. us \in Seq(CodeUnit) /\ Len(us) = n
    BY <1>1, <1>3, FunctionIsSeq
  <1>5. ASSUME Len(body) % 2 = 0
        PROVE  LittleEndian(us) = body
    <2> HIDE DEF n
    <2>1. Len(LittleEndian(us)) = Len(body) /\ LittleEndian(us) \in Seq(Byte)
      BY <1>1, <1>4, <1>5, StoredUnits
    <2>2. ASSUME NEW k \in 1..2 * n
          PROVE  LittleEndian(us)[k] = body[k]
      <3>1. CASE k % 2 = 1
        <4>1. (k + 1) \div 2 \in 1..n /\ 2 * ((k + 1) \div 2) - 1 = k
          BY <1>1, <3>1
        <4>2. us[(k + 1) \div 2] % BYTE = body[k]
          BY <1>2, <4>1
        <4> QED
          BY <1>4, <3>1, <4>2 DEF LittleEndian
      <3>2. CASE k % 2 # 1
        <4>1. k \div 2 \in 1..n /\ 2 * (k \div 2) = k
          BY <1>1, <3>2
        <4>2. us[k \div 2] \div BYTE = body[k]
          BY <1>2, <4>1
        <4> QED
          BY <1>4, <3>2, <4>2 DEF LittleEndian
      <3> QED
        BY <3>1, <3>2
    <2>3. 2 * n = Len(body)
      BY <1>1, <1>5
    <2>4. \A k \in 1..Len(LittleEndian(us)) : LittleEndian(us)[k] = body[k]
      BY <2>1, <2>2, <2>3
    <2> QED
      BY <2>1, <2>4, SeqEqual
  <1> QED
    BY <1>4, <1>5 DEF us

-----------------------------------------------------------------------------
(* Text.                                                                   *)

\* A character: one code unit or two.
Char == {c \in Seq(CodeUnit) : Len(c) \in {1, 2}}

\* No unit is the first half of a pair and the second of another.
LEMMA PairsApart ==
    ASSUME NEW us \in Seq(CodeUnit), NEW k \in Nat, PairAt(us, k)
    PROVE  ~PairAt(us, k + 1)
  BY ByteAssumption DEF PairAt, IsHigh, IsLow

\* The four cases of a code unit, no two of which are one.
LEMMA CharsCases ==
    ASSUME NEW us \in Seq(CodeUnit), NEW k \in DOMAIN us
    PROVE  /\ PairAt(us, k) => CharsAt(us, k) = <<<<us[k], us[k + 1]>>>>
           /\ PairAt(us, k - 1) => CharsAt(us, k) = <<>>
           /\ LoneAt(us, k) => CharsAt(us, k) = <<<<REPLACEMENT>>>>
           /\ ~PairAt(us, k) /\ ~PairAt(us, k - 1) /\ ~LoneAt(us, k) =>
                  CharsAt(us, k) = <<<<us[k]>>>>
  <1>1. k - 1 \in Nat /\ (k - 1) + 1 = k
    OBVIOUS
  <1>2. ~(PairAt(us, k) /\ PairAt(us, k - 1))
    BY <1>1, PairsApart
  <1>3. LoneAt(us, k) => ~PairAt(us, k) /\ ~PairAt(us, k - 1)
    BY DEF LoneAt
  <1> QED
    BY <1>2, <1>3 DEF CharsAt

\* What comes out at a code unit is characters.
LEMMA CharsType ==
    ASSUME NEW us \in Seq(CodeUnit), NEW k \in DOMAIN us
    PROVE  CharsAt(us, k) \in Seq(Char)
  <1>1. us[k] \in CodeUnit /\ REPLACEMENT \in CodeUnit
    BY ByteAssumption DEF CodeUnit
  <1>2. CASE PairAt(us, k)
    <2>1. us[k + 1] \in CodeUnit
      BY <1>2 DEF PairAt
    <2>2. <<us[k], us[k + 1]>> \in Char
      BY <1>1, <2>1 DEF Char
    <2>3. CharsAt(us, k) = <<<<us[k], us[k + 1]>>>>
      BY <1>2, CharsCases
    <2> QED
      BY <2>2, <2>3
  <1>3. CASE ~PairAt(us, k)
    <2>1. <<us[k]>> \in Char /\ <<REPLACEMENT>> \in Char
      BY <1>1 DEF Char
    <2>2. \/ CharsAt(us, k) = <<>>
          \/ CharsAt(us, k) = <<<<us[k]>>>>
          \/ CharsAt(us, k) = <<<<REPLACEMENT>>>>
      BY <1>3, CharsCases
    <2>3. <<>> \in Seq(Char) /\ \A c \in Char : <<c>> \in Seq(Char)
      OBVIOUS
    <2> HIDE DEF Char
    <2> QED
      BY <2>1, <2>2, <2>3
  <1> QED
    BY <1>2, <1>3

\* The text of code units is characters.
LEMMA TextType ==
    ASSUME NEW us \in Seq(CodeUnit)
    PROVE  Text(us) \in Seq(Char)
  <1>1. [k \in DOMAIN us |-> CharsAt(us, k)] \in Seq(Seq(Char))
    BY CharsType
  <1> QED
    BY <1>1, FlattenType DEF Text

\* How many units the characters up to unit k are made of.
Upto(us, k) == IF PairAt(us, k) THEN k + 1 ELSE k

\* What comes out at unit k + 1 makes the units up to k those up to k + 1, when it
\* is not a lone surrogate.
LEMMA CharsStep ==
    ASSUME NEW us \in Seq(CodeUnit), NEW k \in Nat, k + 1 <= Len(us), ~LoneAt(us, k + 1),
           NEW t \in Seq(Char), FlattenSeq(t) = SubSeq(us, 1, Upto(us, k))
    PROVE  FlattenSeq(t \o CharsAt(us, k + 1)) = SubSeq(us, 1, Upto(us, k + 1))
  <1> DEFINE n == k + 1
  <1>1. n \in 1..Len(us) /\ Len(us) \in Nat /\ us[n] \in CodeUnit
    OBVIOUS
  <1>2. ASSUME NEW c \in Char
        PROVE  FlattenSeq(t \o <<c>>) = FlattenSeq(t) \o c
    <2>1. c \in Seq(CodeUnit) /\ t \in Seq(Seq(CodeUnit)) /\ t \o <<c>> = Append(t, c)
      BY SeqMonotonic DEF Char
    <2> QED
      BY <2>1, FlattenAppend
  <1>3. ASSUME NEW i \in 0..Len(us), NEW j \in i..Len(us)
        PROVE  SubSeq(us, 1, i) \o SubSeq(us, i + 1, j) = SubSeq(us, 1, j)
    <2>1. 1 \in 1..Len(us) + 1 /\ i \in 1 - 1..Len(us)
      BY <1>1
    <2> QED
      BY <1>3, <2>1, ConcatAdjacentSubSeq
  <1>4. CASE PairAt(us, n)
    <2>1. ~PairAt(us, k) /\ n + 1 \in 1..Len(us) /\ us[n + 1] \in CodeUnit
      BY <1>4, PairsApart DEF PairAt
    <2>2. <<us[n], us[n + 1]>> \in Char
      BY <1>1, <2>1 DEF Char
    <2>3. CharsAt(us, n) = <<<<us[n], us[n + 1]>>>>
      BY <1>4, CharsCases
    <2>4. FlattenSeq(t \o CharsAt(us, n)) = SubSeq(us, 1, k) \o <<us[n], us[n + 1]>>
      BY <1>2, <2>1, <2>2, <2>3 DEF Upto
    <2>5. SubSeq(us, k + 1, k + 2) = <<us[n], us[n + 1]>>
      <3> DEFINE pair == <<us[n], us[n + 1]>>
      <3>1. pair \in Seq(CodeUnit) /\ Len(pair) = 2 /\ k + 2 <= Len(us)
            /\ \A i \in 1..2 : us[k + i] = pair[i]
        BY <1>1, <2>1
      <3> HIDE DEF pair
      <3>2. SubSeq(us, k + 1, k + Len(pair)) = pair
        BY <3>1, PartIs
      <3> QED
        BY <3>1, <3>2 DEF pair
    <2>6. SubSeq(us, 1, k) \o SubSeq(us, k + 1, k + 2) = SubSeq(us, 1, k + 2)
      <3>1. k \in 0..Len(us) /\ k + 2 \in k..Len(us)
        BY <1>1, <2>1
      <3> QED
        BY <1>3, <3>1
    <2>7. Upto(us, n) = k + 2
      BY <1>4 DEF Upto
    <2> QED
      BY <2>4, <2>5, <2>6, <2>7
  <1>5. CASE PairAt(us, k)
    <2>1. ~PairAt(us, n) /\ (n - 1) = k
      BY <1>5, PairsApart
    <2>2. CharsAt(us, n) = <<>>
      BY <1>1, <1>5, <2>1, CharsCases
    <2>3. t \o <<>> = t
      OBVIOUS
    <2>4. Upto(us, k) = k + 1 /\ Upto(us, k + 1) = k + 1
      BY <1>5, <2>1 DEF Upto
    <2>5. FlattenSeq(t \o CharsAt(us, n)) = FlattenSeq(t)
      BY <2>2, <2>3
    <2> QED
      BY <2>4, <2>5, Zenon
  <1>6. CASE ~PairAt(us, n) /\ ~PairAt(us, k)
    <2>1. CharsAt(us, n) = <<<<us[n]>>>>
      BY <1>1, <1>6, CharsCases
    <2>2. <<us[n]>> \in Char
      BY <1>1 DEF Char
    <2>3. FlattenSeq(t \o CharsAt(us, n)) = SubSeq(us, 1, k) \o <<us[n]>>
      BY <1>2, <1>6, <2>1, <2>2 DEF Upto
    <2>4. SubSeq(us, n, n) = <<us[n]>>
      BY <1>1, PartOfOne
    <2>5. SubSeq(us, 1, k) \o SubSeq(us, k + 1, n) = SubSeq(us, 1, n)
      <3>1. k \in 0..Len(us) /\ n \in k..Len(us)
        BY <1>1
      <3> QED
        BY <1>3, <3>1
    <2> QED
      BY <1>6, <2>3, <2>4, <2>5 DEF Upto
  <1> QED
    BY <1>4, <1>5, <1>6

\* Code units without a lone surrogate are the units of their text.
LEMMA TextRejoins ==
    ASSUME NEW us \in Seq(CodeUnit), \A k \in DOMAIN us : ~LoneAt(us, k)
    PROVE  FlattenSeq(Text(us)) = us
  <1> DEFINE cs == [k \in DOMAIN us |-> CharsAt(us, k)]
             n  == Len(us)
  <1>1. cs \in Seq(Seq(Char)) /\ Len(cs) = n /\ n \in Nat /\ DOMAIN us = 1..n
    BY CharsType
  <1>2. \A k \in 1..n : cs[k] = CharsAt(us, k)
    OBVIOUS
  <1>3. Text(us) = FlattenSeq(cs)
    BY DEF Text
  <1> HIDE DEF cs
  <1>4. PICK f \in [0..Len(cs) -> Seq(Char)] : Flattens(cs, f) /\ FlattenSeq(cs) = f[Len(cs)]
    BY <1>1, FlattenSteps
  <1> DEFINE Good == {k \in Nat : k <= n => FlattenSeq(f[k]) = SubSeq(us, 1, Upto(us, k))}
  <1>5. 0 \in Good
    <2>1. ~PairAt(us, 0) /\ SubSeq(us, 1, 0) = <<>> /\ f[0] = <<>>
      BY <1>4 DEF PairAt, Flattens
    <2> QED
      BY <2>1, FlattenEmpty DEF Upto
  <1>6. ASSUME NEW k \in Nat, k \in Good
        PROVE  k + 1 \in Good
    <2> SUFFICES ASSUME k + 1 <= n
                 PROVE  FlattenSeq(f[k + 1]) = SubSeq(us, 1, Upto(us, k + 1))
      OBVIOUS
    <2>1. k + 1 \in 1..n /\ (k + 1) - 1 = k /\ k \in 0..n
      BY <1>1
    <2>2. f[k + 1] = f[k] \o CharsAt(us, k + 1)
      BY <1>1, <1>2, <1>4, <2>1 DEF Flattens
    <2>3. FlattenSeq(f[k]) = SubSeq(us, 1, Upto(us, k))
      BY <1>6, <2>1
    <2>5. f[k] \in Seq(Char)
      BY <1>1, <1>4, <2>1
    <2>4. ~LoneAt(us, k + 1)
      BY <1>1, <2>1
    <2> QED
      BY <2>2, <2>3, <2>4, <2>5, CharsStep
  <1> HIDE DEF Good
  <1>7. n \in Good
    BY <1>1, <1>5, <1>6, InductionOnSet
  <1>8. ~PairAt(us, n)
    BY <1>1 DEF PairAt
  <1>9. FlattenSeq(f[n]) = SubSeq(us, 1, n)
    BY <1>1, <1>7, <1>8 DEF Good, Upto
  <1> QED
    BY <1>1, <1>3, <1>4, <1>9, SubSeqFull

-----------------------------------------------------------------------------
(* The decoders.                                                           *)

\* A decoded value of stored bytes.
ValueOf(raw) == [text : Seq(Char), raw : {raw}, encoding : Encodings, lossy : BOOLEAN]

\* UTF-16 decodes to a value; where it is clean, its text stored again is the
\* bytes.
LEMMA Utf16Decoded ==
    ASSUME NEW body \in Seq(Byte), NEW raw
    PROVE  /\ decode_utf16le(body, raw) \in ValueOf(raw)
           /\ ~decode_utf16le(body, raw).lossy =>
                  LittleEndian(FlattenSeq(decode_utf16le(body, raw).text)) = body
  <1> DEFINE us == Units(body)
  <1>1. us \in Seq(CodeUnit) /\ Text(us) \in Seq(Char)
    BY UnitsStored, TextType
  <1>2. decode_utf16le(body, raw) =
            [text |-> Text(us), raw |-> raw, encoding |-> "Utf16Le",
             lossy |-> Len(body) % 2 = 1 \/ \E k \in DOMAIN us : LoneAt(us, k)]
    BY DEF decode_utf16le, StorageValue
  <1> HIDE DEF us
  <1>3. decode_utf16le(body, raw) \in ValueOf(raw)
    BY <1>1, <1>2 DEF ValueOf, Encodings
  <1>4. ASSUME ~decode_utf16le(body, raw).lossy
        PROVE  LittleEndian(FlattenSeq(decode_utf16le(body, raw).text)) = body
    <2>1. Len(body) % 2 # 1 /\ \A k \in DOMAIN us : ~LoneAt(us, k)
      <3> DEFINE loss == Len(body) % 2 = 1 \/ \E k \in DOMAIN us : LoneAt(us, k)
      <3>1. decode_utf16le(body, raw).lossy = loss
        BY <1>2
      <3> HIDE DEF loss
      <3>2. ~loss
        BY <1>4, <3>1, Zenon
      <3> QED
        BY <3>2 DEF loss
    <2>2. Len(body) % 2 = 0
      BY <2>1, Len(body) \in Nat
    <2>3. FlattenSeq(Text(us)) = us
      BY <1>1, <2>1, TextRejoins
    <2>4. LittleEndian(us) = body
      BY <2>2, UnitsStored DEF us
    <2> QED
      BY <1>2, <2>3, <2>4
  <1> QED
    BY <1>3, <1>4

\* Code units stored as UTF-16 come back; clean, when no surrogate is alone.
LEMMA Utf16ComesBack ==
    ASSUME NEW us \in Seq(CodeUnit), NEW raw, \A k \in DOMAIN us : ~LoneAt(us, k)
    PROVE  /\ ~decode_utf16le(LittleEndian(us), raw).lossy
           /\ FlattenSeq(decode_utf16le(LittleEndian(us), raw).text) = us
  <1>1. /\ LittleEndian(us) \in Seq(Byte)
        /\ Len(LittleEndian(us)) = 2 * Len(us)
        /\ Units(LittleEndian(us)) = us
    BY StoredUnits
  <1>2. (2 * Len(us)) % 2 # 1
    BY Len(us) \in Nat
  <1>3. /\ decode_utf16le(LittleEndian(us), raw).text = Text(us)
        /\ decode_utf16le(LittleEndian(us), raw).lossy = FALSE
    BY <1>1, <1>2 DEF decode_utf16le, StorageValue
  <1> QED
    BY <1>3, TextRejoins

\* Latin-1 always comes back, and clean.
LEMMA Latin1ComesBack ==
    ASSUME NEW body \in Seq(Byte), NEW raw
    PROVE  /\ decode_latin1(body, raw) \in ValueOf(raw)
           /\ ~decode_latin1(body, raw).lossy
           /\ FlattenSeq(decode_latin1(body, raw).text) = body
  <1> DEFINE chars == [k \in DOMAIN body |-> <<body[k]>>]
  <1>1. decode_latin1(body, raw) =
            [text |-> chars, raw |-> raw, encoding |-> "Latin1", lossy |-> FALSE]
    BY DEF decode_latin1, StorageValue
  <1>2. Byte \subseteq CodeUnit
    <2>1. BYTE \in Nat /\ BYTE > 1 /\ BYTE <= BYTE * BYTE
      BY ByteAssumption
    <2>2. BYTE * BYTE \in Nat
      BY <2>1
    <2> QED
      BY <2>1, <2>2 DEF Byte, CodeUnit
  <1>3. \A k \in DOMAIN body : <<body[k]>> \in Char
    BY <1>2 DEF Char
  <1>4. chars \in Seq(Char)
    BY <1>3
  <1>5. FlattenSeq(chars) = body
    BY FlattenOnes
  <1> HIDE DEF chars
  <1> QED
    BY <1>1, <1>4, <1>5 DEF ValueOf, Encodings

\* What the first byte decides.
LEMMA Branches ==
    ASSUME NEW raw, raw # <<>>
    PROVE  /\ raw[1] = 0 => /\ decode_type_prefixed(raw) = decode_utf16le(Tail(raw), raw)
                            /\ decode_session_value(raw) = decode_utf16le(Tail(raw), raw)
           /\ raw[1] = 1 => /\ decode_type_prefixed(raw) = decode_latin1(Tail(raw), raw)
                            /\ decode_session_value(raw) = decode_latin1(Tail(raw), raw)
           /\ raw[1] \notin {0, 1} =>
                 /\ decode_type_prefixed(raw) = StorageValue(<<>>, raw, "Unknown", TRUE)
                 /\ decode_session_value(raw) = decode_utf16le(raw, raw)
  <1>1. CASE raw[1] = 0
    BY <1>1 DEF decode_type_prefixed, decode_session_value
  <1>2. CASE raw[1] = 1
    BY <1>2 DEF decode_type_prefixed, decode_session_value
  <1>3. CASE raw[1] \notin {0, 1}
    BY <1>3 DEF decode_type_prefixed, decode_session_value
  <1> QED
    BY <1>1, <1>2, <1>3

\* A string with a prefix decodes to a value that keeps it, and so does one that
\* need not have one.
LEMMA DecodedValue ==
    ASSUME NEW raw \in Seq(Byte)
    PROVE  /\ decode_type_prefixed(raw) \in ValueOf(raw)
           /\ decode_session_value(raw) \in ValueOf(raw)
  <1>1. CASE raw = <<>>
    <2>1. empty = [text |-> <<>>, raw |-> raw, encoding |-> "Empty", lossy |-> FALSE]
      BY <1>1 DEF empty, StorageValue
    <2>2. <<>> \in Seq(Char)
      OBVIOUS
    <2> HIDE DEF Char
    <2>3. empty \in ValueOf(raw)
      BY <2>1, <2>2 DEF ValueOf, Encodings
    <2>4. decode_type_prefixed(raw) = empty /\ decode_session_value(raw) = empty
      BY <1>1 DEF decode_type_prefixed, decode_session_value
    <2> QED
      BY <2>3, <2>4
  <1>2. CASE raw # <<>>
    <2>1. Tail(raw) \in Seq(Byte)
      BY <1>2
    <2>2. /\ decode_utf16le(Tail(raw), raw) \in ValueOf(raw)
          /\ decode_latin1(Tail(raw), raw) \in ValueOf(raw)
          /\ decode_utf16le(raw, raw) \in ValueOf(raw)
      BY <2>1, Utf16Decoded, Latin1ComesBack
    <2>3. StorageValue(<<>>, raw, "Unknown", TRUE) \in ValueOf(raw)
      <3>1. <<>> \in Seq(Char)
        OBVIOUS
      <3> QED
        BY <3>1 DEF StorageValue, ValueOf, Encodings
    <2> QED
      BY <1>2, <2>2, <2>3, Branches
  <1> QED
    BY <1>1, <1>2

-----------------------------------------------------------------------------
(* StoredStrings, for strings of any length.                               *)

\* What is stored is bytes, under the prefix of its codec or a foreign one.
BytesInv ==
    /\ written \in Seq(CodeUnit)
    /\ codec \in Codecs
    /\ codec = "latin1" => written \in Seq(Byte)
    /\ bytes \in Seq(Byte)
    /\ codec = "prefixed" /\ bytes # <<>> => bytes[1] # 1
    /\ codec = "latin1" /\ bytes # <<>> => bytes[1] # 0

\* There is no value, or the one that the stored bytes decode to.
ValueInv ==
    \A v \in value : v = IF codec = "session" THEN decode_session_value(bytes)
                                              ELSE decode_type_prefixed(bytes)

\* The start of stored bytes is bytes, and keeps its first one.
LEMMA StartOf ==
    ASSUME NEW s \in Seq(Byte), NEW n \in 0..Len(s)
    PROVE  /\ SubSeq(s, 1, n) \in Seq(Byte)
           /\ SubSeq(s, 1, n) # <<>> => s # <<>> /\ SubSeq(s, 1, n)[1] = s[1]
  <1>1. Len(s) \in Nat /\ n \in Int /\ n <= Len(s) /\ 1 \in Nat \ {0}
    OBVIOUS
  <1>2. SubSeq(s, 1, n) \in Seq(Byte)
    BY <1>1, PartType
  <1>3. ASSUME SubSeq(s, 1, n) # <<>>
        PROVE  s # <<>> /\ SubSeq(s, 1, n)[1] = s[1]
    <2>1. n >= 1
      BY <1>1, <1>3
    <2> QED
      BY <1>1, <2>1
  <1> QED
    BY <1>2, <1>3

\* What is stored under a prefix is the prefix and the rest.
LEMMA UnderPrefix ==
    ASSUME NEW b \in Byte, NEW s \in Seq(Byte)
    PROVE  /\ <<b>> \o s \in Seq(Byte) /\ <<b>> \o s # <<>>
           /\ (<<b>> \o s)[1] = b /\ Tail(<<b>> \o s) = s
  OBVIOUS

\* A prefix and the rest are the bytes.
LEMMA PrefixAndRest ==
    ASSUME NEW s \in Seq(Byte), s # <<>>
    PROVE  /\ <<s[1]>> \o Tail(s) = s /\ Tail(s) \in Seq(Byte) /\ s[1] \in Byte
  OBVIOUS

\* Both prefixes are bytes.
LEMMA PrefixesAreBytes == {0, 1} \subseteq Byte
  BY ByteAssumption DEF Byte

\* The bytes that a codec stores.
LEMMA StoredBytes ==
    ASSUME NEW us \in Seq(CodeUnit)
    PROVE  /\ Stored(us, "prefixed") = <<0>> \o LittleEndian(us)
           /\ Stored(us, "latin1") = <<1>> \o us
           /\ Stored(us, "session") = LittleEndian(us)
           /\ LittleEndian(us) \in Seq(Byte)
  BY StoredUnits DEF Stored

\* The first states.
LEMMA BytesInit ==
    ASSUME StringInit
    PROVE  BytesInv /\ ValueInv
  <1>1. written \in Seq(CodeUnit) /\ codec \in Codecs
    BY StringsAssumption DEF StringInit, CodeUnit
  <1>2. ASSUME codec = "latin1"
        PROVE  written \in Seq(Byte)
    <2>1. \A k \in DOMAIN written : written[k] \in Byte
      BY <1>1, <1>2, ByteAssumption DEF StringInit, Byte, CodeUnit
    <2> QED
      BY <1>1, <2>1
  <1>3. BytesInv
    <2>1. bytes = Stored(written, codec)
      BY DEF StringInit
    <2>2. CASE codec = "prefixed"
      <3>1. bytes = <<0>> \o LittleEndian(written) /\ LittleEndian(written) \in Seq(Byte)
        BY <1>1, <2>1, <2>2, StoredBytes
      <3>2. bytes \in Seq(Byte) /\ bytes[1] = 0
        BY <3>1, UnderPrefix, PrefixesAreBytes
      <3> QED
        BY <1>1, <2>2, <3>2 DEF BytesInv
    <2>3. CASE codec = "latin1"
      <3>1. bytes = <<1>> \o written /\ written \in Seq(Byte)
        BY <1>1, <1>2, <2>1, <2>3, StoredBytes
      <3>2. bytes \in Seq(Byte) /\ bytes[1] = 1
        BY <3>1, UnderPrefix, PrefixesAreBytes
      <3> QED
        BY <1>1, <2>3, <3>1, <3>2 DEF BytesInv
    <2>4. CASE codec = "session"
      BY <1>1, <2>1, <2>4, StoredBytes DEF BytesInv
    <2> QED
      BY <1>1, <2>2, <2>3, <2>4 DEF Codecs
  <1> QED
    BY <1>3 DEF StringInit, ValueInv

\* A step keeps the bytes, and the value they decode to.
LEMMA BytesStep ==
    ASSUME BytesInv, ValueInv, [StringNext]_stringVars
    PROVE  BytesInv' /\ ValueInv'
  <1>1. CASE Cut
    <2>1. PICK n \in 0..Len(bytes) - 1 : bytes' = SubSeq(bytes, 1, n)
      BY <1>1 DEF Cut
    <2>2. n \in 0..Len(bytes) /\ bytes \in Seq(Byte)
      BY <2>1, Len(bytes) \in Nat DEF BytesInv
    <2>3. bytes' \in Seq(Byte) /\ (bytes' # <<>> => bytes # <<>> /\ bytes'[1] = bytes[1])
      BY <2>1, <2>2, StartOf
    <2> QED
      BY <1>1, <2>3 DEF Cut, BytesInv, ValueInv
  <1>2. CASE Foreign
    <2>1. PICK b \in 2..BYTE - 1 : bytes' = [bytes EXCEPT ![1] = b]
      BY <1>2 DEF Foreign
    <2>2. b \in Byte /\ b \notin {0, 1}
      BY ByteAssumption DEF Byte
    <2>3. bytes' \in Seq(Byte) /\ (bytes' # <<>> => bytes'[1] = b)
      <3>1. bytes \in Seq(Byte)
        BY DEF BytesInv
      <3>2. bytes # <<>>
        <4>1. bytes = <<0>> \o LittleEndian(written) \/ bytes = <<1>> \o written
          BY <1>2, StoredBytes DEF Foreign, BytesInv, Codecs
        <4>2. LittleEndian(written) \in Seq(Byte) /\ written \in Seq(CodeUnit)
          BY StoredBytes DEF BytesInv
        <4> QED
          BY <4>1, <4>2
      <3>3. 1 \in 1..Len(bytes) /\ Len(bytes) \in Nat /\ bytes \in [1..Len(bytes) -> Byte]
        BY <3>1, <3>2
      <3>4. bytes' \in [1..Len(bytes) -> Byte] /\ bytes'[1] = b
        BY <2>1, <2>2, <3>3
      <3>5. bytes' \in Seq(Byte)
        BY <3>3, <3>4, FunctionIsSeq
      <3> QED
        BY <3>4, <3>5
    <2> QED
      BY <1>2, <2>2, <2>3 DEF Foreign, BytesInv, ValueInv
  <1>3. CASE Decode
    BY <1>3 DEF Decode, BytesInv, ValueInv
  <1>4. CASE UNCHANGED stringVars
    BY <1>4 DEF stringVars, BytesInv, ValueInv
  <1> QED
    BY <1>1, <1>2, <1>3, <1>4 DEF StringNext, Decoded

\* Both hold of every reachable state.
LEMMA BytesDecode == StringSpec => [](BytesInv /\ ValueInv)
  BY BytesInit, BytesStep, PTL DEF StringSpec

\* Every value keeps the bytes it was decoded from, and its text is characters of
\* one code unit or two.
THEOREM StringTypeCorrect == StringSpec => []StringTypeOK
  <1>1. BytesInv /\ ValueInv => StringTypeOK
    <2> SUFFICES ASSUME BytesInv, ValueInv, NEW v \in value
                 PROVE  /\ v.raw = bytes
                        /\ v.encoding \in Encodings
                        /\ v.lossy \in BOOLEAN
                        /\ \A k \in DOMAIN v.text : Len(v.text[k]) \in {1, 2}
      BY DEF StringTypeOK
    <2>1. v \in ValueOf(bytes)
      BY DecodedValue DEF BytesInv, ValueInv
    <2>2. v.text \in Seq(Char) /\ v.raw = bytes /\ v.encoding \in Encodings
          /\ v.lossy \in BOOLEAN
      BY <2>1 DEF ValueOf
    <2> QED
      BY <2>2 DEF Char
  <1> QED
    BY <1>1, BytesDecode, PTL

\* A value that is not marked lossy has the text that was stored, or as much of it
\* as its bytes hold, unless the text of a Session Storage string looks like a
\* prefix: no lone surrogate, half unit or half pair goes unnoticed.
THEOREM CleanIsExact == StringSpec => []CleanMeansExact
  <1>1. BytesInv /\ ValueInv => CleanMeansExact
    <2> SUFFICES ASSUME BytesInv, ValueInv, NEW v \in value, ~LooksPrefixed, ~v.lossy
                 PROVE  Faithful(v)
      BY DEF CleanMeansExact
    <2> DEFINE text == FlattenSeq(v.text)
    <2>1. CASE bytes = <<>>
      <3>1. v = empty
        BY <2>1 DEF ValueInv, decode_type_prefixed, decode_session_value
      <3> QED
        BY <2>1, <3>1 DEF Faithful, empty, StorageValue
    <2>2. CASE bytes # <<>> /\ codec = "session"
      <3>1. bytes[1] \notin {0, 1}
        BY <2>2 DEF LooksPrefixed
      <3>2. v = decode_utf16le(bytes, bytes)
        BY <2>2, <3>1, Branches DEF ValueInv
      <3>3. LittleEndian(text) = bytes
        BY <3>2, Utf16Decoded DEF BytesInv
      <3> QED
        BY <2>2, <3>3 DEF Faithful, Stored
    <2>3. CASE bytes # <<>> /\ codec # "session"
      <3>1. /\ bytes[1] = 0 => v = decode_utf16le(Tail(bytes), bytes)
            /\ bytes[1] = 1 => v = decode_latin1(Tail(bytes), bytes)
            /\ bytes[1] \notin {0, 1} => v = StorageValue(<<>>, bytes, "Unknown", TRUE)
        BY <2>3, Branches DEF ValueInv
      <3>2. bytes[1] \in {0, 1}
        BY <3>1 DEF StorageValue
      <3>3. <<bytes[1]>> \o Tail(bytes) = bytes /\ Tail(bytes) \in Seq(Byte)
        BY <2>3, PrefixAndRest DEF BytesInv
      <3>4. CASE bytes[1] = 0
        <4>1. codec = "prefixed"
          BY <2>3, <3>4 DEF BytesInv, Codecs
        <4>2. LittleEndian(text) = Tail(bytes)
          BY <3>1, <3>3, <3>4, Utf16Decoded
        <4> QED
          BY <3>3, <3>4, <4>1, <4>2 DEF Faithful, Stored
      <3>5. CASE bytes[1] = 1
        <4>1. codec = "latin1"
          BY <2>3, <3>5 DEF BytesInv, Codecs
        <4>2. text = Tail(bytes)
          BY <3>1, <3>3, <3>5, Latin1ComesBack
        <4> QED
          BY <3>3, <3>5, <4>1, <4>2 DEF Faithful, Stored
      <3> QED
        BY <3>2, <3>4, <3>5
    <2> QED
      BY <2>1, <2>2, <2>3
  <1> QED
    BY <1>1, BytesDecode, PTL

\* In well-formed UTF-16 no surrogate is alone.
LEMMA NoneAlone ==
    ASSUME written \in Seq(CodeUnit), WellPaired
    PROVE  \A k \in DOMAIN written : ~LoneAt(written, k)
  <1> SUFFICES ASSUME NEW k \in DOMAIN written, LoneAt(written, k)
               PROVE  FALSE
    OBVIOUS
  <1>1. k \in 1..Len(written) /\ Len(written) \in Nat
    OBVIOUS
  <1>2. CASE IsHigh(written[k])
    <2>1. k < Len(written) /\ IsLow(written[k + 1])
      BY <1>2 DEF WellPaired
    <2> QED
      BY <1>1, <1>2, <2>1 DEF LoneAt, PairAt
  <1>3. CASE IsLow(written[k])
    <2>1. k > 1 /\ IsHigh(written[k - 1])
      BY <1>3 DEF WellPaired
    <2>2. k - 1 \in 1..Len(written) - 1 /\ (k - 1) + 1 = k
      BY <1>1, <2>1
    <2> QED
      BY <1>3, <2>1, <2>2 DEF LoneAt, PairAt
  <1> QED
    BY <1>2, <1>3 DEF LoneAt

\* A value is marked lossy only when something was lost: well-formed text that was
\* stored whole comes back clean, characters that stand for a replacement too.
THEOREM LossyIsLoss == StringSpec => []LossyMeansLoss
  <1>1. BytesInv /\ ValueInv => LossyMeansLoss
    <2> SUFFICES ASSUME BytesInv, ValueInv, NEW v \in value, ~LooksPrefixed, WellPaired, Whole
                 PROVE  ~v.lossy
      BY DEF LossyMeansLoss
    <2>1. /\ written \in Seq(CodeUnit)
          /\ \A k \in DOMAIN written : ~LoneAt(written, k)
          /\ LittleEndian(written) \in Seq(Byte)
      BY NoneAlone, StoredUnits DEF BytesInv
    <2>2. bytes = Stored(written, codec)
      BY DEF Whole
    <2>3. CASE codec = "prefixed"
      <3>1. bytes # <<>> /\ bytes[1] = 0 /\ Tail(bytes) = LittleEndian(written)
        BY <2>1, <2>2, <2>3, UnderPrefix, PrefixesAreBytes DEF Stored
      <3>2. v = decode_utf16le(LittleEndian(written), bytes)
        BY <2>3, <3>1, Branches DEF ValueInv
      <3> QED
        BY <2>1, <3>2, Utf16ComesBack
    <2>4. CASE codec = "latin1"
      <3>1. written \in Seq(Byte)
        BY <2>4 DEF BytesInv
      <3>2. bytes # <<>> /\ bytes[1] = 1 /\ Tail(bytes) = written
        BY <2>2, <2>4, <3>1, UnderPrefix, PrefixesAreBytes DEF Stored
      <3>3. v = decode_latin1(written, bytes)
        BY <2>4, <3>2, Branches DEF ValueInv
      <3> QED
        BY <3>1, <3>3, Latin1ComesBack
    <2>5. CASE codec = "session"
      <3>1. bytes = LittleEndian(written)
        BY <2>2, <2>5 DEF Stored
      <3>2. CASE bytes = <<>>
        <4>1. v = empty
          BY <2>5, <3>2 DEF ValueInv, decode_session_value
        <4> QED
          BY <4>1 DEF empty, StorageValue
      <3>3. CASE bytes # <<>>
        <4>1. bytes[1] \notin {0, 1}
          BY <2>5, <3>3 DEF LooksPrefixed
        <4>2. v = decode_utf16le(LittleEndian(written), bytes)
          BY <2>5, <3>1, <3>3, <4>1, Branches DEF ValueInv
        <4> QED
          BY <2>1, <4>2, Utf16ComesBack
      <3> QED
        BY <3>2, <3>3
    <2> QED
      BY <2>3, <2>4, <2>5 DEF BytesInv, Codecs
  <1> QED
    BY <1>1, BytesDecode, PTL

-----------------------------------------------------------------------------
(* The records of Local Storage.                                           *)

Raw == [key : Seq(Nat), value : Seq(Nat), seq : Nat, deleted : BOOLEAN]

TypeInv == /\ input \in Seq(Raw)
           /\ \E S : out \in Seq(S)
           /\ TypeOK

\* A key written with an underscore.
Underscored(o, s) == <<UNDERSCORE>> \o o \o <<NUL>> \o s

\* A key with an origin and a script key is split where the origin ends.
Splits(d, r) ==
    \A o \in Seq(Nat \ {NUL}), s \in Seq(Nat) :
        r.key = Underscored(o, s) =>
            /\ d.kind = "Data"
            /\ d.origin = o
            /\ d.script_key = decode_type_prefixed(s)
            /\ d.value = StoredValue(r)

\* Metadata that can be read is read, unless it was cleared.
Reads(d, r) ==
    \A o \in Seq(Nat) :
        r.key = <<META>> \o o =>
            /\ r.deleted \/ MetaParses(r.value) => d.kind = "Meta" /\ d.origin = o
            /\ r.deleted => d.size = {}
            /\ ~r.deleted /\ MetaParses(r.value) =>
                   d.timestamp = timestamp(r.value) /\ d.size = size(r.value)

\* What the pass makes of a record of the input: its kind and the fields of it.
Stands(d, r) ==
    /\ DOMAIN d = LocalStorageRecord[d.kind]
    /\ KeyOf(d) = r.key
    /\ d.seq = r.seq
    /\ d.deleted = r.deleted
    /\ Splits(d, r)
    /\ Reads(d, r)

StandsInv == \A k \in DOMAIN out : Stands(out[k], input[k])

-----------------------------------------------------------------------------
(* Keys.                                                                   *)

\* The bytes of a stored value are kept, whatever they are.
LEMMA RawKept ==
    ASSUME NEW raw
    PROVE  decode_type_prefixed(raw).raw = raw
  <1>1. CASE raw = <<>>
    BY <1>1 DEF decode_type_prefixed, empty, StorageValue
  <1>2. CASE raw # <<>>
    <2>1. /\ decode_utf16le(Tail(raw), raw).raw = raw
          /\ decode_latin1(Tail(raw), raw).raw = raw
          /\ StorageValue(<<>>, raw, "Unknown", TRUE).raw = raw
      BY DEF decode_utf16le, decode_latin1, StorageValue
    <2> QED
      BY <1>2, <2>1, Branches
  <1> QED
    BY <1>1, <1>2

\* The record the pass is at.
LEMMA ThisRecord ==
    ASSUME TypeInv, next <= Len(input)
    PROVE  /\ next \in DOMAIN input /\ next \in Nat \ {0}
           /\ this \in Raw
           /\ this.key \in Seq(Nat) /\ this.value \in Seq(Nat)
  <1>1. input \in Seq(Raw) /\ next \in 1..Len(input) + 1
    BY DEF TypeInv, TypeOK
  <1>2. Len(input) \in Nat /\ DOMAIN input = 1..Len(input)
    BY <1>1
  <1>3. next \in 1..Len(input)
    BY <1>1, <1>2
  <1>4. input[next] \in Raw
    BY <1>1, <1>3, ElementOfSeq
  <1> QED
    BY <1>2, <1>3, <1>4 DEF this, Raw

\* Where the origin ends: the first NUL after the underscore.
LEMMA NulFacts ==
    ASSUME Nuls # {}, this.key \in Seq(Nat)
    PROVE  /\ nul \in 2..Len(this.key) /\ this.key[nul] = NUL
           /\ \A k \in 2..nul - 1 : this.key[k] # NUL
  <1>1. Nuls \subseteq Nat
    BY DEF Nuls
  <1>2. nul \in Nuls /\ \A j \in Nuls : nul <= j
    BY <1>1, LeastNat DEF nul
  <1> QED
    BY <1>2 DEF Nuls

\* The parts of the key of an entry, put together again, are the key.
LEMMA Rejoin ==
    ASSUME Nuls # {}, this.key \in Seq(Nat), IsPrefix(<<UNDERSCORE>>, this.key)
    PROVE  <<UNDERSCORE>> \o origin \o <<NUL>> \o script_key.raw = this.key
  <1>1. PICK key \in Seq(Nat) : key = this.key
    OBVIOUS
  <1>2. PICK d \in 2..Len(key) : d = nul /\ key[d] = NUL
    BY <1>1, NulFacts
  <1>3. origin = SubSeq(key, 2, d - 1) /\ script_key.raw = SubSeq(key, d + 1, Len(key))
    BY <1>1, <1>2, RawKept DEF origin, script_key
  <1>4. <<UNDERSCORE>> = SubSeq(key, 1, 1)
    BY <1>1, <1>2 DEF IsPrefix
  <1>5. <<NUL>> = SubSeq(key, d, d)
    <2>1. d \in 1..Len(key)
      BY <1>2
    <2> QED
      BY <1>2, <2>1, PartOfOne
  <1>6. SubSeq(key, 1, 1) \o SubSeq(key, 2, d - 1) = SubSeq(key, 1, d - 1)
    <2>1. 1 \in 1..Len(key) + 1 /\ 1 \in 0..Len(key) /\ d - 1 \in 1..Len(key) /\ 1 + 1 = 2
          /\ 1 - 1 = 0
      BY <1>2
    <2> QED
      BY <2>1, ConcatAdjacentSubSeq, Zenon
  <1>7. SubSeq(key, 1, d - 1) \o SubSeq(key, d, d) = SubSeq(key, 1, d)
    <2>1. 1 \in 1..Len(key) + 1 /\ d - 1 \in 0..Len(key) /\ d \in d - 1..Len(key)
          /\ (d - 1) + 1 = d /\ 1 - 1 = 0
      BY <1>2
    <2> QED
      BY <2>1, ConcatAdjacentSubSeq, ZenonT(40)
  <1>8. SubSeq(key, 1, d) \o SubSeq(key, d + 1, Len(key)) = SubSeq(key, 1, Len(key))
    <2>1. 1 \in 1..Len(key) + 1 /\ d \in 0..Len(key) /\ Len(key) \in d..Len(key) /\ 1 - 1 = 0
      BY <1>2
    <2> QED
      BY <2>1, ConcatAdjacentSubSeq, Zenon
  <1>9. SubSeq(key, 1, Len(key)) = key
    BY SubSeqFull
  <1> QED
    BY <1>1, <1>3, <1>4, <1>5, <1>6, <1>7, <1>8, <1>9, Zenon

\* So are those of the key of metadata.
LEMMA MetaRejoin ==
    ASSUME NEW key \in Seq(Nat), IsPrefix(<<META>>, key)
    PROVE  <<META>> \o Tail(key) = key
  <1>1. Len(key) >= 1 /\ <<META>> = SubSeq(key, 1, 1)
    BY DEF IsPrefix
  <1>2. META = key[1]
    BY <1>1
  <1> QED
    BY <1>1, <1>2

\* Where the origin and the script key are in a key.
KeyParts(key, o, s) ==
    /\ key \in Seq(Nat) /\ key[1] = UNDERSCORE /\ Len(o) \in Nat
    /\ Len(o) + 2 \in 2..Len(key) /\ key[Len(o) + 2] = NUL
    /\ \A k \in 2..Len(o) + 1 : key[k] # NUL
    /\ o = SubSeq(key, 2, Len(o) + 1)
    /\ s = SubSeq(key, Len(o) + 3, Len(key))

\* They are there in the key written of them.
LEMMA KeyPlaces ==
    ASSUME NEW o \in Seq(Nat \ {NUL}), NEW s \in Seq(Nat)
    PROVE  KeyParts(Underscored(o, s), o, s)
  <1> DEFINE p   == <<UNDERSCORE>>
             n   == Len(o)
             key == Underscored(o, s)
  <1>1. p \in Seq(Nat) /\ Len(p) = 1 /\ p[1] = UNDERSCORE /\ NUL \in Nat
        /\ o \in Seq(Nat) /\ \A k \in 1..n : o[k] # NUL
    BY TokensAssumption, SeqMonotonic DEF NUL
  <1>2. /\ key \in Seq(Nat) /\ n \in Nat /\ Len(s) \in Nat
        /\ Len(key) = 1 + n + 1 + Len(s)
        /\ \A k \in 1..1 : key[k] = p[k]
        /\ \A k \in 1..n : key[1 + k] = o[k]
        /\ key[1 + n + 1] = NUL
        /\ SubSeq(key, 1 + 1, 1 + n) = o
        /\ SubSeq(key, 1 + n + 2, Len(key)) = s
    <2>1. p \in Seq(Nat) /\ o \in Seq(Nat) /\ NUL \in Nat /\ key = p \o o \o <<NUL>> \o s
      BY <1>1 DEF Underscored
    <2> HIDE DEF p, key
    <2>2. IsJoined(Nat, key, p, o, NUL, s)
      BY <2>1, JoinFacts
    <2> QED
      BY <1>1, <2>2 DEF IsJoined
  <1>3. \A k \in 2..n + 1 : key[k] # NUL
    <2> TAKE k \in 2..n + 1
    <2>1. k - 1 \in 1..n /\ 1 + (k - 1) = k
      BY <1>2
    <2> QED
      BY <1>1, <1>2, <2>1, SMTT(30)
  <1>4. 1 + 1 = 2 /\ 1 + n = n + 1 /\ 1 + n + 2 = n + 3 /\ 1 + n + 1 = n + 2
        /\ n + 2 \in 2..Len(key) /\ key[1] = UNDERSCORE
    BY <1>1, <1>2
  <1> HIDE DEF n, p, key
  <1>5. key[n + 2] = NUL /\ o = SubSeq(key, 2, n + 1) /\ s = SubSeq(key, n + 3, Len(key))
    BY <1>2, <1>4
  <1> QED
    BY <1>2, <1>3, <1>4, <1>5 DEF n, key, KeyParts

\* There is one way to take such a key apart.
LEMMA SplitOnce ==
    ASSUME NEW o1 \in Seq(Nat \ {NUL}), NEW s1 \in Seq(Nat),
           NEW o2 \in Seq(Nat \ {NUL}), NEW s2 \in Seq(Nat),
           Underscored(o1, s1) = Underscored(o2, s2)
    PROVE  o1 = o2 /\ s1 = s2
  <1> DEFINE key == Underscored(o1, s1)
  <1>1. KeyParts(key, o1, s1) /\ KeyParts(key, o2, s2)
    BY KeyPlaces
  <1> HIDE DEF key
  <1>2. /\ Len(o1) \in Nat /\ key[Len(o1) + 2] = NUL
        /\ \A k \in 2..Len(o1) + 1 : key[k] # NUL
        /\ Len(o2) \in Nat /\ key[Len(o2) + 2] = NUL
        /\ \A k \in 2..Len(o2) + 1 : key[k] # NUL
    BY <1>1 DEF KeyParts
  <1>3. ~(Len(o1) < Len(o2)) /\ ~(Len(o2) < Len(o1))
    BY <1>2
  <1>4. Len(o1) = Len(o2)
    BY <1>2, <1>3
  <1> QED
    BY <1>1, <1>4 DEF KeyParts

\* A key that is written with an underscore is one of an entry, and is split where
\* its origin ends.
LEMMA WrittenKey ==
    ASSUME NEW o \in Seq(Nat \ {NUL}), NEW s \in Seq(Nat),
           this.key = Underscored(o, s)
    PROVE  /\ this.key \in Seq(Nat)
           /\ IsPrefix(<<UNDERSCORE>>, this.key) /\ ~IsPrefix(<<META>>, this.key)
           /\ Nuls # {} /\ origin = o /\ script_key = decode_type_prefixed(s)
  <1> DEFINE p == <<UNDERSCORE>>
             n == Len(o)
  <1>1. PICK key : key = this.key
    OBVIOUS
  <1>2. /\ key \in Seq(Nat) /\ key[1] = UNDERSCORE /\ n \in Nat
        /\ n + 2 \in 2..Len(key) /\ key[n + 2] = NUL
        /\ \A k \in 2..n + 1 : key[k] # NUL
        /\ o = SubSeq(key, 2, n + 1) /\ s = SubSeq(key, n + 3, Len(key))
    <2>1. KeyParts(key, o, s)
      BY <1>1, KeyPlaces
    <2> QED
      BY <2>1 DEF KeyParts
  <1>3. IsPrefix(p, key)
    <2>1. p \in Seq(Nat) /\ key \in Seq(Nat) /\ Len(p) <= Len(key)
          /\ \A k \in 1..Len(p) : key[k] = p[k]
      BY <1>2, TokensAssumption
    <2> HIDE DEF p
    <2> QED
      BY <2>1, StartsWith
  <1>4. ~IsPrefix(<<META>>, key)
    <2>1. IsPrefix(<<META>>, key) => key[1] = META
      BY <1>2 DEF IsPrefix
    <2> QED
      BY <1>2, <2>1, TokensAssumption
  <1> HIDE DEF p, n
  <1>5. n + 2 \in Nuls
    BY <1>1, <1>2 DEF Nuls
  <1>6. nul = n + 2
    <2>1. nul \in 2..Len(key) /\ key[nul] = NUL /\ \A k \in 2..nul - 1 : key[k] # NUL
      BY <1>1, <1>2, <1>5, NulFacts
    <2>2. ~(nul <= n + 1)
      BY <1>2, <2>1
    <2>3. ~(n + 2 <= nul - 1)
      <3>1. n + 2 \in 2..nul - 1 => key[n + 2] # NUL
        BY <2>1
      <3>2. n + 2 \in 2..Len(key) /\ nul \in 2..Len(key) /\ key[n + 2] = NUL
        BY <1>2, <2>1
      <3> QED
        BY <1>2, <3>1, <3>2
    <2> QED
      BY <1>2, <2>1, <2>2, <2>3
  <1>7. nul - 1 = n + 1 /\ nul + 1 = n + 3
    BY <1>2, <1>6
  <1> QED
    BY <1>1, <1>2, <1>3, <1>4, <1>5, <1>7 DEF origin, script_key, p

\* A key that is written with META is one of metadata.
LEMMA WrittenMeta ==
    ASSUME NEW o \in Seq(Nat), NEW key, key = <<META>> \o o
    PROVE  /\ key \in Seq(Nat) /\ Tail(key) = o
           /\ IsPrefix(<<META>>, key) /\ ~IsPrefix(<<UNDERSCORE>>, key)
  <1> DEFINE p == <<META>>
  <1>1. p \in Seq(Nat) /\ Len(p) = 1 /\ key \in Seq(Nat) /\ Len(p) <= Len(key)
        /\ key[1] = META /\ Tail(key) = o
    BY TokensAssumption
  <1>2. \A k \in 1..Len(p) : key[k] = p[k]
    BY <1>1
  <1>3. IsPrefix(<<UNDERSCORE>>, key) => key[1] = UNDERSCORE
    BY <1>1 DEF IsPrefix
  <1>4. ~IsPrefix(<<UNDERSCORE>>, key)
    BY <1>1, <1>3, TokensAssumption
  <1> HIDE DEF p
  <1>5. IsPrefix(p, key)
    BY <1>1, <1>2, StartsWith
  <1> QED
    BY <1>1, <1>4, <1>5 DEF p

-----------------------------------------------------------------------------
(* Types, and keys that come out.                                          *)

\* Each action pushes one record, which stands for the one the pass is at.
LEMMA Pushes ==
    ASSUME TypeInv, ClearedMeta \/ LiveMeta \/ Data \/ Other
    PROVE  \E d : Push(d) /\ Stands(d, this)
  <1>1. next <= Len(input)
    BY DEF ClearedMeta, LiveMeta, Data, Other, IsMeta, HasUnderscore
  <1>2. this.key \in Seq(Nat)
    BY <1>1, ThisRecord
  <1>3. ASSUME NEW time, NEW optional, IsMeta,
               this.deleted => optional = {},
               ~this.deleted => time = timestamp(this.value) /\ optional = size(this.value)
        PROVE  Stands(Meta(time, optional), this)
    <2> DEFINE d == Meta(time, optional)
    <2>1. <<META>> \o Tail(this.key) = this.key
      BY <1>2, <1>3, MetaRejoin DEF IsMeta
    <2>2. d.kind = "Meta" /\ d.origin = Tail(this.key) /\ d.timestamp = time
          /\ d.size = optional /\ d.seq = this.seq /\ d.deleted = this.deleted
          /\ DOMAIN d = LocalStorageRecord[d.kind]
      BY DEF Meta, LocalStorageRecord
    <2>3. Splits(d, this)
      BY <1>3, WrittenKey DEF Splits, IsMeta
    <2> HIDE DEF d
    <2>4. Reads(d, this)
      BY <1>3, <2>2, WrittenMeta DEF Reads
    <2>5. KeyOf(d) = this.key
      BY <2>1, <2>2 DEF KeyOf
    <2>6. Stands(d, this)
      BY <2>2, <2>3, <2>4, <2>5 DEF Stands
    <2> QED
      BY <2>6 DEF d
  <1>4. CASE ClearedMeta
    BY <1>3, <1>4 DEF ClearedMeta
  <1>5. CASE LiveMeta
    BY <1>3, <1>5 DEF LiveMeta
  <1>6. CASE Data
    <2>1. PICK d : /\ Push(d)
                   /\ d = [kind |-> "Data", origin |-> origin, script_key |-> script_key,
                           value |-> StoredValue(this), seq |-> this.seq,
                           deleted |-> this.deleted]
      BY <1>6 DEF Data
    <2>2. <<UNDERSCORE>> \o origin \o <<NUL>> \o script_key.raw = this.key
      BY <1>2, <1>6, Rejoin DEF Data, HasUnderscore
    <2>3. KeyOf(d) = this.key /\ DOMAIN d = LocalStorageRecord[d.kind]
      BY <2>1, <2>2 DEF KeyOf, LocalStorageRecord
    <2>4. d.seq = this.seq /\ d.deleted = this.deleted
      BY <2>1
    <2>5. Splits(d, this)
      BY <2>1, WrittenKey DEF Splits, StoredValue
    <2>6. Reads(d, this)
      BY <1>6, WrittenMeta DEF Reads, Data, HasUnderscore
    <2> QED
      BY <2>1, <2>3, <2>4, <2>5, <2>6 DEF Stands
  <1>7. CASE Other
    <2>1. PICK d : /\ Push(d)
                   /\ d = [kind |-> "Other", key |-> this.key, seq |-> this.seq,
                           deleted |-> this.deleted]
      BY <1>7 DEF Other
    <2>2. KeyOf(d) = this.key /\ DOMAIN d = LocalStorageRecord[d.kind]
      BY <2>1 DEF KeyOf, LocalStorageRecord
    <2>3. Splits(d, this)
      BY <1>1, <1>7, WrittenKey DEF Splits, Other, IsMeta, HasUnderscore
    <2>4. Reads(d, this)
      <3> SUFFICES ASSUME NEW o \in Seq(Nat), this.key = <<META>> \o o
                   PROVE  ~this.deleted /\ ~MetaParses(this.value)
        BY DEF Reads
      <3>1. IsMeta /\ ~HasUnderscore
        BY <1>1, WrittenMeta DEF IsMeta, HasUnderscore
      <3> QED
        BY <1>7, <3>1 DEF Other
    <2>5. d.seq = this.seq /\ d.deleted = this.deleted
      BY <2>1
    <2> QED
      BY <2>1, <2>2, <2>3, <2>4, <2>5 DEF Stands
  <1> QED
    BY <1>4, <1>5, <1>6, <1>7

\* What a Push adds to the output, and where.
LEMMA PushFacts ==
    ASSUME TypeInv, NEW d, Push(d)
    PROVE  /\ \E S : out' \in Seq(S)
           /\ DOMAIN out = 1..next - 1
           /\ DOMAIN out' = 1..next /\ Len(out') = next
           /\ \A k \in 1..next - 1 : out'[k] = out[k]
           /\ out'[next] = d
           /\ UNCHANGED input
           /\ next' = next + 1 /\ next \in 1..Len(input) /\ next' \in 1..Len(input) + 1
  <1>1. Len(out) = next - 1 /\ next \in Nat /\ next \in 1..Len(input)
        /\ next + 1 \in 1..Len(input) + 1
    BY DEF TypeInv, TypeOK, Push
  <1>2. PICK S : out \in Seq(S)
    BY DEF TypeInv
  <1>3. out' = Append(out, d) /\ UNCHANGED input /\ next' = next + 1
    BY DEF Push
  <1>4. /\ Append(out, d) \in Seq(S \cup {d})
        /\ DOMAIN out = 1..Len(out)
        /\ DOMAIN Append(out, d) = 1..Len(out) + 1
        /\ Len(Append(out, d)) = Len(out) + 1
        /\ \A k \in 1..Len(out) : Append(out, d)[k] = out[k]
        /\ Append(out, d)[Len(out) + 1] = d
    BY <1>2, AppendFacts
  <1>5. Len(out) + 1 = next
    BY <1>1
  <1> QED
    BY <1>1, <1>3, <1>4, <1>5

\* A step either pushes a record or changes nothing.
LEMMA StepPushes ==
    ASSUME TypeInv, [Next]_vars
    PROVE  UNCHANGED vars \/ \E d : Push(d) /\ Stands(d, this)
  BY Pushes DEF Next, Finished

\* A step keeps the types and what the records stand for.
LEMMA StandsStep ==
    ASSUME TypeInv, StandsInv, [Next]_vars
    PROVE  TypeInv' /\ StandsInv'
  <1>1. CASE UNCHANGED vars
    BY <1>1 DEF vars, TypeInv, TypeOK, StandsInv
  <1>2. ASSUME NEW d, Push(d), Stands(d, this)
        PROVE  TypeInv' /\ StandsInv'
    <2>1. ASSUME NEW k \in DOMAIN out'
          PROVE  Stands(out'[k], input'[k])
      <3>1. CASE k = next
        BY <1>2, <3>1, PushFacts DEF this
      <3>2. CASE k # next
        <4>1. k \in 1..next - 1
          BY <1>2, <3>2, PushFacts, Len(input) \in Nat
        <4>2. k \in DOMAIN out /\ out'[k] = out[k] /\ input' = input
          BY <1>2, <4>1, PushFacts
        <4> QED
          BY <4>2 DEF StandsInv
      <3> QED
        BY <3>1, <3>2
    <2> QED
      BY <1>2, <2>1, PushFacts DEF TypeInv, TypeOK, StandsInv, Stands
  <1> QED
    BY <1>1, <1>2, StepPushes

\* Nothing is out at first.
LEMMA StandsInit ==
    ASSUME Init
    PROVE  TypeInv /\ StandsInv
  <1>1. input \in Seq(Raw)
    BY InputsAssumption DEF Init, Raw
  <1>2. out \in Seq({}) /\ Len(out) = 0 /\ DOMAIN out = {}
    BY DEF Init
  <1>3. next \in 1..Len(input) + 1
    BY <1>1 DEF Init
  <1> QED
    BY <1>1, <1>2, <1>3 DEF Init, TypeInv, TypeOK, StandsInv

\* Both hold of every reachable state.
LEMMA RecordsStand == Spec => [](TypeInv /\ StandsInv)
  BY StandsInit, StandsStep, PTL DEF Spec

\* The decoder of Local Storage keeps its types: one record comes out for each
\* record it has handled, with the fields of its kind.
THEOREM TypeCorrect == Spec => []TypeOK
  <1>1. TypeInv => TypeOK
    BY DEF TypeInv
  <1> QED
    BY <1>1, RecordsStand, PTL

\* Every record comes out in its place, whatever is in the list, and its key can
\* be put together again: no NUL of a script key is taken for the end of the
\* origin.
THEOREM NoKeyIsLost == Spec => []EveryKeyComesOut
  <1>1. StandsInv => EveryKeyComesOut
    BY DEF StandsInv, Stands, EveryKeyComesOut
  <1> QED
    BY <1>1, RecordsStand, PTL

-----------------------------------------------------------------------------
(* What Chromium writes.                                                   *)

\* The strings that scripts store come back from their prefixed form, clean.
LEMMA StringComesBack ==
    ASSUME NEW us \in Scripts
    PROVE  /\ Prefixed(us) \in Seq(Nat)
           /\ FlattenSeq(decode_type_prefixed(Prefixed(us)).text) = us
           /\ ~decode_type_prefixed(Prefixed(us)).lossy
  <1>1. us \in Seq(CodeUnit) /\ \A k \in DOMAIN us : ~LoneAt(us, k)
    BY HistoryAssumption DEF CodeUnit
  <1>2. {0, 1} \subseteq Byte /\ Byte \subseteq Nat
    BY ByteAssumption DEF Byte
  <1>3. ASSUME NEW b \in {0, 1}, NEW body \in Seq(Byte)
        PROVE  /\ <<b>> \o body \in Seq(Nat) /\ <<b>> \o body # <<>>
               /\ (<<b>> \o body)[1] = b /\ Tail(<<b>> \o body) = body
    <2>1. body \in Seq(Nat)
      BY <1>2, SeqMonotonic
    <2> QED
      BY <2>1
  <1>4. CASE \A k \in DOMAIN us : us[k] < BYTE
    <2>1. us \in Seq(Byte)
      <3>1. \A k \in DOMAIN us : us[k] \in Byte
        BY <1>1, <1>4, ByteAssumption DEF Byte, CodeUnit
      <3> QED
        BY <1>1, <3>1
    <2>2. Prefixed(us) = <<1>> \o us
      BY <1>4 DEF Prefixed
    <2>3. decode_type_prefixed(<<1>> \o us) = decode_latin1(us, <<1>> \o us)
      BY <1>3, <2>1, Branches
    <2> QED
      BY <1>3, <2>1, <2>2, <2>3, Latin1ComesBack
  <1>5. CASE ~\A k \in DOMAIN us : us[k] < BYTE
    <2>1. LittleEndian(us) \in Seq(Byte)
      BY <1>1, StoredUnits
    <2>2. Prefixed(us) = <<0>> \o LittleEndian(us)
      BY <1>5 DEF Prefixed
    <2>3. decode_type_prefixed(<<0>> \o LittleEndian(us))
              = decode_utf16le(LittleEndian(us), <<0>> \o LittleEndian(us))
      BY <1>3, <2>1, Branches
    <2> QED
      BY <1>1, <1>3, <2>1, <2>2, <2>3, Utf16ComesBack
  <1> QED
    BY <1>4, <1>5

\* The key of an entry has one origin and one script key.
LEMMA EntryKeyOnce ==
    ASSUME NEW o1 \in Origins, NEW k1 \in Scripts, NEW o2 \in Origins, NEW k2 \in Scripts,
           EntryKey(o1, k1) = EntryKey(o2, k2)
    PROVE  o1 = o2 /\ k1 = k2
  <1>1. o1 \in Seq(Nat \ {NUL}) /\ o2 \in Seq(Nat \ {NUL})
    BY HistoryAssumption
  <1>2. Prefixed(k1) \in Seq(Nat) /\ Prefixed(k2) \in Seq(Nat)
    BY StringComesBack
  <1>3. o1 = o2 /\ Prefixed(k1) = Prefixed(k2)
    <2>1. Underscored(o1, Prefixed(k1)) = Underscored(o2, Prefixed(k2))
      BY DEF EntryKey, Underscored
    <2> QED
      BY <1>1, <1>2, <2>1, SplitOnce
  <1> QED
    BY <1>3, StringComesBack

\* Every tombstone is marked as one.
LEMMA TombstonesAreDeleted ==
    ASSUME NEW r \in Tombstones
    PROVE  r.deleted
  <1>1. ASSUME NEW q \in Entries \cup MetaRecords
        PROVE  [q EXCEPT !.value = <<>>, !.seq = 3, !.deleted = TRUE].deleted = TRUE
    BY DEF Entries, Entry, MetaRecords
  <1> QED
    BY <1>1 DEF Tombstones

\* A live record with the key of an entry is that entry.
LEMMA EntryOfKey ==
    ASSUME NEW r \in Universe, NEW o \in Origins, NEW k \in Scripts,
           r.key = EntryKey(o, k), ~r.deleted
    PROVE  \E v \in Scripts : r = Entry(o, k, v)
  <1>1. r \notin Stray
    BY HistoryAssumption
  <1>2. r \notin Tombstones
    BY TombstonesAreDeleted
  <1>3. r \notin MetaRecords
    <2> SUFFICES ASSUME NEW m \in Origins, r.key = <<META>> \o m
                 PROVE  FALSE
      BY DEF MetaRecords, MetaKey
    <2>1. m \in Seq(Nat) /\ o \in Seq(Nat \ {NUL}) /\ Prefixed(k) \in Seq(Nat)
      BY HistoryAssumption, StringComesBack, SeqMonotonic
    <2>2. r.key[1] = META
      BY <2>1, TokensAssumption
    <2>3. r.key[1] = UNDERSCORE
      BY <2>1, KeyPlaces DEF EntryKey, Underscored, KeyParts
    <2> QED
      BY <2>2, <2>3, TokensAssumption
  <1>4. PICK o2 \in Origins, k2 \in Scripts, v \in Scripts : r = Entry(o2, k2, v)
    BY <1>1, <1>2, <1>3 DEF Universe, Entries
  <1>5. o2 = o /\ k2 = k
    BY <1>4, EntryKeyOnce DEF Entry
  <1> QED
    BY <1>4, <1>5

\* The records decoded are ones that may be in the files.
FilesInv == input \in Seq(Universe)

\* They stay so.
LEMMA Filed == Spec => []FilesInv
  <1>1. Init => FilesInv
    BY HistoryAssumption DEF Init, FilesInv
  <1>2. FilesInv /\ [Next]_vars => FilesInv'
    BY DEF FilesInv, Next, ClearedMeta, LiveMeta, Data, Other, Push, Finished, vars
  <1> QED
    BY <1>1, <1>2, PTL DEF Spec

\* The records that are out are those of the first records of the input.
LEMMA OutOfInput ==
    ASSUME TypeInv, FilesInv, NEW n \in DOMAIN out
    PROVE  n \in DOMAIN input /\ input[n] \in Universe
  <1>1. n \in 1..Len(out) /\ Len(out) = next - 1 /\ next \in 1..Len(input) + 1
        /\ Len(input) \in Nat
    BY DEF TypeInv, TypeOK
  <1>2. n \in 1..Len(input)
    BY <1>1
  <1> QED
    BY <1>2, ElementOfSeq DEF FilesInv

\* An entry is attributed to its origin, with the key and the value the script
\* used, whatever zero bytes are in them; its tombstone to the same key with no
\* value.
THEOREM EntriesAreDecoded == Spec => []EntriesComeBack
  <1>1. TypeInv /\ StandsInv /\ FilesInv => EntriesComeBack
    <2> SUFFICES ASSUME TypeInv, StandsInv, FilesInv,
                        NEW n \in DOMAIN out, NEW o \in Origins, NEW k \in Scripts,
                        input[n].key = EntryKey(o, k)
                 PROVE  /\ out[n].kind = "Data"
                        /\ out[n].origin = o
                        /\ FlattenSeq(out[n].script_key.text) = k
                        /\ out[n].deleted => out[n].value = empty
                        /\ ~out[n].deleted =>
                              \E v \in Scripts : /\ input[n] = Entry(o, k, v)
                                                 /\ FlattenSeq(out[n].value.text) = v
                                                 /\ ~out[n].value.lossy
      BY DEF EntriesComeBack
    <2>1. /\ input[n].key = Underscored(o, Prefixed(k))
          /\ o \in Seq(Nat \ {NUL}) /\ Prefixed(k) \in Seq(Nat)
      BY HistoryAssumption, StringComesBack DEF EntryKey, Underscored
    <2>2. Splits(out[n], input[n]) /\ out[n].deleted = input[n].deleted
      BY DEF StandsInv, Stands
    <2>3. /\ out[n].kind = "Data"
          /\ out[n].origin = o
          /\ out[n].script_key = decode_type_prefixed(Prefixed(k))
          /\ out[n].value = StoredValue(input[n])
      BY <2>1, <2>2 DEF Splits
    <2>4. ASSUME ~out[n].deleted
          PROVE  \E v \in Scripts : /\ input[n] = Entry(o, k, v)
                                    /\ FlattenSeq(out[n].value.text) = v
                                    /\ ~out[n].value.lossy
      <3>1. PICK v \in Scripts : input[n] = Entry(o, k, v)
        BY <2>2, <2>4, OutOfInput, EntryOfKey
      <3>2. input[n].value = Prefixed(v)
        BY <3>1 DEF Entry
      <3>3. out[n].value = decode_type_prefixed(Prefixed(v))
        BY <2>2, <2>3, <2>4, <3>2 DEF StoredValue
      <3> QED
        BY <3>1, <3>3, StringComesBack
    <2>5. out[n].deleted => out[n].value = empty
      BY <2>2, <2>3 DEF StoredValue
    <2> QED
      BY <2>3, <2>4, <2>5, StringComesBack
  <1> QED
    BY <1>1, RecordsStand, Filed, PTL

\* Metadata comes back with the time and the size written, and a cleared one
\* without a size.
THEOREM MetadataIsDecoded == Spec => []MetadataComesBack
  <1>1. TypeInv /\ StandsInv => MetadataComesBack
    <2> SUFFICES ASSUME TypeInv, StandsInv, NEW n \in DOMAIN out, NEW o \in Origins,
                        input[n].key = MetaKey(o), input[n] \in MetaRecords \cup Tombstones
                 PROVE  /\ out[n].kind = "Meta"
                        /\ out[n].origin = o
                        /\ ~out[n].deleted =>
                              /\ <<8, out[n].timestamp, 16>> = SubSeq(input[n].value, 1, 3)
                              /\ out[n].size = {input[n].value[4]}
                        /\ out[n].deleted => out[n].size = {}
      BY DEF MetadataComesBack
    <2>1. o \in Seq(Nat) /\ input[n].key = <<META>> \o o
      BY HistoryAssumption, SeqMonotonic DEF MetaKey
    <2>2. Reads(out[n], input[n]) /\ out[n].deleted = input[n].deleted
      BY DEF StandsInv, Stands
    <2>3. /\ input[n].deleted \/ MetaParses(input[n].value) =>
                 out[n].kind = "Meta" /\ out[n].origin = o
          /\ input[n].deleted => out[n].size = {}
          /\ ~input[n].deleted /\ MetaParses(input[n].value) =>
                 out[n].timestamp = timestamp(input[n].value)
                 /\ out[n].size = size(input[n].value)
      BY <2>1, <2>2 DEF Reads
    <2>4. CASE input[n] \in Tombstones
      <3>1. input[n].deleted
        BY <2>4, TombstonesAreDeleted
      <3> QED
        BY <2>2, <2>3, <3>1
    <2>5. CASE input[n] \in MetaRecords
      <3>1. PICK t \in Times, s \in Sizes : input[n].value = <<8, t, 16, s>>
                                            /\ input[n].deleted = FALSE
        BY <2>5 DEF MetaRecords
      <3>2. MetaParses(<<8, t, 16, s>>)
        BY DEF MetaParses, IsProtobuf, IsVarint, FieldNumber, VARINT
      <3>3. timestamp(<<8, t, 16, s>>) = t /\ size(<<8, t, 16, s>>) = {s}
        BY DEF timestamp, size, IsVarint, FieldNumber, VARINT
      <3>4. SubSeq(<<8, t, 16, s>>, 1, 3) = <<8, t, 16>>
        <4> DEFINE v == <<8, t, 16, s>>
                   u == <<8, t, 16>>
        <4>1. t \in Nat /\ s \in Nat
          BY HistoryAssumption
        <4>2. v \in Seq(Nat) /\ u \in Seq(Nat) /\ Len(u) = 3 /\ Len(v) = 4
              /\ \A k \in 1..3 : v[0 + k] = u[k]
          BY <4>1
        <4> HIDE DEF u, v
        <4>3. 0 + Len(u) <= Len(v) /\ \A k \in 1..Len(u) : v[0 + k] = u[k]
          BY <4>2
        <4>4. SubSeq(v, 0 + 1, 0 + Len(u)) = u
          BY <4>2, <4>3, PartIs
        <4>5. 0 + 1 = 1 /\ 0 + Len(u) = 3
          BY <4>2
        <4> QED
          BY <4>4, <4>5 DEF u, v
      <3> QED
        BY <2>2, <2>3, <3>1, <3>2, <3>3, <3>4
    <2> QED
      BY <2>4, <2>5
  <1> QED
    BY <1>1, RecordsStand, PTL
=============================================================================
