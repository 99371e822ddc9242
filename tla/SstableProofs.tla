--------------------------- MODULE SstableProofs ----------------------------
(***************************************************************************)
(* Proofs about Sstable, for any file, and about TableRecovery, for any    *)
(* table that LevelDB builds and any damage to one: no cursor leaves its   *)
(* block, sound tables come back, damaged ones are refused whole and with  *)
(* the error that tells why.                                               *)
(***************************************************************************)
EXTENDS TableRecovery, SequenceLemmas

EntryType  == [key : Seq(Byte), value : Seq(Byte)]
RecordType == [key : Seq(Byte), value : Seq(Byte), seq : Byte, deleted : BOOLEAN]

TypeInv == TypeOK /\ table \in Tables

-----------------------------------------------------------------------------
(* Types, in any file.                                                     *)

\* The cells of a file, and of what its blocks inflate to.
LEMMA FileType ==
    ASSUME table \in Tables
    PROVE  /\ table.buf \in Seq(Byte)
           /\ \A h \in DOMAIN table.inflated : table.inflated[h] \in Seq(Byte)
  BY TablesAssumption DEF Byte

\* A handle that reads is two numbers.
LEMMA HandleType ==
    ASSUME NEW cells \in Seq(Byte), IsHandle(cells)
    PROVE  BlockHandle(cells).offset \in Nat /\ BlockHandle(cells).size \in Nat
  <1>1. Len(cells) \in Nat /\ 1 \in 1..Len(cells) /\ 2 \in 1..Len(cells)
    BY DEF IsHandle
  <1>2. cells[1] \in Byte /\ cells[2] \in Byte
    BY <1>1, ElementOfSeq
  <1> QED
    BY <1>2 DEF IsHandle, BlockHandle, Byte

\* What is decoded of a block that a handle leads to.
LEMMA BodyType ==
    ASSUME table \in Tables, NEW cells \in Seq(Byte), Leads(cells)
    PROVE  Entries(Body(BlockHandle(cells))) \in Seq(Byte)
  <1> DEFINE h == BlockHandle(cells)
             b == Body(h)
  <1>1. h.offset \in Nat /\ h.size \in Nat
    BY HandleType DEF Leads
  <1>2. BlockReads(h) /\ RestartsFit(b)
    BY DEF Leads
  <1>3. table.buf \in Seq(Byte) /\ Len(table.buf) \in Nat
    BY FileType
  <1>4. b \in Seq(Byte)
    <2>1. CASE Compression(h) = COMPRESSION_NONE
      <3>1. b = SubSeq(table.buf, h.offset + 1, h.offset + h.size)
        BY <2>1 DEF Body
      <3>2. /\ h.offset + 1 \in Nat \ {0} /\ h.offset + h.size \in Int
            /\ h.offset + h.size <= Len(table.buf)
        BY <1>1, <1>2, <1>3 DEF BlockReads, InFile, BLOCK_TRAILER_LEN
      <3> QED
        BY <1>3, <3>1, <3>2, PartType
    <2>2. CASE Compression(h) # COMPRESSION_NONE
      <3>1. h \in DOMAIN table.inflated /\ b = table.inflated[h]
        BY <1>2, <2>2 DEF BlockReads, Inflates, Body
      <3> QED
        BY <3>1, FileType
    <2> QED
      BY <2>1, <2>2
  <1> HIDE DEF b
  <1>5. Len(b) \in Nat /\ b[Len(b)] \in 0..Len(b) - 1
    BY <1>2, <1>4 DEF RestartsFit
  <1>6. Len(b) - 1 - b[Len(b)] \in Int /\ Len(b) - 1 - b[Len(b)] <= Len(b) /\ 1 \in Nat \ {0}
    BY <1>5
  <1>7. SubSeq(b, 1, Len(b) - 1 - b[Len(b)]) \in Seq(Byte)
    BY <1>4, <1>6, PartType
  <1> QED
    BY <1>7 DEF Entries, b

\* The handle of the index, when the footer reads.
LEMMA IndexHandleType ==
    ASSUME table \in Tables, FooterReads
    PROVE  IndexHandle \in Seq(Byte)
  <1>1. table.buf \in Seq(Byte) /\ Len(table.buf) \in Nat /\ Len(table.buf) >= 5
    BY FileType DEF FooterReads, FOOTER_LEN
  <1>2. /\ Footer \in Seq(Byte)
        /\ Len(Footer) = 5
    <2>1. Len(table.buf) - 5 + 1 \in 1..Len(table.buf) + 1 /\ Len(table.buf) \in Int
      BY <1>1
    <2>2. \A i \in Len(table.buf) - 5 + 1..Len(table.buf) : table.buf[i] \in Byte
      BY <1>1
    <2> QED
      BY <1>1, <2>1, <2>2, SubSeqProperties DEF Footer, FOOTER_LEN
  <1> HIDE DEF Footer
  <1>3. 3 \in Nat \ {0} /\ 4 \in Int /\ 4 <= Len(Footer)
    BY <1>2
  <1> QED
    BY <1>2, <1>3, PartType DEF IndexHandle

\* An entry that reads: what it is made of, and how far it goes.
LEMMA EntryFacts ==
    ASSUME TypeInv, EntryReads
    PROVE  /\ shared \in 0..Len(prev_key) /\ non_shared \in Nat /\ value_len \in Nat
           /\ key \in Seq(Byte) /\ value \in Seq(Byte)
           /\ cur + 3 + non_shared + value_len \in 0..Len(block)
  <1>1. /\ block \in Seq(Byte) /\ prev_key \in Seq(Byte) /\ cur \in 0..Len(block)
        /\ Len(block) \in Nat /\ Len(prev_key) \in Nat
    BY DEF TypeInv, TypeOK
  <1>2. cur + 3 <= Len(block)
    BY DEF EntryReads, LengthsRead
  <1>3. shared \in Byte /\ non_shared \in Byte /\ value_len \in Byte
    <2>1. cur + 1 \in 1..Len(block) /\ cur + 2 \in 1..Len(block) /\ cur + 3 \in 1..Len(block)
      BY <1>1, <1>2
    <2> QED
      BY <1>1, <2>1, ElementOfSeq DEF shared, non_shared, value_len
  <1>4. shared \in Nat /\ non_shared \in Nat /\ value_len \in Nat /\ shared <= Len(prev_key)
    BY <1>3 DEF EntryReads, LengthsRead, Varint32, Byte, BadVarint
  <1>5. cur + 3 + non_shared + value_len <= Len(block)
    BY DEF EntryReads
  <1> HIDE DEF shared, non_shared, value_len
  <1>6. key_delta \in Seq(Byte) /\ value \in Seq(Byte) /\ SubSeq(prev_key, 1, shared) \in Seq(Byte)
    <2>1. /\ cur + 4 \in Nat \ {0} /\ cur + 4 + non_shared \in Nat \ {0} /\ 1 \in Nat \ {0}
          /\ cur + 3 + non_shared \in Int /\ cur + 3 + non_shared <= Len(block)
          /\ cur + 3 + non_shared + value_len \in Int
          /\ shared \in Int
      BY <1>1, <1>4, <1>5
    <2> QED
      BY <1>1, <1>4, <1>5, <2>1, PartType DEF key_delta, value
  <1>7. key \in Seq(Byte)
    BY <1>6 DEF key
  <1> QED
    BY <1>1, <1>4, <1>5, <1>6, <1>7

\* The records of a block.
LEMMA RecordsType ==
    ASSUME NEW es \in Seq(EntryType)
    PROVE  Records(es) \in Seq(RecordType)
  <1> DEFINE split == [k \in DOMAIN es |-> IF HasTrailer(es[k]) THEN <<Record(es[k])>> ELSE <<>>]
  <1>1. ASSUME NEW e \in EntryType, HasTrailer(e)
        PROVE  Record(e) \in RecordType
    <2> DEFINE n == Len(e.key) - INTERNAL_KEY_TRAILER
    <2>1. e.key \in Seq(Byte) /\ e.value \in Seq(Byte)
      BY DEF EntryType
    <2>2. n \in Nat /\ Len(e.key) \in Nat /\ Len(e.key) = n + 2
      BY <1>1, <2>1 DEF HasTrailer, INTERNAL_KEY_TRAILER
    <2>3. n + 2 \in 1..Len(e.key) /\ n \in Int /\ n <= Len(e.key) /\ 1 \in Nat \ {0}
      BY <2>2
    <2>4. e.key[n + 2] \in Byte
      BY <2>1, <2>3, ElementOfSeq
    <2>5. SubSeq(e.key, 1, n) \in Seq(Byte)
      BY <2>1, <2>3, PartType
    <2>6. Record(e) = [key |-> SubSeq(e.key, 1, n), value |-> e.value, seq |-> e.key[n + 2],
                       deleted |-> e.key[n + 1] = TYPE_DELETION]
      BY DEF Record
    <2> HIDE DEF n
    <2> QED
      BY <2>1, <2>4, <2>5, <2>6 DEF RecordType
  <1>2. ASSUME NEW k \in DOMAIN es
        PROVE  split[k] \in Seq(RecordType)
    <2>1. es[k] \in EntryType
      OBVIOUS
    <2>2. CASE HasTrailer(es[k])
      BY <1>1, <2>1, <2>2
    <2>3. CASE ~HasTrailer(es[k])
      BY <2>3
    <2> QED
      BY <2>2, <2>3
  <1>3. split \in Seq(Seq(RecordType))
    <2>1. split = [k \in 1..Len(es) |-> split[k]] /\ Len(es) \in Nat /\ DOMAIN es = 1..Len(es)
      OBVIOUS
    <2> HIDE DEF split
    <2> QED
      BY <1>2, <2>1, IsASeq
  <1> QED
    BY <1>3, FlattenType DEF Records

\* The first states.
LEMMA TypeInit ==
    ASSUME Init
    PROVE  TypeInv
  <1>1. table \in Tables /\ table.buf \in Seq(Byte)
    BY FileType DEF Init
  <1>2. <<>> \in Seq(Byte) /\ Len(<<>>) = 0
    OBVIOUS
  <1> QED
    BY <1>1, <1>2 DEF Init, TypeInv, TypeOK

\* A failed table has no records.
LEMMA FailType ==
    ASSUME TypeInv, NEW kind \in ErrorKinds, Fail(kind)
    PROVE  TypeInv'
  BY DEF Fail, TypeInv, TypeOK

\* The errors are errors.
LEMMA ErrorsType ==
    /\ FooterError \in ErrorKinds
    /\ EntryError \in ErrorKinds
    /\ \A cells : LeadError(cells) \in ErrorKinds
  BY DEF FooterError, EntryError, LeadError, BlockError, ErrorKinds

\* A block is opened.
LEMMA OpenType ==
    ASSUME TypeInv, NEW cells \in Seq(Byte), Leads(cells), Open(cells)
    PROVE  /\ block' \in Seq(Byte) /\ cur' \in 0..Len(block')
           /\ prev_key' \in Seq(Byte) /\ entries' \in Seq(EntryType)
  <1>1. block' \in Seq(Byte)
    BY BodyType DEF TypeInv, Open
  <1>2. Len(block') \in Nat
    BY <1>1
  <1> QED
    BY <1>1, <1>2 DEF Open

\* A step keeps the types.
LEMMA TypeStep ==
    ASSUME TypeInv, [Next]_vars
    PROVE  TypeInv'
  <1>1. CASE ReadFooter
    <2>1. IndexHandle \in Seq(Byte)
      BY <1>1, IndexHandleType DEF ReadFooter, TypeInv
    <2>2. /\ block' \in Seq(Byte) /\ cur' \in 0..Len(block')
          /\ prev_key' \in Seq(Byte) /\ entries' \in Seq(EntryType)
      BY <1>1, <2>1, OpenType DEF ReadFooter
    <2> QED
      BY <1>1, <2>2 DEF ReadFooter, TypeInv, TypeOK, EntryType
  <1>2. CASE BadFooter
    BY <1>2, ErrorsType, FailType DEF BadFooter
  <1>3. CASE Entry
    <2>1. key \in Seq(Byte) /\ value \in Seq(Byte) /\ cur' \in 0..Len(block) /\ block' = block
      BY <1>3, EntryFacts DEF Entry
    <2>2. entries' \in Seq(EntryType)
      <3>1. [key |-> key, value |-> value] \in EntryType /\ entries \in Seq(EntryType)
        BY <2>1 DEF TypeInv, TypeOK, EntryType
      <3>2. entries' = Append(entries, [key |-> key, value |-> value])
        BY <1>3 DEF Entry
      <3> QED
        BY <3>1, <3>2
    <2>3. prev_key' \in Seq(Byte)
      BY <1>3, <2>1 DEF Entry
    <2> QED
      BY <1>3, <2>1, <2>2, <2>3 DEF Entry, TypeInv, TypeOK, EntryType
  <1>4. CASE BadEntry
    BY <1>4, ErrorsType, FailType DEF BadEntry
  <1>5. CASE EndOfIndex
    <2>1. handles' \in Seq(Seq(Byte))
      <3>1. entries \in Seq(EntryType) /\ Len(entries) \in Nat /\ DOMAIN entries = 1..Len(entries)
        BY DEF TypeInv, TypeOK, EntryType
      <3>2. \A k \in 1..Len(entries) : entries[k].value \in Seq(Byte)
        <4>1. \A k \in 1..Len(entries) : entries[k] \in EntryType
          BY <3>1, ElementOfSeq
        <4> QED
          BY <4>1 DEF EntryType
      <3>3. handles' = [k \in 1..Len(entries) |-> entries[k].value]
        BY <1>5, <3>1 DEF EndOfIndex
      <3> QED
        BY <3>1, <3>2, <3>3, IsASeq
    <2> QED
      BY <1>5, <2>1 DEF EndOfIndex, TypeInv, TypeOK
  <1>6. CASE EndOfData
    <2>1. records' \in Seq(RecordType)
      <3>1. entries \in Seq(EntryType) /\ records \in Seq(RecordType)
        BY DEF TypeInv, TypeOK, EntryType, RecordType
      <3>2. Records(entries) \in Seq(RecordType) /\ records' = records \o Records(entries)
        BY <1>6, <3>1, RecordsType DEF EndOfData
      <3> QED
        BY <3>1, <3>2, ConcatProperties
    <2> QED
      BY <1>6, <2>1 DEF EndOfData, TypeInv, TypeOK, RecordType
  <1>7. CASE NextData
    <2>1. handles \in Seq(Seq(Byte)) /\ handles # <<>>
      BY <1>7 DEF NextData, TypeInv, TypeOK
    <2>2. Head(handles) \in Seq(Byte) /\ Tail(handles) \in Seq(Seq(Byte))
      BY <2>1, HeadTailProperties
    <2>3. /\ block' \in Seq(Byte) /\ cur' \in 0..Len(block')
          /\ prev_key' \in Seq(Byte) /\ entries' \in Seq(EntryType)
      BY <1>7, <2>2, OpenType DEF NextData
    <2> QED
      BY <1>7, <2>2, <2>3 DEF NextData, TypeInv, TypeOK, EntryType
  <1>8. CASE BadData
    BY <1>8, ErrorsType, FailType DEF BadData
  <1>9. CASE AllBlocks
    BY <1>9 DEF AllBlocks, TypeInv, TypeOK
  <1>10. CASE UNCHANGED vars
    BY <1>10 DEF vars, TypeInv, TypeOK
  <1> QED
    BY <1>1, <1>2, <1>3, <1>4, <1>5, <1>6, <1>7, <1>8, <1>9, <1>10 DEF Next, Finished

\* In any file: no cursor leaves its block, every key and value is cut out of it,
\* every handle is made of cells of the file.
LEMMA TypesHold == Spec => []TypeInv
  BY TypeInit, TypeStep, PTL DEF Spec

\* Whatever the lengths and the handles in a file say, the cursor of the decoder
\* stays in its block, and what parse_table returns is records or an error.
THEOREM TypeCorrect == Spec => []TypeOK
  BY TypesHold, PTL DEF TypeInv

-----------------------------------------------------------------------------
(* The prefix decoder over the blocks of the builder.                      *)

\* The operators of the community modules are the same in the builder.
LEMMA BuilderFlattens == \A s : Builder!FlattenSeq(s) = FlattenSeq(s)
  BY Zenon DEF Builder!FlattenSeq, FlattenSeq

\* What an entry takes from the key before is the start of both.
LEMMA CommonFacts ==
    ASSUME NEW X, NEW s \in Seq(X), NEW t \in Seq(X)
    PROVE  /\ Builder!Common(s, t) \in 0..Len(s)
           /\ Builder!Common(s, t) <= Len(t)
           /\ SubSeq(s, 1, Builder!Common(s, t)) = SubSeq(t, 1, Builder!Common(s, t))
  <1> DEFINE S == {n \in 0..Len(s) : n <= Len(t) /\ SubSeq(s, 1, n) = SubSeq(t, 1, n)}
             D == {Len(s) - n : n \in S}
  <1>1. Len(s) \in Nat /\ Len(t) \in Nat
    OBVIOUS
  <1>2. 0 \in S
    <2>1. SubSeq(s, 1, 0) = <<>> /\ SubSeq(t, 1, 0) = <<>>
      BY SubSeqEmpty
    <2> QED
      BY <1>1, <2>1
  <1>3. D \subseteq Nat /\ D # {}
    BY <1>1, <1>2
  <1>4. PICK d \in D : \A e \in D : d <= e
    BY <1>3, LeastNat
  <1>5. PICK n \in S : d = Len(s) - n
    BY <1>4
  <1>6. ASSUME NEW m \in S
        PROVE  n >= m
    <2>1. Len(s) - m \in D
      OBVIOUS
    <2>2. d <= Len(s) - m
      BY <1>4, <2>1
    <2>3. n \in Int /\ m \in Int
      OBVIOUS
    <2> HIDE DEF S, D
    <2> QED
      BY <1>1, <1>5, <2>2, <2>3
  <1> HIDE DEF S, D
  <1>7. Builder!Max(S) \in S
    BY <1>5, <1>6 DEF Builder!Max
  <1> QED
    BY <1>7 DEF S, Builder!Common

\* What the builder makes entries of.
Pair == [key : Seq(Nat), value : Seq(Nat)]

\* An entry takes sh cells from the key before.
TakesFrom(kvs, k, sh) ==
    /\ sh \in 0..Len(kvs[k].key)
    /\ sh # 0 => /\ k - 1 \in DOMAIN kvs
                 /\ sh <= Len(kvs[k - 1].key)
                 /\ SubSeq(kvs[k - 1].key, 1, sh) = SubSeq(kvs[k].key, 1, sh)

LEMMA SharedFacts ==
    ASSUME NEW kvs \in Seq(Pair), NEW interval \in Nat \ {0}, NEW k \in DOMAIN kvs
    PROVE  TakesFrom(kvs, k, Builder!Shared(kvs, interval, k))
  <1> DEFINE sh == Builder!Shared(kvs, interval, k)
  <1>1. k \in 1..Len(kvs) /\ Len(kvs) \in Nat /\ DOMAIN kvs = 1..Len(kvs)
    OBVIOUS
  <1>2. \A i \in 1..Len(kvs) : kvs[i].key \in Seq(Nat) /\ Len(kvs[i].key) \in Nat
    <2>1. \A i \in 1..Len(kvs) : kvs[i] \in Pair
      BY ElementOfSeq
    <2> QED
      BY <2>1, LenProperties DEF Pair
  <1>3. CASE (k - 1) % interval = 0
    <2>1. sh = 0
      BY <1>3 DEF Builder!Shared
    <2> QED
      BY <1>1, <1>2, <2>1 DEF TakesFrom
  <1>4. CASE (k - 1) % interval # 0
    <2>1. k # 1
      <3>1. 0 % interval = 0
        OBVIOUS
      <3> QED
        BY <1>4, <3>1
    <2>2. k - 1 \in 1..Len(kvs)
      BY <1>1, <2>1
    <2>3. sh = Builder!Common(kvs[k - 1].key, kvs[k].key)
      BY <1>4 DEF Builder!Shared
    <2>4. kvs[k - 1].key \in Seq(Nat) /\ kvs[k].key \in Seq(Nat)
      BY <1>1, <1>2, <2>2
    <2>5. /\ sh \in 0..Len(kvs[k - 1].key) /\ sh <= Len(kvs[k].key)
          /\ SubSeq(kvs[k - 1].key, 1, sh) = SubSeq(kvs[k].key, 1, sh)
      BY <2>3, <2>4, CommonFacts
    <2>6. Len(kvs[k - 1].key) \in Nat /\ Len(kvs[k].key) \in Nat
      BY <1>1, <1>2, <2>2
    <2> HIDE DEF sh
    <2>7. sh \in 0..Len(kvs[k].key) /\ sh <= Len(kvs[k - 1].key)
      BY <2>5, <2>6
    <2> QED
      BY <1>1, <2>2, <2>5, <2>7 DEF TakesFrom, sh
  <1> QED
    BY <1>3, <1>4

\* The entry of a pair stands in b after place p.
LaidOut(b, p, kv, sh) ==
    LET ns == Len(kv.key) - sh
        vl == Len(kv.value)
    IN  /\ b[p + 1] = sh /\ b[p + 2] = ns /\ b[p + 3] = vl
        /\ ns \in Nat /\ vl \in Nat
        /\ SubSeq(b, p + 4, p + 3 + ns) = SubSeq(kv.key, sh + 1, Len(kv.key))
        /\ SubSeq(b, p + 4 + ns, p + 3 + ns + vl) = kv.value
        /\ p + 3 + ns + vl <= Len(b)

\* The cells of an entry: three lengths, the rest of the key, the value.
EntryParts(e, kv, sh) ==
    LET ns == Len(kv.key) - sh
        vl == Len(kv.value)
        d  == SubSeq(kv.key, sh + 1, Len(kv.key))
    IN  /\ e \in Seq(Nat) /\ Len(e) = 3 + ns + vl /\ ns \in Nat /\ vl \in Nat
        /\ e[1] = sh /\ e[2] = ns /\ e[3] = vl
        /\ d \in Seq(Nat) /\ Len(d) = ns
        /\ \A i \in 1..ns : e[3 + i] = d[i]
        /\ \A i \in 1..vl : e[3 + ns + i] = kv.value[i]

LEMMA CellsOfEntry ==
    ASSUME NEW kv \in Pair, NEW sh \in 0..Len(kv.key)
    PROVE  EntryParts(Builder!EntryCells(kv, sh), kv, sh)
  <1> DEFINE ns == Len(kv.key) - sh
             vl == Len(kv.value)
             d  == SubSeq(kv.key, sh + 1, Len(kv.key))
             l  == <<sh, ns, vl>>
             a  == l \o d
             e  == a \o kv.value
  <1>1. /\ kv.key \in Seq(Nat) /\ kv.value \in Seq(Nat)
        /\ Len(kv.key) \in Nat /\ vl \in Nat /\ sh \in Nat /\ ns \in Nat
    BY DEF Pair
  <1>2. d \in Seq(Nat) /\ Len(d) = ns
    <2>1. /\ sh + 1 \in 1..Len(kv.key) + 1 /\ Len(kv.key) \in Int
          /\ \A i \in sh + 1..Len(kv.key) : kv.key[i] \in Nat
      BY <1>1
    <2>2. /\ SubSeq(kv.key, sh + 1, Len(kv.key)) \in Seq(Nat)
          /\ Len(SubSeq(kv.key, sh + 1, Len(kv.key)))
                = IF sh + 1 <= Len(kv.key) THEN Len(kv.key) - (sh + 1) + 1 ELSE 0
      BY <1>1, <2>1, SubSeqProperties
    <2> QED
      BY <1>1, <2>2
  <1>3. l \in Seq(Nat) /\ Len(l) = 3 /\ l[1] = sh /\ l[2] = ns /\ l[3] = vl
    BY <1>1
  <1> HIDE DEF d, l, ns, vl
  <1>4. /\ a \in Seq(Nat) /\ Len(a) = 3 + ns
        /\ \A i \in 1..3 : a[i] = l[i]
        /\ \A i \in 1..ns : a[3 + i] = d[i]
    <2>1. /\ l \o d \in Seq(Nat) /\ Len(l \o d) = Len(l) + Len(d)
          /\ \A i \in 1..Len(l) : (l \o d)[i] = l[i]
          /\ \A i \in 1..Len(d) : (l \o d)[Len(l) + i] = d[i]
      <3>1. l \in Seq(Nat) /\ d \in Seq(Nat)
        BY <1>2, <1>3
      <3> QED
        BY <3>1, ConcatFacts
    <2> QED
      BY <1>2, <1>3, <2>1 DEF a
  <1> HIDE DEF a
  <1>5. /\ e \in Seq(Nat) /\ Len(e) = 3 + ns + vl
        /\ \A i \in 1..Len(a) : e[i] = a[i]
        /\ \A i \in 1..vl : e[Len(a) + i] = kv.value[i]
    <2>1. Len(kv.value) = vl
      BY DEF vl
    <2>2. /\ a \o kv.value \in Seq(Nat) /\ Len(a \o kv.value) = Len(a) + Len(kv.value)
          /\ \A i \in 1..Len(a) : (a \o kv.value)[i] = a[i]
          /\ \A i \in 1..Len(kv.value) : (a \o kv.value)[Len(a) + i] = kv.value[i]
      <3>1. a \in Seq(Nat) /\ kv.value \in Seq(Nat)
        BY <1>1, <1>4
      <3> QED
        BY <3>1, ConcatFacts
    <2> QED
      BY <1>4, <2>1, <2>2 DEF e
  <1>6. e = Builder!EntryCells(kv, sh)
    BY DEF Builder!EntryCells, e, a, l, d, ns, vl
  <1> HIDE DEF e
  <1>7. /\ e[1] = sh /\ e[2] = ns /\ e[3] = vl
        /\ \A i \in 1..ns : e[3 + i] = d[i]
        /\ \A i \in 1..vl : e[3 + ns + i] = kv.value[i]
    <2>1. 1 \in 1..3 /\ 2 \in 1..3 /\ 3 \in 1..3 /\ Len(a) = 3 + ns /\ ns \in Nat
      BY <1>1, <1>4
    <2>2. \A i \in 1..3 : e[i] = l[i]
      BY <1>4, <1>5, <2>1
    <2>3. ASSUME NEW i \in 1..ns
          PROVE  e[3 + i] = d[i]
      <3>1. 3 + i \in 1..Len(a)
        BY <2>1
      <3> QED
        BY <1>4, <1>5, <3>1
    <2> QED
      BY <1>3, <1>5, <2>1, <2>2, <2>3
  <1> QED
    BY <1>1, <1>2, <1>5, <1>6, <1>7 DEF EntryParts, ns, vl, d

\* Where those cells stand in a block, the entry is laid out.
LEMMA PartsLaidOut ==
    ASSUME NEW b \in Seq(Nat), NEW p \in Nat, NEW kv \in Pair, NEW sh \in Nat, NEW e,
           EntryParts(e, kv, sh), p + Len(e) <= Len(b),
           \A i \in 1..Len(e) : b[p + i] = e[i]
    PROVE  LaidOut(b, p, kv, sh)
  <1> DEFINE ns == Len(kv.key) - sh
             vl == Len(kv.value)
             d  == SubSeq(kv.key, sh + 1, Len(kv.key))
  <1>1. /\ e \in Seq(Nat) /\ Len(e) = 3 + ns + vl /\ ns \in Nat /\ vl \in Nat
        /\ e[1] = sh /\ e[2] = ns /\ e[3] = vl
        /\ d \in Seq(Nat) /\ Len(d) = ns
        /\ \A i \in 1..ns : e[3 + i] = d[i]
        /\ \A i \in 1..vl : e[3 + ns + i] = kv.value[i]
    BY DEF EntryParts
  <1>2. kv.value \in Seq(Nat) /\ Len(b) \in Nat /\ Len(kv.value) = vl
    BY DEF Pair
  <1> HIDE DEF ns, vl, d
  <1>3. b[p + 1] = sh /\ b[p + 2] = ns /\ b[p + 3] = vl
    <2>1. Len(e) \in Nat /\ Len(e) >= 3
      BY <1>1
    <2>2. 1 \in 1..Len(e) /\ 2 \in 1..Len(e) /\ 3 \in 1..Len(e)
      BY <2>1
    <2> QED
      BY <1>1, <2>2
  <1>4. SubSeq(b, p + 4, p + 3 + ns) = d
    <2>1. ASSUME NEW i \in 1..Len(d)
          PROVE  b[(p + 3) + i] = d[i]
      <3>1. 3 + i \in 1..Len(e) /\ p + (3 + i) = (p + 3) + i /\ i \in 1..ns
        BY <1>1
      <3> QED
        BY <1>1, <3>1
    <2>2. p + 3 \in Nat /\ (p + 3) + Len(d) <= Len(b)
      BY <1>1, <1>2
    <2>3. SubSeq(b, (p + 3) + 1, (p + 3) + Len(d)) = d
      BY <1>1, <2>1, <2>2, PartIs
    <2>4. (p + 3) + 1 = p + 4 /\ (p + 3) + Len(d) = p + 3 + ns
      BY <1>1
    <2> QED
      BY <2>3, <2>4
  <1>5. SubSeq(b, p + 4 + ns, p + 3 + ns + vl) = kv.value
    <2> DEFINE m == p + 3 + ns
    <2>1. ASSUME NEW i \in 1..Len(kv.value)
          PROVE  b[m + i] = kv.value[i]
      <3> DEFINE c == 3 + ns + i
      <3>0. Len(e) = 3 + ns + vl /\ ns \in Nat /\ vl \in Nat /\ i \in 1..vl
        BY <1>1, <1>2
      <3>1. c \in 1..Len(e) /\ p + c = m + i
        BY <3>0
      <3> HIDE DEF m
      <3>2. e[c] = kv.value[i]
        BY <1>1, <3>0
      <3> HIDE DEF c
      <3> QED
        BY <3>1, <3>2
    <2>2. m \in Nat /\ m + Len(kv.value) <= Len(b) /\ m + 1 = p + 4 + ns /\ m + vl = p + 3 + ns + vl
      BY <1>1, <1>2
    <2> HIDE DEF m
    <2>3. SubSeq(b, m + 1, m + Len(kv.value)) = kv.value
      BY <1>2, <2>1, <2>2, PartIs
    <2> QED
      BY <1>2, <2>2, <2>3
  <1>6. p + 3 + ns + vl <= Len(b)
    BY <1>1, <1>2
  <1> QED
    BY <1>1, <1>3, <1>4, <1>5, <1>6 DEF LaidOut, ns, vl, d

\* The cells of each entry of a block.
EntriesOf(kvs, interval) ==
    [k \in DOMAIN kvs |-> Builder!EntryCells(kvs[k], Builder!Shared(kvs, interval, k))]

\* Where entry k + 1 of a block begins.
Offset(kvs, interval, k) == Len(JoinedTo(EntriesOf(kvs, interval), k))

\* Every entry of a block is laid out where the one before it ends.
EntryLaidOut(kvs, interval, k) ==
    LET p  == Offset(kvs, interval, k - 1)
        sh == Builder!Shared(kvs, interval, k)
    IN  /\ LaidOut(Builder!BlockEntries(kvs, interval), p, kvs[k], sh)
        /\ Offset(kvs, interval, k) = p + 3 + (Len(kvs[k].key) - sh) + Len(kvs[k].value)

LEMMA EntriesType ==
    ASSUME NEW kvs \in Seq(Pair), NEW interval \in Nat \ {0}
    PROVE  /\ EntriesOf(kvs, interval) \in Seq(Seq(Nat))
           /\ Len(EntriesOf(kvs, interval)) = Len(kvs)
           /\ \A k \in 1..Len(kvs) :
                 /\ EntriesOf(kvs, interval)[k]
                       = Builder!EntryCells(kvs[k], Builder!Shared(kvs, interval, k))
                 /\ EntryParts(EntriesOf(kvs, interval)[k], kvs[k],
                               Builder!Shared(kvs, interval, k))
           /\ FlattenSeq(EntriesOf(kvs, interval)) = Builder!BlockEntries(kvs, interval)
  <1> DEFINE cs == EntriesOf(kvs, interval)
  <1>1. Len(kvs) \in Nat /\ DOMAIN kvs = 1..Len(kvs)
    OBVIOUS
  <1>2. \A k \in 1..Len(kvs) :
           cs[k] = Builder!EntryCells(kvs[k], Builder!Shared(kvs, interval, k))
    BY <1>1 DEF EntriesOf
  <1>3. ASSUME NEW k \in 1..Len(kvs)
        PROVE  EntryParts(cs[k], kvs[k], Builder!Shared(kvs, interval, k))
    <2>1. kvs[k] \in Pair /\ k \in DOMAIN kvs
      BY <1>1, ElementOfSeq
    <2>2. Builder!Shared(kvs, interval, k) \in 0..Len(kvs[k].key)
      BY <2>1, SharedFacts DEF TakesFrom
    <2> QED
      BY <1>2, <2>1, <2>2, CellsOfEntry
  <1>4. \A k \in 1..Len(kvs) : cs[k] \in Seq(Nat)
    BY <1>3 DEF EntryParts
  <1>5. cs \in Seq(Seq(Nat)) /\ Len(cs) = Len(kvs)
    <2>1. cs = [k \in 1..Len(kvs) |-> cs[k]]
      BY <1>1 DEF EntriesOf
    <2> HIDE DEF cs
    <2>2. cs \in [1..Len(kvs) -> Seq(Nat)]
      BY <1>4, <2>1
    <2> QED
      BY <1>1, <2>2
  <1>6. FlattenSeq(cs) = Builder!BlockEntries(kvs, interval)
    BY BuilderFlattens DEF Builder!BlockEntries, EntriesOf
  <1> QED
    BY <1>2, <1>3, <1>5, <1>6

LEMMA EntryStands ==
    ASSUME NEW kvs \in Seq(Pair), NEW interval \in Nat \ {0}, NEW k \in 1..Len(kvs)
    PROVE  /\ EntryLaidOut(kvs, interval, k)
           /\ Offset(kvs, interval, k - 1) \in Nat
           /\ Builder!BlockEntries(kvs, interval) \in Seq(Nat)
  <1> DEFINE cs == EntriesOf(kvs, interval)
             b  == Builder!BlockEntries(kvs, interval)
             p  == Offset(kvs, interval, k - 1)
             sh == Builder!Shared(kvs, interval, k)
  <1>1. cs \in Seq(Seq(Nat)) /\ Len(cs) = Len(kvs) /\ FlattenSeq(cs) = b
        /\ EntryParts(cs[k], kvs[k], sh)
    BY EntriesType
  <1>2. k \in 1..Len(cs)
    BY <1>1
  <1> HIDE DEF cs
  <1>3. /\ FlattenSeq(cs) \in Seq(Nat) /\ cs[k] \in Seq(Nat)
        /\ Len(JoinedTo(cs, k - 1)) \in Nat
        /\ Len(JoinedTo(cs, k)) = Len(JoinedTo(cs, k - 1)) + Len(cs[k])
        /\ Len(JoinedTo(cs, k - 1)) + Len(cs[k]) <= Len(FlattenSeq(cs))
        /\ \A i \in 1..Len(cs[k]) : FlattenSeq(cs)[Len(JoinedTo(cs, k - 1)) + i] = cs[k][i]
    BY <1>1, <1>2, ElementStands
  <1>4. p = Len(JoinedTo(cs, k - 1)) /\ Offset(kvs, interval, k) = Len(JoinedTo(cs, k))
    BY DEF Offset, cs
  <1> HIDE DEF b, p
  <1>5. /\ b \in Seq(Nat) /\ p \in Nat /\ p + Len(cs[k]) <= Len(b)
        /\ \A i \in 1..Len(cs[k]) : b[p + i] = cs[k][i]
    BY <1>1, <1>3, <1>4
  <1>6. kvs[k] \in Pair /\ sh \in Nat
    <2>1. kvs[k] \in Pair /\ k \in DOMAIN kvs
      BY ElementOfSeq
    <2>2. Len(kvs[k].key) \in Nat
      BY <2>1 DEF Pair
    <2>3. sh \in 0..Len(kvs[k].key)
      BY <2>1, SharedFacts DEF TakesFrom
    <2> QED
      BY <2>1, <2>2, <2>3
  <1>7. LaidOut(b, p, kvs[k], sh)
    BY <1>1, <1>5, <1>6, PartsLaidOut
  <1>8. Len(cs[k]) = 3 + (Len(kvs[k].key) - sh) + Len(kvs[k].value)
        /\ Len(kvs[k].key) - sh \in Nat /\ Len(kvs[k].value) \in Nat
    BY <1>1 DEF EntryParts
  <1>9. Offset(kvs, interval, k) = p + 3 + (Len(kvs[k].key) - sh) + Len(kvs[k].value)
    <2> DEFINE ns == Len(kvs[k].key) - sh
               vl == Len(kvs[k].value)
               o  == Offset(kvs, interval, k)
    <2>1. o = p + Len(cs[k]) /\ Len(cs[k]) = 3 + ns + vl /\ ns \in Nat /\ vl \in Nat
      BY <1>3, <1>4, <1>8
    <2> HIDE DEF ns, vl, o
    <2>2. o = p + 3 + ns + vl
      BY <1>5, <2>1
    <2> QED
      BY <2>2 DEF ns, vl, o
  <1> QED
    BY <1>5, <1>7, <1>9 DEF EntryLaidOut, b, p

\* The reader can hold the lengths of every pair.
Fits(kvs) == \A k \in DOMAIN kvs : Len(kvs[k].key) <= MAX_U32 /\ Len(kvs[k].value) <= MAX_U32

\* The decoder has read the first j entries of the block of kvs.
DecodedTo(kvs, interval, j) ==
    /\ cur = Offset(kvs, interval, j)
    /\ prev_key = IF j = 0 THEN <<>> ELSE kvs[j].key
    /\ entries = SubSeq(kvs, 1, j)

Decoding(kvs, interval) == /\ block = Builder!BlockEntries(kvs, interval)
                           /\ \E j \in 0..Len(kvs) : DecodedTo(kvs, interval, j)

\* The end of the last entry is the end of the block, and no other is.
LEMMA LastOffset ==
    ASSUME NEW kvs \in Seq(Pair), NEW interval \in Nat \ {0}
    PROVE  /\ Offset(kvs, interval, 0) = 0
           /\ \A j \in 0..Len(kvs) :
                 /\ Offset(kvs, interval, j) <= Len(Builder!BlockEntries(kvs, interval))
                 /\ Offset(kvs, interval, j) = Len(Builder!BlockEntries(kvs, interval))
                       <=> j = Len(kvs)
  <1> DEFINE cs == EntriesOf(kvs, interval)
             b  == Builder!BlockEntries(kvs, interval)
  <1>1. cs \in Seq(Seq(Nat)) /\ Len(cs) = Len(kvs) /\ FlattenSeq(cs) = b /\ Len(kvs) \in Nat
    BY EntriesType
  <1> HIDE DEF cs, b
  <1>2. JoinedTo(cs, 0) = <<>> /\ JoinedTo(cs, Len(cs)) = b
    BY <1>1, JoinedFacts
  <1>3. Offset(kvs, interval, 0) = 0
    BY <1>2 DEF Offset, cs
  <1>4. ASSUME NEW j \in 0..Len(kvs)
        PROVE  /\ Offset(kvs, interval, j) <= Len(b)
               /\ Offset(kvs, interval, j) = Len(b) <=> j = Len(kvs)
    <2>1. Offset(kvs, interval, j) = Len(JoinedTo(cs, j))
      BY DEF Offset, cs
    <2>2. CASE j = Len(kvs)
      <3>1. Offset(kvs, interval, j) = Len(b) /\ Len(b) \in Nat
        <4>1. b \in Seq(Nat)
          BY <1>1, FlattenType
        <4> QED
          BY <1>1, <1>2, <2>1, <2>2, <4>1
      <3> QED
        BY <2>2, <3>1
    <2>3. CASE j # Len(kvs)
      <3>1. j + 1 \in 1..Len(kvs) /\ (j + 1) - 1 = j
        BY <1>1, <2>3
      <3>2. /\ EntryLaidOut(kvs, interval, j + 1)
            /\ Offset(kvs, interval, j) \in Nat
            /\ b \in Seq(Nat)
        BY <3>1, EntryStands DEF b
      <3>3. LaidOut(b, Offset(kvs, interval, j), kvs[j + 1], Builder!Shared(kvs, interval, j + 1))
        BY <3>1, <3>2 DEF EntryLaidOut, b
      <3> DEFINE p  == Offset(kvs, interval, j)
                 ns == Len(kvs[j + 1].key) - Builder!Shared(kvs, interval, j + 1)
                 vl == Len(kvs[j + 1].value)
      <3>4. p + 3 + ns + vl <= Len(b) /\ ns \in Nat /\ vl \in Nat
        BY <3>3 DEF LaidOut
      <3>5. p \in Nat /\ Len(b) \in Nat
        BY <3>2
      <3> HIDE DEF p, ns, vl
      <3>6. p < Len(b)
        BY <3>4, <3>5
      <3> QED
        BY <2>3, <3>5, <3>6 DEF p
    <2> QED
      BY <2>2, <2>3
  <1> QED
    BY <1>3, <1>4 DEF b

\* The entry under the cursor is the next pair.
NextPair(kvs, interval, j) ==
    /\ EntryReads
    /\ key = kvs[j + 1].key
    /\ value = kvs[j + 1].value
    /\ cur + 3 + non_shared + value_len = Offset(kvs, interval, j + 1)

LEMMA EntryComes ==
    ASSUME NEW kvs \in Seq(Pair), NEW interval \in Nat \ {0}, Fits(kvs),
           block = Builder!BlockEntries(kvs, interval),
           NEW j \in 0..Len(kvs), j # Len(kvs), DecodedTo(kvs, interval, j)
    PROVE  NextPair(kvs, interval, j)
  <1> DEFINE kv == kvs[j + 1]
             sh == Builder!Shared(kvs, interval, j + 1)
             ns == Len(kv.key) - sh
             vl == Len(kv.value)
  <1>1. /\ Len(kvs) \in Nat /\ j \in Nat /\ j + 1 \in 1..Len(kvs) /\ (j + 1) - 1 = j
        /\ j + 1 \in DOMAIN kvs
    OBVIOUS
  <1>2. EntryLaidOut(kvs, interval, j + 1) /\ Offset(kvs, interval, j) \in Nat
    BY <1>1, EntryStands
  <1>3. cur = Offset(kvs, interval, j) /\ cur \in Nat
    BY <1>2 DEF DecodedTo
  <1>4. LaidOut(block, cur, kv, sh) /\ Offset(kvs, interval, j + 1) = cur + 3 + ns + vl
    BY <1>1, <1>2, <1>3 DEF EntryLaidOut
  <1>5. TakesFrom(kvs, j + 1, sh)
    BY <1>1, SharedFacts
  <1>6. /\ kv.key \in Seq(Nat) /\ kv.value \in Seq(Nat) /\ Len(kv.key) \in Nat
        /\ Len(kv.key) <= MAX_U32 /\ vl <= MAX_U32
    <2>1. kv \in Pair
      BY <1>1, ElementOfSeq
    <2> QED
      BY <1>1, <2>1 DEF Pair, Fits
  <1>7. /\ shared = sh /\ non_shared = ns /\ value_len = vl
        /\ ns \in Nat /\ vl \in Nat /\ cur + 3 + ns + vl <= Len(block)
        /\ SubSeq(block, cur + 4, cur + 3 + ns) = SubSeq(kv.key, sh + 1, Len(kv.key))
        /\ SubSeq(block, cur + 4 + ns, cur + 3 + ns + vl) = kv.value
    BY <1>4 DEF LaidOut, shared, non_shared, value_len
  <1>8. sh \in 0..Len(kv.key) /\ sh \in Nat
    BY <1>5, <1>6 DEF TakesFrom
  <1>9. /\ prev_key \in Seq(Nat) /\ sh <= Len(prev_key)
        /\ SubSeq(prev_key, 1, sh) = SubSeq(kv.key, 1, sh)
    <2>1. CASE j = 0
      <3>1. prev_key = <<>> /\ Len(<<>>) = 0
        BY <2>1 DEF DecodedTo
      <3>2. sh = 0
        BY <1>1, <1>5, <2>1 DEF TakesFrom
      <3>3. SubSeq(prev_key, 1, 0) = <<>> /\ SubSeq(kv.key, 1, 0) = <<>>
        BY SubSeqEmpty
      <3> HIDE DEF sh, kv
      <3> QED
        BY <3>1, <3>2, <3>3
    <2>2. CASE j # 0
      <3>1. prev_key = kvs[j].key /\ j \in 1..Len(kvs)
        BY <1>1, <2>2 DEF DecodedTo
      <3>2. prev_key \in Seq(Nat) /\ Len(prev_key) \in Nat
        <4>1. kvs[j] \in Pair
          BY <3>1, ElementOfSeq
        <4> QED
          BY <3>1, <4>1 DEF Pair
      <3>3. CASE sh = 0
        <4>1. SubSeq(prev_key, 1, 0) = <<>> /\ SubSeq(kv.key, 1, 0) = <<>>
          BY SubSeqEmpty
        <4> HIDE DEF sh, kv
        <4> QED
          BY <3>2, <3>3, <4>1
      <3>4. CASE sh # 0
        <4>1. sh <= Len(kvs[j].key) /\ SubSeq(kvs[j].key, 1, sh) = SubSeq(kv.key, 1, sh)
          BY <1>1, <1>5, <3>4 DEF TakesFrom
        <4> QED
          BY <3>1, <3>2, <4>1
      <3> QED
        BY <3>3, <3>4
    <2> QED
      BY <2>1, <2>2
  <1> HIDE DEF sh, ns, vl, kv
  <1>10. ns <= Len(kv.key) /\ sh <= Len(kv.key)
    BY <1>6, <1>8 DEF ns
  <1>11. MAX_U32 \in Nat
    BY FormatAssumption
  <1>12. EntryReads
    <2>1. cur + 3 <= Len(block)
      <3>1. Len(block) \in Nat
        BY <1>1, EntryStands
      <3> QED
        BY <1>3, <1>7, <3>1, SMTT(30)
    <2>2. sh \in 0..MAX_U32 /\ ns \in 0..MAX_U32 /\ vl \in 0..MAX_U32
      BY <1>6, <1>7, <1>8, <1>10, <1>11 DEF vl
    <2>3. LengthsRead
      BY <1>7, <2>1, <2>2 DEF LengthsRead, Varint32
    <2> QED
      BY <1>7, <1>9, <2>3 DEF EntryReads
  <1>13. key = kv.key
    <2>1. 1 \in 1..Len(kv.key) + 1 /\ sh \in 1 - 1..Len(kv.key) /\ Len(kv.key) \in sh..Len(kv.key)
      BY <1>6, <1>8
    <2>2. SubSeq(kv.key, 1, sh) \o SubSeq(kv.key, sh + 1, Len(kv.key)) = SubSeq(kv.key, 1, Len(kv.key))
      BY <1>6, <2>1, ConcatAdjacentSubSeq
    <2>3. SubSeq(kv.key, 1, Len(kv.key)) = kv.key
      BY <1>6, SubSeqFull
    <2>4. key_delta = SubSeq(kv.key, sh + 1, Len(kv.key))
      BY <1>7 DEF key_delta
    <2> QED
      BY <1>7, <1>9, <2>2, <2>3, <2>4 DEF key
  <1>14. value = kv.value
    BY <1>7 DEF value
  <1> QED
    BY <1>4, <1>7, <1>12, <1>13, <1>14 DEF NextPair, kv

\* Entry takes the next pair.
LEMMA EntryDecodes ==
    ASSUME NEW kvs \in Seq(Pair), NEW interval \in Nat \ {0}, Fits(kvs),
           Decoding(kvs, interval), Entry
    PROVE  Decoding(kvs, interval)'
  <1>1. PICK j \in 0..Len(kvs) : DecodedTo(kvs, interval, j)
    BY DEF Decoding
  <1>2. block = Builder!BlockEntries(kvs, interval) /\ cur < Len(block)
    BY DEF Decoding, Entry
  <1>3. j # Len(kvs)
    <2>1. cur = Offset(kvs, interval, j)
      BY <1>1 DEF DecodedTo
    <2>2. CASE j = Len(kvs)
      <3>1. cur = Len(block) /\ cur \in Nat
        <4>1. cur = Len(block)
          BY <1>2, <2>1, <2>2, LastOffset
        <4>2. block \in Seq(Nat)
          BY <1>2, EntriesType, FlattenType
        <4> QED
          BY <4>1, <4>2
      <3> QED
        BY <1>2, <3>1
    <2> QED
      BY <2>2
  <1>4. NextPair(kvs, interval, j)
    BY <1>1, <1>2, <1>3, EntryComes
  <1>5. /\ Len(kvs) \in Nat /\ j + 1 \in 1..Len(kvs) /\ j + 1 \in 0..Len(kvs) /\ j + 1 # 0
        /\ (j + 1) - 1 = j /\ 1 \in 1..Len(kvs) + 1
    BY <1>3
  <1>6. kvs[j + 1] = [key |-> key, value |-> value]
    <2>1. kvs[j + 1] \in Pair
      BY <1>5, ElementOfSeq
    <2> QED
      BY <1>4, <2>1 DEF NextPair, Pair
  <1>7. entries' = SubSeq(kvs, 1, j + 1)
    <2>1. SubSeq(kvs, 1, j + 1) = Append(SubSeq(kvs, 1, j), kvs[j + 1])
      BY <1>5, SubSeqRecursiveSecond
    <2> QED
      BY <1>1, <1>6, <2>1 DEF DecodedTo, Entry
  <1>8. cur' = Offset(kvs, interval, j + 1) /\ prev_key' = kvs[j + 1].key /\ block' = block
    BY <1>4 DEF NextPair, Entry
  <1>9. DecodedTo(kvs, interval, j + 1)'
    BY <1>5, <1>7, <1>8 DEF DecodedTo
  <1> QED
    BY <1>2, <1>5, <1>8, <1>9 DEF Decoding

\* Every entry of the block reads, and at its end all the pairs are there.
LEMMA DecodingIsExact ==
    ASSUME NEW kvs \in Seq(Pair), NEW interval \in Nat \ {0}, Fits(kvs),
           Decoding(kvs, interval)
    PROVE  /\ cur < Len(block) => EntryReads
           /\ cur = Len(block) => entries = kvs
  <1>1. PICK j \in 0..Len(kvs) : DecodedTo(kvs, interval, j)
    BY DEF Decoding
  <1>2. block = Builder!BlockEntries(kvs, interval) /\ cur = Offset(kvs, interval, j)
    BY <1>1 DEF Decoding, DecodedTo
  <1>3. cur = Len(block) <=> j = Len(kvs)
    BY <1>2, LastOffset
  <1>4. ASSUME j # Len(kvs)
        PROVE  EntryReads
    BY <1>1, <1>2, <1>4, EntryComes DEF NextPair
  <1>5. ASSUME j = Len(kvs)
        PROVE  entries = kvs
    BY <1>1, <1>5, SubSeqFull DEF DecodedTo
  <1>6. Len(block) \in Nat
    <2>1. block \in Seq(Nat)
      BY <1>2, EntriesType, FlattenType
    <2> QED
      BY <2>1
  <1>7. cur < Len(block) => j # Len(kvs)
    BY <1>3, <1>6
  <1> QED
    BY <1>3, <1>4, <1>5, <1>7

\* A block starts with nothing read of it.
LEMMA DecodingStarts ==
    ASSUME NEW kvs \in Seq(Pair), NEW interval \in Nat \ {0}, NEW cells, Open(cells),
           Entries(Body(BlockHandle(cells))) = Builder!BlockEntries(kvs, interval)
    PROVE  Decoding(kvs, interval)'
  <1>1. Offset(kvs, interval, 0) = 0 /\ SubSeq(kvs, 1, 0) = <<>> /\ 0 \in 0..Len(kvs)
    BY LastOffset, SubSeqEmpty
  <1>2. DecodedTo(kvs, interval, 0)'
    BY <1>1 DEF DecodedTo, Open
  <1> QED
    BY <1>1, <1>2 DEF Decoding, Open

-----------------------------------------------------------------------------
(* What is in a table that LevelDB builds, and where.                      *)

\* The restart points of a block follow its entries, and their number is last.
LEMMA BlockShape ==
    ASSUME NEW kvs \in Seq(Pair), NEW interval \in Nat \ {0}
    PROVE  /\ Builder!Block(kvs, interval) \in Seq(Nat)
           /\ RestartsFit(Builder!Block(kvs, interval))
           /\ Entries(Builder!Block(kvs, interval)) = Builder!BlockEntries(kvs, interval)
  <1> DEFINE r == IF kvs = <<>> THEN 1 ELSE (Len(kvs) - 1) \div interval + 1
             x == Builder!BlockEntries(kvs, interval)
             f == [k \in 1..r |-> k]
             b == x \o f \o <<r>>
  <1>1. r \in Nat
    <2>1. CASE kvs = <<>>
      BY <2>1
    <2>2. CASE kvs # <<>>
      <3>1. Len(kvs) - 1 \in Nat
        BY <2>2
      <3> DEFINE m == Len(kvs) - 1
      <3> HIDE DEF m
      <3>2. m \div interval \in Nat
        BY <3>1 DEF m
      <3>3. r = m \div interval + 1
        BY <2>2 DEF m
      <3> QED
        BY <3>2, <3>3
    <2> QED
      BY <2>1, <2>2
  <1>2. x \in Seq(Nat)
    BY EntriesType, FlattenType
  <1>3. Builder!Block(kvs, interval) = b
    BY DEF Builder!Block
  <1> HIDE DEF r, x
  <1>4. f \in Seq(Nat) /\ Len(f) = r
    BY <1>1
  <1>5. <<r>> \in Seq(Nat) /\ Len(<<r>>) = 1 /\ <<r>>[1] = r
    BY <1>1
  <1> HIDE DEF f
  <1>6. /\ x \o f \in Seq(Nat) /\ Len(x \o f) = Len(x) + r /\ Len(x) \in Nat
        /\ \A i \in 1..Len(x) : (x \o f)[i] = x[i]
    <2>1. x \in Seq(Nat) /\ f \in Seq(Nat)
      BY <1>2, <1>4
    <2>2. /\ x \o f \in Seq(Nat) /\ Len(x \o f) = Len(x) + Len(f) /\ Len(x) \in Nat
          /\ \A i \in 1..Len(x) : (x \o f)[i] = x[i]
      BY <2>1, ConcatFacts
    <2> QED
      BY <1>4, <2>2
  <1> DEFINE a == x \o f
  <1> HIDE DEF a
  <1>7. /\ a \o <<r>> \in Seq(Nat) /\ Len(a \o <<r>>) = Len(a) + 1
        /\ \A i \in 1..Len(a) : (a \o <<r>>)[i] = a[i]
        /\ (a \o <<r>>)[Len(a) + 1] = r
    <2>1. a \in Seq(Nat)
      BY <1>6 DEF a
    <2>2. /\ a \o <<r>> \in Seq(Nat) /\ Len(a \o <<r>>) = Len(a) + Len(<<r>>)
          /\ \A i \in 1..Len(a) : (a \o <<r>>)[i] = a[i]
          /\ \A i \in 1..Len(<<r>>) : (a \o <<r>>)[Len(a) + i] = <<r>>[i]
      BY <1>5, <2>1, ConcatFacts
    <2>3. 1 \in 1..1
      OBVIOUS
    <2> QED
      BY <1>5, <2>2, <2>3
  <1>8. /\ b \in Seq(Nat) /\ Len(b) = Len(x) + r + 1 /\ b[Len(b)] = r
        /\ \A i \in 1..Len(x) : b[i] = x[i]
    <2>1. b = a \o <<r>> /\ Len(a) = Len(x) + r
      BY <1>6 DEF a
    <2>2. \A i \in 1..Len(x) : i \in 1..Len(a) /\ a[i] = x[i]
      BY <1>1, <1>6, <2>1 DEF a
    <2> HIDE DEF b
    <2> QED
      BY <1>7, <2>1, <2>2
  <1> HIDE DEF b
  <1>9. RestartsFit(b)
    BY <1>1, <1>6, <1>8 DEF RestartsFit
  <1>10. Entries(b) = x
    <2>1. 0 \in Nat /\ 0 + Len(x) <= Len(b) /\ \A i \in 1..Len(x) : b[0 + i] = x[i]
      BY <1>1, <1>6, <1>8
    <2>2. SubSeq(b, 0 + 1, 0 + Len(x)) = x
      BY <1>2, <1>8, <2>1, PartIs
    <2>3. Len(b) - 1 - b[Len(b)] = Len(x) /\ 0 + 1 = 1 /\ 0 + Len(x) = Len(x)
      BY <1>1, <1>6, <1>8
    <2> QED
      BY <2>2, <2>3 DEF Entries
  <1> QED
    BY <1>3, <1>8, <1>9, <1>10 DEF x

\* The parts of an internal key.
LEMMA InternalKeyFacts ==
    ASSUME NEW r \in TableRecord, NEW e,
           e = [key |-> Builder!InternalKey(r), value |-> r.value]
    PROVE  /\ Builder!InternalKey(r) \in Seq(Nat)
           /\ Len(Builder!InternalKey(r)) = Len(r.key) + 2
           /\ Len(r.key) \in Nat
           /\ HasTrailer(e) /\ Record(e) = r
  <1> DEFINE n  == Len(r.key)
             ty == IF r.deleted THEN TYPE_DELETION ELSE Builder!TYPE_VALUE
             l  == <<ty, r.seq>>
             ik == r.key \o l
  <1>1. r.key \in Seq(Nat) /\ n \in Nat /\ r.seq \in Nat /\ r.deleted \in BOOLEAN
    BY DEF TableRecord
  <1>2. ty \in Nat /\ (ty = TYPE_DELETION) = r.deleted
    BY <1>1, FormatAssumption DEF Builder!TYPE_VALUE
  <1> HIDE DEF ty
  <1>3. l \in Seq(Nat) /\ Len(l) = 2 /\ l[1] = ty /\ l[2] = r.seq
    BY <1>1, <1>2
  <1> HIDE DEF l
  <1>4. /\ ik \in Seq(Nat) /\ Len(ik) = n + 2
        /\ \A i \in 1..n : ik[i] = r.key[i]
        /\ ik[n + 1] = ty /\ ik[n + 2] = r.seq
    <2>1. /\ r.key \o l \in Seq(Nat) /\ Len(r.key \o l) = Len(r.key) + Len(l)
          /\ \A i \in 1..Len(r.key) : (r.key \o l)[i] = r.key[i]
          /\ \A i \in 1..Len(l) : (r.key \o l)[Len(r.key) + i] = l[i]
      <3>1. r.key \in Seq(Nat) /\ l \in Seq(Nat)
        BY <1>1, <1>3
      <3> QED
        BY <3>1, ConcatFacts
    <2>2. 1 \in 1..2 /\ 2 \in 1..2
      OBVIOUS
    <2> QED
      BY <1>3, <2>1, <2>2
  <1>5. Builder!InternalKey(r) = ik
    BY DEF Builder!InternalKey, l, ty
  <1> HIDE DEF ik
  <1>6. SubSeq(ik, 1, n) = r.key
    <2>1. 0 \in Nat /\ 0 + Len(r.key) <= Len(ik) /\ \A i \in 1..Len(r.key) : ik[0 + i] = r.key[i]
      BY <1>1, <1>4
    <2>2. SubSeq(ik, 0 + 1, 0 + Len(r.key)) = r.key
      BY <1>1, <1>4, <2>1, PartIs
    <2> QED
      BY <1>1, <2>2
  <1>7. HasTrailer(e) /\ Record(e) = r
    <2>1. e.key = ik /\ e.value = r.value
      BY <1>5
    <2>2. Len(ik) >= 2 /\ Len(ik) - 2 = n
      BY <1>1, <1>4
    <2>3. HasTrailer(e)
      BY <2>1, <2>2 DEF HasTrailer, INTERNAL_KEY_TRAILER
    <2>4. Record(e) = [key |-> SubSeq(ik, 1, n), value |-> r.value, seq |-> ik[n + 2],
                       deleted |-> ik[n + 1] = TYPE_DELETION]
      BY <2>1, <2>2 DEF Record, INTERNAL_KEY_TRAILER
    <2>5. Record(e) = [key |-> r.key, value |-> r.value, seq |-> r.seq, deleted |-> r.deleted]
      BY <1>2, <1>4, <1>6, <2>4
    <2>6. r = [key |-> r.key, value |-> r.value, seq |-> r.seq, deleted |-> r.deleted]
      BY DEF TableRecord
    <2> QED
      BY <2>3, <2>5, <2>6
  <1> QED
    BY <1>1, <1>4, <1>5, <1>7

\* The pairs of a block are its records, and split into them again.
LEMMA KeyValuesFacts ==
    ASSUME NEW rs \in Seq(TableRecord)
    PROVE  /\ Builder!KeyValues(rs) \in Seq(Pair)
           /\ Len(Builder!KeyValues(rs)) = Len(rs)
           /\ \A k \in DOMAIN rs : /\ Len(Builder!KeyValues(rs)[k].key) = Len(rs[k].key) + 2
                                   /\ Builder!KeyValues(rs)[k].value = rs[k].value
           /\ Records(Builder!KeyValues(rs)) = rs
  <1> DEFINE kvs == Builder!KeyValues(rs)
  <1>1. DOMAIN rs = 1..Len(rs) /\ Len(rs) \in Nat /\ \A k \in 1..Len(rs) : rs[k] \in TableRecord
    BY ElementOfSeq
  <1>2. kvs = [k \in 1..Len(rs) |-> [key |-> Builder!InternalKey(rs[k]), value |-> rs[k].value]]
    BY <1>1 DEF Builder!KeyValues
  <1>3. \A k \in 1..Len(rs) :
           kvs[k] = [key |-> Builder!InternalKey(rs[k]), value |-> rs[k].value]
    BY <1>2
  <1> HIDE DEF kvs
  <1>4. ASSUME NEW k \in 1..Len(rs)
        PROVE  /\ kvs[k] \in Pair
               /\ Len(kvs[k].key) = Len(rs[k].key) + 2 /\ kvs[k].value = rs[k].value
               /\ HasTrailer(kvs[k]) /\ Record(kvs[k]) = rs[k]
    <2>1. rs[k] \in TableRecord /\ rs[k].value \in Seq(Nat)
      BY <1>1 DEF TableRecord
    <2>2. /\ Builder!InternalKey(rs[k]) \in Seq(Nat)
          /\ Len(Builder!InternalKey(rs[k])) = Len(rs[k].key) + 2
      BY <2>1, InternalKeyFacts
    <2>3. HasTrailer(kvs[k]) /\ Record(kvs[k]) = rs[k]
      BY <1>3, <2>1, InternalKeyFacts
    <2>4. kvs[k] = [key |-> Builder!InternalKey(rs[k]), value |-> rs[k].value]
      BY <1>3
    <2>5. kvs[k] \in Pair /\ Len(kvs[k].key) = Len(rs[k].key) + 2 /\ kvs[k].value = rs[k].value
      BY <2>1, <2>2, <2>4 DEF Pair
    <2> QED
      BY <2>3, <2>5
  <1>5. kvs \in Seq(Pair) /\ Len(kvs) = Len(rs) /\ DOMAIN kvs = DOMAIN rs
    <2>1. kvs \in [1..Len(rs) -> Pair]
      BY <1>2, <1>4
    <2> QED
      BY <1>1, <2>1
  <1>6. Records(kvs) = rs
    <2>1. [k \in DOMAIN kvs |-> IF HasTrailer(kvs[k]) THEN <<Record(kvs[k])>> ELSE <<>>]
             = [k \in DOMAIN rs |-> <<rs[k]>>]
      BY <1>1, <1>4, <1>5
    <2>2. FlattenSeq([k \in DOMAIN rs |-> <<rs[k]>>]) = rs
      BY FlattenOnes
    <2> QED
      BY <2>1, <2>2 DEF Records
  <1> QED
    BY <1>1, <1>4, <1>5, <1>6 DEF kvs

\* What the reader must follow in the table of src: block k holds the pairs
\* KvsOf(src, k), with restart points every IntervalOf(src, k) entries.
KvsOf(src, k) ==
    IF k \in DOMAIN src.groups THEN Builder!KeyValues(src.groups[k])
    ELSE IF k = Len(src.groups) + 1 THEN <<>>
    ELSE Builder!Index(src)

IntervalOf(src, k) == IF k = Len(src.groups) + 2 THEN 1 ELSE src.interval

BlockOf(src, k) == Builder!Block(KvsOf(src, k), IntervalOf(src, k))

CompressionOf(src, k) ==
    IF k \in DOMAIN src.groups THEN src.compression ELSE COMPRESSION_NONE

\* What stands in the file for a block.
Stored(body, c) == IF c = COMPRESSION_SNAPPY THEN <<Builder!PACKED>> ELSE body

\* The handle of a frame.
HandleOf(src, k) == Builder!HandleOf(Builder!Frames(src), k)

\* A frame is what is stored and a trailer of two cells.
LEMMA FrameFacts ==
    ASSUME NEW body \in Seq(Nat), NEW c \in Nat
    PROVE  /\ Builder!Frame(body, c) \in Seq(Nat)
           /\ Stored(body, c) \in Seq(Nat)
           /\ Len(Builder!Frame(body, c)) = Len(Stored(body, c)) + 2
           /\ \A i \in 1..Len(Stored(body, c)) : Builder!Frame(body, c)[i] = Stored(body, c)[i]
           /\ Builder!Frame(body, c)[Len(Stored(body, c)) + 1] = c
  <1> DEFINE s == Stored(body, c)
             l == <<c, Builder!CRC>>
  <1>1. s \in Seq(Nat)
    <2>1. <<Builder!PACKED>> \in Seq(Nat)
      BY DEF Builder!PACKED
    <2> QED
      BY <2>1 DEF Stored
  <1>2. l \in Seq(Nat) /\ Len(l) = 2 /\ l[1] = c
    BY DEF Builder!CRC
  <1>3. Builder!Frame(body, c) = s \o l
    BY DEF Builder!Frame, Stored
  <1> HIDE DEF s, l
  <1>4. /\ s \o l \in Seq(Nat) /\ Len(s \o l) = Len(s) + Len(l)
        /\ \A i \in 1..Len(s) : (s \o l)[i] = s[i]
        /\ \A i \in 1..Len(l) : (s \o l)[Len(s) + i] = l[i]
    <2>1. s \in Seq(Nat) /\ l \in Seq(Nat)
      BY <1>1, <1>2
    <2> QED
      BY <2>1, ConcatFacts
  <1>5. 1 \in 1..2
    OBVIOUS
  <1> QED
    BY <1>1, <1>2, <1>3, <1>4, <1>5 DEF s

\* The handle of a frame of any file.
LEMMA HandleFacts ==
    ASSUME NEW fs \in Seq(Seq(Nat)), NEW k \in 1..Len(fs), Len(fs[k]) >= 2
    PROVE  /\ Builder!HandleOf(fs, k)
                 = [offset |-> Len(JoinedTo(fs, k - 1)), size |-> Len(fs[k]) - 2]
           /\ Len(JoinedTo(fs, k - 1)) \in Nat /\ Len(fs[k]) - 2 \in Nat
  <1>1. fs[k] \in Seq(Nat) /\ Len(fs[k]) \in Nat
    BY ElementOfSeq
  <1>2. Len(JoinedTo(fs, k - 1)) \in Nat
    BY ElementStands
  <1> QED
    BY <1>1, <1>2, BuilderFlattens DEF Builder!HandleOf, JoinedTo

\* What the pairs, the blocks and the frames of a source are.
LEMMA GroupFacts ==
    ASSUME NEW src, IsSource(src), NEW k \in DOMAIN src.groups
    PROVE  /\ src.groups \in Seq(Seq(TableRecord)) /\ k \in 1..Len(src.groups)
           /\ src.groups[k] \in Seq(TableRecord) /\ src.groups[k] # <<>>
           /\ Builder!KeyValues(src.groups[k]) \in Seq(Pair)
           /\ Fits(Builder!KeyValues(src.groups[k]))
  <1>1. src.groups \in Seq(Seq(TableRecord) \ {<<>>})
    BY DEF IsSource
  <1>2. src.groups \in Seq(Seq(TableRecord)) /\ k \in 1..Len(src.groups)
    BY <1>1
  <1>3. src.groups[k] \in Seq(TableRecord) /\ src.groups[k] # <<>>
    BY <1>1, <1>2, ElementOfSeq
  <1> DEFINE rs  == src.groups[k]
             kvs == Builder!KeyValues(rs)
  <1>4. /\ kvs \in Seq(Pair) /\ Len(kvs) = Len(rs)
        /\ \A i \in DOMAIN rs : Len(kvs[i].key) = Len(rs[i].key) + 2 /\ kvs[i].value = rs[i].value
    BY <1>3, KeyValuesFacts
  <1>5. \A i \in DOMAIN rs : /\ Len(rs[i].key) + 2 <= MAX_U32
                             /\ Len(rs[i].value) <= MAX_U32
    BY DEF IsSource, INTERNAL_KEY_TRAILER
  <1> HIDE DEF rs, kvs
  <1>6. DOMAIN kvs = DOMAIN rs
    <2>1. DOMAIN kvs = 1..Len(kvs) /\ DOMAIN rs = 1..Len(rs)
      BY <1>3, <1>4 DEF rs
    <2> QED
      BY <1>4, <2>1
  <1>7. Fits(kvs)
    BY <1>4, <1>5, <1>6 DEF Fits
  <1> QED
    BY <1>2, <1>3, <1>4, <1>7 DEF rs, kvs

\* The data blocks and their frames.
LEMMA DataFacts ==
    ASSUME NEW src, IsSource(src)
    PROVE  /\ Builder!DataFrames(src) \in Seq(Seq(Nat))
           /\ Len(Builder!DataFrames(src)) = Len(src.groups)
           /\ Len(src.groups) \in Nat /\ DOMAIN src.groups = 1..Len(src.groups)
           /\ \A k \in 1..Len(src.groups) :
                 /\ Builder!DataFrames(src)[k]
                       = Builder!Frame(Builder!Block(Builder!KeyValues(src.groups[k]),
                                                     src.interval), src.compression)
                 /\ Len(Builder!DataFrames(src)[k]) \in Nat
                 /\ Len(Builder!DataFrames(src)[k]) >= 2
  <1> DEFINE data == Builder!DataFrames(src)
             n    == Len(src.groups)
             body(k) == Builder!Block(Builder!KeyValues(src.groups[k]), src.interval)
  <1>1. n \in Nat /\ DOMAIN src.groups = 1..n
    <2>1. src.groups \in Seq(Seq(TableRecord) \ {<<>>})
      BY DEF IsSource
    <2> QED
      BY <2>1
  <1>2. data = [k \in 1..n |-> Builder!Frame(body(k), src.compression)]
    BY <1>1 DEF Builder!DataFrames
  <1>3. src.interval \in Nat \ {0} /\ src.compression \in Nat
    BY FormatAssumption DEF IsSource
  <1>4. ASSUME NEW k \in 1..n
        PROVE  /\ Builder!Frame(body(k), src.compression) \in Seq(Nat)
               /\ Len(Builder!Frame(body(k), src.compression)) >= 2
               /\ Len(Builder!Frame(body(k), src.compression)) \in Nat
    <2>1. Builder!KeyValues(src.groups[k]) \in Seq(Pair)
      BY <1>1, GroupFacts
    <2>2. body(k) \in Seq(Nat)
      BY <1>3, <2>1, BlockShape
    <2> DEFINE b == body(k)
               f == Builder!Frame(b, src.compression)
               s == Stored(b, src.compression)
    <2> HIDE DEF b
    <2>3. f \in Seq(Nat) /\ s \in Seq(Nat) /\ Len(f) = Len(s) + 2
      BY <1>3, <2>2, FrameFacts DEF b
    <2> HIDE DEF f, s
    <2>4. Len(s) \in Nat
      BY <2>3
    <2> QED
      BY <2>3, <2>4 DEF f, b
  <1>5. \A k \in 1..n : data[k] = Builder!Frame(body(k), src.compression)
    BY <1>2
  <1> HIDE DEF data, body
  <1>6. data \in Seq(Seq(Nat)) /\ Len(data) = n
    <2>1. data \in [1..n -> Seq(Nat)]
      BY <1>2, <1>4
    <2> QED
      BY <1>1, <2>1
  <1> QED
    BY <1>1, <1>4, <1>5, <1>6 DEF data, body

\* The pairs of the index.
LEMMA IndexFacts ==
    ASSUME NEW src, IsSource(src)
    PROVE  /\ Builder!Index(src) \in Seq(Pair)
           /\ Len(Builder!Index(src)) = Len(src.groups)
           /\ Fits(Builder!Index(src))
           /\ \A k \in 1..Len(src.groups) :
                 /\ Builder!Index(src)[k].value
                       = Builder!Cells(Builder!HandleOf(Builder!DataFrames(src), k))
  <1> DEFINE data == Builder!DataFrames(src)
             n    == Len(src.groups)
             ix   == Builder!Index(src)
             last(k) == Builder!InternalKey(Builder!Last(src.groups[k]))
             cells(k) == Builder!Cells(Builder!HandleOf(data, k))
  <1>1. /\ data \in Seq(Seq(Nat)) /\ Len(data) = n /\ n \in Nat /\ DOMAIN src.groups = 1..n
        /\ \A k \in 1..n : Len(data[k]) >= 2
    BY DataFacts
  <1>2. ix = [k \in 1..n |-> [key |-> last(k), value |-> cells(k)]]
    BY <1>1 DEF Builder!Index
  <1>3. \A k \in 1..n : ix[k] = [key |-> last(k), value |-> cells(k)]
    BY <1>2
  <1>4. ASSUME NEW k \in 1..n
        PROVE  last(k) \in Seq(Nat) /\ Len(last(k)) <= MAX_U32
    <2> DEFINE rs == src.groups[k]
    <2>1. k \in DOMAIN src.groups /\ rs \in Seq(TableRecord) /\ rs # <<>>
      BY <1>1, GroupFacts
    <2>2. /\ Len(rs) \in 1..Len(rs) /\ DOMAIN rs = 1..Len(rs) /\ Last(rs) = rs[Len(rs)]
          /\ rs[Len(rs)] \in TableRecord
      <3> HIDE DEF rs
      <3>1. Len(rs) \in 1..Len(rs) /\ DOMAIN rs = 1..Len(rs) /\ Last(rs) = rs[Len(rs)]
        BY <2>1 DEF Last
      <3> QED
        BY <2>1, <3>1, ElementOfSeq
    <2>3. Len(rs[Len(rs)].key) + 2 <= MAX_U32
      BY <2>1, <2>2 DEF IsSource, INTERNAL_KEY_TRAILER
    <2>4. /\ Builder!InternalKey(rs[Len(rs)]) \in Seq(Nat)
          /\ Len(Builder!InternalKey(rs[Len(rs)])) = Len(rs[Len(rs)].key) + 2
      BY <2>2, InternalKeyFacts
    <2>5. Builder!Last(src.groups[k]) = Last(src.groups[k])
      BY Zenon DEF Builder!Last, Last
    <2> QED
      BY <2>2, <2>3, <2>4, <2>5
  <1>5. ASSUME NEW k \in 1..n
        PROVE  cells(k) \in Seq(Nat) /\ Len(cells(k)) = 2
    <2>1. /\ Builder!HandleOf(data, k) = [offset |-> Len(JoinedTo(data, k - 1)),
                                          size |-> Len(data[k]) - 2]
          /\ Len(JoinedTo(data, k - 1)) \in Nat /\ Len(data[k]) - 2 \in Nat
      BY <1>1, HandleFacts
    <2> QED
      BY <2>1 DEF Builder!Cells
  <1> HIDE DEF ix, last, cells
  <1>6. ASSUME NEW k \in 1..n
        PROVE  /\ ix[k] \in Pair /\ ix[k].key = last(k) /\ ix[k].value = cells(k)
    <2>1. ix[k] = [key |-> last(k), value |-> cells(k)]
      BY <1>3
    <2> QED
      BY <1>4, <1>5, <2>1 DEF Pair
  <1>7. ix \in Seq(Pair) /\ Len(ix) = n /\ DOMAIN ix = 1..n
    <2>1. ix = [k \in 1..n |-> ix[k]]
      BY <1>2
    <2>2. ix \in [1..n -> Pair] /\ n \in Nat
      BY <1>1, <1>6, <2>1
    <2> QED
      BY <2>2
  <1>8. Fits(ix)
    <2>1. MAX_U32 \in Nat /\ 2 <= MAX_U32
      BY FormatAssumption
    <2>2. ASSUME NEW k \in 1..n
          PROVE  Len(ix[k].key) <= MAX_U32 /\ Len(ix[k].value) <= MAX_U32
      BY <1>4, <1>5, <1>6, <2>1
    <2> QED
      BY <1>7, <2>2 DEF Fits
  <1>9. \A k \in 1..n : ix[k].value = Builder!Cells(Builder!HandleOf(data, k))
    BY <1>6 DEF cells
  <1> QED
    BY <1>7, <1>8, <1>9 DEF ix

\* The pairs of every block.
LEMMA KvsFacts ==
    ASSUME NEW src, IsSource(src), NEW k \in 1..Len(src.groups) + 2
    PROVE  /\ KvsOf(src, k) \in Seq(Pair) /\ Fits(KvsOf(src, k))
           /\ IntervalOf(src, k) \in Nat \ {0}
           /\ CompressionOf(src, k) \in {COMPRESSION_NONE, COMPRESSION_SNAPPY}
           /\ CompressionOf(src, k) \in Nat
           /\ BlockOf(src, k) \in Seq(Nat)
  <1>1. Len(src.groups) \in Nat /\ DOMAIN src.groups = 1..Len(src.groups)
    BY DataFacts
  <1>2. KvsOf(src, k) \in Seq(Pair) /\ Fits(KvsOf(src, k))
    <2>1. CASE k \in DOMAIN src.groups
      BY <2>1, GroupFacts DEF KvsOf
    <2>2. CASE k = Len(src.groups) + 1
      <3>1. k \notin DOMAIN src.groups
        BY <1>1, <2>2
      <3>2. KvsOf(src, k) = <<>>
        BY <2>2, <3>1 DEF KvsOf
      <3> QED
        BY <3>2 DEF Fits
    <2>3. CASE k \notin DOMAIN src.groups /\ k # Len(src.groups) + 1
      <3>1. KvsOf(src, k) = Builder!Index(src)
        BY <2>3 DEF KvsOf
      <3> QED
        BY <3>1, IndexFacts
    <2> QED
      BY <2>1, <2>2, <2>3
  <1>3. IntervalOf(src, k) \in Nat \ {0}
    BY DEF IntervalOf, IsSource
  <1>4. CompressionOf(src, k) \in {COMPRESSION_NONE, COMPRESSION_SNAPPY}
    BY DEF CompressionOf, IsSource
  <1>5. CompressionOf(src, k) \in Nat
    BY <1>4, FormatAssumption
  <1> QED
    BY <1>2, <1>3, <1>4, <1>5, BlockShape DEF BlockOf

\* The frames of the file: the data blocks, the metaindex, the index.
LEMMA FramesFacts ==
    ASSUME NEW src, IsSource(src)
    PROVE  /\ Builder!Frames(src) \in Seq(Seq(Nat))
           /\ Len(Builder!Frames(src)) = Len(src.groups) + 2 /\ Len(src.groups) \in Nat
           /\ \A k \in 1..Len(src.groups) + 2 :
                 Builder!Frames(src)[k] = Builder!Frame(BlockOf(src, k), CompressionOf(src, k))
           /\ \A k \in 1..Len(src.groups) :
                 HandleOf(src, k) = Builder!HandleOf(Builder!DataFrames(src), k)
  <1> DEFINE data == Builder!DataFrames(src)
             n    == Len(src.groups)
             fs   == Builder!Frames(src)
             f1   == Builder!Frame(Builder!Block(<<>>, src.interval), COMPRESSION_NONE)
             f2   == Builder!Frame(Builder!Block(Builder!Index(src), 1), COMPRESSION_NONE)
             l    == <<f1, f2>>
  <1>1. /\ data \in Seq(Seq(Nat)) /\ Len(data) = n /\ n \in Nat /\ DOMAIN src.groups = 1..n
        /\ \A k \in 1..n : data[k] = Builder!Frame(Builder!Block(Builder!KeyValues(src.groups[k]),
                                                     src.interval), src.compression)
    BY DataFacts
  <1>2. \A k \in 1..n : Builder!Frame(BlockOf(src, k), CompressionOf(src, k)) = data[k]
    <2> TAKE k \in 1..n
    <2>1. k \in DOMAIN src.groups /\ k # n + 2
      BY <1>1
    <2> QED
      BY <1>1, <2>1 DEF BlockOf, KvsOf, IntervalOf, CompressionOf
  <1>3. f1 = Builder!Frame(BlockOf(src, n + 1), CompressionOf(src, n + 1))
    <2>1. n + 1 \notin DOMAIN src.groups /\ n + 1 # n + 2
      BY <1>1
    <2> QED
      BY <2>1 DEF BlockOf, KvsOf, IntervalOf, CompressionOf
  <1>4. f2 = Builder!Frame(BlockOf(src, n + 2), CompressionOf(src, n + 2))
    <2>1. n + 2 \notin DOMAIN src.groups /\ n + 1 # n + 2
      BY <1>1
    <2> QED
      BY <2>1 DEF BlockOf, KvsOf, IntervalOf, CompressionOf
  <1>5. f1 \in Seq(Nat) /\ f2 \in Seq(Nat)
    <2>1. n + 1 \in 1..n + 2 /\ n + 2 \in 1..n + 2
      BY <1>1
    <2>2. /\ BlockOf(src, n + 1) \in Seq(Nat) /\ CompressionOf(src, n + 1) \in Nat
          /\ BlockOf(src, n + 2) \in Seq(Nat) /\ CompressionOf(src, n + 2) \in Nat
      BY <2>1, KvsFacts
    <2>3. \A b \in Seq(Nat), c \in Nat : Builder!Frame(b, c) \in Seq(Nat)
      BY FrameFacts
    <2> QED
      BY <1>3, <1>4, <2>2, <2>3
  <1>6. fs = data \o l
    BY DEF Builder!Frames
  <1> HIDE DEF data, fs, f1, f2
  <1>7. l \in Seq(Seq(Nat)) /\ Len(l) = 2 /\ l[1] = f1 /\ l[2] = f2
    BY <1>5
  <1> HIDE DEF l
  <1>8. /\ fs \in Seq(Seq(Nat)) /\ Len(fs) = n + 2
        /\ \A i \in 1..n : fs[i] = data[i]
        /\ fs[n + 1] = f1 /\ fs[n + 2] = f2
    <2>1. /\ data \o l \in Seq(Seq(Nat)) /\ Len(data \o l) = Len(data) + Len(l)
          /\ \A i \in 1..Len(data) : (data \o l)[i] = data[i]
          /\ \A i \in 1..Len(l) : (data \o l)[Len(data) + i] = l[i]
      <3>1. data \in Seq(Seq(Nat)) /\ l \in Seq(Seq(Nat))
        BY <1>1, <1>7
      <3> QED
        BY <3>1, ConcatFacts
    <2>2. 1 \in 1..2 /\ 2 \in 1..2
      OBVIOUS
    <2> QED
      BY <1>1, <1>6, <1>7, <2>1, <2>2
  <1>9. ASSUME NEW k \in 1..n + 2
        PROVE  fs[k] = Builder!Frame(BlockOf(src, k), CompressionOf(src, k))
    <2>1. k \in 1..n \/ k = n + 1 \/ k = n + 2
      BY <1>1
    <2> QED
      BY <1>2, <1>3, <1>4, <1>8, <2>1
  <1>10. ASSUME NEW k \in 1..n
         PROVE  HandleOf(src, k) = Builder!HandleOf(data, k)
    <2> DEFINE part == SubSeq(data, 1, k - 1)
    <2>1. /\ k - 1 \in Int /\ k - 1 <= Len(data) /\ 1 \in Nat \ {0}
          /\ \A i \in 1..k - 1 : i \in 1..n
      BY <1>1
    <2>2. /\ part \in Seq(Seq(Nat)) /\ Len(part) = k - 1
          /\ \A i \in 1..k - 1 : part[i] = data[i]
      <3>1. part \in Seq(Seq(Nat))
        BY <1>1, <2>1, PartType
      <3>2. \A i \in 1..k - 1 : data[i] \in Seq(Nat)
        BY <1>1, <2>1, ElementOfSeq
      <3>3. /\ Len(part) = IF 1 <= k - 1 THEN (k - 1) - 1 + 1 ELSE 0
            /\ \A i \in 1..(k - 1) - 1 + 1 : part[i] = data[1 + i - 1]
        BY <1>1, <2>1, <3>2, SubSeqProperties
      <3> HIDE DEF part
      <3>4. (k - 1) - 1 + 1 = k - 1 /\ \A i \in 1..k - 1 : 1 + i - 1 = i
        OBVIOUS
      <3> QED
        BY <3>1, <3>3, <3>4
    <2> HIDE DEF part
    <2>3. 0 \in Nat /\ 0 + Len(part) <= Len(fs) /\ \A i \in 1..Len(part) : fs[0 + i] = part[i]
      BY <1>1, <1>8, <2>1, <2>2
    <2>4. SubSeq(fs, 0 + 1, 0 + Len(part)) = part
      BY <1>8, <2>2, <2>3, PartIs
    <2>5. 0 + 1 = 1 /\ 0 + Len(part) = k - 1
      BY <2>2
    <2>6. SubSeq(fs, 1, k - 1) = SubSeq(data, 1, k - 1)
      BY <2>4, <2>5 DEF part
    <2> QED
      BY <1>8, <2>6 DEF HandleOf, Builder!HandleOf, fs
  <1> QED
    BY <1>1, <1>8, <1>9, <1>10 DEF fs, data

\* The cells of the file: the frames, then the footer.
FileParts(b, x, h1, h2) ==
    /\ b \in Seq(Nat) /\ Len(b) = Len(x) + 5 /\ Len(x) \in Nat
    /\ \A i \in 1..Len(x) : b[i] = x[i]
    /\ b[Len(x) + 1] = h1.offset /\ b[Len(x) + 2] = h1.size
    /\ b[Len(x) + 3] = h2.offset /\ b[Len(x) + 4] = h2.size
    /\ b[Len(x) + 5] = TABLE_MAGIC

LEMMA FooterFollows ==
    ASSUME NEW x \in Seq(Nat), NEW h1, NEW h2,
           h1.offset \in Nat, h1.size \in Nat, h2.offset \in Nat, h2.size \in Nat
    PROVE  FileParts(x \o Builder!Cells(h1) \o Builder!Cells(h2) \o <<TABLE_MAGIC>>, x, h1, h2)
  <1> DEFINE c1 == Builder!Cells(h1)
             c2 == Builder!Cells(h2)
             c3 == <<TABLE_MAGIC>>
             p  == x \o c1
             q  == p \o c2
             b  == q \o c3
  <1>1. c1 \in Seq(Nat) /\ Len(c1) = 2 /\ c1[1] = h1.offset /\ c1[2] = h1.size
    BY DEF Builder!Cells
  <1>2. c2 \in Seq(Nat) /\ Len(c2) = 2 /\ c2[1] = h2.offset /\ c2[2] = h2.size
    BY DEF Builder!Cells
  <1>3. c3 \in Seq(Nat) /\ Len(c3) = 1 /\ c3[1] = TABLE_MAGIC
    BY FormatAssumption
  <1>4. b = x \o Builder!Cells(h1) \o Builder!Cells(h2) \o <<TABLE_MAGIC>>
    OBVIOUS
  <1>5. 1 \in 1..2 /\ 2 \in 1..2 /\ 1 \in 1..1
    OBVIOUS
  <1>6. Len(x) \in Nat
    OBVIOUS
  <1> HIDE DEF c1, c2, c3
  <1>7. /\ p \in Seq(Nat) /\ Len(p) = Len(x) + 2
        /\ \A i \in 1..Len(x) : p[i] = x[i]
        /\ p[Len(x) + 1] = h1.offset /\ p[Len(x) + 2] = h1.size
    <2>1. /\ x \o c1 \in Seq(Nat) /\ Len(x \o c1) = Len(x) + Len(c1)
          /\ \A i \in 1..Len(x) : (x \o c1)[i] = x[i]
          /\ \A i \in 1..Len(c1) : (x \o c1)[Len(x) + i] = c1[i]
      <3>1. c1 \in Seq(Nat)
        BY <1>1
      <3> QED
        BY <3>1, ConcatFacts
    <2> QED
      BY <1>1, <1>5, <2>1
  <1> HIDE DEF p
  <1>8. /\ q \in Seq(Nat) /\ Len(q) = Len(x) + 4
        /\ \A i \in 1..Len(x) + 2 : q[i] = p[i]
        /\ q[Len(x) + 3] = h2.offset /\ q[Len(x) + 4] = h2.size
    <2>1. /\ p \o c2 \in Seq(Nat) /\ Len(p \o c2) = Len(p) + Len(c2)
          /\ \A i \in 1..Len(p) : (p \o c2)[i] = p[i]
          /\ \A i \in 1..Len(c2) : (p \o c2)[Len(p) + i] = c2[i]
      <3>1. p \in Seq(Nat) /\ c2 \in Seq(Nat)
        BY <1>2, <1>7
      <3> QED
        BY <3>1, ConcatFacts
    <2>2. /\ Len(p) = Len(x) + 2 /\ Len(p) + Len(c2) = Len(x) + 4
          /\ Len(p) + 1 = Len(x) + 3 /\ Len(p) + 2 = Len(x) + 4
      BY <1>2, <1>6, <1>7
    <2> QED
      BY <1>2, <1>5, <2>1, <2>2
  <1> HIDE DEF q
  <1>9. /\ b \in Seq(Nat) /\ Len(b) = Len(x) + 5
        /\ \A i \in 1..Len(x) + 4 : b[i] = q[i]
        /\ b[Len(x) + 5] = TABLE_MAGIC
    <2>1. /\ q \o c3 \in Seq(Nat) /\ Len(q \o c3) = Len(q) + Len(c3)
          /\ \A i \in 1..Len(q) : (q \o c3)[i] = q[i]
          /\ \A i \in 1..Len(c3) : (q \o c3)[Len(q) + i] = c3[i]
      <3>1. q \in Seq(Nat) /\ c3 \in Seq(Nat)
        BY <1>3, <1>8
      <3> QED
        BY <3>1, ConcatFacts
    <2>2. /\ Len(q) = Len(x) + 4 /\ Len(q) + Len(c3) = Len(x) + 5
          /\ Len(q) + 1 = Len(x) + 5
      BY <1>3, <1>6, <1>8
    <2> QED
      BY <1>3, <1>5, <2>1, <2>2
  <1> HIDE DEF b
  <1>10. ASSUME NEW i \in 1..Len(x)
         PROVE  b[i] = x[i]
    <2>1. i \in 1..Len(x) + 2 /\ i \in 1..Len(x) + 4
      BY <1>6
    <2> QED
      BY <1>7, <1>8, <1>9, <2>1
  <1>11. /\ b[Len(x) + 1] = h1.offset /\ b[Len(x) + 2] = h1.size
         /\ b[Len(x) + 3] = h2.offset /\ b[Len(x) + 4] = h2.size
    <2>1. /\ Len(x) + 1 \in 1..Len(x) + 2 /\ Len(x) + 2 \in 1..Len(x) + 2
          /\ Len(x) + 1 \in 1..Len(x) + 4 /\ Len(x) + 2 \in 1..Len(x) + 4
          /\ Len(x) + 3 \in 1..Len(x) + 4 /\ Len(x) + 4 \in 1..Len(x) + 4
      BY <1>6
    <2> QED
      BY <1>7, <1>8, <1>9, <2>1
  <1>12. FileParts(b, x, h1, h2)
    BY <1>6, <1>9, <1>10, <1>11 DEF FileParts
  <1> QED
    BY <1>4, <1>12

\* Where block k of src stands in the file.
Placed(src, b, k) ==
    LET h == HandleOf(src, k)
        s == Stored(BlockOf(src, k), CompressionOf(src, k))
    IN  /\ h = [offset |-> h.offset, size |-> h.size]
        /\ h.offset \in Nat /\ h.size \in Nat /\ h.size = Len(s) /\ s \in Seq(Nat)
        /\ h.offset + h.size + 2 <= Len(b) - 5
        /\ \A i \in 1..Len(s) : b[h.offset + i] = s[i]
        /\ b[h.offset + h.size + 1] = CompressionOf(src, k)

\* No two frames overlap.
Apart(src, j, k) ==
    HandleOf(src, j).offset + HandleOf(src, j).size + 2 <= HandleOf(src, k).offset

LEMMA FrameHandle ==
    ASSUME NEW src, IsSource(src), NEW k \in 1..Len(src.groups) + 2
    PROVE  /\ HandleOf(src, k)
                 = [offset |-> Len(JoinedTo(Builder!Frames(src), k - 1)),
                    size   |-> Len(Stored(BlockOf(src, k), CompressionOf(src, k)))]
           /\ Len(JoinedTo(Builder!Frames(src), k - 1)) \in Nat
           /\ Len(Stored(BlockOf(src, k), CompressionOf(src, k))) \in Nat
           /\ Stored(BlockOf(src, k), CompressionOf(src, k)) \in Seq(Nat)
           /\ Len(Builder!Frames(src)[k]) = HandleOf(src, k).size + 2
           /\ k \in 1..Len(Builder!Frames(src))
  <1> DEFINE fs == Builder!Frames(src)
             b  == BlockOf(src, k)
             c  == CompressionOf(src, k)
             s  == Stored(b, c)
  <1>1. /\ fs \in Seq(Seq(Nat)) /\ Len(fs) = Len(src.groups) + 2 /\ k \in 1..Len(fs)
        /\ fs[k] = Builder!Frame(b, c)
    BY FramesFacts
  <1>2. b \in Seq(Nat) /\ c \in Nat
    BY KvsFacts
  <1> HIDE DEF b, c
  <1>3. s \in Seq(Nat) /\ Len(fs[k]) = Len(s) + 2
    BY <1>1, <1>2, FrameFacts
  <1> HIDE DEF s, fs
  <1>4. Len(s) \in Nat /\ Len(fs[k]) >= 2 /\ Len(fs[k]) - 2 = Len(s)
    BY <1>3
  <1>5. /\ Builder!HandleOf(fs, k)
                 = [offset |-> Len(JoinedTo(fs, k - 1)), size |-> Len(fs[k]) - 2]
        /\ Len(JoinedTo(fs, k - 1)) \in Nat
    BY <1>1, <1>4, HandleFacts
  <1> QED
    BY <1>1, <1>3, <1>4, <1>5 DEF HandleOf, fs, s, b, c

LEMMA FramesApart ==
    ASSUME NEW src, IsSource(src), NEW j \in 1..Len(src.groups) + 2,
           NEW k \in 1..Len(src.groups) + 2, j < k
    PROVE  Apart(src, j, k)
  <1> DEFINE fs == Builder!Frames(src)
             hj == HandleOf(src, j)
             hk == HandleOf(src, k)
  <1>1. /\ hj.offset = Len(JoinedTo(fs, j - 1)) /\ Len(fs[j]) = hj.size + 2
        /\ hk.offset = Len(JoinedTo(fs, k - 1))
    BY FrameHandle
  <1>2. fs \in Seq(Seq(Nat)) /\ Len(fs) = Len(src.groups) + 2 /\ Len(src.groups) \in Nat
    BY FramesFacts
  <1> HIDE DEF fs, hj, hk
  <1>3. j \in 1..Len(fs) /\ j \in 0..Len(fs) /\ k - 1 \in j..Len(fs)
    BY <1>2
  <1>4. Len(JoinedTo(fs, j)) = Len(JoinedTo(fs, j - 1)) + Len(fs[j])
        /\ Len(JoinedTo(fs, j - 1)) \in Nat /\ fs[j] \in Seq(Nat)
    BY <1>2, <1>3, ElementStands
  <1>5. Len(JoinedTo(fs, j)) <= Len(JoinedTo(fs, k - 1))
    BY <1>2, <1>3, JoinedGrows
  <1>6. hj.offset + (hj.size + 2) <= hk.offset
    BY <1>1, <1>4, <1>5
  <1>7. hj.offset \in Nat /\ hj.size \in Nat
    BY FrameHandle DEF hj
  <1>8. hj.offset + hj.size + 2 <= hk.offset
    BY <1>1, <1>6, <1>7
  <1> QED
    BY <1>8 DEF Apart, hj, hk

\* Two blocks have two handles.
LEMMA HandlesDiffer ==
    ASSUME NEW src, IsSource(src), NEW j \in 1..Len(src.groups) + 2,
           NEW k \in 1..Len(src.groups) + 2, HandleOf(src, j) = HandleOf(src, k)
    PROVE  j = k
  <1>1. /\ HandleOf(src, j).offset \in Nat /\ HandleOf(src, j).size \in Nat
        /\ HandleOf(src, k).offset \in Nat /\ HandleOf(src, k).size \in Nat
    BY FrameHandle
  <1>2. Len(src.groups) \in Nat
    BY DataFacts
  <1>3. CASE j < k
    <2>1. HandleOf(src, j).offset + HandleOf(src, j).size + 2 <= HandleOf(src, k).offset
      BY <1>3, FramesApart DEF Apart
    <2> QED
      BY <1>1, <2>1
  <1>4. CASE k < j
    <2>1. HandleOf(src, k).offset + HandleOf(src, k).size + 2 <= HandleOf(src, j).offset
      BY <1>4, FramesApart DEF Apart
    <2> QED
      BY <1>1, <2>1
  <1> QED
    BY <1>2, <1>3, <1>4

\* The table of src as it was built.
Built(src) == Builder!TableOf(src)

LEMMA BuiltFacts ==
    ASSUME NEW src, IsSource(src)
    PROVE  /\ FileParts(Built(src).buf, FlattenSeq(Builder!Frames(src)),
                        HandleOf(src, Len(src.groups) + 1), HandleOf(src, Len(src.groups) + 2))
           /\ \A k \in 1..Len(src.groups) + 2 : Placed(src, Built(src).buf, k)
  <1> DEFINE fs == Builder!Frames(src)
             x  == FlattenSeq(fs)
             n  == Len(src.groups)
             h1 == HandleOf(src, n + 1)
             h2 == HandleOf(src, n + 2)
             b  == x \o Builder!Cells(h1) \o Builder!Cells(h2) \o <<TABLE_MAGIC>>
  <1>1. fs \in Seq(Seq(Nat)) /\ Len(fs) = n + 2 /\ n \in Nat
    BY FramesFacts
  <1>2. n + 1 \in 1..n + 2 /\ n + 2 \in 1..n + 2
    BY <1>1
  <1>3. h1.offset \in Nat /\ h1.size \in Nat /\ h2.offset \in Nat /\ h2.size \in Nat
    <2>1. h1.offset \in Nat /\ h1.size \in Nat
      BY <1>2, FrameHandle
    <2>2. h2.offset \in Nat /\ h2.size \in Nat
      BY <1>2, FrameHandle
    <2> QED
      BY <2>1, <2>2
  <1>4. x \in Seq(Nat)
    BY <1>1, FlattenType
  <1>5. Built(src).buf = b
    BY BuilderFlattens DEF Built, Builder!TableOf, HandleOf
  <1> HIDE DEF x, h1, h2, fs
  <1>6. FileParts(b, x, h1, h2)
    BY <1>3, <1>4, FooterFollows
  <1> HIDE DEF b
  <1>7. ASSUME NEW k \in 1..n + 2
        PROVE  Placed(src, b, k)
    <2> DEFINE h == HandleOf(src, k)
               s == Stored(BlockOf(src, k), CompressionOf(src, k))
    <2>1. /\ h = [offset |-> Len(JoinedTo(fs, k - 1)), size |-> Len(s)]
          /\ Len(JoinedTo(fs, k - 1)) \in Nat /\ Len(s) \in Nat /\ s \in Seq(Nat)
          /\ Len(fs[k]) = h.size + 2 /\ k \in 1..Len(fs)
      BY FrameHandle DEF fs
    <2>2. h.offset = Len(JoinedTo(fs, k - 1)) /\ h.size = Len(s)
          /\ h = [offset |-> h.offset, size |-> h.size]
      BY <2>1
    <2>3. /\ h.offset + Len(fs[k]) <= Len(x)
          /\ \A i \in 1..Len(fs[k]) : x[h.offset + i] = fs[k][i]
      <3>1. k \in 1..Len(fs)
        BY <2>1
      <3>2. /\ Len(JoinedTo(fs, k - 1)) + Len(fs[k]) <= Len(FlattenSeq(fs))
            /\ \A i \in 1..Len(fs[k]) : FlattenSeq(fs)[Len(JoinedTo(fs, k - 1)) + i] = fs[k][i]
        BY <1>1, <3>1, ElementStands
      <3> QED
        BY <2>2, <3>2 DEF x
    <2>4. /\ \A i \in 1..Len(s) : fs[k][i] = s[i]
          /\ fs[k][Len(s) + 1] = CompressionOf(src, k)
      <3>1. fs[k] = Builder!Frame(BlockOf(src, k), CompressionOf(src, k))
        BY FramesFacts DEF fs
      <3>2. BlockOf(src, k) \in Seq(Nat) /\ CompressionOf(src, k) \in Nat
        BY KvsFacts
      <3> DEFINE body == BlockOf(src, k)
                 c    == CompressionOf(src, k)
      <3> HIDE DEF body, c
      <3>3. /\ \A i \in 1..Len(Stored(body, c)) : Builder!Frame(body, c)[i] = Stored(body, c)[i]
            /\ Builder!Frame(body, c)[Len(Stored(body, c)) + 1] = c
        BY <3>2, FrameFacts DEF body, c
      <3> QED
        BY <3>1, <3>3 DEF body, c
    <2> HIDE DEF h, s
    <2>5. h.offset \in Nat /\ h.size \in Nat /\ Len(fs[k]) = h.size + 2 /\ Len(x) \in Nat
          /\ Len(b) = Len(x) + 5
      BY <1>6, <2>1, <2>2 DEF FileParts
    <2>6. h.offset + h.size + 2 <= Len(b) - 5
      BY <2>3, <2>5
    <2>7. ASSUME NEW i \in 1..Len(fs[k])
          PROVE  b[h.offset + i] = fs[k][i]
      <3>1. h.offset + i \in 1..Len(x)
        BY <2>3, <2>5
      <3>2. b[h.offset + i] = x[h.offset + i]
        BY <1>6, <3>1 DEF FileParts
      <3> QED
        BY <2>3, <3>2
    <2>8. ASSUME NEW i \in 1..Len(s)
          PROVE  b[h.offset + i] = s[i]
      <3>1. i \in 1..Len(fs[k])
        BY <2>1, <2>2, <2>5
      <3> QED
        BY <2>4, <2>7, <3>1
    <2>9. b[h.offset + h.size + 1] = CompressionOf(src, k)
      <3>1. h.size + 1 \in 1..Len(fs[k]) /\ h.offset + (h.size + 1) = h.offset + h.size + 1
        BY <2>5, SMTT(30)
      <3>2. b[h.offset + (h.size + 1)] = fs[k][h.size + 1]
        BY <2>7, <3>1
      <3> QED
        BY <2>2, <2>4, <3>1, <3>2
    <2> QED
      BY <2>1, <2>2, <2>5, <2>6, <2>8, <2>9 DEF Placed, h, s
  <1> QED
    BY <1>5, <1>6, <1>7 DEF x, h1, h2, fs

-----------------------------------------------------------------------------
(* What the reader finds in a table, whole or damaged.                     *)

\* The blocks the reader follows: the data blocks and the index.
Blocks(src) == DOMAIN src.groups \cup {Len(src.groups) + 2}

IndexCells(src, k) == Builder!Cells(HandleOf(src, k))

\* Block k leads to its pairs, or its error is of that kind.
ReadsBlock(src, k) ==
    /\ Leads(IndexCells(src, k))
    /\ Entries(Body(BlockHandle(IndexCells(src, k))))
          = Builder!BlockEntries(KvsOf(src, k), IntervalOf(src, k))

FailsAt(src, k, kind) == ~Leads(IndexCells(src, k)) /\ LeadError(IndexCells(src, k)) = kind

\* The table has block k as it was built.
CellsAgree(src, k) ==
    LET h == HandleOf(src, k)
    IN  \A i \in h.offset + 1..h.offset + h.size + 1 : table.buf[i] = Built(src).buf[i]

Agrees(src, k) ==
    LET h == HandleOf(src, k)
    IN  /\ Len(table.buf) = Len(Built(src).buf)
        /\ CellsAgree(src, k)
        /\ h \in table.good
        /\ h \in DOMAIN Built(src).inflated =>
              h \in DOMAIN table.inflated /\ table.inflated[h] = Built(src).inflated[h]

FooterAgrees(src) ==
    /\ Len(table.buf) = Len(Built(src).buf)
    /\ \A i \in Len(table.buf) - 4..Len(table.buf) : table.buf[i] = Built(src).buf[i]

\* What its compressed blocks inflate to.
LEMMA InflatedFacts ==
    ASSUME NEW src, IsSource(src)
    PROVE  /\ DOMAIN Built(src).inflated = {HandleOf(src, k) : k \in Builder!Packed(src)}
           /\ Builder!Packed(src) \subseteq DOMAIN src.groups
           /\ \A k \in Builder!Packed(src) :
                 /\ Built(src).inflated[HandleOf(src, k)] = BlockOf(src, k)
                 /\ Len(BlockOf(src, k)) <= MAX_DECOMPRESSED_BLOCK
                 /\ src.compression = COMPRESSION_SNAPPY
  <1> DEFINE P       == Builder!Packed(src)
             body(k) == Builder!Block(Builder!KeyValues(src.groups[k]), src.interval)
             group(h) == CHOOSE k \in P : HandleOf(src, k) = h
  <1>1. P \subseteq DOMAIN src.groups /\ \A k \in P : src.compression = COMPRESSION_SNAPPY
    BY DEF Builder!Packed
  <1>2. Len(src.groups) \in Nat /\ DOMAIN src.groups = 1..Len(src.groups)
    BY DataFacts
  <1>3. Built(src).inflated = [h \in {HandleOf(src, k) : k \in P} |-> body(group(h))]
    BY DEF Built, Builder!TableOf, HandleOf
  <1>4. ASSUME NEW k \in P
        PROVE  group(HandleOf(src, k)) = k
    <2>1. \A j \in P : j \in 1..Len(src.groups) + 2
      BY <1>1, <1>2
    <2>2. group(HandleOf(src, k)) \in P /\ HandleOf(src, group(HandleOf(src, k))) = HandleOf(src, k)
      OBVIOUS
    <2> HIDE DEF group, P
    <2> QED
      BY <2>1, <2>2, HandlesDiffer
  <1>5. ASSUME NEW k \in P
        PROVE  BlockOf(src, k) = body(k)
    <2>1. k \in DOMAIN src.groups /\ k # Len(src.groups) + 2
      BY <1>1, <1>2
    <2>2. KvsOf(src, k) = Builder!KeyValues(src.groups[k])
      BY <2>1 DEF KvsOf
    <2>3. IntervalOf(src, k) = src.interval
      BY <2>1 DEF IntervalOf
    <2> QED
      BY <2>2, <2>3 DEF BlockOf
  <1>6. \A k \in P : Len(body(k)) <= MAX_DECOMPRESSED_BLOCK
    BY DEF IsSource
  <1> HIDE DEF P, body, group
  <1>7. DOMAIN Built(src).inflated = {HandleOf(src, k) : k \in P}
    BY <1>3
  <1>8. \A k \in P : Built(src).inflated[HandleOf(src, k)] = body(k)
    BY <1>3, <1>4
  <1> QED
    BY <1>1, <1>5, <1>6, <1>7, <1>8 DEF P

\* The cells of a handle read as that handle.
LEMMA CellsOfHandle ==
    ASSUME NEW src, IsSource(src), NEW k \in 1..Len(src.groups) + 2
    PROVE  /\ IsHandle(IndexCells(src, k))
           /\ BlockHandle(IndexCells(src, k)) = HandleOf(src, k)
  <1> DEFINE h == HandleOf(src, k)
  <1>1. h.offset \in Nat /\ h.size \in Nat /\ h = [offset |-> h.offset, size |-> h.size]
    BY FrameHandle
  <1>2. IndexCells(src, k) = <<h.offset, h.size>>
    BY DEF IndexCells, Builder!Cells
  <1> HIDE DEF h
  <1>3. /\ Len(<<h.offset, h.size>>) = 2 /\ <<h.offset, h.size>>[1] = h.offset
        /\ <<h.offset, h.size>>[2] = h.size
    OBVIOUS
  <1>4. h.offset # BadVarint /\ h.size # BadVarint
    BY <1>1 DEF BadVarint
  <1>5. IsHandle(IndexCells(src, k))
    BY <1>2, <1>3, <1>4 DEF IsHandle
  <1>6. BlockHandle(IndexCells(src, k)) = h
    BY <1>1, <1>2, <1>3 DEF BlockHandle
  <1> QED
    BY <1>5, <1>6 DEF h

\* The compression type of a block that agrees, and its place in the file.
LEMMA PlaceFacts ==
    ASSUME NEW src, IsSource(src), NEW k \in 1..Len(src.groups) + 2,
           Len(table.buf) = Len(Built(src).buf)
    PROVE  /\ HandleOf(src, k).offset \in Nat /\ HandleOf(src, k).size \in Nat
           /\ InFile(HandleOf(src, k))
           /\ HandleOf(src, k).offset + HandleOf(src, k).size + 2 <= Len(table.buf) - 5
           /\ Len(table.buf) \in Nat
           /\ Built(src).buf \in Seq(Nat)
           /\ CellsAgree(src, k) => Compression(HandleOf(src, k)) = CompressionOf(src, k)
  <1> DEFINE h == HandleOf(src, k)
  <1>1. Placed(src, Built(src).buf, k)
    BY BuiltFacts
  <1>2. Built(src).buf \in Seq(Nat) /\ Len(Built(src).buf) \in Nat
    BY BuiltFacts DEF FileParts
  <1>3. /\ h.offset \in Nat /\ h.size \in Nat
        /\ h.offset + h.size + 2 <= Len(table.buf) - 5
        /\ Built(src).buf[h.offset + h.size + 1] = CompressionOf(src, k)
    BY <1>1 DEF Placed
  <1>4. h.offset + h.size + 2 <= Len(table.buf)
    BY <1>2, <1>3
  <1>5. InFile(h)
    BY <1>4 DEF InFile, BLOCK_TRAILER_LEN
  <1>6. ASSUME CellsAgree(src, k)
        PROVE  Compression(h) = CompressionOf(src, k)
    <2>1. h.offset + h.size + 1 \in h.offset + 1..h.offset + h.size + 1
      BY <1>3
    <2>2. table.buf[h.offset + h.size + 1] = Built(src).buf[h.offset + h.size + 1]
      BY <1>6, <2>1 DEF CellsAgree
    <2> QED
      BY <1>3, <2>2 DEF Compression
  <1> QED
    BY <1>2, <1>3, <1>5, <1>6

\* A block that is as it was built reads.
LEMMA SoundBlock ==
    ASSUME table \in Tables, NEW src, IsSource(src), NEW k \in 1..Len(src.groups) + 2,
           Agrees(src, k)
    PROVE  ReadsBlock(src, k)
  <1> DEFINE h == HandleOf(src, k)
             b == BlockOf(src, k)
             c == CompressionOf(src, k)
  <1>1. /\ Len(table.buf) = Len(Built(src).buf) /\ CellsAgree(src, k) /\ h \in table.good
        /\ h \in DOMAIN Built(src).inflated =>
              h \in DOMAIN table.inflated /\ table.inflated[h] = Built(src).inflated[h]
    BY DEF Agrees
  <1>2. /\ h.offset \in Nat /\ h.size \in Nat /\ InFile(h) /\ Compression(h) = c
        /\ h.offset + h.size + 2 <= Len(table.buf) - 5 /\ Len(table.buf) \in Nat
    BY <1>1, PlaceFacts
  <1>3. /\ KvsOf(src, k) \in Seq(Pair) /\ IntervalOf(src, k) \in Nat \ {0}
        /\ c \in {COMPRESSION_NONE, COMPRESSION_SNAPPY} /\ b \in Seq(Nat)
    BY KvsFacts
  <1>4. /\ RestartsFit(b)
        /\ Entries(b) = Builder!BlockEntries(KvsOf(src, k), IntervalOf(src, k))
    BY <1>3, BlockShape DEF BlockOf
  <1>5. BlockReads(h) /\ Body(h) = b
    <2>1. CASE c = COMPRESSION_NONE
      <3>1. Stored(b, c) = b
        BY <2>1, FormatAssumption DEF Stored
      <3>2. Placed(src, Built(src).buf, k)
        BY BuiltFacts
      <3>3. h.size = Len(b) /\ \A i \in 1..Len(b) : Built(src).buf[h.offset + i] = b[i]
        BY <3>1, <3>2 DEF Placed
      <3>4. \A i \in 1..Len(b) : table.buf[h.offset + i] = b[i]
        <4> TAKE i \in 1..Len(b)
        <4>1. h.offset + i \in h.offset + 1..h.offset + h.size + 1
          BY <1>2, <3>3
        <4>2. table.buf[h.offset + i] = Built(src).buf[h.offset + i]
          BY <1>1, <4>1 DEF CellsAgree
        <4> QED
          BY <3>3, <4>2
      <3>5. table.buf \in Seq(Byte) /\ b \in Seq(Byte)
        <4>1. Nat \subseteq Byte
          BY DEF Byte
        <4>2. b \in Seq(Byte)
          BY <1>3, <4>1, SeqMonotonic
        <4> QED
          BY <4>2, FileType
      <3>6. h.offset + Len(b) <= Len(table.buf)
        BY <1>2, <3>3
      <3> HIDE DEF b
      <3>7. SubSeq(table.buf, h.offset + 1, h.offset + Len(b)) = b
        BY <1>2, <3>4, <3>5, <3>6, PartIs
      <3>8. Body(h) = b
        BY <1>2, <2>1, <3>3, <3>7 DEF Body
      <3> QED
        BY <1>1, <1>2, <2>1, <3>8 DEF BlockReads
    <2>2. CASE c = COMPRESSION_SNAPPY
      <3>1. COMPRESSION_NONE # COMPRESSION_SNAPPY
        BY FormatAssumption
      <3>2. k \in Builder!Packed(src)
        BY <2>2, <3>1 DEF CompressionOf, Builder!Packed
      <3>3. /\ h \in DOMAIN Built(src).inflated /\ Built(src).inflated[h] = b
            /\ Len(b) <= MAX_DECOMPRESSED_BLOCK
        BY <3>2, InflatedFacts
      <3>4. h \in DOMAIN table.inflated /\ table.inflated[h] = b
        BY <1>1, <3>3
      <3>5. Inflates(h)
        BY <3>3, <3>4 DEF Inflates
      <3>6. Body(h) = b
        BY <1>2, <2>2, <3>1, <3>4 DEF Body
      <3> QED
        BY <1>1, <1>2, <2>2, <3>5, <3>6 DEF BlockReads
    <2> QED
      BY <1>3, <2>1, <2>2
  <1>6. IsHandle(IndexCells(src, k)) /\ BlockHandle(IndexCells(src, k)) = h
    BY CellsOfHandle
  <1> QED
    BY <1>4, <1>5, <1>6 DEF ReadsBlock, Leads

\* A footer that is as it was built leads to the index.
LEMMA SoundFooter ==
    ASSUME table \in Tables, NEW src, IsSource(src), FooterAgrees(src)
    PROVE  FooterReads /\ IndexHandle = IndexCells(src, Len(src.groups) + 2)
  <1> DEFINE n  == Len(src.groups)
             h1 == HandleOf(src, n + 1)
             h2 == HandleOf(src, n + 2)
             x  == FlattenSeq(Builder!Frames(src))
             m  == Len(table.buf)
  <1>1. FileParts(Built(src).buf, x, h1, h2) /\ n \in Nat
    BY BuiltFacts, DataFacts
  <1>2. n + 1 \in 1..n + 2 /\ n + 2 \in 1..n + 2
    BY <1>1
  <1>3. h1.offset \in Nat /\ h1.size \in Nat /\ h2.offset \in Nat /\ h2.size \in Nat
    <2>1. \A k \in 1..n + 2 : HandleOf(src, k).offset \in Nat /\ HandleOf(src, k).size \in Nat
      BY FrameHandle
    <2> QED
      BY <1>2, <2>1
  <1> HIDE DEF h1, h2, x
  <1>4. /\ m = Len(x) + 5 /\ Len(x) \in Nat /\ m \in Nat
        /\ \A i \in m - 4..m : table.buf[i] = Built(src).buf[i]
    BY <1>1 DEF FileParts, FooterAgrees
  <1>5. /\ table.buf[Len(x) + 1] = h1.offset /\ table.buf[Len(x) + 2] = h1.size
        /\ table.buf[Len(x) + 3] = h2.offset /\ table.buf[Len(x) + 4] = h2.size
        /\ table.buf[Len(x) + 5] = TABLE_MAGIC
    <2>1. /\ Len(x) + 1 \in m - 4..m /\ Len(x) + 2 \in m - 4..m /\ Len(x) + 3 \in m - 4..m
          /\ Len(x) + 4 \in m - 4..m /\ Len(x) + 5 \in m - 4..m
      BY <1>4
    <2> QED
      BY <1>1, <1>4, <2>1 DEF FileParts
  <1> DEFINE f == <<h1.offset, h1.size, h2.offset, h2.size, TABLE_MAGIC>>
  <1>6. /\ f \in Seq(Byte) /\ Len(f) = 5 /\ f[1] = h1.offset /\ f[2] = h1.size
        /\ f[3] = h2.offset /\ f[4] = h2.size /\ f[5] = TABLE_MAGIC
    BY <1>3, FormatAssumption DEF Byte
  <1> HIDE DEF f
  <1>7. Footer = f
    <2>1. table.buf \in Seq(Byte) /\ m = Len(table.buf)
      BY FileType
    <2>2. \A i \in 1..Len(f) : table.buf[Len(x) + i] = f[i]
      <3>1. \A i \in 1..5 : i = 1 \/ i = 2 \/ i = 3 \/ i = 4 \/ i = 5
        OBVIOUS
      <3> QED
        BY <1>5, <1>6, <3>1
    <2>3. Len(x) + Len(f) <= Len(table.buf)
      BY <1>4, <1>6
    <2>4. SubSeq(table.buf, Len(x) + 1, Len(x) + Len(f)) = f
      BY <1>4, <1>6, <2>1, <2>2, <2>3, PartIs, ZenonT(40)
    <2>5. Len(table.buf) - 5 + 1 = Len(x) + 1 /\ Len(table.buf) = Len(x) + Len(f)
      BY <1>4, <1>6
    <2> QED
      BY <2>4, <2>5 DEF Footer, FOOTER_LEN
  <1>8. SubSeq(f, 3, 4) = <<h2.offset, h2.size>>
    <2> DEFINE g == <<h2.offset, h2.size>>
    <2>1. g \in Seq(Byte) /\ Len(g) = 2 /\ g[1] = h2.offset /\ g[2] = h2.size
      BY <1>3 DEF Byte
    <2> HIDE DEF g
    <2>2. \A i \in 1..Len(g) : f[2 + i] = g[i]
      <3>1. \A i \in 1..2 : i = 1 \/ i = 2
        OBVIOUS
      <3> QED
        BY <1>6, <2>1, <3>1
    <2>3. 2 \in Nat /\ 2 + Len(g) <= Len(f) /\ 2 + 1 = 3 /\ 2 + Len(g) = 4
      BY <1>6, <2>1
    <2>4. SubSeq(f, 2 + 1, 2 + Len(g)) = g
      BY <1>6, <2>1, <2>2, <2>3, PartIs
    <2> QED
      BY <2>3, <2>4 DEF g
  <1>9. IndexHandle = IndexCells(src, n + 2)
    BY <1>7, <1>8 DEF IndexHandle, IndexCells, Builder!Cells, h2
  <1>10. IsHandle(SubSeq(Footer, 3, 4))
    <2>1. IsHandle(IndexCells(src, n + 2))
      BY <1>2, CellsOfHandle
    <2> QED
      BY <1>9, <2>1 DEF IndexHandle
  <1>11. IsHandle(Footer)
    <2>1. h1.offset # BadVarint /\ h1.size # BadVarint
      BY <1>3 DEF BadVarint
    <2>2. Len(f) >= 2 /\ BadVarint \notin {f[1], f[2]}
      BY <1>6, <2>1
    <2> QED
      BY <1>7, <2>2 DEF IsHandle
  <1>12. FooterReads
    BY <1>4, <1>6, <1>7, <1>10, <1>11 DEF FooterReads, FOOTER_LEN
  <1> QED
    BY <1>9, <1>12

\* One block of the table, b, is at fault, or none: then b is 0.
Situation(src, b, kind) ==
    /\ FooterReads
    /\ IndexHandle = IndexCells(src, Len(src.groups) + 2)
    /\ b \in Blocks(src) \cup {0}
    /\ \A k \in Blocks(src) \ {b} : ReadsBlock(src, k)
    /\ b # 0 => FailsAt(src, b, kind)

ErrorOf(damage) == IF damage = "flipped" THEN "BadBlockCrc"
                   ELSE IF damage = "foreign" THEN "UnknownCompression"
                   ELSE "LengthOutOfRange"

LEMMA BlocksFacts ==
    ASSUME NEW src, IsSource(src)
    PROVE  /\ Len(src.groups) \in Nat /\ DOMAIN src.groups = 1..Len(src.groups)
           /\ Blocks(src) \subseteq 1..Len(src.groups) + 2
           /\ 0 \notin Blocks(src)
  <1>1. Len(src.groups) \in Nat /\ DOMAIN src.groups = 1..Len(src.groups)
    BY DataFacts
  <1> QED
    BY <1>1 DEF Blocks

LEMMA BuiltRecord ==
    ASSUME NEW src, IsSource(src)
    PROVE  /\ Built(src) = [buf |-> Built(src).buf, good |-> Built(src).good,
                            inflated |-> Built(src).inflated, source |-> src,
                            damage |-> "none"]
           /\ Built(src).good = {HandleOf(src, k) : k \in 1..Len(src.groups) + 2}
           /\ Builder!Followed(src) = {HandleOf(src, k) : k \in Blocks(src)}
  <1>1. Built(src) = [buf |-> Built(src).buf, good |-> Built(src).good,
                      inflated |-> Built(src).inflated, source |-> src,
                      damage |-> "none"]
    BY DEF Built, Builder!TableOf
  <1>2. Built(src).good = {HandleOf(src, k) : k \in 1..Len(src.groups) + 2}
    BY DEF Built, Builder!TableOf, HandleOf
  <1>3. Builder!Followed(src) = {HandleOf(src, k) : k \in Blocks(src)}
    BY DEF Builder!Followed, Blocks, HandleOf
  <1> QED
    BY <1>1, <1>2, <1>3

\* What damage to a compressed block leaves of a table.
LEMMA PackedRecord ==
    ASSUME NEW t, NEW bs, NEW gs, NEW is, NEW src, NEW d, NEW h,
           t = [buf |-> bs, good |-> gs, inflated |-> is, source |-> src, damage |-> d]
    PROVE  /\ Builder!Undecodable(t, h).buf = bs /\ Builder!Undecodable(t, h).good = gs
           /\ Builder!Undecodable(t, h).inflated = [g \in DOMAIN is \ {h} |-> is[g]]
           /\ \A n : /\ Builder!Oversized(t, h, n).buf = bs /\ Builder!Oversized(t, h, n).good = gs
                     /\ Builder!Oversized(t, h, n).inflated
                           = [is EXCEPT ![h] = [k \in 1..n |-> 0]]
  BY DEF Builder!Undecodable, Builder!Oversized

\* A block that does not read fails with its error.
LEMMA BlockFails ==
    ASSUME NEW src, IsSource(src), NEW k \in Blocks(src), NEW kind,
           ~BlockReads(HandleOf(src, k)), BlockError(HandleOf(src, k)) = kind
    PROVE  FailsAt(src, k, kind)
  <1>1. k \in 1..Len(src.groups) + 2
    BY BlocksFacts
  <1>2. IsHandle(IndexCells(src, k)) /\ BlockHandle(IndexCells(src, k)) = HandleOf(src, k)
    BY <1>1, CellsOfHandle
  <1> QED
    BY <1>2 DEF FailsAt, Leads, LeadError

\* The compression type of one block changes: the others stay as they were.
LEMMA OneCellChanged ==
    ASSUME NEW src, IsSource(src), NEW b \in Blocks(src), NEW c,
           table.buf = [Built(src).buf EXCEPT
                           ![HandleOf(src, b).offset + HandleOf(src, b).size + 1] = c]
    PROVE  /\ FooterAgrees(src)
           /\ Len(table.buf) = Len(Built(src).buf)
           /\ \A k \in Blocks(src) \ {b} : CellsAgree(src, k)
           /\ Compression(HandleOf(src, b)) = c
  <1> DEFINE W == Built(src).buf
             h == HandleOf(src, b)
             p == h.offset + h.size + 1
  <1>1. Placed(src, W, b) /\ b \in 1..Len(src.groups) + 2
    BY BuiltFacts, BlocksFacts
  <1>2. W \in Seq(Nat) /\ Len(W) \in Nat
    BY BuiltFacts DEF FileParts
  <1>3. h.offset \in Nat /\ h.size \in Nat /\ h.offset + h.size + 2 <= Len(W) - 5
    BY <1>1 DEF Placed
  <1> DEFINE o == h.offset
             z == h.size
  <1>4. p \in 1..Len(W) /\ p < Len(W) - 5
    <2>1. o \in Nat /\ z \in Nat /\ o + z + 2 <= Len(W) - 5
      BY <1>3
    <2> HIDE DEF o, z
    <2>2. o + z + 1 \in 1..Len(W) /\ o + z + 1 < Len(W) - 5
      BY <1>2, <2>1
    <2> QED
      BY <2>2 DEF o, z
  <1> HIDE DEF W, h, p, o, z
  <1>5. table.buf = [W EXCEPT ![p] = c]
    BY DEF W, h, p
  <1>6. /\ DOMAIN W = 1..Len(W)
        /\ \A i \in 1..Len(W) : table.buf[i] = IF i = p THEN c ELSE W[i]
    BY <1>2, <1>5
  <1>7. Len(table.buf) = Len(W)
    <2>1. W \in Seq(Nat \cup {c})
      BY <1>2, SeqMonotonic
    <2>2. p \in 1..Len(W) /\ c \in Nat \cup {c}
      BY <1>4
    <2>3. Len([W EXCEPT ![p] = c]) = Len(W)
      BY <2>1, <2>2, ExceptSeq
    <2> QED
      BY <1>5, <2>3
  <1>8. FooterAgrees(src)
    <2>1. ASSUME NEW i \in Len(table.buf) - 4..Len(table.buf)
          PROVE  table.buf[i] = W[i]
      <3>1. i \in 1..Len(W) /\ i # p
        BY <1>2, <1>4, <1>7
      <3> QED
        BY <1>6, <3>1
    <2> QED
      BY <1>7, <2>1 DEF FooterAgrees, W
  <1>9. ASSUME NEW k \in Blocks(src) \ {b}
        PROVE  CellsAgree(src, k)
    <2> DEFINE g  == HandleOf(src, k)
               go == g.offset
               gz == g.size
    <2>1. k \in 1..Len(src.groups) + 2 /\ k # b
      BY BlocksFacts
    <2>2. Placed(src, W, k)
      BY <2>1, BuiltFacts DEF W
    <2>3. go \in Nat /\ gz \in Nat /\ go + gz + 2 <= Len(W) - 5
      BY <2>2 DEF Placed
    <2>4. o \in Nat /\ z \in Nat /\ p = o + z + 1
      BY <1>3 DEF o, z, p
    <2>5. go + gz + 2 <= o \/ o + z + 2 <= go
      <3>1. b < k \/ k < b
        BY <1>1, <2>1
      <3> QED
        BY <1>1, <2>1, <3>1, FramesApart DEF Apart, o, z, h
    <2> HIDE DEF g, go, gz
    <2>6. ASSUME NEW i \in go + 1..go + gz + 1
          PROVE  table.buf[i] = W[i]
      <3>1. i \in 1..Len(W) /\ i # p
        BY <1>2, <2>3, <2>4, <2>5
      <3> QED
        BY <1>6, <3>1
    <2> QED
      BY <2>6 DEF CellsAgree, W, g, go, gz
  <1>10. Compression(HandleOf(src, b)) = c
    BY <1>4, <1>6 DEF Compression, p, h
  <1> QED
    BY <1>7, <1>8, <1>9, <1>10 DEF W

\* A table that nothing happened to.
LEMMA WholeSituation ==
    ASSUME table \in Tables, NEW src, IsSource(src), table = Built(src), NEW kind
    PROVE  Situation(src, 0, kind)
  <1>1. FooterAgrees(src)
    BY DEF FooterAgrees
  <1>2. FooterReads /\ IndexHandle = IndexCells(src, Len(src.groups) + 2)
    BY <1>1, SoundFooter
  <1>3. ASSUME NEW k \in Blocks(src)
        PROVE  ReadsBlock(src, k)
    <2>1. k \in 1..Len(src.groups) + 2
      BY BlocksFacts
    <2>2. HandleOf(src, k) \in table.good
      BY <2>1, BuiltRecord
    <2>3. Agrees(src, k)
      BY <2>2 DEF Agrees, CellsAgree
    <2> QED
      BY <2>1, <2>3, SoundBlock
  <1> QED
    BY <1>2, <1>3 DEF Situation

\* A block that no longer matches its checksum.
LEMMA FlippedSituation ==
    ASSUME table \in Tables, NEW src, IsSource(src), NEW h \in Builder!Followed(src), NEW c,
           table = Builder!FlipBlock(Built(src), h, c)
    PROVE  \E b \in Blocks(src) : Situation(src, b, "BadBlockCrc")
  <1>1. PICK b \in Blocks(src) : h = HandleOf(src, b)
    BY BuiltRecord
  <1>2. /\ table.buf = [Built(src).buf EXCEPT ![h.offset + h.size + 1] = c]
        /\ table.good = Built(src).good \ {h}
        /\ table.inflated = Built(src).inflated
    BY BuiltRecord DEF Builder!FlipBlock
  <1>3. /\ FooterAgrees(src) /\ Len(table.buf) = Len(Built(src).buf)
        /\ \A k \in Blocks(src) \ {b} : CellsAgree(src, k)
    BY <1>1, <1>2, OneCellChanged
  <1>4. FooterReads /\ IndexHandle = IndexCells(src, Len(src.groups) + 2)
    BY <1>3, SoundFooter
  <1>5. ASSUME NEW k \in Blocks(src) \ {b}
        PROVE  ReadsBlock(src, k)
    <2>1. k \in 1..Len(src.groups) + 2 /\ b \in 1..Len(src.groups) + 2 /\ k # b
      BY BlocksFacts
    <2>2. HandleOf(src, k) # h
      BY <1>1, <2>1, HandlesDiffer
    <2>3. HandleOf(src, k) \in table.good
      BY <1>2, <2>1, <2>2, BuiltRecord
    <2>4. Agrees(src, k)
      BY <1>2, <1>3, <2>3 DEF Agrees
    <2> QED
      BY <2>1, <2>4, SoundBlock
  <1>6. FailsAt(src, b, "BadBlockCrc")
    <2>1. b \in 1..Len(src.groups) + 2
      BY BlocksFacts
    <2>2. InFile(h)
      BY <1>1, <1>3, <2>1, PlaceFacts
    <2>3. h \notin table.good
      BY <1>2
    <2>4. ~BlockReads(h) /\ BlockError(h) = "BadBlockCrc"
      BY <2>2, <2>3 DEF BlockReads, BlockError
    <2> QED
      BY <1>1, <2>4, BlockFails
  <1>7. b # 0
    BY BlocksFacts
  <1> QED
    BY <1>4, <1>5, <1>6, <1>7 DEF Situation

\* A sound block of a compression the reader does not know.
LEMMA ForeignSituation ==
    ASSUME table \in Tables, NEW src, IsSource(src), NEW h \in Builder!Followed(src), NEW c,
           c \notin {COMPRESSION_NONE, COMPRESSION_SNAPPY},
           table = Builder!Foreign(Built(src), h, c)
    PROVE  \E b \in Blocks(src) : Situation(src, b, "UnknownCompression")
  <1>1. PICK b \in Blocks(src) : h = HandleOf(src, b)
    BY BuiltRecord
  <1>2. /\ table.buf = [Built(src).buf EXCEPT ![h.offset + h.size + 1] = c]
        /\ table.good = Built(src).good
        /\ table.inflated = Built(src).inflated
    BY BuiltRecord DEF Builder!Foreign
  <1>3. /\ FooterAgrees(src) /\ Len(table.buf) = Len(Built(src).buf)
        /\ \A k \in Blocks(src) \ {b} : CellsAgree(src, k)
        /\ Compression(h) = c
    <2>1. table.buf = [Built(src).buf EXCEPT
                          ![HandleOf(src, b).offset + HandleOf(src, b).size + 1] = c]
      BY <1>1, <1>2
    <2>2. /\ FooterAgrees(src) /\ Len(table.buf) = Len(Built(src).buf)
          /\ \A k \in Blocks(src) \ {b} : CellsAgree(src, k)
          /\ Compression(HandleOf(src, b)) = c
      BY <2>1, OneCellChanged
    <2> QED
      BY <1>1, <2>2
  <1>4. FooterReads /\ IndexHandle = IndexCells(src, Len(src.groups) + 2)
    BY <1>3, SoundFooter
  <1>5. \A k \in Blocks(src) : k \in 1..Len(src.groups) + 2 /\ HandleOf(src, k) \in table.good
    BY <1>2, BlocksFacts, BuiltRecord
  <1>6. ASSUME NEW k \in Blocks(src) \ {b}
        PROVE  ReadsBlock(src, k)
    <2>1. Agrees(src, k)
      BY <1>2, <1>3, <1>5 DEF Agrees
    <2> QED
      BY <1>5, <2>1, SoundBlock
  <1>7. FailsAt(src, b, "UnknownCompression")
    <2>1. InFile(h) /\ h \in table.good
      BY <1>1, <1>3, <1>5, PlaceFacts
    <2>2. ~BlockReads(h) /\ BlockError(h) = "UnknownCompression"
      BY <1>3, <2>1 DEF BlockReads, BlockError
    <2> QED
      BY <1>1, <2>2, BlockFails
  <1>8. b # 0
    BY BlocksFacts
  <1> QED
    BY <1>4, <1>6, <1>7, <1>8 DEF Situation

\* A compressed block that does not inflate, or to too much.
LEMMA PackedSituation ==
    ASSUME table \in Tables, NEW src, IsSource(src), NEW h \in DOMAIN Built(src).inflated,
           table.buf = Built(src).buf, table.good = Built(src).good, ~Inflates(h),
           \A g \in DOMAIN Built(src).inflated \ {h} :
              g \in DOMAIN table.inflated /\ table.inflated[g] = Built(src).inflated[g]
    PROVE  \E b \in Blocks(src) : Situation(src, b, "LengthOutOfRange")
  <1>1. PICK b \in Builder!Packed(src) : h = HandleOf(src, b)
    BY InflatedFacts
  <1>2. b \in Blocks(src) /\ b \in DOMAIN src.groups /\ src.compression = COMPRESSION_SNAPPY
    BY InflatedFacts DEF Blocks
  <1>3. FooterAgrees(src) /\ \A k \in Blocks(src) : CellsAgree(src, k)
    BY DEF FooterAgrees, CellsAgree
  <1>4. FooterReads /\ IndexHandle = IndexCells(src, Len(src.groups) + 2)
    BY <1>3, SoundFooter
  <1>5. \A k \in Blocks(src) : k \in 1..Len(src.groups) + 2 /\ HandleOf(src, k) \in table.good
    BY BlocksFacts, BuiltRecord
  <1>6. ASSUME NEW k \in Blocks(src) \ {b}
        PROVE  ReadsBlock(src, k)
    <2>1. HandleOf(src, k) # h
      BY <1>1, <1>2, <1>5, HandlesDiffer
    <2>2. Agrees(src, k)
      BY <1>3, <1>5, <2>1 DEF Agrees
    <2> QED
      BY <1>5, <2>2, SoundBlock
  <1>7. FailsAt(src, b, "LengthOutOfRange")
    <2>1. InFile(h) /\ h \in table.good /\ Compression(h) = COMPRESSION_SNAPPY
      <3>1. CompressionOf(src, b) = COMPRESSION_SNAPPY
        BY <1>2 DEF CompressionOf
      <3> QED
        BY <1>1, <1>2, <1>3, <1>5, <3>1, PlaceFacts
    <2>2. ~BlockReads(h) /\ BlockError(h) = "LengthOutOfRange"
      BY <2>1, FormatAssumption DEF BlockReads, BlockError
    <2> QED
      BY <1>1, <1>2, <2>2, BlockFails
  <1>8. b # 0
    BY <1>2, BlocksFacts
  <1> QED
    BY <1>2, <1>4, <1>6, <1>7, <1>8 DEF Situation

\* What the damage to a table says of it.
LEMMA Situated ==
    ASSUME table \in Tables, table.damage \in {"none", "flipped", "foreign", "packed"}
    PROVE  /\ IsSource(table.source)
           /\ \E b : /\ Situation(table.source, b, ErrorOf(table.damage))
                     /\ b = 0 <=> table.damage = "none"
  <1> DEFINE src == table.source
  <1>1. IsSource(src) /\ IsBuilt(table)
    BY TablesAreBuilt
  <1>2. CASE table.damage = "none"
    <2>1. table = Built(src)
      BY <1>1, <1>2 DEF IsBuilt, Built
    <2>2. Situation(src, 0, ErrorOf(table.damage))
      BY <1>1, <2>1, WholeSituation
    <2> QED
      BY <1>1, <1>2, <2>2
  <1>3. CASE table.damage = "flipped"
    <2>1. PICK h \in Builder!Followed(src) : table = Builder!FlipBlock(Built(src), h, TypeIn(table, h))
      BY <1>1, <1>3 DEF IsBuilt, Built
    <2>2. PICK b \in Blocks(src) : Situation(src, b, "BadBlockCrc")
      BY <1>1, <2>1, FlippedSituation
    <2>3. b # 0 /\ ErrorOf(table.damage) = "BadBlockCrc" /\ table.damage # "none"
      BY <1>1, <1>3, BlocksFacts DEF ErrorOf
    <2> QED
      BY <1>1, <2>2, <2>3
  <1>4. CASE table.damage = "foreign"
    <2>1. PICK h \in Builder!Followed(src) :
             /\ TypeIn(table, h) \notin {COMPRESSION_NONE, COMPRESSION_SNAPPY}
             /\ table = Builder!Foreign(Built(src), h, TypeIn(table, h))
      BY <1>1, <1>4 DEF IsBuilt, Built
    <2>2. PICK b \in Blocks(src) : Situation(src, b, "UnknownCompression")
      BY <1>1, <2>1, ForeignSituation
    <2>3. b # 0 /\ ErrorOf(table.damage) = "UnknownCompression" /\ table.damage # "none"
      BY <1>1, <1>4, BlocksFacts DEF ErrorOf
    <2> QED
      BY <1>1, <2>2, <2>3
  <1>5. CASE table.damage = "packed"
    <2>1. PICK h \in DOMAIN Built(src).inflated :
             \/ table = Builder!Undecodable(Built(src), h)
             \/ /\ Len(table.inflated[h]) > MAX_DECOMPRESSED_BLOCK
                /\ table = Builder!Oversized(Built(src), h, Len(table.inflated[h]))
      BY <1>1, <1>5 DEF IsBuilt, Built
    <2> DEFINE W  == Built(src)
               bs == W.buf
               gs == W.good
               is == W.inflated
    <2>2. W = [buf |-> bs, good |-> gs, inflated |-> is, source |-> src, damage |-> "none"]
      BY <1>1, BuiltRecord
    <2>3. /\ Builder!Undecodable(W, h).buf = bs /\ Builder!Undecodable(W, h).good = gs
          /\ Builder!Undecodable(W, h).inflated = [g \in DOMAIN is \ {h} |-> is[g]]
          /\ \A n : /\ Builder!Oversized(W, h, n).buf = bs /\ Builder!Oversized(W, h, n).good = gs
                    /\ Builder!Oversized(W, h, n).inflated
                          = [is EXCEPT ![h] = [k \in 1..n |-> 0]]
      <3> HIDE DEF W, bs, gs, is
      <3> QED
        BY <2>2, PackedRecord
    <2>4. /\ table.buf = Built(src).buf /\ table.good = Built(src).good /\ ~Inflates(h)
          /\ \A g \in DOMAIN Built(src).inflated \ {h} :
                g \in DOMAIN table.inflated /\ table.inflated[g] = Built(src).inflated[g]
      <3>1. CASE table = Builder!Undecodable(Built(src), h)
        <4>1. /\ table.buf = Built(src).buf /\ table.good = Built(src).good
              /\ table.inflated = [g \in DOMAIN Built(src).inflated \ {h} |-> Built(src).inflated[g]]
          BY <2>3, <3>1
        <4> QED
          BY <4>1 DEF Inflates
      <3>2. CASE /\ Len(table.inflated[h]) > MAX_DECOMPRESSED_BLOCK
                 /\ table = Builder!Oversized(Built(src), h, Len(table.inflated[h]))
        <4> DEFINE zeros == [k \in 1..Len(table.inflated[h]) |-> 0]
        <4>1. /\ table.buf = Built(src).buf /\ table.good = Built(src).good
              /\ table.inflated = [Built(src).inflated EXCEPT ![h] = zeros]
          BY <2>3, <3>2
        <4> HIDE DEF zeros
        <4>2. \A g \in DOMAIN Built(src).inflated \ {h} :
                 g \in DOMAIN table.inflated /\ table.inflated[g] = Built(src).inflated[g]
          BY <4>1
        <4>3. ~Inflates(h)
          <5>1. h \in DOMAIN table.inflated
            BY <4>1
          <5>2. Len(table.inflated[h]) \in Nat
            BY <5>1, FileType
          <5>3. MAX_DECOMPRESSED_BLOCK \in Nat
            BY FormatAssumption
          <5> QED
            BY <3>2, <5>2, <5>3 DEF Inflates
        <4> QED
          BY <4>1, <4>2, <4>3
      <3> QED
        BY <2>1, <3>1, <3>2
    <2>5. PICK b \in Blocks(src) : Situation(src, b, "LengthOutOfRange")
      BY <1>1, <2>4, PackedSituation
    <2>6. b # 0 /\ ErrorOf(table.damage) = "LengthOutOfRange" /\ table.damage # "none"
      BY <1>1, <1>5, BlocksFacts DEF ErrorOf
    <2> QED
      BY <1>1, <2>5, <2>6
  <1> QED
    BY <1>2, <1>3, <1>4, <1>5

\* A table cut short has lost its footer.
LEMMA TornFooter ==
    ASSUME table \in Tables, table.damage = "torn"
    PROVE  ~FooterReads /\ FooterError \in {"UnexpectedEof", "BadTableMagic"}
  <1> DEFINE m == Len(table.buf)
  <1>1. table.buf # <<>> => table.buf[m] # TABLE_MAGIC
    <2>1. IsBuilt(table)
      BY TablesAreBuilt
    <2> QED
      BY <2>1 DEF IsBuilt
  <1>2. table.buf \in Seq(Byte) /\ m \in Nat
    BY FileType
  <1>3. ASSUME m >= 5
        PROVE  Footer[5] # TABLE_MAGIC
    <2>1. /\ m - 5 + 1 \in 1..m + 1 /\ m \in Int
          /\ \A i \in m - 5 + 1..m : table.buf[i] \in Byte
      BY <1>2, <1>3
    <2>2. \A i \in 1..m - (m - 5 + 1) + 1 :
             SubSeq(table.buf, m - 5 + 1, m)[i] = table.buf[m - 5 + 1 + i - 1]
      BY <1>2, <2>1, SubSeqProperties
    <2>3. 5 \in 1..m - (m - 5 + 1) + 1 /\ m - 5 + 1 + 5 - 1 = m
      BY <1>2
    <2>4. SubSeq(table.buf, m - 5 + 1, m)[5] = table.buf[m]
      BY <2>2, <2>3
    <2>5. table.buf # <<>>
      BY <1>3
    <2> QED
      BY <1>1, <2>4, <2>5 DEF Footer, FOOTER_LEN
  <1>4. ~FooterReads
    BY <1>3 DEF FooterReads, FOOTER_LEN
  <1>5. FooterError \in {"UnexpectedEof", "BadTableMagic"}
    BY <1>2, <1>3 DEF FooterError, FOOTER_LEN
  <1> QED
    BY <1>4, <1>5

-----------------------------------------------------------------------------
(* How far the reader has come.                                            *)

\* The handles it has still to follow are those of the blocks after d.
Ahead(src, d) ==
    /\ Len(handles) = Len(src.groups) - d
    /\ \A k \in 1..Len(src.groups) - d : handles[k] = IndexCells(src, d + k)

\* The reader of the table of src, where block b is at fault, or none.
Progress(src, b, kind) ==
    LET n == Len(src.groups)
    IN  /\ phase = "footer" => records = <<>>
        /\ phase = "index" => /\ b # n + 2
                              /\ Decoding(Builder!Index(src), 1)
                              /\ records = <<>>
        /\ phase = "next" => /\ b # n + 2
                             /\ \E d \in 0..n : /\ Ahead(src, d)
                                                /\ records = JoinedTo(src.groups, d)
                                                /\ b \notin 1..d
        /\ phase = "data" => /\ b # n + 2
                             /\ \E d \in 1..n :
                                   /\ Ahead(src, d)
                                   /\ Decoding(Builder!KeyValues(src.groups[d]), src.interval)
                                   /\ records = JoinedTo(src.groups, d - 1)
                                   /\ b \notin 1..d
        /\ phase = "ok" => b = 0 /\ records = FlattenSeq(src.groups)
        /\ phase = "err" => b # 0 /\ error = kind

\* Every block fails or reads, and only block b fails.
LEMMA BlockOfSituation ==
    ASSUME NEW src, NEW b, NEW kind, IsSource(src), Situation(src, b, kind),
           NEW k \in Blocks(src)
    PROVE  /\ Leads(IndexCells(src, k)) => b # k /\ ReadsBlock(src, k)
           /\ ~Leads(IndexCells(src, k)) => b = k /\ b # 0 /\ LeadError(IndexCells(src, k)) = kind
  <1>1. k # 0
    BY BlocksFacts
  <1>2. CASE k = b
    BY <1>1, <1>2 DEF Situation, FailsAt
  <1>3. CASE k # b
    BY <1>3 DEF Situation, ReadsBlock
  <1> QED
    BY <1>2, <1>3

\* The block that comes next.
LEMMA NextBlock ==
    ASSUME NEW src, IsSource(src), NEW d \in 0..Len(src.groups), Ahead(src, d),
           handles \in Seq(Seq(Byte))
    PROVE  /\ handles = <<>> => d = Len(src.groups)
           /\ handles # <<>> => /\ d + 1 \in 1..Len(src.groups)
                                /\ Head(handles) = IndexCells(src, d + 1)
                                /\ Len(Tail(handles)) = Len(src.groups) - (d + 1)
                                /\ \A k \in 1..Len(src.groups) - (d + 1) :
                                      Tail(handles)[k] = IndexCells(src, (d + 1) + k)
  <1> DEFINE n == Len(src.groups)
  <1>1. n \in Nat /\ d \in Nat /\ Len(handles) = n - d
        /\ \A k \in 1..n - d : handles[k] = IndexCells(src, d + k)
    BY DataFacts DEF Ahead
  <1> HIDE DEF n
  <1>2. CASE handles = <<>>
    <2>1. n - d = 0
      BY <1>1, <1>2
    <2>2. d = n
      BY <1>1, <2>1
    <2> QED
      BY <1>2, <2>2 DEF n
  <1>3. CASE handles # <<>>
    <2>1. Len(handles) \in Nat /\ Len(handles) # 0
      BY <1>3
    <2>2. d + 1 \in 1..n /\ 1 \in 1..n - d
      BY <1>1, <2>1
    <2>3. Head(handles) = handles[1]
      BY <1>3
    <2>4. /\ Len(Tail(handles)) = Len(handles) - 1
          /\ \A k \in 1..Len(handles) - 1 : Tail(handles)[k] = handles[k + 1]
      BY <1>3, HeadTailProperties
    <2>5. Len(Tail(handles)) = n - (d + 1)
      BY <1>1, <2>4
    <2>6. ASSUME NEW k \in 1..n - (d + 1)
          PROVE  Tail(handles)[k] = IndexCells(src, (d + 1) + k)
      <3>1. k + 1 \in 1..n - d /\ k \in 1..Len(handles) - 1 /\ d + (k + 1) = (d + 1) + k
        BY <1>1
      <3> QED
        BY <1>1, <2>4, <3>1
    <2> QED
      BY <1>1, <1>3, <2>2, <2>3, <2>5, <2>6 DEF n
  <1> QED
    BY <1>2, <1>3

\* The records of the data blocks, one block at a time.
LEMMA WrittenFacts ==
    ASSUME NEW src, IsSource(src)
    PROVE  /\ src.groups \in Seq(Seq(TableRecord))
           /\ JoinedTo(src.groups, 0) = <<>>
           /\ JoinedTo(src.groups, Len(src.groups)) = FlattenSeq(src.groups)
           /\ \A d \in 1..Len(src.groups) :
                 JoinedTo(src.groups, d) = JoinedTo(src.groups, d - 1) \o src.groups[d]
  <1>1. src.groups \in Seq(Seq(TableRecord) \ {<<>>}) /\ Seq(TableRecord) \ {<<>>} \subseteq Seq(TableRecord)
    BY DEF IsSource
  <1>2. src.groups \in Seq(Seq(TableRecord))
    BY <1>1, SeqMonotonic
  <1> QED
    BY <1>2, JoinedFacts

\* A step of the reader keeps to it.
LEMMA ProgressStep ==
    ASSUME TypeInv, NEW src, NEW b, NEW kind, IsSource(src), Situation(src, b, kind),
           Progress(src, b, kind), [Next]_vars
    PROVE  Progress(src, b, kind)'
  <1> DEFINE n == Len(src.groups)
  <1>1. /\ n \in Nat /\ DOMAIN src.groups = 1..n /\ n + 2 \in Blocks(src)
        /\ b \in 1..n \cup {0, n + 2}
        /\ \A k \in 1..n : k \in Blocks(src)
    <2>1. n \in Nat /\ DOMAIN src.groups = 1..n /\ b \in Blocks(src) \cup {0}
      BY BlocksFacts DEF Situation
    <2> QED
      BY <2>1 DEF Blocks
  <1>2. FooterReads /\ IndexHandle = IndexCells(src, n + 2)
    BY DEF Situation
  <1>3. CASE ReadFooter
    <2>1. b # n + 2 /\ ReadsBlock(src, n + 2)
      BY <1>1, <1>2, <1>3, BlockOfSituation DEF ReadFooter
    <2>2. KvsOf(src, n + 2) = Builder!Index(src) /\ IntervalOf(src, n + 2) = 1
      <3>1. n + 2 \notin DOMAIN src.groups /\ n + 2 # n + 1
        BY <1>1
      <3> QED
        BY <3>1 DEF KvsOf, IntervalOf
    <2>3. Open(IndexHandle)
      BY <1>3 DEF ReadFooter
    <2>4. Entries(Body(BlockHandle(IndexHandle))) = Builder!BlockEntries(Builder!Index(src), 1)
      BY <1>2, <2>1, <2>2 DEF ReadsBlock
    <2>5. Builder!Index(src) \in Seq(Pair) /\ 1 \in Nat \ {0}
      BY IndexFacts
    <2>6. Decoding(Builder!Index(src), 1)'
      BY <2>3, <2>4, <2>5, DecodingStarts
    <2>7. phase' = "index" /\ records' = <<>>
      BY <1>3 DEF ReadFooter, Progress
    <2> QED
      BY <2>1, <2>6, <2>7 DEF Progress
  <1>4. CASE BadFooter
    <2>1. ~Leads(IndexHandle) /\ Fail(LeadError(IndexHandle))
      BY <1>2, <1>4 DEF BadFooter
    <2>2. b # 0 /\ LeadError(IndexHandle) = kind
      BY <1>1, <1>2, <2>1, BlockOfSituation
    <2> QED
      BY <2>1, <2>2 DEF Fail, Progress
  <1>5. CASE Entry
    <2>1. CASE phase = "index"
      <3>1. Decoding(Builder!Index(src), 1) /\ b # n + 2 /\ records = <<>>
        BY <2>1 DEF Progress
      <3>2. Builder!Index(src) \in Seq(Pair) /\ 1 \in Nat \ {0} /\ Fits(Builder!Index(src))
        BY IndexFacts
      <3>3. Decoding(Builder!Index(src), 1)'
        BY <1>5, <3>1, <3>2, EntryDecodes
      <3>4. phase' = "index" /\ records' = records
        BY <1>5, <2>1 DEF Entry
      <3> QED
        BY <3>1, <3>3, <3>4 DEF Progress
    <2>2. CASE phase = "data"
      <3>1. PICK d \in 1..n : /\ Ahead(src, d)
                              /\ Decoding(Builder!KeyValues(src.groups[d]), src.interval)
                              /\ records = JoinedTo(src.groups, d - 1)
                              /\ b \notin 1..d
        BY <2>2 DEF Progress
      <3>2. /\ Builder!KeyValues(src.groups[d]) \in Seq(Pair)
            /\ Fits(Builder!KeyValues(src.groups[d])) /\ src.interval \in Nat \ {0}
        BY <1>1, GroupFacts DEF IsSource
      <3>3. Decoding(Builder!KeyValues(src.groups[d]), src.interval)'
        BY <1>5, <3>1, <3>2, EntryDecodes
      <3>4. phase' = "data" /\ records' = records /\ handles' = handles
        BY <1>5, <2>2 DEF Entry
      <3>5. Ahead(src, d)'
        BY <3>1, <3>4 DEF Ahead
      <3>6. b # n + 2
        BY <2>2 DEF Progress
      <3> QED
        BY <3>1, <3>3, <3>4, <3>5, <3>6 DEF Progress
    <2> QED
      BY <1>5, <2>1, <2>2 DEF Entry
  <1>6. CASE BadEntry
    <2>1. CASE phase = "index"
      <3>1. Decoding(Builder!Index(src), 1)
        BY <2>1 DEF Progress
      <3>2. Builder!Index(src) \in Seq(Pair) /\ 1 \in Nat \ {0} /\ Fits(Builder!Index(src))
        BY IndexFacts
      <3>3. cur < Len(block) => EntryReads
        BY <3>1, <3>2, DecodingIsExact
      <3> QED
        BY <1>6, <3>3 DEF BadEntry
    <2>2. CASE phase = "data"
      <3>1. PICK d \in 1..n : Decoding(Builder!KeyValues(src.groups[d]), src.interval)
        BY <2>2 DEF Progress
      <3>2. /\ Builder!KeyValues(src.groups[d]) \in Seq(Pair)
            /\ Fits(Builder!KeyValues(src.groups[d])) /\ src.interval \in Nat \ {0}
        BY <1>1, GroupFacts DEF IsSource
      <3>3. cur < Len(block) => EntryReads
        BY <3>1, <3>2, DecodingIsExact
      <3> QED
        BY <1>6, <3>3 DEF BadEntry
    <2> QED
      BY <1>6, <2>1, <2>2 DEF BadEntry
  <1>7. CASE EndOfIndex
    <2>1. phase = "index" /\ cur = Len(block)
      BY <1>7 DEF EndOfIndex
    <2>2. Decoding(Builder!Index(src), 1) /\ b # n + 2 /\ records = <<>>
      BY <2>1 DEF Progress
    <2>3. /\ Builder!Index(src) \in Seq(Pair) /\ 1 \in Nat \ {0} /\ Fits(Builder!Index(src))
          /\ Len(Builder!Index(src)) = n
          /\ \A k \in 1..n : Builder!Index(src)[k].value
                                = Builder!Cells(Builder!HandleOf(Builder!DataFrames(src), k))
      BY IndexFacts
    <2>4. entries = Builder!Index(src)
      BY <2>1, <2>2, <2>3, DecodingIsExact
    <2> DEFINE ix == Builder!Index(src)
    <2>5. DOMAIN ix = 1..n /\ ix = entries
      BY <2>3, <2>4
    <2>6. \A k \in 1..n : ix[k].value = IndexCells(src, k)
      BY <2>3, FramesFacts DEF IndexCells
    <2> HIDE DEF ix
    <2>7. handles' = [k \in 1..n |-> ix[k].value]
      BY <1>7, <2>5 DEF EndOfIndex
    <2>8. Ahead(src, 0)'
      <3>1. Len(handles') = n /\ n - 0 = n
        BY <1>1, <2>7
      <3>2. \A k \in 1..n : handles'[k] = IndexCells(src, k) /\ 0 + k = k
        BY <2>6, <2>7
      <3> QED
        BY <3>1, <3>2 DEF Ahead
    <2>9. records' = JoinedTo(src.groups, 0) /\ phase' = "next"
      BY <1>7, <2>2, WrittenFacts DEF EndOfIndex
    <2>10. 0 \in 0..n /\ b \notin 1..0
      BY <1>1
    <2> QED
      BY <2>2, <2>8, <2>9, <2>10 DEF Progress
  <1>8. CASE EndOfData
    <2>1. phase = "data" /\ cur = Len(block)
      BY <1>8 DEF EndOfData
    <2>2. PICK d \in 1..n : /\ Ahead(src, d)
                            /\ Decoding(Builder!KeyValues(src.groups[d]), src.interval)
                            /\ records = JoinedTo(src.groups, d - 1)
                            /\ b \notin 1..d
      BY <2>1 DEF Progress
    <2>3. /\ Builder!KeyValues(src.groups[d]) \in Seq(Pair)
          /\ Fits(Builder!KeyValues(src.groups[d])) /\ src.interval \in Nat \ {0}
          /\ src.groups[d] \in Seq(TableRecord)
      BY <1>1, GroupFacts DEF IsSource
    <2>4. entries = Builder!KeyValues(src.groups[d])
      BY <2>1, <2>2, <2>3, DecodingIsExact
    <2>5. Records(entries) = src.groups[d]
      BY <2>3, <2>4, KeyValuesFacts
    <2>6. records' = JoinedTo(src.groups, d)
      BY <1>8, <2>2, <2>5, WrittenFacts DEF EndOfData
    <2>7. phase' = "next" /\ handles' = handles
      BY <1>8 DEF EndOfData
    <2>8. Ahead(src, d)' /\ b # n + 2 /\ d \in 0..n
      BY <2>1, <2>2, <2>7 DEF Ahead, Progress
    <2> QED
      BY <2>2, <2>6, <2>7, <2>8 DEF Progress
  <1>9. CASE NextData \/ BadData \/ AllBlocks
    <2>1. phase = "next"
      BY <1>9 DEF NextData, BadData, AllBlocks
    <2>2. PICK d \in 0..n : /\ Ahead(src, d)
                            /\ records = JoinedTo(src.groups, d)
                            /\ b \notin 1..d
      BY <2>1 DEF Progress
    <2>3. b # n + 2
      BY <2>1 DEF Progress
    <2>4. handles \in Seq(Seq(Byte))
      BY DEF TypeInv, TypeOK
    <2>5. CASE NextData
      <3>1. /\ d + 1 \in 1..n /\ Head(handles) = IndexCells(src, d + 1)
            /\ Len(Tail(handles)) = n - (d + 1)
            /\ \A k \in 1..n - (d + 1) : Tail(handles)[k] = IndexCells(src, (d + 1) + k)
        BY <2>2, <2>4, <2>5, NextBlock DEF NextData
      <3>2. b # d + 1 /\ ReadsBlock(src, d + 1)
        BY <1>1, <2>5, <3>1, BlockOfSituation DEF NextData
      <3>3. Ahead(src, d + 1)' /\ phase' = "data" /\ records' = JoinedTo(src.groups, d)
        BY <2>2, <2>5, <3>1 DEF NextData, Ahead
      <3>4. /\ KvsOf(src, d + 1) = Builder!KeyValues(src.groups[d + 1])
            /\ IntervalOf(src, d + 1) = src.interval
        <4>1. d + 1 \in DOMAIN src.groups /\ d + 1 # n + 2
          BY <1>1, <3>1
        <4> QED
          BY <4>1 DEF KvsOf, IntervalOf
      <3>5. /\ Builder!KeyValues(src.groups[d + 1]) \in Seq(Pair) /\ src.interval \in Nat \ {0}
        BY <1>1, <3>1, GroupFacts DEF IsSource
      <3>6. Decoding(Builder!KeyValues(src.groups[d + 1]), src.interval)'
        <4>1. /\ Open(Head(handles))
              /\ Entries(Body(BlockHandle(Head(handles))))
                    = Builder!BlockEntries(Builder!KeyValues(src.groups[d + 1]), src.interval)
          BY <2>5, <3>1, <3>2, <3>4 DEF NextData, ReadsBlock
        <4> QED
          BY <3>5, <4>1, DecodingStarts
      <3>7. (d + 1) - 1 = d /\ b \notin 1..d + 1
        BY <1>1, <2>2, <3>2
      <3> QED
        BY <2>3, <3>1, <3>3, <3>6, <3>7 DEF Progress
    <2>6. CASE BadData
      <3>1. d + 1 \in 1..n /\ Head(handles) = IndexCells(src, d + 1)
        BY <2>2, <2>4, <2>6, NextBlock DEF BadData
      <3>2. b # 0 /\ LeadError(Head(handles)) = kind
        BY <1>1, <2>6, <3>1, BlockOfSituation DEF BadData
      <3> QED
        BY <2>6, <3>2 DEF BadData, Fail, Progress
    <2>7. CASE AllBlocks
      <3>1. d = n
        BY <2>2, <2>4, <2>7, NextBlock DEF AllBlocks
      <3>2. b = 0
        BY <1>1, <2>2, <2>3, <3>1
      <3>3. records' = FlattenSeq(src.groups) /\ phase' = "ok"
        BY <2>2, <2>7, <3>1, WrittenFacts DEF AllBlocks
      <3> QED
        BY <3>2, <3>3 DEF Progress
    <2> QED
      BY <1>9, <2>5, <2>6, <2>7
  <1>10. CASE UNCHANGED vars
    BY <1>10 DEF vars, Progress, Decoding, DecodedTo, Ahead
  <1> QED
    BY <1>3, <1>4, <1>5, <1>6, <1>7, <1>8, <1>9, <1>10 DEF Next, Finished

\* The situation of a table does not change while it is read.
LEMMA SituationStays ==
    ASSUME NEW src, NEW b, NEW kind, table' = table, Situation(src, b, kind)
    PROVE  Situation(src, b, kind)'
  <1>1. Footer' = Footer
    BY DEF Footer
  <1>2. FooterReads' /\ IndexHandle' = IndexHandle
    BY <1>1 DEF Situation, FooterReads, IndexHandle
  <1>3. \A h : /\ BlockReads(h)' = BlockReads(h) /\ Body(h)' = Body(h)
               /\ BlockError(h)' = BlockError(h)
    BY DEF BlockReads, Body, BlockError, InFile, Compression, Inflates
  <1>4. \A cells : Leads(cells)' = Leads(cells) /\ LeadError(cells)' = LeadError(cells)
    BY <1>3 DEF Leads, LeadError
  <1>5. \A k : /\ ReadsBlock(src, k) => ReadsBlock(src, k)'
               /\ FailsAt(src, k, kind) => FailsAt(src, k, kind)'
    BY <1>3, <1>4 DEF ReadsBlock, FailsAt
  <1> QED
    BY <1>2, <1>5 DEF Situation

\* What is known of a table that is whole, or has one block at fault.
OneAtFault ==
    table.damage \in {"none", "flipped", "foreign", "packed"} =>
       \E b : /\ Situation(table.source, b, ErrorOf(table.damage))
              /\ b = 0 <=> table.damage = "none"
              /\ Progress(table.source, b, ErrorOf(table.damage))

\* Of one that is cut short.
NoFooter ==
    table.damage = "torn" => /\ phase \in {"footer", "err"}
                             /\ phase = "err" => error \in {"UnexpectedEof", "BadTableMagic"}

\* Of any.
ErrorIsTheEnd == /\ phase = "err" => error # "none" /\ records = <<>>
                 /\ phase # "err" => error = "none"

ReadInv == TypeInv /\ ErrorIsTheEnd /\ OneAtFault /\ NoFooter

LEMMA ReadInit ==
    ASSUME Init
    PROVE  ReadInv
  <1>1. TypeInv
    BY TypeInit
  <1>2. table \in Tables
    BY DEF Init
  <1>3. ErrorIsTheEnd /\ NoFooter
    BY DEF Init, ErrorIsTheEnd, NoFooter
  <1>4. \A src, b, kind : Progress(src, b, kind)
    BY DEF Init, Progress
  <1>5. OneAtFault
    BY <1>2, <1>4, Situated DEF OneAtFault
  <1> QED
    BY <1>1, <1>3, <1>5 DEF ReadInv

\* Fail ends the parse with an error and no record.
LEMMA FailEnds ==
    ASSUME NEW kind \in ErrorKinds, Fail(kind)
    PROVE  ErrorIsTheEnd'
  BY DEF Fail, ErrorIsTheEnd, ErrorKinds

LEMMA ErrorStep ==
    ASSUME ErrorIsTheEnd, [Next]_vars
    PROVE  ErrorIsTheEnd'
  <1>1. CASE BadFooter \/ BadEntry \/ BadData
    BY <1>1, ErrorsType, FailEnds DEF BadFooter, BadEntry, BadData
  <1>2. CASE ReadFooter \/ Entry \/ EndOfIndex \/ EndOfData \/ NextData \/ AllBlocks
    BY <1>2 DEF ReadFooter, Entry, EndOfIndex, EndOfData, NextData, AllBlocks, ErrorIsTheEnd
  <1>3. CASE UNCHANGED vars
    BY <1>3 DEF vars, ErrorIsTheEnd
  <1> QED
    BY <1>1, <1>2, <1>3 DEF Next, Finished

LEMMA TableStays ==
    ASSUME [Next]_vars
    PROVE  table' = table
  BY DEF Next, vars, ReadFooter, BadFooter, Entry, BadEntry, EndOfIndex, EndOfData, NextData,
         BadData, AllBlocks, Finished, Fail

LEMMA ReadStep ==
    ASSUME ReadInv, [Next]_vars
    PROVE  ReadInv'
  <1>1. TypeInv /\ ErrorIsTheEnd /\ OneAtFault /\ NoFooter /\ table' = table /\ table \in Tables
    BY TableStays DEF ReadInv, TypeInv
  <1>2. TypeInv' /\ ErrorIsTheEnd'
    BY <1>1, TypeStep, ErrorStep
  <1>3. OneAtFault'
    <2> SUFFICES ASSUME table.damage \in {"none", "flipped", "foreign", "packed"}
                 PROVE  OneAtFault'
      BY <1>1 DEF OneAtFault
    <2>1. PICK src, kind : src = table.source /\ kind = ErrorOf(table.damage)
      OBVIOUS
    <2>2. PICK b : Situation(src, b, kind) /\ (b = 0 <=> table.damage = "none")
                   /\ Progress(src, b, kind)
      BY <1>1, <2>1 DEF OneAtFault
    <2>3. IsSource(src)
      BY <1>1, <2>1, TablesAreBuilt
    <2>4. Progress(src, b, kind)'
      BY <1>1, <2>2, <2>3, ProgressStep
    <2>5. Situation(src, b, kind)'
      BY <1>1, <2>2, SituationStays
    <2>6. table'.source = src /\ ErrorOf(table'.damage) = kind /\ table'.damage = table.damage
      BY <1>1, <2>1
    <2> QED
      BY <2>2, <2>4, <2>5, <2>6 DEF OneAtFault
  <1>4. NoFooter'
    <2> SUFFICES ASSUME table.damage = "torn"
                 PROVE  NoFooter'
      BY <1>1 DEF NoFooter
    <2>1. ~FooterReads /\ FooterError \in {"UnexpectedEof", "BadTableMagic"}
      BY <1>1, TornFooter
    <2>2. CASE BadFooter
      BY <1>1, <2>1, <2>2 DEF BadFooter, Fail, NoFooter
    <2>3. CASE ReadFooter \/ Entry \/ BadEntry \/ EndOfIndex \/ EndOfData \/ NextData \/ BadData
               \/ AllBlocks
      BY <1>1, <2>1, <2>3 DEF NoFooter, ReadFooter, Entry, BadEntry, EndOfIndex, EndOfData,
                              NextData, BadData, AllBlocks
    <2>4. CASE UNCHANGED vars
      BY <1>1, <2>4 DEF vars, NoFooter
    <2> QED
      BY <2>2, <2>3, <2>4 DEF Next, Finished
  <1> QED
    BY <1>2, <1>3, <1>4 DEF ReadInv

LEMMA ReadsHold == Spec => []ReadInv
  BY ReadInit, ReadStep, PTL DEF Spec

\* The records of a whole table are a start of what was written.
LEMMA StartOfWritten ==
    ASSUME NEW src, IsSource(src), NEW d \in 0..Len(src.groups)
    PROVE  IsPrefix(JoinedTo(src.groups, d), FlattenSeq(src.groups))
  <1> DEFINE s == src.groups
  <1>1. s \in Seq(Seq(TableRecord)) /\ JoinedTo(s, Len(s)) = FlattenSeq(s)
    BY WrittenFacts
  <1>2. Len(s) \in d..Len(s) /\ d \in 0..Len(s) /\ Len(s) \in 0..Len(s)
    BY DataFacts
  <1> HIDE DEF s
  <1>3. JoinedTo(s, d) \in Seq(TableRecord) /\ JoinedTo(s, Len(s)) \in Seq(TableRecord)
    BY <1>1, <1>2, JoinedFacts
  <1>4. /\ Len(JoinedTo(s, d)) <= Len(JoinedTo(s, Len(s)))
        /\ \A i \in 1..Len(JoinedTo(s, d)) : JoinedTo(s, Len(s))[i] = JoinedTo(s, d)[i]
    BY <1>1, <1>2, JoinedGrows
  <1>5. IsPrefix(JoinedTo(s, d), JoinedTo(s, Len(s)))
    BY <1>3, <1>4, StartsWith
  <1> QED
    BY <1>1, <1>5 DEF s

\* Every damage has its situation.
LEMMA DamageKinds ==
    ASSUME table \in Tables
    PROVE  table.damage \in {"none", "flipped", "foreign", "packed", "torn", "forged"}
  <1>1. IsBuilt(table)
    BY TablesAreBuilt
  <1> QED
    BY <1>1 DEF IsBuilt

LEMMA SoundReads ==
    ASSUME ReadInv
    PROVE  SoundTablesRoundTrip
  <1> SUFFICES ASSUME table.damage = "none"
               PROVE  /\ phase # "err"
                      /\ IsPrefix(records, written)
                      /\ phase = "ok" => records = written
    BY DEF SoundTablesRoundTrip
  <1> DEFINE src == table.source
             kind == ErrorOf(table.damage)
  <1>1. Progress(src, 0, kind)
    BY DEF ReadInv, OneAtFault
  <1>2. IsSource(src) /\ phase \in {"footer", "index", "next", "data", "ok", "err"}
    BY TablesAreBuilt DEF ReadInv, TypeInv, TypeOK
  <1>3. Len(src.groups) \in Nat /\ written = FlattenSeq(src.groups)
    BY <1>2, DataFacts DEF written
  <1>4. phase # "err" /\ (phase = "ok" => records = written)
    BY <1>1, <1>3 DEF Progress
  <1>5. \E d \in 0..Len(src.groups) : records = JoinedTo(src.groups, d)
    <2>1. JoinedTo(src.groups, 0) = <<>>
          /\ JoinedTo(src.groups, Len(src.groups)) = FlattenSeq(src.groups)
      BY <1>2, WrittenFacts
    <2>2. 0 \in 0..Len(src.groups) /\ Len(src.groups) \in 0..Len(src.groups)
          /\ \A d \in 1..Len(src.groups) : d - 1 \in 0..Len(src.groups)
      BY <1>3
    <2>3. CASE phase \in {"footer", "index"}
      BY <1>1, <2>1, <2>2, <2>3 DEF Progress
    <2>4. CASE phase = "next"
      BY <1>1, <2>4 DEF Progress
    <2>5. CASE phase = "data"
      BY <1>1, <2>2, <2>5 DEF Progress
    <2>6. CASE phase = "ok"
      BY <1>1, <2>1, <2>2, <2>6 DEF Progress
    <2> QED
      BY <1>2, <1>4, <2>3, <2>4, <2>5, <2>6
  <1>6. IsPrefix(records, written)
    BY <1>2, <1>3, <1>5, StartOfWritten
  <1> QED
    BY <1>4, <1>6

LEMMA AllOrNothingReads ==
    ASSUME ReadInv
    PROVE  AllOrNothing
  <1>1. table.damage \in {"none", "flipped", "foreign", "packed", "torn", "forged"}
    BY DamageKinds DEF ReadInv, TypeInv
  <1>2. phase = "err" => records = <<>>
    BY DEF ReadInv, ErrorIsTheEnd
  <1>3. ASSUME phase = "ok"
        PROVE  table.damage \in {"none", "forged"}
    <2>1. table.damage # "torn"
      BY <1>3 DEF ReadInv, NoFooter
    <2>2. ASSUME table.damage \in {"none", "flipped", "foreign", "packed"}
          PROVE  table.damage = "none"
      <3>1. PICK b : /\ b = 0 <=> table.damage = "none"
                     /\ Progress(table.source, b, ErrorOf(table.damage))
        BY <2>2 DEF ReadInv, OneAtFault
      <3>2. b = 0
        BY <1>3, <3>1 DEF Progress
      <3> QED
        BY <3>1, <3>2
    <2> QED
      BY <1>1, <2>1, <2>2
  <1> QED
    BY <1>2, <1>3 DEF AllOrNothing

LEMMA ErrorReads ==
    ASSUME ReadInv
    PROVE  ErrorNamesTheDamage
  <1>1. table.damage \in {"none", "flipped", "foreign", "packed", "torn", "forged"}
    BY DamageKinds DEF ReadInv, TypeInv
  <1>2. (phase = "err") = (error # "none")
    BY DEF ReadInv, ErrorIsTheEnd
  <1>3. ASSUME phase = "err"
        PROVE  \/ table.damage = "flipped" /\ error = "BadBlockCrc"
               \/ table.damage = "torn"    /\ error \in {"UnexpectedEof", "BadTableMagic"}
               \/ table.damage = "packed"  /\ error = "LengthOutOfRange"
               \/ table.damage = "foreign" /\ error = "UnknownCompression"
               \/ table.damage = "forged"
    <2>1. CASE table.damage = "torn"
      BY <1>3, <2>1 DEF ReadInv, NoFooter
    <2>2. CASE table.damage \in {"none", "flipped", "foreign", "packed"}
      <3>1. PICK b : /\ b = 0 <=> table.damage = "none"
                     /\ Progress(table.source, b, ErrorOf(table.damage))
        BY <2>2 DEF ReadInv, OneAtFault
      <3>2. b # 0 /\ error = ErrorOf(table.damage)
        BY <1>3, <3>1 DEF Progress
      <3> QED
        BY <2>2, <3>1, <3>2 DEF ErrorOf
    <2> QED
      BY <1>1, <2>1, <2>2
  <1> QED
    BY <1>2, <1>3 DEF ErrorNamesTheDamage

\* Whatever LevelDB builds a table from - any records, any block sizes, any
\* distance between restart points, compressed or not - parse_table returns Ok
\* with each record once and in order.
THEOREM SoundTablesComeBack == Spec => []SoundTablesRoundTrip
  BY ReadsHold, SoundReads, PTL

\* A table with one block that cannot be read, whichever it is, or with its end
\* missing, yields no record at all.
THEOREM NoPartialTable == Spec => []AllOrNothing
  BY ReadsHold, AllOrNothingReads, PTL

\* And the error is that of the damage, wherever the damage is.
THEOREM ErrorIsTheDamage == Spec => []ErrorNamesTheDamage
  BY ReadsHold, ErrorReads, PTL

=============================================================================
