-------------------------- MODULE LogReaderProofs ---------------------------
(***************************************************************************)
(* Theorems about parse_log on every file whatever: for all files, block   *)
(* sizes and record types, not only the damaged logs of the runs.  First   *)
(* what every step of parse_write_batch preserves: the calls are made by   *)
(* the reader, so these are lemmas about BatchNext, not theorems of a      *)
(* specification.                                                          *)
(***************************************************************************)
EXTENDS LogReader, SequenceTheorems, TLAPS

-----------------------------------------------------------------------------
(* parse_write_batch.                                                      *)

\* A length-prefixed slice is a run of the batch that begins after its length
\* and ends inside the buffer.
LEMMA SliceProperties ==
    ASSUME BatchTypeOK, NEW c \in Nat, c <= Len(batch), Prefixed(c)
    PROVE  /\ Slice(c) \in Seq(Cell)
           /\ Len(Slice(c)) = batch[c + 1].val
           /\ \A k \in 1..Len(Slice(c)) : Slice(c)[k] = batch[c + 1 + k]
           /\ Beyond(c) = c + 1 + Len(Slice(c))
           /\ Beyond(c) \in c + 1..Len(batch)
<1> DEFINE n == batch[c + 1].val
<1>1. Len(batch) \in Nat /\ c + 1 \in 1..Len(batch)
  BY DEF BatchTypeOK, Prefixed, Remaining
<1>2. n \in Nat
  <2>1. batch[c + 1] \in Cell
    BY <1>1 DEF BatchTypeOK
  <2> QED
    BY <2>1 DEF Cell
<1>3. c + 1 + n <= Len(batch)
  BY <1>1, <1>2 DEF Prefixed, Remaining
<1>4. \A k \in c + 2..c + 1 + n : batch[k] \in Cell
  BY <1>1, <1>2, <1>3 DEF BatchTypeOK
<1>5. /\ SubSeq(batch, c + 2, c + 1 + n) \in Seq(Cell)
      /\ Len(SubSeq(batch, c + 2, c + 1 + n))
           = IF c + 2 <= c + 1 + n THEN (c + 1 + n) - (c + 2) + 1 ELSE 0
      /\ \A k \in 1..(c + 1 + n) - (c + 2) + 1 :
             SubSeq(batch, c + 2, c + 1 + n)[k] = batch[(c + 2) + k - 1]
  <2> HIDE DEF n
  <2> QED BY <1>2, <1>4, SubSeqProperties
<1> QED
  BY <1>1, <1>2, <1>3, <1>5 DEF Slice, Beyond

\* A pushed record is made of cells between the old and the new cursor, those
\* of its key before those of its value.
Taken(r, d) ==
    /\ \A k \in 1..Len(r.key) : \E m \in cur + 1..d : r.key[k] = batch[m]
    /\ \A k \in 1..Len(r.value) : \E m \in cur + 1..d : r.value[k] = batch[m]
    /\ \A j \in 1..Len(r.key), k \in 1..Len(r.value) :
          \E m, n \in cur + 1..d :
             m < n /\ r.key[j] = batch[m] /\ r.value[k] = batch[n]

Pushed(r, d) ==
    /\ r \in Record
    /\ r.seq = Saturating(base_seq + op_index)
    /\ d \in cur + 2..Len(batch)
    /\ records' = Append(records, r)
    /\ cur' = d
    /\ op_index' = op_index + 1
    /\ UNCHANGED <<call, batch>>
    /\ Taken(r, d)

\* The sequence number of a record is in range, saturated if need be.
LEMMA PushedSeq ==
    ASSUME BatchTypeOK, cur < Len(batch)
    PROVE  Len(batch) > 0 => Saturating(base_seq + op_index) \in 0..MAX_SEQ
<1> SUFFICES ASSUME Len(batch) > 0
             PROVE  Saturating(base_seq + op_index) \in 0..MAX_SEQ
  OBVIOUS
<1>1. batch[1] \in Cell
  BY DEF BatchTypeOK
<1> QED
  BY <1>1, BatchAssumption DEF BatchTypeOK, Saturating, base_seq, Cell

\* A put pushes one record made of the cells between the cursors.
LEMMA PutPushes ==
    ASSUME BatchTypeOK, PutOp
    PROVE  \E r, d : Pushed(r, d)
<1> DEFINE c == Beyond(cur + 1)
           r == [key     |-> Slice(cur + 1),
                 value   |-> Slice(c),
                 seq     |-> Saturating(base_seq + op_index),
                 deleted |-> FALSE]
<1>1. /\ Prefixed(cur + 1) /\ Prefixed(c)
      /\ cur \in Nat /\ Len(batch) \in Nat /\ cur + 1 <= Len(batch)
  BY DEF PutOp, ReadableValue, NextOp, Remaining, BatchTypeOK
<1>2. /\ Slice(cur + 1) \in Seq(Cell)
      /\ \A k \in 1..Len(Slice(cur + 1)) : Slice(cur + 1)[k] = batch[cur + 2 + k]
      /\ c = cur + 2 + Len(Slice(cur + 1))
      /\ c \in cur + 2..Len(batch)
  BY <1>1, SliceProperties, cur + 1 \in Nat, (cur + 1) + 1 = cur + 2
<1>3. /\ Slice(c) \in Seq(Cell)
      /\ \A k \in 1..Len(Slice(c)) : Slice(c)[k] = batch[c + 1 + k]
      /\ Beyond(c) = c + 1 + Len(Slice(c))
      /\ Beyond(c) \in c + 1..Len(batch)
  BY <1>1, <1>2, SliceProperties
<1>4. r \in Record
  BY <1>1, <1>2, <1>3, PushedSeq DEF Record
<1>5. Taken(r, Beyond(c))
  <2> HIDE DEF c
  <2>0. Len(Slice(cur + 1)) \in Nat /\ Len(Slice(c)) \in Nat
    BY <1>2, <1>3
  <2>1. \A k \in 1..Len(r.key) :
            cur + 2 + k \in cur + 1..c /\ r.key[k] = batch[cur + 2 + k]
    BY <1>1, <1>2, <2>0
  <2>2. \A k \in 1..Len(r.value) :
            c + 1 + k \in c + 1..Beyond(c) /\ r.value[k] = batch[c + 1 + k]
    BY <1>1, <1>2, <1>3, <2>0
  <2>3. /\ cur + 1..c \subseteq cur + 1..Beyond(c)
        /\ c + 1..Beyond(c) \subseteq cur + 1..Beyond(c)
        /\ \A m \in cur + 1..c, n \in c + 1..Beyond(c) : m < n
    BY <1>1, <1>2, <1>3, SMTT(30)
  <2> HIDE DEF r
  <2> QED
    BY <2>1, <2>2, <2>3 DEF Taken
<1>6. Pushed(r, Beyond(c))
  BY <1>1, <1>2, <1>3, <1>4, <1>5 DEF PutOp, Push, Pushed
<1> QED
  BY <1>6

\* A deletion pushes one record made of the cells between the cursors.
LEMMA DeletePushes ==
    ASSUME BatchTypeOK, DeleteOp
    PROVE  \E r, d : Pushed(r, d)
<1> DEFINE r == [key     |-> Slice(cur + 1),
                 value   |-> <<>>,
                 seq     |-> Saturating(base_seq + op_index),
                 deleted |-> TRUE]
<1>1. /\ Prefixed(cur + 1)
      /\ cur \in Nat /\ Len(batch) \in Nat /\ cur + 1 <= Len(batch)
  BY DEF DeleteOp, NextOp, Remaining, BatchTypeOK
<1>2. /\ Slice(cur + 1) \in Seq(Cell)
      /\ \A k \in 1..Len(Slice(cur + 1)) : Slice(cur + 1)[k] = batch[cur + 2 + k]
      /\ Beyond(cur + 1) = cur + 2 + Len(Slice(cur + 1))
      /\ Beyond(cur + 1) \in cur + 2..Len(batch)
  BY <1>1, SliceProperties, cur + 1 \in Nat, (cur + 1) + 1 = cur + 2
<1>3. r \in Record
  BY <1>1, <1>2, PushedSeq DEF Record
<1>4. Taken(r, Beyond(cur + 1))
  <2>0. Len(Slice(cur + 1)) \in Nat /\ Len(r.value) = 0
    BY <1>2
  <2>1. \A k \in 1..Len(r.key) : /\ cur + 2 + k \in cur + 1..Beyond(cur + 1)
                                 /\ r.key[k] = batch[cur + 2 + k]
    BY <1>1, <1>2, <2>0
  <2>2. 1..Len(r.value) = {}
    BY <2>0
  <2> HIDE DEF r
  <2> QED
    BY <2>1, <2>2 DEF Taken
<1>5. Pushed(r, Beyond(cur + 1))
  BY <1>1, <1>2, <1>3, <1>4 DEF DeleteOp, Push, Pushed
<1> QED
  BY <1>5

-----------------------------------------------------------------------------
\* What a push does to the output, and where the offsets it adds come from.
LEMMA PushedRecords ==
    ASSUME BatchTypeOK, NEW r, NEW d, Pushed(r, d)
    PROVE  /\ records' \in Seq(Record)
           /\ DOMAIN records' = 1..Len(records) + 1
           /\ \A n \in 1..Len(records) : records'[n] = records[n]
           /\ records'[Len(records) + 1] = r
BY AppendProperties DEF BatchTypeOK, Pushed

\* What a pushed record was copied from lies between the cursors.
LEMMA PushedOffsets ==
    ASSUME BatchTypeOK, NEW r, NEW d, Pushed(r, d)
    PROVE  \A x \in Offsets(r) : \E m \in cur + 1..d : x = batch[m].at
<1>1. /\ DOMAIN r.key = 1..Len(r.key)
      /\ DOMAIN r.value = 1..Len(r.value)
  BY LenProperties DEF Pushed, Record
<1>2. Taken(r, d)
  BY DEF Pushed
<1>3. \A x \in At(r.key) : \E k \in 1..Len(r.key) : x = r.key[k].at
  BY <1>1 DEF At
<1>4. \A y \in At(r.value) : \E k \in 1..Len(r.value) : y = r.value[k].at
  BY <1>1 DEF At
<1>5. ASSUME NEW x \in Offsets(r)
      PROVE  \E m \in cur + 1..d : x = batch[m].at
  <2>1. CASE x \in At(r.key)
    BY <2>1, <1>2, <1>3 DEF Taken
  <2>2. CASE x \in At(r.value)
    BY <2>2, <1>2, <1>4 DEF Taken
  <2> QED
    BY <2>1, <2>2 DEF Offsets
<1> QED
  BY <1>5

\* The key of a pushed record lies before its value in the buffer.
LEMMA PushedInOrder ==
    ASSUME BatchTypeOK, NEW r, NEW d, Pushed(r, d),
           NEW x \in At(r.key), NEW y \in At(r.value)
    PROVE  \E m, n \in cur + 1..d : m < n /\ x = batch[m].at /\ y = batch[n].at
<1>1. /\ DOMAIN r.key = 1..Len(r.key)
      /\ DOMAIN r.value = 1..Len(r.value)
  BY LenProperties DEF Pushed, Record
<1>2. PICK j \in 1..Len(r.key) : x = r.key[j].at
  BY <1>1 DEF At
<1>3. PICK k \in 1..Len(r.value) : y = r.value[k].at
  BY <1>1 DEF At
<1>4. PICK m \in cur + 1..d, n \in cur + 1..d :
          m < n /\ r.key[j] = batch[m] /\ r.value[k] = batch[n]
  BY DEF Pushed, Taken
<1> QED
  BY <1>2, <1>3, <1>4

\* Every step of the decoder pushes a record, returns, or reads the header.
LEMMA BatchStep ==
    ASSUME BatchTypeOK, BatchNext
    PROVE  \/ call = "ops" /\ \E r, d : Pushed(r, d)
           \/ Return
           \/ ReadHeader
<1>1. ASSUME PutOp PROVE call = "ops" /\ \E r, d : Pushed(r, d)
  BY <1>1, PutPushes DEF PutOp, NextOp
<1>2. ASSUME DeleteOp PROVE call = "ops" /\ \E r, d : Pushed(r, d)
  BY <1>2, DeletePushes DEF DeleteOp, NextOp
<1> QED
  BY <1>1, <1>2 DEF BatchNext, TooShort, AllOps, Inconsistent

\* Every step of parse_write_batch keeps its types.
LEMMA BatchTypeStep ==
    ASSUME BatchTypeOK, BatchNext
    PROVE  BatchTypeOK'
<1>1. ASSUME NEW r, NEW d, Pushed(r, d) PROVE BatchTypeOK'
  BY <1>1, PushedRecords DEF Pushed, BatchTypeOK
<1>2. ASSUME Return PROVE BatchTypeOK'
  <2>1. <<>> \in Seq(Cell) /\ Len(<<>>) = 0
    BY EmptySeq
  <2> QED
    BY <1>2, <2>1 DEF Return, BatchTypeOK
<1>3. ASSUME ReadHeader PROVE BatchTypeOK'
  BY <1>3 DEF ReadHeader, BatchTypeOK, BATCH_HEADER_LEN
<1> QED
  BY <1>1, <1>2, <1>3, BatchStep

\* Cells do not come from nowhere: if the buffer and the output hold offsets of
\* S only, so does the output after a step.
LEMMA BatchConfined ==
    ASSUME BatchTypeOK, BatchNext, NEW S,
           At(batch) \subseteq S,
           \A n \in DOMAIN records : Offsets(records[n]) \subseteq S
    PROVE  /\ At(batch)' \subseteq S
           /\ \A n \in DOMAIN records' : Offsets(records'[n]) \subseteq S
<1>1. ASSUME NEW r, NEW d, Pushed(r, d)
      PROVE  /\ At(batch)' \subseteq S
             /\ \A n \in DOMAIN records' : Offsets(records'[n]) \subseteq S
  <2>1. Offsets(r) \subseteq At(batch)
    <3>1. cur + 1..d \subseteq DOMAIN batch
      BY <1>1, LenProperties DEF Pushed, BatchTypeOK
    <3> QED
      BY <1>1, <3>1, PushedOffsets DEF At
  <2>2. DOMAIN records = 1..Len(records)
    BY LenProperties DEF BatchTypeOK
  <2>3. ASSUME NEW n \in DOMAIN records'
        PROVE  Offsets(records'[n]) \subseteq S
    <3>0. Len(records) \in Nat
      BY LenProperties DEF BatchTypeOK
    <3>1. CASE n \in 1..Len(records)
      BY <1>1, <3>1, <2>2, PushedRecords
    <3>2. CASE n = Len(records) + 1
      BY <1>1, <3>2, <2>1, PushedRecords
    <3> QED
      BY <1>1, <3>0, <3>1, <3>2, PushedRecords
  <2> QED
    BY <1>1, <2>3 DEF Pushed, At
<1>2. ASSUME Return
      PROVE  /\ At(batch)' \subseteq S
             /\ \A n \in DOMAIN records' : Offsets(records'[n]) \subseteq S
  BY <1>2, EmptySeq DEF Return, At
<1>3. ASSUME ReadHeader
      PROVE  /\ At(batch)' \subseteq S
             /\ \A n \in DOMAIN records' : Offsets(records'[n]) \subseteq S
  BY <1>3 DEF ReadHeader, At
<1> QED
  BY <1>1, <1>2, <1>3, BatchStep

\* The count is paid for: an iteration consumes two cells at least.
LEMMA CountStep ==
    ASSUME BatchTypeOK, BatchNext,
           CountIsNotTrusted, call = "header" => op_index = 0
    PROVE  /\ CountIsNotTrusted'
           /\ (call = "header" => op_index = 0)'
<1>1. ASSUME call = "ops", NEW r, NEW d, Pushed(r, d)
      PROVE  CountIsNotTrusted' /\ (call = "header" => op_index = 0)'
  BY <1>1 DEF Pushed, CountIsNotTrusted, BatchTypeOK, BATCH_HEADER_LEN
<1>2. ASSUME Return
      PROVE  CountIsNotTrusted' /\ (call = "header" => op_index = 0)'
  BY <1>2 DEF Return, CountIsNotTrusted
<1>3. ASSUME ReadHeader
      PROVE  CountIsNotTrusted' /\ (call = "header" => op_index = 0)'
  BY <1>3 DEF ReadHeader, CountIsNotTrusted, BatchTypeOK, BATCH_HEADER_LEN
<1> QED
  BY <1>1, <1>2, <1>3, BatchStep

-----------------------------------------------------------------------------
(* Sequence numbers.                                                       *)

\* Where the records of the call begin in the output, and what they are
\* numbered: base_seq and on, saturated.
Numbered ==
    /\ op_index <= Len(records)
    /\ \A i \in 1..op_index :
           records[Len(records) - op_index + i].seq = Saturating(base_seq + i - 1)

SeqInv == /\ call \in {"idle", "header"} => op_index = 0
          /\ call = "ops" => Len(batch) >= BATCH_HEADER_LEN /\ Numbered

\* A pushed record carries the next number of the call.
LEMMA PushedNumber ==
    ASSUME BatchTypeOK, Numbered, NEW r, NEW d, Pushed(r, d)
    PROVE  Numbered'
<1>1. /\ op_index \in Nat /\ Len(records) \in Nat
      /\ op_index' = op_index + 1 /\ base_seq' = base_seq
      /\ Len(records') = Len(records) + 1
      /\ \A n \in 1..Len(records) : records'[n] = records[n]
      /\ records'[Len(records) + 1] = r
      /\ r.seq = Saturating(base_seq + op_index)
  BY PushedRecords, LenProperties, AppendProperties DEF BatchTypeOK, Pushed, base_seq
<1>2. Len(records') - op_index' = Len(records) - op_index
  BY <1>1
<1>3. op_index' <= Len(records')
  BY <1>1 DEF Numbered
<1>4. ASSUME NEW i \in 1..op_index'
      PROVE  records'[Len(records') - op_index' + i].seq = Saturating(base_seq' + i - 1)
  <2>1. CASE i \in 1..op_index
    <3>1. Len(records) - op_index + i \in 1..Len(records)
      BY <1>1, <2>1 DEF Numbered
    <3> QED
      BY <1>1, <1>2, <2>1, <3>1 DEF Numbered
  <2>2. CASE i = op_index + 1
    <3>1. Len(records) - op_index + i = Len(records) + 1 /\ base_seq + i - 1 = base_seq + op_index
      BY <1>1, <2>2
    <3> QED
      BY <1>1, <1>2, <3>1
  <2> QED
    BY <1>1, <2>1, <2>2
<1> QED
  BY <1>3, <1>4 DEF Numbered, Saturating

\* The first cell of a batch that is long enough is a natural number.
LEMMA BaseSeqNat ==
    ASSUME BatchTypeOK, Len(batch) >= BATCH_HEADER_LEN
    PROVE  base_seq \in Nat
<1>1. batch[1] \in Cell
  BY LenProperties DEF BatchTypeOK, BATCH_HEADER_LEN
<1> QED
  BY <1>1 DEF Cell, base_seq

\* Every step of the decoder numbers on.
LEMMA SeqStep ==
    ASSUME BatchTypeOK, BatchNext, SeqInv
    PROVE  SeqInv'
<1>1. ASSUME call = "ops", NEW r, NEW d, Pushed(r, d) PROVE SeqInv'
  BY <1>1, PushedNumber DEF Pushed, SeqInv
<1>2. ASSUME Return PROVE SeqInv'
  BY <1>2 DEF Return, SeqInv
<1>3. ASSUME ReadHeader PROVE SeqInv'
  <2>1. call = "header" /\ call' = "ops" /\ op_index' = 0 /\ records' = records /\ batch' = batch
        /\ Len(batch) >= BATCH_HEADER_LEN /\ Len(records) \in Nat
    BY <1>3, LenProperties DEF ReadHeader, SeqInv, BatchTypeOK
  <2> QED
    BY <2>1 DEF SeqInv, Numbered
<1> QED
  BY <1>1, <1>2, <1>3, BatchStep

\* Numbers counted from base_seq, saturated, never fall and meet at the top only.
LEMMA NumberedNeverWraps ==
    ASSUME BatchTypeOK, SeqInv
    PROVE  SeqNeverWraps
<1> SUFFICES ASSUME call = "ops",
                    NEW m \in Len(records) - op_index + 1..Len(records),
                    NEW n \in Len(records) - op_index + 1..Len(records), m < n
             PROVE  records[m].seq < records[n].seq \/ records[n].seq = MAX_SEQ
  BY DEF SeqNeverWraps
<1> DEFINE first == Len(records) - op_index
           i == m - first
           j == n - first
<1>1. /\ base_seq \in Nat /\ op_index \in Nat /\ Len(records) \in Nat /\ first \in Nat
      /\ i \in 1..op_index /\ j \in 1..op_index /\ i < j
      /\ m = first + i /\ n = first + j
  BY BaseSeqNat, LenProperties DEF SeqInv, Numbered, BatchTypeOK
<1>2. /\ records[m].seq = Saturating(base_seq + i - 1)
      /\ records[n].seq = Saturating(base_seq + j - 1)
  BY <1>1 DEF SeqInv, Numbered
<1> QED
  BY <1>1, <1>2, BatchAssumption DEF Saturating

-----------------------------------------------------------------------------
(* The cursor of the scan.                                                 *)

\* The cursor of the scan stays inside its block.
CursorInBlock == pos <= block_len

ScanInv == TypeOK /\ CursorInBlock

-----------------------------------------------------------------------------
(* Facts about the file under the cursor.                                  *)

\* The block and the header at the cursor lie inside the file.
LEMMA HeaderProperties ==
    ASSUME ScanInv
    PROVE  /\ Len(file.val) \in Nat
           /\ block_end \in block_start..Len(file.val)
           /\ block_len \in 0..BLOCK_SIZE
           /\ here \in 0..block_end
           /\ HeaderFits => /\ here + HEADER_SIZE <= block_end
                            /\ length \in Nat
                            /\ record_type \in Nat
                            /\ this \in Piece
<1>1. Len(file.val) \in Nat
  BY LenProperties DEF ScanInv, TypeOK
<1>2. block_end \in block_start..Len(file.val) /\ block_len \in 0..BLOCK_SIZE
  BY <1>1, BlockAssumption DEF ScanInv, TypeOK, block_end, block_len
<1>3. here \in 0..block_end
  BY <1>1, <1>2 DEF ScanInv, TypeOK, CursorInBlock, block_len, here
<1>4. ASSUME HeaderFits
      PROVE  /\ here + HEADER_SIZE <= block_end
             /\ length \in Nat
             /\ record_type \in Nat
             /\ this \in Piece
  <2>1. here + HEADER_SIZE <= block_end
    BY <1>1, <1>2, <1>4 DEF HeaderFits, ScanInv, TypeOK, block_len, here, HEADER_SIZE
  <2>2. here + 2 \in 1..Len(file.val) /\ here + 3 \in 1..Len(file.val)
    BY <1>1, <1>2, <1>3, <2>1 DEF HEADER_SIZE
  <2>3. length \in Nat /\ record_type \in Nat
    BY <2>2, ElementOfSeq DEF ScanInv, TypeOK, length, record_type
  <2> QED
    BY <1>1, <1>2, <1>3, <2>1, <2>3 DEF this, Piece, crc_ok
<1> QED
  BY <1>1, <1>2, <1>3, <1>4

\* The data of a physical record that fits its block.
LEMMA DataProperties ==
    ASSUME ScanInv, Physical
    PROVE  /\ data \in Seq(Cell)
           /\ Len(data) = length
           /\ length \in Nat
           /\ \A k \in 1..length : data[k].at = here + HEADER_SIZE + k - 1
           /\ pos' = pos + HEADER_SIZE + length
           /\ here' = here + HEADER_SIZE + length
           /\ block_start + pos' <= block_end
<1>1. HeaderFits /\ data_end <= block_len /\ pos' = data_end /\ block_start' = block_start
  BY DEF Physical
<1>2. /\ Len(file.val) \in Nat
      /\ block_end \in block_start..Len(file.val)
      /\ here \in 0..block_end
      /\ here + HEADER_SIZE <= block_end
      /\ length \in Nat
      /\ block_start \in Nat /\ pos \in Nat
  BY <1>1, HeaderProperties DEF ScanInv, TypeOK
<1>3. here + HEADER_SIZE + length <= block_end
  BY <1>1, <1>2 DEF data_end, block_len, here, HEADER_SIZE
<1>4. \A k \in 1..length : file.val[here + HEADER_SIZE + k] \in Nat
  <2>1. \A k \in 1..length : here + HEADER_SIZE + k \in 1..Len(file.val)
    BY <1>2, <1>3 DEF HEADER_SIZE
  <2> QED
    BY <2>1, ElementOfSeq DEF ScanInv, TypeOK
<1>5. data \in [1..length -> Cell]
  <2>1. \A k \in 1..length : here + HEADER_SIZE + k - 1 \in Nat
    BY <1>2 DEF HEADER_SIZE
  <2> QED
    BY <1>4, <2>1 DEF data, Bytes, Cell
<1>6. data \in Seq(Cell)
  BY <1>2, <1>5, SeqDef
<1>7. Len(data) = length
  BY <1>2, <1>5, <1>6, LenProperties
<1>8. \A k \in 1..length : data[k].at = here + HEADER_SIZE + k - 1
  BY DEF data, Bytes
<1>9. /\ pos' = pos + HEADER_SIZE + length
      /\ here' = here + HEADER_SIZE + length
      /\ block_start + pos' <= block_end
  BY <1>1, <1>2, <1>3 DEF data_end, here, HEADER_SIZE
<1> QED
  BY <1>2, <1>6, <1>7, <1>8, <1>9

-----------------------------------------------------------------------------
(* Type correctness.                                                       *)

\* The scan starts well-typed, before any byte.
LEMMA InitScan == Init => ScanInv
<1> SUFFICES ASSUME Init PROVE ScanInv
  OBVIOUS
<1>1. file.val \in Seq(Nat) /\ file.good \in SUBSET Nat
  BY LogsAssumption DEF Init
<1>2. Len(file.val) \in Nat
  BY <1>1, LenProperties
<1>3. TypeOK
  <2>1. /\ <<>> \in Seq(Cell) /\ <<>> \in Seq(Record)
        /\ <<>> \in Seq(Piece) /\ <<>> \in Seq(Seq(Piece))
        /\ Len(<<>>) = 0
    BY EmptySeq
  <2>2. BatchTypeOK
    BY <2>1 DEF Init, BatchTypeOK
  <2>3. block_start \in 0..Len(file.val) /\ pos \in 0..BLOCK_SIZE
    BY <1>2, BlockAssumption DEF Init
  <2> QED
    BY <1>1, <2>1, <2>2, <2>3 DEF Init, TypeOK
<1>4. CursorInBlock
  BY <1>2, BlockAssumption DEF Init, CursorInBlock, block_len, block_end
<1> QED
  BY <1>3, <1>4 DEF ScanInv

\* Going to the next block keeps the types and the cursor.
LEMMA NextBlockScan ==
    ASSUME ScanInv, NextBlock
    PROVE  ScanInv'
<1>1. /\ Len(file.val) \in Nat /\ block_end \in 0..Len(file.val)
      /\ file' = file /\ block_start' = block_end /\ pos' = 0
  BY HeaderProperties DEF NextBlock, ScanInv, TypeOK
<1>2. TypeOK'
  BY <1>1, BlockAssumption DEF NextBlock, ScanInv, TypeOK, BatchTypeOK, batchVars
<1>3. CursorInBlock'
  BY <1>1, BlockAssumption DEF CursorInBlock, block_len, block_end
<1> QED
  BY <1>2, <1>3 DEF ScanInv

\* What the five kinds of physical record do to the reassembly.
PhysicalRecord == FullRecord \/ FirstFragment \/ MiddleFragment \/ LastFragment \/ UnknownType

\* A physical record that fits leaves the cursor in its block.
LEMMA PhysicalCursor ==
    ASSUME ScanInv, Physical
    PROVE  pos' \in 0..BLOCK_SIZE /\ CursorInBlock'
<1>1. /\ pos' = data_end /\ data_end <= block_len /\ block_len \in 0..BLOCK_SIZE
      /\ pos' \in Nat
  <2>1. pos \in Nat /\ length \in Nat /\ pos' = pos + HEADER_SIZE + length
    BY DataProperties DEF ScanInv, TypeOK
  <2> QED
    BY <2>1, HeaderProperties DEF Physical, HEADER_SIZE
<1>2. block_len' = block_len
  BY DEF Physical, block_len, block_end
<1> QED
  BY <1>1, <1>2, BlockAssumption DEF CursorInBlock

\* A call of parse_write_batch on a buffer of cells starts well-typed.
LEMMA CallTyped ==
    ASSUME BatchTypeOK, NEW buffer \in Seq(Cell), Call(buffer)
    PROVE  BatchTypeOK'
BY LenProperties DEF Call, BatchTypeOK

\* Consuming a physical record keeps the types and the cursor.
LEMMA PhysicalScan ==
    ASSUME ScanInv, PhysicalRecord
    PROVE  ScanInv'
<1>1. Physical
  BY DEF PhysicalRecord, FullRecord, FirstFragment, MiddleFragment, LastFragment, UnknownType
<1>2. /\ data \in Seq(Cell) /\ fragment \in Seq(Cell)
      /\ this \in Piece /\ pieces \in Seq(Piece) /\ calls \in Seq(Seq(Piece))
      /\ BatchTypeOK
  BY <1>1, DataProperties, HeaderProperties DEF Physical, ScanInv, TypeOK
<1>3. fragment \o data \in Seq(Cell) /\ Append(pieces, this) \in Seq(Piece)
  BY <1>2, ConcatProperties, AppendProperties
<1>4. <<this>> \in Seq(Piece) /\ <<>> \in Seq(Piece) /\ <<>> \in Seq(Cell)
  BY <1>2
<1>5. BatchTypeOK' /\ calls' \in Seq(Seq(Piece))
  <2>1. ASSUME NoParse PROVE BatchTypeOK' /\ calls' \in Seq(Seq(Piece))
    BY <1>2, <2>1 DEF NoParse, batchVars, BatchTypeOK
  <2>2. ASSUME NEW buffer \in Seq(Cell), NEW c \in Seq(Piece), Parse(buffer, c)
        PROVE  BatchTypeOK' /\ calls' \in Seq(Seq(Piece))
    BY <1>2, <2>2, CallTyped, AppendProperties DEF Parse
  <2> QED
    BY <1>2, <1>3, <1>4, <2>1, <2>2
    DEF PhysicalRecord, FullRecord, FirstFragment, MiddleFragment, LastFragment, UnknownType
<1>6. fragment' \in Seq(Cell) /\ in_record' \in BOOLEAN /\ pieces' \in Seq(Piece)
  <2>1. in_record \in BOOLEAN
    BY DEF ScanInv, TypeOK
  <2> QED
    BY <1>2, <1>3, <1>4, <2>1
    DEF PhysicalRecord, FullRecord, FirstFragment, MiddleFragment, LastFragment, UnknownType, Reset
<1> QED
  BY <1>1, <1>5, <1>6, PhysicalCursor DEF Physical, ScanInv, TypeOK

\* A step inside parse_write_batch keeps the types and the cursor.
LEMMA BatchScan ==
    ASSUME ScanInv, Batch
    PROVE  ScanInv'
BY BatchTypeStep DEF Batch, scanVars, ScanInv, TypeOK, CursorInBlock, block_len, block_end

\* The next-state relation by what it does to the scan.
LEMMA NextKinds ==
    ASSUME [Next]_vars
    PROVE  (NextBlock /\ call = "idle") \/ PhysicalRecord \/ Batch \/ UNCHANGED vars
BY DEF Next, EndOfBlock, Padding, LyingLength, PhysicalRecord, Scanning, Finished

\* Every step keeps the types and the cursor.
LEMMA ScanStep ==
    ASSUME ScanInv, [Next]_vars
    PROVE  ScanInv'
<1>1. ASSUME UNCHANGED vars PROVE ScanInv'
  BY <1>1 DEF vars, scanVars, batchVars, ScanInv, TypeOK, BatchTypeOK, CursorInBlock,
              block_len, block_end
<1> QED
  BY <1>1, NextKinds, NextBlockScan, PhysicalScan, BatchScan

\* The scan never leaves its block nor the cursor of a batch its buffer, on any
\* file (log.rs:110-133: no index of the code is out of bounds).
THEOREM TypeCorrect == Spec => [](TypeOK /\ CursorInBlock)
<1>1. ScanInv /\ [Next]_vars => ScanInv'
  BY ScanStep
<1> QED
  BY InitScan, <1>1, PTL DEF Spec, ScanInv

-----------------------------------------------------------------------------
(* Nothing unverified is surfaced.                                         *)

VerifiedOffsets == {at \in Nat : Verified(at)}

\* Whatever is on its way to a record is verified already.
VerifiedInv ==
    /\ At(fragment) \subseteq VerifiedOffsets
    /\ At(batch) \subseteq VerifiedOffsets
    /\ \A n \in DOMAIN records : Offsets(records[n]) \subseteq VerifiedOffsets

\* What two runs of cells joined were copied from, one of them was.
LEMMA AtConcat ==
    ASSUME NEW s \in Seq(Cell), NEW t \in Seq(Cell)
    PROVE  At(s \o t) \subseteq At(s) \cup At(t)
<1>1. DOMAIN (s \o t) = 1..Len(s) + Len(t) /\ DOMAIN s = 1..Len(s) /\ DOMAIN t = 1..Len(t)
      /\ Len(s) \in Nat /\ Len(t) \in Nat
  BY ConcatProperties, LenProperties
<1>2. \A k \in DOMAIN (s \o t) : \/ k \in DOMAIN s /\ (s \o t)[k] = s[k]
                                 \/ k - Len(s) \in DOMAIN t /\ (s \o t)[k] = t[k - Len(s)]
  BY <1>1, ConcatProperties
<1> QED
  BY <1>2 DEF At

\* The data of a physical record whose checksum holds is verified.
LEMMA DataVerified ==
    ASSUME ScanInv, Physical, crc_ok
    PROVE  At(data) \subseteq VerifiedOffsets
<1>1. /\ DOMAIN data = 1..length
      /\ \A k \in 1..length : data[k].at = here + HEADER_SIZE + k - 1
      /\ length \in Nat /\ here \in Nat
  BY DataProperties, HeaderProperties, LenProperties DEF ScanInv, TypeOK
<1>2. ASSUME NEW k \in 1..length
      PROVE  data[k].at \in Nat /\ Verified(data[k].at)
  BY <1>1, <1>2 DEF Verified, crc_ok, length, HEADER_SIZE
<1> QED
  BY <1>1, <1>2 DEF At, VerifiedOffsets

\* Every step hands on verified bytes only.
LEMMA VerifiedStep ==
    ASSUME ScanInv, VerifiedInv, [Next]_vars
    PROVE  VerifiedInv'
<1>1. ASSUME file' = file PROVE VerifiedOffsets' = VerifiedOffsets
  BY <1>1 DEF VerifiedOffsets, Verified
<1>2. ASSUME NextBlock PROVE VerifiedInv'
  BY <1>1, <1>2 DEF NextBlock, batchVars, VerifiedInv, At, Offsets
<1>3. ASSUME PhysicalRecord PROVE VerifiedInv'
  <2>1. Physical /\ file' = file
    BY <1>3 DEF Physical, PhysicalRecord, FullRecord, FirstFragment, MiddleFragment,
                LastFragment, UnknownType
  <2>2. At(<<>>) = {}
    BY EmptySeq DEF At
  <2>3. crc_ok => At(fragment \o data) \subseteq VerifiedOffsets
    BY <2>1, AtConcat, DataVerified, DataProperties DEF ScanInv, TypeOK, VerifiedInv
  <2>4. At(fragment') \subseteq VerifiedOffsets
    BY <1>3, <2>1, <2>2, <2>3, DataVerified
    DEF PhysicalRecord, FullRecord, FirstFragment, MiddleFragment, LastFragment,
        UnknownType, Reset, VerifiedInv
  <2>5. At(batch') \subseteq VerifiedOffsets /\ records' = records
    BY <1>3, <2>1, <2>2, <2>3, DataVerified
    DEF PhysicalRecord, FullRecord, FirstFragment, MiddleFragment, LastFragment,
        UnknownType, NoParse, Parse, Call, batchVars, VerifiedInv
  <2> QED
    BY <1>1, <2>1, <2>4, <2>5 DEF VerifiedInv, At, Offsets
<1>4. ASSUME Batch PROVE VerifiedInv'
  <2>1. /\ At(batch)' \subseteq VerifiedOffsets
        /\ \A n \in DOMAIN records' : Offsets(records'[n]) \subseteq VerifiedOffsets
    BY <1>4, BatchConfined DEF Batch, ScanInv, TypeOK, VerifiedInv
  <2>2. file' = file /\ fragment' = fragment
    BY <1>4 DEF Batch, scanVars
  <2> QED
    BY <1>1, <2>1, <2>2 DEF VerifiedInv, At, Offsets
<1>5. ASSUME UNCHANGED vars PROVE VerifiedInv'
  BY <1>1, <1>5 DEF vars, scanVars, batchVars, VerifiedInv, At, Offsets
<1> QED
  BY <1>2, <1>3, <1>4, <1>5, NextKinds

\* Every byte of every surfaced record was covered by a checksum that held.
THEOREM OnlyVerified == Spec => []OnlyVerifiedBytes
<1>1. Init => ScanInv /\ VerifiedInv
  BY InitScan, EmptySeq DEF Init, VerifiedInv, At
<1>2. ScanInv /\ VerifiedInv /\ [Next]_vars => (ScanInv /\ VerifiedInv)'
  BY ScanStep, VerifiedStep
<1>3. VerifiedInv => OnlyVerifiedBytes
  BY DEF VerifiedInv, OnlyVerifiedBytes, VerifiedOffsets
<1> QED
  BY <1>1, <1>2, <1>3, PTL DEF Spec

-----------------------------------------------------------------------------
(* What is parsed is a whole record.                                       *)

\* A reassembly under way: a FIRST and MIDDLEs, sound and in file order.
OpenRecord(c, limit) ==
    /\ Len(c) > 0
    /\ c[1].type = REC_FIRST
    /\ \A k \in 2..Len(c) : c[k].type = REC_MIDDLE
    /\ \A k \in DOMAIN c : c[k].good /\ c[k].at < limit
    /\ \A j, k \in DOMAIN c : j < k => c[j].at < c[k].at

PiecesInv == (in_record => OpenRecord(pieces, here)) /\ OnlyWellFormedRecords

\* The cursor never goes back in the file, and a physical record moves it on.
LEMMA HereAdvances ==
    ASSUME ScanInv, NextBlock \/ Physical
    PROVE  here \in Nat /\ here' \in Nat /\ here <= here' /\ (Physical => here < here')
<1>1. here \in Nat
  BY HeaderProperties DEF ScanInv, TypeOK
<1>2. ASSUME NextBlock PROVE here' \in Nat /\ here <= here'
  BY <1>2, HeaderProperties DEF NextBlock, here, ScanInv, TypeOK
<1>3. ASSUME Physical PROVE here' \in Nat /\ here < here'
  BY <1>1, <1>3, DataProperties DEF HEADER_SIZE
<1>4. Physical => ~NextBlock \/ here < here'
  BY <1>3
<1> QED
  BY <1>1, <1>2, <1>3

\* A sound MIDDLE extends an open record, a sound LAST completes it.
LEMMA PiecesGrow ==
    ASSUME ScanInv, PiecesInv, Physical, in_record, crc_ok
    PROVE  /\ record_type = REC_MIDDLE => OpenRecord(Append(pieces, this), here')
           /\ record_type = REC_LAST => WellFormed(Append(pieces, this))
<1> DEFINE c == Append(pieces, this)
<1>1. /\ pieces \in Seq(Piece) /\ this \in Piece
      /\ Len(pieces) \in Nat /\ DOMAIN pieces = 1..Len(pieces)
  BY HeaderProperties, LenProperties DEF Physical, ScanInv, TypeOK
<1>2. /\ c \in Seq(Piece) /\ Len(c) = Len(pieces) + 1 /\ DOMAIN c = 1..Len(pieces) + 1
      /\ \A k \in 1..Len(pieces) : c[k] = pieces[k]
      /\ c[Len(pieces) + 1] = this
  BY <1>1, AppendProperties, LenProperties
<1>3. OpenRecord(pieces, here) /\ Len(pieces) > 0
  BY DEF PiecesInv, OpenRecord
<1>4. this.at = here /\ this.type = record_type /\ this.good
  BY DEF this
<1>5. here \in Nat /\ here' \in Nat /\ here < here'
  BY HereAdvances
<1> HIDE DEF c
<1>6. \A k \in DOMAIN c : c[k].good
  BY <1>1, <1>2, <1>3, <1>4 DEF OpenRecord
<1>7. \A k \in DOMAIN c : c[k].at \in Nat /\ c[k].at <= here
  <2>1. \A k \in DOMAIN c : c[k].at \in Nat
    <3>1. \A k \in DOMAIN c : c[k] \in Piece
      BY <1>1, <1>2
    <3> QED
      BY <3>1 DEF Piece
  <2>2. \A k \in 1..Len(pieces) : c[k].at < here
    BY <1>1, <1>2, <1>3 DEF OpenRecord
  <2> QED
    BY <1>1, <1>2, <1>4, <1>5, <2>1, <2>2
<1>8. \A j, k \in DOMAIN c : j < k => c[j].at < c[k].at
  BY <1>1, <1>2, <1>3, <1>4 DEF OpenRecord
<1>9. c[1].type = REC_FIRST
  BY <1>1, <1>2, <1>3 DEF OpenRecord
<1>10. \A k \in 2..Len(c) - 1 : c[k].type = REC_MIDDLE
  BY <1>1, <1>2, <1>3 DEF OpenRecord
<1>11. ASSUME record_type = REC_MIDDLE PROVE OpenRecord(c, here')
  <2>1. \A k \in 2..Len(c) : c[k].type = REC_MIDDLE
    BY <1>1, <1>2, <1>4, <1>10, <1>11
  <2>2. \A k \in DOMAIN c : c[k].at < here'
    BY <1>5, <1>7
  <2> QED
    BY <1>1, <1>2, <1>6, <1>8, <1>9, <2>1, <2>2 DEF OpenRecord
<1>12. ASSUME record_type = REC_LAST PROVE WellFormed(c)
  BY <1>1, <1>2, <1>3, <1>4, <1>6, <1>8, <1>9, <1>10, <1>12 DEF WellFormed
<1> QED
  BY <1>11, <1>12 DEF c

\* Every step keeps the open record one that a LAST completes.
LEMMA PiecesStep ==
    ASSUME ScanInv, PiecesInv, [Next]_vars
    PROVE  PiecesInv'
<1>1. ASSUME NextBlock PROVE PiecesInv'
  <2>1. here \in Nat /\ here' \in Nat /\ here <= here'
    BY <1>1, HereAdvances
  <2>2. pieces' = pieces /\ in_record' = in_record /\ calls' = calls
    BY <1>1 DEF NextBlock
  <2>3. in_record => OpenRecord(pieces, here')
    <3>1. \A k \in DOMAIN pieces : pieces[k].at \in Nat
      <4>1. \A k \in DOMAIN pieces : pieces[k] \in Piece
        BY LenProperties DEF ScanInv, TypeOK
      <4> QED
        BY <4>1 DEF Piece
    <3> QED
      BY <2>1, <3>1 DEF PiecesInv, OpenRecord
  <2> QED
    BY <2>2, <2>3 DEF PiecesInv, OnlyWellFormedRecords
<1>2. ASSUME PhysicalRecord PROVE PiecesInv'
  <2>1. Physical
    BY <1>2 DEF PhysicalRecord, FullRecord, FirstFragment, MiddleFragment, LastFragment,
                UnknownType
  <2>2. /\ this.at = here /\ this.type = record_type /\ (crc_ok => this.good)
        /\ here < here'
    BY <2>1, HereAdvances DEF this
  <2> DEFINE alone == <<this>>
  <2>a. Len(alone) = 1 /\ DOMAIN alone = 1..1 /\ alone[1] = this
    OBVIOUS
  <2> HIDE DEF alone
  <2>b. \A j, k \in DOMAIN alone : ~(j < k)
    BY <2>a
  <2>c. crc_ok => \A k \in DOMAIN alone : alone[k].good /\ alone[k].at < here'
    BY <2>2, <2>a
  <2>3. crc_ok /\ record_type = REC_FIRST => OpenRecord(alone, here')
    BY <2>2, <2>a, <2>b, <2>c DEF OpenRecord
  <2>4. crc_ok /\ record_type = REC_FULL => WellFormed(alone)
    BY <2>2, <2>a, <2>b, <2>c DEF WellFormed
  <2> USE DEF alone
  <2>5. in_record' => OpenRecord(pieces', here')
    BY <1>2, <2>1, <2>3, PiecesGrow
    DEF PhysicalRecord, FullRecord, FirstFragment, MiddleFragment, LastFragment,
        UnknownType, Reset
  <2>6. calls' = calls \/ \E c \in Seq(Piece) : WellFormed(c) /\ calls' = Append(calls, c)
    <3>1. this \in Piece /\ Append(pieces, this) \in Seq(Piece) /\ <<this>> \in Seq(Piece)
      BY <2>1, HeaderProperties, AppendProperties DEF Physical, ScanInv, TypeOK
    <3> QED
      BY <1>2, <2>1, <2>4, <3>1, PiecesGrow
      DEF PhysicalRecord, FullRecord, FirstFragment, MiddleFragment, LastFragment,
          UnknownType, Parse, NoParse
  <2>7. OnlyWellFormedRecords'
    <3>1. CASE calls' = calls
      BY <3>1 DEF PiecesInv, OnlyWellFormedRecords
    <3>2. ASSUME NEW c \in Seq(Piece), WellFormed(c), calls' = Append(calls, c)
          PROVE  OnlyWellFormedRecords'
      <4>1. calls \in Seq(Seq(Piece)) /\ DOMAIN calls = 1..Len(calls) /\ Len(calls) \in Nat
        BY LenProperties DEF ScanInv, TypeOK
      <4>2. /\ DOMAIN calls' = 1..Len(calls) + 1
            /\ \A n \in 1..Len(calls) : calls'[n] = calls[n]
            /\ calls'[Len(calls) + 1] = c
        BY <3>2, <4>1, AppendProperties, LenProperties
      <4> QED
        BY <3>2, <4>1, <4>2 DEF PiecesInv, OnlyWellFormedRecords
    <3> QED
      BY <2>6, <3>1, <3>2
  <2> QED
    BY <2>5, <2>7 DEF PiecesInv
<1>3. ASSUME Batch \/ UNCHANGED vars PROVE PiecesInv'
  BY <1>3 DEF Batch, vars, scanVars, PiecesInv, OnlyWellFormedRecords, here
<1> QED
  BY <1>1, <1>2, <1>3, NextKinds

\* parse_write_batch is only ever handed one FULL record, or a FIRST, MIDDLEs
\* and a LAST in file order, each with a checksum that held.
THEOREM WellFormedOnly == Spec => []OnlyWellFormedRecords
<1>1. Init => ScanInv /\ PiecesInv
  BY InitScan, EmptySeq DEF Init, PiecesInv, OnlyWellFormedRecords
<1>2. ScanInv /\ PiecesInv /\ [Next]_vars => (ScanInv /\ PiecesInv)'
  BY ScanStep, PiecesStep
<1> QED
  BY <1>1, <1>2, PTL DEF Spec, PiecesInv

-----------------------------------------------------------------------------
(* No byte is surfaced twice.                                              *)

Ascending(s) == \A j, k \in DOMAIN s : j < k => s[j].at < s[k].at

\* Cells s that continue the output: in file order, beyond every record.
Continues(s, limit) ==
    /\ Ascending(s)
    /\ Before(At(s), {limit})
    /\ \A n \in DOMAIN records : Before(Offsets(records[n]), At(s))

\* What is reassembled and what is yet to be decoded lies beyond the output.
OrderInv ==
    /\ call # "idle" => fragment = <<>>
    /\ call = "header" => cur = 0
    /\ Continues(fragment, here)
    /\ Ascending(batch)
    /\ Before(At(batch), {here})
    /\ \A n \in DOMAIN records :
          /\ Before(Offsets(records[n]), {here})
          /\ \A x \in Offsets(records[n]), k \in cur + 1..Len(batch) : x < batch[k].at
    /\ EachByteOnce

\* Offsets are natural numbers.
LEMMA OffsetsNat ==
    ASSUME TypeOK
    PROVE  /\ \A s \in Seq(Cell) : At(s) \subseteq Nat
           /\ \A n \in DOMAIN records : Offsets(records[n]) \subseteq Nat
<1>1. ASSUME NEW s \in Seq(Cell) PROVE At(s) \subseteq Nat
  <2>1. \A k \in DOMAIN s : s[k] \in Cell
    BY LenProperties
  <2> QED
    BY <2>1 DEF At, Cell
<1>2. \A n \in DOMAIN records : records[n] \in Record
  BY LenProperties DEF TypeOK, BatchTypeOK
<1> QED
  BY <1>1, <1>2 DEF Offsets, Record

\* What is before a limit is before any later one.
LEMMA BeforeLimit ==
    ASSUME NEW S \in SUBSET Nat, NEW m \in Nat, NEW n \in Nat, m <= n, Before(S, {m})
    PROVE  Before(S, {n})
BY DEF Before

\* The data under the cursor continues the output, after the fragment or alone.
LEMMA DataContinues ==
    ASSUME ScanInv, OrderInv, Physical
    PROVE  /\ Continues(data, here')
           /\ Continues(fragment \o data, here')
           /\ Continues(<<>>, here')
<1>1. /\ here \in Nat /\ here' = here + HEADER_SIZE + length /\ length \in Nat
      /\ here < here' /\ here' \in Nat
      /\ data \in Seq(Cell) /\ fragment \in Seq(Cell)
      /\ DOMAIN data = 1..length /\ Len(data) = length
      /\ \A k \in 1..length : data[k].at = here + HEADER_SIZE + k - 1
  BY HereAdvances, DataProperties, LenProperties DEF ScanInv, TypeOK
<1>2. /\ At(fragment) \subseteq Nat /\ At(data) \subseteq Nat
      /\ \A n \in DOMAIN records : Offsets(records[n]) \subseteq Nat
  BY <1>1, OffsetsNat DEF ScanInv
<1>3. \A y \in At(data) : here <= y /\ y < here'
  BY <1>1 DEF At, HEADER_SIZE
<1>4. Ascending(data)
  BY <1>1 DEF Ascending, HEADER_SIZE
<1>5. \A n \in DOMAIN records : /\ Before(Offsets(records[n]), At(data))
                                /\ Before(Offsets(records[n]), At(fragment))
  <2>1. \A n \in DOMAIN records : \A x \in Offsets(records[n]) : x \in Nat /\ x < here
    BY <1>2 DEF OrderInv, Before
  <2>2. ASSUME NEW n \in DOMAIN records
        PROVE  Before(Offsets(records[n]), At(data))
    <3>1. ASSUME NEW x \in Offsets(records[n]), NEW y \in At(data) PROVE x < y
      BY <1>1, <1>2, <1>3, <2>1, x \in Nat, y \in Nat, here <= y, x < here
    <3> QED
      BY <3>1 DEF Before
  <2> QED
    BY <2>2 DEF OrderInv, Continues
<1>6. Continues(data, here')
  BY <1>3, <1>4, <1>5 DEF Continues, Before
<1>7. Continues(<<>>, here')
  BY EmptySeq DEF Continues, Ascending, Before, At
<1>8. Continues(fragment \o data, here')
  <2> DEFINE g == fragment \o data
             f == Len(fragment)
  <2>1. /\ f \in Nat /\ DOMAIN fragment = 1..f
        /\ g \in Seq(Cell) /\ DOMAIN g = 1..f + length
        /\ \A k \in 1..f : g[k] = fragment[k]
        /\ \A k \in f + 1..f + length : g[k] = data[k - f]
    <3>1. f \in Nat /\ DOMAIN fragment = 1..f
      BY <1>1, LenProperties
    <3>2. /\ g \in Seq(Cell) /\ Len(g) = f + length
          /\ \A k \in 1..f + length : g[k] = IF k <= f THEN fragment[k] ELSE data[k - f]
      BY <1>1, ConcatProperties
    <3>3. DOMAIN g = 1..f + length
      BY <3>2, LenProperties
    <3> HIDE DEF g, f
    <3> QED
      BY <1>1, <3>1, <3>2, <3>3
  <2>2. At(g) \subseteq At(fragment) \cup At(data)
    BY <1>1, AtConcat
  <2> HIDE DEF g, f
  <2>3. \A x \in At(fragment) : x \in Nat /\ x < here
    BY <1>2 DEF OrderInv, Continues, Before
  <2>4. Ascending(g)
    <3>1. \A k \in 1..f : g[k].at \in Nat /\ g[k].at < here
      BY <2>1, <2>3 DEF At
    <3>2. \A k \in f + 1..f + length : g[k].at = here + HEADER_SIZE + (k - f) - 1
      BY <1>1, <2>1
    <3>3. \A j, k \in 1..f : j < k => g[j].at < g[k].at
      BY <2>1 DEF OrderInv, Continues, Ascending
    <3>4. \A j \in 1..f, k \in f + 1..f + length : g[j].at < g[k].at
      BY <1>1, <2>1, <3>1, <3>2, SMTT(30) DEF HEADER_SIZE
    <3>5. \A j, k \in f + 1..f + length : j < k => g[j].at < g[k].at
      BY <1>1, <2>1, <3>2 DEF HEADER_SIZE
    <3>6. \A k \in DOMAIN g : k \in 1..f \/ k \in f + 1..f + length
      BY <1>1, <2>1
    <3>7. \A j, k \in DOMAIN g : j < k => ~(j \in f + 1..f + length /\ k \in 1..f)
      BY <1>1, <2>1
    <3> QED
      BY <3>3, <3>4, <3>5, <3>6, <3>7 DEF Ascending
  <2>5. Before(At(g), {here'})
    BY <1>1, <1>3, <2>2, <2>3 DEF Before
  <2>6. \A n \in DOMAIN records : Before(Offsets(records[n]), At(g))
    BY <1>5, <2>2 DEF Before
  <2> QED
    BY <2>4, <2>5, <2>6 DEF Continues, g
<1> QED
  BY <1>6, <1>7, <1>8

\* Going to the next block keeps the order of the bytes.
LEMMA OrderNextBlock ==
    ASSUME ScanInv, OrderInv, NextBlock
    PROVE  OrderInv'
<1>1. here \in Nat /\ here' \in Nat /\ here <= here'
  BY HereAdvances
<1>2. /\ At(fragment) \subseteq Nat /\ At(batch) \subseteq Nat
      /\ \A n \in DOMAIN records : Offsets(records[n]) \subseteq Nat
  BY OffsetsNat DEF ScanInv, TypeOK, BatchTypeOK
<1>3. /\ Before(At(fragment), {here'}) /\ Before(At(batch), {here'})
      /\ \A n \in DOMAIN records : Before(Offsets(records[n]), {here'})
  BY <1>1, <1>2, BeforeLimit DEF OrderInv, Continues
<1>4. /\ call' = call /\ fragment' = fragment /\ batch' = batch /\ cur' = cur
      /\ records' = records
  BY DEF NextBlock, batchVars
<1>5. Continues(fragment, here)' /\ Ascending(batch)' /\ EachByteOnce'
  <2>1. Continues(fragment, here')
    BY <1>3 DEF OrderInv, Continues
  <2>2. Continues(fragment, here)'
    BY <1>4, <2>1 DEF Continues, Ascending, Before, At, Offsets
  <2> QED
    BY <1>4, <2>2 DEF OrderInv, EachByteOnce, Ascending, Before, At, Offsets
<1>6. /\ Before(At(batch), {here})'
      /\ \A n \in DOMAIN records' :
            /\ Before(Offsets(records'[n]), {here'})
            /\ \A x \in Offsets(records'[n]), k \in cur' + 1..Len(batch') : x < batch'[k].at
  BY <1>3, <1>4 DEF OrderInv, Before, At
<1> QED
  BY <1>4, <1>5, <1>6 DEF OrderInv, Before, At, Offsets

\* Consuming a physical record keeps the order of the bytes.
LEMMA OrderPhysical ==
    ASSUME ScanInv, OrderInv, PhysicalRecord
    PROVE  OrderInv'
<1>1. Physical /\ call = "idle" /\ records' = records
  BY DEF Physical, Scanning, PhysicalRecord, FullRecord, FirstFragment, MiddleFragment,
         LastFragment, UnknownType, Parse, Call, NoParse, batchVars
<1>2. here \in Nat /\ here' \in Nat /\ here <= here'
  BY <1>1, HereAdvances
<1>3. /\ At(batch) \subseteq Nat
      /\ \A n \in DOMAIN records : Offsets(records[n]) \subseteq Nat
  BY OffsetsNat DEF ScanInv, TypeOK, BatchTypeOK
<1>4. /\ Before(At(batch), {here'})
      /\ \A n \in DOMAIN records : Before(Offsets(records[n]), {here'})
  BY <1>2, <1>3, BeforeLimit DEF OrderInv
<1>5. Continues(fragment', here')
  BY <1>1, DataContinues
  DEF PhysicalRecord, FullRecord, FirstFragment, MiddleFragment, LastFragment,
      UnknownType, Reset
<1>6. \/ call' = call /\ batch' = batch /\ cur' = cur
      \/ /\ fragment' = <<>> /\ cur' = 0
         /\ batch' \in Seq(Cell) /\ Continues(batch', here')
  <2>1. data \in Seq(Cell) /\ fragment \o data \in Seq(Cell)
    BY <1>1, DataProperties, ConcatProperties DEF ScanInv, TypeOK
  <2> QED
    BY <1>1, <2>1, DataContinues
    DEF PhysicalRecord, FullRecord, FirstFragment, MiddleFragment, LastFragment,
        UnknownType, Reset, NoParse, Parse, Call, batchVars
<1>7. /\ call' # "idle" => fragment' = <<>>
      /\ call' = "header" => cur' = 0
      /\ Ascending(batch') /\ Before(At(batch'), {here'})
      /\ \A n \in DOMAIN records :
            \A x \in Offsets(records[n]), k \in cur' + 1..Len(batch') : x < batch'[k].at
  <2>1. CASE call' = call /\ batch' = batch /\ cur' = cur
    BY <1>1, <1>4, <2>1 DEF OrderInv
  <2>2. CASE /\ fragment' = <<>> /\ cur' = 0
             /\ batch' \in Seq(Cell) /\ Continues(batch', here')
    <3>1. cur' + 1..Len(batch') = DOMAIN batch'
      BY <2>2, LenProperties
    <3> QED
      BY <2>2, <3>1 DEF Continues, Before, At
  <2> QED
    BY <1>6, <2>1, <2>2
<1>8. Continues(fragment, here)'
  BY <1>1, <1>5 DEF Continues
<1>9. EachByteOnce'
  BY <1>1 DEF OrderInv, EachByteOnce
<1> QED
  BY <1>1, <1>4, <1>7, <1>8, <1>9 DEF OrderInv

\* Pushing a record keeps the order: it takes the next bytes of the buffer.
LEMMA OrderPush ==
    ASSUME ScanInv, OrderInv, UNCHANGED scanVars, call = "ops",
           NEW r, NEW d, Pushed(r, d)
    PROVE  OrderInv'
<1> DEFINE l == Len(records)
<1>1. /\ l \in Nat /\ DOMAIN records = 1..l /\ DOMAIN records' = 1..l + 1
      /\ \A n \in 1..l : records'[n] = records[n]
      /\ records'[l + 1] = r
      /\ cur \in Nat /\ Len(batch) \in Nat /\ DOMAIN batch = 1..Len(batch)
      /\ d \in cur + 2..Len(batch)
      /\ cur' = d /\ batch' = batch /\ call' = call
  BY PushedRecords, LenProperties DEF ScanInv, TypeOK, BatchTypeOK, Pushed
<1>2. fragment = <<>> /\ fragment' = <<>> /\ here' = here
  BY DEF OrderInv, scanVars, here
<1>3. \A k \in DOMAIN batch : batch[k].at \in Nat /\ batch[k].at < here
  <2>1. At(batch) \subseteq Nat
    BY OffsetsNat DEF ScanInv, TypeOK, BatchTypeOK
  <2> QED
    BY <2>1 DEF OrderInv, Before, At
<1>4. \A x \in Offsets(r) : \E m \in cur + 1..d : x = batch[m].at
  BY PushedOffsets DEF ScanInv, TypeOK
<1>5. \A x \in At(r.key), y \in At(r.value) :
         \E m, n \in cur + 1..d : m < n /\ x = batch[m].at /\ y = batch[n].at
  <2>1. BatchTypeOK
    BY DEF ScanInv, TypeOK
  <2> QED
    BY <2>1, PushedInOrder
<1>6. cur + 1..d \subseteq DOMAIN batch
  BY <1>1
<1>7. Before(Offsets(r), {here})
  BY <1>3, <1>4, <1>6 DEF Before
<1>8. ASSUME NEW x \in Offsets(r), NEW k \in d + 1..Len(batch)
      PROVE  x < batch[k].at
  <2>1. PICK m \in cur + 1..d : x = batch[m].at
    BY <1>4
  <2>2. m < k /\ m \in DOMAIN batch /\ k \in DOMAIN batch
    BY <1>1
  <2> QED
    BY <2>1, <2>2 DEF OrderInv, Ascending
<1>9. Before(At(r.key), At(r.value))
  BY <1>5, <1>6 DEF Before, OrderInv, Ascending
<1>10. \A n \in 1..l : Before(Offsets(records[n]), Offsets(r))
  <2>1. cur + 1..d \subseteq cur + 1..Len(batch)
    BY <1>1
  <2> QED
    BY <1>1, <1>4, <2>1 DEF Before, OrderInv
<1>11. ASSUME NEW n \in DOMAIN records'
       PROVE  /\ Before(Offsets(records'[n]), {here})
              /\ \A x \in Offsets(records'[n]), k \in d + 1..Len(batch) : x < batch[k].at
              /\ Before(At(records'[n].key), At(records'[n].value))
              /\ \A s \in 1..n - 1 : Before(Offsets(records'[s]), Offsets(records'[n]))
  <2>1. CASE n \in 1..l
    <3>1. d + 1..Len(batch) \subseteq cur + 1..Len(batch)
      BY <1>1
    <3>2. records'[n] = records[n] /\ \A s \in 1..n - 1 : records'[s] = records[s]
      BY <1>1, <2>1
    <3> QED
      BY <1>1, <2>1, <3>1, <3>2 DEF OrderInv, EachByteOnce
  <2>2. CASE n = l + 1
    <3>1. 1..n - 1 = 1..l /\ records'[n] = r
      BY <1>1, <2>2
    <3> QED
      BY <1>1, <1>7, <1>8, <1>9, <1>10, <3>1
  <2> QED
    BY <1>1, <2>1, <2>2
<1>12. Continues(fragment, here)'
  BY <1>2, EmptySeq DEF Continues, Ascending, Before, At
<1> QED
  BY <1>1, <1>2, <1>11, <1>12
  DEF OrderInv, EachByteOnce, Ascending, Before, At, Offsets

\* Every step keeps the order of the bytes.
LEMMA OrderStep ==
    ASSUME ScanInv, OrderInv, [Next]_vars
    PROVE  OrderInv'
<1>1. ASSUME Batch PROVE OrderInv'
  <2>1. BatchTypeOK /\ BatchNext /\ UNCHANGED scanVars
    BY <1>1 DEF Batch, ScanInv, TypeOK
  <2>2. here' = here /\ fragment' = fragment
    BY <2>1 DEF scanVars, here
  <2>3. ASSUME Return PROVE OrderInv'
    <3>1. /\ batch' = <<>> /\ cur' = 0 /\ records' = records /\ call' = "idle"
          /\ Len(<<>>) = 0 /\ DOMAIN <<>> = {}
      BY <2>3, EmptySeq DEF Return
    <3>2. 1..0 = {}
      OBVIOUS
    <3> QED
      BY <2>2, <3>1, <3>2
      DEF OrderInv, Continues, EachByteOnce, Ascending, Before, At, Offsets
  <2>4. ASSUME ReadHeader PROVE OrderInv'
    <3>1. /\ batch' = batch /\ cur' = BATCH_HEADER_LEN /\ records' = records
          /\ call' = "ops" /\ cur = 0 /\ Len(batch) \in Nat /\ fragment = <<>>
      BY <2>4 DEF ReadHeader, OrderInv, ScanInv, TypeOK, BatchTypeOK
    <3>2. cur' + 1..Len(batch) \subseteq cur + 1..Len(batch)
      BY <3>1 DEF BATCH_HEADER_LEN
    <3>3. \A n \in DOMAIN records :
             \A x \in Offsets(records[n]), k \in cur' + 1..Len(batch) : x < batch[k].at
      BY <3>2 DEF OrderInv
    <3>4. Continues(fragment, here)' /\ EachByteOnce'
      BY <2>2, <3>1 DEF OrderInv, Continues, EachByteOnce, Ascending, Before, At, Offsets
    <3>5. /\ Before(At(batch), {here})' /\ Ascending(batch)'
          /\ \A n \in DOMAIN records : Before(Offsets(records[n]), {here'})
      BY <2>2, <3>1 DEF OrderInv, Ascending, Before, At
    <3> QED
      BY <2>2, <3>1, <3>3, <3>4, <3>5 DEF OrderInv
  <2> QED
    BY <2>1, <2>3, <2>4, BatchStep, OrderPush
<1>2. ASSUME UNCHANGED vars PROVE OrderInv'
  BY <1>2 DEF vars, scanVars, batchVars, OrderInv, Continues, EachByteOnce, Ascending,
              Before, At, Offsets, here
<1> QED
  BY <1>1, <1>2, NextKinds, OrderNextBlock, OrderPhysical

\* No byte of the file is surfaced twice, and the records come out in the order
\* of their bytes in the file.
THEOREM EachByteOnceAlways == Spec => []EachByteOnce
<1>1. Init => ScanInv /\ OrderInv
  BY InitScan, EmptySeq
  DEF Init, OrderInv, Continues, EachByteOnce, Ascending, Before, At
<1>2. ScanInv /\ OrderInv /\ [Next]_vars => (ScanInv /\ OrderInv)'
  BY ScanStep, OrderStep
<1> QED
  BY <1>1, <1>2, PTL DEF Spec, OrderInv

\* However large a count claims to be, every iteration of the loop over the ops
\* is paid for with two cells of the batch at least.
THEOREM CountNeverTrusted == Spec => []CountIsNotTrusted
<1> DEFINE CountInv == CountIsNotTrusted /\ (call = "header" => op_index = 0)
<1>1. Init => ScanInv /\ CountInv
  BY InitScan DEF Init, CountIsNotTrusted
<1>2. ScanInv /\ CountInv /\ [Next]_vars => (ScanInv /\ CountInv)'
  <2> SUFFICES ASSUME ScanInv, CountInv, [Next]_vars PROVE CountInv'
    BY ScanStep
  <2>1. ASSUME Batch PROVE CountInv'
    BY <2>1, CountStep DEF Batch, ScanInv, TypeOK
  <2>2. ASSUME PhysicalRecord PROVE CountInv'
    <3>1. NoParse \/ \E buffer, c : Parse(buffer, c)
      BY <2>2 DEF PhysicalRecord, FullRecord, FirstFragment, MiddleFragment,
                  LastFragment, UnknownType
    <3>2. ASSUME NoParse PROVE CountInv'
      BY <3>2 DEF NoParse, batchVars, CountIsNotTrusted
    <3>3. ASSUME NEW buffer, NEW c, Parse(buffer, c) PROVE CountInv'
      BY <3>3 DEF Parse, Call, CountIsNotTrusted
    <3> QED
      BY <3>1, <3>2, <3>3
  <2>3. ASSUME NextBlock \/ UNCHANGED vars PROVE CountInv'
    BY <2>3 DEF NextBlock, vars, batchVars, CountIsNotTrusted
  <2> QED
    BY <2>1, <2>2, <2>3, NextKinds
<1> QED
  BY <1>1, <1>2, PTL DEF Spec

\* In every batch, sound or spliced, of every file, the later op has the greater
\* sequence number, until u64::MAX is reached: the addition saturates.
THEOREM SeqNumbersNeverWrap == Spec => []SeqNeverWraps
<1>1. Init => ScanInv /\ SeqInv
  BY InitScan DEF Init, SeqInv
<1>2. ScanInv /\ SeqInv /\ [Next]_vars => (ScanInv /\ SeqInv)'
  <2> SUFFICES ASSUME ScanInv, SeqInv, [Next]_vars PROVE SeqInv'
    BY ScanStep
  <2>1. ASSUME Batch PROVE SeqInv'
    BY <2>1, SeqStep DEF Batch, ScanInv, TypeOK
  <2>2. ASSUME PhysicalRecord PROVE SeqInv'
    <3>1. NoParse \/ \E buffer, c : Parse(buffer, c)
      BY <2>2 DEF PhysicalRecord, FullRecord, FirstFragment, MiddleFragment,
                  LastFragment, UnknownType
    <3>2. ASSUME NoParse PROVE SeqInv'
      BY <3>2 DEF NoParse, batchVars, SeqInv, Numbered, base_seq
    <3>3. ASSUME NEW buffer, NEW c, Parse(buffer, c) PROVE SeqInv'
      BY <3>3 DEF Parse, Call, SeqInv
    <3> QED
      BY <3>1, <3>2, <3>3
  <2>3. ASSUME NextBlock \/ UNCHANGED vars PROVE SeqInv'
    BY <2>3 DEF NextBlock, vars, batchVars, SeqInv, Numbered, base_seq
  <2> QED
    BY <2>1, <2>2, <2>3, NextKinds
<1>3. ScanInv /\ SeqInv => SeqNeverWraps
  BY NumberedNeverWraps DEF ScanInv, TypeOK
<1> QED
  BY <1>1, <1>2, <1>3, PTL DEF Spec

-----------------------------------------------------------------------------
(* The reader is a scan of RecordScan.                                     *)

\* The values of cells are as many numbers.
LEMMA ValuesProperties ==
    ASSUME NEW s \in Seq(Cell)
    PROVE  /\ Values(s) \in Seq(Nat)
           /\ Len(Values(s)) = Len(s)
           /\ Len(s) \in Nat
           /\ DOMAIN s = 1..Len(s)
           /\ \A k \in 1..Len(s) : Values(s)[k] = s[k].val
<1>1. Len(s) \in Nat /\ DOMAIN s = 1..Len(s)
  BY LenProperties
<1>2. ASSUME NEW k \in 1..Len(s) PROVE s[k].val \in Nat
  <2>1. s[k] \in Cell
    BY <1>1, ElementOfSeq
  <2> QED
    BY <2>1 DEF Cell
<1>3. Values(s) \in [1..Len(s) -> Nat]
  BY <1>1, <1>2 DEF Values
<1>4. Values(s) \in Seq(Nat)
  BY <1>1, <1>3, SeqDef
<1>5. Len(Values(s)) = Len(s)
  BY <1>1, <1>3, <1>4, LenProperties
<1> QED
  BY <1>1, <1>4, <1>5 DEF Values

\* What two runs of cells joined hold, they hold one after the other.
LEMMA ValuesConcat ==
    ASSUME NEW s \in Seq(Cell), NEW t \in Seq(Cell)
    PROVE  Values(s \o t) = Values(s) \o Values(t)
<1> DEFINE v == Values(s)
           w == Values(t)
           u == Values(s \o t)
<1>1. /\ v \in Seq(Nat) /\ Len(v) = Len(s) /\ \A k \in 1..Len(s) : v[k] = s[k].val
      /\ w \in Seq(Nat) /\ Len(w) = Len(t) /\ \A k \in 1..Len(t) : w[k] = t[k].val
      /\ Len(s) \in Nat /\ Len(t) \in Nat
  BY ValuesProperties
<1>2. /\ s \o t \in Seq(Cell)
      /\ Len(s \o t) = Len(s) + Len(t)
      /\ \A k \in 1..Len(s) + Len(t) :
            (s \o t)[k] = IF k <= Len(s) THEN s[k] ELSE t[k - Len(s)]
  BY ConcatProperties
<1>3. /\ u \in Seq(Nat) /\ Len(u) = Len(s) + Len(t)
      /\ \A k \in 1..Len(s) + Len(t) : u[k] = (s \o t)[k].val
  BY <1>2, ValuesProperties
<1> HIDE DEF v, w, u
<1>4. /\ v \o w \in Seq(Nat)
      /\ Len(v \o w) = Len(s) + Len(t)
      /\ \A k \in 1..Len(s) + Len(t) :
            (v \o w)[k] = IF k <= Len(s) THEN v[k] ELSE w[k - Len(s)]
  BY <1>1, ConcatProperties
<1>5. ASSUME NEW k \in 1..Len(s) + Len(t) PROVE u[k] = (v \o w)[k]
  <2>0. u[k] = (s \o t)[k].val
    BY <1>3
  <2>1. CASE k <= Len(s)
    <3>1. k \in 1..Len(s)
      BY <1>1, <2>1
    <3>2. (s \o t)[k] = s[k] /\ (v \o w)[k] = v[k] /\ v[k] = s[k].val
      BY <1>1, <1>2, <1>4, <2>1, <3>1
    <3> QED
      BY <2>0, <3>2
  <2>2. CASE ~(k <= Len(s))
    <3>1. k - Len(s) \in 1..Len(t)
      BY <1>1, <2>2
    <3>2. (s \o t)[k] = t[k - Len(s)] /\ (v \o w)[k] = w[k - Len(s)]
      BY <1>2, <1>4, <2>2
    <3>3. w[k - Len(s)] = t[k - Len(s)].val
      BY <1>1, <3>1
    <3> QED
      BY <2>0, <3>2, <3>3
  <2> QED
    BY <2>1, <2>2
<1>6. u = v \o w
  BY <1>3, <1>4, <1>5, SeqEqual
<1> QED
  BY <1>6 DEF u, v, w

\* The data under the cursor is what the file holds there.
LEMMA ValuesData ==
    ASSUME ScanInv, Physical
    PROVE  Values(data) = Scan!DataAt(here)
<1>1. /\ length \in Nat /\ here \in Nat /\ Len(file.val) \in Nat
      /\ here + HEADER_SIZE + length <= Len(file.val)
      /\ data \in Seq(Cell) /\ Len(data) = length
  <2>1. /\ here' = here + HEADER_SIZE + length /\ block_start + pos' <= block_end
        /\ here' = block_start + pos'
    BY DataProperties DEF Physical, here
  <2> QED
    BY <2>1, DataProperties, HeaderProperties DEF ScanInv, TypeOK
<1> DEFINE m == here + 4
           n == here + 3 + length
           held == SubSeq(file.val, m, n)
<1>2. /\ Values(data) \in Seq(Nat) /\ Len(Values(data)) = length
      /\ \A k \in 1..length : Values(data)[k] = file.val[here + 3 + k]
  BY <1>1, ValuesProperties DEF data, Bytes, HEADER_SIZE
<1>3. \A i \in m..n : file.val[i] \in Nat
  <2>1. m..n \subseteq 1..Len(file.val)
    BY <1>1 DEF HEADER_SIZE
  <2> QED
    BY <2>1, ElementOfSeq DEF ScanInv, TypeOK
<1>4. m \in Int /\ n \in Int /\ n - m + 1 = length
      /\ (m <= n => length = n - m + 1) /\ (~(m <= n) => length = 0)
  BY <1>1
<1> HIDE DEF m, n
<1>5. /\ held \in Seq(Nat)
      /\ Len(held) = length
      /\ \A k \in 1..length : held[k] = file.val[m + k - 1]
  BY <1>3, <1>4, SubSeqProperties
<1>6. \A k \in 1..length : m + k - 1 = here + 3 + k
  BY <1>1 DEF m
<1>7. Scan!DataAt(here) = held
  BY DEF Scan!DataAt, length, m, n
<1> HIDE DEF held
<1>8. Values(data) = held
  BY <1>2, <1>5, <1>6, SeqEqual
<1> QED
  BY <1>7, <1>8

\* Headers and calls grow as what they are read from does.
LEMMA HeadersAppend ==
    ASSUME NEW c \in Seq(Piece), NEW p \in Piece
    PROVE  HeadersOf(Append(c, p)) = Append(HeadersOf(c), p.at)
BY AppendProperties, LenProperties DEF HeadersOf

Handed(cs) == [n \in DOMAIN cs |-> HeadersOf(cs[n])]

LEMMA HandedAppend ==
    ASSUME NEW cs \in Seq(Seq(Piece)), NEW c \in Seq(Piece)
    PROVE  Handed(Append(cs, c)) = Append(Handed(cs), HeadersOf(c))
BY AppendProperties, LenProperties DEF Handed

\* Nothing is open and nothing gathered where the variables are empty.
LEMMA NothingOpen == HeadersOf(<<>>) = <<>> /\ Values(<<>>) = <<>>
BY EmptySeq DEF HeadersOf, Values

\* A physical record is passed, taken or the end of what was open.
LEMMA ScanPhysical ==
    ASSUME ScanInv, PiecesInv, PhysicalRecord
    PROVE  Scan!Next
<1>1. Physical /\ UNCHANGED file
  BY DEF Physical, PhysicalRecord, FullRecord, FirstFragment, MiddleFragment,
         LastFragment, UnknownType
<1>2. here \in Nat /\ here' \in Nat /\ here < here'
  BY <1>1, HereAdvances
<1>3. Scan!GoOn /\ here \in here..here'
  BY <1>1, <1>2 DEF Scan!GoOn
<1>4. /\ data \in Seq(Cell) /\ fragment \in Seq(Cell)
      /\ this \in Piece /\ this.at = here
      /\ pieces \in Seq(Piece) /\ calls \in Seq(Seq(Piece))
  BY <1>1, DataProperties, HeaderProperties DEF Physical, ScanInv, TypeOK, this
<1>5. \A type : crc_ok /\ record_type = type => Scan!Take(here, type)
  BY <1>2 DEF crc_ok, record_type, Scan!Take, Scan!TypeAt
<1>6. /\ Values(data) = Scan!DataAt(here)
      /\ Values(fragment \o data) = Values(fragment) \o Scan!DataAt(here)
  BY <1>1, <1>4, ValuesData, ValuesConcat
<1>7. /\ HeadersOf(Append(pieces, this)) = Append(HeadersOf(pieces), here)
      /\ HeadersOf(<<this>>) = <<here>>
      /\ <<this>> \in Seq(Piece) /\ Append(pieces, this) \in Seq(Piece)
  <2>1. HeadersOf(<<this>>) = <<here>>
    BY <1>4 DEF HeadersOf
  <2> QED
    BY <1>4, <2>1, HeadersAppend, AppendProperties
<1>8. in_record => HeadersOf(pieces) # <<>>
  <2>1. Len(pieces) > 0 => 1 \in DOMAIN HeadersOf(pieces)
    <3>1. DOMAIN pieces = 1..Len(pieces) /\ Len(pieces) \in Nat
      BY <1>4, LenProperties
    <3> QED
      BY <3>1 DEF HeadersOf
  <2>2. DOMAIN <<>> = {}
    BY EmptySeq
  <2> QED
    BY <2>1, <2>2 DEF PiecesInv, OpenRecord
<1>9. ASSUME NoParse PROVE Handed(calls)' = Handed(calls) /\ Values(batch)' = Values(batch)
  BY <1>9 DEF NoParse, batchVars, Handed, HeadersOf, Values
<1>10. ASSUME NEW buffer, NEW c \in Seq(Piece), Parse(buffer, c)
       PROVE  /\ Handed(calls)' = Append(Handed(calls), HeadersOf(c))
              /\ Values(batch)' = Values(buffer)
  <2>1. Handed(Append(calls, c)) = Append(Handed(calls), HeadersOf(c))
    BY <1>4, HandedAppend
  <2> QED
    BY <1>10, <2>1 DEF Parse, Call, Handed, HeadersOf, Values
<1>11. ASSUME Reset PROVE Scan!Close
  BY <1>11, NothingOpen DEF Reset, Scan!Close, HeadersOf, Values
<1>12. ASSUME Reset, NoParse PROVE Scan!GiveUp
  BY <1>9, <1>11, <1>12 DEF Scan!GiveUp, Handed
<1>13. ASSUME FullRecord PROVE Scan!GiveUp \/ Scan!TakeFull(here)
  <2>1. ASSUME crc_ok, Parse(data, <<this>>) PROVE Scan!TakeFull(here)
    BY <1>5, <1>6, <1>7, <1>10, <1>11, <1>13, <2>1
    DEF FullRecord, Scan!TakeFull, Handed
  <2> QED
    BY <1>12, <1>13, <2>1 DEF FullRecord
<1>14. ASSUME FirstFragment PROVE Scan!GiveUp \/ Scan!TakeFirst(here)
  <2>1. ASSUME crc_ok, fragment' = data, pieces' = <<this>> PROVE Scan!TakeFirst(here)
    <3>1. HeadersOf(pieces)' = <<here>> /\ Values(fragment)' = Scan!DataAt(here)
      BY <1>6, <1>7, <2>1 DEF HeadersOf, Values
    <3> QED
      BY <1>5, <1>9, <1>14, <2>1, <3>1 DEF FirstFragment, Scan!TakeFirst, Handed
  <2> QED
    BY <1>12, <1>14, <2>1 DEF FirstFragment
<1>15. ASSUME MiddleFragment PROVE Scan!GiveUp \/ Scan!TakeMiddle(here)
  <2>1. ASSUME in_record, crc_ok, fragment' = fragment \o data,
               pieces' = Append(pieces, this)
        PROVE  Scan!TakeMiddle(here)
    <3>1. /\ HeadersOf(pieces)' = Append(HeadersOf(pieces), here)
          /\ Values(fragment)' = Values(fragment) \o Scan!DataAt(here)
      BY <1>6, <1>7, <2>1 DEF HeadersOf, Values
    <3> QED
      BY <1>5, <1>8, <1>9, <1>15, <2>1, <3>1 DEF MiddleFragment, Scan!TakeMiddle, Handed
  <2> QED
    BY <1>12, <1>15, <2>1 DEF MiddleFragment
<1>16. ASSUME LastFragment PROVE Scan!GiveUp \/ Scan!TakeLast(here)
  <2>1. ASSUME in_record, crc_ok, Parse(fragment \o data, Append(pieces, this))
        PROVE  Scan!TakeLast(here)
    BY <1>5, <1>6, <1>7, <1>8, <1>10, <1>11, <1>16, <2>1
    DEF LastFragment, Scan!TakeLast, Handed
  <2> QED
    BY <1>12, <1>16, <2>1 DEF LastFragment
<1>17. ASSUME UnknownType PROVE Scan!GiveUp
  BY <1>12, <1>17 DEF UnknownType
<1> QED
  BY <1>3, <1>13, <1>14, <1>15, <1>16, <1>17 DEF PhysicalRecord, Scan!Next

\* Every step of the reader is a step of the scan, or none.
LEMMA ScanImplements ==
    ASSUME ScanInv, PiecesInv, [Next]_vars
    PROVE  [Scan!Next]_Scan!scan
<1>1. ASSUME NextBlock PROVE Scan!Next
  <2>1. Scan!GoOn
    BY <1>1, HereAdvances DEF NextBlock, Scan!GoOn
  <2>2. Scan!PassOver
    BY <1>1 DEF NextBlock, batchVars, Scan!PassOver, HeadersOf, Values
  <2> QED
    BY <2>1, <2>2 DEF Scan!Next
<1>2. ASSUME Batch PROVE Scan!Next
  <2>1. /\ here' = here /\ here \in Nat /\ UNCHANGED file
        /\ UNCHANGED <<HeadersOf(pieces), Values(fragment), Handed(calls)>>
    BY <1>2, HeaderProperties DEF Batch, scanVars, here, ScanInv, TypeOK, HeadersOf,
                                  Values, Handed
  <2>2. Scan!GoOn
    BY <2>1 DEF Scan!GoOn
  <2>3. ASSUME batch' = batch PROVE Scan!PassOver
    BY <2>1, <2>3 DEF Scan!PassOver, Handed, Values
  <2>4. ASSUME Return PROVE Scan!Decoded
    BY <2>1, <2>4, NothingOpen DEF Return, Scan!Decoded, Handed, Values
  <2>5. batch' = batch \/ Return
    BY <1>2, BatchStep DEF Batch, ScanInv, TypeOK, Pushed, ReadHeader
  <2> QED
    BY <2>2, <2>3, <2>4, <2>5 DEF Scan!Next
<1>3. ASSUME UNCHANGED vars PROVE UNCHANGED Scan!scan
  BY <1>3 DEF vars, scanVars, batchVars, Scan!scan, here, HeadersOf, Values
<1> QED
  BY <1>1, <1>2, <1>3, NextKinds, ScanPhysical

\* parse_log implements the abstract scan: on every file, what it decodes is the
\* data of sound records that were opened by a FIRST and joined in file order.
THEOREM ImplementsScan == Spec => ScanSpec
<1>1. Init => ScanInv /\ PiecesInv /\ Scan!Init
  <2>1. ASSUME Init PROVE Scan!Init
    BY <2>1, NothingOpen, EmptySeq DEF Init, Scan!Init, here
  <2>2. Init => ScanInv /\ PiecesInv
    BY InitScan, EmptySeq DEF Init, PiecesInv, OnlyWellFormedRecords
  <2> QED
    BY <2>1, <2>2
<1>2. ScanInv /\ PiecesInv /\ [Next]_vars => (ScanInv /\ PiecesInv)'
  BY ScanStep, PiecesStep
<1>3. ScanInv /\ PiecesInv /\ [Next]_vars => [Scan!Next]_Scan!scan
  BY ScanImplements
<1> QED
  BY <1>1, <1>2, <1>3, PTL DEF Spec, ScanSpec, Scan!Spec
=============================================================================
