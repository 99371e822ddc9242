----------------------------- MODULE WriteBatch -----------------------------
(***************************************************************************)
(* parse_write_batch of leveldb-core/src/log.rs: the best-effort decoder   *)
(* of one reassembled WriteBatch.                                          *)
(*                                                                         *)
(* A buffer is a sequence of cells.  A cell carries its value and its      *)
(* provenance, the offset of the log file it was copied from, so that what *)
(* a record is made of can be traced back to the file.  One cell stands    *)
(* for one field of fixed or varint width (sequence number, count, op      *)
(* type, length prefix) or for one byte of a key or a value.               *)
(***************************************************************************)
EXTENDS Integers, Sequences

CONSTANTS MAX_SEQ,      \* u64::MAX, where the sequence numbers saturate
          OP_DELETE,    \* op type of a deletion
          OP_VALUE      \* op type of a put

ASSUME BatchAssumption ==
    /\ MAX_SEQ \in Nat
    /\ OP_DELETE \in Nat
    /\ OP_VALUE \in Nat
    /\ OP_DELETE # OP_VALUE

VARIABLES call,     \* where the call stands: "idle", "header" or "ops"
          batch,    \* the buffer of the call
          cur,      \* the cursor: how many cells of batch are consumed
          op_index, \* the op counter of the loop
          records   \* the output of every call so far

batchVars == <<call, batch, cur, op_index, records>>

Cell == [at : Nat, val : Nat]

Record == [key : Seq(Cell), value : Seq(Cell), seq : 0..MAX_SEQ,
           deleted : BOOLEAN]

\* The offsets of the file that cells, that a record, were copied from.
At(cells)  == {cells[k].at : k \in DOMAIN cells}
Offsets(r) == At(r.key) \cup At(r.value)

BatchTypeOK ==
    /\ call \in {"idle", "header", "ops"}
    /\ batch \in Seq(Cell)
    /\ cur \in 0..Len(batch)
    /\ op_index \in Nat
    /\ records \in Seq(Record)

-----------------------------------------------------------------------------
(* The cursor of bytes.rs, positioned after the first c cells of batch.    *)

BATCH_HEADER_LEN == 2   \* the cell of the sequence number, the cell of the count

Remaining(c) == Len(batch) - c

\* read_length_prefixed succeeds: there is a length, and it is no lie.
Prefixed(c) == /\ Remaining(c) > 0
               /\ batch[c + 1].val <= Remaining(c + 1)

\* The slice read_length_prefixed returns, and the cursor it leaves.
Slice(c)  == SubSeq(batch, c + 2, c + 1 + batch[c + 1].val)
Beyond(c) == c + 1 + batch[c + 1].val

base_seq == batch[1].val
count    == batch[2].val

\* Mutant: wrapping_add for saturating_add.
Wrapping(n) == n % (MAX_SEQ + 1)

Saturating(n) == IF n > MAX_SEQ THEN MAX_SEQ ELSE n

-----------------------------------------------------------------------------
(* parse_write_batch(buffer).                                              *)

Call(buffer) == /\ call' = "header"
                /\ batch' = buffer
                /\ cur' = 0
                /\ op_index' = 0
                /\ UNCHANGED records

\* The buffer is a temporary of the call: it is gone when the call returns.
Return == /\ call' = "idle"
          /\ batch' = <<>>
          /\ cur' = 0
          /\ op_index' = 0
          /\ UNCHANGED records

\* Too short to hold a batch header.
TooShort == /\ call = "header"
            /\ Len(batch) < BATCH_HEADER_LEN
            /\ Return

ReadHeader == /\ call = "header"
              /\ Len(batch) >= BATCH_HEADER_LEN
              /\ call' = "ops"
              /\ cur' = BATCH_HEADER_LEN
              /\ UNCHANGED <<batch, op_index, records>>

\* The op type at the cursor is t, inside the promised count of ops.
NextOp(t) == /\ call = "ops"
             /\ op_index < count
             /\ Remaining(cur) > 0
             /\ batch[cur + 1].val = t

\* Pushes one record and goes round the loop with the cursor at c.
Push(key, value, deleted, c) ==
    /\ records' = Append(records, [key     |-> key,
                                   value   |-> value,
                                   seq     |-> Saturating(base_seq + op_index),
                                   deleted |-> deleted])
    /\ cur' = c
    /\ op_index' = op_index + 1
    /\ UNCHANGED <<call, batch>>

ReadableValue == /\ Prefixed(cur + 1)
                 /\ Prefixed(Beyond(cur + 1))

PutOp == /\ NextOp(OP_VALUE)
         /\ ReadableValue
         /\ Push(Slice(cur + 1), Slice(Beyond(cur + 1)), FALSE,
                 Beyond(Beyond(cur + 1)))

DeleteOp == /\ NextOp(OP_DELETE)
            /\ Prefixed(cur + 1)
            /\ Push(Slice(cur + 1), <<>>, TRUE, Beyond(cur + 1))

\* The loop has run count times.
AllOps == /\ call = "ops"
          /\ op_index >= count
          /\ Return

\* Mutant: an inconsistency is skipped, not the end of the call.
SkipInconsistent == /\ call = "ops"
                    /\ op_index < count
                    /\ ~(NextOp(OP_VALUE) /\ ReadableValue)
                    /\ ~(NextOp(OP_DELETE) /\ Prefixed(cur + 1))
                    /\ op_index' = op_index + 1
                    /\ UNCHANGED <<call, batch, cur, records>>

\* The first structural inconsistency: no op type, an unknown one, or a key or
\* a value whose length prefix is missing or exceeds what remains.
Inconsistent == /\ call = "ops"
                /\ op_index < count
                /\ ~(NextOp(OP_VALUE) /\ ReadableValue)
                /\ ~(NextOp(OP_DELETE) /\ Prefixed(cur + 1))
                /\ Return

BatchNext == \/ TooShort
             \/ ReadHeader
             \/ PutOp
             \/ DeleteOp
             \/ AllOps
             \/ Inconsistent

-----------------------------------------------------------------------------
\* A count of billions over a few bytes does not keep the loop going: what an
\* iteration reads pays for it with two cells (log.rs:58-62).
CountIsNotTrusted == call = "ops" => 2 * op_index <= cur - BATCH_HEADER_LEN

\* Sequence numbers never wrap: of two records of a batch, sound or spliced, the
\* later has the greater number, until u64::MAX is reached (log.rs:63).
SeqNeverWraps ==
    call = "ops" => \A m, n \in Len(records) - op_index + 1..Len(records) :
        m < n => records[m].seq < records[n].seq \/ records[n].seq = MAX_SEQ
=============================================================================
