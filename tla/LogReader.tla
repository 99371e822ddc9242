----------------------------- MODULE LogReader ------------------------------
(***************************************************************************)
(* parse_log of leveldb-core/src/log.rs: the scan of a write-ahead log in  *)
(* blocks, the reassembly of logical records from FULL / FIRST / MIDDLE /  *)
(* LAST fragments, and the hand-over of each to parse_write_batch          *)
(* (WriteBatch).                                                           *)
(*                                                                         *)
(* A file is what the code takes of its bytes: the value of every cell,    *)
(* and the set of offsets where the header and the data after it pass the  *)
(* CRC test.  A physical header is three cells (stored_crc, length,        *)
(* record_type) where the file has 4 + 2 + 1 bytes.  Offsets count cells   *)
(* from 0, as the slices of the code do.                                   *)
(***************************************************************************)
EXTENDS WriteBatch

CONSTANTS Logs,         \* the files the reader may be given
          BLOCK_SIZE,
          REC_FULL,
          REC_FIRST,
          REC_MIDDLE,
          REC_LAST

HEADER_SIZE == 3

ASSUME BlockAssumption == BLOCK_SIZE \in Nat /\ BLOCK_SIZE > HEADER_SIZE

ASSUME RecordTypeAssumption ==
    /\ {REC_FULL, REC_FIRST, REC_MIDDLE, REC_LAST} \subseteq Nat \ {0}
    /\ REC_FULL \notin {REC_FIRST, REC_MIDDLE, REC_LAST}
    /\ REC_FIRST \notin {REC_MIDDLE, REC_LAST}
    /\ REC_MIDDLE # REC_LAST

ASSUME LogsAssumption ==
    \A f \in Logs : f.val \in Seq(Nat) /\ f.good \in SUBSET Nat

VARIABLES file,         \* buf, which the reader never changes
          block_start,
          pos,          \* offset in the block
          fragment,     \* the data reassembled so far
          in_record,
          pieces,       \* history: the physical records fragment is made of
          calls         \* history: of what each parsed buffer was made

scanVars == <<file, block_start, pos, fragment, in_record, pieces, calls>>
vars     == <<scanVars, batchVars>>

\* History: where a physical record lies and what it claims to be.
Piece == [at : Nat, type : Nat, good : BOOLEAN]

TypeOK ==
    /\ BatchTypeOK
    /\ file.val \in Seq(Nat)
    /\ file.good \in SUBSET Nat
    /\ block_start \in 0..Len(file.val)
    /\ pos \in 0..BLOCK_SIZE
    /\ fragment \in Seq(Cell)
    /\ in_record \in BOOLEAN
    /\ pieces \in Seq(Piece)
    /\ calls \in Seq(Seq(Piece))

-----------------------------------------------------------------------------
(* The block at block_start, and the header at pos in it.                  *)

block_end == IF block_start + BLOCK_SIZE < Len(file.val)
             THEN block_start + BLOCK_SIZE
             ELSE Len(file.val)

block_len == block_end - block_start

here        == block_start + pos
stored_crc  == file.val[here + 1]
length      == file.val[here + 2]
record_type == file.val[here + 3]
crc_ok      == here \in file.good

data_end == pos + HEADER_SIZE + length

Bytes(from, n) ==
    [k \in 1..n |-> [at |-> from + k - 1, val |-> file.val[from + k]]]

data == Bytes(here + HEADER_SIZE, length)

\* The physical record under the cursor.
this == [at |-> here, type |-> record_type, good |-> crc_ok]

ZeroHeader == record_type = 0 /\ length = 0 /\ stored_crc = 0

-----------------------------------------------------------------------------
Init == /\ file \in Logs
        /\ block_start = 0
        /\ pos = 0
        /\ fragment = <<>>
        /\ in_record = FALSE
        /\ pieces = <<>>
        /\ calls = <<>>
        /\ call = "idle"
        /\ batch = <<>>
        /\ cur = 0
        /\ op_index = 0
        /\ records = <<>>

Scanning == call = "idle" /\ block_start < Len(file.val)

\* Mutant: no header in the last cells of a block.
HeaderFitsStrictly == pos + HEADER_SIZE < block_len

HeaderFits == pos + HEADER_SIZE <= block_len

\* Mutant: the start of the next block is not clamped to the file.
NextBlockUnclamped == /\ block_start' = block_start + BLOCK_SIZE
                      /\ pos' = 0
                      /\ UNCHANGED <<file, fragment, in_record, pieces, calls, batchVars>>

NextBlock == /\ block_start' = block_end
             /\ pos' = 0
             /\ UNCHANGED <<file, fragment, in_record, pieces, calls, batchVars>>

\* Fewer bytes than a header are left of the block: padding.
EndOfBlock == /\ Scanning
              /\ ~HeaderFits
              /\ NextBlock

\* Mutant: a zero header is passed over by its length.
PaddingByLength == /\ Scanning
                   /\ HeaderFits
                   /\ ZeroHeader
                   /\ pos' = pos + length
                   /\ UNCHANGED <<file, block_start, fragment, in_record, pieces, calls, batchVars>>

\* A zero header: the rest of the block is taken for preallocated space.
Padding == /\ Scanning
           /\ HeaderFits
           /\ ZeroHeader
           /\ NextBlock

\* Mutant: a lying length ends the scan of the file.
AbandonFile == /\ Scanning
               /\ HeaderFits
               /\ ~ZeroHeader
               /\ data_end > block_len
               /\ block_start' = Len(file.val)
               /\ pos' = 0
               /\ UNCHANGED <<file, fragment, in_record, pieces, calls, batchVars>>

\* Truncated, or a length that lies: the rest of the block is abandoned.
LyingLength == /\ Scanning
               /\ HeaderFits
               /\ ~ZeroHeader
               /\ data_end > block_len
               /\ NextBlock

\* A physical record whose type satisfies the guard of its action is consumed.
Physical == /\ Scanning
            /\ HeaderFits
            /\ ~ZeroHeader
            /\ data_end <= block_len
            /\ pos' = data_end
            /\ UNCHANGED <<file, block_start>>

Reset == /\ fragment' = <<>>
         /\ in_record' = FALSE
         /\ pieces' = <<>>

Parse(buffer, made_of) == /\ Call(buffer)
                          /\ calls' = Append(calls, made_of)

NoParse == UNCHANGED <<calls, batchVars>>

FullRecord == /\ Physical
              /\ record_type = REC_FULL
              /\ Reset
              /\ \/ crc_ok /\ Parse(data, <<this>>)
                 \/ ~crc_ok /\ NoParse

\* Mutant: a FIRST is appended to what was left of an earlier record.
FirstAppends == /\ Physical
                /\ record_type = REC_FIRST
                /\ NoParse
                /\ \/ /\ crc_ok
                      /\ fragment' = fragment \o data
                      /\ in_record' = TRUE
                      /\ pieces' = <<this>>
                   \/ ~crc_ok /\ Reset

FirstFragment == /\ Physical
                 /\ record_type = REC_FIRST
                 /\ NoParse
                 /\ \/ /\ crc_ok
                       /\ fragment' = data
                       /\ in_record' = TRUE
                       /\ pieces' = <<this>>
                    \/ ~crc_ok /\ Reset

\* Mutant: the checksum of a MIDDLE is not looked at.
MiddleUnchecked == /\ Physical
                   /\ record_type = REC_MIDDLE
                   /\ NoParse
                   /\ \/ /\ in_record
                         /\ fragment' = fragment \o data
                         /\ pieces' = Append(pieces, this)
                         /\ UNCHANGED in_record
                      \/ ~in_record /\ Reset

MiddleFragment == /\ Physical
                  /\ record_type = REC_MIDDLE
                  /\ NoParse
                  /\ \/ /\ in_record /\ crc_ok
                        /\ fragment' = fragment \o data
                        /\ pieces' = Append(pieces, this)
                        /\ UNCHANGED in_record
                     \/ ~(in_record /\ crc_ok) /\ Reset

\* Mutant: a LAST is parsed without a FIRST before it.
LastAlone == /\ Physical
             /\ record_type = REC_LAST
             /\ Reset
             /\ \/ /\ crc_ok
                   /\ Parse(fragment \o data, Append(pieces, this))
                \/ ~crc_ok /\ NoParse

\* Mutant: the fragment is kept when it has been parsed.
LastKeepsFragment == /\ Physical
                     /\ record_type = REC_LAST
                     /\ \/ /\ in_record /\ crc_ok
                           /\ Parse(fragment \o data, Append(pieces, this))
                           /\ UNCHANGED <<fragment, in_record, pieces>>
                        \/ ~(in_record /\ crc_ok) /\ Reset /\ NoParse

LastFragment == /\ Physical
                /\ record_type = REC_LAST
                /\ Reset
                /\ \/ /\ in_record /\ crc_ok
                      /\ Parse(fragment \o data, Append(pieces, this))
                   \/ ~(in_record /\ crc_ok) /\ NoParse

\* An unknown fragment type: reassembly starts over, the scan goes on.
UnknownType == /\ Physical
               /\ record_type \notin {REC_FULL, REC_FIRST, REC_MIDDLE, REC_LAST}
               /\ Reset
               /\ NoParse

\* parse_write_batch runs to its return before the scan goes on.
Batch == BatchNext /\ UNCHANGED scanVars

Done == call = "idle" /\ block_start >= Len(file.val)

\* parse_log has returned.
Finished == Done /\ UNCHANGED vars

Next == \/ EndOfBlock
        \/ Padding
        \/ LyingLength
        \/ FullRecord
        \/ FirstFragment
        \/ MiddleFragment
        \/ LastFragment
        \/ UnknownType
        \/ Batch
        \/ Finished

Spec == Init /\ [][Next]_vars

\* The reader is one thread that never waits.
Fairness == WF_vars(Next)

FairSpec == Spec /\ Fairness

-----------------------------------------------------------------------------
(* Properties of the reader, whatever the file holds.                      *)

\* at lies in the data of a physical record that passes its CRC test.
Verified(at) == \E h \in file.good :
                    /\ h + HEADER_SIZE <= at
                    /\ at < h + HEADER_SIZE + file.val[h + 2]

\* Every byte of every surfaced record was covered by a checksum that held
\* (log.rs:135-174: damaged data may be lost, it is never surfaced).
OnlyVerifiedBytes ==
    \A r \in DOMAIN records : \A at \in Offsets(records[r]) : Verified(at)

\* What parse_write_batch is handed is one FULL record, or a FIRST, any number
\* of MIDDLEs and a LAST in file order, and every one of them is sound
\* (log.rs:6-10 and 137-169).
WellFormed(c) ==
    /\ Len(c) > 0
    /\ \A k \in DOMAIN c : c[k].good
    /\ \A j, k \in DOMAIN c : j < k => c[j].at < c[k].at
    /\ \/ Len(c) = 1 /\ c[1].type = REC_FULL
       \/ /\ Len(c) > 1
          /\ c[1].type = REC_FIRST
          /\ c[Len(c)].type = REC_LAST
          /\ \A k \in 2..Len(c) - 1 : c[k].type = REC_MIDDLE

OnlyWellFormedRecords == \A n \in DOMAIN calls : WellFormed(calls[n])

\* No byte of the file is surfaced twice, and the records come out in the order
\* of their bytes in the file: no stale fragment is parsed again.
Before(S, T) == \A x \in S, y \in T : x < y

EachByteOnce ==
    \A r \in DOMAIN records :
        /\ Before(At(records[r].key), At(records[r].value))
        /\ \A s \in 1..r - 1 : Before(Offsets(records[s]), Offsets(records[r]))

\* Seen from the format, the reader is a scan of RecordScan: it never goes back,
\* and what it decodes is the data of a record that was opened and joined in order,
\* byte by byte and once, whatever damaged records, lying lengths and padding lie
\* between the fragments (log.rs:3-12 and 135-175).
Values(cells) == [k \in DOMAIN cells |-> cells[k].val]
HeadersOf(c)  == [k \in DOMAIN c |-> c[k].at]

Scan == INSTANCE RecordScan WITH
            reached  <- here,
            open     <- HeadersOf(pieces),
            gathered <- Values(fragment),
            handed   <- [n \in DOMAIN calls |-> HeadersOf(calls[n])],
            buffer   <- Values(batch)

ScanSpec == Scan!Spec

\* The scan of any file ends: no lying length or count keeps the reader going.
Terminates == <>Done
=============================================================================
