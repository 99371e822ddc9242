------------------------------ MODULE Sstable -------------------------------
(***************************************************************************)
(* parse_table of leveldb-core/src/sstable.rs: footer, index block, data   *)
(* blocks, the prefix decoder that serves both kinds of block, and the     *)
(* split of the internal keys.                                             *)
(*                                                                         *)
(* A file is a sequence of cells, one for each varint or fixed-width       *)
(* field and one for each byte of a key or a value; a varint that does not *)
(* decode is the cell BadVarint.  Which regions pass their CRC test (good) *)
(* and what the Snappy ones inflate to (inflated) is part of the file.     *)
(***************************************************************************)
EXTENDS Integers, Sequences, SequencesExt

CONSTANTS Tables,               \* the files the reader may be given
          TABLE_MAGIC,
          COMPRESSION_NONE,
          COMPRESSION_SNAPPY,
          TYPE_DELETION,
          MAX_U32,
          MAX_DECOMPRESSED_BLOCK

BadVarint == -1

FOOTER_LEN           == 5   \* two handles of two cells, the magic
BLOCK_TRAILER_LEN    == 2   \* the compression type, the crc
INTERNAL_KEY_TRAILER == 2   \* the value type, the sequence number

ASSUME TablesAssumption ==
    \A t \in Tables : /\ t.buf \in Seq(Nat \cup {BadVarint})
                      /\ \A h \in DOMAIN t.inflated : t.inflated[h] \in Seq(Nat \cup {BadVarint})

VARIABLES table,        \* buf, which the reader never changes
          phase,        \* "footer", "index", "next", "data", "ok" or "err"
          error,        \* the variant of Error returned, or "none"
          handles,      \* the values of the index entries not yet followed
          block,        \* the entries of the block under the decoder
          cur,          \* the cursor in them
          prev_key,
          entries,      \* what the decoder has of the block
          records

vars == <<table, phase, error, handles, block, cur, prev_key, entries, records>>

Byte == Nat \cup {BadVarint}

ErrorKinds == {"UnexpectedEof", "BadVarint", "LengthOutOfRange", "BadTableMagic",
               "BadBlockCrc", "UnknownCompression"}

TypeOK ==
    /\ table.buf \in Seq(Byte)
    /\ phase \in {"footer", "index", "next", "data", "ok", "err"}
    /\ error \in ErrorKinds \cup {"none"}
    /\ handles \in Seq(Seq(Byte))
    /\ block \in Seq(Byte)
    /\ cur \in 0..Len(block)
    /\ prev_key \in Seq(Byte)
    /\ entries \in Seq([key : Seq(Byte), value : Seq(Byte)])
    /\ records \in Seq([key : Seq(Byte), value : Seq(Byte), seq : Byte, deleted : BOOLEAN])

-----------------------------------------------------------------------------
(* Handles, the footer and read_block.                                     *)

IsHandle(cells) == Len(cells) >= 2 /\ BadVarint \notin {cells[1], cells[2]}

BlockHandle(cells) == [offset |-> cells[1], size |-> cells[2]]

Footer == SubSeq(table.buf, Len(table.buf) - FOOTER_LEN + 1, Len(table.buf))

FooterReads == /\ Len(table.buf) >= FOOTER_LEN
               /\ Footer[FOOTER_LEN] = TABLE_MAGIC
               /\ IsHandle(Footer)
               /\ IsHandle(SubSeq(Footer, 3, 4))

FooterError == IF Len(table.buf) < FOOTER_LEN             THEN "UnexpectedEof"
               ELSE IF Footer[FOOTER_LEN] # TABLE_MAGIC   THEN "BadTableMagic"
               ELSE "BadVarint"

IndexHandle == SubSeq(Footer, 3, 4)

Compression(h) == table.buf[h.offset + h.size + 1]

InFile(h) == h.offset + h.size + BLOCK_TRAILER_LEN <= Len(table.buf)

Inflates(h) == /\ h \in DOMAIN table.inflated
               /\ Len(table.inflated[h]) <= MAX_DECOMPRESSED_BLOCK

\* read_block(h) returns Ok.
BlockReads(h) ==
    /\ InFile(h)
    /\ h \in table.good
    /\ \/ Compression(h) = COMPRESSION_NONE
       \/ Compression(h) = COMPRESSION_SNAPPY /\ Inflates(h)

\* Mutant: the compression type is looked at before the crc that covers it.
TypeBeforeCrc(h) ==
    IF ~InFile(h) THEN "LengthOutOfRange"
    ELSE IF Compression(h) \notin {COMPRESSION_NONE, COMPRESSION_SNAPPY} THEN "UnknownCompression"
    ELSE IF h \notin table.good THEN "BadBlockCrc"
    ELSE "LengthOutOfRange"

\* What it returns instead: region in the file, crc, compression, in that order.
BlockError(h) ==
    IF ~InFile(h) THEN "LengthOutOfRange"
    ELSE IF h \notin table.good THEN "BadBlockCrc"
    ELSE IF Compression(h) \notin {COMPRESSION_NONE, COMPRESSION_SNAPPY} THEN "UnknownCompression"
    ELSE "LengthOutOfRange"

Body(h) == IF Compression(h) = COMPRESSION_NONE
           THEN SubSeq(table.buf, h.offset + 1, h.offset + h.size)
           ELSE table.inflated[h]

\* The restart array at the end of a block fits in it.
RestartsFit(b) == Len(b) > 0 /\ b[Len(b)] \in 0..Len(b) - 1

Entries(b) == SubSeq(b, 1, Len(b) - 1 - b[Len(b)])

\* The cells of an index value lead to a block the decoder can start on.
Leads(cells) == /\ IsHandle(cells)
                /\ BlockReads(BlockHandle(cells))
                /\ RestartsFit(Body(BlockHandle(cells)))

LeadError(cells) ==
    LET h == BlockHandle(cells)
    IN  IF ~IsHandle(cells) THEN "BadVarint"
        ELSE IF ~BlockReads(h) THEN BlockError(h)
        ELSE IF Len(Body(h)) = 0 THEN "UnexpectedEof"
        ELSE "LengthOutOfRange"

Open(cells) == /\ block' = Entries(Body(BlockHandle(cells)))
               /\ cur' = 0
               /\ prev_key' = <<>>
               /\ entries' = <<>>

-----------------------------------------------------------------------------
(* The entry under the cursor of parse_block_entries.                      *)

shared     == block[cur + 1]
non_shared == block[cur + 2]
value_len  == block[cur + 3]

\* read_varint_u32 returns Ok.
Varint32(cell) == cell \in 0..MAX_U32

LengthsRead == /\ cur + 3 <= Len(block)
               /\ Varint32(shared) /\ Varint32(non_shared) /\ Varint32(value_len)

EntryReads == /\ LengthsRead
              /\ shared <= Len(prev_key)
              /\ cur + 3 + non_shared + value_len <= Len(block)

EntryError == IF ~LengthsRead                    THEN "BadVarint"
              ELSE IF shared > Len(prev_key)     THEN "LengthOutOfRange"
              ELSE "UnexpectedEof"

\* Mutant: the shared prefix is forgotten.
KeyWithoutPrefix == SubSeq(block, cur + 4, cur + 3 + non_shared)

key_delta == SubSeq(block, cur + 4, cur + 3 + non_shared)
value     == SubSeq(block, cur + 4 + non_shared, cur + 3 + non_shared + value_len)
key       == SubSeq(prev_key, 1, shared) \o key_delta

\* split_internal_key, and the record made of its parts.
HasTrailer(e) == Len(e.key) >= INTERNAL_KEY_TRAILER

Record(e) ==
    LET n == Len(e.key) - INTERNAL_KEY_TRAILER
    IN  [key     |-> SubSeq(e.key, 1, n),
         value   |-> e.value,
         seq     |-> e.key[n + 2],
         deleted |-> e.key[n + 1] = TYPE_DELETION]

Records(es) ==
    FlattenSeq([k \in DOMAIN es |-> IF HasTrailer(es[k]) THEN <<Record(es[k])>> ELSE <<>>])

-----------------------------------------------------------------------------
Init == /\ table \in Tables
        /\ phase = "footer"
        /\ error = "none"
        /\ handles = <<>>
        /\ block = <<>>
        /\ cur = 0
        /\ prev_key = <<>>
        /\ entries = <<>>
        /\ records = <<>>

\* Any error is the error of the whole table: the records are dropped.
Fail(kind) == /\ phase' = "err"
              /\ error' = kind
              /\ records' = <<>>
              /\ UNCHANGED <<table, handles, block, cur, prev_key, entries>>

ReadFooter == /\ phase = "footer"
              /\ FooterReads
              /\ Leads(IndexHandle)
              /\ Open(IndexHandle)
              /\ phase' = "index"
              /\ UNCHANGED <<table, error, handles, records>>

BadFooter == /\ phase = "footer"
             /\ \/ ~FooterReads /\ Fail(FooterError)
                \/ FooterReads /\ ~Leads(IndexHandle) /\ Fail(LeadError(IndexHandle))

\* Mutant: the cursor is left one cell too far.
EntryTooFar == /\ phase \in {"index", "data"}
               /\ cur < Len(block)
               /\ EntryReads
               /\ entries' = Append(entries, [key |-> key, value |-> value])
               /\ prev_key' = key
               /\ cur' = cur + 4 + non_shared + value_len
               /\ UNCHANGED <<table, phase, error, handles, block, records>>

Entry == /\ phase \in {"index", "data"}
         /\ cur < Len(block)
         /\ EntryReads
         /\ entries' = Append(entries, [key |-> key, value |-> value])
         /\ prev_key' = key
         /\ cur' = cur + 3 + non_shared + value_len
         /\ UNCHANGED <<table, phase, error, handles, block, records>>

\* Mutant: a malformed entry is tried again.
BadEntryContinues == /\ phase \in {"index", "data"}
                     /\ cur < Len(block)
                     /\ ~EntryReads
                     /\ UNCHANGED vars

BadEntry == /\ phase \in {"index", "data"}
            /\ cur < Len(block)
            /\ ~EntryReads
            /\ Fail(EntryError)

EndOfIndex == /\ phase = "index"
              /\ cur = Len(block)
              /\ handles' = [k \in DOMAIN entries |-> entries[k].value]
              /\ phase' = "next"
              /\ UNCHANGED <<table, error, block, cur, prev_key, entries, records>>

\* Entries whose key is too short for its trailer are dropped.
EndOfData == /\ phase = "data"
             /\ cur = Len(block)
             /\ records' = records \o Records(entries)
             /\ phase' = "next"
             /\ UNCHANGED <<table, error, handles, block, cur, prev_key, entries>>

NextData == /\ phase = "next"
            /\ handles # <<>>
            /\ Leads(Head(handles))
            /\ Open(Head(handles))
            /\ handles' = Tail(handles)
            /\ phase' = "data"
            /\ UNCHANGED <<table, error, records>>

\* Mutant: a block that cannot be read is skipped.
SkipBlock == /\ phase = "next"
             /\ handles # <<>>
             /\ ~Leads(Head(handles))
             /\ handles' = Tail(handles)
             /\ UNCHANGED <<table, phase, error, block, cur, prev_key, entries, records>>

BadData == /\ phase = "next"
           /\ handles # <<>>
           /\ ~Leads(Head(handles))
           /\ Fail(LeadError(Head(handles)))

AllBlocks == /\ phase = "next"
             /\ handles = <<>>
             /\ phase' = "ok"
             /\ UNCHANGED <<table, error, handles, block, cur, prev_key, entries, records>>

Returned == phase \in {"ok", "err"}

Finished == Returned /\ UNCHANGED vars

Next == \/ ReadFooter
        \/ BadFooter
        \/ Entry
        \/ BadEntry
        \/ EndOfIndex
        \/ EndOfData
        \/ NextData
        \/ BadData
        \/ AllBlocks
        \/ Finished

Spec == Init /\ [][Next]_vars

\* The reader is one thread that never waits.
FairSpec == Spec /\ WF_vars(Next)

\* The parse of any file returns, whatever the lengths and handles in it say.
Terminates == <>Returned
=============================================================================
