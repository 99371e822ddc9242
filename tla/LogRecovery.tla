---------------------------- MODULE LogRecovery -----------------------------
(***************************************************************************)
(* What reading a log back promises about what was written to it: the      *)
(* reader of LogReader over the files LogWriter makes.                     *)
(***************************************************************************)
EXTENDS LogReader, SequencesExt

Writer == INSTANCE LogWriter

ASSUME LogsAreWritten == \A f \in Logs : Writer!IsLog(f)

\* A surfaced record without its provenance.
Content(r) == [key |-> Values(r.key), value |-> Values(r.value),
               seq |-> r.seq, deleted |-> r.deleted]

Surfaced == [n \in DOMAIN records |-> Content(records[n])]

\* The physical records of batch b.
PhysicalOf(b) == {g \in Range(file.physical) : g.batch = b}

Intact(b) == \A g \in PhysicalOf(b) : Writer!Sound(file, g)

\* Length and type are what the writer wrote, as far as the file has them.
HeaderStands(g) == \A at \in {g.at + 1, g.at + 2} \cap file.spoiled : at >= Len(file.val)

\* What the scan goes by tells no lie, in all of the file, in one block.
HeadersStand       == \A g \in Range(file.physical) : HeaderStands(g)
HeadersStandIn(bl) == \A g \in Range(file.physical) :
                          g.at \div BLOCK_SIZE = bl => HeaderStands(g)

\* No byte of the batch is spoiled, and no header in the blocks it lies in.
ClearOfDamage(b) == Intact(b) /\ \A g \in PhysicalOf(b) : HeadersStandIn(g.at \div BLOCK_SIZE)

\* The records of the intact batches, in the order they were written.
IntactRecords ==
    FlattenSeq([b \in DOMAIN file.written |->
                    IF Intact(b) THEN file.written[b].ops ELSE <<>>])

-----------------------------------------------------------------------------
\* While lengths and types hold, whatever else is torn or damaged, the reader
\* surfaces the records of the intact batches, in the order they were written,
\* and nothing else: at every step it has a prefix of them, and all of them when
\* it returns (lib.rs:104-106, log.rs:100-102).  Of a batch that lies about its
\* count or its lengths these are the longest run of ops that can be read, no op
\* less for a length that just fits, none more (log.rs:42-45).
ExactRecovery ==
    HeadersStand => /\ IsPrefix(Surfaced, IntactRecords)
                    /\ Done => Surfaced = IntactRecords

\* However a block is damaged, the reader finds its feet in the next: an intact
\* batch is surfaced in full, and after those before it, if only the headers stand
\* in the blocks it lies in (log.rs:110-113 and 178: every block is scanned from
\* its start).  place[b] is how many records come before those of batch b.
DamageStaysInItsBlocks ==
    Done => \E place \in [DOMAIN file.written -> 0..Len(records)] :
                LET end(b) == place[b] + Len(file.written[b].ops)
                IN  \A b \in DOMAIN file.written : ClearOfDamage(b) =>
                        /\ end(b) <= Len(records)
                        /\ SubSeq(Surfaced, place[b] + 1, end(b)) = file.written[b].ops
                        /\ \A c \in 1..b - 1 : ClearOfDamage(c) => end(c) <= place[b]

\* The format comment (log.rs:7-10): FIRST, MIDDLEs and LAST are one record, and
\* that is one batch.  No surfaced record is made of a batch with a part of it
\* missing, or of parts of two.
OnlyWrittenRecords ==
    \A n \in DOMAIN records :
        \E b \in Range(file.written) : Content(records[n]) \in Range(b.ops)
=============================================================================
