----------------------------- MODULE LogWriter ------------------------------
(***************************************************************************)
(* External: what the log writer of LevelDB leaves on disk, as the format  *)
(* comment of leveldb-core/src/log.rs (lines 3-12) describes it, and the   *)
(* damage a copied log arrives with.                                       *)
(*                                                                         *)
(* A log is a record: val and good as in LogReader; written, the batches,  *)
(* each its payload and ops, the records that stand for it; physical, the  *)
(* physical records they are split into; spoiled, the offsets whose bytes  *)
(* are not what was written.  A physical record is what the header at at   *)
(* says, length and type, and what it holds: length cells of the payload   *)
(* of batch, the one after from and on.                                    *)
(***************************************************************************)
EXTENDS Integers, Sequences, SequencesExt

CONSTANTS BLOCK_SIZE, REC_FULL, REC_FIRST, REC_MIDDLE, REC_LAST,
          OP_DELETE, OP_VALUE, MAX_SEQ

HEADER_SIZE == 3

\* An op: key, value (both sequences of byte values) and deleted.
Encode(op) ==
    IF op.deleted
    THEN <<OP_DELETE, Len(op.key)>> \o op.key
    ELSE <<OP_VALUE, Len(op.key)>> \o op.key \o <<Len(op.value)>> \o op.value

Encoded(ops) == FlattenSeq([k \in DOMAIN ops |-> Encode(ops[k])])

\* The ops whose encoding may begin after the first m cells of payload.
Encodable(payload, m) ==
    LET parts == {SubSeq(payload, i, j) : i \in m + 3..Len(payload) + 1, j \in m..Len(payload)}
    IN  [key : parts, value : parts, deleted : {FALSE}]
          \cup [key : parts, value : {<<>>}, deleted : {TRUE}]

\* The ops of a payload are as many as its second cell promises, or the longest
\* run that can be read, numbered from its first.
Holds(payload, ops) ==
    IF Len(payload) < 2
    THEN ops = <<>>
    ELSE LET before == SubSeq(payload, 1, 2) \o Encoded(ops)
             whole(op) == IsPrefix(before \o Encode(op), payload)
         IN  /\ Len(ops) <= payload[2]
             /\ IsPrefix(before, payload)
             /\ Len(ops) = payload[2] \/ \A op \in Encodable(payload, Len(before)) : ~whole(op)
             /\ \A k \in DOMAIN ops :
                   LET n == payload[1] + k - 1
                   IN  /\ ops[k].seq = IF n > MAX_SEQ THEN MAX_SEQ ELSE n
                       /\ ops[k].deleted => ops[k].value = <<>>

Opens(g)  == g.type \in {REC_FULL, REC_FIRST}
Closes(g) == g.type \in {REC_FULL, REC_LAST}

End(g)    == g.at + HEADER_SIZE + g.length
Extent(g) == g.at..End(g) - 1

\* Where a header can stand that is to come at at: what is left of a block is
\* passed over when it is less than a header.
HeaderPlace(at) ==
    LET left == BLOCK_SIZE - (at % BLOCK_SIZE)
    IN  IF left < HEADER_SIZE THEN at + left ELSE at

\* What stands before the first physical record.
Nothing == [batch |-> 0, from |-> 0, length |-> 0, at |-> -HEADER_SIZE, type |-> REC_FULL]

\* The physical record before the q-th.
Previous(log, q) == IF q = 1 THEN Nothing ELSE log.physical[q - 1]

\* Physical record q stands where it should and holds what it should.
Follows(log, q) ==
    LET p == Previous(log, q)
        g == log.physical[q]
    IN  /\ g.at = HeaderPlace(End(p))
        /\ (g.at % BLOCK_SIZE) + HEADER_SIZE + g.length <= BLOCK_SIZE
        /\ Opens(g) = Closes(p)
        /\ g.batch = IF Closes(p) THEN p.batch + 1 ELSE p.batch
        /\ g.from = IF Closes(p) THEN 0 ELSE p.from + p.length
        /\ g.batch <= Len(log.written)
        /\ g.from + g.length <= Len(log.written[g.batch].payload)
        /\ Closes(g) => g.from + g.length = Len(log.written[g.batch].payload)

\* No byte of a physical record has changed.
Sound(log, g) == Extent(g) \cap log.spoiled = {}

\* The cell that was written at offset o of physical record g, its checksum aside.
CellAt(log, g, o) ==
    IF o = g.at + 1 THEN g.length
    ELSE IF o = g.at + 2 THEN g.type
    ELSE log.written[g.batch].payload[g.from + o - g.at - 2]

Batch    == [payload : Seq(Nat),
             ops : Seq([key : Seq(Nat), value : Seq(Nat), seq : Nat, deleted : BOOLEAN])]
Physical == [batch : Nat, from : Nat, length : Nat, at : Nat,
             type : {REC_FULL, REC_FIRST, REC_MIDDLE, REC_LAST}]

\* The log holds what was written, but for what is spoiled: it may end early, and
\* zeros may follow.  No checksum over a changed byte holds.
IsLog(log) ==
    LET n == Len(log.physical)
        l == Previous(log, n + 1)
    IN  /\ log.written \in Seq(Batch) /\ log.physical \in Seq(Physical)
        /\ \A b \in DOMAIN log.written : Holds(log.written[b].payload, log.written[b].ops)
        /\ \A q \in 1..n : Follows(log, q)
        /\ Closes(l) /\ l.batch = Len(log.written)
        /\ \A q \in 1..n : LET g == log.physical[q] IN
              \A o \in Extent(g) \ log.spoiled :
                  /\ o < Len(log.val)
                  /\ o # g.at => log.val[o + 1] = CellAt(log, g, o)
        /\ \A o \in End(l)..Len(log.val) - 1 : log.val[o + 1] = 0
        /\ log.good = {g.at : g \in {p \in Range(log.physical) : Sound(log, p)}}

-----------------------------------------------------------------------------
(* Damage.  Every kind names the offsets whose bytes it changes.           *)

\* No checksum over a changed byte holds.
Spoil(log, S) ==
    LET spoilt == [log EXCEPT !.spoiled = @ \cup S]
    IN  [spoilt EXCEPT !.good = {g.at : g \in {p \in Range(log.physical) : Sound(spoilt, p)}}]

BlockEnd(log, at) == LET e == (at \div BLOCK_SIZE + 1) * BLOCK_SIZE
                     IN  IF e < Len(log.val) THEN e ELSE Len(log.val)

\* The data under the header at h no longer matches its checksum.
FlipData(log, h) == Spoil(log, {h})

\* A writer caught in the middle of an append, or a crash: a prefix is there.
Torn(log, n) == [Spoil(log, n..Len(log.val) - 1) EXCEPT !.val = SubSeq(@, 1, n)]

\* The file is preallocated beyond what was written.
Preallocated(log, n) == [log EXCEPT !.val = @ \o [k \in 1..n |-> 0]]

\* The length, the type of the header at h reads n.
ForgeLength(log, h, n) == [Spoil(log, {h, h + 1}) EXCEPT !.val[h + 2] = n]
ForgeType(log, h, t)   == [Spoil(log, {h, h + 2}) EXCEPT !.val[h + 3] = t]

\* The rest of the block reads as zeros from at on: a sector never written.
ZeroSpan(log, at) ==
    LET span == {o \in at..BlockEnd(log, at) - 1 : log.val[o + 1] # 0}
    IN  [Spoil(log, span) EXCEPT
            !.val = [k \in DOMAIN @ |-> IF k - 1 \in span THEN 0 ELSE @[k]]]
=============================================================================
