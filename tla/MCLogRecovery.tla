--------------------------- MODULE MCLogRecovery ----------------------------
(***************************************************************************)
(* Instances of LogRecovery: logs of up to MaxBatches batches in blocks of *)
(* eight cells, so that a batch takes one to three physical records, with  *)
(* the damage each run asks about; and logs of one forged batch.           *)
(***************************************************************************)
EXTENDS LogRecovery, FiniteSetsExt

CONSTANTS MaxBatches,   \* bound on the batches of a log
          MaxCells      \* bound on the cells of a forged batch after its header

Put(k, v) == [key |-> k, value |-> v, deleted |-> FALSE]
Del(k)    == [key |-> k, value |-> <<>>, deleted |-> TRUE]

\* Payloads of 2, 5, 8, 10 and 12 cells: from the start of a block they leave just
\* a header's space in it, fill it, leave padding in the next, fill two, take three.
Shapes == {<<>>,
           <<Del(<<2>>)>>,
           <<Put(<<1>>, <<2, 1>>)>>,
           <<Put(<<1>>, <<2>>), Del(<<1>>)>>,
           <<Put(<<2>>, <<>>), Put(<<1>>, <<2, 1>>)>>}

EmptyLog == [val |-> <<>>, good |-> {}, written |-> <<>>, physical |-> <<>>, spoiled |-> {}]

CRC == 9    \* a checksum, which is masked so as not to be zero

FragmentType(first, last) ==
    CASE first /\ last   -> REC_FULL
      [] first /\ ~last  -> REC_FIRST
      [] ~first /\ ~last -> REC_MIDDLE
      [] ~first /\ last  -> REC_LAST

\* Appends payload, from its first from cells on, in as many physical records as
\* the blocks call for.  Less than a header left in a block is padded with zeros;
\* exactly a header left takes a fragment without data.
RECURSIVE Fragments(_, _, _, _)
Fragments(log, payload, from, first) ==
    LET at   == Writer!HeaderPlace(Len(log.val))
        room == BLOCK_SIZE - (at % BLOCK_SIZE) - HEADER_SIZE
        rest == Len(payload) - from
        last == rest <= room
        g    == [batch |-> Len(log.written), from |-> from, at |-> at,
                 length |-> IF last THEN rest ELSE room, type |-> FragmentType(first, last)]
        grown == [log EXCEPT !.val      = @ \o [k \in 1..at - Len(@) |-> 0]
                                            \o <<CRC, g.length, g.type>>
                                            \o SubSeq(payload, from + 1, from + g.length),
                             !.good     = @ \cup {at},
                             !.physical = Append(@, g)]
    IN  IF last THEN grown ELSE Fragments(grown, payload, from + g.length, FALSE)

\* The records that stand in the log for ops, the first with number seq.
Committed(seq, ops) ==
    [k \in DOMAIN ops |-> [key |-> ops[k].key, value |-> ops[k].value,
                           seq |-> IF seq + k - 1 > MAX_SEQ THEN MAX_SEQ ELSE seq + k - 1,
                           deleted |-> ops[k].deleted]]

AddPayload(log, payload, ops) ==
    Fragments([log EXCEPT !.written = Append(@, [payload |-> payload, ops |-> ops])],
              payload, 0, TRUE)

AddRecord(log, seq, ops) ==
    AddPayload(log, <<seq, Len(ops)>> \o Writer!Encoded(ops), Committed(seq, ops))

NextSeq(log) == 1 + FoldLeft(LAMBDA acc, b : acc + Len(b.ops), 0, log.written)

\* The log of a sequence of batches, written to an empty file.
LogOf(batches) == FoldLeft(LAMBDA log, ops : AddRecord(log, NextSeq(log), ops),
                           EmptyLog, batches)

\* The longest run of at most n ops that payload holds after its first m cells.
RECURSIVE Readable(_, _, _)
Readable(payload, m, n) ==
    LET rest == SubSeq(payload, m + 1, Len(payload))
        ops  == {op \in Writer!Encodable(payload, m) : IsPrefix(Writer!Encode(op), rest)}
    IN  IF n = 0 \/ ops = {}
        THEN <<>>
        ELSE LET op == CHOOSE o \in ops : TRUE
             IN  <<op>> \o Readable(payload, m + Len(Writer!Encode(op)), n - 1)

\* The log of one payload of any cells; what stands for it is what can be read.
ForgedLog(payload) ==
    AddPayload(EmptyLog, payload,
               IF Len(payload) < 2
               THEN <<>>
               ELSE Committed(payload[1], Readable(payload, 2, payload[2])))

SoundLogs == {LogOf(bs) : bs \in SeqOf(Shapes, MaxBatches)}

Longest == Max({Len(l.val) : l \in SoundLogs})

\* The kinds of damage, to physical record at, or at an offset.
Possible(l, kind, at, n) ==
    LET heads == DOMAIN l.physical
    IN  CASE kind = "flip"         -> at \in heads /\ n \in heads /\ at <= n
          [] kind = "length"       -> at \in heads /\ n \in {0, 1, 3, 6}
          [] kind = "type"         -> at \in heads /\ n \in 0..5
          [] kind = "preallocated" -> at \in {1, 9} /\ n = 0
          [] kind \in {"torn", "zeroed"} -> at \in 0..Len(l.val) - 1 /\ n = 0

Damaged(l, kind, at, n) ==
    LET header(q) == l.physical[q].at
    IN  CASE kind = "flip"         -> Writer!FlipData(Writer!FlipData(l, header(at)), header(n))
          [] kind = "length"       -> Writer!ForgeLength(l, header(at), n)
          [] kind = "type"         -> Writer!ForgeType(l, header(at), n)
          [] kind = "torn"         -> Writer!Torn(l, at)
          [] kind = "zeroed"       -> Writer!ZeroSpan(l, at)
          [] kind = "preallocated" -> Writer!Preallocated(l, at)

LogsWith(kinds) ==
    {Damaged(d[1], d[2], d[3], d[4]) :
        d \in {c \in SoundLogs \X kinds \X (0..Longest) \X (0..Longest) :
                   Possible(c[1], c[2], c[3], c[4])}}

\* Damage to what the scan itself goes by: lengths, types, whole spans.
HeaderDamage == LogsWith({"length", "type", "zeroed"})

\* And damage that a checksum or the end of the file gives away.
AllDamage == LogsWith({"length", "type", "zeroed", "flip", "torn", "preallocated"}) \cup SoundLogs

\* Batches of any cells, with counts that promise too much or too little and
\* sequence numbers at the end of their range.
ForgedBatches ==
    {ForgedLog(head \o body) :
        head \in {<<seq, n>> : seq \in {1, MAX_SEQ - 1, MAX_SEQ}, n \in 0..3},
        body \in SeqOf(0..2, MaxCells)}
      \cup {ForgedLog(head) : head \in {<<>>, <<1>>}}

AllLogs == AllDamage \cup ForgedBatches
=============================================================================
