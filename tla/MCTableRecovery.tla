-------------------------- MODULE MCTableRecovery ---------------------------
(***************************************************************************)
(* Instances of TableRecovery: tables of up to MaxRecords records in one   *)
(* or two data blocks, plain and compressed, restart intervals 1 and 2.    *)
(***************************************************************************)
EXTENDS TableRecovery

CONSTANT MaxRecords     \* bound on the records of a table

Rec(k, s, d, v) == [key |-> k, value |-> v, seq |-> s, deleted |-> d]

\* The records a table may hold, in the order of their internal keys: two
\* versions of a key, a key that extends it, one that is a tombstone.
Universe == <<Rec(<<>>, 5, FALSE, <<2>>),
              Rec(<<1>>, 4, TRUE, <<>>),
              Rec(<<1>>, 3, FALSE, <<2, 1>>),
              Rec(<<1, 1>>, 2, FALSE, <<>>),
              Rec(<<1, 2>>, 2, FALSE, <<1>>)>>

Contents == {rs \in {SelectSeq(Universe, LAMBDA r : r \in S) : S \in SUBSET Range(Universe)} :
                Len(rs) <= MaxRecords}

\* One block, or a cut somewhere.
Groupings(rs) == IF rs = <<>> THEN {<<>>}
                 ELSE {<<rs>>} \cup {<<SubSeq(rs, 1, n), SubSeq(rs, n + 1, Len(rs))>> :
                                        n \in 1..Len(rs) - 1}

SoundTables ==
    UNION {{Builder!TableOf([groups |-> g, interval |-> i, compression |-> c]) :
               g \in Groupings(rs)} :
              rs \in Contents, i \in {1, 2}, c \in {COMPRESSION_NONE, COMPRESSION_SNAPPY}}

\* A compression type of a later LevelDB.
ZSTD == 2

\* One block of a table damaged.
Damaged(t) ==
    {Builder!FlipBlock(t, h, c) : h \in Builder!Followed(t.source), c \in {COMPRESSION_NONE, ZSTD}}
      \cup {Builder!Foreign(t, h, ZSTD) : h \in Builder!Followed(t.source)}
      \cup {Builder!Undecodable(t, h) : h \in DOMAIN t.inflated}
      \cup {Builder!Oversized(t, h, MAX_DECOMPRESSED_BLOCK + 1) : h \in DOMAIN t.inflated}

\* The cells of tables, each with its table.
Places(tables) ==
    LET longest == Max({Len(t.buf) : t \in tables})
    IN  {p \in tables \X (1..longest) : p[2] \in DOMAIN p[1].buf}

Torn == {Builder!Torn(p[1], p[2] - 1) : p \in Places(SoundTables)}

\* Any one cell of a table replaced by a length, a handle or a type that lies,
\* whether a checksum should cover it or not.
Small  == {t \in SoundTables : Len(FlattenSeq(t.source.groups)) < MaxRecords}
Forged == {Builder!Forge(p[1], p[2], v) : p \in Places(Small), v \in {BadVarint, 0, 2, 7}}

AllTables == UNION {Damaged(t) : t \in SoundTables} \cup SoundTables \cup Torn \cup Forged
=============================================================================
