---------------------------- MODULE TableWriter -----------------------------
(***************************************************************************)
(* External: the table builder of LevelDB, as the format comment of        *)
(* leveldb-core/src/sstable.rs (lines 3-14) describes what it leaves on    *)
(* disk, and the damage a copied table arrives with.                       *)
(*                                                                         *)
(* A table is a record: buf, good and inflated as in Sstable; source, what *)
(* it was built from; damage, what has become of it: "none", "flipped",    *)
(* "torn", "packed" (a compressed block that cannot be inflated),          *)
(* "foreign", "forged".  A source is a record too: groups, the records of  *)
(* each data block; interval, how far restart points are apart;            *)
(* compression, that of the data blocks.                                   *)
(***************************************************************************)
EXTENDS Integers, Sequences, SequencesExt, FiniteSetsExt

CONSTANTS TABLE_MAGIC, COMPRESSION_NONE, COMPRESSION_SNAPPY, TYPE_DELETION

TYPE_VALUE == 1
CRC        == 9
PACKED     == 8       \* all of a compressed block

InternalKey(r) == r.key \o <<IF r.deleted THEN TYPE_DELETION ELSE TYPE_VALUE, r.seq>>

\* How many of the first cells s and t have in common.
Common(s, t) ==
    Max({n \in 0..Len(s) : n <= Len(t) /\ SubSeq(s, 1, n) = SubSeq(t, 1, n)})

\* How many cells entry k of a block takes from the key before: none at a
\* restart point, which every interval entries there is.
Shared(kvs, interval, k) ==
    IF (k - 1) % interval = 0 THEN 0 ELSE Common(kvs[k - 1].key, kvs[k].key)

EntryCells(kv, shared) ==
    <<shared, Len(kv.key) - shared, Len(kv.value)>>
      \o SubSeq(kv.key, shared + 1, Len(kv.key)) \o kv.value

BlockEntries(kvs, interval) ==
    FlattenSeq([k \in DOMAIN kvs |-> EntryCells(kvs[k], Shared(kvs, interval, k))])

\* The block of key-value pairs kvs: entries, restart points, their number.
Block(kvs, interval) ==
    LET restarts == IF kvs = <<>> THEN 1 ELSE (Len(kvs) - 1) \div interval + 1
    IN  BlockEntries(kvs, interval) \o [k \in 1..restarts |-> k] \o <<restarts>>

KeyValues(rs) == [k \in DOMAIN rs |-> [key |-> InternalKey(rs[k]), value |-> rs[k].value]]

Cells(h) == <<h.offset, h.size>>

\* A block in the file: its cells, or what they are compressed to, and a trailer.
Frame(body, compression) ==
    (IF compression = COMPRESSION_SNAPPY THEN <<PACKED>> ELSE body) \o <<compression, CRC>>

\* The handle of frame k.
HandleOf(frames, k) == [offset |-> Len(FlattenSeq(SubSeq(frames, 1, k - 1))),
                        size   |-> Len(frames[k]) - 2]

\* The frames of the data blocks, one for each group of records.
DataFrames(source) ==
    [k \in DOMAIN source.groups |->
        Frame(Block(KeyValues(source.groups[k]), source.interval), source.compression)]

\* An entry for each data block: its last key, its handle.
Index(source) ==
    LET data == DataFrames(source)
    IN  [k \in DOMAIN source.groups |-> [key   |-> InternalKey(Last(source.groups[k])),
                                         value |-> Cells(HandleOf(data, k))]]

\* The metaindex and the index follow, not compressed.
Frames(source) ==
    DataFrames(source) \o <<Frame(Block(<<>>, source.interval), COMPRESSION_NONE),
                            Frame(Block(Index(source), 1), COMPRESSION_NONE)>>

\* The blocks whose cells are compressed.
Packed(source) == IF source.compression = COMPRESSION_SNAPPY THEN DOMAIN source.groups ELSE {}

TableOf(source) ==
    LET frames     == Frames(source)
        n          == Len(source.groups)
        handle(k)  == HandleOf(frames, k)
        body(k)    == Block(KeyValues(source.groups[k]), source.interval)
        group(h)   == CHOOSE k \in Packed(source) : handle(k) = h
    IN  [buf      |-> FlattenSeq(frames) \o Cells(handle(n + 1)) \o Cells(handle(n + 2))
                        \o <<TABLE_MAGIC>>,
         good     |-> {handle(k) : k \in 1..n + 2},
         inflated |-> [h \in {handle(k) : k \in Packed(source)} |-> body(group(h))],
         source   |-> source,
         damage   |-> "none"]

\* The blocks that a reader must follow: all but the metaindex.
Followed(source) ==
    LET frames == Frames(source)
    IN  {HandleOf(frames, k) : k \in DOMAIN source.groups \cup {Len(source.groups) + 2}}

-----------------------------------------------------------------------------
(* Damage.                                                                 *)

\* The block at h no longer matches its checksum; its compression type reads c.
FlipBlock(t, h, c) == [t EXCEPT !.good = @ \ {h},
                                !.buf[h.offset + h.size + 1] = c,
                                !.damage = "flipped"]

\* A table still being written, or cut short.
Torn(t, n) == [t EXCEPT !.buf = SubSeq(@, 1, n), !.damage = "torn"]

\* A cell of the file reads v, under a checksum that holds: a block the writer
\* got wrong, or a footer, which has no checksum.
Forge(t, at, v) == [t EXCEPT !.buf[at] = v, !.damage = "forged"]

\* A compressed block that does not inflate.
Undecodable(t, h) ==
    [t EXCEPT !.inflated = [g \in DOMAIN @ \ {h} |-> @[g]], !.damage = "packed"]

\* A compressed block that inflates to n cells of nothing.
Oversized(t, h, n) ==
    [t EXCEPT !.inflated[h] = [k \in 1..n |-> 0], !.damage = "packed"]

\* A block of a compression the reader has never heard of, and sound.
Foreign(t, h, c) == [t EXCEPT !.buf[h.offset + h.size + 1] = c, !.damage = "foreign"]
=============================================================================
