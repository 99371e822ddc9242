--------------------------- MODULE TableRecovery ----------------------------
(***************************************************************************)
(* What parse_table promises about the tables LevelDB writes: the reader   *)
(* of Sstable over the files of TableWriter.                               *)
(***************************************************************************)
EXTENDS Sstable

Builder == INSTANCE TableWriter

\* The constants that the builder and the reader tell apart.
ASSUME FormatAssumption ==
    /\ {TABLE_MAGIC, COMPRESSION_NONE, COMPRESSION_SNAPPY, TYPE_DELETION} \subseteq Nat
    /\ COMPRESSION_NONE # COMPRESSION_SNAPPY
    /\ TYPE_DELETION # Builder!TYPE_VALUE
    /\ MAX_U32 \in Nat /\ MAX_U32 >= 2
    /\ MAX_DECOMPRESSED_BLOCK \in Nat

TableRecord == [key : Seq(Nat), value : Seq(Nat), seq : Nat, deleted : BOOLEAN]

\* What LevelDB builds a table from: no block is empty, lengths are of 32 bits,
\* and no block inflates to more than the ceiling of the reader.
IsSource(source) ==
    /\ source.groups \in Seq(Seq(TableRecord) \ {<<>>})
    /\ source.interval \in Nat \ {0}
    /\ source.compression \in {COMPRESSION_NONE, COMPRESSION_SNAPPY}
    /\ \A k \in DOMAIN source.groups : \A i \in DOMAIN source.groups[k] :
           /\ Len(source.groups[k][i].key) + INTERNAL_KEY_TRAILER <= MAX_U32
           /\ Len(source.groups[k][i].value) <= MAX_U32
    /\ \A k \in Builder!Packed(source) :
           Len(Builder!Block(Builder!KeyValues(source.groups[k]), source.interval))
               <= MAX_DECOMPRESSED_BLOCK

\* The compression type that the block at h has in t.
TypeIn(t, h) == t.buf[h.offset + h.size + 1]

\* A table is what was built, or what its damage made of it; of a forged one
\* nothing is known.
IsBuilt(t) ==
    LET whole    == Builder!TableOf(t.source)
        followed == Builder!Followed(t.source)
    IN  CASE t.damage = "none"    -> t = whole
          [] t.damage = "flipped" ->
                \E h \in followed : t = Builder!FlipBlock(whole, h, TypeIn(t, h))
          [] t.damage = "foreign" ->
                \E h \in followed : /\ TypeIn(t, h) \notin {COMPRESSION_NONE, COMPRESSION_SNAPPY}
                                    /\ t = Builder!Foreign(whole, h, TypeIn(t, h))
          [] t.damage = "packed"  ->
                \E h \in DOMAIN whole.inflated :
                    \/ t = Builder!Undecodable(whole, h)
                    \/ /\ Len(t.inflated[h]) > MAX_DECOMPRESSED_BLOCK
                       /\ t = Builder!Oversized(whole, h, Len(t.inflated[h]))
          [] t.damage = "torn"    ->
                /\ Len(t.buf) < Len(whole.buf)
                /\ t.buf # <<>> => t.buf[Len(t.buf)] # TABLE_MAGIC
                /\ t = Builder!Torn(whole, Len(t.buf))
          [] OTHER                -> t.damage = "forged"

ASSUME TablesAreBuilt == \A t \in Tables : IsSource(t.source) /\ IsBuilt(t)

\* All the records the builder was given.
written == FlattenSeq(table.source.groups)

\* A sound table is never refused, and what it surfaces is every record the
\* builder was given - older versions and tombstones with the rest, each key
\* rebuilt from its shared prefixes - once and in order (sstable.rs:192-288).
SoundTablesRoundTrip ==
    table.damage = "none" => /\ phase # "err"
                             /\ IsPrefix(records, written)
                             /\ phase = "ok" => records = written

\* A table that is torn, fails a checksum or cannot be inflated is refused as a
\* whole: there is no partial result to take for all of it (lib.rs:98-99,
\* sstable.rs:264-287).
AllOrNothing ==
    /\ phase = "ok"  => table.damage \in {"none", "forged"}
    /\ phase = "err" => records = <<>>

\* The error tells what happened to the table: a sound block of a compression
\* the reader does not know is never reported as corrupt, nor a corrupt block,
\* even in the very byte of the type, as one of an unknown compression; only a
\* table cut short lacks its footer (error.rs:13-60, sstable.rs:127-185).
ErrorNamesTheDamage ==
    /\ (phase = "err") = (error # "none")
    /\ phase = "err" =>
          \/ table.damage = "flipped" /\ error = "BadBlockCrc"
          \/ table.damage = "torn"    /\ error \in {"UnexpectedEof", "BadTableMagic"}
          \/ table.damage = "packed"  /\ error = "LengthOutOfRange"
          \/ table.damage = "foreign" /\ error = "UnknownCompression"
          \/ table.damage = "forged"
=============================================================================
