---------------------------- MODULE LocalStorage ----------------------------
(***************************************************************************)
(* decode of leveldb-forensic/src/localstorage.rs: every raw record is     *)
(* classified by the shape of its key, in one pass.                        *)
(*                                                                         *)
(* Keys are sequences of tokens: the word "META:" and bytes.  A protobuf   *)
(* payload is a sequence of pairs, the tag and the value of a field.       *)
(***************************************************************************)
EXTENDS Value

CONSTANTS Inputs,       \* the lists of raw records that may be decoded
          META,         \* the word "META:"
          UNDERSCORE

NUL == 0

ASSUME InputsAssumption ==
    Inputs \subseteq Seq([key : Seq(Nat), value : Seq(Nat), seq : Nat, deleted : BOOLEAN])

\* Neither prefix is the other, or the NUL that ends an origin.
ASSUME TokensAssumption ==
    /\ {META, UNDERSCORE} \subseteq Nat \ {NUL}
    /\ META # UNDERSCORE

VARIABLES input,
          next,         \* the record the loop is at
          out

vars == <<input, next, out>>

\* LocalStorageRecord: the fields of each kind.
LocalStorageRecord == [Meta  |-> {"kind", "origin", "timestamp", "size", "seq", "deleted"},
                       Data  |-> {"kind", "origin", "script_key", "value", "seq", "deleted"},
                       Other |-> {"kind", "key", "seq", "deleted"}]

TypeOK == /\ next \in 1..Len(input) + 1
          /\ Len(out) = next - 1
          /\ \A k \in DOMAIN out : DOMAIN out[k] = LocalStorageRecord[out[k].kind]

-----------------------------------------------------------------------------
\* protobuf_forensic_core::decode (external): fields of whole pairs.
VARINT == 0
IsProtobuf(data)   == Len(data) % 2 = 0
FieldNumber(tag)   == tag \div 8
IsVarint(data, f, number) == /\ 2 * f <= Len(data)
                             /\ FieldNumber(data[2 * f - 1]) = number
                             /\ data[2 * f - 1] % 8 = VARINT

\* The timestamp comes first, as Chrome writes it.
MetaParses(data) == IsProtobuf(data) /\ IsVarint(data, 1, 1)

timestamp(data) == data[2]

\* Mutant: the size is looked for in the first field.
SizeFirst(data) == IF IsVarint(data, 1, 2) THEN {data[2]} ELSE {}

\* An optional size: a set of at most one.
size(data) == IF IsVarint(data, 2, 2) THEN {data[4]} ELSE {}

-----------------------------------------------------------------------------
Init == input \in Inputs /\ next = 1 /\ out = <<>>

this == input[next]

Push(record) == /\ next <= Len(input)
                /\ next' = next + 1
                /\ out' = Append(out, record)
                /\ UNCHANGED input

Meta(time, optional) == [kind |-> "Meta", origin |-> Tail(this.key), timestamp |-> time,
                         size |-> optional, seq |-> this.seq, deleted |-> this.deleted]

IsMeta == next <= Len(input) /\ IsPrefix(<<META>>, this.key)

ClearedMeta == /\ IsMeta
               /\ this.deleted
               /\ Push(Meta(0, {}))

LiveMeta == /\ IsMeta
            /\ ~this.deleted
            /\ MetaParses(this.value)
            /\ Push(Meta(timestamp(this.value), size(this.value)))

HasUnderscore == next <= Len(input) /\ IsPrefix(<<UNDERSCORE>>, this.key)

\* The origin ends at the first NUL; more may follow in the script key.
Nuls       == {k \in 2..Len(this.key) : this.key[k] = NUL}
\* Mutant: the origin ends at the last NUL.
LastNul    == CHOOSE k \in Nuls : \A j \in Nuls : j <= k

nul        == CHOOSE k \in Nuls : \A j \in Nuls : k <= j
origin     == SubSeq(this.key, 2, nul - 1)
\* Mutant: the script key starts at the NUL.
KeyWithNul == decode_type_prefixed(SubSeq(this.key, nul, Len(this.key)))

script_key == decode_type_prefixed(SubSeq(this.key, nul + 1, Len(this.key)))

StoredValue(r) == IF r.deleted THEN empty ELSE decode_type_prefixed(r.value)

Data == /\ HasUnderscore
        /\ Nuls # {}
        /\ Push([kind |-> "Data", origin |-> origin, script_key |-> script_key,
                 value |-> StoredValue(this), seq |-> this.seq, deleted |-> this.deleted])

\* Mutant: what is not recognised is dropped.
DropOther == /\ next <= Len(input)
             /\ \/ IsMeta /\ ~this.deleted /\ ~MetaParses(this.value)
                \/ HasUnderscore /\ Nuls = {}
                \/ ~IsMeta /\ ~HasUnderscore
             /\ next' = next + 1
             /\ UNCHANGED <<input, out>>

Other == /\ next <= Len(input)
         /\ \/ IsMeta /\ ~this.deleted /\ ~MetaParses(this.value)
            \/ HasUnderscore /\ Nuls = {}
            \/ ~IsMeta /\ ~HasUnderscore
         /\ Push([kind |-> "Other", key |-> this.key,
                  seq |-> this.seq, deleted |-> this.deleted])

Finished == next > Len(input) /\ UNCHANGED vars

Next == ClearedMeta \/ LiveMeta \/ Data \/ Other \/ Finished

Spec == Init /\ [][Next]_vars

-----------------------------------------------------------------------------
(* Properties.                                                             *)

\* The key a decoded record stands for.
KeyOf(d) == CASE d.kind = "Meta"  -> <<META>> \o d.origin
              [] d.kind = "Data"  -> <<UNDERSCORE>> \o d.origin \o <<NUL>> \o d.script_key.raw
              [] d.kind = "Other" -> d.key

\* Every record comes out, tombstones too, in its place, and its key can be put
\* together again: no NUL of a script key is taken for the separator
\* (localstorage.rs:88-91 and 122-127).
EveryKeyComesOut ==
    \A k \in DOMAIN out : /\ KeyOf(out[k]) = input[k].key
                          /\ out[k].seq = input[k].seq
                          /\ out[k].deleted = input[k].deleted

\* A value that failed to decode is "surfaced with its raw bytes, never dropped"
\* (leveldb-forensic lib.rs:5-7): the metadata of a live META record comes out
\* decoded, or the record carries it verbatim.
MetadataComesOut ==
    \A k \in DOMAIN out :
        /\ IsPrefix(<<META>>, input[k].key)
        /\ ~input[k].deleted
        /\ input[k].value # <<>>
        => out[k].kind = "Meta"
=============================================================================
