--------------------------- MODULE SessionStorage ---------------------------
(***************************************************************************)
(* decode of leveldb-forensic/src/sessionstorage.rs: a first pass over the *)
(* records links map-ids to hosts, a second one classifies every record    *)
(* and attaches the hosts.                                                 *)
(*                                                                         *)
(* Keys and values are sequences of tokens: a word or a byte each.         *)
(***************************************************************************)
EXTENDS Value

CONSTANTS Inputs,       \* the lists of raw records that may be decoded
          NAMESPACE,    \* the words "namespace" and "map"
          MAP,
          DASH,
          BAD_UTF8      \* a byte no UTF-8 string holds

ASSUME InputsAssumption ==
    Inputs \subseteq Seq([key : Seq(Nat), value : Seq(Nat), seq : Nat, deleted : BOOLEAN])

\* The two words differ, and none of them is a dash or a byte of its own.
ASSUME TokensAssumption ==
    /\ {NAMESPACE, MAP, DASH} \subseteq Nat
    /\ NAMESPACE # MAP
    /\ {DASH, BAD_UTF8} \cap {NAMESPACE, MAP} = {}
    /\ DASH # BAD_UTF8

VARIABLES input,
          pass,         \* "link", "emit" or "done"
          next,         \* the record the pass is at
          host_by_map,
          out

vars == <<input, pass, next, host_by_map, out>>

NAMESPACE_PREFIX == <<NAMESPACE, DASH>>
MAP_PREFIX       == <<MAP, DASH>>

\* SessionStorageRecord: the fields of each kind.
SessionStorageRecord ==
    [Namespace |-> {"kind", "guid", "host", "map_id", "seq", "deleted"},
     Map       |-> {"kind", "map_id", "host", "script_key", "value", "seq", "deleted"},
     Other     |-> {"kind", "key", "seq", "deleted"}]

TypeOK == /\ pass \in {"link", "emit", "done"}
          /\ next \in 1..Len(input) + 1
          /\ \A id \in DOMAIN host_by_map : \E k \in DOMAIN input : input[k].value = id
          /\ Len(out) = IF pass = "link" THEN 0 ELSE next - 1
          /\ \A k \in DOMAIN out : DOMAIN out[k] = SessionStorageRecord[out[k].kind]

-----------------------------------------------------------------------------
Utf8(s) == BAD_UTF8 \notin Range(s)

from_utf8_lossy(s) == [k \in DOMAIN s |-> IF s[k] = BAD_UTF8 THEN REPLACEMENT ELSE s[k]]

Dashes(key) == {k \in DOMAIN key : key[k] = DASH}

\* The key has the shape prefix-middle-tail, where the tail may hold dashes.
Splits(key) == Utf8(key) /\ \E j, k \in Dashes(key) : j < k

First(S)    == CHOOSE k \in S : \A j \in S : k <= j
FirstDash(key)  == First(Dashes(key))
\* Mutant: the key is split at its last dash.
LastDash(key)   == CHOOSE k \in Dashes(key) : \A j \in Dashes(key) : j <= k

SecondDash(key) == First(Dashes(key) \ {FirstDash(key)})

middle(key) == SubSeq(key, FirstDash(key) + 1, SecondDash(key) - 1)
\* Mutant: the key is split at every dash.
TailToNextDash(key) ==
    LET ends == {k \in Dashes(key) \cup {Len(key) + 1} : k > SecondDash(key)}
    IN  SubSeq(key, SecondDash(key) + 1, First(ends) - 1)

tail(key)   == SubSeq(key, SecondDash(key) + 1, Len(key))

IsNamespace(r) == IsPrefix(NAMESPACE_PREFIX, r.key) /\ r.key # NAMESPACE_PREFIX
IsMap(r)       == ~IsNamespace(r) /\ IsPrefix(MAP_PREFIX, r.key)

\* Mutant: only keys of exactly three parts link a host.
LinksThreeParts(r) == /\ ~r.deleted /\ IsNamespace(r) /\ Splits(r.key) /\ Utf8(r.value)
                      /\ \A k \in Dashes(r.key) : k <= SecondDash(r.key)

Links(r) == ~r.deleted /\ IsNamespace(r) /\ Splits(r.key) /\ Utf8(r.value)

-----------------------------------------------------------------------------
Init == /\ input \in Inputs
        /\ pass = "link"
        /\ next = 1
        /\ host_by_map = <<>>
        /\ out = <<>>

this == input[next]

At(p) == /\ pass = p
         /\ next <= Len(input)
         /\ next' = next + 1
         /\ UNCHANGED <<input, pass>>

\* Mutant: the host is linked to the guid.
LinkGuid == /\ At("link")
            /\ Links(this)
            /\ host_by_map' = [id \in DOMAIN host_by_map \cup {middle(this.key)} |->
                                  IF id \in DOMAIN host_by_map
                                  THEN host_by_map[id] ELSE tail(this.key)]
            /\ UNCHANGED out

\* or_insert: the first host of a map-id stays.
Link == /\ At("link")
        /\ Links(this)
        /\ host_by_map' = [id \in DOMAIN host_by_map \cup {this.value} |->
                              IF id \in DOMAIN host_by_map
                              THEN host_by_map[id] ELSE tail(this.key)]
        /\ UNCHANGED out

NoLink == /\ At("link")
          /\ ~Links(this)
          /\ UNCHANGED <<host_by_map, out>>

SecondPass == /\ pass = "link"
              /\ next > Len(input)
              /\ pass' = "emit"
              /\ next' = 1
              /\ UNCHANGED <<input, host_by_map, out>>

Push(record) == /\ out' = Append(out, record)
                /\ UNCHANGED host_by_map

\* An optional host: a set of at most one.
HostOf(map_id) == {host_by_map[id] : id \in DOMAIN host_by_map \cap {map_id}}

EmitNamespace == /\ At("emit")
                 /\ IsNamespace(this)
                 /\ Splits(this.key)
                 /\ Push([kind |-> "Namespace", guid |-> middle(this.key),
                          host |-> tail(this.key), map_id |-> from_utf8_lossy(this.value),
                          seq |-> this.seq, deleted |-> this.deleted])

StoredValue(r) == IF r.deleted THEN empty ELSE decode_session_value(r.value)

EmitMap == /\ At("emit")
           /\ IsMap(this)
           /\ Splits(this.key)
           /\ Push([kind |-> "Map", map_id |-> middle(this.key),
                    host |-> HostOf(middle(this.key)),
                    script_key |-> tail(this.key), value |-> StoredValue(this),
                    seq |-> this.seq, deleted |-> this.deleted])

EmitOther == /\ At("emit")
             /\ ~((IsNamespace(this) \/ IsMap(this)) /\ Splits(this.key))
             /\ Push([kind |-> "Other", key |-> this.key,
                      seq |-> this.seq, deleted |-> this.deleted])

Return == /\ pass = "emit"
          /\ next > Len(input)
          /\ pass' = "done"
          /\ UNCHANGED <<input, next, host_by_map, out>>

Finished == pass = "done" /\ UNCHANGED vars

Next == Link \/ NoLink \/ SecondPass \/ EmitNamespace \/ EmitMap \/ EmitOther \/ Return
          \/ Finished

Spec == Init /\ [][Next]_vars

-----------------------------------------------------------------------------
(* Properties.                                                             *)

\* The key a decoded record stands for.
KeyOf(d) == CASE d.kind = "Namespace" -> NAMESPACE_PREFIX \o d.guid \o <<DASH>> \o d.host
              [] d.kind = "Map"       -> MAP_PREFIX \o d.map_id \o <<DASH>> \o d.script_key
              [] d.kind = "Other"     -> d.key

\* Every record comes out, tombstones and orphans too, in its place, and its key
\* can be put together again: no dash is taken for the wrong separator
\* (sessionstorage.rs:61-69, leveldb-forensic/src/lib.rs:7-8).
EveryKeyComesOut ==
    /\ pass = "done" => Len(out) = Len(input)
    /\ \A k \in DOMAIN out : /\ KeyOf(out[k]) = input[k].key
                             /\ out[k].seq = input[k].seq
                             /\ out[k].deleted = input[k].deleted
=============================================================================
