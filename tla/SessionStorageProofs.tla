------------------------ MODULE SessionStorageProofs ------------------------
(***************************************************************************)
(* Proofs about SessionStorage, for any list of records, and about         *)
(* SessionHistory, for any lists of what Chromium writes: types, that      *)
(* every key can be put together again, and that the two passes attribute  *)
(* an entry to the host that owned its map and to no other.                *)
(***************************************************************************)
EXTENDS SessionHistory, SequenceLemmas

-----------------------------------------------------------------------------
(* Keys.                                                                   *)

\* A set of natural numbers that is not empty has a first element.
LEMMA FirstIsLeast ==
    ASSUME NEW S, S \subseteq Nat, S # {}
    PROVE  First(S) \in S /\ \A j \in S : First(S) <= j
  BY LeastNat DEF First

\* The dashes of a key are places in it.
LEMMA DashPlaces ==
    ASSUME NEW key \in Seq(Nat)
    PROVE  Dashes(key) \subseteq 1..Len(key) /\ Len(key) \in Nat
  BY DEF Dashes

\* A key that starts with a prefix has its first dash in it.
LEMMA PrefixDash ==
    ASSUME NEW key \in Seq(Nat), NEW word, word # DASH, IsPrefix(<<word, DASH>>, key)
    PROVE  FirstDash(key) = 2 /\ Len(key) >= 2 /\ key[1] = word /\ key[2] = DASH
  <1>1. Len(key) >= 2 /\ <<word, DASH>> = SubSeq(key, 1, 2)
    BY DEF IsPrefix
  <1>2. key[1] = word /\ key[2] = DASH
    <2>1. SubSeq(key, 1, 2)[1] = key[1] /\ SubSeq(key, 1, 2)[2] = key[2]
      BY <1>1
    <2> QED
      BY <1>1, <2>1
  <1>3. 2 \in Dashes(key) /\ 1 \notin Dashes(key)
    BY <1>1, <1>2 DEF Dashes
  <1>4. FirstDash(key) \in Dashes(key) /\ FirstDash(key) <= 2
    BY <1>3, DashPlaces, FirstIsLeast DEF FirstDash
  <1> QED
    BY <1>1, <1>2, <1>3, <1>4, DashPlaces

\* Where it splits, the second dash is a later one, with none in between.
LEMMA SplitDash ==
    ASSUME NEW key \in Seq(Nat), Splits(key), FirstDash(key) = 2
    PROVE  /\ SecondDash(key) \in 3..Len(key)
           /\ key[SecondDash(key)] = DASH
           /\ \A k \in 3..SecondDash(key) - 1 : key[k] # DASH
  <1> DEFINE later == Dashes(key) \ {2}
  <1>1. \A k \in Dashes(key) : 2 <= k
    <2>1. Dashes(key) # {}
      BY DEF Splits
    <2> QED
      BY <2>1, DashPlaces, FirstIsLeast DEF FirstDash
  <1>2. later \subseteq Nat /\ later # {} /\ \A k \in later : k \in 3..Len(key)
    BY <1>1, DashPlaces DEF Splits
  <1>3. SecondDash(key) \in later /\ \A k \in later : SecondDash(key) <= k
    <2>1. SecondDash(key) = First(later)
      BY DEF SecondDash
    <2> HIDE DEF later
    <2> QED
      BY <1>2, <2>1, FirstIsLeast
  <1>4. SecondDash(key) \in 3..Len(key) /\ key[SecondDash(key)] = DASH
    BY <1>2, <1>3 DEF Dashes
  <1>5. ASSUME NEW k \in 3..SecondDash(key) - 1, key[k] = DASH
        PROVE  FALSE
    <2>1. k \in 3..Len(key) /\ k < SecondDash(key)
      BY <1>4
    <2>2. k \in later
      BY <1>5, <2>1 DEF Dashes
    <2> HIDE DEF later
    <2> QED
      BY <1>3, <1>4, <2>1, <2>2
  <1> QED
    BY <1>4, <1>5

\* The parts of a key, put together again, are the key.
LEMMA Rejoin ==
    ASSUME NEW key \in Seq(Nat), NEW word, word # DASH, IsPrefix(<<word, DASH>>, key),
           Splits(key)
    PROVE  /\ <<word, DASH>> \o middle(key) \o <<DASH>> \o tail(key) = key
           /\ middle(key) \in Seq(Nat) /\ tail(key) \in Seq(Nat)
  <1>1. FirstDash(key) = 2 /\ Len(key) >= 2 /\ key[1] = word /\ key[2] = DASH
    BY PrefixDash
  <1>2. PICK d \in 3..Len(key) : d = SecondDash(key) /\ key[d] = DASH
    BY <1>1, SplitDash
  <1>3. middle(key) = SubSeq(key, 3, d - 1) /\ tail(key) = SubSeq(key, d + 1, Len(key))
    BY <1>1, <1>2 DEF middle, tail
  <1>4. <<word, DASH>> = SubSeq(key, 1, 2)
    BY DEF IsPrefix
  <1>5. <<DASH>> = SubSeq(key, d, d)
    <2>1. d \in 1..Len(key)
      BY <1>2
    <2> QED
      BY <1>2, <2>1, PartOfOne
  <1>6. SubSeq(key, 1, 2) \o SubSeq(key, 3, d - 1) = SubSeq(key, 1, d - 1)
    <2>1. 1 \in 1..Len(key) + 1 /\ 2 \in 0..Len(key) /\ d - 1 \in 2..Len(key) /\ 2 + 1 = 3
          /\ 1 - 1 = 0
      BY <1>1, <1>2
    <2> QED
      BY <2>1, ConcatAdjacentSubSeq, Zenon
  <1>7. SubSeq(key, 1, d - 1) \o SubSeq(key, d, d) = SubSeq(key, 1, d)
    <2>1. 1 \in 1..Len(key) + 1 /\ d - 1 \in 0..Len(key) /\ d \in d - 1..Len(key)
          /\ (d - 1) + 1 = d /\ 1 - 1 = 0
      BY <1>1, <1>2
    <2> QED
      BY <2>1, ConcatAdjacentSubSeq, ZenonT(40)
  <1>8. SubSeq(key, 1, d) \o SubSeq(key, d + 1, Len(key)) = SubSeq(key, 1, Len(key))
    <2>1. 1 \in 1..Len(key) + 1 /\ d \in 0..Len(key) /\ Len(key) \in d..Len(key) /\ 1 - 1 = 0
      BY <1>1, <1>2
    <2> QED
      BY <2>1, ConcatAdjacentSubSeq, Zenon
  <1>9. SubSeq(key, 1, Len(key)) = key
    BY SubSeqFull
  <1>10. middle(key) \in Seq(Nat) /\ tail(key) \in Seq(Nat)
    <2>1. 3 \in Nat \ {0} /\ d + 1 \in Nat \ {0} /\ d - 1 \in Int /\ Len(key) \in Int
          /\ d - 1 <= Len(key) /\ Len(key) <= Len(key)
      BY <1>2
    <2> QED
      BY <1>3, <2>1, PartType
  <1> QED
    BY <1>3, <1>4, <1>5, <1>6, <1>7, <1>8, <1>9, <1>10, Zenon
-----------------------------------------------------------------------------
(* The invariants.                                                         *)

Raw == [key : Seq(Nat), value : Seq(Nat), seq : Nat, deleted : BOOLEAN]

TypeInv == /\ input \in Seq(Raw)
           /\ \E S : out \in Seq(S)
           /\ TypeOK
           /\ pass = "done" => next = Len(input) + 1

\* A record of the output has the key of the record of the input it stands for.
KeyInv == \A k \in DOMAIN out : /\ KeyOf(out[k]) = input[k].key
                                /\ out[k].seq = input[k].seq
                                /\ out[k].deleted = input[k].deleted

\* The records that the first pass has seen.
Seen == 1..(IF pass = "link" THEN next - 1 ELSE Len(input))

\* host_by_map has the map-ids of the linking records seen, and no other, each
\* with the host of one of them.
LinkInv ==
    /\ \A k \in Seen : Links(input[k]) => input[k].value \in DOMAIN host_by_map
    /\ \A id \in DOMAIN host_by_map :
          \E k \in Seen : /\ Links(input[k])
                          /\ input[k].value = id
                          /\ host_by_map[id] = tail(input[k].key)

\* Entries are given the host of their map-id when all the links are known.
HostInv ==
    /\ pass = "link" => out = <<>>
    /\ \A k \in DOMAIN out :
          out[k].kind = "Map" => out[k].host = HostOf(out[k].map_id)

-----------------------------------------------------------------------------
(* Types.                                                                  *)

\* The record a pass is at.
LEMMA ThisRecord ==
    ASSUME TypeInv, next <= Len(input)
    PROVE  /\ next \in DOMAIN input /\ next \in Nat \ {0}
           /\ this \in Raw
           /\ this.key \in Seq(Nat) /\ this.value \in Seq(Nat)
  <1>1. input \in Seq(Raw) /\ next \in 1..Len(input) + 1
    BY DEF TypeInv, TypeOK
  <1>2. Len(input) \in Nat /\ DOMAIN input = 1..Len(input)
    BY <1>1
  <1>3. next \in 1..Len(input)
    BY <1>1, <1>2
  <1>4. input[next] \in Raw
    BY <1>1, <1>3, ElementOfSeq
  <1> QED
    BY <1>2, <1>3, <1>4 DEF this, Raw

\* What a Push adds to the output, and where.
LEMMA PushFacts ==
    ASSUME TypeInv, At("emit"), NEW record, Push(record)
    PROVE  /\ \E S : out' \in Seq(S)
           /\ DOMAIN out = 1..next - 1
           /\ DOMAIN out' = 1..next /\ Len(out') = next
           /\ \A k \in 1..next - 1 : out'[k] = out[k]
           /\ out'[next] = record
           /\ UNCHANGED <<input, pass, host_by_map>>
           /\ next' = next + 1 /\ next \in 1..Len(input) /\ next' \in 1..Len(input) + 1
           /\ pass = "emit"
  <1>1. Len(out) = next - 1 /\ next \in Nat /\ pass = "emit" /\ next \in 1..Len(input)
        /\ next + 1 \in 1..Len(input) + 1
    BY DEF TypeInv, TypeOK, At
  <1>2. PICK S : out \in Seq(S)
    BY DEF TypeInv
  <1>3. out' = Append(out, record) /\ UNCHANGED <<input, pass, host_by_map>> /\ next' = next + 1
    BY DEF Push, At
  <1>4. /\ Append(out, record) \in Seq(S \cup {record})
        /\ DOMAIN out = 1..Len(out)
        /\ DOMAIN Append(out, record) = 1..Len(out) + 1
        /\ Len(Append(out, record)) = Len(out) + 1
        /\ \A k \in 1..Len(out) : Append(out, record)[k] = out[k]
        /\ Append(out, record)[Len(out) + 1] = record
    BY <1>2, AppendFacts
  <1>5. Len(out) + 1 = next
    BY <1>1
  <1> QED
    BY <1>1, <1>3, <1>4, <1>5

\* A record of the fields of its kind keeps the types.
LEMMA PushType ==
    ASSUME TypeInv, At("emit"), NEW record, Push(record),
           DOMAIN record = SessionStorageRecord[record.kind]
    PROVE  TypeInv'
  <1>1. \A k \in DOMAIN out' : DOMAIN out'[k] = SessionStorageRecord[out'[k].kind]
    <2> TAKE k \in DOMAIN out'
    <2>1. CASE k = next
      BY <2>1, PushFacts
    <2>2. CASE k # next
      <3>1. k \in 1..next - 1
        BY <2>2, PushFacts
      <3>2. DOMAIN out[k] = SessionStorageRecord[out[k].kind]
        BY <3>1, PushFacts DEF TypeInv, TypeOK
      <3> QED
        BY <3>1, <3>2, PushFacts
    <2> QED
      BY <2>1, <2>2
  <1> QED
    BY <1>1, PushFacts DEF TypeInv, TypeOK

\* A step keeps the types.
LEMMA TypeStep ==
    ASSUME TypeInv, [Next]_vars
    PROVE  TypeInv'
  <1>1. CASE Link
    <2>1. this \in Raw /\ next \in DOMAIN input
      BY <1>1, ThisRecord DEF Link, At
    <2>2. \A id \in DOMAIN host_by_map' : \E k \in DOMAIN input : input[k].value = id
      BY <1>1, <2>1 DEF Link, TypeInv, TypeOK, this
    <2> QED
      BY <1>1, <2>2 DEF Link, At, TypeInv, TypeOK
  <1>2. CASE NoLink
    BY <1>2 DEF NoLink, At, TypeInv, TypeOK
  <1>3. CASE SecondPass
    BY <1>3 DEF SecondPass, TypeInv, TypeOK
  <1>4. CASE EmitNamespace
    <2>1. PICK record : /\ Push(record)
                        /\ record = [kind |-> "Namespace", guid |-> middle(this.key),
                             host |-> tail(this.key), map_id |-> from_utf8_lossy(this.value),
                             seq |-> this.seq, deleted |-> this.deleted]
      BY <1>4 DEF EmitNamespace
    <2>2. DOMAIN record = SessionStorageRecord[record.kind]
      BY <2>1 DEF SessionStorageRecord
    <2> QED
      BY <1>4, <2>1, <2>2, PushType DEF EmitNamespace
  <1>5. CASE EmitMap
    <2>1. PICK record : /\ Push(record)
                        /\ record = [kind |-> "Map", map_id |-> middle(this.key),
                             host |-> HostOf(middle(this.key)),
                             script_key |-> tail(this.key), value |-> StoredValue(this),
                             seq |-> this.seq, deleted |-> this.deleted]
      BY <1>5 DEF EmitMap
    <2>2. DOMAIN record = SessionStorageRecord[record.kind]
      BY <2>1 DEF SessionStorageRecord
    <2> QED
      BY <1>5, <2>1, <2>2, PushType DEF EmitMap
  <1>6. CASE EmitOther
    <2>1. PICK record : /\ Push(record)
                        /\ record = [kind |-> "Other", key |-> this.key,
                                     seq |-> this.seq, deleted |-> this.deleted]
      BY <1>6 DEF EmitOther
    <2>2. DOMAIN record = SessionStorageRecord[record.kind]
      BY <2>1 DEF SessionStorageRecord
    <2> QED
      BY <1>6, <2>1, <2>2, PushType DEF EmitOther
  <1>7. CASE Return
    BY <1>7 DEF Return, TypeInv, TypeOK
  <1>8. CASE UNCHANGED vars
    BY <1>8 DEF vars, TypeInv, TypeOK
  <1> QED
    BY <1>1, <1>2, <1>3, <1>4, <1>5, <1>6, <1>7, <1>8 DEF Next, Finished

\* The first record is next, and nothing is out.
LEMMA TypeInit ==
    ASSUME Init
    PROVE  TypeInv
  <1>1. input \in Seq(Raw)
    BY InputsAssumption DEF Init, Raw
  <1>2. out \in Seq({}) /\ Len(out) = 0 /\ DOMAIN out = {} /\ DOMAIN host_by_map = {}
    BY DEF Init
  <1>3. next \in 1..Len(input) + 1
    BY <1>1 DEF Init
  <1> QED
    BY <1>1, <1>2, <1>3 DEF Init, TypeInv, TypeOK

\* The decoder of Session Storage keeps its types: one record comes out for each
\* record the second pass has handled, with the fields of its kind.
THEOREM TypeCorrect == Spec => []TypeOK
  <1>1. TypeInv => TypeOK
    BY DEF TypeInv
  <1> QED
    BY <1>1, TypeInit, TypeStep, PTL DEF Spec

-----------------------------------------------------------------------------
(* Keys come out.                                                          *)

\* A record that stands for the key it was made of keeps KeyInv.
LEMMA PushKey ==
    ASSUME TypeInv, KeyInv, At("emit"), NEW record, Push(record),
           KeyOf(record) = this.key, record.seq = this.seq, record.deleted = this.deleted
    PROVE  KeyInv'
  <1> SUFFICES ASSUME NEW k \in DOMAIN out'
               PROVE  /\ KeyOf(out'[k]) = input[k].key
                      /\ out'[k].seq = input[k].seq
                      /\ out'[k].deleted = input[k].deleted
    BY PushFacts DEF KeyInv
  <1>1. CASE k = next
    BY <1>1, PushFacts DEF this
  <1>2. CASE k # next
    <2>2. k \in 1..next - 1
      BY <1>2, PushFacts, Len(input) \in Nat
    <2>1. k \in DOMAIN out /\ out'[k] = out[k]
      BY <2>2, PushFacts
    <2> QED
      BY <2>1 DEF KeyInv
  <1> QED
    BY <1>1, <1>2

\* A step keeps the keys.
LEMMA KeyStep ==
    ASSUME TypeInv, KeyInv, [Next]_vars
    PROVE  KeyInv'
  <1>1. CASE EmitNamespace
    <2>1. PICK record : /\ Push(record)
                        /\ record = [kind |-> "Namespace", guid |-> middle(this.key),
                             host |-> tail(this.key), map_id |-> from_utf8_lossy(this.value),
                             seq |-> this.seq, deleted |-> this.deleted]
      BY <1>1 DEF EmitNamespace
    <2>2. IsPrefix(<<NAMESPACE, DASH>>, this.key) /\ Splits(this.key) /\ NAMESPACE # DASH
      BY <1>1, TokensAssumption DEF EmitNamespace, IsNamespace, NAMESPACE_PREFIX
    <2>3. this.key \in Seq(Nat)
      BY <1>1, ThisRecord DEF EmitNamespace, At
    <2>4. NAMESPACE_PREFIX \o middle(this.key) \o <<DASH>> \o tail(this.key) = this.key
      BY <2>2, <2>3, Rejoin DEF NAMESPACE_PREFIX
    <2>5. KeyOf(record) = this.key
      BY <2>1, <2>4 DEF KeyOf
    <2> QED
      BY <1>1, <2>1, <2>5, PushKey DEF EmitNamespace
  <1>2. CASE EmitMap
    <2>1. PICK record : /\ Push(record)
                        /\ record = [kind |-> "Map", map_id |-> middle(this.key),
                             host |-> HostOf(middle(this.key)),
                             script_key |-> tail(this.key), value |-> StoredValue(this),
                             seq |-> this.seq, deleted |-> this.deleted]
      BY <1>2 DEF EmitMap
    <2>2. IsPrefix(<<MAP, DASH>>, this.key) /\ Splits(this.key) /\ MAP # DASH
      BY <1>2, TokensAssumption DEF EmitMap, IsMap, MAP_PREFIX
    <2>3. this.key \in Seq(Nat)
      BY <1>2, ThisRecord DEF EmitMap, At
    <2>4. MAP_PREFIX \o middle(this.key) \o <<DASH>> \o tail(this.key) = this.key
      BY <2>2, <2>3, Rejoin DEF MAP_PREFIX
    <2>5. KeyOf(record) = this.key
      BY <2>1, <2>4 DEF KeyOf
    <2> QED
      BY <1>2, <2>1, <2>5, PushKey DEF EmitMap
  <1>3. CASE EmitOther
    <2>1. PICK record : /\ Push(record)
                        /\ record = [kind |-> "Other", key |-> this.key,
                                     seq |-> this.seq, deleted |-> this.deleted]
      BY <1>3 DEF EmitOther
    <2>2. KeyOf(record) = this.key
      BY <2>1 DEF KeyOf
    <2> QED
      BY <1>3, <2>1, <2>2, PushKey DEF EmitOther
  <1>4. CASE UNCHANGED <<input, out>>
    BY <1>4 DEF KeyInv
  <1>5. UNCHANGED <<input, out>> \/ EmitNamespace \/ EmitMap \/ EmitOther
    BY DEF Next, Link, NoLink, SecondPass, Return, Finished, At, vars
  <1> QED
    BY <1>1, <1>2, <1>3, <1>4, <1>5

\* Every record comes out in its place, whatever is in the list, and its key can
\* be put together again: no dash of a host or of a script key is taken for a
\* separator.
THEOREM NoKeyIsLost == Spec => []EveryKeyComesOut
  <1>1. Init => TypeInv /\ KeyInv
    BY TypeInit DEF Init, KeyInv
  <1>2. TypeInv /\ KeyInv /\ [Next]_vars => (TypeInv /\ KeyInv)'
    BY TypeStep, KeyStep
  <1>3. TypeInv /\ KeyInv => EveryKeyComesOut
    BY DEF TypeInv, TypeOK, KeyInv, EveryKeyComesOut
  <1> QED
    BY <1>1, <1>2, <1>3, PTL DEF Spec

-----------------------------------------------------------------------------
(* Attribution.                                                            *)

\* A step keeps what host_by_map is.
LEMMA LinkStep ==
    ASSUME TypeInv, LinkInv, [Next]_vars
    PROVE  LinkInv'
  <1>1. Len(input) \in Nat
    BY DEF TypeInv
  <1>2. CASE Link
    <2>1. /\ pass = "link" /\ pass' = "link" /\ next' = next + 1 /\ next \in Nat \ {0}
          /\ UNCHANGED input /\ Links(this)
          /\ host_by_map' = [id \in DOMAIN host_by_map \cup {this.value} |->
                                IF id \in DOMAIN host_by_map
                                THEN host_by_map[id] ELSE tail(this.key)]
      BY <1>2, ThisRecord DEF Link, At
    <2>2. Seen' = Seen \cup {next}
      <3>1. Seen = 1..next - 1 /\ Seen' = 1..(next + 1) - 1
        BY <2>1 DEF Seen
      <3> QED
        BY <2>1, <3>1
    <2>3. DOMAIN host_by_map' = DOMAIN host_by_map \cup {input[next].value}
      BY <2>1 DEF this
    <2>4. ASSUME NEW k \in Seen', Links(input[k])
          PROVE  input[k].value \in DOMAIN host_by_map'
      BY <2>2, <2>3, <2>4 DEF LinkInv
    <2>5. ASSUME NEW id \in DOMAIN host_by_map'
          PROVE  \E k \in Seen' : /\ Links(input[k])
                                  /\ input[k].value = id
                                  /\ host_by_map'[id] = tail(input[k].key)
      <3>1. CASE id \in DOMAIN host_by_map
        <4>1. PICK k \in Seen : /\ Links(input[k])
                                /\ input[k].value = id
                                /\ host_by_map[id] = tail(input[k].key)
          BY <3>1 DEF LinkInv
        <4>2. host_by_map'[id] = host_by_map[id]
          BY <2>1, <3>1
        <4> QED
          BY <2>2, <4>1, <4>2
      <3>2. CASE id \notin DOMAIN host_by_map
        <4>1. id = input[next].value /\ Links(input[next])
              /\ host_by_map'[id] = tail(input[next].key)
          BY <2>1, <2>5, <3>2 DEF this
        <4> QED
          BY <2>2, <4>1
      <3> QED
        BY <3>1, <3>2
    <2> QED
      BY <2>1, <2>4, <2>5, ZenonT(40) DEF LinkInv
  <1>3. CASE NoLink
    <2>1. /\ pass = "link" /\ pass' = "link" /\ next' = next + 1 /\ next \in Nat \ {0}
          /\ UNCHANGED <<input, host_by_map>> /\ ~Links(input[next])
      BY <1>3, ThisRecord DEF NoLink, At, this
    <2>2. Seen' = Seen \cup {next}
      <3>1. Seen = 1..next - 1 /\ Seen' = 1..(next + 1) - 1
        BY <2>1 DEF Seen
      <3> QED
        BY <2>1, <3>1
    <2> QED
      BY <2>1, <2>2 DEF LinkInv
  <1>4. CASE SecondPass
    <2>1. UNCHANGED <<input, host_by_map>> /\ pass = "link" /\ pass' = "emit"
          /\ next > Len(input) /\ next \in 1..Len(input) + 1
      BY <1>4 DEF SecondPass, TypeInv, TypeOK
    <2>2. Seen' = Seen
      BY <1>1, <2>1 DEF Seen
    <2> QED
      BY <2>1, <2>2 DEF LinkInv
  <1>5. CASE UNCHANGED vars
    BY <1>5 DEF LinkInv, Seen, vars
  <1>6. CASE EmitNamespace \/ EmitMap \/ EmitOther \/ Return
    <2>1. UNCHANGED <<input, host_by_map>> /\ pass # "link" /\ pass' # "link"
      BY <1>6 DEF EmitNamespace, EmitMap, EmitOther, Return, At, Push
    <2> QED
      BY <2>1 DEF LinkInv, Seen
  <1> QED
    BY <1>2, <1>3, <1>4, <1>5, <1>6 DEF Next, Finished

\* A record that is no entry, or one with the host of its map-id, keeps HostInv.
LEMMA PushHost ==
    ASSUME TypeInv, HostInv, At("emit"), NEW record, Push(record),
           record.kind = "Map" => record.host = HostOf(record.map_id)
    PROVE  HostInv'
  <1>1. pass' # "link" /\ UNCHANGED host_by_map
    BY PushFacts
  <1>2. ASSUME NEW k \in DOMAIN out', out'[k].kind = "Map"
        PROVE  out'[k].host = HostOf(out'[k].map_id)
    <2>1. CASE k = next
      BY <1>2, <2>1, PushFacts
    <2>2. CASE k # next
      <3>1. k \in 1..next - 1
        BY <2>2, PushFacts, Len(input) \in Nat
      <3>2. k \in DOMAIN out /\ out'[k] = out[k]
        BY <3>1, PushFacts
      <3> QED
        BY <1>2, <3>2 DEF HostInv
    <2> QED
      BY <2>1, <2>2
  <1> QED
    BY <1>1, <1>2 DEF HostInv, HostOf

\* A step keeps the hosts.
LEMMA HostStep ==
    ASSUME TypeInv, HostInv, [Next]_vars
    PROVE  HostInv'
  <1>1. CASE Link \/ NoLink
    <2>1. out = <<>> /\ out' = <<>>
      BY <1>1 DEF Link, NoLink, At, HostInv
    <2> QED
      BY <2>1 DEF HostInv
  <1>2. CASE SecondPass \/ Return \/ UNCHANGED vars
    <2>1. UNCHANGED <<out, host_by_map>> /\ (pass' = "link" => pass = "link")
      BY <1>2 DEF SecondPass, Return, vars
    <2> QED
      BY <2>1 DEF HostInv, HostOf
  <1>3. CASE EmitNamespace
    <2>1. PICK record : Push(record) /\ record.kind = "Namespace"
      BY <1>3 DEF EmitNamespace
    <2> QED
      BY <1>3, <2>1, PushHost DEF EmitNamespace
  <1>4. CASE EmitMap
    <2>1. PICK record : Push(record) /\ record.host = HostOf(record.map_id)
      BY <1>4 DEF EmitMap
    <2> QED
      BY <1>4, <2>1, PushHost DEF EmitMap
  <1>5. CASE EmitOther
    <2>1. PICK record : Push(record) /\ record.kind = "Other"
      BY <1>5 DEF EmitOther
    <2> QED
      BY <1>5, <2>1, PushHost DEF EmitOther
  <1> QED
    BY <1>1, <1>2, <1>3, <1>4, <1>5 DEF Next, Finished

\* The invariant of both passes.
AttributionInv == TypeInv /\ LinkInv /\ HostInv

\* It holds of every reachable state.
LEMMA Attributed == Spec => []AttributionInv
  <1>1. Init => AttributionInv
    <2>1. Init => LinkInv /\ HostInv
      BY DEF Init, LinkInv, HostInv, Seen
    <2> QED
      BY <2>1, TypeInit DEF AttributionInv
  <1>2. AttributionInv /\ [Next]_vars => AttributionInv'
    BY TypeStep, LinkStep, HostStep DEF AttributionInv
  <1> QED
    BY <1>1, <1>2, PTL DEF Spec

-----------------------------------------------------------------------------
(* What Chromium writes.                                                   *)

\* The second dash is the first one after the prefix.
LEMMA WrittenDash ==
    ASSUME NEW key \in Seq(Nat), NEW n \in Nat, FirstDash(key) = 2, n + 3 \in Dashes(key),
           \A k \in 3..n + 2 : key[k] # DASH
    PROVE  SecondDash(key) = n + 3
  <1> DEFINE later == Dashes(key) \ {2}
  <1>1. Dashes(key) \subseteq Nat /\ Dashes(key) \subseteq 1..Len(key)
    BY DashPlaces
  <1>2. \A k \in Dashes(key) : 2 <= k
    BY <1>1, FirstIsLeast DEF FirstDash
  <1>3. later \subseteq Nat /\ n + 3 \in later
    BY <1>1
  <1>4. \A k \in later : n + 3 <= k
    <2> SUFFICES ASSUME NEW k \in later, k < n + 3
                 PROVE  FALSE
      BY <1>3
    <2>1. k \in 3..n + 2
      BY <1>2, <1>3
    <2> QED
      BY <2>1 DEF Dashes
  <1>5. SecondDash(key) = First(later)
    BY DEF SecondDash
  <1> HIDE DEF later
  <1>6. First(later) \in later /\ First(later) <= n + 3
    BY <1>3, FirstIsLeast
  <1>7. n + 3 <= First(later) /\ First(later) \in Nat
    BY <1>3, <1>4, <1>6, Zenon
  <1>8. First(later) = n + 3
    BY <1>6, <1>7
  <1> QED
    BY <1>5, <1>8

\* A key written of three parts, of which the middle one holds no dash, is split
\* into them.
LEMMA WrittenKey ==
    ASSUME NEW word \in Nat \ {DASH}, NEW m \in Seq(Nat \ {DASH}), NEW t \in Seq(Nat),
           NEW key, key = <<word, DASH>> \o m \o <<DASH>> \o t
    PROVE  /\ key \in Seq(Nat) /\ IsPrefix(<<word, DASH>>, key) /\ key # <<word, DASH>>
           /\ Utf8(key) => Splits(key)
           /\ middle(key) = m /\ tail(key) = t
  <1> DEFINE p == <<word, DASH>>
             n == Len(m)
  <1>1. p \in Seq(Nat) /\ Len(p) = 2 /\ p[1] = word /\ p[2] = DASH /\ DASH \in Nat
        /\ m \in Seq(Nat) /\ \A k \in 1..n : m[k] # DASH
    BY TokensAssumption, SeqMonotonic
  <1>2. /\ key \in Seq(Nat) /\ n \in Nat /\ Len(t) \in Nat
        /\ Len(key) = 2 + n + 1 + Len(t)
        /\ \A k \in 1..2 : key[k] = p[k]
        /\ \A k \in 1..n : key[2 + k] = m[k]
        /\ key[2 + n + 1] = DASH
        /\ SubSeq(key, 2 + 1, 2 + n) = m
        /\ SubSeq(key, 2 + n + 2, Len(key)) = t
    <2>1. p \in Seq(Nat) /\ m \in Seq(Nat) /\ DASH \in Nat /\ key = p \o m \o <<DASH>> \o t
      BY <1>1
    <2> HIDE DEF p
    <2>2. IsJoined(Nat, key, p, m, DASH, t)
      BY <2>1, JoinFacts
    <2> QED
      BY <1>1, <2>2 DEF IsJoined
  <1>3. IsPrefix(p, key) /\ key # p
    <2> HIDE DEF p
    <2>1. p \in Seq(Nat) /\ key \in Seq(Nat) /\ Len(p) <= Len(key) /\ Len(key) # Len(p)
          /\ \A k \in 1..Len(p) : key[k] = p[k]
      BY <1>1, <1>2
    <2> QED
      BY <2>1, StartsWith
  <1>4. FirstDash(key) = 2
    BY <1>2, <1>3, PrefixDash
  <1>5. 2 \in Dashes(key) /\ n + 3 \in Dashes(key) /\ 2 < n + 3
    BY <1>1, <1>2 DEF Dashes
  <1>6. Utf8(key) => Splits(key)
    BY <1>5 DEF Splits
  <1>7. SecondDash(key) = n + 3
    <2>1. ASSUME NEW k \in 3..n + 2
          PROVE  key[k] # DASH
      <3>1. k - 2 \in 1..n /\ 2 + (k - 2) = k
        BY <1>2
      <3> QED
        BY <3>1, <1>1, <1>2
    <2>2. n \in Nat /\ key \in Seq(Nat) /\ 2 + n + 1 = n + 3
      BY <1>2
    <2>3. n \in Nat /\ key \in Seq(Nat) /\ FirstDash(key) = 2 /\ n + 3 \in Dashes(key)
          /\ \A k \in 3..n + 2 : key[k] # DASH
      BY <1>4, <1>5, <2>1, <2>2
    <2> HIDE DEF n, p
    <2> QED
      BY <2>3, WrittenDash, Zenon
  <1> HIDE DEF n
  <1>8. middle(key) = m /\ tail(key) = t
    <2>1. 2 + 1 = FirstDash(key) + 1 /\ SecondDash(key) - 1 = 2 + n
          /\ SecondDash(key) + 1 = 2 + n + 2
      BY <1>2, <1>4, <1>7
    <2> QED
      BY <1>2, <2>1 DEF middle, tail
  <1> QED
    BY <1>2, <1>3, <1>6, <1>8

\* A namespace record that Chromium wrote links its map-id to the owner of the map.
LEMMA NamespaceLinks ==
    ASSUME NEW r \in NamespaceRecords
    PROVE  Links(r) /\ tail(r.key) = Owner[r.value]
  <1> DEFINE record(g, id) == [key |-> NAMESPACE_PREFIX \o g \o <<DASH>> \o Owner[id],
                               value |-> id, seq |-> 1, deleted |-> FALSE]
  <1>0. NamespaceRecords = {record(g, id) : g \in Guids, id \in DOMAIN Owner}
    BY DEF NamespaceRecords
  <1>1. PICK g \in Guids, id \in DOMAIN Owner : r = record(g, id)
    <2> HIDE DEF record
    <2> QED
      BY <1>0
  <1> DEFINE key  == r.key
             host == Owner[id]
             CleanUnits == Nat \ {BAD_UTF8}
  <1>2. /\ key = NAMESPACE_PREFIX \o g \o <<DASH>> \o host
        /\ r.value = id /\ ~r.deleted
    BY <1>1
  <1>3. /\ g \in Seq(Nat \ {DASH, BAD_UTF8}) /\ id \in Seq(Nat \ {DASH, BAD_UTF8})
        /\ host \in Seq(CleanUnits)
    BY HistoryAssumption
  <1>4. NAMESPACE \in Nat \ {DASH} /\ NAMESPACE \in CleanUnits /\ DASH \in CleanUnits
    BY TokensAssumption
  <1>5. g \in Seq(Nat \ {DASH}) /\ g \in Seq(CleanUnits) /\ id \in Seq(CleanUnits) /\ host \in Seq(Nat)
    BY <1>3, SeqMonotonic
  <1>6. key \in Seq(CleanUnits)
    <2>1. NAMESPACE_PREFIX \in Seq(CleanUnits)
      BY <1>4 DEF NAMESPACE_PREFIX
    <2> HIDE DEF key, host, CleanUnits
    <2>2. IsJoined(CleanUnits, key, NAMESPACE_PREFIX, g, DASH, host)
      BY <1>2, <1>3, <1>4, <1>5, <2>1, JoinFacts
    <2> QED
      BY <2>2 DEF IsJoined
  <1>7. \A s \in Seq(CleanUnits) : Utf8(s)
    BY DEF Utf8, Range
  <1>8. /\ key \in Seq(Nat) /\ IsPrefix(NAMESPACE_PREFIX, key) /\ key # NAMESPACE_PREFIX
        /\ Utf8(key) => Splits(key)
        /\ tail(key) = host
    <2>1. key = <<NAMESPACE, DASH>> \o g \o <<DASH>> \o host
      BY <1>2 DEF NAMESPACE_PREFIX
    <2>2. NAMESPACE \in Nat \ {DASH} /\ g \in Seq(Nat \ {DASH}) /\ host \in Seq(Nat)
      BY <1>4, <1>5
    <2> HIDE DEF key, host
    <2>3. key \in Seq(Nat) /\ IsPrefix(<<NAMESPACE, DASH>>, key)
      BY <2>1, <2>2, WrittenKey
    <2>4. key # <<NAMESPACE, DASH>>
      BY <2>1, <2>2, WrittenKey
    <2>5. Utf8(key) => Splits(key)
      BY <2>1, <2>2, WrittenKey, ZenonT(40)
    <2>6. tail(key) = host
      BY <2>1, <2>2, WrittenKey, ZenonT(40)
    <2> QED
      BY <2>3, <2>4, <2>5, <2>6 DEF NAMESPACE_PREFIX
  <1> QED
    BY <1>2, <1>5, <1>6, <1>7, <1>8 DEF Links, IsNamespace

\* Nothing else that is in the files links: not an entry, and no tombstone.
LEMMA OnlyNamespacesLink ==
    ASSUME NEW r \in Universe, Links(r)
    PROVE  r \in NamespaceRecords
  <1>1. ~r.deleted /\ IsNamespace(r) /\ r \notin Stray
    BY HistoryAssumption DEF Links
  <1>2. r \notin Tombstones
    <2>1. ASSUME NEW q \in NamespaceRecords \cup Entries
          PROVE  [q EXCEPT !.value = <<>>, !.seq = 3, !.deleted = TRUE].deleted = TRUE
      BY DEF NamespaceRecords, Entries
    <2> QED
      BY <1>1, <2>1 DEF Tombstones
  <1>3. ASSUME r \in Entries
        PROVE  FALSE
    <2>1. PICK id \in DOMAIN Owner, k \in ScriptKeys :
              r.key = MAP_PREFIX \o id \o <<DASH>> \o k
      BY <1>3 DEF Entries
    <2>2. id \in Seq(Nat \ {DASH}) /\ k \in Seq(Nat)
      <3>1. id \in Seq(Nat \ {DASH, BAD_UTF8}) /\ k \in Seq(Nat)
        BY HistoryAssumption
      <3> QED
        BY <3>1, SeqMonotonic
    <2>3. MAP \in Nat \ {DASH} /\ NAMESPACE # MAP /\ NAMESPACE # DASH
      BY TokensAssumption
    <2>4. r.key \in Seq(Nat) /\ IsPrefix(<<MAP, DASH>>, r.key)
      BY <2>1, <2>2, <2>3, WrittenKey, ZenonT(40) DEF MAP_PREFIX
    <2>5. r.key[1] = MAP
      BY <2>3, <2>4, PrefixDash
    <2>6. r.key[1] = NAMESPACE
      BY <1>1, <2>3, <2>4, PrefixDash DEF IsNamespace, NAMESPACE_PREFIX
    <2> QED
      BY <2>3, <2>5, <2>6
  <1> QED
    BY <1>1, <1>2, <1>3 DEF Universe

\* The records decoded are ones that may be in the files.
FilesInv == input \in Seq(Universe)

\* They stay so.
LEMMA Filed == Spec => []FilesInv
  <1>1. Init => FilesInv
    BY HistoryAssumption DEF Init, FilesInv
  <1>2. FilesInv /\ [Next]_vars => FilesInv'
    BY DEF FilesInv, Next, Link, NoLink, SecondPass, EmitNamespace, EmitMap, EmitOther,
           Return, Finished, At, vars
  <1> QED
    BY <1>1, <1>2, PTL DEF Spec

\* An entry is never attributed to a host that did not own its map, whatever is
\* lost, wherever the namespace records are and however many tabs share the map.
THEOREM HostsAreOwners == Spec => []HostIsOwner
  <1>1. AttributionInv /\ FilesInv => HostIsOwner
    <2> SUFFICES ASSUME AttributionInv, FilesInv, NEW k \in DOMAIN out,
                        out[k].kind = "Map", NEW h \in out[k].host
                 PROVE  h = Owner[out[k].map_id]
      BY DEF HostIsOwner
    <2>1. h \in HostOf(out[k].map_id)
      BY DEF AttributionInv, HostInv
    <2>2. out[k].map_id \in DOMAIN host_by_map /\ h = host_by_map[out[k].map_id]
      BY <2>1 DEF HostOf
    <2>3. PICK j \in Seen : /\ Links(input[j])
                            /\ input[j].value = out[k].map_id
                            /\ h = tail(input[j].key)
      BY <2>2 DEF AttributionInv, LinkInv
    <2>4. j \in 1..Len(input)
      BY <2>3 DEF AttributionInv, TypeInv, TypeOK, Seen
    <2>5. input[j] \in Universe
      BY <2>4, ElementOfSeq DEF FilesInv
    <2>6. input[j] \in NamespaceRecords
      BY <2>3, <2>5, OnlyNamespacesLink
    <2> QED
      BY <2>3, <2>6, NamespaceLinks
  <1> QED
    BY <1>1, Attributed, Filed, PTL

\* An entry that is given no host is a true orphan: no namespace record of its
\* map is in the list, before the entry or after it.
THEOREM OrphansHaveNoNamespace == Spec => []NoHostMeansOrphan
  <1>1. AttributionInv => NoHostMeansOrphan
    <2> SUFFICES ASSUME AttributionInv, NEW k \in DOMAIN out, out[k].kind = "Map",
                        NEW j \in DOMAIN input, input[j] \in NamespaceRecords,
                        input[j].value = out[k].map_id
                 PROVE  out[k].host # {}
      BY DEF NoHostMeansOrphan
    <2>1. out # <<>> /\ out[k].host = HostOf(out[k].map_id)
      BY DEF AttributionInv, HostInv
    <2>2. j \in Seen
      BY <2>1 DEF AttributionInv, HostInv, TypeInv, Seen
    <2>3. out[k].map_id \in DOMAIN host_by_map
      BY <2>2, NamespaceLinks DEF AttributionInv, LinkInv
    <2> QED
      BY <2>1, <2>3 DEF HostOf
  <1> QED
    BY <1>1, Attributed, PTL
=============================================================================
