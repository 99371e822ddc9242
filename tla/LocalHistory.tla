---------------------------- MODULE LocalHistory ----------------------------
(***************************************************************************)
(* LocalStorage over what Chromium writes (external): the entries of       *)
(* scripts, with their string keys and values prefixed, the metadata of    *)
(* origins, and the tombstones of both.                                    *)
(***************************************************************************)
EXTENDS LocalStorage

CONSTANTS Origins,
          Scripts,      \* script keys and values: sequences of code units
          Times,
          Sizes,
          Stray         \* records of neither kind, or damaged

\* Latin-1 where every character allows it.
Prefixed(us) == IF \A k \in DOMAIN us : us[k] < BYTE THEN <<1>> \o us
                ELSE <<0>> \o LittleEndian(us)

EntryKey(o, k) == <<UNDERSCORE>> \o o \o <<NUL>> \o Prefixed(k)

Entry(o, k, v) == [key |-> EntryKey(o, k), value |-> Prefixed(v), seq |-> 1, deleted |-> FALSE]

Entries == {Entry(o, k, v) : o \in Origins, k \in Scripts, v \in Scripts}

MetaKey(o) == <<META>> \o o

MetaRecords ==
    {[key |-> MetaKey(o), value |-> <<8, t, 16, s>>, seq |-> 2, deleted |-> FALSE] :
        o \in Origins, t \in Times, s \in Sizes}

Tombstones == {[r EXCEPT !.value = <<>>, !.seq = 3, !.deleted = TRUE] :
                  r \in Entries \cup MetaRecords}

Universe == Entries \cup MetaRecords \cup Tombstones \cup Stray

\* An origin holds no NUL, and the strings no lone surrogate: StoredStrings is
\* about those.  A stray key is not one that an entry is written under.
ASSUME HistoryAssumption ==
    /\ Inputs \subseteq Seq(Universe)
    /\ Origins \subseteq Seq(Nat \ {NUL})
    /\ Scripts \subseteq Seq(0..BYTE * BYTE - 1)
    /\ \A us \in Scripts : \A k \in DOMAIN us : ~LoneAt(us, k)
    /\ Times \cup Sizes \subseteq Nat
    /\ \A r \in Stray, o \in Origins, k \in Scripts : r.key # EntryKey(o, k)

\* An entry is attributed to its origin, with the key and the value the script
\* used, whatever zero bytes are in them; its tombstone to the same key with no
\* value (localstorage.rs:122-139).
EntriesComeBack ==
    \A n \in DOMAIN out, o \in Origins, k \in Scripts :
        input[n].key = EntryKey(o, k) =>
            /\ out[n].kind = "Data"
            /\ out[n].origin = o
            /\ FlattenSeq(out[n].script_key.text) = k
            /\ out[n].deleted => out[n].value = empty
            /\ ~out[n].deleted => \E v \in Scripts : /\ input[n] = Entry(o, k, v)
                                                     /\ FlattenSeq(out[n].value.text) = v
                                                     /\ ~out[n].value.lossy

\* Metadata comes back with the time and the size written, and a cleared one is
\* not taken for one of time zero with a size (localstorage.rs:96-121).
MetadataComesBack ==
    \A n \in DOMAIN out, o \in Origins :
        input[n].key = MetaKey(o) /\ input[n] \in MetaRecords \cup Tombstones =>
            /\ out[n].kind = "Meta"
            /\ out[n].origin = o
            /\ ~out[n].deleted => <<8, out[n].timestamp, 16>> = SubSeq(input[n].value, 1, 3)
                                  /\ out[n].size = {input[n].value[4]}
            /\ out[n].deleted => out[n].size = {}
=============================================================================
