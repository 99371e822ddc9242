--------------------------- MODULE SessionHistory ---------------------------
(***************************************************************************)
(* SessionStorage over what Chromium writes (external): namespaces, cloned *)
(* ones included, that name maps, a map of one host only, and entries of   *)
(* maps.  Records come in the order of the files they are in, not of their *)
(* sequence numbers, and any of them may be lost.                          *)
(***************************************************************************)
EXTENDS SessionStorage

CONSTANTS Owner,        \* the host of each map-id
          Guids,        \* namespaces
          ScriptKeys,
          Stray         \* records of neither kind, or damaged

NamespaceRecords ==
    {[key |-> NAMESPACE_PREFIX \o g \o <<DASH>> \o Owner[id], value |-> id,
      seq |-> 1, deleted |-> FALSE] : g \in Guids, id \in DOMAIN Owner}

Entries ==
    {[key |-> MAP_PREFIX \o id \o <<DASH>> \o k, value |-> <<2, 2>>,
      seq |-> 2, deleted |-> FALSE] : id \in DOMAIN Owner, k \in ScriptKeys}

\* A namespace is deleted with its tab, an entry with its map or by the script.
Tombstones ==
    {[r EXCEPT !.value = <<>>, !.seq = 3, !.deleted = TRUE] :
        r \in NamespaceRecords \cup Entries}

Universe == NamespaceRecords \cup Tombstones \cup Entries \cup Stray

\* Guids are written with underscores and map-ids are numbers: neither holds a
\* dash, which a host may.  Nothing but a namespace record links a host.
ASSUME HistoryAssumption ==
    /\ Inputs \subseteq Seq(Universe)
    /\ \A id \in DOMAIN Owner : /\ id \in Seq(Nat \ {DASH, BAD_UTF8})
                               /\ Owner[id] \in Seq(Nat \ {BAD_UTF8})
    /\ Guids \subseteq Seq(Nat \ {DASH, BAD_UTF8})
    /\ ScriptKeys \subseteq Seq(Nat)
    /\ \A r \in Stray : ~Links(r)

\* An entry is attributed to the host that owned its map, or to none, whatever
\* the order of the records and whichever are lost (sessionstorage.rs:74-92).
HostIsOwner ==
    \A k \in DOMAIN out :
        out[k].kind = "Map" /\ out[k].map_id \in DOMAIN Owner =>
            out[k].host \subseteq {Owner[out[k].map_id]}

\* An entry without a host is an orphan: no live namespace record, before it or
\* after it in the list, names its map (sessionstorage.rs:71-92).
NoHostMeansOrphan ==
    \A k \in DOMAIN out :
        out[k].kind = "Map" /\ out[k].host = {} =>
            \A j \in DOMAIN input :
                input[j] \in NamespaceRecords => input[j].value # out[k].map_id
=============================================================================
