------------------------------ MODULE LevelDB -------------------------------
(***************************************************************************)
(* External: the LevelDB of a running browser, as far as it changes the    *)
(* directory read_dir scans.  Puts append to the current log; a full log   *)
(* is followed by a new one and flushed to a table; tables are compacted;  *)
(* inputs are removed once their output is installed.  File numbers are    *)
(* never used twice.                                                       *)
(***************************************************************************)
EXTENDS Integers, Sequences, SequencesExt, FiniteSets

CONSTANTS Keys,
          MaxSeq,       \* bound on the sequence numbers
          MaxFile       \* bound on the file numbers

VARIABLES dir,
          last_seq,
          next_file,    \* the next file number
          building,     \* the tables being written, at most one
          replaces,     \* what the table being written stands in for
          obsolete      \* files to be removed

Logs   == {p \in DOMAIN dir : p.ext = "log"} \ obsolete
Tables == {p \in DOMAIN dir : p.ext = "ldb" /\ dir[p].sound} \ obsolete

CurrentLog == CHOOSE p \in Logs : \A q \in Logs : q.num <= p.num

NewFile(ext) == [num |-> next_file, ext |-> ext]

\* A table holds its records by key, the newest version of each first.
TableOrder(r, s) == r.key < s.key \/ (r.key = s.key /\ r.seq > s.seq)

InKeyOrder(S) ==
    {recs \in UNION {[1..n -> S] : n \in 0..Cardinality(S)} :
        /\ Range(recs) = S
        /\ \A j, k \in DOMAIN recs : j < k => TableOrder(recs[j], recs[k])}

Newest(S) == {r \in S : \A s \in S : s.key = r.key => s.seq <= r.seq}

Init(old) == /\ dir = old
             /\ last_seq = 0
             /\ next_file = 3
             /\ building = {}
             /\ replaces = {}
             /\ obsolete = {}

Put(k) == /\ last_seq < MaxSeq
          /\ last_seq' = last_seq + 1
          /\ dir' = [dir EXCEPT ![CurrentLog].recs =
                        Append(@, [key |-> k, seq |-> last_seq + 1])]
          /\ UNCHANGED <<next_file, building, replaces, obsolete>>

\* Mutant: a file number is used again.
CreateAgain(ext, recs) == /\ next_file <= MaxFile
                          /\ UNCHANGED next_file
                          /\ dir' = [p \in DOMAIN dir \cup {NewFile(ext)} |->
                                        IF p = NewFile(ext)
                                        THEN [recs |-> recs, sound |-> ext = "log", readable |-> TRUE]
                                        ELSE dir[p]]

Create(ext, recs) == /\ next_file <= MaxFile
                     /\ next_file' = next_file + 1
                     /\ dir' = [p \in DOMAIN dir \cup {NewFile(ext)} |->
                                   IF p = NewFile(ext)
                                   THEN [recs |-> recs, sound |-> ext = "log", readable |-> TRUE]
                                   ELSE dir[p]]

\* The memtable is full: a new log, if the previous one is flushed.
Rotate == /\ Cardinality(Logs) = 1
          /\ dir[CurrentLog].recs # <<>>
          /\ Create("log", <<>>)
          /\ UNCHANGED <<last_seq, building, replaces, obsolete>>

\* The background thread starts to write a table.
StartTable(inputs, S) == /\ building = {}
                         /\ \E recs \in InKeyOrder(S) : Create("ldb", recs)
                         /\ building' = {NewFile("ldb")}
                         /\ replaces' = inputs
                         /\ UNCHANGED <<last_seq, obsolete>>

StartFlush == \E p \in Logs \ {CurrentLog} : StartTable({p}, Range(dir[p].recs))

\* Superseded versions are dropped, or kept for a snapshot.
StartCompaction ==
    \E inputs \in SUBSET Tables \ {{}} :
        LET all == UNION {Range(dir[p].recs) : p \in inputs}
        IN  \E recs \in {all, Newest(all)} : StartTable(inputs, recs)

FinishTable == /\ building # {}
               /\ dir' = [p \in DOMAIN dir |->
                            IF p \in building THEN [dir[p] EXCEPT !.sound = TRUE] ELSE dir[p]]
               /\ building' = {}
               /\ obsolete' = obsolete \cup replaces
               /\ replaces' = {}
               /\ UNCHANGED <<last_seq, next_file>>

RemoveObsolete == \E p \in obsolete :
                      /\ dir' = [q \in DOMAIN dir \ {p} |-> dir[q]]
                      /\ obsolete' = obsolete \ {p}
                      /\ UNCHANGED <<last_seq, next_file, building, replaces>>

Next == \/ \E k \in Keys : Put(k)
        \/ Rotate
        \/ StartFlush
        \/ StartCompaction
        \/ FinishTable
        \/ RemoveObsolete
=============================================================================
