----------------------------- MODULE MCLiveScan -----------------------------
(***************************************************************************)
(* Instances of LiveScan: the directory an earlier session left, and the   *)
(* first writes of the next one.                                           *)
(***************************************************************************)
EXTENDS LiveScan

Rec(k, s) == [key |-> k, seq |-> s]

MCRecords == [key : Keys, seq : -1..MaxSeq]

Table(sound, readable) ==
    [recs |-> <<Rec(1, 0), Rec(1, -1)>>, sound |-> sound, readable |-> readable]

EmptyLog == [recs |-> <<>>, sound |-> TRUE, readable |-> TRUE]

At(n, e) == [num |-> n, ext |-> e]

\* A current log, a CURRENT file, and an old table: sound, corrupt, or one the
\* examiner may not read.
Leftover(ext, old) ==
    [p \in {At(1, ext), At(2, "log"), At(0, "other")} |->
        IF p = At(1, ext) THEN old ELSE EmptyLog]

MCOldDirs == {Leftover("ldb", Table(TRUE, TRUE)),
              Leftover("sst", Table(FALSE, TRUE)),
              Leftover("sst", Table(TRUE, FALSE))}
=============================================================================
