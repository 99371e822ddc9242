------------------------------ MODULE LiveScan ------------------------------
(***************************************************************************)
(* read_dir over the directory of a LevelDB that goes on working: ReadDir  *)
(* and LevelDB, step by step interleaved.                                  *)
(***************************************************************************)
EXTENDS ReadDir

CONSTANTS Keys, MaxSeq, MaxFile, OldDirs

\* The next LevelDB finds a log to append to, and numbers its files from 3.
ASSUME OldDirsAssumption ==
    \A old \in OldDirs :
        /\ IsDir(old)
        /\ \A p \in DOMAIN old : p.num < 3
        /\ \E p \in DOMAIN old : p.ext = "log"

\* Records with every key and every sequence number that LevelDB may write.
ASSUME WritesAssumption ==
    /\ MaxSeq \in Nat
    /\ \A k \in Keys, n \in 1..MaxSeq : [key |-> k, seq |-> n] \in RawRecords

VARIABLES last_seq, next_file, building, replaces, obsolete

DB == INSTANCE LevelDB

dbVars == <<last_seq, next_file, building, replaces, obsolete>>
vars   == <<scanVars, dbVars>>

LiveInit == /\ \E old \in OldDirs : DB!Init(old)
            /\ phase = "open"
            /\ returned = {}
            /\ paths = EmptyBag
            /\ records = <<>>
            /\ at_open = <<>>
            /\ kept_files = {}
            /\ kept_records = {}

Reader == ReaderNext /\ UNCHANGED dbVars

\* The browser goes on; what it does after the return is of no interest.
Writer == phase \in {"open", "list", "read"} /\ DB!Next /\ Observe

Finished == phase \in {"ok", "err"} /\ UNCHANGED vars

LiveNext == Reader \/ Writer \/ Finished

LiveSpec == LiveInit /\ [][LiveNext]_vars

\* The reader waits for nobody; LevelDB need not take another step.
FairLiveSpec == LiveSpec /\ WF_vars(Reader)
=============================================================================
