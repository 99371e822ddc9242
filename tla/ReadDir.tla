------------------------------ MODULE ReadDir -------------------------------
(***************************************************************************)
(* read_dir of leveldb-core/src/lib.rs: list the directory, sort the       *)
(* paths, parse every table and every log, skip what cannot be read or     *)
(* parsed - with no lock, so that the directory may change between any two *)
(* of the calls.                                                           *)
(*                                                                         *)
(* A file is what the parsers make of it: the records in it, whether it is *)
(* sound (parse_table refuses a table that is not, see Sstable; parse_log  *)
(* refuses nothing, and recs is what it surfaces) and whether fs::read     *)
(* gets at its bytes.  The output is kept as one segment per file.         *)
(***************************************************************************)
EXTENDS Integers, Sequences, SequencesExt, BagsExt

CONSTANT RawRecords     \* what may be stored: any set of records

VARIABLES dir,          \* the directory: the files by path
          phase,        \* "open", "list", "read", "ok" or "err"
          returned,     \* the names the iterator of the operating system has
                        \* returned, and that have been there ever since
          paths,        \* listed and not yet handled: a bag
          records,      \* the output, as segments [origin, recs]
          at_open,      \* history: dir when the listing was opened
          kept_files,   \* history: the paths present ever since
          kept_records  \* history: the records stored ever since

readerVars  == <<phase, paths, records>>
historyVars == <<at_open, kept_files, kept_records>>
scanVars    == <<dir, returned, readerVars, historyVars>>

TABLE_EXT == {"ldb", "sst"}
Extension == TABLE_EXT \cup {"log", "other"}

Path    == [num : Nat, ext : Extension]
File    == [recs : Seq(RawRecords), sound : BOOLEAN, readable : BOOLEAN]
Segment == [origin : Path, recs : Seq(RawRecords)]

\* A directory: no two files of it have one path.
IsDir(d) == d = [p \in DOMAIN d |-> d[p]] /\ \A p \in DOMAIN d : p \in Path /\ d[p] \in File

TypeOK ==
    /\ IsDir(dir)
    /\ phase \in {"open", "list", "read", "ok", "err"}
    /\ returned \subseteq DOMAIN dir
    /\ IsABag(paths) /\ DOMAIN paths \subseteq Path
    /\ records \in Seq(Segment)
    /\ IsDir(at_open)
    /\ kept_files \subseteq DOMAIN dir \cap DOMAIN at_open
    /\ kept_records \in SUBSET RawRecords

-----------------------------------------------------------------------------
\* The order of the paths: numbers have a fixed width, then the extension.
Rank(e) == CASE e = "ldb" -> 1 [] e = "log" -> 2 [] e = "other" -> 3 [] e = "sst" -> 4

PathBefore(p, q) == p.num < q.num \/ (p.num = q.num /\ Rank(p.ext) < Rank(q.ext))

\* There are records to be had from the file f at p.
Parses(p, f) == f.readable /\ (p.ext = "log" \/ (p.ext \in TABLE_EXT /\ f.sound))

Stored(d) == UNION {Range(d[p].recs) : p \in {q \in DOMAIN d : Parses(q, d[q])}}

\* Mutant: the paths are not sorted.
AnyTurn(p) == phase = "read" /\ p \in DOMAIN paths

\* The loop over the sorted paths is at p.
Turn(p) == /\ phase = "read"
           /\ p \in DOMAIN paths
           /\ \A q \in DOMAIN paths \ {p} : PathBefore(p, q)

\* fs::read(p) returns bytes.
Readable(p) == p \in DOMAIN dir /\ dir[p].readable

-----------------------------------------------------------------------------
(* The reader.                                                             *)

OpenDir == /\ phase = "open"
           /\ phase' = "list"
           /\ at_open' = dir
           /\ kept_files' = DOMAIN dir
           /\ kept_records' = Stored(dir)
           /\ UNCHANGED <<dir, returned, paths, records>>

\* No directory, no permission: the error is returned.
OpenFails == /\ phase = "open"
             /\ phase' = "err"
             /\ UNCHANGED <<dir, returned, paths, records, historyVars>>

\* An entry is pushed to the vector, of which only the order after the sort
\* matters.  The iterator returns a name that stays once; one that goes and
\* comes back it may return again, and nothing takes out the second copy.
ListEntry == /\ phase = "list"
             /\ \E p \in DOMAIN dir \ returned :
                    /\ returned' = returned \cup {p}
                    /\ paths' = BagAdd(paths, p)
             /\ UNCHANGED <<dir, phase, records, historyVars>>

EntryFails == /\ phase = "list"
              /\ phase' = "err"
              /\ returned' = {}
              /\ UNCHANGED <<dir, paths, records, historyVars>>

\* The iterator has returned what was there all the time, and any of what came
\* or went meanwhile.
EndOfEntries == /\ phase = "list"
                /\ kept_files \subseteq DOMAIN paths
                /\ phase' = "read"
                /\ returned' = {}
                /\ UNCHANGED <<dir, paths, records, historyVars>>

\* The loop goes on after p.
Handled(p) == /\ paths' = BagRemove(paths, p)
              /\ UNCHANGED <<dir, returned, phase, historyVars>>

\* Mutant: the records of a file replace those before.
SurfaceOnly(p) == records' = dir[p].recs

Surface(p) == records' = Append(records, [origin |-> p, recs |-> dir[p].recs])

ReadTable(p) == /\ Turn(p)
                /\ p.ext \in TABLE_EXT
                /\ Readable(p)
                /\ dir[p].sound
                /\ Surface(p)
                /\ Handled(p)

\* Mutant: a corrupt table ends the scan.
StopAtCorrupt(p) == /\ Turn(p)
                    /\ p.ext \in TABLE_EXT
                    /\ Readable(p)
                    /\ ~dir[p].sound
                    /\ phase' = "ok"
                    /\ UNCHANGED <<dir, returned, paths, records, historyVars>>

\* parse_table_bytes returns an error: it is dropped, and so is the table.
TableRefused(p) == /\ Turn(p)
                   /\ p.ext \in TABLE_EXT
                   /\ Readable(p)
                   /\ ~dir[p].sound
                   /\ UNCHANGED records
                   /\ Handled(p)

ReadLog(p) == /\ Turn(p)
              /\ p.ext = "log"
              /\ Readable(p)
              /\ Surface(p)
              /\ Handled(p)

\* Mutant: a file that is gone ends the loop.
GiveUp(p) == /\ Turn(p)
             /\ p.ext \in TABLE_EXT \cup {"log"}
             /\ ~Readable(p)
             /\ paths' = EmptyBag
             /\ UNCHANGED <<dir, returned, phase, records, historyVars>>

\* Mutant: a file that is gone is tried again.
RetryRead(p) == /\ Turn(p)
                /\ p.ext \in TABLE_EXT \cup {"log"}
                /\ ~Readable(p)
                /\ UNCHANGED scanVars

\* The file is gone since the listing, or cannot be read: it is skipped.
ReadFails(p) == /\ Turn(p)
                /\ p.ext \in TABLE_EXT \cup {"log"}
                /\ ~Readable(p)
                /\ UNCHANGED records
                /\ Handled(p)

OtherFile(p) == /\ Turn(p)
                /\ p.ext \notin TABLE_EXT \cup {"log"}
                /\ UNCHANGED records
                /\ Handled(p)

Return == /\ phase = "read"
          /\ paths = EmptyBag
          /\ phase' = "ok"
          /\ UNCHANGED <<dir, returned, paths, records, historyVars>>

ReaderNext == \/ OpenDir
              \/ OpenFails
              \/ ListEntry
              \/ EntryFails
              \/ EndOfEntries
              \/ \E p \in DOMAIN paths : \/ ReadTable(p)
                                         \/ TableRefused(p)
                                         \/ ReadLog(p)
                                         \/ ReadFails(p)
                                         \/ OtherFile(p)
              \/ Return

-----------------------------------------------------------------------------
(* Whoever else has the directory open.                                    *)

\* Files come, grow and go.  A file that stays keeps what it has, a table once
\* sound stays sound, and the rights to a file do not change.
Evolves == \A p \in DOMAIN dir \cap DOMAIN dir' :
               /\ IsPrefix(dir[p].recs, dir'[p].recs)
               /\ p.ext # "log" /\ dir[p].sound => dir'[p] = dir[p]
               /\ dir'[p].readable = dir[p].readable

\* What a step that changes the directory under the reader is to the iterator
\* and to the history.
Observe == /\ returned' = returned \cap DOMAIN dir'
           /\ kept_files' = kept_files \cap DOMAIN dir'
           /\ kept_records' = kept_records \cap Stored(dir')
           /\ UNCHANGED <<readerVars, at_open>>

Environment == IsDir(dir') /\ Evolves /\ Observe

Init == /\ IsDir(dir)
        /\ phase = "open"
        /\ returned = {}
        /\ paths = EmptyBag
        /\ records = <<>>
        /\ at_open = <<>>
        /\ kept_files = {}
        /\ kept_records = {}

\* The reader in any directory that evolves.
OpenSpec == Init /\ [][ReaderNext \/ Environment]_scanVars

-----------------------------------------------------------------------------
(* Properties.                                                             *)

\* A file that is there, parses and can be read when the directory is opened,
\* and is there until the scan returns, is read: what it held at the opening is
\* surfaced, whatever else is created, grows or goes meanwhile (lib.rs:44-96).
StableFilesSurfaced ==
    phase = "ok" =>
        \A p \in kept_files :
            Parses(p, at_open[p]) =>
                \E k \in DOMAIN records :
                    /\ records[k].origin = p
                    /\ IsPrefix(at_open[p].recs, records[k].recs)

\* The segments come out in the order of the sorted paths (lib.rs:67), however
\* the listing is ordered, and no file comes out twice.  Nothing in the code
\* takes out a second copy of a path (lib.rs:51-66): that there is none rests on
\* names that do not come back, as those of LevelDB do not.
InPathOrder ==
    \A j, k \in DOMAIN records :
        j < k => PathBefore(records[j].origin, records[k].origin)

\* When nothing changes during the scan, the records are those of every file
\* that can be read and parsed, no more and no less; a file that cannot costs
\* its own records only (lib.rs:36-40).
CompleteWhenQuiet ==
    phase = "ok" /\ dir = at_open =>
        {records[k] : k \in DOMAIN records} =
            {[origin |-> p, recs |-> dir[p].recs] :
                p \in {q \in DOMAIN dir : Parses(q, dir[q])}}

\* A record that is on disk from the opening of the directory to the return is
\* surfaced: "enumerates every raw record" (lib.rs:3-4), also on a live host.
NothingMissed ==
    phase = "ok" =>
        \A r \in kept_records : \E k \in DOMAIN records : r \in Range(records[k].recs)

\* The scan returns, whatever goes on in the directory.
Returns == <>(phase \in {"ok", "err"})
=============================================================================
