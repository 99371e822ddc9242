--------------------------- MODULE ReadDirProofs ----------------------------
(***************************************************************************)
(* Proofs about ReadDir, for any set of records and in any directory that  *)
(* evolves: the reader's types, the order of what it surfaces, and that no *)
(* file which stays from the opening to the return is lost.  Proofs about  *)
(* LiveScan: a LevelDB at work is such a directory, and never leads the    *)
(* reader to take a changed directory for one that kept still.             *)
(***************************************************************************)
EXTENDS LiveScan, TLAPS

-----------------------------------------------------------------------------
(* The invariants.                                                         *)

\* What the environment guarantees of the files that stay.
KeptInv ==
    \A p \in kept_files :
        /\ IsPrefix(at_open[p].recs, dir[p].recs)
        /\ dir[p].readable = at_open[p].readable
        /\ p.ext # "log" /\ at_open[p].sound => dir[p].sound /\ dir[p].recs = at_open[p].recs

Read(p) == \E k \in DOMAIN records :
               /\ records[k].origin = p
               /\ IsPrefix(at_open[p].recs, records[k].recs)

\* A file that stays is in the list until its records are in the output.
CoveredInv ==
    /\ phase \in {"read", "ok"} =>
           \A p \in kept_files : p \in DOMAIN paths \/ (Parses(p, at_open[p]) => Read(p))
    /\ phase = "ok" => paths = EmptyBag

StableInv == TypeOK /\ KeptInv /\ CoveredInv

\* No segment comes before one that is surfaced earlier, and a file that stays
\* comes out once at most.
SortedOutput ==
    \A j, k \in DOMAIN records : j < k =>
        /\ ~PathBefore(records[k].origin, records[j].origin)
        /\ records[j].origin = records[k].origin => records[j].origin \notin kept_files

\* Nothing that is still to be read comes before what is surfaced.
OrderInv ==
    /\ phase \in {"open", "list"} => records = <<>>
    /\ phase = "read" =>
          \A k \in DOMAIN records, p \in DOMAIN paths : ~PathBefore(p, records[k].origin)
    /\ \A j, k \in DOMAIN records :
          j < k => ~PathBefore(records[k].origin, records[j].origin)

\* p is listed once at most, and read once at most.
Once(p) ==
    /\ phase = "list" /\ p \in DOMAIN paths \cap DOMAIN dir => p \in returned
    /\ p \in DOMAIN paths => paths[p] = 1
    /\ phase = "read" /\ p \in DOMAIN paths => \A k \in DOMAIN records : records[k].origin # p
    /\ \A j, k \in DOMAIN records : j < k => ~(records[j].origin = p /\ records[k].origin = p)

\* The files that stay are read once at most.
KeptOnceInv == /\ phase = "open" => paths = EmptyBag
               /\ \A p \in kept_files : Once(p)

\* A step of the loop at p.
AtPath(p) == \/ ReadTable(p)
             \/ TableRefused(p)
             \/ ReadLog(p)
             \/ ReadFails(p)
             \/ OtherFile(p)

-----------------------------------------------------------------------------
\* A sequence starts with itself.
LEMMA PrefixRefl ==
    ASSUME NEW s \in Seq(RawRecords)
    PROVE  IsPrefix(s, s)
  BY DEF IsPrefix

\* What starts with a start of u starts u.
LEMMA PrefixTrans ==
    ASSUME NEW s \in Seq(RawRecords), NEW t \in Seq(RawRecords), NEW u \in Seq(RawRecords),
           IsPrefix(s, t), IsPrefix(t, u)
    PROVE  IsPrefix(s, u)
  <1>1. Len(s) <= Len(t) /\ Len(t) <= Len(u) /\ Len(s) \in Nat /\ Len(t) \in Nat /\ Len(u) \in Nat
    BY DEF IsPrefix
  <1>2. \A k \in 1..Len(s) : s[k] = t[k]
    <2>1. SubSeq(s, 1, Len(s)) = SubSeq(t, 1, Len(s))
      BY DEF IsPrefix
    <2> TAKE k \in 1..Len(s)
    <2>2. SubSeq(s, 1, Len(s))[k] = s[k] /\ SubSeq(t, 1, Len(s))[k] = t[k]
      BY <1>1
    <2> QED
      BY <2>1, <2>2
  <1>3. \A k \in 1..Len(t) : t[k] = u[k]
    <2>1. SubSeq(t, 1, Len(t)) = SubSeq(u, 1, Len(t))
      BY DEF IsPrefix
    <2> TAKE k \in 1..Len(t)
    <2>2. SubSeq(t, 1, Len(t))[k] = t[k] /\ SubSeq(u, 1, Len(t))[k] = u[k]
      BY <1>1
    <2> QED
      BY <2>1, <2>2
  <1>4. SubSeq(s, 1, Len(s)) = SubSeq(u, 1, Len(s))
    BY <1>1, <1>2, <1>3
  <1> QED
    BY <1>1, <1>4 DEF IsPrefix

\* Every step of the reader is one of its actions.
LEMMA ReaderSteps ==
    ASSUME ReaderNext
    PROVE  \/ OpenDir \/ OpenFails \/ ListEntry \/ EntryFails \/ EndOfEntries \/ Return
           \/ \E p \in DOMAIN paths : AtPath(p)
  BY DEF ReaderNext, AtPath

-----------------------------------------------------------------------------
(* Types.                                                                  *)

\* What a file of the directory holds is a sequence of records.
LEMMA SegmentType ==
    ASSUME TypeOK, NEW p \in DOMAIN dir
    PROVE  /\ p \in Path
           /\ dir[p].recs \in Seq(RawRecords)
           /\ [origin |-> p, recs |-> dir[p].recs] \in Segment
  BY DEF TypeOK, IsDir, File, Segment

\* The records stored in a directory are records.
LEMMA StoredType ==
    ASSUME NEW d, IsDir(d)
    PROVE  Stored(d) \in SUBSET RawRecords
  <1> SUFFICES ASSUME NEW q \in DOMAIN d, NEW r \in Range(d[q].recs)
               PROVE  r \in RawRecords
    BY DEF Stored
  <1>1. d[q].recs \in Seq(RawRecords)
    BY DEF IsDir, File
  <1> QED
    BY <1>1 DEF Range

\* One copy more of p, and the same of every other path.
LEMMA AddCopy ==
    ASSUME NEW B, IsABag(B), NEW p
    PROVE  /\ IsABag(BagAdd(B, p))
           /\ DOMAIN BagAdd(B, p) = DOMAIN B \cup {p}
           /\ \A q \in DOMAIN B : q # p => BagAdd(B, p)[q] = B[q]
           /\ p \notin DOMAIN B => BagAdd(B, p)[p] = 1
  BY DEF IsABag, BagAdd

\* One copy less of p, and the same of every other path.
LEMMA RemoveCopy ==
    ASSUME NEW B, IsABag(B), NEW p \in DOMAIN B
    PROVE  /\ IsABag(BagRemove(B, p))
           /\ DOMAIN B \ {p} \subseteq DOMAIN BagRemove(B, p)
           /\ DOMAIN BagRemove(B, p) \subseteq DOMAIN B
           /\ \A q \in DOMAIN B : q # p => BagRemove(B, p)[q] = B[q]
           /\ B[p] = 1 => p \notin DOMAIN BagRemove(B, p)
  <1>1. CASE B[p] = 1
    BY <1>1 DEF IsABag, BagRemove
  <1>2. CASE B[p] # 1
    BY <1>2 DEF IsABag, BagRemove
  <1> QED
    BY <1>1, <1>2

\* The empty bag has no path in it.
LEMMA NoCopies == IsABag(EmptyBag) /\ DOMAIN EmptyBag = {}
  BY DEF IsABag, EmptyBag, SetToBag

\* A step of the loop keeps the types.
LEMMA LoopType ==
    ASSUME TypeOK, NEW p \in DOMAIN paths, AtPath(p)
    PROVE  TypeOK'
  <1>1. UNCHANGED <<dir, returned, phase, historyVars>> /\ paths' = BagRemove(paths, p)
    BY DEF AtPath, ReadTable, TableRefused, ReadLog, ReadFails, OtherFile, Handled
  <1>2. records' \in Seq(Segment)
    <2>1. CASE UNCHANGED records
      BY <2>1 DEF TypeOK
    <2>2. CASE Readable(p) /\ Surface(p)
      <3>1. [origin |-> p, recs |-> dir[p].recs] \in Segment
        BY <2>2, SegmentType DEF Readable
      <3> QED
        BY <2>2, <3>1 DEF Surface, TypeOK
    <2> QED
      BY <2>1, <2>2 DEF AtPath, ReadTable, TableRefused, ReadLog, ReadFails, OtherFile
  <1>3. IsABag(paths') /\ DOMAIN paths' \subseteq Path
    BY <1>1, RemoveCopy DEF TypeOK
  <1> QED
    BY <1>1, <1>2, <1>3 DEF TypeOK, IsDir, historyVars

\* Every step keeps the types.
LEMMA TypeStep ==
    ASSUME TypeOK, [ReaderNext \/ Environment]_scanVars
    PROVE  TypeOK'
  <1>1. CASE OpenDir
    <2>1. Stored(dir) \in SUBSET RawRecords
      BY StoredType DEF TypeOK
    <2> QED
      BY <1>1, <2>1 DEF OpenDir, TypeOK, IsDir
  <1>2. CASE OpenFails \/ EntryFails \/ EndOfEntries \/ Return
    BY <1>2 DEF OpenFails, EntryFails, EndOfEntries, Return, TypeOK, IsDir, historyVars
  <1>3. CASE ListEntry
    <2>1. PICK p \in DOMAIN dir : returned' = returned \cup {p} /\ paths' = BagAdd(paths, p)
      BY <1>3 DEF ListEntry
    <2>2. p \in Path
      BY DEF TypeOK, IsDir
    <2>3. IsABag(paths) /\ DOMAIN paths \subseteq Path
      BY DEF TypeOK
    <2>4. IsABag(paths') /\ DOMAIN paths' \subseteq Path
      <3>1. IsABag(BagAdd(paths, p)) /\ DOMAIN BagAdd(paths, p) = DOMAIN paths \cup {p}
        BY <2>3, AddCopy, Zenon
      <3> QED
        BY <2>1, <2>2, <2>3, <3>1
    <2> QED
      BY <1>3, <2>1, <2>4 DEF ListEntry, TypeOK, IsDir, historyVars
  <1>4. CASE \E p \in DOMAIN paths : AtPath(p)
    BY <1>4, LoopType
  <1>5. CASE Environment
    BY <1>5 DEF Environment, Observe, readerVars, TypeOK, IsDir
  <1>6. CASE UNCHANGED scanVars
    BY <1>6 DEF scanVars, readerVars, historyVars, TypeOK, IsDir
  <1> QED
    BY <1>1, <1>2, <1>3, <1>4, <1>5, <1>6, ReaderSteps

\* Type correctness of the reader in any directory that evolves.
THEOREM TypeCorrect == OpenSpec => []TypeOK
  <1>1. Init => TypeOK
    BY NoCopies DEF Init, TypeOK, IsDir
  <1>2. TypeOK /\ [ReaderNext \/ Environment]_scanVars => TypeOK'
    BY TypeStep
  <1> QED
    BY <1>1, <1>2, PTL DEF OpenSpec

-----------------------------------------------------------------------------
(* Order.                                                                  *)

\* Of two paths one comes before the other, and not the other way round.
LEMMA PathsAreOrdered ==
    /\ \A p, q \in Path : p # q => PathBefore(p, q) \/ PathBefore(q, p)
    /\ \A p, q \in Path : ~(PathBefore(p, q) /\ PathBefore(q, p))
  <1>1. \A e, f \in Extension : Rank(e) \in Nat /\ (Rank(e) = Rank(f) => e = f)
    BY DEF Extension, TABLE_EXT, Rank
  <1>2. \A p, q \in Path : /\ p.num \in Nat /\ p.ext \in Extension
                           /\ p.num = q.num /\ p.ext = q.ext => p = q
    BY DEF Path
  <1> QED
    BY <1>1, <1>2 DEF PathBefore

\* What a step of the loop at p does to the list and to the output.
LoopStep(p) ==
    /\ phase = "read" /\ phase' = "read" /\ Turn(p)
    /\ paths' = BagRemove(paths, p)
    /\ UNCHANGED <<dir, returned, at_open, kept_files, kept_records>>
    /\ DOMAIN records \subseteq DOMAIN records'
    /\ \A k \in DOMAIN records : records'[k] = records[k]
    /\ \A k \in DOMAIN records' \ DOMAIN records :
           /\ records'[k].origin = p
           /\ \A j \in DOMAIN records' : k < j => FALSE
           /\ \A j \in DOMAIN records' : j # k => j \in DOMAIN records

\* A step of the loop appends one segment at most, that of the file in turn.
LEMMA LoopSteps ==
    ASSUME TypeOK, NEW p \in DOMAIN paths, AtPath(p)
    PROVE  LoopStep(p)
  <1>1. /\ phase = "read" /\ phase' = "read" /\ Turn(p)
        /\ paths' = BagRemove(paths, p)
        /\ UNCHANGED <<dir, returned, at_open, kept_files, kept_records>>
    BY DEF AtPath, ReadTable, TableRefused, ReadLog, ReadFails, OtherFile, Handled, Turn,
           historyVars
  <1>2. CASE UNCHANGED records
    BY <1>1, <1>2 DEF LoopStep
  <1>3. CASE Surface(p)
    <2> DEFINE new == [origin |-> p, recs |-> dir[p].recs]
    <2>1. records' = Append(records, new) /\ records \in Seq(Segment) /\ new.origin = p
      BY <1>3 DEF Surface, TypeOK
    <2> HIDE DEF new
    <2>2. /\ DOMAIN records' = 1..Len(records) + 1
          /\ DOMAIN records = 1..Len(records)
          /\ Len(records) \in Nat
          /\ records'[Len(records) + 1] = new
          /\ \A k \in DOMAIN records : records'[k] = records[k]
      BY <2>1
    <2>3. DOMAIN records' \ DOMAIN records = {Len(records) + 1}
      BY <2>2
    <2>4. \A j \in DOMAIN records' : /\ ~(Len(records) + 1 < j)
                                     /\ j # Len(records) + 1 => j \in DOMAIN records
      BY <2>2
    <2> QED
      BY <1>1, <2>1, <2>2, <2>3, <2>4 DEF LoopStep
  <1> QED
    BY <1>2, <1>3 DEF AtPath, ReadTable, TableRefused, ReadLog, ReadFails, OtherFile

\* A file read in its turn comes not before the output and not after the rest.
LEMMA LoopOrder ==
    ASSUME TypeOK, OrderInv, NEW p \in DOMAIN paths, AtPath(p)
    PROVE  OrderInv'
  <1>1. LoopStep(p)
    BY LoopSteps
  <1>2. DOMAIN paths' \subseteq DOMAIN paths /\ DOMAIN paths \subseteq Path
    BY <1>1, RemoveCopy DEF LoopStep, TypeOK
  <1>3. \A q \in DOMAIN paths : ~PathBefore(q, p)
    <2> SUFFICES ASSUME NEW q \in DOMAIN paths, PathBefore(q, p)
                 PROVE  FALSE
      OBVIOUS
    <2>1. q # p => PathBefore(p, q)
      BY <1>1 DEF LoopStep, Turn
    <2>2. ~PathBefore(p, p)
      BY <1>2, PathsAreOrdered
    <2> QED
      BY <1>2, <2>1, <2>2, PathsAreOrdered
  <1>4. ASSUME NEW k \in DOMAIN records', NEW q \in DOMAIN paths'
        PROVE  ~PathBefore(q, records'[k].origin)
    BY <1>1, <1>2, <1>3 DEF LoopStep, OrderInv
  <1>5. ASSUME NEW j \in DOMAIN records', NEW k \in DOMAIN records', j < k
        PROVE  ~PathBefore(records'[k].origin, records'[j].origin)
    <2>1. j \in DOMAIN records /\ records'[j] = records[j]
      BY <1>1, <1>5 DEF LoopStep
    <2>2. CASE k \in DOMAIN records
      BY <1>1, <1>5, <2>1, <2>2 DEF LoopStep, OrderInv
    <2>3. CASE k \notin DOMAIN records
      BY <1>1, <2>1, <2>3 DEF LoopStep, OrderInv
    <2> QED
      BY <2>2, <2>3
  <1> QED
    BY <1>1, <1>4, <1>5 DEF LoopStep, OrderInv

\* Every step keeps the order.
LEMMA OrderStep ==
    ASSUME TypeOK, OrderInv, [ReaderNext \/ Environment]_scanVars
    PROVE  OrderInv'
  <1>1. CASE \E p \in DOMAIN paths : AtPath(p)
    BY <1>1, LoopOrder
  <1>2. CASE EndOfEntries
    BY <1>2 DEF EndOfEntries, OrderInv
  <1>3. CASE OpenDir \/ OpenFails \/ ListEntry \/ EntryFails \/ Return
    BY <1>3 DEF OpenDir, OpenFails, ListEntry, EntryFails, Return, OrderInv
  <1>4. CASE Environment \/ UNCHANGED scanVars
    BY <1>4 DEF Environment, Observe, scanVars, readerVars, OrderInv
  <1> QED
    BY <1>1, <1>2, <1>3, <1>4, ReaderSteps

\* The iterator returns p once while it stays, and the loop reads it once.
LEMMA ReaderOnce ==
    ASSUME TypeOK, OrderInv, NEW p, Once(p), ReaderNext, ~OpenDir
    PROVE  Once(p)'
  <1>1. CASE OpenFails \/ EntryFails \/ Return
    BY <1>1 DEF OpenFails, EntryFails, Return, Once
  <1>2. CASE EndOfEntries
    BY <1>2 DEF EndOfEntries, Once, OrderInv
  <1>3. CASE ListEntry
    <2>1. PICK q \in DOMAIN dir \ returned :
              returned' = returned \cup {q} /\ paths' = BagAdd(paths, q)
      BY <1>3 DEF ListEntry
    <2>2. phase = "list" /\ UNCHANGED <<dir, phase, records>>
      BY <1>3 DEF ListEntry
    <2>3. /\ DOMAIN paths' = DOMAIN paths \cup {q}
          /\ \A r \in DOMAIN paths : r # q => paths'[r] = paths[r]
          /\ q \notin DOMAIN paths => paths'[q] = 1
      <3>1. IsABag(paths)
        BY DEF TypeOK
      <3>2. /\ DOMAIN BagAdd(paths, q) = DOMAIN paths \cup {q}
            /\ \A r \in DOMAIN paths : r # q => BagAdd(paths, q)[r] = paths[r]
            /\ q \notin DOMAIN paths => BagAdd(paths, q)[q] = 1
        BY <3>1, AddCopy, Zenon
      <3> QED
        BY <2>1, <3>2
    <2>4. p = q => p \notin DOMAIN paths
      BY <2>2 DEF Once
    <2> QED
      BY <2>1, <2>2, <2>3, <2>4 DEF Once
  <1>4. CASE \E q \in DOMAIN paths : AtPath(q)
    <2>1. PICK q \in DOMAIN paths : LoopStep(q)
      BY <1>4, LoopSteps
    <2>2. /\ DOMAIN paths' \subseteq DOMAIN paths
          /\ \A r \in DOMAIN paths : r # q => paths'[r] = paths[r]
          /\ paths[q] = 1 => q \notin DOMAIN paths'
      BY <2>1, RemoveCopy DEF LoopStep, TypeOK
    <2>3. p \in DOMAIN paths' => p # q /\ paths'[p] = 1
      BY <2>2 DEF Once
    <2>4. p \in DOMAIN paths' => \A k \in DOMAIN records' : records'[k].origin # p
      BY <2>1, <2>2, <2>3 DEF LoopStep, Once
    <2>5. ASSUME NEW j \in DOMAIN records', NEW k \in DOMAIN records', j < k,
                 records'[j].origin = p, records'[k].origin = p
          PROVE  FALSE
      <3>1. j \in DOMAIN records /\ records[j].origin = p
        BY <2>1, <2>5 DEF LoopStep
      <3>2. CASE k \in DOMAIN records
        BY <2>1, <2>5, <3>1, <3>2 DEF LoopStep, Once
      <3>3. CASE k \notin DOMAIN records
        BY <2>1, <2>5, <3>1, <3>3 DEF LoopStep, Once
      <3> QED
        BY <3>2, <3>3
    <2> QED
      BY <2>1, <2>3, <2>4, <2>5 DEF LoopStep, Once
  <1> QED
    BY <1>1, <1>2, <1>3, <1>4, ReaderSteps

\* The iterator does not return p again, if p has not come back.
LEMMA ObserveOnce ==
    ASSUME NEW p, Once(p), Observe, p \in DOMAIN paths \cap DOMAIN dir' => p \in DOMAIN dir
    PROVE  Once(p)'
  BY DEF Observe, readerVars, Once

\* Every step lists and reads the files that stay once at most.
LEMMA KeptOnceStep ==
    ASSUME TypeOK, OrderInv, KeptOnceInv, [ReaderNext \/ Environment]_scanVars
    PROVE  KeptOnceInv'
  <1>1. CASE OpenDir
    <2>1. phase' = "list" /\ paths' = EmptyBag /\ records' = <<>>
      BY <1>1 DEF OpenDir, KeptOnceInv, OrderInv
    <2> QED
      BY <2>1, NoCopies DEF KeptOnceInv, Once
  <1>2. CASE ReaderNext /\ ~OpenDir
    <2>1. phase' # "open" /\ UNCHANGED kept_files
      <3>1. CASE \E p \in DOMAIN paths : AtPath(p)
        BY <3>1, LoopSteps DEF LoopStep
      <3> QED
        BY <1>2, <3>1, ReaderSteps
        DEF OpenFails, ListEntry, EntryFails, EndOfEntries, Return, historyVars
    <2> QED
      BY <1>2, <2>1, ReaderOnce DEF KeptOnceInv
  <1>3. CASE Environment
    <2>1. UNCHANGED readerVars /\ kept_files' = kept_files \cap DOMAIN dir' /\ Observe
      BY <1>3 DEF Environment, Observe
    <2>2. \A p \in kept_files' : p \in kept_files /\ p \in DOMAIN dir
      BY <2>1 DEF TypeOK
    <2> QED
      BY <2>1, <2>2, ObserveOnce DEF KeptOnceInv, readerVars
  <1>4. CASE UNCHANGED scanVars
    BY <1>4 DEF scanVars, readerVars, historyVars, KeptOnceInv, Once
  <1> QED
    BY <1>1, <1>2, <1>3, <1>4

\* In any directory that evolves, the output is in the order of the sorted
\* paths, and no file that stays from the opening on is read twice; one that
\* goes and comes back may be.
THEOREM AlwaysSorted == OpenSpec => []SortedOutput
  <1> DEFINE Inv == TypeOK /\ OrderInv /\ KeptOnceInv
  <1>1. Init => Inv
    BY NoCopies DEF Init, TypeOK, IsDir, OrderInv, KeptOnceInv
  <1>2. Inv /\ [ReaderNext \/ Environment]_scanVars => Inv'
    BY TypeStep, OrderStep, KeptOnceStep
  <1>3. Inv => SortedOutput
    BY DEF OrderInv, KeptOnceInv, Once, SortedOutput
  <1> QED
    BY <1>1, <1>2, <1>3, PTL DEF OpenSpec

-----------------------------------------------------------------------------
(* Files that stay.                                                        *)

\* The records a step of the environment adds are added to the kept files.
LEMMA KeptStep ==
    ASSUME TypeOK, KeptInv, [ReaderNext \/ Environment]_scanVars
    PROVE  KeptInv'
  <1>1. CASE OpenDir
    <2> SUFFICES ASSUME NEW p \in DOMAIN dir
                 PROVE  IsPrefix(dir[p].recs, dir[p].recs)
      BY <1>1 DEF OpenDir, KeptInv
    <2> QED
      BY SegmentType, PrefixRefl
  <1>2. CASE OpenFails \/ ListEntry \/ EntryFails \/ EndOfEntries \/ Return
    BY <1>2 DEF OpenFails, ListEntry, EntryFails, EndOfEntries, Return, historyVars, KeptInv
  <1>3. CASE \E p \in DOMAIN paths : AtPath(p)
    <2>1. UNCHANGED <<dir, historyVars>>
      BY <1>3 DEF AtPath, ReadTable, TableRefused, ReadLog, ReadFails, OtherFile, Handled
    <2> QED
      BY <2>1 DEF historyVars, KeptInv
  <1>4. CASE Environment
    <2> SUFFICES ASSUME NEW p \in kept_files'
                 PROVE  /\ IsPrefix(at_open'[p].recs, dir'[p].recs)
                        /\ dir'[p].readable = at_open'[p].readable
                        /\ p.ext # "log" /\ at_open'[p].sound =>
                              dir'[p].sound /\ dir'[p].recs = at_open'[p].recs
      BY DEF KeptInv
    <2>1. /\ p \in kept_files
          /\ p \in DOMAIN dir
          /\ p \in DOMAIN dir'
          /\ p \in DOMAIN at_open
          /\ at_open' = at_open
          /\ IsPrefix(dir[p].recs, dir'[p].recs)
          /\ p.ext # "log" /\ dir[p].sound => dir'[p] = dir[p]
          /\ dir'[p].readable = dir[p].readable
      BY <1>4 DEF Environment, Observe, Evolves, TypeOK
    <2>2. /\ at_open[p].recs \in Seq(RawRecords)
          /\ dir[p].recs \in Seq(RawRecords)
          /\ dir'[p].recs \in Seq(RawRecords)
      BY <1>4, <2>1 DEF Environment, TypeOK, IsDir, File
    <2>3. IsPrefix(at_open[p].recs, dir'[p].recs)
      BY <2>1, <2>2, PrefixTrans DEF KeptInv
    <2> QED
      BY <2>1, <2>3 DEF KeptInv
  <1>5. CASE UNCHANGED scanVars
    BY <1>5 DEF scanVars, historyVars, KeptInv
  <1> QED
    BY <1>1, <1>2, <1>3, <1>4, <1>5, ReaderSteps

\* What has been read stays read.
LEMMA ReadStays ==
    ASSUME TypeOK, NEW p, Read(p), at_open' = at_open,
           UNCHANGED records \/ \E q \in DOMAIN paths : Surface(q)
    PROVE  Read(p)'
  <1>1. PICK k \in DOMAIN records : /\ records[k].origin = p
                                    /\ IsPrefix(at_open[p].recs, records[k].recs)
    BY DEF Read
  <1>2. k \in DOMAIN records' /\ records'[k] = records[k]
    <2>1. CASE UNCHANGED records
      BY <2>1
    <2>2. CASE \E q \in DOMAIN paths : Surface(q)
      <3>1. PICK new : records' = Append(records, new)
        BY <2>2 DEF Surface
      <3>2. records \in Seq(Segment)
        BY DEF TypeOK
      <3> QED
        BY <3>1, <3>2
    <2> QED
      BY <2>1, <2>2
  <1> QED
    BY <1>1, <1>2 DEF Read

\* The file in its turn is read if it stays and parses.
LEMMA TurnIsRead ==
    ASSUME TypeOK, KeptInv, NEW p \in DOMAIN paths, AtPath(p),
           p \in kept_files, Parses(p, at_open[p])
    PROVE  Read(p)'
  <1>1. /\ p \in DOMAIN dir
        /\ Readable(p)
        /\ p.ext \in TABLE_EXT => dir[p].sound
        /\ p.ext \in TABLE_EXT \cup {"log"}
        /\ IsPrefix(at_open[p].recs, dir[p].recs)
    BY DEF TypeOK, KeptInv, Parses, Readable, TABLE_EXT
  <1>2. Surface(p) /\ at_open' = at_open
    BY <1>1 DEF AtPath, ReadTable, TableRefused, ReadLog, ReadFails, OtherFile, Handled,
                historyVars
  <1>3. /\ Len(records) + 1 \in DOMAIN records'
        /\ records'[Len(records) + 1] = [origin |-> p, recs |-> dir[p].recs]
    BY <1>2 DEF Surface, TypeOK
  <1> QED
    BY <1>1, <1>2, <1>3 DEF Read

\* A step of the loop takes a path from the list, once it is read.
LEMMA LoopCovers ==
    ASSUME TypeOK, KeptInv, CoveredInv, NEW p \in DOMAIN paths, AtPath(p)
    PROVE  CoveredInv'
  <1>1. /\ phase = "read"
        /\ phase' = "read"
        /\ paths' = BagRemove(paths, p)
        /\ UNCHANGED <<at_open, kept_files>>
        /\ UNCHANGED records \/ \E q \in DOMAIN paths : Surface(q)
    BY DEF AtPath, ReadTable, TableRefused, ReadLog, ReadFails, OtherFile, Handled, Turn,
           historyVars
  <1> SUFFICES ASSUME NEW q \in kept_files, q \notin DOMAIN paths', Parses(q, at_open[q])
               PROVE  Read(q)'
    BY <1>1 DEF CoveredInv, Parses
  <1>2. CASE q = p
    BY <1>2, TurnIsRead
  <1>3. CASE q # p
    <2>1. q \notin DOMAIN paths
      BY <1>1, <1>3, RemoveCopy DEF TypeOK
    <2> QED
      BY <1>1, <2>1, ReadStays DEF CoveredInv
  <1> QED
    BY <1>2, <1>3

\* Every step keeps the files that stay listed or read.
LEMMA CoveredStep ==
    ASSUME TypeOK, KeptInv, CoveredInv, [ReaderNext \/ Environment]_scanVars
    PROVE  CoveredInv'
  <1>1. CASE OpenDir \/ OpenFails \/ ListEntry \/ EntryFails
    BY <1>1 DEF OpenDir, OpenFails, ListEntry, EntryFails, CoveredInv
  <1>2. CASE EndOfEntries
    BY <1>2 DEF EndOfEntries, CoveredInv, historyVars
  <1>3. CASE Return
    BY <1>3 DEF Return, CoveredInv, historyVars, Read
  <1>4. CASE \E p \in DOMAIN paths : AtPath(p)
    BY <1>4, LoopCovers
  <1>5. CASE Environment \/ UNCHANGED scanVars
    <2>1. kept_files' \subseteq kept_files /\ UNCHANGED <<readerVars, at_open>>
      BY <1>5 DEF Environment, Observe, scanVars, historyVars
    <2> QED
      BY <2>1 DEF CoveredInv, Read, readerVars
  <1> QED
    BY <1>1, <1>2, <1>3, <1>4, <1>5, ReaderSteps

\* No file that stays from the opening to the return is lost: its records at
\* the opening are surfaced, whatever comes, grows and goes around it.
THEOREM StableFilesNeverLost == OpenSpec => []StableFilesSurfaced
  <1>1. Init => StableInv
    BY NoCopies DEF Init, StableInv, TypeOK, IsDir, KeptInv, CoveredInv
  <1>2. StableInv /\ [ReaderNext \/ Environment]_scanVars => StableInv'
    BY TypeStep, KeptStep, CoveredStep DEF StableInv
  <1>3. StableInv => StableFilesSurfaced
    BY NoCopies DEF StableInv, CoveredInv, StableFilesSurfaced, Read
  <1> QED
    BY <1>1, <1>2, <1>3, PTL DEF OpenSpec

-----------------------------------------------------------------------------
(* LevelDB: the directory of a database at work evolves.                   *)

\* There is a log to append to, and nobody is about to replace it.
HasLog == \E p \in DB!Logs \ replaces : \A q \in DB!Logs : q.num <= p.num

\* A file number is given once; a table is written under the eyes of nobody
\* but its writer; what is removed was replaced before.
DBInv ==
    /\ next_file \in Nat
    /\ last_seq \in Nat
    /\ \A p \in DOMAIN dir : p.num < next_file
    /\ \A p \in building : p \in DOMAIN dir /\ p.ext = "ldb" /\ ~dir[p].sound
    /\ replaces \cup obsolete \subseteq DOMAIN dir
    /\ building \cap obsolete = {}
    /\ replaces \cap obsolete = {}
    /\ HasLog

\* A file that keeps what it has and its rights evolves.
LEMMA SameFilesEvolve ==
    ASSUME TypeOK, \A p \in DOMAIN dir \cap DOMAIN dir' : dir'[p] = dir[p]
    PROVE  Evolves
  BY SegmentType, PrefixRefl DEF Evolves

\* A new file has a path that no file ever had, and changes no other.
LEMMA CreateEvolves ==
    ASSUME TypeOK, DBInv, NEW ext \in {"log", "ldb"}, NEW recs \in Seq(RawRecords),
           DB!Create(ext, recs)
    PROVE  /\ DB!NewFile(ext) \notin DOMAIN dir
           /\ DOMAIN dir' = DOMAIN dir \cup {DB!NewFile(ext)}
           /\ \A p \in DOMAIN dir : dir'[p] = dir[p]
           /\ ~(ext = "log") => ~dir'[DB!NewFile(ext)].sound
           /\ next_file' = next_file + 1
           /\ \A p \in DOMAIN dir' : p.num < next_file'
           /\ IsDir(dir')
           /\ Evolves
  <1> DEFINE new  == DB!NewFile(ext)
             file == [recs |-> recs, sound |-> ext = "log", readable |-> TRUE]
  <1>1. /\ new.num = next_file /\ new.ext = ext /\ new \in Path
        /\ next_file \in Nat
    BY DEF DB!NewFile, DBInv, Path, Extension, TABLE_EXT
  <1>2. new \notin DOMAIN dir
    BY <1>1 DEF DBInv
  <1>3. dir' = [p \in DOMAIN dir \cup {new} |-> IF p = new THEN file ELSE dir[p]]
    BY DEF DB!Create
  <1>4. file \in File /\ (~(ext = "log") => ~file.sound)
    BY DEF File
  <1> HIDE DEF new, file
  <1>5. /\ DOMAIN dir' = DOMAIN dir \cup {new}
        /\ \A p \in DOMAIN dir : dir'[p] = dir[p]
        /\ dir'[new] = file
    BY <1>2, <1>3
  <1>6. /\ next_file' = next_file + 1
        /\ \A p \in DOMAIN dir' : p.num < next_file'
    <2>1. next_file' = next_file + 1
      BY DEF DB!Create
    <2>2. \A p \in DOMAIN dir : p.num \in Nat /\ p.num < next_file
      BY SegmentType DEF DBInv, Path
    <2> QED
      BY <1>1, <1>5, <2>1, <2>2
  <1>7. IsDir(dir')
    <2>1. dir' = [p \in DOMAIN dir' |-> dir'[p]]
      BY <1>3
    <2>2. \A p \in DOMAIN dir' : p \in Path /\ dir'[p] \in File
      BY <1>1, <1>4, <1>5 DEF TypeOK, IsDir
    <2> QED
      BY <2>1, <2>2 DEF IsDir
  <1>8. Evolves
    BY <1>5, SameFilesEvolve
  <1> QED
    BY <1>2, <1>4, <1>5, <1>6, <1>7, <1>8 DEF new

\* The records of a table being written are some of those it is made from.
LEMMA InKeyOrderType ==
    ASSUME NEW S \in SUBSET RawRecords, NEW recs \in DB!InKeyOrder(S)
    PROVE  recs \in Seq(RawRecords)
  <1>1. PICK n \in Nat : recs \in [1..n -> S]
    BY DEF DB!InKeyOrder
  <1> QED
    BY <1>1

\* The log that is appended to.
LEMMA CurrentLogProperties ==
    ASSUME DBInv
    PROVE  /\ DB!CurrentLog \in DB!Logs
           /\ \A q \in DB!Logs : q.num <= DB!CurrentLog.num
  BY DEF DB!CurrentLog, DBInv, HasLog

\* What is stored in a file of the directory are records.
LEMMA StoredIn ==
    ASSUME TypeOK, NEW p \in DOMAIN dir
    PROVE  Range(dir[p].recs) \subseteq RawRecords
  <1>1. dir[p].recs \in Seq(RawRecords)
    BY SegmentType
  <1> QED
    BY <1>1 DEF Range

-----------------------------------------------------------------------------
(* One lemma for each action of LevelDB.                                   *)

\* What comes has a number that no file had, what goes was replaced before, and
\* nothing is replaced unless something newer comes.
Succeeds ==
    /\ next_file <= next_file'
    /\ \A p \in DOMAIN dir' \ DOMAIN dir : p.num = next_file
    /\ DOMAIN dir \ DOMAIN dir' \subseteq obsolete
    /\ \/ replaces' \cup obsolete' \subseteq replaces \cup obsolete
       \/ \E p \in DOMAIN dir' \ DOMAIN dir : p \notin replaces' \cup obsolete'

\* What a step of LevelDB has to be for the reader.
Kept == IsDir(dir') /\ Evolves /\ DBInv' /\ Succeeds

\* An append to the current log.
LEMMA PutKept ==
    ASSUME TypeOK, DBInv, NEW k \in Keys, DB!Put(k)
    PROVE  Kept
  <1> DEFINE log == DB!CurrentLog
             rec == [key |-> k, seq |-> last_seq + 1]
  <1>1. log \in DOMAIN dir /\ log.ext = "log"
    BY CurrentLogProperties DEF DB!Logs
  <1>2. rec \in RawRecords /\ last_seq' = last_seq + 1
    <2>1. last_seq < MaxSeq /\ last_seq \in Nat /\ last_seq' = last_seq + 1
      BY DEF DB!Put, DBInv
    <2>2. last_seq + 1 \in 1..MaxSeq
      BY <2>1, WritesAssumption
    <2> QED
      BY <2>1, <2>2, WritesAssumption
  <1>3. /\ dir' = [dir EXCEPT ![log].recs = Append(@, rec)]
        /\ UNCHANGED <<next_file, building, replaces, obsolete>>
    BY DEF DB!Put
  <1> HIDE DEF rec, log
  <1>4. /\ DOMAIN dir' = DOMAIN dir
        /\ \A p \in DOMAIN dir \ {log} : dir'[p] = dir[p]
        /\ dir'[log] = [dir[log] EXCEPT !.recs = Append(@, rec)]
    BY <1>1, <1>3
  <1>5. /\ dir[log] \in File /\ dir[log].recs \in Seq(RawRecords)
        /\ dir'[log].recs = Append(dir[log].recs, rec)
        /\ dir'[log].sound = dir[log].sound
        /\ dir'[log].readable = dir[log].readable
        /\ dir'[log] \in File
    <2>1. dir[log] \in File
      BY <1>1 DEF TypeOK, IsDir
    <2>2. Append(dir[log].recs, rec) \in Seq(RawRecords)
      BY <1>2, <2>1 DEF File
    <2> QED
      BY <1>4, <2>1, <2>2 DEF File
  <1>6. IsDir(dir')
    <2>1. dir' = [p \in DOMAIN dir' |-> dir'[p]]
      BY <1>3
    <2>2. \A p \in DOMAIN dir' : p \in Path /\ dir'[p] \in File
      BY <1>4, <1>5 DEF TypeOK, IsDir
    <2> QED
      BY <2>1, <2>2 DEF IsDir
  <1>7. Evolves
    <2>1. IsPrefix(dir[log].recs, dir'[log].recs)
      BY <1>2, <1>5 DEF IsPrefix
    <2>2. \A p \in DOMAIN dir \ {log} : IsPrefix(dir[p].recs, dir'[p].recs)
      BY <1>4, SegmentType, PrefixRefl
    <2> QED
      BY <1>1, <1>4, <1>5, <2>1, <2>2 DEF Evolves
  <1>8. DBInv'
    <2>1. DB!Logs' = DB!Logs
      BY <1>3, <1>4 DEF DB!Logs
    <2>2. HasLog'
      BY <1>3, <2>1 DEF DBInv, HasLog
    <2>3. \A p \in building : dir'[p] = dir[p]
      BY <1>1, <1>4 DEF DBInv
    <2>4. next_file' \in Nat /\ last_seq' \in Nat
      BY <1>2, <1>3 DEF DBInv
    <2> QED
      BY <1>3, <1>4, <2>2, <2>3, <2>4 DEF DBInv
  <1>9. Succeeds
    BY <1>3, <1>4 DEF Succeeds, DBInv
  <1> QED
    BY <1>6, <1>7, <1>8, <1>9 DEF Kept

\* A new log, which is the current one from now on.
LEMMA RotateKept ==
    ASSUME TypeOK, DBInv, DB!Rotate
    PROVE  Kept
  <1> DEFINE new == DB!NewFile("log")
  <1>1. DB!Create("log", <<>>) /\ UNCHANGED <<last_seq, building, replaces, obsolete>>
    BY DEF DB!Rotate
  <1>2. /\ new \notin DOMAIN dir
        /\ DOMAIN dir' = DOMAIN dir \cup {new}
        /\ \A p \in DOMAIN dir : dir'[p] = dir[p]
        /\ next_file' = next_file + 1
        /\ \A p \in DOMAIN dir' : p.num < next_file'
        /\ IsDir(dir')
        /\ Evolves
    <2>1. <<>> \in Seq(RawRecords)
      OBVIOUS
    <2> QED
      BY <1>1, <2>1, CreateEvolves, "log" \in {"log", "ldb"}
  <1>3. new.num = next_file /\ new.ext = "log"
    BY DEF DB!NewFile
  <1> HIDE DEF new
  <1>4. HasLog'
    <2>1. new \in DB!Logs' \ replaces'
      BY <1>1, <1>2, <1>3 DEF DB!Logs, DBInv
    <2>2. \A q \in DB!Logs' : q.num <= new.num
      <3>1. \A q \in DOMAIN dir : q.num < next_file /\ q.num \in Nat
        BY SegmentType DEF DBInv, Path
      <3> QED
        BY <1>2, <1>3, <3>1 DEF DB!Logs, DBInv
    <2> QED
      BY <2>1, <2>2 DEF HasLog
  <1>5. DBInv'
    BY <1>1, <1>2, <1>4 DEF DBInv
  <1>6. Succeeds
    BY <1>1, <1>2, <1>3 DEF Succeeds, DBInv
  <1> QED
    BY <1>2, <1>5, <1>6 DEF Kept

\* A table is begun, to stand in for files of the directory that are not needed
\* to go on.
LEMMA StartTableKept ==
    ASSUME TypeOK, DBInv, NEW inputs \in SUBSET (DOMAIN dir \ obsolete),
           NEW S \in SUBSET RawRecords, DB!StartTable(inputs, S),
           NEW m \in DB!Logs \ inputs, \A q \in DB!Logs : q.num <= m.num
    PROVE  Kept
  <1> DEFINE new == DB!NewFile("ldb")
  <1>1. PICK recs \in DB!InKeyOrder(S) : DB!Create("ldb", recs)
    BY DEF DB!StartTable
  <1>2. /\ new \notin DOMAIN dir
        /\ DOMAIN dir' = DOMAIN dir \cup {new}
        /\ \A p \in DOMAIN dir : dir'[p] = dir[p]
        /\ ~dir'[new].sound
        /\ next_file' = next_file + 1
        /\ \A p \in DOMAIN dir' : p.num < next_file'
        /\ IsDir(dir')
        /\ Evolves
    <2>1. recs \in Seq(RawRecords)
      BY InKeyOrderType
    <2> QED
      BY <1>1, <2>1, CreateEvolves, "ldb" \in {"log", "ldb"}, "ldb" # "log"
  <1>3. new.ext = "ldb" /\ new.num = next_file /\ building' = {new} /\ replaces' = inputs
        /\ UNCHANGED <<last_seq, obsolete>>
    BY DEF DB!NewFile, DB!StartTable
  <1> HIDE DEF new
  <1>4. DB!Logs' = DB!Logs
    BY <1>2, <1>3 DEF DB!Logs
  <1>5. HasLog'
    BY <1>3, <1>4 DEF HasLog
  <1>6. DBInv'
    BY <1>2, <1>3, <1>5 DEF DBInv
  <1>7. Succeeds
    <2>1. new \notin replaces' \cup obsolete'
      BY <1>2, <1>3 DEF DBInv
    <2> QED
      BY <1>2, <1>3, <2>1 DEF Succeeds, DBInv
  <1> QED
    BY <1>2, <1>6, <1>7 DEF Kept

\* The log before the current one is flushed to a table.
LEMMA StartFlushKept ==
    ASSUME TypeOK, DBInv, DB!StartFlush
    PROVE  Kept
  <1>1. PICK p \in DB!Logs \ {DB!CurrentLog} : DB!StartTable({p}, Range(dir[p].recs))
    BY DEF DB!StartFlush, DB!Range, Range
  <1>2. {p} \in SUBSET (DOMAIN dir \ obsolete)
    BY DEF DB!Logs
  <1>3. Range(dir[p].recs) \in SUBSET RawRecords
    BY <1>2, StoredIn
  <1>4. DB!CurrentLog \in DB!Logs \ {p} /\ \A q \in DB!Logs : q.num <= DB!CurrentLog.num
    BY CurrentLogProperties
  <1> QED
    BY <1>1, <1>2, <1>3, <1>4, StartTableKept

\* Tables are merged into one.
LEMMA StartCompactionKept ==
    ASSUME TypeOK, DBInv, DB!StartCompaction
    PROVE  Kept
  <1>1. PICK inputs \in SUBSET DB!Tables :
            \E S \in {UNION {Range(dir[p].recs) : p \in inputs},
                      DB!Newest(UNION {Range(dir[p].recs) : p \in inputs})} :
                DB!StartTable(inputs, S)
    BY DEF DB!StartCompaction, DB!Range, Range
  <1>2. inputs \in SUBSET (DOMAIN dir \ obsolete) /\ \A p \in inputs : p.ext = "ldb"
    BY DEF DB!Tables
  <1> DEFINE all == UNION {Range(dir[p].recs) : p \in inputs}
  <1>3. all \in SUBSET RawRecords
    BY <1>2, StoredIn
  <1> HIDE DEF all
  <1>4. PICK S \in SUBSET RawRecords : DB!StartTable(inputs, S)
    BY <1>1, <1>3 DEF DB!Newest, all
  <1>5. DB!CurrentLog \in DB!Logs \ inputs /\ \A q \in DB!Logs : q.num <= DB!CurrentLog.num
    BY <1>2, CurrentLogProperties DEF DB!Logs
  <1> QED
    BY <1>2, <1>4, <1>5, StartTableKept

\* The table is installed, and what it stands in for is obsolete.
LEMMA FinishTableKept ==
    ASSUME TypeOK, DBInv, DB!FinishTable
    PROVE  Kept
  <1>1. /\ dir' = [p \in DOMAIN dir |->
                     IF p \in building THEN [dir[p] EXCEPT !.sound = TRUE] ELSE dir[p]]
        /\ building' = {}
        /\ obsolete' = obsolete \cup replaces
        /\ replaces' = {}
        /\ UNCHANGED <<last_seq, next_file>>
    BY DEF DB!FinishTable
  <1>2. /\ DOMAIN dir' = DOMAIN dir
        /\ \A p \in DOMAIN dir \ building : dir'[p] = dir[p]
        /\ \A p \in DOMAIN dir \cap building : dir'[p] = [dir[p] EXCEPT !.sound = TRUE]
    BY <1>1
  <1>3. ASSUME NEW p \in DOMAIN dir
        PROVE  /\ p \in Path /\ dir'[p] \in File
               /\ dir'[p].recs = dir[p].recs
               /\ dir'[p].readable = dir[p].readable
               /\ p \in building => ~dir[p].sound
    <2>1. p \in Path /\ dir[p] \in File
      BY DEF TypeOK, IsDir
    <2>2. CASE p \in building
      <3>1. dir'[p] = [dir[p] EXCEPT !.sound = TRUE]
        BY <1>2, <2>2
      <3> QED
        BY <2>1, <3>1 DEF File, DBInv
    <2>3. CASE p \notin building
      BY <1>2, <2>1, <2>3
    <2> QED
      BY <2>2, <2>3
  <1>4. IsDir(dir')
    <2>1. dir' = [p \in DOMAIN dir' |-> dir'[p]]
      BY <1>1
    <2> QED
      BY <1>2, <1>3, <2>1 DEF IsDir
  <1>5. Evolves
    <2>1. \A p \in DOMAIN dir : IsPrefix(dir[p].recs, dir'[p].recs)
      BY <1>3, SegmentType, PrefixRefl
    <2>2. \A p \in DOMAIN dir : dir[p].sound => dir'[p] = dir[p]
      BY <1>2, <1>3
    <2> QED
      BY <1>2, <1>3, <2>1, <2>2 DEF Evolves
  <1>6. HasLog'
    <2>1. DB!Logs' = DB!Logs \ replaces
      BY <1>1, <1>2 DEF DB!Logs
    <2> QED
      BY <1>1, <2>1 DEF DBInv, HasLog
  <1>7. DBInv'
    BY <1>1, <1>2, <1>6 DEF DBInv
  <1>8. Succeeds
    BY <1>1, <1>2 DEF Succeeds, DBInv
  <1> QED
    BY <1>4, <1>5, <1>7, <1>8 DEF Kept

\* A file that was replaced is removed.
LEMMA RemoveObsoleteKept ==
    ASSUME TypeOK, DBInv, DB!RemoveObsolete
    PROVE  Kept
  <1>1. PICK p \in obsolete :
            /\ dir' = [q \in DOMAIN dir \ {p} |-> dir[q]]
            /\ obsolete' = obsolete \ {p}
            /\ UNCHANGED <<last_seq, next_file, building, replaces>>
    BY DEF DB!RemoveObsolete
  <1>2. /\ DOMAIN dir' = DOMAIN dir \ {p}
        /\ \A q \in DOMAIN dir' : dir'[q] = dir[q]
        /\ dir' = [q \in DOMAIN dir' |-> dir'[q]]
    BY <1>1
  <1>3. IsDir(dir')
    BY <1>2 DEF TypeOK, IsDir
  <1>4. Evolves
    BY <1>2, SameFilesEvolve
  <1>5. HasLog'
    <2>1. DB!Logs' = DB!Logs
      BY <1>1, <1>2 DEF DB!Logs
    <2> QED
      BY <1>1, <2>1 DEF DBInv, HasLog
  <1>6. DBInv'
    BY <1>1, <1>2, <1>5 DEF DBInv
  <1>7. Succeeds
    BY <1>1, <1>2 DEF Succeeds, DBInv
  <1> QED
    BY <1>3, <1>4, <1>6, <1>7 DEF Kept

\* Every step of LevelDB.
LEMMA LevelDBKept ==
    ASSUME TypeOK, DBInv, DB!Next
    PROVE  Kept
  BY PutKept, RotateKept, StartFlushKept, StartCompactionKept, FinishTableKept,
     RemoveObsoleteKept DEF DB!Next

\* A step of the reader is none of LevelDB.
LEMMA ReaderKeepsDB ==
    ASSUME DBInv, Reader \/ UNCHANGED vars
    PROVE  DBInv'
  <1>1. UNCHANGED <<dir, dbVars>>
    BY DEF Reader, ReaderNext, OpenDir, OpenFails, ListEntry, EntryFails, EndOfEntries,
           ReadTable, TableRefused, ReadLog, ReadFails, OtherFile, Return, Handled,
           vars, scanVars
  <1>2. DB!Logs' = DB!Logs
    BY <1>1 DEF DB!Logs, dbVars
  <1>3. HasLog'
    BY <1>1, <1>2 DEF DBInv, HasLog, dbVars
  <1> QED
    BY <1>1, <1>3 DEF DBInv, dbVars

\* Every step of the reader beside LevelDB is one in a directory that evolves.
LEMMA LiveStep ==
    ASSUME TypeOK, DBInv, [LiveNext]_vars
    PROVE  [ReaderNext \/ Environment]_scanVars /\ DBInv'
  <1>1. CASE Reader
    BY <1>1, ReaderKeepsDB DEF Reader
  <1>2. CASE Writer
    BY <1>2, LevelDBKept DEF Writer, Kept, Environment
  <1>3. CASE Finished \/ UNCHANGED vars
    BY <1>3, ReaderKeepsDB DEF Finished, vars
  <1> QED
    BY <1>1, <1>2, <1>3 DEF LiveNext

\* The directory an earlier session left is one that LevelDB can go on with.
LEMMA LiveStart ==
    ASSUME LiveInit
    PROVE  Init /\ DBInv
  <1>1. PICK old \in OldDirs : DB!Init(old)
    BY DEF LiveInit
  <1>2. /\ dir = old /\ last_seq = 0 /\ next_file = 3
        /\ building = {} /\ replaces = {} /\ obsolete = {}
    BY <1>1 DEF DB!Init
  <1>3. /\ IsDir(dir)
        /\ \A p \in DOMAIN dir : p.num \in Nat /\ p.num < 3
        /\ \E p \in DOMAIN dir : p.ext = "log"
    BY <1>2, OldDirsAssumption DEF IsDir, Path
  <1>4. HasLog
    <2>1. DB!Logs = {p \in DOMAIN dir : p.ext = "log"}
      BY <1>2 DEF DB!Logs
    <2>2. DB!Logs # {} /\ \A p \in DB!Logs : p.num \in {0, 1, 2}
      BY <1>3, <2>1
    <2>3. \E p \in DB!Logs : \A q \in DB!Logs : q.num <= p.num
      <3>1. CASE \E p \in DB!Logs : p.num = 2
        BY <2>2, <3>1
      <3>2. CASE ~(\E p \in DB!Logs : p.num = 2) /\ \E p \in DB!Logs : p.num = 1
        BY <2>2, <3>2
      <3>3. CASE \A p \in DB!Logs : p.num = 0
        BY <2>2, <3>3
      <3> QED
        BY <2>2, <3>1, <3>2, <3>3
    <2> QED
      BY <1>2, <2>3 DEF HasLog
  <1> QED
    BY <1>2, <1>3, <1>4 DEF LiveInit, Init, DBInv

\* A LevelDB at work is a directory that evolves: the reader beside it keeps
\* what the reader of ReadDir keeps in every such directory.
THEOREM ImplementsOpen == LiveSpec => OpenSpec
  <1>1. LiveInit => Init /\ DBInv /\ TypeOK
    BY LiveStart, NoCopies DEF Init, TypeOK, IsDir
  <1>2. TypeOK /\ DBInv /\ [LiveNext]_vars => (TypeOK /\ DBInv)'
    BY LiveStep, TypeStep
  <1>3. TypeOK /\ DBInv /\ [LiveNext]_vars => [ReaderNext \/ Environment]_scanVars
    BY LiveStep
  <1> QED
    BY <1>1, <1>2, <1>3, PTL DEF LiveSpec, OpenSpec

-----------------------------------------------------------------------------
(* A directory that is as it was at the opening has not changed.           *)

New == DOMAIN dir \ DOMAIN at_open

\* A file that has come since the opening stays, or another one does: what is
\* removed was replaced by what is newer.
NewStays == New # {} => \E p \in New : p \notin replaces \cup obsolete

\* What the output holds of p is what a reader could have had of it.
FromFile(s) ==
    s.origin \in kept_files =>
        /\ Parses(s.origin, dir[s.origin])
        /\ IsPrefix(at_open[s.origin].recs, s.recs)
        /\ IsPrefix(s.recs, dir[s.origin].recs)

FromFiles == \A k \in DOMAIN records : FromFile(records[k])

QuietInv ==
    /\ phase = "open" => paths = EmptyBag
    /\ phase \in {"list", "read", "ok"} =>
           /\ \A p \in DOMAIN at_open : p.num < next_file
           /\ kept_files = DOMAIN at_open \cap DOMAIN dir
           /\ NewStays
           /\ New = {} => /\ DOMAIN paths \subseteq DOMAIN at_open
                          /\ \A k \in DOMAIN records : records[k].origin \in DOMAIN at_open
           /\ FromFiles

\* The listing starts with what is there, and nothing has come since.
LEMMA OpenQuiet ==
    ASSUME TypeOK, OrderInv, DBInv, QuietInv, OpenDir, UNCHANGED dbVars
    PROVE  QuietInv'
  <1>1. /\ phase' = "list" /\ at_open' = dir /\ dir' = dir /\ kept_files' = DOMAIN dir
        /\ paths' = EmptyBag /\ records' = <<>>
    BY DEF OpenDir, QuietInv, OrderInv
  <1>2. New' = {} /\ DOMAIN records' = {} /\ DOMAIN paths' = {}
    BY <1>1, NoCopies DEF New
  <1>3. \A p \in DOMAIN at_open' : p.num < next_file'
    BY <1>1 DEF DBInv, dbVars
  <1> QED
    BY <1>1, <1>2, <1>3 DEF QuietInv, NewStays, FromFiles

\* What a step of the loop adds to the output is what the file has.
LEMMA LoopQuiet ==
    ASSUME TypeOK, KeptInv, QuietInv, NEW p \in DOMAIN paths, AtPath(p), UNCHANGED dbVars
    PROVE  QuietInv'
  <1>1. /\ phase = "read" /\ phase' = "read"
        /\ DOMAIN paths' \subseteq DOMAIN paths
        /\ UNCHANGED <<dir, at_open, kept_files>>
    BY LoopSteps, RemoveCopy DEF LoopStep, TypeOK
  <1> DEFINE new == [origin |-> p, recs |-> dir[p].recs]
  <1>2. \/ UNCHANGED records
        \/ records' = Append(records, new) /\ p \in DOMAIN dir /\ Parses(p, dir[p])
    BY DEF AtPath, ReadTable, TableRefused, ReadLog, ReadFails, OtherFile, Surface, Readable,
           Parses
  <1>3. ASSUME p \in DOMAIN dir, Parses(p, dir[p])
        PROVE  FromFile(new) /\ new.origin = p
    <2>1. IsPrefix(dir[p].recs, dir[p].recs)
      BY <1>3, SegmentType, PrefixRefl
    <2> QED
      BY <1>3, <2>1 DEF FromFile, KeptInv
  <1> HIDE DEF new
  <1>5. \A k \in DOMAIN records' :
            \/ k \in DOMAIN records /\ records'[k] = records[k]
            \/ records'[k] = new /\ p \in DOMAIN dir /\ Parses(p, dir[p])
    <2>1. CASE UNCHANGED records
      BY <2>1
    <2>2. CASE records' = Append(records, new) /\ p \in DOMAIN dir /\ Parses(p, dir[p])
      <3>1. records \in Seq(Segment)
        BY DEF TypeOK
      <3> QED
        BY <2>2, <3>1
    <2> QED
      BY <1>2, <2>1, <2>2
  <1>6. FromFiles'
    <2>1. \A k \in DOMAIN records : FromFile(records[k])
      BY <1>1 DEF QuietInv, FromFiles
    <2>2. \A k \in DOMAIN records' : FromFile(records'[k])
      BY <1>3, <1>5, <2>1
    <2> QED
      BY <1>1, <2>2 DEF FromFiles, FromFile
  <1>7. New' = New /\ NewStays' = NewStays
    BY <1>1 DEF New, NewStays, dbVars
  <1>8. New' = {} => /\ DOMAIN paths' \subseteq DOMAIN at_open'
                     /\ \A k \in DOMAIN records' : records'[k].origin \in DOMAIN at_open'
    BY <1>1, <1>3, <1>5, <1>7 DEF QuietInv
  <1> QED
    BY <1>1, <1>6, <1>7, <1>8 DEF QuietInv, dbVars

\* A step of LevelDB leaves a trace in the directory, now and for ever.
LEMMA WriterQuiet ==
    ASSUME TypeOK, KeptInv, DBInv, QuietInv, Kept, Observe, phase \in {"list", "read", "ok"}
    PROVE  QuietInv'
  <1>1. /\ UNCHANGED <<phase, paths, records, at_open>>
        /\ kept_files' = kept_files \cap DOMAIN dir'
    BY DEF Observe, readerVars
  <1>2. /\ \A p \in DOMAIN at_open : p.num < next_file
        /\ kept_files = DOMAIN at_open \cap DOMAIN dir
        /\ NewStays
    BY DEF QuietInv
  <1>3. /\ next_file \in Nat /\ next_file' \in Nat /\ next_file <= next_file'
        /\ \A p \in DOMAIN at_open : p.num \in Nat
    BY DEF Kept, Succeeds, DBInv, TypeOK, IsDir, Path
  <1>4. \A p \in DOMAIN at_open' : p.num < next_file'
    BY <1>1, <1>2, <1>3
  <1>5. DOMAIN at_open \cap DOMAIN dir' \subseteq DOMAIN dir
    BY <1>2, <1>3 DEF Kept, Succeeds
  <1>6. kept_files' = DOMAIN at_open' \cap DOMAIN dir'
    BY <1>1, <1>2, <1>5
  <1>7. New # {} => New' # {}
    BY <1>1, <1>2 DEF Kept, Succeeds, New, NewStays
  <1>8. NewStays'
    <2>1. CASE \E p \in DOMAIN dir' \ DOMAIN dir : p \notin replaces' \cup obsolete'
      BY <1>1, <1>5, <2>1 DEF New, NewStays
    <2>2. CASE replaces' \cup obsolete' \subseteq replaces \cup obsolete
      <3>1. CASE New # {}
        BY <1>1, <1>2, <2>2, <3>1 DEF Kept, Succeeds, New, NewStays
      <3>2. CASE New = {}
        <4>1. \A p \in New' : p \notin DOMAIN dir
          BY <1>1, <3>2 DEF New
        <4>2. replaces' \cup obsolete' \subseteq DOMAIN dir
          BY <2>2 DEF DBInv
        <4> QED
          BY <4>1, <4>2 DEF NewStays
      <3> QED
        BY <3>1, <3>2
    <2> QED
      BY <2>1, <2>2 DEF Kept, Succeeds
  <1>9. FromFiles'
    <2> SUFFICES ASSUME NEW k \in DOMAIN records, records[k].origin \in kept_files'
                 PROVE  /\ Parses(records[k].origin, dir'[records[k].origin])
                        /\ IsPrefix(at_open[records[k].origin].recs, records[k].recs)
                        /\ IsPrefix(records[k].recs, dir'[records[k].origin].recs)
      BY <1>1 DEF FromFiles, FromFile
    <2> DEFINE p == records[k].origin
    <2>1. p \in kept_files /\ p \in DOMAIN dir /\ p \in DOMAIN dir'
      BY <1>1, <1>2
    <2>2. /\ Parses(p, dir[p])
          /\ IsPrefix(at_open[p].recs, records[k].recs)
          /\ IsPrefix(records[k].recs, dir[p].recs)
      BY <2>1 DEF QuietInv, FromFiles, FromFile
    <2>3. /\ IsPrefix(dir[p].recs, dir'[p].recs)
          /\ p.ext # "log" /\ dir[p].sound => dir'[p] = dir[p]
          /\ dir'[p].readable = dir[p].readable
      BY <2>1 DEF Kept, Evolves
    <2>4. /\ records[k].recs \in Seq(RawRecords)
          /\ dir[p].recs \in Seq(RawRecords)
          /\ dir'[p].recs \in Seq(RawRecords)
      <3>1. records[k] \in Segment /\ dir[p] \in File /\ dir'[p] \in File
        BY <2>1 DEF TypeOK, Kept, IsDir
      <3> QED
        BY <3>1 DEF Segment, File
    <2> HIDE DEF p
    <2>5. IsPrefix(records[k].recs, dir'[p].recs)
      BY <2>2, <2>3, <2>4, PrefixTrans
    <2>6. Parses(p, dir'[p])
      BY <2>2, <2>3 DEF Parses, TABLE_EXT
    <2> QED
      BY <2>2, <2>5, <2>6 DEF p
  <1> QED
    BY <1>1, <1>4, <1>6, <1>7, <1>8, <1>9 DEF QuietInv

\* Every step keeps what tells a quiet directory from a busy one.
LEMMA QuietStep ==
    ASSUME TypeOK, KeptInv, OrderInv, DBInv, QuietInv, [LiveNext]_vars
    PROVE  QuietInv'
  <1>1. CASE Reader
    <2>1. CASE OpenDir
      BY <1>1, <2>1, OpenQuiet DEF Reader
    <2>2. CASE OpenFails \/ EntryFails
      BY <2>2 DEF OpenFails, EntryFails, QuietInv
    <2>3. CASE ListEntry
      <3>1. PICK p \in DOMAIN dir : DOMAIN paths' = DOMAIN paths \cup {p}
        BY <2>3, AddCopy DEF ListEntry, TypeOK
      <3>2. phase = "list" /\ UNCHANGED <<dir, phase, records, at_open, kept_files, dbVars>>
        BY <1>1, <2>3 DEF ListEntry, historyVars, Reader
      <3>3. New' = New /\ NewStays' = NewStays /\ FromFiles' = FromFiles
        BY <3>2 DEF New, NewStays, FromFiles, FromFile, dbVars
      <3>4. New = {} => p \in DOMAIN at_open
        BY DEF New
      <3> QED
        BY <3>1, <3>2, <3>3, <3>4 DEF QuietInv, dbVars
    <2>4. CASE EndOfEntries \/ Return
      <3>1. /\ phase \in {"list", "read"} /\ phase' \in {"read", "ok"}
            /\ UNCHANGED <<dir, paths, records, at_open, kept_files, dbVars>>
        BY <1>1, <2>4 DEF EndOfEntries, Return, historyVars, Reader
      <3>2. New' = New /\ NewStays' = NewStays /\ FromFiles' = FromFiles
        BY <3>1 DEF New, NewStays, FromFiles, FromFile, dbVars
      <3> QED
        BY <3>1, <3>2 DEF QuietInv, dbVars
    <2>5. CASE \E p \in DOMAIN paths : AtPath(p)
      BY <1>1, <2>5, LoopQuiet DEF Reader
    <2> QED
      BY <1>1, <2>1, <2>2, <2>3, <2>4, <2>5, ReaderSteps DEF Reader
  <1>2. CASE Writer
    <2>1. Kept /\ Observe /\ phase \in {"open", "list", "read"}
      BY <1>2, LevelDBKept DEF Writer
    <2>2. CASE phase = "open"
      BY <2>1, <2>2 DEF Observe, readerVars, QuietInv
    <2> QED
      BY <2>1, <2>2, WriterQuiet
  <1>3. CASE Finished \/ UNCHANGED vars
    <2>1. UNCHANGED <<scanVars, dbVars>>
      BY <1>3 DEF Finished, vars
    <2>2. New' = New /\ NewStays' = NewStays /\ FromFiles' = FromFiles
      BY <2>1 DEF New, NewStays, FromFiles, FromFile, scanVars, readerVars, historyVars, dbVars
    <2> QED
      BY <2>1, <2>2 DEF QuietInv, scanVars, readerVars, historyVars, dbVars
  <1> QED
    BY <1>1, <1>2, <1>3 DEF LiveNext

\* Of two sequences each starts with the other only if they are one.
LEMMA PrefixAntisym ==
    ASSUME NEW s \in Seq(RawRecords), NEW t \in Seq(RawRecords), IsPrefix(s, t), IsPrefix(t, s)
    PROVE  s = t
  <1>1. Len(s) = Len(t)
    BY DEF IsPrefix
  <1>2. SubSeq(s, 1, Len(s)) = SubSeq(t, 1, Len(s))
    BY DEF IsPrefix
  <1>3. SubSeq(s, 1, Len(s)) = s /\ SubSeq(t, 1, Len(t)) = t
    OBVIOUS
  <1> QED
    BY <1>1, <1>2, <1>3

\* A scan that returns to the directory it opened has read that directory.
LEMMA QuietIsComplete ==
    ASSUME StableInv, QuietInv
    PROVE  CompleteWhenQuiet
  <1> SUFFICES ASSUME phase = "ok", dir = at_open
               PROVE  {records[k] : k \in DOMAIN records} =
                          {[origin |-> p, recs |-> dir[p].recs] :
                              p \in {q \in DOMAIN dir : Parses(q, dir[q])}}
    BY DEF CompleteWhenQuiet
  <1>1. kept_files = DOMAIN dir /\ New = {}
    BY DEF QuietInv, New
  <1>2. ASSUME NEW k \in DOMAIN records
        PROVE  /\ records[k].origin \in DOMAIN dir
               /\ Parses(records[k].origin, dir[records[k].origin])
               /\ records[k] = [origin |-> records[k].origin,
                                recs   |-> dir[records[k].origin].recs]
    <2> DEFINE p == records[k].origin
    <2>1. p \in DOMAIN dir
      BY <1>1 DEF QuietInv
    <2>2. /\ Parses(p, dir[p])
          /\ IsPrefix(dir[p].recs, records[k].recs)
          /\ IsPrefix(records[k].recs, dir[p].recs)
      BY <1>1, <2>1 DEF QuietInv, FromFiles, FromFile
    <2>3. records[k] \in Segment /\ dir[p].recs \in Seq(RawRecords)
      <3>1. TypeOK
        BY DEF StableInv
      <3>2. records[k] \in Segment
        BY <3>1 DEF TypeOK
      <3>3. dir[p].recs \in Seq(RawRecords)
        <4> HIDE DEF p
        <4> QED
          BY <2>1, <3>1, SegmentType
      <3> QED
        BY <3>2, <3>3
    <2>4. records[k].recs = dir[p].recs
      BY <2>2, <2>3, PrefixAntisym DEF Segment
    <2> QED
      BY <2>1, <2>2, <2>3, <2>4 DEF Segment
  <1>3. ASSUME NEW p \in DOMAIN dir, Parses(p, dir[p])
        PROVE  \E k \in DOMAIN records : records[k] = [origin |-> p, recs |-> dir[p].recs]
    <2>1. PICK k \in DOMAIN records : records[k].origin = p
      BY <1>1, <1>3, NoCopies DEF StableInv, CoveredInv, Read
    <2> QED
      BY <1>2, <2>1
  <1> QED
    BY <1>2, <1>3

\* When the directory is at the return as it was at the opening, the output is
\* that of every file that can be read and parsed, no more and no less: no
\* change of a LevelDB at work is undone by a later one.
THEOREM QuietScansAreComplete == LiveSpec => []CompleteWhenQuiet
  <1> DEFINE Inv == StableInv /\ OrderInv /\ DBInv /\ QuietInv
  <1>1. LiveInit => Inv
    BY LiveStart, NoCopies
    DEF Init, StableInv, TypeOK, IsDir, KeptInv, CoveredInv, OrderInv, QuietInv
  <1>2. Inv /\ [LiveNext]_vars => Inv'
    BY LiveStep, TypeStep, KeptStep, CoveredStep, OrderStep, QuietStep DEF StableInv
  <1>3. Inv => CompleteWhenQuiet
    BY QuietIsComplete
  <1> QED
    BY <1>1, <1>2, <1>3, PTL DEF LiveSpec

-----------------------------------------------------------------------------
(* A name that LevelDB gave once does not come back.                       *)

\* No file is listed or read twice, and none is listed before it was created.
NamesInv == /\ phase = "open" => paths = EmptyBag
            /\ \A p \in DOMAIN paths : p.num < next_file
            /\ \A p \in Path : Once(p)

\* Every step lists and reads every file once at most.
LEMMA NamesStep ==
    ASSUME TypeOK, OrderInv, DBInv, NamesInv, [LiveNext]_vars
    PROVE  NamesInv'
  <1>1. CASE Reader /\ OpenDir
    <2>1. phase' = "list" /\ paths' = EmptyBag /\ records' = <<>>
      BY <1>1 DEF OpenDir, NamesInv, OrderInv
    <2> QED
      BY <2>1, NoCopies DEF NamesInv, Once
  <1>2. CASE Reader /\ ~OpenDir
    <2>1. UNCHANGED next_file /\ ReaderNext
      BY <1>2 DEF Reader, dbVars
    <2>2. phase' # "open" /\ DOMAIN paths' \subseteq DOMAIN paths \cup DOMAIN dir
      <3>1. CASE \E p \in DOMAIN paths : AtPath(p)
        BY <3>1, LoopSteps, RemoveCopy DEF LoopStep, TypeOK
      <3>2. CASE ListEntry
        <4>1. PICK q \in DOMAIN dir : paths' = BagAdd(paths, q) /\ phase' = phase /\ phase = "list"
          BY <3>2 DEF ListEntry
        <4>2. IsABag(paths)
          BY DEF TypeOK
        <4>3. DOMAIN BagAdd(paths, q) = DOMAIN paths \cup {q}
          BY <4>2, AddCopy, Zenon
        <4> QED
          BY <4>1, <4>3
      <3> QED
        BY <1>2, <2>1, <3>1, <3>2, ReaderSteps DEF OpenFails, EntryFails, EndOfEntries, Return
    <2>3. \A p \in DOMAIN paths' : p.num < next_file'
      BY <2>1, <2>2 DEF NamesInv, DBInv
    <2> QED
      BY <1>2, <2>1, <2>2, <2>3, ReaderOnce DEF NamesInv
  <1>3. CASE Writer
    <2>1. Kept /\ Observe
      BY <1>3, LevelDBKept DEF Writer
    <2>2. UNCHANGED readerVars
      BY <2>1 DEF Observe
    <2>3. \A p \in DOMAIN paths : p.num \in Nat /\ p.num < next_file
      BY DEF TypeOK, Path, NamesInv
    <2>4. /\ next_file \in Nat /\ next_file' \in Nat /\ next_file <= next_file'
          /\ \A p \in DOMAIN dir' \ DOMAIN dir : p.num = next_file
      BY <2>1 DEF Kept, Succeeds, DBInv
    <2>5. \A p \in DOMAIN paths \cap DOMAIN dir' : p \in DOMAIN dir
      BY <2>3, <2>4
    <2>6. \A p \in DOMAIN paths' : p.num < next_file'
      BY <2>2, <2>3, <2>4 DEF readerVars
    <2> QED
      BY <2>1, <2>2, <2>5, <2>6, ObserveOnce DEF NamesInv, readerVars
  <1>4. CASE Finished \/ UNCHANGED vars
    <2>1. UNCHANGED <<scanVars, dbVars>>
      BY <1>4 DEF Finished, vars
    <2> QED
      BY <2>1 DEF scanVars, readerVars, historyVars, dbVars, NamesInv, Once
  <1> QED
    BY <1>1, <1>2, <1>3, <1>4 DEF LiveNext

\* Beside a LevelDB at work the segments are in the strict order of their
\* paths: no file is read twice, because no name that was listed comes back.
THEOREM NoFileTwice == LiveSpec => []InPathOrder
  <1> DEFINE Inv == TypeOK /\ OrderInv /\ DBInv /\ NamesInv
  <1>1. LiveInit => Inv
    BY LiveStart, NoCopies DEF Init, TypeOK, IsDir, OrderInv, NamesInv, Once
  <1>2. Inv /\ [LiveNext]_vars => Inv'
    BY LiveStep, TypeStep, OrderStep, NamesStep
  <1>3. ASSUME Inv
        PROVE  InPathOrder
    <2> SUFFICES ASSUME NEW j \in DOMAIN records, NEW k \in DOMAIN records, j < k
                 PROVE  PathBefore(records[j].origin, records[k].origin)
      BY DEF InPathOrder
    <2>1. records[j].origin \in Path /\ records[k].origin \in Path
      <3>1. records[j] \in Segment /\ records[k] \in Segment
        BY <1>3 DEF TypeOK
      <3> QED
        BY <3>1 DEF Segment
    <2>2. records[j].origin # records[k].origin
      BY <1>3, <2>1 DEF NamesInv, Once
    <2>3. ~PathBefore(records[k].origin, records[j].origin)
      BY <1>3 DEF OrderInv
    <2> QED
      BY <2>1, <2>2, <2>3, PathsAreOrdered
  <1> QED
    BY <1>1, <1>2, <1>3, PTL DEF LiveSpec

\* What holds of the reader in every directory that evolves holds beside a
\* LevelDB at work: its types, the files that stay, the order of the output.
COROLLARY BesideLevelDB == LiveSpec => [](TypeOK /\ StableFilesSurfaced /\ SortedOutput)
  BY ImplementsOpen, TypeCorrect, StableFilesNeverLost, AlwaysSorted, PTL
=============================================================================
