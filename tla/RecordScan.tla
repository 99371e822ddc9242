----------------------------- MODULE RecordScan -----------------------------
(***************************************************************************)
(* What a reader of the log format of leveldb-core/src/log.rs (lines 3-12) *)
(* may do, whatever it finds in the file: go on past anything, and hand    *)
(* over the data of a FULL record, or of a FIRST that it opened with all   *)
(* that it joined to it up to a LAST.  Which physical records it takes and *)
(* which it passes over is left open; that it never goes back, opens a     *)
(* record with nothing but a FIRST, and joins or hands over nothing twice  *)
(* is not.                                                                 *)
(***************************************************************************)
EXTENDS Integers, Sequences

CONSTANTS REC_FULL, REC_FIRST, REC_MIDDLE, REC_LAST

VARIABLES file,         \* val, the cells, and good, where a checksum holds
          reached,      \* the offset up to which the file has been passed
          open,         \* the headers of the record under assembly
          gathered,     \* the data under those headers
          handed,       \* the headers of each record handed over
          buffer        \* the data of the last of these, while it is decoded

scan == <<file, reached, open, gathered, handed, buffer>>

TypeAt(at) == file.val[at + 3]
DataAt(at) == SubSeq(file.val, at + 4, at + 3 + file.val[at + 2])

Init == /\ reached = 0
        /\ open = <<>>
        /\ gathered = <<>>
        /\ handed = <<>>
        /\ buffer = <<>>

\* The scan goes on to the offset reached', never back.
GoOn == reached' >= reached /\ UNCHANGED file

Close == open' = <<>> /\ gathered' = <<>>

\* A sound physical record of the type with its header at at is passed.
Take(at, type) == /\ reached <= at
                  /\ at < reached'
                  /\ at \in file.good
                  /\ TypeAt(at) = type

PassOver == UNCHANGED <<open, gathered, handed, buffer>>

GiveUp == Close /\ UNCHANGED <<handed, buffer>>

\* The buffer has been decoded.
Decoded == buffer' = <<>> /\ UNCHANGED <<open, gathered, handed>>

TakeFirst(at) == /\ Take(at, REC_FIRST)
                 /\ open' = <<at>>
                 /\ gathered' = DataAt(at)
                 /\ UNCHANGED <<handed, buffer>>

TakeMiddle(at) == /\ Take(at, REC_MIDDLE)
                  /\ open # <<>>
                  /\ open' = Append(open, at)
                  /\ gathered' = gathered \o DataAt(at)
                  /\ UNCHANGED <<handed, buffer>>

TakeLast(at) == /\ Take(at, REC_LAST)
                /\ open # <<>>
                /\ Close
                /\ handed' = Append(handed, Append(open, at))
                /\ buffer' = gathered \o DataAt(at)

TakeFull(at) == /\ Take(at, REC_FULL)
                /\ Close
                /\ handed' = Append(handed, <<at>>)
                /\ buffer' = DataAt(at)

Next == /\ GoOn
        /\ \/ PassOver
           \/ GiveUp
           \/ Decoded
           \/ \E at \in reached..reached' :
                  TakeFirst(at) \/ TakeMiddle(at) \/ TakeLast(at) \/ TakeFull(at)

Spec == Init /\ [][Next]_scan
=============================================================================
