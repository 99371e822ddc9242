------------------------- MODULE LogRecoveryProofs --------------------------
(***************************************************************************)
(* What LogRecovery promises of the logs that LogWriter describes, for all *)
(* of them, whatever damage they carry: exact recovery while the headers   *)
(* stand, and damage that stays in its blocks.                             *)
(*                                                                         *)
(* A physical record is named by its place in file.physical, q or r.  The  *)
(* invariant has four parts: the reader keeps in step with the headers of  *)
(* every block whose headers stand (SyncInv), what it has gathered in the  *)
(* middle of a batch is what was written of it (GatherInv), and of the     *)
(* batches it has gone by it has what it should (ExactInv, PlacesInv).     *)
(***************************************************************************)
EXTENDS LogRecovery, LogReaderProofs, SequenceLemmas

-----------------------------------------------------------------------------
(* Blocks.                                                                 *)

\* A quotient and a remainder are the quotient and the remainder.
LEMMA DividedIs ==
    ASSUME NEW d \in Nat, NEW r \in 0..BLOCK_SIZE - 1, NEW a \in Nat, a = BLOCK_SIZE * d + r
    PROVE  a \div BLOCK_SIZE = d /\ a % BLOCK_SIZE = r
  BY BlockAssumption DEF HEADER_SIZE

\* Every offset has them.
LEMMA Divided ==
    ASSUME NEW a \in Nat
    PROVE  /\ a \div BLOCK_SIZE \in Nat /\ a % BLOCK_SIZE \in 0..BLOCK_SIZE - 1
           /\ a = BLOCK_SIZE * (a \div BLOCK_SIZE) + (a % BLOCK_SIZE)
  <1> DEFINE In(n) == \E d \in Nat, r \in 0..BLOCK_SIZE - 1 : n = BLOCK_SIZE * d + r
             S     == {n \in Nat : In(n)}
  <1>1. 0 \in S
    <2>1. 0 = BLOCK_SIZE * 0 + 0 /\ 0 \in 0..BLOCK_SIZE - 1
      BY BlockAssumption DEF HEADER_SIZE
    <2> QED
      BY <2>1
  <1>2. ASSUME NEW n \in Nat, n \in S
        PROVE  n + 1 \in S
    <2>1. PICK d \in Nat, r \in 0..BLOCK_SIZE - 1 : n = BLOCK_SIZE * d + r
      BY <1>2
    <2>2. CASE r + 1 < BLOCK_SIZE
      <3>1. n + 1 = BLOCK_SIZE * d + (r + 1) /\ r + 1 \in 0..BLOCK_SIZE - 1
        BY <2>1, <2>2, BlockAssumption
      <3> QED
        BY <3>1
    <2>3. CASE r + 1 = BLOCK_SIZE
      <3>1. n + 1 = BLOCK_SIZE * (d + 1) + 0 /\ 0 \in 0..BLOCK_SIZE - 1 /\ d + 1 \in Nat
        BY <2>1, <2>3, BlockAssumption
      <3> QED
        BY <3>1
    <2> QED
      BY <2>2, <2>3, BlockAssumption
  <1>3. a \in S
    <2> HIDE DEF S
    <2> QED
      BY <1>1, <1>2, InductionOnSet
  <1>4. PICK d \in Nat, r \in 0..BLOCK_SIZE - 1 : a = BLOCK_SIZE * d + r
    BY <1>3
  <1> QED
    BY <1>4, DividedIs

\* The blocks before another end where it begins or before.
LEMMA TimesMonotone ==
    ASSUME NEW d \in Nat, NEW e \in Nat, d < e
    PROVE  BLOCK_SIZE * d + BLOCK_SIZE <= BLOCK_SIZE * e
  BY BlockAssumption DEF HEADER_SIZE

\* An offset in the block at o.
LEMMA InBlock ==
    ASSUME NEW o \in Nat, o % BLOCK_SIZE = 0, NEW a \in Nat, o <= a, a < o + BLOCK_SIZE
    PROVE  a \div BLOCK_SIZE = o \div BLOCK_SIZE /\ a % BLOCK_SIZE = a - o
  <1>1. o = BLOCK_SIZE * (o \div BLOCK_SIZE) /\ o \div BLOCK_SIZE \in Nat
    BY Divided, BlockAssumption DEF HEADER_SIZE
  <1> DEFINE d == o \div BLOCK_SIZE
  <1> HIDE DEF d
  <1>2. a = BLOCK_SIZE * d + (a - o) /\ a - o \in 0..BLOCK_SIZE - 1 /\ d \in Nat
    <2>1. o = BLOCK_SIZE * d /\ BLOCK_SIZE \in Nat
      BY <1>1, BlockAssumption DEF d
    <2> DEFINE e == BLOCK_SIZE * d
    <2> HIDE DEF e
    <2>2. a = e + (a - o) /\ a - o \in 0..BLOCK_SIZE - 1
      BY <2>1 DEF e
    <2> QED
      BY <1>1, <2>2 DEF e, d
  <1>3. a \div BLOCK_SIZE = d /\ a % BLOCK_SIZE = a - o
    BY <1>2, DividedIs
  <1> QED
    BY <1>3 DEF d

\* The next block begins where this one ends.
LEMMA NextStart ==
    ASSUME NEW o \in Nat, o % BLOCK_SIZE = 0
    PROVE  (o + BLOCK_SIZE) % BLOCK_SIZE = 0
  <1>1. o = BLOCK_SIZE * (o \div BLOCK_SIZE) /\ o \div BLOCK_SIZE \in Nat
    BY Divided, BlockAssumption DEF HEADER_SIZE
  <1>2. o + BLOCK_SIZE = BLOCK_SIZE * (o \div BLOCK_SIZE + 1) + 0
        /\ o \div BLOCK_SIZE + 1 \in Nat /\ 0 \in 0..BLOCK_SIZE - 1 /\ o + BLOCK_SIZE \in Nat
    BY <1>1, BlockAssumption DEF HEADER_SIZE
  <1> QED
    BY <1>2, DividedIs

\* An offset before a block is in one that ends before it.
LEMMA BeforeBlock ==
    ASSUME NEW o \in Nat, o % BLOCK_SIZE = 0, NEW a \in Nat, a < o
    PROVE  a - (a % BLOCK_SIZE) + BLOCK_SIZE <= o
  <1> DEFINE d == a \div BLOCK_SIZE
             e == o \div BLOCK_SIZE
             r == a % BLOCK_SIZE
  <1>1. /\ d \in Nat /\ e \in Nat /\ r \in 0..BLOCK_SIZE - 1
        /\ a = BLOCK_SIZE * d + r /\ o = BLOCK_SIZE * e
    BY Divided, BlockAssumption DEF HEADER_SIZE
  <1> HIDE DEF d, e, r
  <1>2. d < e
    <2> SUFFICES ASSUME e <= d PROVE FALSE
      BY <1>1
    <2>1. BLOCK_SIZE * e <= BLOCK_SIZE * d
      BY <1>1, TimesMonotone, BlockAssumption
    <2> QED
      BY <1>1, <2>1, BlockAssumption
  <1>3. BLOCK_SIZE * d + BLOCK_SIZE <= BLOCK_SIZE * e
    BY <1>1, <1>2, TimesMonotone
  <1>4. a - r = BLOCK_SIZE * d
    BY <1>1, BlockAssumption DEF HEADER_SIZE
  <1> QED
    BY <1>1, <1>3, <1>4 DEF r

\* Where a header is put: at once, or where the next block begins.
LEMMA PlaceFacts ==
    ASSUME NEW a \in Nat
    PROVE  LET h == Writer!HeaderPlace(a)
           IN  /\ h \in Nat /\ a <= h
               /\ \/ h = a
                  \/ /\ h # a /\ h % BLOCK_SIZE = 0
                     /\ h = a - (a % BLOCK_SIZE) + BLOCK_SIZE /\ h < a + HEADER_SIZE
  <1> DEFINE r == a % BLOCK_SIZE
             h == Writer!HeaderPlace(a)
  <1>1. r \in 0..BLOCK_SIZE - 1
    BY Divided
  <1>2. h = IF BLOCK_SIZE - r < 3 THEN a + (BLOCK_SIZE - r) ELSE a
    BY DEF Writer!HeaderPlace, Writer!HEADER_SIZE
  <1>3. (a - r + BLOCK_SIZE) % BLOCK_SIZE = 0
    <2>1. a - r = BLOCK_SIZE * (a \div BLOCK_SIZE) + 0 /\ a \div BLOCK_SIZE \in Nat
          /\ 0 \in 0..BLOCK_SIZE - 1 /\ a - r \in Nat
      BY Divided, BlockAssumption DEF HEADER_SIZE
    <2>2. (a - r) % BLOCK_SIZE = 0
      BY <2>1, DividedIs
    <2> QED
      BY <2>1, <2>2, NextStart
  <1> HIDE DEF r, h
  <1>4. /\ h \in Nat /\ a <= h
        /\ \/ h = a
           \/ h # a /\ h = a - r + BLOCK_SIZE /\ h < a + HEADER_SIZE
    BY <1>1, <1>2, BlockAssumption DEF HEADER_SIZE
  <1> QED
    BY <1>3, <1>4 DEF h, r

-----------------------------------------------------------------------------
(* The physical records of a written log.                                  *)

FileInv == file.val \in Seq(Nat) /\ Writer!IsLog(file)

LastPlace == Len(file.physical)
Ph(q)     == file.physical[q]
Prior(q)  == Writer!Previous(file, q)

\* Where the physical records before the q-th end.
Edge(q) == Writer!End(Prior(q))

\* What is known of physical record q.
PhysicalIs(q) ==
    LET g == Ph(q)
        p == Prior(q)
    IN  /\ g \in Writer!Physical /\ g \in Range(file.physical)
        /\ Edge(q) \in Nat /\ Edge(q + 1) = Writer!End(g)
        /\ Writer!End(g) = g.at + HEADER_SIZE + g.length
        /\ g.at = Writer!HeaderPlace(Edge(q))
        /\ (g.at % BLOCK_SIZE) + HEADER_SIZE + g.length <= BLOCK_SIZE
        /\ Writer!Opens(g) = Writer!Closes(p)
        /\ g.batch = IF Writer!Closes(p) THEN p.batch + 1 ELSE p.batch
        /\ g.from = IF Writer!Closes(p) THEN 0 ELSE p.from + p.length
        /\ g.batch \in 1..Len(file.written)
        /\ g.from + g.length <= Len(file.written[g.batch].payload)
        /\ Writer!Closes(g) => g.from + g.length = Len(file.written[g.batch].payload)

\* Every physical record follows the one before it, and the first begins the file.
LEMMA PhysicalFacts ==
    ASSUME FileInv
    PROVE  /\ LastPlace \in Nat /\ Edge(1) = 0
           /\ \A q \in 1..LastPlace : PhysicalIs(q)
  <1>1. LastPlace \in Nat /\ file.physical \in Seq(Writer!Physical)
    BY DEF FileInv, Writer!IsLog, LastPlace
  <1>2. Edge(1) = 0
    BY DEF Edge, Prior, Writer!Previous, Writer!Nothing, Writer!End, Writer!HEADER_SIZE
  <1>3. ASSUME NEW q \in 1..LastPlace
        PROVE  Ph(q) \in Writer!Physical /\ Ph(q) \in Range(file.physical)
    <2>1. q \in DOMAIN file.physical
      BY <1>1 DEF LastPlace
    <2> QED
      BY <1>1, <2>1 DEF Ph, Range
  <1>4. ASSUME NEW q \in 1..LastPlace
        PROVE  Edge(q + 1) = Writer!End(Ph(q)) /\ Prior(q + 1) = Ph(q)
    <2>1. q + 1 # 1 /\ (q + 1) - 1 = q
      OBVIOUS
    <2> QED
      BY <2>1 DEF Edge, Prior, Writer!Previous, Ph
  <1>5. ASSUME NEW q \in 1..LastPlace
        PROVE  Writer!End(Ph(q)) \in Nat
               /\ Writer!End(Ph(q)) = Ph(q).at + HEADER_SIZE + Ph(q).length
    BY <1>3 DEF Writer!Physical, Writer!End, Writer!HEADER_SIZE, HEADER_SIZE
  <1>6. ASSUME NEW q \in 1..LastPlace
        PROVE  Edge(q) \in Nat /\ (q = 1 \/ q - 1 \in 1..LastPlace)
    <2>1. CASE q = 1
      BY <1>2, <2>1
    <2>2. CASE q # 1
      <3>1. q - 1 \in 1..LastPlace /\ (q - 1) + 1 = q
        BY <1>1, <2>2
      <3> QED
        BY <1>4, <1>5, <3>1
    <2> QED
      BY <2>1, <2>2
  <1>7. ASSUME NEW q \in 1..LastPlace
        PROVE  Prior(q).batch \in Nat
    <2>1. CASE q = 1
      BY <2>1 DEF Prior, Writer!Previous, Writer!Nothing
    <2>2. CASE q # 1
      <3>1. q - 1 \in 1..LastPlace /\ (q - 1) + 1 = q
        BY <1>1, <2>2
      <3>2. Prior(q) = Ph(q - 1) /\ Ph(q - 1) \in Writer!Physical
        BY <1>3, <1>4, <3>1
      <3> QED
        BY <3>2 DEF Writer!Physical
    <2> QED
      BY <2>1, <2>2
  <1>8. ASSUME NEW q \in 1..LastPlace
        PROVE  Writer!Follows(file, q)
    BY DEF FileInv, Writer!IsLog, LastPlace
  <1>9. ASSUME NEW q \in 1..LastPlace
        PROVE  PhysicalIs(q)
    <2> DEFINE g == Ph(q)
               p == Prior(q)
    <2>1. /\ g.at = Writer!HeaderPlace(Edge(q))
          /\ (g.at % BLOCK_SIZE) + HEADER_SIZE + g.length <= BLOCK_SIZE
          /\ Writer!Opens(g) = Writer!Closes(p)
          /\ g.batch = IF Writer!Closes(p) THEN p.batch + 1 ELSE p.batch
          /\ g.from = IF Writer!Closes(p) THEN 0 ELSE p.from + p.length
          /\ g.batch <= Len(file.written)
          /\ g.from + g.length <= Len(file.written[g.batch].payload)
          /\ Writer!Closes(g) => g.from + g.length = Len(file.written[g.batch].payload)
      BY <1>8 DEF Writer!Follows, Edge, Prior, Ph, HEADER_SIZE, Writer!HEADER_SIZE
    <2>2. g.batch # 0
      <3>1. CASE q = 1
        BY <2>1, <3>1 DEF Prior, Writer!Previous, Writer!Nothing, Writer!Closes
      <3>2. CASE q # 1
        <4> DEFINE Some == {d \in Nat : d + 1 <= LastPlace => Ph(d + 1).batch # 0}
        <4>1. 0 \in Some
          <5>1. ASSUME 1 <= LastPlace PROVE Ph(1).batch # 0
            <6>1. Writer!Follows(file, 1)
              BY <1>1, <1>8, <5>1
            <6> QED
              BY <6>1 DEF Writer!Follows, Writer!Previous, Writer!Nothing, Writer!Closes, Ph
          <5> QED
            BY <5>1
        <4>2. ASSUME NEW d \in Nat, d \in Some PROVE d + 1 \in Some
          <5> SUFFICES ASSUME (d + 1) + 1 <= LastPlace PROVE Ph((d + 1) + 1).batch # 0
            OBVIOUS
          <5>1. d + 1 \in 1..LastPlace /\ (d + 1) + 1 \in 1..LastPlace /\ Ph(d + 1).batch # 0
            BY <1>1, <4>2
          <5>2. Prior((d + 1) + 1) = Ph(d + 1) /\ Ph(d + 1) \in Writer!Physical
            BY <1>3, <1>4, <5>1
          <5>3. Ph(d + 1).batch \in Nat
            BY <5>2 DEF Writer!Physical
          <5>4. Ph((d + 1) + 1).batch = IF Writer!Closes(Ph(d + 1)) THEN Ph(d + 1).batch + 1
                                        ELSE Ph(d + 1).batch
            BY <1>8, <5>1, <5>2 DEF Writer!Follows, Prior, Ph
          <5> QED
            BY <5>1, <5>3, <5>4
        <4>3. q - 1 \in Some /\ (q - 1) + 1 = q
          <5> HIDE DEF Some
          <5> QED
            BY <1>1, <4>1, <4>2, InductionOnSet
        <4> QED
          BY <4>3
      <3> QED
        BY <3>1, <3>2
    <2>3. g.batch \in 1..Len(file.written)
      <3>1. g.batch \in Nat /\ Len(file.written) \in Nat
        BY <1>3 DEF Writer!Physical, FileInv, Writer!IsLog
      <3> QED
        BY <2>1, <2>2, <3>1
    <2> QED
      BY <1>3, <1>4, <1>5, <1>6, <2>1, <2>3 DEF PhysicalIs
  <1> QED
    BY <1>1, <1>2, <1>9

\* What is known of any two physical records, the q-th and the r-th.
Ascend(q, r) == /\ Writer!End(Ph(q)) <= Edge(r)
                /\ Ph(q).batch <= Ph(r).batch
                /\ Writer!Closes(Ph(q)) => Ph(q).batch < Ph(r).batch

\* The numbers and the order of a physical record.
PlaceIs(q) == /\ Ph(q).at \in Nat /\ Ph(q).length \in Nat /\ Ph(q).batch \in Nat
              /\ Ph(q).from \in Nat
              /\ Edge(q) \in Nat /\ Edge(q) <= Ph(q).at
              /\ Writer!End(Ph(q)) = Ph(q).at + 3 + Ph(q).length
              /\ Edge(q + 1) = Writer!End(Ph(q))
              /\ q > 1 => Prior(q) = Ph(q - 1)

\* Every physical record has its numbers.
LEMMA PlaceNumbers ==
    ASSUME FileInv
    PROVE  LastPlace \in Nat /\ \A q \in 1..LastPlace : PlaceIs(q)
  <1>1. LastPlace \in Nat
    BY PhysicalFacts
  <1> SUFFICES ASSUME NEW q \in 1..LastPlace PROVE PlaceIs(q)
    BY <1>1
  <1>2. PhysicalIs(q)
    BY PhysicalFacts
  <1>3. Ph(q) \in Writer!Physical /\ Edge(q) \in Nat /\ Ph(q).at = Writer!HeaderPlace(Edge(q))
        /\ Writer!End(Ph(q)) = Ph(q).at + HEADER_SIZE + Ph(q).length
        /\ Edge(q + 1) = Writer!End(Ph(q))
    BY <1>2 DEF PhysicalIs
  <1>4. Ph(q).at \in Nat /\ Ph(q).length \in Nat /\ Ph(q).batch \in Nat /\ Ph(q).from \in Nat
    BY <1>3 DEF Writer!Physical
  <1>5. Edge(q) <= Ph(q).at
    BY <1>3, PlaceFacts
  <1>6. q > 1 => Prior(q) = Ph(q - 1)
    BY DEF Prior, Ph, Writer!Previous
  <1> QED
    BY <1>3, <1>4, <1>5, <1>6 DEF PlaceIs, HEADER_SIZE

\* One after the other.
LEMMA NextAscends ==
    ASSUME FileInv, NEW q \in 1..LastPlace, q + 1 \in 1..LastPlace
    PROVE  Ascend(q, q + 1)
  <1>1. PlaceIs(q) /\ PlaceIs(q + 1) /\ PhysicalIs(q + 1)
    BY PlaceNumbers, PhysicalFacts
  <1>2. Prior(q + 1) = Ph(q)
    <2>1. q + 1 > 1 /\ (q + 1) - 1 = q
      OBVIOUS
    <2> QED
      BY <1>1, <2>1 DEF PlaceIs
  <1>3. Ph(q + 1).batch = IF Writer!Closes(Ph(q)) THEN Ph(q).batch + 1 ELSE Ph(q).batch
    BY <1>1, <1>2 DEF PhysicalIs
  <1> QED
    BY <1>1, <1>3 DEF PlaceIs, Ascend

\* The physical records, and the batches they hold, come in order.
LEMMA PlacesAscend ==
    ASSUME FileInv, NEW q \in 1..LastPlace, NEW r \in 1..LastPlace, q < r
    PROVE  Ascend(q, r)
  <1>1. LastPlace \in Nat /\ \A k \in 1..LastPlace : PlaceIs(k)
    BY PlaceNumbers
  <1> DEFINE S == {d \in Nat : q + 1 + d <= LastPlace => Ascend(q, q + 1 + d)}
  <1>2. 0 \in S
    <2>1. q + 1 + 0 = q + 1
      OBVIOUS
    <2>2. q + 1 <= LastPlace => q + 1 \in 1..LastPlace
      BY <1>1
    <2> QED
      BY <2>1, <2>2, NextAscends
  <1>3. ASSUME NEW d \in Nat, d \in S PROVE d + 1 \in S
    <2> SUFFICES ASSUME q + 1 + (d + 1) <= LastPlace PROVE Ascend(q, q + 1 + (d + 1))
      OBVIOUS
    <2> DEFINE k == q + 1 + d
    <2>1. k \in 1..LastPlace /\ k + 1 \in 1..LastPlace /\ k + 1 = q + 1 + (d + 1)
      BY <1>1
    <2>2. Ascend(q, k)
      BY <1>3, <2>1
    <2> HIDE DEF k
    <2>3. Ascend(k, k + 1) /\ PlaceIs(k) /\ PlaceIs(k + 1) /\ PlaceIs(q)
      BY <1>1, <2>1, NextAscends
    <2>4. Ascend(q, k + 1)
      BY <2>2, <2>3 DEF Ascend, PlaceIs
    <2> QED
      BY <2>1, <2>4
  <1>4. r - q - 1 \in S /\ q + 1 + (r - q - 1) = r
    <2>1. r - q - 1 \in Nat /\ q + 1 + (r - q - 1) = r
      OBVIOUS
    <2> HIDE DEF S
    <2> QED
      BY <1>2, <1>3, <2>1, InductionOnSet
  <1> DEFINE e == r - q - 1
  <1>5. e \in S /\ q + 1 + e = r
    BY <1>4
  <1> HIDE DEF e
  <1> QED
    BY <1>1, <1>5

\* Every batch is closed by one of its physical records.
LEMMA Closer ==
    ASSUME FileInv, NEW b \in 1..Len(file.written)
    PROVE  \E q \in 1..LastPlace : Ph(q).batch = b /\ Writer!Closes(Ph(q))
  <1> DEFINE Closed(c)  == \E q \in 1..LastPlace : Ph(q).batch = c /\ Writer!Closes(Ph(q))
             ClosedAt(q) == \A c \in 1..Prior(q).batch :
                                c < Prior(q).batch \/ Writer!Closes(Prior(q)) => Closed(c)
             S == {d \in Nat : d <= LastPlace => ClosedAt(d + 1)}
  <1> HIDE DEF Closed
  <1>1. LastPlace \in Nat /\ \A k \in 1..LastPlace : PlaceIs(k) /\ PhysicalIs(k)
    BY PlaceNumbers, PhysicalFacts
  <1>2. 0 \in S
    <2>1. Prior(0 + 1).batch = 0
      BY DEF Prior, Writer!Previous, Writer!Nothing
    <2> QED
      BY <2>1
  <1>3. ASSUME NEW d \in Nat, d \in S PROVE d + 1 \in S
    <2> SUFFICES ASSUME d + 1 <= LastPlace PROVE ClosedAt((d + 1) + 1)
      OBVIOUS
    <2> DEFINE q == d + 1
    <2>1. q \in 1..LastPlace /\ ClosedAt(q)
      BY <1>1, <1>3
    <2>2. PlaceIs(q) /\ PhysicalIs(q)
      BY <1>1, <2>1
    <2>3. Prior(q + 1) = Ph(q)
      <3>1. q + 1 # 1 /\ (q + 1) - 1 = q
        OBVIOUS
      <3> HIDE DEF q
      <3> QED
        BY <3>1 DEF Prior, Ph, Writer!Previous
    <2>4. Ph(q).batch = IF Writer!Closes(Prior(q)) THEN Prior(q).batch + 1 ELSE Prior(q).batch
      BY <2>2 DEF PhysicalIs
    <2>5. Ph(q).batch \in Nat
      BY <2>2 DEF PlaceIs
    <2>6. Prior(q).batch \in Nat
      <3>1. CASE q = 1
        BY <3>1 DEF Prior, Writer!Previous, Writer!Nothing
      <3>2. CASE q # 1
        <4>1. q > 1 /\ q - 1 \in 1..LastPlace
          BY <1>1, <2>1, <3>2
        <4>2. Prior(q) = Ph(q - 1) /\ PlaceIs(q - 1)
          BY <1>1, <2>2, <4>1 DEF PlaceIs
        <4> QED
          BY <4>2 DEF PlaceIs
      <3> QED
        BY <3>1, <3>2
    <2> HIDE DEF q
    <2> SUFFICES ASSUME NEW c \in 1..Ph(q).batch, c < Ph(q).batch \/ Writer!Closes(Ph(q))
                 PROVE  Closed(c)
      BY <2>3 DEF q
    <2>7. CASE c = Ph(q).batch
      BY <2>1, <2>7, <2>5 DEF Closed
    <2>8. CASE c # Ph(q).batch
      <3>1. c \in 1..Prior(q).batch /\ (c < Prior(q).batch \/ Writer!Closes(Prior(q)))
        BY <2>4, <2>5, <2>6, <2>8
      <3> QED
        BY <2>1, <3>1
    <2> QED
      BY <2>7, <2>8
  <1>4. LastPlace \in S
    <2> HIDE DEF S
    <2> QED
      BY <1>1, <1>2, <1>3, InductionOnSet
  <1>5. ClosedAt(LastPlace + 1)
    BY <1>1, <1>4
  <1>6. Writer!Closes(Prior(LastPlace + 1)) /\ Prior(LastPlace + 1).batch = Len(file.written)
    BY DEF FileInv, Writer!IsLog, LastPlace, Prior
  <1>7. Closed(b)
    BY <1>5, <1>6
  <1> QED
    BY <1>7 DEF Closed

-----------------------------------------------------------------------------
(* Where the cursor stands.                                                *)

\* No physical record lies across the start of a block.
LEMMA NoStraddle ==
    ASSUME FileInv, NEW o \in Nat, o % BLOCK_SIZE = 0, NEW q \in 1..LastPlace
    PROVE  Edge(q + 1) <= o \/ o <= Ph(q).at
  <1> DEFINE a == Ph(q).at
             r == a % BLOCK_SIZE
  <1>1. PlaceIs(q) /\ PhysicalIs(q)
    BY PlaceNumbers, PhysicalFacts
  <1>2. /\ a \in Nat /\ r + HEADER_SIZE + Ph(q).length <= BLOCK_SIZE /\ Ph(q).length \in Nat
        /\ Edge(q + 1) = a + 3 + Ph(q).length
    BY <1>1 DEF PlaceIs, PhysicalIs
  <1>3. r \in 0..BLOCK_SIZE - 1
    BY <1>2, Divided
  <1>4. a < o => a - r + BLOCK_SIZE <= o
    BY <1>2, BeforeBlock
  <1> HIDE DEF r
  <1> HIDE DEF a
  <1>5. Edge(q + 1) <= o \/ o <= a
    BY <1>2, <1>3, <1>4, BlockAssumption DEF HEADER_SIZE
  <1> QED
    BY <1>5 DEF a

\* The first physical record that ends after the cursor: those before it do not.
Under(q) == Edge(q) <= here /\ here < Edge(q + 1)

\* If any physical record ends after the cursor, one is under it.
LEMMA UnderExists ==
    ASSUME FileInv, here \in Nat, NEW r \in 1..LastPlace, here < Edge(r + 1)
    PROVE  \E q \in 1..r : Under(q)
  <1>1. LastPlace \in Nat
    BY PlaceNumbers
  <1> DEFINE S == {q \in 1..r : here < Edge(q + 1)}
  <1>2. PICK m \in S : \A q \in S : m <= q
    <2>1. S \subseteq Nat /\ S # {}
      BY <1>1
    <2> HIDE DEF S
    <2> QED
      BY <2>1, LeastNat
  <1>3. m \in 1..r /\ here < Edge(m + 1)
    BY <1>2
  <1>4. Edge(m) <= here
    <2>1. CASE m = 1
      BY <2>1, PhysicalFacts
    <2>2. CASE m # 1
      <3>1. m - 1 \in 1..r /\ (m - 1) + 1 = m /\ m - 1 \in 1..LastPlace
        BY <1>1, <1>3, <2>2
      <3>2. m - 1 \notin S
        BY <1>2, <1>3
      <3>3. ~(here < Edge(m))
        BY <3>1, <3>2
      <3>4. Edge(m) \in Nat
        <4>1. PlaceIs(m - 1) /\ PlaceIs(m)
          BY <1>1, <1>3, <3>1, PlaceNumbers
        <4> QED
          BY <4>1 DEF PlaceIs
      <3> QED
        BY <3>3, <3>4
    <2> QED
      BY <2>1, <2>2
  <1> QED
    BY <1>3, <1>4 DEF Under

\* The reader is at the start of a physical record, or between two.
Synced   == \A q \in 1..LastPlace : Edge(q + 1) <= here \/ here <= Ph(q).at
Standing == HeadersStandIn(block_start \div BLOCK_SIZE)
Aligned  == block_start % BLOCK_SIZE = 0

InThisBlock(q) == Ph(q).at \div BLOCK_SIZE = block_start \div BLOCK_SIZE

\* The cursor in numbers.
LEMMA CursorNumbers ==
    ASSUME ScanInv
    PROVE  /\ here \in Nat /\ block_start \in Nat /\ pos \in Nat /\ Len(file.val) \in Nat
           /\ block_start <= here /\ here <= block_end /\ block_end \in Nat
           /\ block_end <= block_start + BLOCK_SIZE /\ block_end <= Len(file.val)
           /\ block_end = block_start + BLOCK_SIZE \/ block_end = Len(file.val)
           /\ here = block_start + pos /\ block_len = block_end - block_start
           /\ HeaderFits <=> here + 3 <= block_end
  <1>1. /\ here \in Nat /\ block_start \in Nat /\ pos \in Nat /\ Len(file.val) \in Nat
        /\ here <= block_end /\ block_end \in Nat
    BY HeaderProperties DEF ScanInv, TypeOK
  <1>2. here = block_start + pos /\ block_len = block_end - block_start
    BY DEF here, block_len
  <1>3. block_end = IF block_start + BLOCK_SIZE < Len(file.val)
                    THEN block_start + BLOCK_SIZE ELSE Len(file.val)
    BY DEF block_end
  <1>4. HeaderFits <=> pos + 3 <= block_len
    BY DEF HeaderFits, HEADER_SIZE
  <1> QED
    BY <1>1, <1>2, <1>3, <1>4, BlockAssumption

\* A header fits in front of the cursor: the record under it begins in this block.
LEMMA UnderInBlock ==
    ASSUME ScanInv, FileInv, Aligned, HeaderFits, NEW q \in 1..LastPlace, Under(q)
    PROVE  InThisBlock(q) /\ Ph(q).at <= here
  <1> DEFINE a == Ph(q).at
             e == Edge(q)
             r == e % BLOCK_SIZE
  <1>1. PlaceIs(q) /\ PhysicalIs(q)
    BY PlaceNumbers, PhysicalFacts
  <1>2. a \in Nat /\ e \in Nat /\ a = Writer!HeaderPlace(e)
    BY <1>1 DEF PlaceIs, PhysicalIs
  <1>3. a = e \/ (a % BLOCK_SIZE = 0 /\ a < e + HEADER_SIZE)
    BY <1>2, PlaceFacts
  <1>4. block_start % BLOCK_SIZE = 0
    BY DEF Aligned
  <1>5. a % BLOCK_SIZE = 0 /\ block_start < a => block_start + BLOCK_SIZE <= a
    <2> SUFFICES ASSUME a % BLOCK_SIZE = 0, block_start < a
                 PROVE  block_start + BLOCK_SIZE <= a
      OBVIOUS
    <2>1. block_start - (block_start % BLOCK_SIZE) + BLOCK_SIZE <= a
      BY <1>2, CursorNumbers, BeforeBlock
    <2> QED
      BY <1>4, <2>1, CursorNumbers
  <1>6. e <= here /\ here < Edge(q + 1)
    BY DEF Under
  <1> HIDE DEF a, e
  <1>7. a <= here
    BY <1>2, <1>3, <1>5, <1>6, CursorNumbers, BlockAssumption DEF HEADER_SIZE
  <1>8. block_start <= a
    <2>1. Edge(q + 1) <= block_start \/ block_start <= a
      BY <1>4, CursorNumbers, NoStraddle DEF a
    <2>2. Edge(q + 1) \in Nat
      BY <1>1 DEF PlaceIs
    <2> QED
      BY <1>6, <2>1, <2>2, CursorNumbers
  <1>9. a < block_start + BLOCK_SIZE
    BY <1>2, <1>7, CursorNumbers, BlockAssumption
  <1>10. a \div BLOCK_SIZE = block_start \div BLOCK_SIZE
    BY <1>2, <1>4, <1>8, <1>9, CursorNumbers, InBlock
  <1> QED
    BY <1>7, <1>10 DEF a, InThisBlock

\* A record that ends between the cursor and the end of the block begins in it.
LEMMA EndsInBlock ==
    ASSUME ScanInv, FileInv, Aligned, NEW q \in 1..LastPlace,
           here < Edge(q + 1), Edge(q + 1) <= block_end
    PROVE  InThisBlock(q)
  <1> DEFINE a == Ph(q).at
  <1>1. a \in Nat /\ Edge(q + 1) \in Nat /\ a < Edge(q + 1)
    <2>1. PlaceIs(q)
      BY PlaceNumbers
    <2> QED
      BY <2>1 DEF PlaceIs
  <1>2. block_start % BLOCK_SIZE = 0
    BY DEF Aligned
  <1>3. Edge(q + 1) <= block_start \/ block_start <= a
    BY <1>2, CursorNumbers, NoStraddle
  <1> HIDE DEF a
  <1>4. block_start <= a /\ a < block_start + BLOCK_SIZE
    BY <1>1, <1>3, CursorNumbers, BlockAssumption
  <1>5. a \div BLOCK_SIZE = block_start \div BLOCK_SIZE
    BY <1>1, <1>2, <1>4, CursorNumbers, InBlock
  <1> QED
    BY <1>5 DEF a, InThisBlock

-----------------------------------------------------------------------------
(* What the cursor reads in a block whose headers stand.                   *)

\* A header that stands is read as it was written.
LEMMA HeaderRead ==
    ASSUME ScanInv, FileInv, HeaderFits, NEW q \in 1..LastPlace, here = Ph(q).at,
           HeaderStands(Ph(q))
    PROVE  length = Ph(q).length /\ record_type = Ph(q).type /\ ~ZeroHeader
  <1> DEFINE g == Ph(q)
  <1>1. PlaceIs(q) /\ PhysicalIs(q)
    BY PlaceNumbers, PhysicalFacts
  <1>2. /\ here + 2 < Len(file.val) /\ here \in Nat /\ Len(file.val) \in Nat
    BY CursorNumbers
  <1>3. \A at \in {here + 1, here + 2} : at \notin file.spoiled
    BY <1>2 DEF HeaderStands
  <1>4. Writer!End(g) = here + 3 + g.length /\ g.length \in Nat
    BY <1>1 DEF PlaceIs, PhysicalIs, HEADER_SIZE
  <1>5. {here + 1, here + 2} \subseteq Writer!Extent(g) \ file.spoiled
    <2>1. {here + 1, here + 2} \subseteq here..(here + 3 + g.length) - 1
      BY <1>2, <1>4, SMTT(30)
    <2> QED
      BY <1>3, <1>4, <2>1 DEF Writer!Extent
  <1>6. \A o \in Writer!Extent(g) \ file.spoiled :
            o # g.at => file.val[o + 1] = Writer!CellAt(file, g, o)
    BY DEF FileInv, Writer!IsLog, Ph, LastPlace
  <1>7. file.val[(here + 1) + 1] = Writer!CellAt(file, g, here + 1)
        /\ file.val[(here + 2) + 1] = Writer!CellAt(file, g, here + 2)
    <2>1. here + 1 # g.at /\ here + 2 # g.at
      BY <1>2
    <2> QED
      BY <1>5, <1>6, <2>1
  <1>8. Writer!CellAt(file, g, here + 1) = g.length /\ Writer!CellAt(file, g, here + 2) = g.type
    <2>1. here + 2 # here + 1
      BY <1>2
    <2> QED
      BY <2>1 DEF Writer!CellAt
  <1>9. length = g.length /\ record_type = g.type
    <2>1. (here + 1) + 1 = here + 2 /\ (here + 2) + 1 = here + 3
      BY <1>2
    <2> QED
      BY <1>7, <1>8, <2>1 DEF length, record_type
  <1>10. g.type # 0
    <2>1. g.type \in {REC_FULL, REC_FIRST, REC_MIDDLE, REC_LAST}
      BY <1>1 DEF PhysicalIs, Writer!Physical
    <2> QED
      BY <2>1, RecordTypeAssumption
  <1> QED
    BY <1>9, <1>10 DEF ZeroHeader

\* In a block whose headers stand the reader is at the header of the record
\* under the cursor, if any can still be there.
LEMMA StandingRecord ==
    ASSUME ScanInv, FileInv, Aligned, Standing, Synced, HeaderFits,
           NEW q \in 1..LastPlace, Under(q)
    PROVE  /\ here = Ph(q).at /\ length = Ph(q).length /\ record_type = Ph(q).type
           /\ ~ZeroHeader /\ InThisBlock(q)
  <1>1. InThisBlock(q) /\ Ph(q).at <= here
    BY UnderInBlock
  <1>2. PlaceIs(q) /\ PhysicalIs(q)
    BY PlaceNumbers, PhysicalFacts
  <1>3. here = Ph(q).at
    <2>1. Edge(q + 1) <= here \/ here <= Ph(q).at
      BY DEF Synced
    <2> QED
      BY <1>1, <1>2, <2>1, CursorNumbers, SMTT(30) DEF Under, PlaceIs
  <1>4. HeaderStands(Ph(q))
    <2>1. Ph(q) \in Range(file.physical)
      BY <1>2 DEF PhysicalIs
    <2> QED
      BY <1>1, <2>1 DEF Standing, HeadersStandIn, InThisBlock
  <1> QED
    BY <1>1, <1>3, <1>4, HeaderRead

\* Past the last record there are zeros.
LEMMA ZerosAfter ==
    ASSUME ScanInv, FileInv, HeaderFits, \A q \in 1..LastPlace : Edge(q + 1) <= here
    PROVE  ZeroHeader
  <1>1. LastPlace \in Nat /\ Edge(LastPlace + 1) <= here
    <2>1. LastPlace \in Nat /\ Edge(1) = 0
      BY PhysicalFacts
    <2>2. CASE LastPlace = 0
      BY <2>1, <2>2, CursorNumbers
    <2>3. CASE LastPlace # 0
      <3>1. LastPlace \in 1..LastPlace
        BY <2>1, <2>3
      <3> QED
        BY <2>1, <3>1
    <2> QED
      BY <2>1, <2>2, <2>3
  <1>2. here + 2 < Len(file.val) /\ here \in Nat /\ Len(file.val) \in Nat
    BY CursorNumbers
  <1>3. Edge(LastPlace + 1) \in Int
    <2>1. CASE LastPlace = 0
      BY <2>1, PhysicalFacts
    <2>2. CASE LastPlace # 0
      <3>1. LastPlace \in 1..LastPlace
        BY <1>1, <2>2
      <3>2. PlaceIs(LastPlace)
        BY <3>1, PlaceNumbers
      <3> QED
        BY <3>2 DEF PlaceIs
    <2> QED
      BY <2>1, <2>2
  <1>4. {here, here + 1, here + 2} \subseteq Edge(LastPlace + 1)..Len(file.val) - 1
    BY <1>1, <1>2, <1>3
  <1>5. \A o \in Edge(LastPlace + 1)..Len(file.val) - 1 : file.val[o + 1] = 0
    BY DEF FileInv, Writer!IsLog, Edge, Prior, LastPlace
  <1>6. file.val[here + 1] = 0 /\ file.val[(here + 1) + 1] = 0 /\ file.val[(here + 2) + 1] = 0
    BY <1>4, <1>5
  <1>7. (here + 1) + 1 = here + 2 /\ (here + 2) + 1 = here + 3
    BY <1>2
  <1> QED
    BY <1>6, <1>7 DEF ZeroHeader, stored_crc, length, record_type

\* Leaving a block whose headers stand, the reader passes over no whole record.
LEMMA NothingSkipped ==
    ASSUME ScanInv, FileInv, Aligned, Standing, Synced,
           ~HeaderFits \/ ZeroHeader \/ data_end > block_len,
           NEW r \in 1..LastPlace, here < Edge(r + 1)
    PROVE  block_end < Edge(r + 1)
  <1>1. PICK q \in 1..r : Under(q)
    BY CursorNumbers, UnderExists
  <1>2. q \in 1..LastPlace /\ LastPlace \in Nat
    BY PlaceNumbers
  <1>3. PlaceIs(q) /\ PlaceIs(r)
    BY <1>2, PlaceNumbers
  <1>4. Edge(q + 1) <= Edge(r + 1)
    <2>1. CASE q = r
      BY <1>3, <2>1 DEF PlaceIs
    <2>2. CASE q < r
      <3>1. Ascend(q, r)
        BY <1>2, <2>2, PlacesAscend
      <3> QED
        BY <1>3, <3>1 DEF Ascend, PlaceIs
    <2> QED
      BY <1>2, <2>1, <2>2
  <1>5. block_end < Edge(q + 1)
    <2>1. CASE HeaderFits
      <3>1. here = Ph(q).at /\ length = Ph(q).length /\ ~ZeroHeader
        BY <1>1, <1>2, <2>1, StandingRecord
      <3>2. pos + 3 + length > block_len
        BY <2>1, <3>1 DEF data_end, HEADER_SIZE
      <3>3. Ph(q).length \in Nat /\ Edge(q + 1) = Ph(q).at + 3 + Ph(q).length
        BY <1>3 DEF PlaceIs
      <3> QED
        BY <3>1, <3>2, <3>3, CursorNumbers, SMTT(30)
    <2>2. CASE ~HeaderFits
      <3>1. Edge(q + 1) <= here \/ here <= Ph(q).at
        BY <1>2 DEF Synced
      <3>2. Ph(q).length \in Nat /\ Ph(q).at \in Nat /\ Edge(q + 1) = Ph(q).at + 3 + Ph(q).length
        BY <1>3 DEF PlaceIs
      <3>3. here < Edge(q + 1)
        BY <1>1 DEF Under
      <3> QED
        BY <2>2, <3>1, <3>2, <3>3, CursorNumbers, SMTT(30)
    <2> QED
      BY <2>1, <2>2
  <1>6. Edge(q + 1) \in Nat /\ Edge(r + 1) \in Nat
    BY <1>3 DEF PlaceIs
  <1> QED
    BY <1>4, <1>5, <1>6, CursorNumbers

\* The reader consumes physical record q.
Consumes(q) == /\ here = Ph(q).at /\ Under(q) /\ InThisBlock(q)
               /\ length = Ph(q).length /\ record_type = Ph(q).type
               /\ here' = Edge(q + 1)

\* In a block whose headers stand, what the reader consumes is a physical record.
LEMMA RecordConsumed ==
    ASSUME ScanInv, FileInv, Aligned, Standing, Synced, Physical
    PROVE  \E q \in 1..LastPlace : Consumes(q)
  <1>1. HeaderFits /\ ~ZeroHeader
    BY DEF Physical
  <1>2. PICK r \in 1..LastPlace : ~(Edge(r + 1) <= here)
    BY <1>1, ZerosAfter
  <1>3. LastPlace \in Nat /\ PlaceIs(r)
    BY PlaceNumbers
  <1>4. here < Edge(r + 1)
    BY <1>2, <1>3, CursorNumbers, SMTT(30) DEF PlaceIs
  <1>5. PICK q \in 1..r : Under(q)
    BY <1>4, CursorNumbers, UnderExists
  <1>6. q \in 1..LastPlace
    BY <1>3
  <1>7. here = Ph(q).at /\ length = Ph(q).length /\ record_type = Ph(q).type /\ InThisBlock(q)
    BY <1>1, <1>5, <1>6, StandingRecord
  <1>8. here' = here + 3 + length
    BY DataProperties DEF HEADER_SIZE
  <1>9. here' = Edge(q + 1)
    <2>1. PlaceIs(q)
      BY <1>6, PlaceNumbers
    <2> QED
      BY <1>7, <1>8, <2>1 DEF PlaceIs
  <1> QED
    BY <1>5, <1>6, <1>7, <1>9 DEF Consumes

\* The offsets where a checksum holds.
LEMMA GoodIs ==
    ASSUME FileInv
    PROVE  \A h : h \in file.good <=>
               \E p \in Range(file.physical) : Writer!Sound(file, p) /\ p.at = h
  <1>1. Writer!Range(file.physical) = Range(file.physical)
    BY DEF Range, Writer!Range
  <1>2. file.good = {g.at : g \in {p \in Writer!Range(file.physical) : Writer!Sound(file, p)}}
    BY DEF FileInv, Writer!IsLog
  <1> QED
    BY <1>1, <1>2

\* Its checksum holds when no byte of it has changed, and then its data is what
\* was written.
Carries(q) == \A k \in 1..Ph(q).length :
                  data[k].val = file.written[Ph(q).batch].payload[Ph(q).from + k]

\* A checksum holds over a record that is consumed if no byte of it has changed, and
\* then its data is the part of the payload that was written there.
LEMMA SoundData ==
    ASSUME ScanInv, FileInv, Physical, NEW q \in 1..LastPlace, Consumes(q)
    PROVE  /\ crc_ok <=> Writer!Sound(file, Ph(q))
           /\ crc_ok => Carries(q)
  <1> DEFINE g == Ph(q)
  <1>1. PlaceIs(q) /\ PhysicalIs(q) /\ LastPlace \in Nat
    BY PlaceNumbers, PhysicalFacts
  <1>2. here = g.at /\ length = g.length
    BY DEF Consumes
  <1>3. crc_ok <=> \E p \in Range(file.physical) : Writer!Sound(file, p) /\ p.at = here
    <2> QED
      BY GoodIs DEF crc_ok
  <1>4. ASSUME NEW p \in Range(file.physical), p.at = here
        PROVE  p = g
    <2>1. PICK k \in 1..LastPlace : p = Ph(k)
      BY DEF Range, Ph, LastPlace, FileInv, Writer!IsLog
    <2>2. PlaceIs(k)
      BY PlaceNumbers
    <2>3. ~(k < q)
      <3> SUFFICES ASSUME k < q PROVE FALSE
        OBVIOUS
      <3>1. Ascend(k, q)
        BY PlacesAscend
      <3> QED
        BY <1>1, <1>2, <1>4, <2>1, <2>2, <3>1 DEF Ascend, PlaceIs
    <2>4. ~(q < k)
      <3> SUFFICES ASSUME q < k PROVE FALSE
        OBVIOUS
      <3>1. Ascend(q, k)
        BY PlacesAscend
      <3> QED
        BY <1>1, <1>2, <1>4, <2>1, <2>2, <3>1 DEF Ascend, PlaceIs
    <2>5. k = q
      BY <1>1, <2>3, <2>4
    <2> QED
      BY <2>1, <2>5
  <1>5. g \in Range(file.physical)
    BY <1>1 DEF PhysicalIs
  <1>6. crc_ok <=> Writer!Sound(file, g)
    BY <1>2, <1>3, <1>4, <1>5
  <1>7. ASSUME Writer!Sound(file, g), NEW k \in 1..g.length
        PROVE  data[k].val = file.written[g.batch].payload[g.from + k]
    <2> DEFINE o == here + 2 + k
    <2>1. here \in Nat /\ g.length \in Nat /\ g.from \in Nat /\ o \in Nat /\ k \in Nat
          /\ Writer!End(g) = here + 3 + g.length
      <3>1. g.length \in Nat /\ g.from \in Nat /\ Writer!End(g) = g.at + 3 + g.length
        BY <1>1 DEF PlaceIs
      <3>2. here \in Nat
        BY CursorNumbers
      <3> HIDE DEF g
      <3>3. k \in Nat /\ o \in Nat
        BY <3>1, <3>2
      <3> QED
        BY <1>2, <3>1, <3>2, <3>3
    <2>2. o \in Writer!Extent(g) \ file.spoiled
      <3>1. o \in here..(here + 3 + g.length) - 1
        BY <2>1
      <3> HIDE DEF o
      <3>2. o \in Writer!Extent(g)
        BY <1>2, <2>1, <3>1 DEF Writer!Extent
      <3> QED
        BY <1>7, <3>2 DEF Writer!Sound
    <2>3. o # g.at /\ o # g.at + 1 /\ o # g.at + 2
      BY <1>2, <2>1
    <2> HIDE DEF o
    <2>4. file.val[o + 1] = Writer!CellAt(file, g, o)
      BY <2>2, <2>3 DEF FileInv, Writer!IsLog, Ph, LastPlace
    <2>5. Writer!CellAt(file, g, o) = file.written[g.batch].payload[g.from + o - g.at - 2]
      BY <2>3 DEF Writer!CellAt
    <2>6. g.from + o - g.at - 2 = g.from + k /\ o + 1 = here + 3 + k
      BY <1>2, <2>1 DEF o
    <2>7. data[k].val = file.val[here + 3 + k]
      BY <1>2, <1>7 DEF data, Bytes, HEADER_SIZE
    <2> QED
      BY <2>4, <2>5, <2>6, <2>7
  <1> QED
    BY <1>6, <1>7 DEF Carries

-----------------------------------------------------------------------------
(* The reader keeps in step with the blocks.                               *)

\* The file never changes, so neither does what is known of its records.
LEMMA SameFile ==
    ASSUME file' = file
    PROVE  /\ FileInv => FileInv'
           /\ LastPlace' = LastPlace
           /\ \A q : Ph(q)' = Ph(q)
           /\ \A q : Edge(q)' = Edge(q)
           /\ \A bl : HeadersStandIn(bl)' = HeadersStandIn(bl)
           /\ HeadersStand' = HeadersStand
  <1>1. FileInv => FileInv'
    BY DEF FileInv
  <1>2. LastPlace' = LastPlace /\ \A q : Ph(q)' = Ph(q)
    BY DEF LastPlace, Ph
  <1>3. \A q : Edge(q)' = Edge(q)
    BY DEF Edge, Prior
  <1>4. \A bl : HeadersStandIn(bl)' = HeadersStandIn(bl)
    BY DEF HeadersStandIn, HeaderStands
  <1>5. HeadersStand' = HeadersStand
    BY DEF HeadersStand, HeaderStands
  <1> QED
    BY <1>1, <1>2, <1>3, <1>4, <1>5

\* The order of two physical records, in numbers.
LEMMA Order ==
    ASSUME FileInv, NEW q \in 1..LastPlace, NEW r \in 1..LastPlace
    PROVE  /\ LastPlace \in Nat
           /\ Edge(q) \in Nat /\ Edge(q + 1) \in Nat
           /\ Edge(q) <= Ph(q).at /\ Ph(q).at < Edge(q + 1) /\ Ph(q).at \in Nat
           /\ Ph(q).batch \in Nat /\ Ph(r).batch \in Nat
           /\ q < r => /\ Edge(q + 1) <= Edge(r)
                       /\ Ph(q).batch <= Ph(r).batch
                       /\ Writer!Closes(Ph(q)) => Ph(q).batch < Ph(r).batch
  <1>1. LastPlace \in Nat /\ PlaceIs(q) /\ PlaceIs(r)
    BY PlaceNumbers
  <1>2. q < r => Ascend(q, r)
    BY PlacesAscend
  <1>3. /\ Edge(q) \in Nat /\ Ph(q).at \in Nat /\ Ph(q).length \in Nat
        /\ Edge(q) <= Ph(q).at /\ Edge(q + 1) = Ph(q).at + 3 + Ph(q).length
        /\ Ph(q).batch \in Nat /\ Ph(r).batch \in Nat /\ Edge(q + 1) = Writer!End(Ph(q))
    BY <1>1 DEF PlaceIs
  <1>4. q < r => /\ Edge(q + 1) <= Edge(r)
                 /\ Ph(q).batch <= Ph(r).batch
                 /\ Writer!Closes(Ph(q)) => Ph(q).batch < Ph(r).batch
    BY <1>2, <1>3 DEF Ascend
  <1> QED
    BY <1>1, <1>3, <1>4

SyncInv == block_start < Len(file.val) => Aligned /\ (Standing => Synced)

\* A new block is entered in step.
LEMMA SyncNextBlock ==
    ASSUME ScanInv, FileInv, SyncInv, Scanning, NextBlock
    PROVE  SyncInv'
  <1>1. file' = file /\ block_start' = block_end /\ pos' = 0
    BY DEF NextBlock
  <1>2. Aligned
    BY DEF SyncInv, Scanning
  <1> SUFFICES ASSUME block_end < Len(file.val)
               PROVE  Aligned' /\ Synced'
    BY <1>1 DEF SyncInv
  <1>3. block_end % BLOCK_SIZE = 0
    <2>1. block_end = block_start + BLOCK_SIZE /\ block_start \in Nat
      BY CursorNumbers
    <2> QED
      BY <1>2, <2>1, NextStart DEF Aligned
  <1>4. here' = block_end /\ block_end \in Nat
    BY <1>1, CursorNumbers DEF here
  <1>5. \A q \in 1..LastPlace : Edge(q + 1) <= block_end \/ block_end <= Ph(q).at
    BY <1>3, <1>4, NoStraddle
  <1>6. Aligned'
    BY <1>1, <1>3 DEF Aligned
  <1>7. Synced'
    BY <1>1, <1>4, <1>5, SameFile DEF Synced
  <1> QED
    BY <1>6, <1>7

\* Nor does a record that is consumed put it out of step.
LEMMA SyncPhysical ==
    ASSUME ScanInv, FileInv, SyncInv, Physical
    PROVE  SyncInv'
  <1>1. Scanning /\ file' = file /\ block_start' = block_start
    BY DEF Physical
  <1>2. Aligned /\ Aligned' /\ Standing' = Standing
    <2>1. Standing' = HeadersStandIn(block_start \div BLOCK_SIZE)'
      BY DEF Standing
    <2>2. HeadersStandIn(block_start \div BLOCK_SIZE)' = HeadersStandIn(block_start \div BLOCK_SIZE)
      BY <1>1 DEF HeadersStandIn, HeaderStands
    <2> QED
      BY <1>1, <2>1, <2>2 DEF SyncInv, Scanning, Aligned, Standing
  <1>3. ASSUME Standing PROVE Synced'
    <2>1. Synced
      BY <1>1, <1>3 DEF SyncInv, Scanning
    <2>2. PICK p \in 1..LastPlace : Consumes(p)
      BY <1>2, <1>3, <2>1, RecordConsumed
    <2>3. here' = Edge(p + 1)
      BY <2>2 DEF Consumes
    <2>4. ASSUME NEW q \in 1..LastPlace
          PROVE  Edge(q + 1) <= Edge(p + 1) \/ Edge(p + 1) <= Ph(q).at
      <3>1. /\ Edge(p) \in Nat /\ Edge(p + 1) \in Nat /\ Edge(p) < Edge(p + 1)
            /\ p < q => Edge(p + 1) <= Edge(q)
        BY Order
      <3>2. /\ Edge(q) \in Nat /\ Edge(q + 1) \in Nat /\ Ph(q).at \in Nat /\ Edge(q) <= Ph(q).at
            /\ q < p => Edge(q + 1) <= Edge(p)
        BY Order
      <3>3. q = p \/ q < p \/ p < q
        BY Order
      <3> QED
        BY <3>1, <3>2, <3>3
    <2> QED
      BY <1>1, <2>3, <2>4, SameFile DEF Synced
  <1> QED
    BY <1>2, <1>3 DEF SyncInv

-----------------------------------------------------------------------------
(* What has been gathered of a batch in the middle of it.                  *)

\* The physical records of the batch before the q-th are sound.
SoundBefore(q) == \A r \in 1..q - 1 : Ph(r).batch = Ph(q).batch => Writer!Sound(file, Ph(r))

\* They are, and the headers stand in the blocks of the batch up to the q-th.
Trusted(q) == /\ SoundBefore(q)
              /\ \A r \in 1..q : Ph(r).batch = Ph(q).batch =>
                                     HeadersStandIn(Ph(r).at \div BLOCK_SIZE)

\* What the reader has of the batch is what was written of it before the q-th.
Gathered(q) == /\ in_record /\ Len(fragment) = Ph(q).from
               /\ \A k \in 1..Ph(q).from :
                      fragment[k].val = file.written[Ph(q).batch].payload[k]

Continued(q) == /\ Trusted(q) => Gathered(q)
                /\ HeadersStand /\ in_record => SoundBefore(q)

GatherInv == \A q \in 1..LastPlace : ~Writer!Opens(Ph(q)) /\ Under(q) => Continued(q)

\* A record that opens no batch goes on with that of the one before it, and the
\* first of a batch comes after all of those before.
LEMMA Neighbours ==
    ASSUME FileInv, NEW q \in 1..LastPlace
    PROVE  /\ ~Writer!Opens(Ph(q)) =>
                 /\ q - 1 \in 1..LastPlace /\ (q - 1) + 1 = q
                 /\ ~Writer!Closes(Ph(q - 1)) /\ Ph(q - 1).batch = Ph(q).batch
                 /\ Ph(q).from = Ph(q - 1).from + Ph(q - 1).length
           /\ Writer!Opens(Ph(q)) =>
                 Ph(q).from = 0 /\ \A r \in 1..q - 1 : Ph(r).batch # Ph(q).batch
  <1>1. LastPlace \in Nat /\ PlaceIs(q) /\ PhysicalIs(q)
    BY PlaceNumbers, PhysicalFacts
  <1>2. /\ Writer!Opens(Ph(q)) = Writer!Closes(Prior(q))
        /\ Ph(q).batch = IF Writer!Closes(Prior(q)) THEN Prior(q).batch + 1 ELSE Prior(q).batch
        /\ Ph(q).from = IF Writer!Closes(Prior(q)) THEN 0 ELSE Prior(q).from + Prior(q).length
    BY <1>1 DEF PhysicalIs
  <1>3. q > 1 => Prior(q) = Ph(q - 1)
    BY <1>1 DEF PlaceIs
  <1>4. q = 1 => Writer!Closes(Prior(q))
    BY DEF Prior, Writer!Previous, Writer!Nothing, Writer!Closes
  <1>5. ASSUME ~Writer!Opens(Ph(q))
        PROVE  /\ q - 1 \in 1..LastPlace /\ (q - 1) + 1 = q
               /\ ~Writer!Closes(Ph(q - 1)) /\ Ph(q - 1).batch = Ph(q).batch
               /\ Ph(q).from = Ph(q - 1).from + Ph(q - 1).length
    <2>1. q > 1
      BY <1>1, <1>2, <1>4, <1>5
    <2>2. q - 1 \in 1..LastPlace /\ (q - 1) + 1 = q
      BY <1>1, <2>1
    <2> QED
      BY <1>2, <1>3, <1>5, <2>1, <2>2
  <1>6. ASSUME Writer!Opens(Ph(q)), NEW r \in 1..q - 1
        PROVE  Ph(r).batch # Ph(q).batch
    <2>1. r \in 1..LastPlace /\ q > 1 /\ q - 1 \in 1..LastPlace /\ (r = q - 1 \/ r < q - 1)
      BY <1>1
    <2>2. Ph(q).batch = Ph(q - 1).batch + 1
      BY <1>2, <1>3, <1>6, <2>1
    <2>3. Ph(r).batch <= Ph(q - 1).batch /\ Ph(q - 1).batch \in Nat /\ Ph(r).batch \in Nat
      BY <2>1, Order
    <2> QED
      BY <2>2, <2>3
  <1> QED
    BY <1>2, <1>5, <1>6

\* While the block that is left, or the one the reader is in, has a header that
\* does not stand, nothing is claimed of a batch that lies in it.
LEMMA GatherLost ==
    ASSUME ScanInv, FileInv, Aligned, ~Standing, NEW q \in 1..LastPlace, ~Writer!Opens(Ph(q)),
           here < Edge(q), Edge(q) <= block_end
    PROVE  Continued(q)
  <1>1. /\ q - 1 \in 1..LastPlace /\ (q - 1) + 1 = q /\ Ph(q - 1).batch = Ph(q).batch
    BY Neighbours
  <1> DEFINE r == q - 1
  <1>2. r \in 1..LastPlace /\ r \in 1..q /\ r + 1 = q /\ Ph(r).batch = Ph(q).batch
    BY <1>1
  <1> HIDE DEF r
  <1>3. InThisBlock(r)
    BY <1>2, EndsInBlock
  <1>4. ~HeadersStandIn(Ph(r).at \div BLOCK_SIZE)
    BY <1>3 DEF InThisBlock, Standing
  <1>5. ~Trusted(q)
    BY <1>2, <1>4 DEF Trusted
  <1>6. ~HeadersStand
    BY <1>4 DEF HeadersStand, HeadersStandIn
  <1> QED
    BY <1>5, <1>6 DEF Continued

\* Two records are not under the cursor at once.
LEMMA UnderUnique ==
    ASSUME FileInv, NEW q \in 1..LastPlace, NEW r \in 1..LastPlace, NEW h \in Nat,
           Edge(q) <= h, h < Edge(q + 1), Edge(r) <= h, h < Edge(r + 1)
    PROVE  q = r
  <1>1. /\ Edge(q) \in Nat /\ Edge(q + 1) \in Nat
        /\ q < r => Edge(q + 1) <= Edge(r)
    BY Order
  <1>2. /\ Edge(r) \in Nat /\ Edge(r + 1) \in Nat
        /\ r < q => Edge(r + 1) <= Edge(q)
    BY Order
  <1>3. q = r \/ q < r \/ r < q
    BY Order
  <1> QED
    BY <1>1, <1>2, <1>3

\* Nothing is gathered and nothing lost where the rest of a block is passed over.
LEMMA GatherNextBlock ==
    ASSUME ScanInv, FileInv, SyncInv, GatherInv, Scanning, NextBlock,
           ~HeaderFits \/ ZeroHeader \/ data_end > block_len
    PROVE  GatherInv'
  <1>1. /\ file' = file /\ block_start' = block_end /\ pos' = 0
        /\ fragment' = fragment /\ in_record' = in_record
    BY DEF NextBlock
  <1>2. Aligned /\ (Standing => Synced)
    BY DEF SyncInv, Scanning
  <1>3. here' = block_end /\ block_end \in Nat /\ here \in Nat /\ here <= block_end
    BY <1>1, CursorNumbers DEF here
  <1>4. LastPlace' = LastPlace /\ (\A q : Ph(q)' = Ph(q)) /\ (\A q : Edge(q)' = Edge(q))
    BY <1>1, SameFile
  <1>5. ASSUME NEW q \in 1..LastPlace, ~Writer!Opens(Ph(q)), Edge(q) <= block_end,
               block_end < Edge(q + 1)
        PROVE  Continued(q)
    <2>1. Edge(q) \in Nat /\ Edge(q + 1) \in Nat
      BY Order
    <2>2. CASE Edge(q) <= here
      <3>1. Under(q)
        BY <1>3, <1>5, <2>1, <2>2 DEF Under
      <3> QED
        BY <1>5, <3>1 DEF GatherInv
    <2>3. CASE here < Edge(q)
      <3>1. CASE ~Standing
        BY <1>2, <1>5, <2>3, <3>1, GatherLost
      <3>2. CASE Standing
        <4> DEFINE r == q - 1
        <4>1. r \in 1..LastPlace /\ r + 1 = q
          BY <1>5, Neighbours
        <4> HIDE DEF r
        <4>2. block_end < Edge(r + 1)
          BY <1>2, <2>3, <3>2, <4>1, NothingSkipped
        <4> QED
          BY <1>3, <1>5, <2>1, <4>1, <4>2
      <3> QED
        BY <3>1, <3>2
    <2> QED
      BY <1>3, <2>1, <2>2, <2>3
  <1>6. ASSUME NEW q, Continued(q) PROVE Continued(q)'
    BY <1>1, <1>6, SameFile DEF Continued, Trusted, Gathered, SoundBefore, Ph
  <1> QED
    BY <1>3, <1>4, <1>5, <1>6 DEF GatherInv, Under

\* The record after one that is consumed goes on with what was gathered so far.
LEMMA GatherConsumed ==
    ASSUME ScanInv, FileInv, SyncInv, GatherInv, PhysicalRecord, Standing,
           NEW p \in 1..LastPlace, Consumes(p), NEW q \in 1..LastPlace, q = p + 1,
           ~Writer!Opens(Ph(q))
    PROVE  /\ Trusted(q) => /\ in_record' /\ Len(fragment') = Ph(q).from
                            /\ \A k \in 1..Ph(q).from :
                                   fragment'[k].val = file.written[Ph(q).batch].payload[k]
           /\ HeadersStand /\ in_record' => SoundBefore(q)
  <1> DEFINE g == Ph(p)
             P(k) == file.written[Ph(q).batch].payload[k]
             Now == /\ in_record' /\ Len(fragment') = Ph(q).from
                    /\ \A k \in 1..Ph(q).from : fragment'[k].val = P(k)
  <1>1. Physical
    BY DEF PhysicalRecord, FullRecord, FirstFragment, MiddleFragment, LastFragment, UnknownType
  <1>2. record_type = g.type /\ length = g.length /\ Under(p)
    BY DEF Consumes
  <1>3. (crc_ok <=> Writer!Sound(file, g)) /\ (crc_ok => Carries(p))
    BY <1>1, SoundData
  <1>4. g.batch = Ph(q).batch /\ Ph(q).from = g.from + g.length /\ ~Writer!Closes(g)
    <2>1. q - 1 = p
      BY Order
    <2> QED
      BY <2>1, Neighbours
  <1>5. PlaceIs(p) /\ PhysicalIs(p) /\ LastPlace \in Nat
    BY PlaceNumbers, PhysicalFacts
  <1>6. g.from \in Nat /\ g.length \in Nat
    BY <1>5 DEF PlaceIs
  <1>7. record_type \in {REC_FIRST, REC_MIDDLE}
    <2>1. g.type \in {REC_FULL, REC_FIRST, REC_MIDDLE, REC_LAST}
      BY <1>5 DEF PhysicalIs, Writer!Physical
    <2> QED
      BY <1>2, <1>4, <2>1 DEF Writer!Closes
  <1>8. Trusted(q) => Writer!Sound(file, g) /\ Trusted(p)
    <2> SUFFICES ASSUME Trusted(q) PROVE Writer!Sound(file, g) /\ Trusted(p)
      OBVIOUS
    <2>1. p \in 1..q - 1 /\ 1..p - 1 \subseteq 1..q - 1 /\ 1..p \subseteq 1..q
      BY <1>5
    <2> QED
      BY <1>4, <2>1 DEF Trusted, SoundBefore
  <1>9. SoundBefore(p) /\ Writer!Sound(file, g) => SoundBefore(q)
    <2>1. \A r \in 1..q - 1 : r = p \/ r \in 1..p - 1
      BY <1>5
    <2> QED
      BY <1>4, <2>1 DEF SoundBefore
  <1>10. data \in Seq(Cell) /\ Len(data) = g.length /\ fragment \in Seq(Cell)
    BY <1>1, <1>2, DataProperties DEF ScanInv, TypeOK
  <1>11. CASE record_type = REC_FIRST
    <2>1. FirstFragment
      BY <1>11, RecordTypeAssumption
      DEF PhysicalRecord, FullRecord, FirstFragment, MiddleFragment, LastFragment, UnknownType
    <2>2. \/ crc_ok /\ fragment' = data /\ in_record'
          \/ ~crc_ok /\ ~in_record'
      BY <2>1 DEF FirstFragment, Reset
    <2>3. g.from = 0 /\ SoundBefore(p)
      <3>1. Writer!Opens(g)
        BY <1>2, <1>11 DEF Writer!Opens
      <3> QED
        BY <3>1, Neighbours DEF SoundBefore
    <2>4. ASSUME crc_ok PROVE Now
      <3>1. \A k \in 1..g.length : data[k].val = file.written[g.batch].payload[g.from + k]
        BY <1>3, <2>4 DEF Carries
      <3>2. \A k \in 1..g.length : g.from + k = k
        BY <2>3
      <3>3. Ph(q).from = g.length
        BY <1>4, <1>6, <2>3
      <3> QED
        BY <1>4, <1>10, <2>2, <2>4, <3>1, <3>2, <3>3
    <2> QED
      BY <1>3, <1>8, <1>9, <2>2, <2>3, <2>4
  <1>12. CASE record_type = REC_MIDDLE
    <2>1. MiddleFragment
      BY <1>12, RecordTypeAssumption
      DEF PhysicalRecord, FullRecord, FirstFragment, MiddleFragment, LastFragment, UnknownType
    <2>2. \/ in_record /\ crc_ok /\ fragment' = fragment \o data /\ in_record'
          \/ ~(in_record /\ crc_ok) /\ ~in_record'
      BY <2>1 DEF MiddleFragment, Reset
    <2>3. Continued(p)
      <3>1. ~Writer!Opens(g)
        BY <1>2, <1>12, RecordTypeAssumption DEF Writer!Opens
      <3> QED
        BY <1>2, <3>1 DEF GatherInv
    <2>4. ASSUME crc_ok, Gathered(p) PROVE Now
      <3>1. \A k \in 1..g.length : data[k].val = P(g.from + k)
        BY <1>3, <1>4, <2>4 DEF Carries
      <3>2. in_record /\ Len(fragment) = g.from /\ \A k \in 1..g.from : fragment[k].val = P(k)
        BY <1>4, <2>4 DEF Gathered
      <3> DEFINE u == fragment \o data
      <3>3. /\ Len(u) = g.from + g.length
            /\ \A k \in 1..g.from : u[k] = fragment[k]
            /\ \A k \in 1..g.length : u[g.from + k] = data[k]
        <4>1. fragment \in Seq(Cell) /\ data \in Seq(Cell)
          BY <1>10
        <4>2. /\ Len(u) = Len(fragment) + Len(data)
              /\ \A k \in 1..Len(fragment) : u[k] = fragment[k]
              /\ \A k \in 1..Len(data) : u[Len(fragment) + k] = data[k]
          BY <4>1, ConcatFacts
        <4> HIDE DEF u
        <4> QED
          BY <1>10, <3>2, <4>2
      <3> HIDE DEF u, P
      <3>4. ASSUME NEW k \in 1..Ph(q).from PROVE u[k].val = P(k)
        <4>1. CASE k \in 1..g.from
          BY <3>2, <3>3, <4>1
        <4>2. CASE k \notin 1..g.from
          <5>1. k - g.from \in 1..g.length /\ g.from + (k - g.from) = k
            BY <1>4, <1>6, <4>2
          <5> QED
            BY <3>1, <3>3, <5>1
        <4> QED
          BY <4>1, <4>2
      <3>5. fragment' = u /\ in_record'
        BY <2>2, <2>4, <3>2 DEF u
      <3> QED
        BY <1>4, <3>3, <3>4, <3>5
    <2> HIDE DEF Now
    <2>5. Trusted(q) => Now
      BY <1>3, <1>8, <2>3, <2>4 DEF Continued
    <2>6. HeadersStand /\ in_record' => SoundBefore(q)
      BY <1>3, <1>9, <2>2, <2>3 DEF Continued
    <2> QED
      BY <2>5, <2>6 DEF Now
  <1> QED
    BY <1>7, <1>11, <1>12

\* Every physical record that is consumed leaves a batch as it should be.
LEMMA GatherPhysical ==
    ASSUME ScanInv, FileInv, SyncInv, GatherInv, PhysicalRecord
    PROVE  GatherInv'
  <1>1. Physical
    BY DEF PhysicalRecord, FullRecord, FirstFragment, MiddleFragment, LastFragment, UnknownType
  <1>2. Scanning /\ HeaderFits /\ file' = file /\ block_start' = block_start
    BY <1>1 DEF Physical
  <1>3. Aligned /\ (Standing => Synced)
    BY <1>2 DEF SyncInv, Scanning
  <1>4. here' \in Nat /\ here < here' /\ here' <= block_end /\ here \in Nat /\ block_end \in Nat
    <2>1. block_start + pos' <= block_end /\ here' = block_start + pos'
      BY <1>1, <1>2, DataProperties DEF here
    <2> QED
      BY <1>1, <2>1, HereAdvances, CursorNumbers
  <1>5. LastPlace' = LastPlace /\ (\A q : Ph(q)' = Ph(q)) /\ (\A q : Edge(q)' = Edge(q))
    BY <1>2, SameFile
  <1>6. ASSUME NEW q \in 1..LastPlace, ~Writer!Opens(Ph(q)), Edge(q) <= here', here' < Edge(q + 1)
        PROVE  Continued(q)'
    <2>1. Edge(q) \in Nat /\ Edge(q + 1) \in Nat
      BY Order
    <2>2. Trusted(q)' = Trusted(q) /\ HeadersStand' = HeadersStand
          /\ SoundBefore(q)' = SoundBefore(q)
      BY <1>2, SameFile DEF Trusted, SoundBefore, Ph
    <2>3. CASE ~Standing
      <3>1. ~Trusted(q) /\ ~HeadersStand
        <4>1. CASE here < Edge(q)
          <5> DEFINE r == q - 1
          <5>1. r \in 1..LastPlace /\ r \in 1..q /\ r + 1 = q /\ Ph(r).batch = Ph(q).batch
            BY <1>6, Neighbours
          <5> HIDE DEF r
          <5>2. InThisBlock(r)
            BY <1>3, <1>4, <1>6, <2>1, <4>1, <5>1, EndsInBlock
          <5> QED
            BY <2>3, <5>1, <5>2 DEF Trusted, InThisBlock, Standing, HeadersStand, HeadersStandIn
        <4>2. CASE ~(here < Edge(q))
          <5>1. Under(q)
            BY <1>4, <1>6, <2>1, <4>2 DEF Under
          <5>2. InThisBlock(q)
            BY <1>2, <1>3, <5>1, UnderInBlock
          <5>3. q \in 1..q
            OBVIOUS
          <5> QED
            BY <2>3, <5>2, <5>3 DEF Trusted, InThisBlock, Standing, HeadersStand, HeadersStandIn
        <4> QED
          BY <4>1, <4>2
      <3> QED
        BY <2>2, <3>1 DEF Continued
    <2>4. CASE Standing
      <3>1. PICK p \in 1..LastPlace : Consumes(p)
        BY <1>1, <1>3, <2>4, RecordConsumed
      <3>2. here' = Edge(p + 1) /\ p + 1 # 1 /\ LastPlace \in Nat
        BY <3>1, Order DEF Consumes
      <3>3. q = p + 1
        <4>1. /\ Edge(p + 1) \in Nat
              /\ q < p \/ q = p => Edge(q + 1) <= Edge(p + 1)
          <5>1. Edge(p) < Edge(p + 1) /\ Edge(p) \in Nat /\ Edge(p + 1) \in Nat
            BY Order
          <5>2. q < p => Edge(q + 1) <= Edge(p)
            BY Order
          <5> QED
            BY <2>1, <5>1, <5>2
        <4>2. p < q
          BY <1>6, <2>1, <3>2, <4>1
        <4>3. p + 1 \in 1..LastPlace
          BY <3>2, <4>2
        <4>4. p + 1 < q => Edge((p + 1) + 1) <= Edge(q) /\ Edge(p + 1) < Edge((p + 1) + 1)
                           /\ Edge((p + 1) + 1) \in Nat
          BY <4>3, Order
        <4> QED
          BY <1>6, <2>1, <3>2, <4>1, <4>2, <4>4
      <3>4. /\ Trusted(q) => /\ in_record' /\ Len(fragment') = Ph(q).from
                             /\ \A k \in 1..Ph(q).from :
                                    fragment'[k].val = file.written[Ph(q).batch].payload[k]
            /\ HeadersStand /\ in_record' => SoundBefore(q)
        BY <1>6, <2>4, <3>1, <3>3, GatherConsumed
      <3>5. Trusted(q) => Gathered(q)'
        BY <1>2, <1>5, <3>4 DEF Gathered
      <3> QED
        BY <2>2, <3>4, <3>5 DEF Continued
    <2> QED
      BY <2>3, <2>4
  <1> QED
    BY <1>5, <1>6 DEF GatherInv, Under

-----------------------------------------------------------------------------
(* How an op is encoded.                                                   *)

Op == [key : Seq(Nat), value : Seq(Nat), seq : Nat, deleted : BOOLEAN]

\* The cells an op is encoded in, after the first m of P.
Takes(op)       == IF op.deleted THEN 2 + Len(op.key) ELSE 3 + Len(op.key) + Len(op.value)
KeyAt(P, m, op) == P[m + 2] = Len(op.key) /\ \A i \in 1..Len(op.key) : P[m + 2 + i] = op.key[i]
ValueAt(P, c, op) == P[c + 1] = Len(op.value)
                     /\ \A i \in 1..Len(op.value) : P[c + 1 + i] = op.value[i]
OpAt(P, m, op) == /\ m + Takes(op) <= Len(P)
                  /\ P[m + 1] = IF op.deleted THEN OP_DELETE ELSE OP_VALUE
                  /\ KeyAt(P, m, op)
                  /\ ~op.deleted => ValueAt(P, m + 2 + Len(op.key), op)

\* ConcatFacts for sequences of numbers.
LEMMA NumbersConcat ==
    ASSUME NEW s \in Seq(Nat), NEW t \in Seq(Nat)
    PROVE  /\ s \o t \in Seq(Nat)
           /\ Len(s \o t) = Len(s) + Len(t) /\ Len(s) \in Nat /\ Len(t) \in Nat
           /\ \A k \in 1..Len(s) : (s \o t)[k] = s[k]
           /\ \A k \in 1..Len(t) : (s \o t)[Len(s) + k] = t[k]
  <1> DEFINE N == Nat
  <1>1. s \in Seq(N) /\ t \in Seq(N)
    OBVIOUS
  <1> HIDE DEF N
  <1>2. /\ s \o t \in Seq(N)
        /\ Len(s \o t) = Len(s) + Len(t) /\ Len(s) \in Nat /\ Len(t) \in Nat
        /\ \A k \in 1..Len(s) : (s \o t)[k] = s[k]
        /\ \A k \in 1..Len(t) : (s \o t)[Len(s) + k] = t[k]
    BY <1>1, ConcatFacts
  <1> QED
    BY <1>2 DEF N

\* A length before what it is the length of.
StandsAfter(n, s, t) == /\ t \in Seq(Nat) /\ Len(t) = n + Len(s) /\ Len(s) \in Nat
                        /\ \A i \in 1..Len(s) : t[n + i] = s[i]

\* Two cells before a sequence.
LEMMA TwoBefore ==
    ASSUME NEW a \in Nat, NEW b \in Nat, NEW s \in Seq(Nat)
    PROVE  LET t == <<a, b>> \o s IN StandsAfter(2, s, t) /\ t[1] = a /\ t[2] = b
  <1> DEFINE u == <<a, b>>
  <1>1. u \in Seq(Nat) /\ Len(u) = 2 /\ u[1] = a /\ u[2] = b
    OBVIOUS
  <1> HIDE DEF u
  <1>2. /\ u \o s \in Seq(Nat)
        /\ Len(u \o s) = Len(u) + Len(s) /\ Len(u) \in Nat /\ Len(s) \in Nat
        /\ \A k \in 1..Len(u) : (u \o s)[k] = u[k]
        /\ \A k \in 1..Len(s) : (u \o s)[Len(u) + k] = s[k]
    BY <1>1, NumbersConcat
  <1>3. 1 \in 1..Len(u) /\ 2 \in 1..Len(u)
    BY <1>1
  <1>4. StandsAfter(2, s, u \o s) /\ (u \o s)[1] = a /\ (u \o s)[2] = b
    BY <1>1, <1>2, <1>3 DEF StandsAfter
  <1> QED
    BY <1>4 DEF u

\* The encoding of an op is the cells it takes.
EncodedAs(op, e) == /\ e \in Seq(Nat) /\ Len(e) = Takes(op) /\ Takes(op) \in Nat
                    /\ OpAt(e, 0, op)

\* What an op is encoded in stands at the start of its encoding.
LEMMA EncodeIs ==
    ASSUME NEW op, op.key \in Seq(Nat), op.value \in Seq(Nat), op.deleted \in BOOLEAN
    PROVE  EncodedAs(op, Writer!Encode(op))
  <1> DEFINE t == IF op.deleted THEN OP_DELETE ELSE OP_VALUE
             n == Len(op.key)
             v == Len(op.value)
             u == <<t, n>> \o op.key
             w == u \o <<v>>
             x == w \o op.value
  <1>1. n \in Nat /\ v \in Nat /\ t \in Nat
    BY BatchAssumption
  <1>2. u \in Seq(Nat) /\ Len(u) = 2 + n /\ u[1] = t /\ u[2] = n
        /\ \A i \in 1..n : u[2 + i] = op.key[i]
    <2> HIDE DEF t, n
    <2>1. StandsAfter(2, op.key, u) /\ u[1] = t /\ u[2] = n
      BY <1>1, TwoBefore
    <2> HIDE DEF u
    <2> QED
      BY <2>1 DEF StandsAfter, n
  <1> HIDE DEF t, n, v
  <1>3. CASE op.deleted
    <2>1. Writer!Encode(op) = u /\ t = OP_DELETE
      BY <1>3 DEF Writer!Encode, t, n
    <2> HIDE DEF u
    <2>2. Takes(op) = 2 + n
      BY <1>3 DEF Takes, n
    <2>3. KeyAt(u, 0, op)
      BY <1>1, <1>2 DEF KeyAt, n
    <2>4. OpAt(u, 0, op)
      BY <1>1, <1>2, <1>3, <2>1, <2>2, <2>3 DEF OpAt
    <2> QED
      BY <1>1, <1>2, <2>1, <2>2, <2>4 DEF EncodedAs
  <1>4. CASE ~op.deleted
    <2>1. Writer!Encode(op) = x /\ t = OP_VALUE
      BY <1>4 DEF Writer!Encode, t, n, v
    <2>2. w \in Seq(Nat) /\ Len(w) = 3 + n /\ w[3 + n] = v
          /\ \A i \in 1..2 + n : w[i] = u[i]
      <3> HIDE DEF u
      <3>1. <<v>> \in Seq(Nat) /\ Len(<<v>>) = 1 /\ <<v>>[1] = v
        BY <1>1
      <3> DEFINE z == <<v>>
      <3>2. z \in Seq(Nat) /\ Len(z) = 1 /\ z[1] = v
        BY <3>1
      <3> HIDE DEF z
      <3>3. /\ u \o z \in Seq(Nat)
            /\ Len(u \o z) = Len(u) + Len(z)
            /\ \A k \in 1..Len(u) : (u \o z)[k] = u[k]
            /\ \A k \in 1..Len(z) : (u \o z)[Len(u) + k] = z[k]
        BY <1>2, <3>2, NumbersConcat
      <3>4. w = u \o z
        BY DEF z
      <3> HIDE DEF w
      <3>5. 1 \in 1..Len(z) /\ Len(u) + 1 = 3 + n
        BY <1>1, <1>2, <3>2
      <3> QED
        BY <1>1, <1>2, <3>2, <3>3, <3>4, <3>5
    <2> HIDE DEF u
    <2>3. x \in Seq(Nat) /\ Len(x) = 3 + n + v
          /\ (\A i \in 1..3 + n : x[i] = w[i]) /\ \A i \in 1..v : x[3 + n + i] = op.value[i]
      <3> HIDE DEF w
      <3>1. /\ w \o op.value \in Seq(Nat)
            /\ Len(w \o op.value) = Len(w) + Len(op.value)
            /\ \A k \in 1..Len(w) : (w \o op.value)[k] = w[k]
            /\ \A k \in 1..Len(op.value) : (w \o op.value)[Len(w) + k] = op.value[k]
        BY <2>2, NumbersConcat
      <3> QED
        BY <2>2, <3>1 DEF v
    <2> HIDE DEF w, x
    <2>4. Takes(op) = 3 + n + v
      BY <1>4 DEF Takes, n, v
    <2>5. x[1] = t /\ x[2] = n /\ (\A i \in 1..n : x[2 + i] = op.key[i]) /\ x[3 + n] = v
      <3>1. ASSUME NEW i \in 1..2 + n PROVE x[i] = u[i]
        <4>1. i \in 1..3 + n
          BY <1>1
        <4> QED
          BY <2>2, <2>3, <4>1
      <3>2. 1 \in 1..2 + n /\ 2 \in 1..2 + n /\ 3 + n \in 1..3 + n
            /\ \A i \in 1..n : 2 + i \in 1..2 + n
        BY <1>1
      <3> QED
        BY <1>2, <2>2, <2>3, <3>1, <3>2
    <2>6. KeyAt(x, 0, op)
      BY <1>1, <2>5 DEF KeyAt, n
    <2>7. ValueAt(x, 2 + n, op)
      <3>1. (2 + n) + 1 = 3 + n
        BY <1>1
      <3> QED
        BY <2>3, <2>5, <3>1 DEF ValueAt, v
    <2>8. OpAt(x, 0, op)
      <3>1. 0 + Takes(op) <= Len(x) /\ 0 + 1 = 1 /\ 0 + 2 + n = 2 + n
        BY <1>1, <2>3, <2>4
      <3> QED
        BY <1>4, <2>1, <2>5, <2>6, <2>7, <3>1 DEF OpAt, n
    <2> QED
      BY <1>1, <2>1, <2>3, <2>4, <2>8 DEF EncodedAs
  <1> QED
    BY <1>3, <1>4

\* An op stands in P where its encoding does.
Lies(e, P, m) == m + Len(e) <= Len(P) /\ \A i \in 1..Len(e) : P[m + i] = e[i]

\* An encoding lies in P where the op stands, and only there.
LEMMA EncodingLies ==
    ASSUME NEW op, op.key \in Seq(Nat), op.value \in Seq(Nat), op.deleted \in BOOLEAN,
           NEW P \in Seq(Nat), NEW m \in Nat
    PROVE  Lies(Writer!Encode(op), P, m) <=> OpAt(P, m, op)
  <1> DEFINE e == Writer!Encode(op)
             n == Len(op.key)
             v == Len(op.value)
             D == op.deleted
  <1>1. EncodedAs(op, e)
    BY EncodeIs
  <1> HIDE DEF e
  <1>2. n \in Nat /\ v \in Nat /\ Takes(op) \in Nat /\ Len(e) = Takes(op) /\ OpAt(e, 0, op)
    BY <1>1 DEF EncodedAs
  <1>3. Takes(op) = IF D THEN 2 + n ELSE 3 + n + v
    BY DEF Takes
  <1>4. /\ e[1] = IF D THEN OP_DELETE ELSE OP_VALUE
        /\ e[2] = n /\ \A i \in 1..n : e[2 + i] = op.key[i]
        /\ ~D => e[3 + n] = v /\ \A i \in 1..v : e[3 + n + i] = op.value[i]
    <2>1. e[0 + 1] = (IF D THEN OP_DELETE ELSE OP_VALUE) /\ KeyAt(e, 0, op)
          /\ (~D => ValueAt(e, 0 + 2 + n, op))
      BY <1>2 DEF OpAt
    <2>2. 0 + 1 = 1 /\ 0 + 2 = 2 /\ (0 + 2 + n) + 1 = 3 + n
      BY <1>2
    <2>3. e[2] = n /\ \A i \in 1..n : e[2 + i] = op.key[i]
      BY <2>1, <2>2 DEF KeyAt
    <2>4. ~D => e[3 + n] = v /\ \A i \in 1..v : e[3 + n + i] = op.value[i]
      <3> SUFFICES ASSUME ~D PROVE e[3 + n] = v /\ \A i \in 1..v : e[3 + n + i] = op.value[i]
        OBVIOUS
      <3>1. e[(0 + 2 + n) + 1] = v /\ \A i \in 1..v : e[(0 + 2 + n) + 1 + i] = op.value[i]
        BY <2>1 DEF ValueAt
      <3> QED
        BY <2>2, <3>1
    <2> QED
      BY <2>1, <2>2, <2>3, <2>4
  <1>5. OpAt(P, m, op) <=>
           /\ m + Takes(op) <= Len(P)
           /\ P[m + 1] = IF D THEN OP_DELETE ELSE OP_VALUE
           /\ P[m + 2] = n /\ \A i \in 1..n : P[m + 2 + i] = op.key[i]
           /\ ~D => P[m + 3 + n] = v /\ \A i \in 1..v : P[m + 3 + n + i] = op.value[i]
    <2>1. (m + 2 + n) + 1 = m + 3 + n
      <3>1. n \in Nat
        BY <1>2
      <3> HIDE DEF n
      <3> QED
        BY <3>1
    <2>2. ValueAt(P, m + 2 + n, op) <=>
              P[m + 3 + n] = v /\ \A i \in 1..v : P[m + 3 + n + i] = op.value[i]
      BY <2>1 DEF ValueAt
    <2>3. KeyAt(P, m, op) <=> P[m + 2] = n /\ \A i \in 1..n : P[m + 2 + i] = op.key[i]
      BY DEF KeyAt
    <2> HIDE DEF n, v
    <2> QED
      BY <2>2, <2>3 DEF OpAt, n
  <1> HIDE DEF n, v, D
  <1>6. ASSUME Lies(e, P, m) PROVE OpAt(P, m, op)
    <2>1. m + Takes(op) <= Len(P) /\ \A i \in 1..Takes(op) : P[m + i] = e[i]
      BY <1>2, <1>6 DEF Lies
    <2>2. P[m + 1] = e[1] /\ P[m + 2] = e[2]
      BY <1>2, <1>3, <2>1
    <2>3. ASSUME NEW i \in 1..n PROVE P[m + 2 + i] = op.key[i]
      <3>1. 2 + i \in 1..Takes(op) /\ m + (2 + i) = m + 2 + i
        BY <1>2, <1>3
      <3> QED
        BY <1>4, <2>1, <3>1
    <2>4. ASSUME ~D PROVE P[m + 3 + n] = v
      <3>1. 3 + n \in 1..Takes(op) /\ m + (3 + n) = m + 3 + n
        BY <1>2, <1>3, <2>4
      <3> QED
        BY <1>4, <2>1, <2>4, <3>1
    <2>5. ASSUME ~D, NEW i \in 1..v PROVE P[m + 3 + n + i] = op.value[i]
      <3>1. 3 + n + i \in 1..Takes(op) /\ m + (3 + n + i) = m + 3 + n + i
        BY <1>2, <1>3, <2>5
      <3> QED
        BY <1>4, <2>1, <2>5, <3>1
    <2> QED
      BY <1>4, <1>5, <2>1, <2>2, <2>3, <2>4, <2>5
  <1>7. ASSUME OpAt(P, m, op) PROVE Lies(e, P, m)
    <2>1. ASSUME NEW i \in 1..Takes(op) PROVE P[m + i] = e[i]
      <3>1. CASE i = 1
        BY <1>4, <1>5, <1>7, <3>1
      <3>2. CASE i = 2
        BY <1>4, <1>5, <1>7, <3>2
      <3>3. CASE i \in 3..2 + n
        <4>1. i - 2 \in 1..n /\ 2 + (i - 2) = i /\ m + 2 + (i - 2) = m + i
          BY <1>2, <3>3
        <4>2. P[m + 2 + (i - 2)] = op.key[i - 2] /\ e[2 + (i - 2)] = op.key[i - 2]
          BY <1>4, <1>5, <1>7, <4>1
        <4> QED
          BY <4>1, <4>2
      <3>4. CASE ~D /\ i = 3 + n
        <4>1. m + 3 + n = m + i
          BY <1>2, <3>4
        <4> QED
          BY <1>4, <1>5, <1>7, <3>4, <4>1
      <3>5. CASE ~D /\ i \in 4 + n..3 + n + v
        <4> DEFINE j == i - (3 + n)
        <4>1. j \in 1..v /\ 3 + n + j = i /\ m + 3 + n + j = m + i
          BY <1>2, <3>5
        <4> HIDE DEF j
        <4>2. P[m + 3 + n + j] = op.value[j] /\ e[3 + n + j] = op.value[j]
          BY <1>4, <1>5, <1>7, <3>5, <4>1
        <4> QED
          BY <4>1, <4>2
      <3> QED
        BY <1>2, <1>3, <3>1, <3>2, <3>3, <3>4, <3>5
    <2> QED
      BY <1>2, <1>5, <1>7, <2>1 DEF Lies
  <1> QED
    BY <1>6, <1>7 DEF e

\* One op at most stands at a place.
LEMMA OneOpAt ==
    ASSUME NEW P, NEW m, NEW s, NEW t, OpAt(P, m, s), OpAt(P, m, t),
           s.key \in Seq(Nat), t.key \in Seq(Nat), s.value \in Seq(Nat), t.value \in Seq(Nat),
           s.deleted \in BOOLEAN, t.deleted \in BOOLEAN
    PROVE  s.key = t.key /\ s.deleted = t.deleted /\ (~s.deleted => s.value = t.value)
  <1>1. s.deleted = t.deleted
    BY BatchAssumption DEF OpAt
  <1>2. Len(s.key) = Len(t.key) /\ \A i \in 1..Len(s.key) : s.key[i] = t.key[i]
    BY DEF OpAt, KeyAt
  <1>3. s.key = t.key
    BY <1>2, SeqEqual
  <1>4. ASSUME ~s.deleted PROVE s.value = t.value
    <2>1. ValueAt(P, m + 2 + Len(s.key), s) /\ ValueAt(P, m + 2 + Len(s.key), t)
      BY <1>1, <1>3, <1>4 DEF OpAt
    <2>2. Len(s.value) = Len(t.value) /\ \A i \in 1..Len(s.value) : s.value[i] = t.value[i]
      BY <2>1 DEF ValueAt
    <2> QED
      BY <2>2, SeqEqual
  <1> QED
    BY <1>1, <1>3, <1>4

-----------------------------------------------------------------------------
(* What a written payload holds.                                           *)

Payload(b)  == file.written[b].payload
Ops(b)      == file.written[b].ops
Encoding(b) == [k \in DOMAIN Ops(b) |-> Writer!Encode(Ops(b)[k])]

\* Where the encodings of the first k ops of batch b end.
OpEnd(b, k) == 2 + Len(JoinedTo(Encoding(b), k))

\* What was written is of the types it should be.
LEMMA WrittenFacts ==
    ASSUME FileInv, NEW b \in 1..Len(file.written)
    PROVE  /\ Payload(b) \in Seq(Nat) /\ Ops(b) \in Seq(Op)
           /\ Writer!Holds(Payload(b), Ops(b))
           /\ Len(Payload(b)) \in Nat /\ Len(Ops(b)) \in Nat
           /\ \A k \in 1..Len(Ops(b)) :
                 /\ Ops(b)[k] \in Op
                 /\ Ops(b)[k].key \in Seq(Nat) /\ Ops(b)[k].value \in Seq(Nat)
                 /\ Ops(b)[k].deleted \in BOOLEAN
  <1>1. file.written \in Seq(Writer!Batch)
    BY DEF FileInv, Writer!IsLog
  <1>2. b \in DOMAIN file.written
    BY <1>1
  <1>3. file.written[b] \in Writer!Batch
    BY <1>1, <1>2
  <1>4. Payload(b) \in Seq(Nat) /\ Ops(b) \in Seq(Op)
    BY <1>3 DEF Payload, Ops, Op, Writer!Batch
  <1>5. Writer!Holds(Payload(b), Ops(b))
    BY <1>2 DEF FileInv, Writer!IsLog, Payload, Ops
  <1>6. \A k \in 1..Len(Ops(b)) : Ops(b)[k] \in Op
    BY <1>4
  <1>7. \A k \in 1..Len(Ops(b)) : /\ Ops(b)[k].key \in Seq(Nat) /\ Ops(b)[k].value \in Seq(Nat)
                                  /\ Ops(b)[k].deleted \in BOOLEAN
    BY <1>6 DEF Op
  <1>8. Len(Payload(b)) \in Nat /\ Len(Ops(b)) \in Nat
    BY <1>4
  <1> QED
    BY <1>4, <1>5, <1>6, <1>7, <1>8

\* The encodings of a batch add up: each op ends where its own encoding does.
LEMMA EncodingFacts ==
    ASSUME FileInv, NEW b \in 1..Len(file.written)
    PROVE  /\ Encoding(b) \in Seq(Seq(Nat)) /\ Len(Encoding(b)) = Len(Ops(b))
           /\ OpEnd(b, 0) = 2
           /\ \A k \in 1..Len(Ops(b)) :
                 /\ OpEnd(b, k - 1) \in Nat
                 /\ OpEnd(b, k) = OpEnd(b, k - 1) + Takes(Ops(b)[k])
                 /\ OpEnd(b, k) <= OpEnd(b, Len(Ops(b)))
           /\ OpEnd(b, Len(Ops(b))) = 2 + Len(FlattenSeq(Encoding(b)))
           /\ FlattenSeq(Encoding(b)) \in Seq(Nat)
  <1> DEFINE n == Len(Ops(b))
             s == Encoding(b)
  <1>1. Ops(b) \in Seq(Op) /\ n \in Nat /\ DOMAIN Ops(b) = 1..n
    BY WrittenFacts
  <1>2. ASSUME NEW k \in 1..n
        PROVE  EncodedAs(Ops(b)[k], Writer!Encode(Ops(b)[k]))
    BY WrittenFacts, EncodeIs
  <1>3. s \in [1..n -> Seq(Nat)]
    <2>1. \A k \in 1..n : Writer!Encode(Ops(b)[k]) \in Seq(Nat)
      BY <1>2 DEF EncodedAs
    <2> QED
      BY <1>1, <2>1 DEF Encoding
  <1>4. s \in Seq(Seq(Nat)) /\ Len(s) = n
    <2> HIDE DEF s
    <2>1. s \in Seq(Seq(Nat))
      BY <1>1, <1>3, SeqDef
    <2> QED
      BY <1>1, <1>3, <2>1, LenProperties
  <1>5. \A k \in 1..n : Len(s[k]) = Takes(Ops(b)[k])
    BY <1>1, <1>2 DEF Encoding, EncodedAs
  <1> DEFINE N == Nat
  <1>6. s \in Seq(Seq(N))
    BY <1>4
  <1> HIDE DEF s, N
  <1>7. /\ JoinedTo(s, 0) = <<>> /\ JoinedTo(s, Len(s)) = FlattenSeq(s)
        /\ FlattenSeq(s) \in Seq(N)
    BY <1>6, JoinedFacts, FlattenType
  <1>8. ASSUME NEW k \in 1..n
        PROVE  /\ Len(JoinedTo(s, k - 1)) \in Nat
               /\ Len(JoinedTo(s, k)) = Len(JoinedTo(s, k - 1)) + Len(s[k])
               /\ Len(JoinedTo(s, k)) <= Len(JoinedTo(s, n))
    <2>1. k \in 1..Len(s)
      BY <1>4
    <2>2. /\ Len(JoinedTo(s, k - 1)) \in Nat
          /\ Len(JoinedTo(s, k)) = Len(JoinedTo(s, k - 1)) + Len(s[k])
      BY <1>6, <2>1, ElementStands
    <2>3. k \in 0..Len(s) /\ n \in k..Len(s)
      BY <1>1, <1>4
    <2>4. Len(JoinedTo(s, k)) <= Len(JoinedTo(s, n))
      BY <1>6, <2>3, JoinedGrows
    <2> QED
      BY <2>2, <2>4
  <1>9. OpEnd(b, 0) = 2 /\ OpEnd(b, n) = 2 + Len(FlattenSeq(s))
    <2>1. Len(<<>>) = 0
      OBVIOUS
    <2> QED
      BY <1>4, <1>7, <2>1 DEF OpEnd, s
  <1>10. ASSUME NEW k \in 1..n
         PROVE  /\ OpEnd(b, k - 1) \in Nat
                /\ OpEnd(b, k) = OpEnd(b, k - 1) + Takes(Ops(b)[k])
                /\ OpEnd(b, k) <= OpEnd(b, n)
    <2> DEFINE x == Len(JoinedTo(s, k - 1))
               y == Len(JoinedTo(s, k))
               z == Len(JoinedTo(s, n))
               t == Takes(Ops(b)[k])
    <2>1. OpEnd(b, k - 1) = 2 + x /\ OpEnd(b, k) = 2 + y /\ OpEnd(b, n) = 2 + z
      BY DEF OpEnd, s
    <2>2. x \in Nat /\ y = x + t /\ y <= z
      BY <1>5, <1>8
    <2>3. t \in Nat /\ z \in Nat
      <3>1. t \in Nat
        BY <1>2 DEF EncodedAs
      <3>2. n \in 0..Len(s)
        BY <1>1, <1>4
      <3>3. JoinedTo(s, n) \in Seq(N)
        BY <1>6, <3>2, JoinedFacts
      <3> QED
        BY <3>1, <3>3
    <2> HIDE DEF x, y, z, t
    <2>4. 2 + x \in Nat /\ 2 + y = (2 + x) + t /\ 2 + y <= 2 + z
      BY <2>2, <2>3
    <2> QED
      BY <2>1, <2>4 DEF t
  <1> QED
    BY <1>4, <1>7, <1>9, <1>10 DEF s, N

\* A prefix has the elements that the whole begins with.
LEMMA PrefixStands ==
    ASSUME NEW X, NEW s \in Seq(X), NEW t \in Seq(X)
    PROVE  Writer!IsPrefix(t, s) <=> Lies(t, s, 0)
  <1>1. Len(s) \in Nat /\ Len(t) \in Nat
    OBVIOUS
  <1>2. Writer!IsPrefix(t, s) <=> IsPrefix(t, s)
    BY DEF Writer!IsPrefix, IsPrefix
  <1>3. ASSUME IsPrefix(t, s) PROVE Lies(t, s, 0)
    <2>1. Len(t) <= Len(s) /\ SubSeq(t, 1, Len(t)) = SubSeq(s, 1, Len(t))
      BY <1>3 DEF IsPrefix
    <2>2. SubSeq(t, 1, Len(t)) = t
      BY SubSeqFull
    <2>3. \A i \in 1..Len(t) : s[i] \in X
      BY <1>1, <2>1, ElementOfSeq
    <2>4. \A i \in 1..Len(t) - 1 + 1 : SubSeq(s, 1, Len(t))[i] = s[1 + i - 1]
      BY <1>1, <2>3, SubSeqProperties
    <2>5. ASSUME NEW i \in 1..Len(t) PROVE s[0 + i] = t[i]
      <3>1. i \in 1..Len(t) - 1 + 1 /\ 1 + i - 1 = i /\ 0 + i = i
        BY <1>1
      <3> QED
        BY <2>1, <2>2, <2>4, <3>1
    <2>6. 0 + Len(t) = Len(t)
      BY <1>1
    <2> QED
      BY <2>1, <2>5, <2>6 DEF Lies
  <1>4. ASSUME Lies(t, s, 0) PROVE IsPrefix(t, s)
    <2>1. 0 + Len(t) = Len(t) /\ \A i \in 1..Len(t) : 0 + i = i
      BY <1>1
    <2>2. Len(t) <= Len(s) /\ \A i \in 1..Len(t) : s[i] = t[i]
      BY <1>4, <2>1 DEF Lies
    <2> QED
      BY <2>2, StartsWith
  <1> QED
    BY <1>2, <1>3, <1>4

\* The header of a payload and the encodings of its ops.
HeaderOf(b)   == SubSeq(Payload(b), 1, 2)
HeadAndOps(b) == HeaderOf(b) \o Writer!Encoded(Ops(b))

\* The header and the encodings of the ops, cell by cell.
LEMMA EncodedIs ==
    ASSUME FileInv, NEW b \in 1..Len(file.written), Len(Payload(b)) >= 2
    PROVE  /\ HeadAndOps(b) \in Seq(Nat) /\ Len(HeadAndOps(b)) = OpEnd(b, Len(Ops(b)))
           /\ HeadAndOps(b)[1] = Payload(b)[1] /\ HeadAndOps(b)[2] = Payload(b)[2]
           /\ \A i \in 1..Len(FlattenSeq(Encoding(b))) :
                  HeadAndOps(b)[2 + i] = FlattenSeq(Encoding(b))[i]
  <1> DEFINE P == Payload(b)
             h == HeaderOf(b)
             f == FlattenSeq(Encoding(b))
  <1>1. P \in Seq(Nat) /\ Len(P) \in Nat /\ f \in Seq(Nat) /\ Len(f) \in Nat
    BY WrittenFacts, EncodingFacts
  <1>2. h \in Seq(Nat) /\ Len(h) = 2 /\ h[1] = P[1] /\ h[2] = P[2]
    <2> HIDE DEF P
    <2>1. \A i \in 1..2 : P[i] \in Nat
      BY <1>1, ElementOfSeq DEF P
    <2>2. /\ SubSeq(P, 1, 2) \in Seq(Nat) /\ Len(SubSeq(P, 1, 2)) = 2
          /\ \A i \in 1..2 : SubSeq(P, 1, 2)[i] = P[1 + i - 1]
      BY <2>1, SubSeqProperties
    <2>3. 1 + 1 - 1 = 1 /\ 1 + 2 - 1 = 2 /\ 1 \in 1..2 /\ 2 \in 1..2
      OBVIOUS
    <2> QED
      BY <2>2, <2>3 DEF HeaderOf, P
  <1>3. Writer!Encoded(Ops(b)) = f
    <2>1. Writer!Encoded(Ops(b)) = Writer!FlattenSeq(Encoding(b))
      BY DEF Writer!Encoded, Encoding
    <2>2. Writer!FlattenSeq(Encoding(b)) = FlattenSeq(Encoding(b))
      BY DEF Writer!FlattenSeq, FlattenSeq
    <2> QED
      BY <2>1, <2>2
  <1> HIDE DEF h, f
  <1>4. HeadAndOps(b) = h \o f
    BY <1>3 DEF HeadAndOps, h
  <1>5. /\ h \o f \in Seq(Nat) /\ Len(h \o f) = Len(h) + Len(f)
        /\ \A k \in 1..Len(h) : (h \o f)[k] = h[k]
        /\ \A k \in 1..Len(f) : (h \o f)[Len(h) + k] = f[k]
    BY <1>1, <1>2, NumbersConcat
  <1>6. OpEnd(b, Len(Ops(b))) = 2 + Len(f)
    BY EncodingFacts DEF f
  <1>7. 1 \in 1..Len(h) /\ 2 \in 1..Len(h)
    BY <1>2
  <1> QED
    BY <1>2, <1>4, <1>5, <1>6, <1>7, SMTT(30) DEF f

\* The ops of a payload stand in it one after the other, and there is no other
\* where the last of them ends, unless they are as many as promised.
LEMMA HoldsFacts ==
    ASSUME FileInv, NEW b \in 1..Len(file.written), Len(Payload(b)) >= 2
    PROVE  LET P == Payload(b)
               n == Len(Ops(b))
               m == OpEnd(b, n)
           IN  /\ n <= P[2] /\ P[1] \in Nat /\ P[2] \in Nat
               /\ m \in Nat /\ m <= Len(P)
               /\ \A k \in 1..n : OpAt(P, OpEnd(b, k - 1), Ops(b)[k])
               /\ \/ n = P[2]
                  \/ \A op \in Writer!Encodable(P, m) :
                        ~Writer!IsPrefix(HeadAndOps(b) \o Writer!Encode(op), P)
               /\ \A k \in 1..n :
                     /\ Ops(b)[k].seq = Saturating(P[1] + k - 1)
                     /\ Ops(b)[k].deleted => Ops(b)[k].value = <<>>
  <1> DEFINE P == Payload(b)
             n == Len(Ops(b))
             m == OpEnd(b, n)
             B == HeadAndOps(b)
             f == FlattenSeq(Encoding(b))
  <1>1. /\ P \in Seq(Nat) /\ Len(P) \in Nat /\ n \in Nat /\ DOMAIN Ops(b) = 1..n
        /\ Writer!Holds(P, Ops(b)) /\ ~(Len(P) < 2)
    BY WrittenFacts
  <1>2. /\ B \in Seq(Nat) /\ Len(B) = m
        /\ \A i \in 1..Len(f) : B[2 + i] = f[i]
    BY EncodedIs
  <1>3. m = 2 + Len(f) /\ f \in Seq(Nat) /\ Len(f) \in Nat
    BY EncodingFacts
  <1>4. P[1] \in Nat /\ P[2] \in Nat
    <2> HIDE DEF P
    <2> QED
      BY <1>1, ElementOfSeq DEF P
  <1>5. /\ n <= P[2]
        /\ Writer!IsPrefix(B, P)
        /\ \/ n = P[2]
           \/ \A op \in Writer!Encodable(P, Len(B)) : ~Writer!IsPrefix(B \o Writer!Encode(op), P)
        /\ \A k \in 1..n :
              /\ Ops(b)[k].seq = IF P[1] + k - 1 > MAX_SEQ THEN MAX_SEQ ELSE P[1] + k - 1
              /\ Ops(b)[k].deleted => Ops(b)[k].value = <<>>
    BY <1>1, Zenon DEF Writer!Holds, HeadAndOps, HeaderOf
  <1>6. Lies(B, P, 0)
    <2> HIDE DEF B, P
    <2> DEFINE N == Nat
    <2>2. B \in Seq(N) /\ P \in Seq(N)
      BY <1>1, <1>2
    <2> HIDE DEF N
    <2> QED
      BY <1>5, <2>2, PrefixStands
  <1> HIDE DEF P, n, m, B, f
  <1>7. m \in Nat /\ m <= Len(P) /\ \A i \in 1..m : P[i] = B[i]
    <2>1. m \in Nat /\ 0 + m = m /\ \A i \in 1..m : 0 + i = i
      BY <1>3
    <2> QED
      BY <1>2, <1>6, <2>1 DEF Lies
  <1>8. ASSUME NEW k \in 1..n
        PROVE  OpAt(P, OpEnd(b, k - 1), Ops(b)[k])
    <2> DEFINE N == Nat
               s == Encoding(b)
               j == Len(JoinedTo(s, k - 1))
               e == Writer!Encode(Ops(b)[k])
    <2>1. s \in Seq(Seq(N)) /\ k \in 1..Len(s)
      BY EncodingFacts DEF n
    <2>2. s[k] = e
      BY <1>1, <1>8 DEF Encoding
    <2> HIDE DEF N, s
    <2>3. /\ j \in Nat
          /\ j + Len(s[k]) <= Len(FlattenSeq(s))
          /\ \A i \in 1..Len(s[k]) : FlattenSeq(s)[j + i] = s[k][i]
      BY <2>1, ElementStands
    <2>4. OpEnd(b, k - 1) = 2 + j
      BY DEF OpEnd, s
    <2>5. Len(e) \in Nat
      <3>1. EncodedAs(Ops(b)[k], e)
        BY WrittenFacts, EncodeIs DEF n
      <3> QED
        BY <3>1 DEF EncodedAs
    <2> HIDE DEF j, e
    <2>6. j \in Nat /\ j + Len(e) <= Len(f) /\ \A i \in 1..Len(e) : f[j + i] = e[i]
      BY <2>2, <2>3 DEF f, s
    <2>7. ASSUME NEW i \in 1..Len(e) PROVE P[(2 + j) + i] = e[i]
      <3>1. j + i \in 1..Len(f) /\ 2 + (j + i) = (2 + j) + i /\ (2 + j) + i \in 1..m
        BY <1>3, <2>5, <2>6
      <3> QED
        BY <1>2, <1>7, <2>6, <3>1
    <2>8. (2 + j) + Len(e) <= Len(P)
      BY <1>1, <1>3, <1>7, <2>5, <2>6
    <2>9. Lies(e, P, 2 + j) /\ 2 + j \in Nat
      BY <2>6, <2>7, <2>8 DEF Lies
    <2>10. /\ Ops(b)[k].key \in Seq(Nat) /\ Ops(b)[k].value \in Seq(Nat)
           /\ Ops(b)[k].deleted \in BOOLEAN
      BY WrittenFacts DEF n
    <2>11. OpAt(P, 2 + j, Ops(b)[k])
      BY <1>1, <2>9, <2>10, EncodingLies DEF e
    <2> QED
      BY <2>4, <2>11
  <1>9. \A k \in 1..n : Saturating(P[1] + k - 1) =
            IF P[1] + k - 1 > MAX_SEQ THEN MAX_SEQ ELSE P[1] + k - 1
    BY DEF Saturating
  <1> QED
    BY <1>2, <1>4, <1>5, <1>7, <1>8, <1>9 DEF P, n, m, B

\* Past the last op of a payload that promises more, none can be read.
LEMMA NoMoreOps ==
    ASSUME FileInv, NEW b \in 1..Len(file.written), Len(Payload(b)) >= 2,
           Len(Ops(b)) # Payload(b)[2],
           NEW op \in Writer!Encodable(Payload(b), OpEnd(b, Len(Ops(b)))),
           op.key \in Seq(Nat), op.value \in Seq(Nat), op.deleted \in BOOLEAN
    PROVE  ~OpAt(Payload(b), OpEnd(b, Len(Ops(b))), op)
  <1> DEFINE P == Payload(b)
             m == OpEnd(b, Len(Ops(b)))
             B == HeadAndOps(b)
             f == FlattenSeq(Encoding(b))
             e == Writer!Encode(op)
  <1> SUFFICES ASSUME OpAt(P, m, op) PROVE FALSE
    OBVIOUS
  <1>1. ~Writer!IsPrefix(B \o e, P)
    BY HoldsFacts
  <1>2. P \in Seq(Nat) /\ Len(P) \in Nat /\ B \in Seq(Nat) /\ Len(B) = m
    BY WrittenFacts, EncodedIs
  <1>3. m \in Nat /\ m <= Len(P)
    BY HoldsFacts
  <1>4. e \in Seq(Nat)
    <2>1. EncodedAs(op, e)
      BY EncodeIs
    <2> QED
      BY <2>1 DEF EncodedAs
  <1>5. Lies(e, P, m)
    <2> HIDE DEF P, m, e
    <2>1. Lies(Writer!Encode(op), P, m) <=> OpAt(P, m, op)
      BY <1>2, <1>3, EncodingLies
    <2> QED
      BY <2>1 DEF e
  <1>6. \A i \in 1..m : P[i] = B[i]
    <2>1. Lies(B, P, 0)
      <3> DEFINE N == Nat
      <3>1. Writer!IsPrefix(B, P)
        <4>1. ~(Len(P) < 2) /\ Writer!Holds(P, Ops(b))
          BY <1>2, WrittenFacts
        <4> QED
          BY <4>1, Zenon DEF Writer!Holds, HeadAndOps, HeaderOf
      <3>2. B \in Seq(N) /\ P \in Seq(N)
        BY <1>2
      <3> HIDE DEF N, B, P
      <3> QED
        BY <3>1, <3>2, PrefixStands
    <2> HIDE DEF P, m, B
    <2>2. \A i \in 1..m : 0 + i = i
      BY <1>3
    <2> QED
      BY <1>2, <2>1, <2>2 DEF Lies
  <1> HIDE DEF P, m, B, e
  <1>7. /\ B \o e \in Seq(Nat) /\ Len(B \o e) = Len(B) + Len(e) /\ Len(e) \in Nat
        /\ \A k \in 1..Len(B) : (B \o e)[k] = B[k]
        /\ \A k \in 1..Len(e) : (B \o e)[Len(B) + k] = e[k]
    BY <1>2, <1>4, NumbersConcat
  <1>8. Lies(B \o e, P, 0)
    <2> DEFINE w == B \o e
    <2>1. /\ Len(w) = m + Len(e) /\ m + Len(e) <= Len(P) /\ Len(e) \in Nat
          /\ \A k \in 1..m : w[k] = P[k]
          /\ \A k \in 1..Len(e) : w[m + k] = P[m + k]
      BY <1>2, <1>5, <1>6, <1>7 DEF Lies
    <2> HIDE DEF w
    <2>2. ASSUME NEW i \in 1..Len(w) PROVE P[0 + i] = w[i]
      <3>1. CASE i <= m
        BY <1>3, <2>1, <3>1
      <3>2. CASE m < i
        <4>1. i - m \in 1..Len(e) /\ m + (i - m) = i /\ 0 + i = i
          BY <1>3, <2>1, <3>2
        <4>2. w[m + (i - m)] = P[m + (i - m)]
          BY <2>1, <4>1
        <4> QED
          BY <4>1, <4>2
      <3> QED
        BY <1>3, <2>1, <3>1, <3>2
    <2>3. 0 + Len(w) <= Len(P)
      BY <1>3, <2>1
    <2>4. Lies(w, P, 0)
      BY <2>2, <2>3 DEF Lies
    <2> QED
      BY <2>4 DEF w
  <1>9. Writer!IsPrefix(B \o e, P)
    <2> DEFINE N == Nat
               w == B \o e
    <2>1. w \in Seq(N) /\ P \in Seq(N) /\ Lies(w, P, 0)
      BY <1>2, <1>7, <1>8
    <2> HIDE DEF N, w
    <2>2. Writer!IsPrefix(w, P)
      BY <2>1, PrefixStands
    <2> QED
      BY <2>2 DEF w
  <1> QED
    BY <1>1, <1>9 DEF P, B, e

-----------------------------------------------------------------------------
(* What parse_write_batch reads of a payload.                              *)

\* The buffer of the call is the payload of batch b.
Held(b) == /\ Len(batch) = Len(Payload(b))
           /\ \A k \in 1..Len(Payload(b)) : batch[k].val = Payload(b)[k]

\* A slice that is read is a part of the payload.
SliceRead(b, c) ==
    LET v == Values(Slice(c))
        P == Payload(b)
    IN  /\ v \in Seq(Nat) /\ Len(v) = P[c + 1] /\ Len(v) \in Nat
        /\ \A i \in 1..Len(v) : P[c + 1 + i] = v[i]
        /\ Beyond(c) = c + 1 + Len(v) /\ c + 1 + Len(v) <= Len(P)
        /\ SubSeq(P, c + 2, c + 1 + Len(v)) = v

\* A slice whose length prefix is no lie is the part of the payload it names.
LEMMA SliceIsRead ==
    ASSUME BatchTypeOK, FileInv, NEW b \in 1..Len(file.written), Held(b),
           NEW c \in Nat, c <= Len(batch), Prefixed(c)
    PROVE  SliceRead(b, c)
  <1> DEFINE P == Payload(b)
             s == Slice(c)
             v == Values(s)
  <1>1. /\ s \in Seq(Cell) /\ Len(s) = batch[c + 1].val
        /\ \A k \in 1..Len(s) : s[k] = batch[c + 1 + k]
        /\ Beyond(c) = c + 1 + Len(s) /\ Beyond(c) \in c + 1..Len(batch)
    BY SliceProperties
  <1>2. P \in Seq(Nat) /\ Len(P) \in Nat /\ Len(batch) = Len(P)
        /\ \A k \in 1..Len(P) : batch[k].val = P[k]
    BY WrittenFacts DEF Held
  <1> HIDE DEF s, P
  <1>3. /\ v \in Seq(Nat) /\ Len(v) = Len(s) /\ Len(s) \in Nat
        /\ \A k \in 1..Len(s) : v[k] = s[k].val
    BY <1>1, ValuesProperties
  <1> HIDE DEF v
  <1>4. c + 1 + Len(v) <= Len(P) /\ Beyond(c) = c + 1 + Len(v)
    BY <1>1, <1>2, <1>3
  <1>5. ASSUME NEW i \in 1..Len(v) PROVE P[c + 1 + i] = v[i]
    <2>1. c + 1 + i \in 1..Len(P)
      BY <1>2, <1>3, <1>4
    <2>2. v[i] = s[i].val /\ s[i] = batch[c + 1 + i]
      BY <1>1, <1>3
    <2> QED
      BY <1>2, <2>1, <2>2
  <1>6. Len(v) = P[c + 1]
    <2>1. c + 1 \in 1..Len(P)
      BY <1>2, <1>3, <1>4
    <2> QED
      BY <1>1, <1>2, <1>3, <2>1
  <1>7. SubSeq(P, c + 2, c + 1 + Len(v)) = v
    <2> DEFINE N == Nat
               m == c + 1
    <2>1. P \in Seq(N) /\ v \in Seq(N) /\ m \in Nat /\ m + Len(v) <= Len(P)
          /\ \A k \in 1..Len(v) : P[m + k] = v[k]
      BY <1>2, <1>3, <1>4, <1>5
    <2>2. m + 1 = c + 2 /\ m + Len(v) = c + 1 + Len(v)
      BY <1>3
    <2> HIDE DEF N, m
    <2>3. SubSeq(P, m + 1, m + Len(v)) = v
      BY <2>1, PartIs
    <2> QED
      BY <2>2, <2>3
  <1> QED
    BY <1>3, <1>4, <1>5, <1>6, <1>7 DEF SliceRead, v, s, P

\* An op that is read stands in the payload where the cursor is, and leaves the
\* cursor after it.
ReadAt(b, o, c) ==
    /\ o.key \in Seq(Nat) /\ o.value \in Seq(Nat) /\ o.deleted \in BOOLEAN
    /\ o.deleted => o.value = <<>>
    /\ OpAt(Payload(b), cur, o) /\ c = cur + Takes(o)
    /\ o \in Writer!Encodable(Payload(b), cur)

PutSpelt    == [key |-> Values(Slice(cur + 1)), value |-> Values(Slice(Beyond(cur + 1))),
                deleted |-> FALSE]
DeleteSpelt == [key |-> Values(Slice(cur + 1)), value |-> <<>>, deleted |-> TRUE]

\* A part of a payload is one of the parts an op may be made of.
LEMMA PartsOf ==
    ASSUME NEW P, NEW m \in Nat, NEW i \in Nat, NEW j \in Nat, Len(P) \in Nat,
           m + 3 <= i, i <= Len(P) + 1, m <= j, j <= Len(P)
    PROVE  SubSeq(P, i, j) \in {SubSeq(P, h, k) : h \in m + 3..Len(P) + 1, k \in m..Len(P)}
  <1>1. i \in m + 3..Len(P) + 1 /\ j \in m..Len(P)
    OBVIOUS
  <1> QED
    BY <1>1

\* A put that is read stands in the payload.
LEMMA PutReads ==
    ASSUME BatchTypeOK, FileInv, NEW b \in 1..Len(file.written), Held(b), PutOp
    PROVE  ReadAt(b, PutSpelt, Beyond(Beyond(cur + 1)))
  <1> DEFINE P  == Payload(b)
             c  == Beyond(cur + 1)
             kv == Values(Slice(cur + 1))
             vv == Values(Slice(c))
             kl == Len(kv)
             vl == Len(vv)
             o  == PutSpelt
  <1>1. Prefixed(cur + 1) /\ Prefixed(c) /\ Remaining(cur) > 0 /\ batch[cur + 1].val = OP_VALUE
    BY DEF PutOp, NextOp, ReadableValue
  <1>2. cur \in Nat /\ Len(batch) \in Nat /\ cur < Len(batch) /\ Len(P) = Len(batch)
    BY <1>1 DEF BatchTypeOK, Remaining, Held
  <1>3. SliceRead(b, cur + 1)
    <2>1. cur + 1 \in Nat /\ cur + 1 <= Len(batch)
      BY <1>2
    <2> QED
      BY <1>1, <2>1, SliceIsRead
  <1>4. /\ kv \in Seq(Nat) /\ kl = P[cur + 2] /\ kl \in Nat
        /\ \A i \in 1..kl : P[cur + 2 + i] = kv[i]
        /\ c = cur + 2 + kl /\ cur + 2 + kl <= Len(P)
        /\ SubSeq(P, cur + 3, cur + 2 + kl) = kv
    <2>1. (cur + 1) + 1 = cur + 2 /\ (cur + 1) + 2 = cur + 3
      BY <1>2
    <2> QED
      BY <1>3, <2>1 DEF SliceRead
  <1>5. SliceRead(b, c)
    <2>1. c \in Nat /\ c <= Len(batch)
      BY <1>2, <1>4
    <2> QED
      BY <1>1, <2>1, SliceIsRead
  <1> HIDE DEF c, kv
  <1>6. /\ vv \in Seq(Nat) /\ vl = P[c + 1] /\ vl \in Nat
        /\ \A i \in 1..vl : P[c + 1 + i] = vv[i]
        /\ Beyond(c) = c + 1 + vl /\ c + 1 + vl <= Len(P)
        /\ SubSeq(P, c + 2, c + 1 + vl) = vv
    BY <1>5 DEF SliceRead
  <1>7. o.key = kv /\ o.value = vv /\ o.deleted = FALSE
        /\ o = [key |-> kv, value |-> vv, deleted |-> FALSE]
    BY DEF PutSpelt, kv, c
  <1> HIDE DEF vv, o
  <1>8. Takes(o) = 3 + kl + vl
    BY <1>7 DEF Takes
  <1>9. P[cur + 1] = OP_VALUE
    <2>1. cur + 1 \in 1..Len(P)
      BY <1>2
    <2> QED
      BY <1>1, <2>1 DEF Held
  <1>13. /\ cur \in Nat /\ kl \in Nat /\ vl \in Nat /\ Len(P) \in Nat
         /\ c = cur + 2 + kl /\ c + 1 + vl <= Len(P)
    BY <1>2, <1>4, <1>6
  <1>14. Beyond(c) = c + 1 + vl
    BY <1>6
  <1>10. OpAt(P, cur, o)
    <2>1. KeyAt(P, cur, o)
      BY <1>4, <1>7 DEF KeyAt
    <2>2. ValueAt(P, cur + 2 + Len(o.key), o)
      BY <1>4, <1>6, <1>7 DEF ValueAt
    <2>3. cur + Takes(o) <= Len(P)
      <3> HIDE DEF P, kl, vl
      <3> QED
        BY <1>8, <1>13
    <2> QED
      BY <1>7, <1>9, <2>1, <2>2, <2>3 DEF OpAt
  <1>11. Beyond(c) = cur + Takes(o)
    <2> HIDE DEF P, kl, vl
    <2> QED
      BY <1>8, <1>13, <1>14
  <1>12. o \in Writer!Encodable(P, cur)
    <2> DEFINE parts == {SubSeq(P, i, j) : i \in cur + 3..Len(P) + 1, j \in cur..Len(P)}
    <2>1. kv \in parts
      <3> HIDE DEF P, kl, vl, parts
      <3>1. /\ cur + 3 \in Nat /\ cur + 2 + kl \in Nat /\ Len(P) \in Nat
            /\ cur + 3 <= cur + 3 /\ cur + 3 <= Len(P) + 1
            /\ cur <= cur + 2 + kl /\ cur + 2 + kl <= Len(P)
        BY <1>13
      <3>2. SubSeq(P, cur + 3, cur + 2 + kl) \in parts
        BY <1>13, <3>1, PartsOf DEF parts
      <3> QED
        BY <1>4, <3>2 DEF P, kl
    <2>2. vv \in parts
      <3> HIDE DEF P, kl, vl, parts
      <3>1. /\ c + 2 \in Nat /\ c + 1 + vl \in Nat /\ Len(P) \in Nat
            /\ cur + 3 <= c + 2 /\ c + 2 <= Len(P) + 1
            /\ cur <= c + 1 + vl /\ c + 1 + vl <= Len(P)
        BY <1>13
      <3>2. SubSeq(P, c + 2, c + 1 + vl) \in parts
        BY <1>13, <3>1, PartsOf DEF parts
      <3> QED
        BY <1>6, <3>2 DEF P, vl
    <2> HIDE DEF parts
    <2>3. o \in [key : parts, value : parts, deleted : {FALSE}]
      BY <1>7, <2>1, <2>2
    <2>4. Writer!Encodable(P, cur) = [key : parts, value : parts, deleted : {FALSE}]
                                       \cup [key : parts, value : {<<>>}, deleted : {TRUE}]
      BY DEF Writer!Encodable, parts
    <2> QED
      BY <2>3, <2>4
  <1> QED
    BY <1>4, <1>6, <1>7, <1>10, <1>11, <1>12 DEF ReadAt, o, P, c

\* So does a deletion.
LEMMA DeleteReads ==
    ASSUME BatchTypeOK, FileInv, NEW b \in 1..Len(file.written), Held(b), DeleteOp
    PROVE  ReadAt(b, DeleteSpelt, Beyond(cur + 1))
  <1> DEFINE P  == Payload(b)
             c  == Beyond(cur + 1)
             kv == Values(Slice(cur + 1))
             kl == Len(kv)
             o  == DeleteSpelt
  <1>1. Prefixed(cur + 1) /\ Remaining(cur) > 0 /\ batch[cur + 1].val = OP_DELETE
    BY DEF DeleteOp, NextOp
  <1>2. cur \in Nat /\ Len(batch) \in Nat /\ cur < Len(batch) /\ Len(P) = Len(batch)
    BY <1>1 DEF BatchTypeOK, Remaining, Held
  <1>3. SliceRead(b, cur + 1)
    <2>1. cur + 1 \in Nat /\ cur + 1 <= Len(batch)
      BY <1>2
    <2> QED
      BY <1>1, <2>1, SliceIsRead
  <1>4. /\ kv \in Seq(Nat) /\ kl = P[cur + 2] /\ kl \in Nat
        /\ \A i \in 1..kl : P[cur + 2 + i] = kv[i]
        /\ c = cur + 2 + kl /\ cur + 2 + kl <= Len(P)
        /\ SubSeq(P, cur + 3, cur + 2 + kl) = kv
    <2>1. (cur + 1) + 1 = cur + 2 /\ (cur + 1) + 2 = cur + 3
      BY <1>2
    <2> QED
      BY <1>3, <2>1 DEF SliceRead
  <1> HIDE DEF c, kv
  <1>7. /\ o.key = kv /\ o.value = <<>> /\ o.deleted = TRUE
        /\ o = [key |-> kv, value |-> <<>>, deleted |-> TRUE]
    BY DEF DeleteSpelt, kv
  <1> HIDE DEF o
  <1>8. Takes(o) = 2 + kl
    BY <1>7 DEF Takes
  <1>9. P[cur + 1] = OP_DELETE
    <2>1. cur + 1 \in 1..Len(P)
      BY <1>2
    <2> QED
      BY <1>1, <2>1 DEF Held
  <1>13. /\ cur \in Nat /\ kl \in Nat /\ Len(P) \in Nat
         /\ c = cur + 2 + kl /\ c <= Len(P)
    BY <1>2, <1>4
  <1>10. OpAt(P, cur, o)
    <2>1. KeyAt(P, cur, o)
      BY <1>4, <1>7 DEF KeyAt
    <2>3. cur + Takes(o) <= Len(P)
      <3> HIDE DEF P, kl
      <3> QED
        BY <1>8, <1>13
    <2> QED
      BY <1>7, <1>9, <2>1, <2>3 DEF OpAt
  <1>11. c = cur + Takes(o)
    <2> HIDE DEF P, kl
    <2> QED
      BY <1>8, <1>13
  <1>12. o \in Writer!Encodable(P, cur)
    <2> DEFINE parts == {SubSeq(P, i, j) : i \in cur + 3..Len(P) + 1, j \in cur..Len(P)}
    <2>1. kv \in parts
      <3> HIDE DEF P, kl, parts
      <3>1. /\ cur + 3 \in Nat /\ cur + 2 + kl \in Nat /\ Len(P) \in Nat
            /\ cur + 3 <= cur + 3 /\ cur + 3 <= Len(P) + 1
            /\ cur <= cur + 2 + kl /\ cur + 2 + kl <= Len(P)
        BY <1>13
      <3>2. SubSeq(P, cur + 3, cur + 2 + kl) \in parts
        BY <1>13, <3>1, PartsOf DEF parts
      <3> QED
        BY <1>4, <3>2 DEF P, kl
    <2> HIDE DEF parts
    <2>3. o \in [key : parts, value : {<<>>}, deleted : {TRUE}]
      BY <1>7, <2>1
    <2>4. Writer!Encodable(P, cur) = [key : parts, value : parts, deleted : {FALSE}]
                                       \cup [key : parts, value : {<<>>}, deleted : {TRUE}]
      BY DEF Writer!Encodable, parts
    <2> QED
      BY <2>3, <2>4
  <1> QED
    BY <1>4, <1>7, <1>10, <1>11, <1>12 DEF ReadAt, o, P, c

\* An op that stands where the cursor is can be read.
LEMMA OpReadable ==
    ASSUME BatchTypeOK, FileInv, NEW b \in 1..Len(file.written), Held(b), call = "ops",
           op_index < count, NEW op, OpAt(Payload(b), cur, op),
           op.key \in Seq(Nat), op.value \in Seq(Nat), op.deleted \in BOOLEAN
    PROVE  (NextOp(OP_VALUE) /\ ReadableValue) \/ (NextOp(OP_DELETE) /\ Prefixed(cur + 1))
  <1> DEFINE P == Payload(b)
             n == Len(op.key)
             v == Len(op.value)
             D == op.deleted
  <1>1. n \in Nat /\ v \in Nat /\ D \in BOOLEAN
    OBVIOUS
  <1>2. /\ cur \in Nat /\ Len(batch) \in Nat /\ Len(batch) = Len(P)
        /\ \A k \in 1..Len(P) : batch[k].val = P[k]
    BY DEF BatchTypeOK, Held
  <1>3. /\ cur + Takes(op) <= Len(P)
        /\ P[cur + 1] = IF D THEN OP_DELETE ELSE OP_VALUE
        /\ P[cur + 2] = n
        /\ ~D => P[(cur + 2 + n) + 1] = v
    BY DEF OpAt, KeyAt, ValueAt
  <1>4. Takes(op) = IF D THEN 2 + n ELSE 3 + n + v
    BY DEF Takes
  <1> HIDE DEF P, n, v, D
  <1>5. Remaining(cur) > 0 /\ batch[cur + 1].val = IF D THEN OP_DELETE ELSE OP_VALUE
    <2>1. cur + 1 \in 1..Len(P)
      BY <1>1, <1>2, <1>3, <1>4
    <2> QED
      BY <1>2, <1>3, <2>1 DEF Remaining
  <1>6. Prefixed(cur + 1) /\ Beyond(cur + 1) = cur + 2 + n
    <2>1. cur + 2 \in 1..Len(P) /\ (cur + 1) + 1 = cur + 2 /\ cur + 2 + n <= Len(P)
      BY <1>1, <1>2, <1>3, <1>4, SMTT(30)
    <2>2. batch[(cur + 1) + 1].val = n
      BY <1>2, <1>3, <2>1
    <2>3. Remaining(cur + 1) > 0 /\ n <= Remaining((cur + 1) + 1)
      BY <1>1, <1>2, <2>1 DEF Remaining
    <2> QED
      BY <1>1, <1>2, <2>1, <2>2, <2>3 DEF Prefixed, Beyond
  <1>7. ASSUME ~D PROVE ReadableValue
    <2> DEFINE c == cur + 2 + n
    <2>1. c \in Nat /\ c + 1 \in 1..Len(P) /\ c + 1 + v <= Len(P)
      BY <1>1, <1>2, <1>3, <1>4, <1>7
    <2>2. batch[c + 1].val = v
      BY <1>2, <1>3, <1>7, <2>1
    <2> HIDE DEF c
    <2>3. Remaining(c) > 0 /\ v <= Remaining(c + 1)
      BY <1>1, <1>2, <2>1 DEF Remaining
    <2>4. Prefixed(c)
      BY <2>2, <2>3 DEF Prefixed
    <2> QED
      BY <1>6, <2>4 DEF ReadableValue, c
  <1> QED
    BY <1>1, <1>5, <1>6, <1>7 DEF NextOp, D

\* The call has read the first op_index ops of batch b.
Reading(b) == /\ Held(b) /\ op_index \in 0..Len(Ops(b))
              /\ \/ call = "header" /\ op_index = 0
                 \/ call = "ops" /\ Len(Payload(b)) >= 2 /\ cur = OpEnd(b, op_index)

\* What is read next is the next op.
SameOp(o, op) == o.key = op.key /\ o.value = op.value /\ o.deleted = op.deleted

\* It cannot be another: one op at most stands at a place, and past the last there is none.
LEMMA NextOpIs ==
    ASSUME BatchTypeOK, FileInv, NEW b \in 1..Len(file.written), Reading(b), call = "ops",
           op_index < count, NEW o, NEW c, ReadAt(b, o, c)
    PROVE  /\ op_index + 1 \in 1..Len(Ops(b))
           /\ SameOp(o, Ops(b)[op_index + 1]) /\ c = OpEnd(b, op_index + 1)
           /\ Ops(b)[op_index + 1].seq = Saturating(base_seq + op_index)
           /\ Ops(b)[op_index + 1] \in Op
  <1> DEFINE P == Payload(b)
             n == Len(Ops(b))
             k == op_index + 1
  <1>1. Held(b) /\ op_index \in 0..n /\ Len(P) >= 2 /\ cur = OpEnd(b, op_index) /\ Len(P) \in Nat
        /\ n \in Nat
    BY WrittenFacts DEF Reading
  <1>2. /\ o.key \in Seq(Nat) /\ o.value \in Seq(Nat) /\ o.deleted \in BOOLEAN
        /\ o.deleted => o.value = <<>>
        /\ OpAt(P, cur, o) /\ c = cur + Takes(o) /\ o \in Writer!Encodable(P, cur)
    BY DEF ReadAt
  <1>3. count = P[2] /\ base_seq = P[1]
    <2>1. 1 \in 1..Len(P) /\ 2 \in 1..Len(P)
      BY <1>1
    <2> QED
      BY <1>1, <2>1 DEF Held, count, base_seq
  <1>4. op_index # n
    <2> SUFFICES ASSUME op_index = n PROVE FALSE
      OBVIOUS
    <2>1. P[2] \in Nat
      BY <1>1, HoldsFacts
    <2>2. n # P[2] /\ cur = OpEnd(b, n)
      BY <1>1, <1>3, <2>1
    <2>3. o \in Writer!Encodable(P, OpEnd(b, n)) /\ OpAt(P, OpEnd(b, n), o)
      BY <1>2, <2>2
    <2> QED
      BY <1>1, <1>2, <2>2, <2>3, NoMoreOps
  <1>5. k \in 1..n /\ k - 1 = op_index
    BY <1>1, <1>4
  <1> DEFINE w == Ops(b)[k]
  <1>6. /\ w \in Op /\ w.key \in Seq(Nat) /\ w.value \in Seq(Nat) /\ w.deleted \in BOOLEAN
    BY <1>5, WrittenFacts
  <1>7. OpAt(P, OpEnd(b, k - 1), w) /\ w.seq = Saturating(P[1] + k - 1)
        /\ (w.deleted => w.value = <<>>) /\ P[1] \in Nat
    BY <1>1, <1>5, HoldsFacts
  <1>8. OpAt(P, cur, w)
    BY <1>1, <1>5, <1>7
  <1>9. o.key = w.key /\ o.deleted = w.deleted /\ (~o.deleted => o.value = w.value)
    <2> HIDE DEF P, w
    <2> QED
      BY <1>2, <1>6, <1>8, OneOpAt
  <1>10. SameOp(o, w)
    BY <1>2, <1>7, <1>9 DEF SameOp
  <1>11. Takes(o) = Takes(w)
    BY <1>10 DEF SameOp, Takes
  <1>12. c = OpEnd(b, k)
    <2>1. OpEnd(b, k) = OpEnd(b, k - 1) + Takes(w)
      BY <1>5, EncodingFacts
    <2> QED
      BY <1>1, <1>2, <1>5, <1>11, <2>1
  <1>13. w.seq = Saturating(base_seq + op_index)
    <2>1. P[1] + k - 1 = P[1] + op_index
      <3>1. P[1] \in Nat /\ op_index \in Nat
        BY <1>1, <1>7
      <3> HIDE DEF P
      <3> QED
        BY <3>1
    <2> QED
      BY <1>3, <1>7, <2>1
  <1> QED
    BY <1>5, <1>6, <1>10, <1>12, <1>13

\* Every step of the call reads the next op or the header, or returns when there
\* is no other op.
Returned(b) == call' = "idle" /\ records' = records /\ op_index = Len(Ops(b))
HeaderIs(b) == Reading(b)' /\ call' # "idle" /\ records' = records /\ op_index' = op_index
OpIs(b)     == /\ Reading(b)' /\ call' # "idle" /\ op_index' = op_index + 1
               /\ op_index + 1 \in 1..Len(Ops(b))
               /\ \E r : records' = Append(records, r) /\ Content(r) = Ops(b)[op_index + 1]

\* The three parts of DecodeStep.
LEMMA PushIs ==
    ASSUME BatchTypeOK, FileInv, NEW b \in 1..Len(file.written), Reading(b), call = "ops",
           op_index < count, file' = file,
           NEW key, NEW value, NEW deleted, NEW c,
           ReadAt(b, [key |-> Values(key), value |-> Values(value), deleted |-> deleted], c),
           Push(key, value, deleted, c)
    PROVE  OpIs(b)
  <1> DEFINE o == [key |-> Values(key), value |-> Values(value), deleted |-> deleted]
             k == op_index + 1
             w == Ops(b)[k]
             r == [key |-> key, value |-> value, seq |-> Saturating(base_seq + op_index),
                   deleted |-> deleted]
  <1>1. /\ k \in 1..Len(Ops(b))
        /\ SameOp(o, w) /\ c = OpEnd(b, k)
        /\ w.seq = Saturating(base_seq + op_index)
        /\ w \in Op
    BY NextOpIs
  <1>2. records' = Append(records, r) /\ cur' = c /\ op_index' = k /\ call' = call /\ batch' = batch
    BY DEF Push
  <1>3. Content(r) = w
    <2>1. Content(r) = [key |-> Values(key), value |-> Values(value),
                        seq |-> Saturating(base_seq + op_index), deleted |-> deleted]
      BY DEF Content
    <2>2. w.key = Values(key) /\ w.value = Values(value) /\ w.deleted = deleted
      BY <1>1 DEF SameOp
    <2>3. w = [key |-> w.key, value |-> w.value, seq |-> w.seq, deleted |-> w.deleted]
      <3> HIDE DEF w
      <3> QED
        BY <1>1 DEF Op
    <2> HIDE DEF w
    <2> QED
      BY <1>1, <2>1, <2>2, <2>3
  <1>4. Reading(b)'
    <2>1. Held(b)' /\ Payload(b)' = Payload(b) /\ Ops(b)' = Ops(b) /\ Encoding(b)' = Encoding(b)
      BY <1>2 DEF Reading, Held, Payload, Ops, Encoding
    <2>3. k \in 0..Len(Ops(b))
      BY <1>1
    <2>4. OpEnd(b, op_index)' = OpEnd(b, k)
      BY <1>2, <2>1 DEF OpEnd
    <2> HIDE DEF k
    <2> QED
      BY <1>1, <1>2, <2>1, <2>3, <2>4 DEF Reading
  <1> HIDE DEF r
  <1> QED
    BY <1>1, <1>2, <1>3, <1>4 DEF OpIs

\* A step of the call that is reading batch b does one of these three.
LEMMA DecodeStep ==
    ASSUME BatchTypeOK, FileInv, NEW b \in 1..Len(file.written), Reading(b), BatchNext,
           file' = file
    PROVE  Returned(b) \/ HeaderIs(b) \/ OpIs(b)
  <1> DEFINE P == Payload(b)
             n == Len(Ops(b))
  <1>1. /\ Held(b) /\ op_index \in 0..n /\ Len(P) \in Nat /\ n \in Nat /\ Len(batch) = Len(P)
        /\ call = "header" => op_index = 0
        /\ call = "ops" => Len(P) >= 2 /\ cur = OpEnd(b, op_index)
    BY WrittenFacts DEF Reading, Held
  <1>2. ASSUME TooShort PROVE Returned(b)
    <2>1. Len(P) < 2 /\ op_index = 0
      BY <1>1, <1>2 DEF TooShort, BATCH_HEADER_LEN
    <2>2. n = 0
      <3>1. Ops(b) = <<>>
        BY <2>1, WrittenFacts DEF Writer!Holds
      <3> QED
        BY <3>1
    <2> QED
      BY <1>2, <2>1, <2>2 DEF TooShort, Return, Returned
  <1>3. ASSUME ReadHeader PROVE HeaderIs(b)
    <2>1. call' = "ops" /\ cur' = 2 /\ Len(P) >= 2 /\ op_index = 0 /\ batch' = batch
          /\ op_index' = op_index /\ records' = records
      BY <1>1, <1>3 DEF ReadHeader, BATCH_HEADER_LEN
    <2>2. Held(b)' /\ Payload(b)' = P /\ Ops(b)' = Ops(b)
      BY <1>1, <2>1 DEF Held, Payload, Ops
    <2>3. OpEnd(b, op_index)' = 2
      <3>1. OpEnd(b, 0) = 2
        BY EncodingFacts
      <3> QED
        BY <2>1, <3>1 DEF OpEnd, Encoding, Ops
    <2> QED
      BY <1>1, <2>1, <2>2, <2>3 DEF Reading, HeaderIs
  <1>4. ASSUME PutOp PROVE OpIs(b)
    <2>1. ReadAt(b, PutSpelt, Beyond(Beyond(cur + 1)))
      BY <1>1, <1>4, PutReads
    <2>2. Push(Slice(cur + 1), Slice(Beyond(cur + 1)), FALSE, Beyond(Beyond(cur + 1)))
          /\ call = "ops" /\ op_index < count
      BY <1>4 DEF PutOp, NextOp
    <2> QED
      BY <2>1, <2>2, PushIs DEF PutSpelt
  <1>5. ASSUME DeleteOp PROVE OpIs(b)
    <2>1. ReadAt(b, DeleteSpelt, Beyond(cur + 1))
      BY <1>1, <1>5, DeleteReads
    <2>2. Push(Slice(cur + 1), <<>>, TRUE, Beyond(cur + 1))
          /\ call = "ops" /\ op_index < count
      BY <1>5 DEF DeleteOp, NextOp
    <2>3. Values(<<>>) = <<>>
      BY NothingOpen
    <2> QED
      BY <2>1, <2>2, <2>3, PushIs DEF DeleteSpelt
  <1>6. ASSUME AllOps \/ Inconsistent PROVE Returned(b)
    <2>1. call = "ops" /\ Return
      BY <1>6 DEF AllOps, Inconsistent
    <2>2. count = P[2] /\ n <= P[2] /\ P[2] \in Nat
      <3>1. 2 \in 1..Len(P)
        BY <1>1, <2>1
      <3>2. n <= P[2] /\ P[2] \in Nat
        BY <1>1, <2>1, HoldsFacts
      <3> QED
        BY <1>1, <3>1, <3>2 DEF Held, count
    <2>3. op_index = n
      <3>1. CASE AllOps
        <4>1. op_index >= count
          BY <3>1 DEF AllOps
        <4> HIDE DEF P, n
        <4> QED
          BY <1>1, <2>2, <4>1
      <3>2. CASE Inconsistent
        <4> SUFFICES ASSUME op_index # n PROVE FALSE
          OBVIOUS
        <4>1. /\ op_index < count
              /\ ~(NextOp(OP_VALUE) /\ ReadableValue)
              /\ ~(NextOp(OP_DELETE) /\ Prefixed(cur + 1))
          BY <3>2 DEF Inconsistent
        <4> DEFINE k == op_index + 1
        <4>2. k \in 1..n /\ k - 1 = op_index
          BY <1>1
        <4> HIDE DEF k
        <4>3. OpAt(P, OpEnd(b, k - 1), Ops(b)[k])
          BY <1>1, <2>1, <4>2, HoldsFacts
        <4>4. OpAt(P, cur, Ops(b)[k])
          BY <1>1, <2>1, <4>2, <4>3
        <4>5. /\ Ops(b)[k].key \in Seq(Nat) /\ Ops(b)[k].value \in Seq(Nat)
              /\ Ops(b)[k].deleted \in BOOLEAN
          BY <4>2, WrittenFacts
        <4> QED
          BY <1>1, <2>1, <4>1, <4>4, <4>5, OpReadable
      <3> QED
        BY <1>6, <3>1, <3>2
    <2> QED
      BY <2>1, <2>3 DEF Return, Returned
  <1> QED
    BY <1>2, <1>3, <1>4, <1>5, <1>6 DEF BatchNext

-----------------------------------------------------------------------------
(* What is handed over at the end of a batch.                              *)

Starts(b) == Reading(b)' /\ call' = "header" /\ op_index' = 0 /\ records' = records

\* A buffer that is the payload of batch b starts a call that reads it.
LEMMA CallReads ==
    ASSUME FileInv, NEW b \in 1..Len(file.written), file' = file,
           NEW buffer, NEW made_of, Parse(buffer, made_of), Len(buffer) = Len(Payload(b)),
           \A k \in 1..Len(Payload(b)) : buffer[k].val = Payload(b)[k]
    PROVE  Starts(b)
  <1>1. call' = "header" /\ batch' = buffer /\ op_index' = 0 /\ records' = records
    BY DEF Parse, Call
  <1>2. Held(b)'
    BY <1>1 DEF Held, Payload
  <1>3. 0 \in 0..Len(Ops(b)) /\ Ops(b)' = Ops(b)
    BY WrittenFacts DEF Ops
  <1> QED
    BY <1>1, <1>2, <1>3 DEF Reading, Starts

\* The last physical record of a batch hands its payload over if all of them are
\* sound; if they are not, and no header lies, it hands over nothing.
LEMMA HandsOver ==
    ASSUME ScanInv, FileInv, SyncInv, GatherInv, PhysicalRecord, Standing,
           NEW p \in 1..LastPlace, Consumes(p)
    PROVE  /\ ~Writer!Closes(Ph(p)) => NoParse
           /\ Writer!Closes(Ph(p)) /\ Trusted(p) /\ Writer!Sound(file, Ph(p))
                 => Starts(Ph(p).batch)
           /\ HeadersStand /\ ~(SoundBefore(p) /\ Writer!Sound(file, Ph(p))) => NoParse
  <1> DEFINE g == Ph(p)
             b == g.batch
             P == Payload(b)
  <1>1. Physical
    BY DEF PhysicalRecord, FullRecord, FirstFragment, MiddleFragment, LastFragment, UnknownType
  <1>2. record_type = g.type /\ length = g.length /\ Under(p) /\ file' = file
    BY <1>1 DEF Consumes, Physical
  <1>3. (crc_ok <=> Writer!Sound(file, g)) /\ (crc_ok => Carries(p))
    BY <1>1, SoundData
  <1>5. PlaceIs(p) /\ PhysicalIs(p)
    BY PlaceNumbers, PhysicalFacts
  <1>6. /\ g.from \in Nat /\ g.length \in Nat /\ b \in 1..Len(file.written)
        /\ Writer!Closes(g) => g.from + g.length = Len(P)
        /\ g.type \in {REC_FULL, REC_FIRST, REC_MIDDLE, REC_LAST}
    BY <1>5 DEF PlaceIs, PhysicalIs, Payload, Writer!Physical
  <1>7. data \in Seq(Cell) /\ Len(data) = g.length /\ fragment \in Seq(Cell)
    BY <1>1, <1>2, DataProperties DEF ScanInv, TypeOK
  <1>8. crc_ok => \A k \in 1..g.length : data[k].val = P[g.from + k]
    BY <1>3 DEF Carries, Payload
  <1>9. Writer!Opens(g) => g.from = 0 /\ SoundBefore(p)
    BY Neighbours DEF SoundBefore
  <1>10. ~Writer!Opens(g) => Continued(p)
    BY <1>2 DEF GatherInv
  <1> HIDE DEF g, b, P
  <1>11. CASE record_type = REC_FULL
    <2>1. FullRecord
      BY <1>11, RecordTypeAssumption
      DEF PhysicalRecord, FullRecord, FirstFragment, MiddleFragment, LastFragment, UnknownType
    <2>2. (crc_ok /\ Parse(data, <<this>>)) \/ (~crc_ok /\ NoParse)
      BY <2>1 DEF FullRecord
    <2>3. Writer!Opens(g) /\ Writer!Closes(g)
      BY <1>2, <1>11 DEF Writer!Opens, Writer!Closes
    <2>4. ASSUME crc_ok PROVE Starts(b)
      <3>1. Len(data) = Len(P) /\ \A k \in 1..Len(P) : data[k].val = P[k]
        <4>1. g.length = Len(P) /\ \A k \in 1..g.length : g.from + k = k
          BY <1>6, <1>9, <2>3
        <4> QED
          BY <1>7, <1>8, <2>4, <4>1
      <3>2. Parse(data, <<this>>)
        BY <2>2, <2>4
      <3> QED
        BY <1>2, <1>6, <3>1, <3>2, CallReads DEF P
    <2> QED
      BY <1>3, <1>9, <2>2, <2>3, <2>4 DEF g, b
  <1>12. CASE record_type = REC_LAST
    <2>1. LastFragment
      BY <1>12, RecordTypeAssumption
      DEF PhysicalRecord, FullRecord, FirstFragment, MiddleFragment, LastFragment, UnknownType
    <2>2. \/ in_record /\ crc_ok /\ Parse(fragment \o data, Append(pieces, this))
          \/ ~(in_record /\ crc_ok) /\ NoParse
      BY <2>1 DEF LastFragment
    <2>3. Continued(p) /\ Writer!Closes(g)
      BY <1>2, <1>10, <1>12, RecordTypeAssumption DEF Writer!Opens, Writer!Closes
    <2>4. ASSUME crc_ok, Gathered(p) PROVE Starts(b)
      <3> DEFINE u == fragment \o data
      <3>1. in_record /\ Len(fragment) = g.from /\ \A k \in 1..g.from : fragment[k].val = P[k]
        BY <2>4 DEF Gathered, g, b, P, Payload
      <3>2. /\ Len(u) = Len(fragment) + Len(data)
            /\ \A k \in 1..Len(fragment) : u[k] = fragment[k]
            /\ \A k \in 1..Len(data) : u[Len(fragment) + k] = data[k]
        <4>1. fragment \in Seq(Cell) /\ data \in Seq(Cell)
          BY <1>7
        <4> QED
          BY <4>1, ConcatFacts
      <3>3. Parse(u, Append(pieces, this))
        BY <2>2, <2>4, <3>1
      <3> HIDE DEF u
      <3>4. Len(u) = Len(P)
        BY <1>6, <1>7, <2>3, <3>1, <3>2
      <3>5. ASSUME NEW k \in 1..Len(P) PROVE u[k].val = P[k]
        <4>1. CASE k \in 1..g.from
          BY <3>1, <3>2, <4>1
        <4>2. CASE k \notin 1..g.from
          <5> DEFINE j == k - g.from
          <5>1. j \in 1..g.length /\ g.from + j = k
            BY <1>6, <2>3, <4>2
          <5> HIDE DEF j
          <5>2. u[g.from + j] = data[j]
            BY <1>7, <3>1, <3>2, <5>1
          <5>3. data[j].val = P[g.from + j]
            BY <1>8, <2>4, <5>1
          <5> QED
            BY <5>1, <5>2, <5>3
        <4> QED
          BY <4>1, <4>2
      <3> QED
        BY <1>2, <1>6, <3>3, <3>4, <3>5, CallReads DEF P
    <2> QED
      BY <1>3, <2>2, <2>3, <2>4 DEF Continued, g, b
  <1>13. CASE record_type \in {REC_FIRST, REC_MIDDLE}
    <2>1. NoParse
      BY <1>13, RecordTypeAssumption
      DEF PhysicalRecord, FullRecord, FirstFragment, MiddleFragment, LastFragment, UnknownType
    <2>2. ~Writer!Closes(g)
      BY <1>2, <1>13, RecordTypeAssumption DEF Writer!Closes
    <2> QED
      BY <2>1, <2>2 DEF g
  <1> QED
    BY <1>2, <1>6, <1>11, <1>12, <1>13

-----------------------------------------------------------------------------
(* The batches the reader has gone by.                                     *)

Passed(b) == \E q \in 1..LastPlace :
                Ph(q).batch = b /\ Writer!Closes(Ph(q)) /\ Edge(q + 1) <= here

\* The physical records of a batch by their places.
LEMMA PhysicalPlaces ==
    ASSUME FileInv
    PROVE  \A g : g \in Range(file.physical) <=> \E q \in 1..LastPlace : g = Ph(q)
  <1>1. file.physical \in Seq(Writer!Physical) /\ DOMAIN file.physical = 1..LastPlace
    BY DEF FileInv, Writer!IsLog, LastPlace
  <1> QED
    BY <1>1 DEF Range, Ph

\* An intact batch is one whose physical records are sound up to the last, and
\* one clear of damage is to be trusted all along.
LEMMA BatchSound ==
    ASSUME FileInv, NEW p \in 1..LastPlace
    PROVE  /\ Intact(Ph(p).batch) => SoundBefore(p) /\ Writer!Sound(file, Ph(p))
           /\ Writer!Closes(Ph(p)) /\ SoundBefore(p) /\ Writer!Sound(file, Ph(p))
                 => Intact(Ph(p).batch)
           /\ ClearOfDamage(Ph(p).batch) => Trusted(p) /\ Writer!Sound(file, Ph(p))
                                            /\ HeadersStandIn(Ph(p).at \div BLOCK_SIZE)
           /\ HeadersStand /\ SoundBefore(p) => Trusted(p)
  <1> DEFINE b == Ph(p).batch
  <1>1. LastPlace \in Nat
    BY PlaceNumbers
  <1>2. \A q \in 1..LastPlace : Ph(q).batch = b => Ph(q) \in PhysicalOf(b)
    BY PhysicalPlaces DEF PhysicalOf
  <1>3. \A g \in PhysicalOf(b) : \E q \in 1..LastPlace : g = Ph(q) /\ Ph(q).batch = b
    BY PhysicalPlaces DEF PhysicalOf
  <1> HIDE DEF b
  <1>4. \A r \in 1..p : r \in 1..LastPlace /\ (r = p \/ r \in 1..p - 1)
    BY <1>1
  <1>5. \A r \in 1..p - 1 : r \in 1..LastPlace /\ r \in 1..p
    BY <1>1
  <1>6. p \in 1..p
    BY <1>1
  <1>7. ASSUME Intact(b) PROVE SoundBefore(p) /\ Writer!Sound(file, Ph(p))
    BY <1>2, <1>5, <1>7 DEF Intact, SoundBefore, b
  <1>8. ASSUME Writer!Closes(Ph(p)), SoundBefore(p), Writer!Sound(file, Ph(p))
        PROVE  Intact(b)
    <2> SUFFICES ASSUME NEW g \in PhysicalOf(b) PROVE Writer!Sound(file, g)
      BY DEF Intact
    <2>1. PICK q \in 1..LastPlace : g = Ph(q) /\ Ph(q).batch = b
      BY <1>3
    <2>2. ~(p < q)
      <3> SUFFICES ASSUME p < q PROVE FALSE
        OBVIOUS
      <3>1. Ph(p).batch < Ph(q).batch /\ Ph(p).batch \in Nat
        BY <1>8, Order
      <3> QED
        BY <2>1, <3>1 DEF b
    <2>3. q = p \/ q \in 1..p - 1
      BY <1>1, <2>2
    <2> QED
      BY <1>8, <2>1, <2>3 DEF SoundBefore, b
  <1>9. ASSUME ClearOfDamage(b)
        PROVE  Trusted(p) /\ Writer!Sound(file, Ph(p)) /\ HeadersStandIn(Ph(p).at \div BLOCK_SIZE)
    <2>1. Intact(b) /\ \A g \in PhysicalOf(b) : HeadersStandIn(g.at \div BLOCK_SIZE)
      BY <1>9 DEF ClearOfDamage
    <2>2. \A r \in 1..p : Ph(r).batch = b => HeadersStandIn(Ph(r).at \div BLOCK_SIZE)
      BY <1>2, <1>4, <2>1
    <2> QED
      BY <1>6, <1>7, <2>1, <2>2 DEF Trusted, b
  <1>10. ASSUME HeadersStand, SoundBefore(p) PROVE Trusted(p)
    <2>1. \A bl : HeadersStandIn(bl)
      BY <1>10 DEF HeadersStand, HeadersStandIn
    <2> QED
      BY <1>10, <2>1 DEF Trusted
  <1> QED
    BY <1>7, <1>8, <1>9, <1>10 DEF b

\* The cursor goes on to h in the same block.
LEMMA PassedLost ==
    ASSUME ScanInv, FileInv, Aligned, ~Standing, file' = file, here' \in Nat, here' <= block_end,
           NEW b, Passed(b)', ~Passed(b)
    PROVE  ~ClearOfDamage(b) /\ ~HeadersStand
  <1>1. PICK q \in 1..LastPlace : Ph(q).batch = b /\ Writer!Closes(Ph(q)) /\ Edge(q + 1) <= here'
    BY SameFile DEF Passed
  <1>2. ~(Edge(q + 1) <= here)
    BY <1>1 DEF Passed
  <1>3. Edge(q + 1) \in Nat
    BY Order
  <1>4. InThisBlock(q)
    BY <1>1, <1>2, <1>3, CursorNumbers, EndsInBlock
  <1>5. ~HeadersStandIn(Ph(q).at \div BLOCK_SIZE)
    BY <1>4 DEF InThisBlock, Standing
  <1> QED
    BY <1>1, <1>5, BatchSound DEF HeadersStand, HeadersStandIn

\* Where the rest of a block is passed over no batch is passed that is clear of damage.
LEMMA PassedNextBlock ==
    ASSUME ScanInv, FileInv, SyncInv, Scanning, NextBlock,
           ~HeaderFits \/ ZeroHeader \/ data_end > block_len, NEW b
    PROVE  /\ Passed(b) => Passed(b)'
           /\ Passed(b)' /\ ~Passed(b) => ~ClearOfDamage(b) /\ ~HeadersStand
  <1>1. file' = file /\ here' = block_end /\ here \in Nat /\ block_end \in Nat /\ here <= block_end
    <2>1. file' = file /\ block_start' = block_end /\ pos' = 0
      BY DEF NextBlock
    <2> QED
      BY <2>1, CursorNumbers DEF here
  <1>2. Aligned /\ (Standing => Synced)
    BY DEF SyncInv, Scanning
  <1>3. Passed(b) => Passed(b)'
    <2> SUFFICES ASSUME Passed(b) PROVE Passed(b)'
      OBVIOUS
    <2>1. PICK q \in 1..LastPlace : Ph(q).batch = b /\ Writer!Closes(Ph(q)) /\ Edge(q + 1) <= here
      BY DEF Passed
    <2>2. Edge(q + 1) <= here'
      BY <1>1, <2>1, Order
    <2> QED
      BY <1>1, <2>1, <2>2, SameFile DEF Passed
  <1>4. ASSUME Standing, Passed(b)', ~Passed(b) PROVE FALSE
    <2>1. PICK q \in 1..LastPlace : Ph(q).batch = b /\ Writer!Closes(Ph(q)) /\ Edge(q + 1) <= here'
      BY <1>1, <1>4, SameFile DEF Passed
    <2>2. ~(Edge(q + 1) <= here) /\ Edge(q + 1) \in Nat
      BY <1>4, <2>1, Order DEF Passed
    <2>3. block_end < Edge(q + 1)
      BY <1>1, <1>2, <1>4, <2>2, NothingSkipped
    <2> QED
      BY <1>1, <2>1, <2>2, <2>3
  <1>5. ASSUME ~Standing, Passed(b)', ~Passed(b) PROVE ~ClearOfDamage(b) /\ ~HeadersStand
    <2>1. here' \in Nat /\ here' <= block_end
      BY <1>1
    <2> QED
      BY <1>1, <1>2, <1>5, <2>1, PassedLost
  <1> QED
    BY <1>3, <1>4, <1>5

\* The batches before the one that physical record p closes have been passed, and
\* neither it nor a later one.
LEMMA PassedBefore ==
    ASSUME FileInv, here \in Nat, NEW p \in 1..LastPlace, Under(p), Writer!Closes(Ph(p)),
           NEW b \in 1..Len(file.written)
    PROVE  Passed(b) <=> b < Ph(p).batch
  <1>1. /\ Edge(p) \in Nat /\ Edge(p + 1) \in Nat /\ Edge(p) <= here /\ here < Edge(p + 1)
        /\ Ph(p).batch \in Nat /\ LastPlace \in Nat
    BY Order DEF Under
  <1>2. ASSUME b < Ph(p).batch PROVE Passed(b)
    <2>1. PICK r \in 1..LastPlace : Ph(r).batch = b /\ Writer!Closes(Ph(r))
      BY Closer
    <2>2. /\ p < r => Ph(p).batch <= Ph(r).batch
          /\ r < p => Edge(r + 1) <= Edge(p)
          /\ Edge(r + 1) \in Nat
      BY Order
    <2>3. r < p
      BY <1>1, <1>2, <2>1, <2>2
    <2>4. Edge(r + 1) <= here
      BY <1>1, <2>2, <2>3
    <2> QED
      BY <2>1, <2>4 DEF Passed
  <1>3. ASSUME Passed(b) PROVE b < Ph(p).batch
    <2>1. PICK r \in 1..LastPlace : Ph(r).batch = b /\ Writer!Closes(Ph(r)) /\ Edge(r + 1) <= here
      BY <1>3 DEF Passed
    <2>2. /\ p < r => Edge(p + 1) <= Edge(r)
          /\ r < p => Ph(r).batch < Ph(p).batch
          /\ Edge(r) < Edge(r + 1) /\ Edge(r + 1) \in Nat /\ Edge(r) \in Nat
      <3>1. p < r => Edge(p + 1) <= Edge(r)
        BY Order
      <3>2. r < p => Ph(r).batch < Ph(p).batch
        BY <2>1, Order
      <3>3. Edge(r) <= Ph(r).at /\ Ph(r).at < Edge(r + 1) /\ Edge(r + 1) \in Nat /\ Edge(r) \in Nat
            /\ Ph(r).at \in Nat
        BY Order
      <3> QED
        BY <3>1, <3>2, <3>3
    <2>3. r < p
      BY <1>1, <2>1, <2>2
    <2> QED
      BY <2>1, <2>2, <2>3
  <1> QED
    BY <1>2, <1>3

\* A physical record that is consumed takes the reader past the batch it closes.
LEMMA PassedPhysical ==
    ASSUME ScanInv, FileInv, file' = file, NEW p \in 1..LastPlace, Consumes(p), NEW b
    PROVE  Passed(b)' <=> Passed(b) \/ (Writer!Closes(Ph(p)) /\ b = Ph(p).batch)
  <1>1. here \in Nat /\ Under(p) /\ here' = Edge(p + 1)
    BY CursorNumbers DEF Consumes
  <1>2. /\ Edge(p) \in Nat /\ Edge(p + 1) \in Nat /\ Edge(p) <= here /\ here < Edge(p + 1)
        /\ LastPlace \in Nat
    BY <1>1, Order DEF Under
  <1>3. ASSUME NEW q \in 1..LastPlace
        PROVE  Edge(q + 1) <= Edge(p + 1) <=> Edge(q + 1) <= here \/ q = p
    <2>1. /\ q < p => Edge(q + 1) <= Edge(p)
          /\ Edge(q) \in Nat /\ Edge(q + 1) \in Nat
          /\ Edge(q) <= Ph(q).at /\ Ph(q).at < Edge(q + 1) /\ Ph(q).at \in Nat
      BY Order
    <2>2. p < q => Edge(p + 1) <= Edge(q)
      BY Order
    <2> DEFINE x == Edge(q + 1)
               y == Edge(p + 1)
               a == Edge(q)
               c == Edge(p)
    <2>3. /\ x \in Nat /\ y \in Nat /\ a \in Nat /\ c \in Nat /\ a < x /\ c <= here /\ here < y
          /\ q < p => x <= c
          /\ p < q => y <= a
      BY <1>2, <2>1, <2>2
    <2>4. q = p => x = y
      OBVIOUS
    <2>5. p \in Int /\ q \in Int /\ here \in Nat
      BY <1>1
    <2> HIDE DEF x, y, a, c
    <2>6. x <= y => x <= here \/ q = p
      BY <2>3, <2>5
    <2>7. x <= here \/ q = p => x <= y
      BY <2>3, <2>4, <2>5
    <2> QED
      BY <2>6, <2>7 DEF x, y
  <1>4. Passed(b)' <=> \E q \in 1..LastPlace :
                          Ph(q).batch = b /\ Writer!Closes(Ph(q)) /\ Edge(q + 1) <= Edge(p + 1)
    BY <1>1, SameFile DEF Passed
  <1> QED
    BY <1>3, <1>4 DEF Passed
-----------------------------------------------------------------------------
(* What is expected of the intact batches.                                 *)

Batches == Len(file.written)
Parts   == [b \in DOMAIN file.written |-> IF Intact(b) THEN file.written[b].ops ELSE <<>>]

\* How many records the first b batches are expected to give.
Sum(b) == Len(JoinedTo(Parts, b))

\* The parts are the ops of the intact batches.
LEMMA PartsFacts ==
    ASSUME FileInv
    PROVE  /\ Batches \in Nat /\ Parts \in Seq(Seq(Op)) /\ Len(Parts) = Batches
           /\ \A b \in 1..Batches : Parts[b] = IF Intact(b) THEN Ops(b) ELSE <<>>
           /\ IntactRecords = FlattenSeq(Parts)
  <1>1. file.written \in Seq(Writer!Batch)
    BY DEF FileInv, Writer!IsLog
  <1>2. Batches \in Nat /\ DOMAIN file.written = 1..Batches
    BY <1>1, LenProperties DEF Batches
  <1>3. \A b \in 1..Batches : Ops(b) \in Seq(Op) /\ <<>> \in Seq(Op)
    BY WrittenFacts, EmptySeq DEF Batches
  <1>4. \A b \in 1..Batches : Parts[b] = IF Intact(b) THEN Ops(b) ELSE <<>>
    BY <1>2 DEF Parts, Ops
  <1>5. Parts \in [1..Batches -> Seq(Op)]
    BY <1>2, <1>3 DEF Parts, Ops
  <1>6. Parts \in Seq(Seq(Op))
    BY <1>2, <1>5, SeqDef
  <1>7. DOMAIN Parts = 1..Batches
    BY <1>2 DEF Parts
  <1>8. Len(Parts) = Batches
    BY <1>2, <1>6, <1>7, LenProperties
  <1>9. IntactRecords = FlattenSeq(Parts)
    BY DEF IntactRecords, Parts
  <1> QED
    BY <1>2, <1>4, <1>6, <1>8, <1>9

\* Each batch adds its own ops, if it is intact, and those stand where it begins.
Adds(b) == /\ Sum(b - 1) \in Nat /\ Sum(b) \in Nat /\ Sum(b) <= Len(IntactRecords)
           /\ Sum(b) = IF Intact(b) THEN Sum(b - 1) + Len(Ops(b)) ELSE Sum(b - 1)
           /\ Intact(b) => \A i \in 1..Len(Ops(b)) : IntactRecords[Sum(b - 1) + i] = Ops(b)[i]

\* All of them together are what is expected.
LEMMA SumFacts ==
    ASSUME FileInv
    PROVE  /\ IntactRecords \in Seq(Op) /\ Len(IntactRecords) \in Nat
           /\ Sum(0) = 0 /\ Sum(Batches) = Len(IntactRecords)
           /\ \A b \in 0..Batches : Sum(b) \in Nat
           /\ \A b \in 1..Batches : Adds(b)
  <1>1. Batches \in Nat /\ Parts \in Seq(Seq(Op)) /\ Len(Parts) = Batches
        /\ IntactRecords = FlattenSeq(Parts)
    BY PartsFacts
  <1>2. JoinedTo(Parts, 0) = <<>> /\ JoinedTo(Parts, Len(Parts)) = FlattenSeq(Parts)
        /\ \A k \in 0..Len(Parts) : JoinedTo(Parts, k) \in Seq(Op)
    BY <1>1, JoinedFacts
  <1>3. FlattenSeq(Parts) \in Seq(Op)
    BY <1>1, FlattenType
  <1>4. Sum(0) = 0 /\ Sum(Batches) = Len(IntactRecords)
    <2>1. Len(<<>>) = 0
      OBVIOUS
    <2> QED
      BY <1>1, <1>2, <2>1 DEF Sum
  <1>5. \A b \in 0..Batches : Sum(b) \in Nat
    BY <1>1, <1>2, LenProperties DEF Sum
  <1>6. ASSUME NEW b \in 1..Batches PROVE Adds(b)
    <2>1. b \in 1..Len(Parts)
      BY <1>1
    <2>2. /\ FlattenSeq(Parts) \in Seq(Op) /\ Parts[b] \in Seq(Op)
          /\ Len(JoinedTo(Parts, b - 1)) \in Nat
          /\ Len(JoinedTo(Parts, b)) = Len(JoinedTo(Parts, b - 1)) + Len(Parts[b])
          /\ Len(JoinedTo(Parts, b - 1)) + Len(Parts[b]) <= Len(FlattenSeq(Parts))
          /\ \A i \in 1..Len(Parts[b]) :
                FlattenSeq(Parts)[Len(JoinedTo(Parts, b - 1)) + i] = Parts[b][i]
      BY <1>1, <2>1, ElementStands
    <2>3. Parts[b] = IF Intact(b) THEN Ops(b) ELSE <<>>
      BY PartsFacts
    <2>4. Len(Parts[b]) \in Nat /\ Len(<<>>) = 0
      BY <2>2, LenProperties
    <2>5. Sum(b) = Sum(b - 1) + Len(Parts[b]) /\ Sum(b - 1) \in Nat
          /\ Sum(b - 1) + Len(Parts[b]) <= Len(IntactRecords)
          /\ \A i \in 1..Len(Parts[b]) : IntactRecords[Sum(b - 1) + i] = Parts[b][i]
      BY <1>1, <2>2 DEF Sum
    <2>6. CASE Intact(b)
      <3>1. Parts[b] = Ops(b)
        BY <2>3, <2>6
      <3> QED
        BY <2>4, <2>5, <2>6, <3>1 DEF Adds
    <2>7. CASE ~Intact(b)
      <3>1. Len(Parts[b]) = 0
        BY <2>3, <2>4, <2>7
      <3>2. Sum(b) = Sum(b - 1) /\ Sum(b - 1) <= Len(IntactRecords)
        BY <2>5, <3>1
      <3> QED
        BY <2>5, <2>7, <3>2 DEF Adds
    <2> QED
      BY <2>6, <2>7
  <1> QED
    BY <1>1, <1>3, <1>4, <1>5, <1>6, LenProperties

\* Where none of the batches that are left is intact nothing more is expected.
LEMMA NothingLeft ==
    ASSUME FileInv, NEW b \in 0..Batches, \A c \in b + 1..Batches : ~Intact(c)
    PROVE  Sum(b) = Len(IntactRecords)
  <1> DEFINE Good == {d \in Nat : b + d <= Batches => Sum(b + d) = Sum(b)}
  <1>1. Batches \in Nat
    BY PartsFacts
  <1>2. 0 \in Good
    BY <1>1
  <1>3. ASSUME NEW d \in Nat, d \in Good PROVE d + 1 \in Good
    <2> SUFFICES ASSUME b + (d + 1) <= Batches PROVE Sum(b + (d + 1)) = Sum(b)
      OBVIOUS
    <2> DEFINE c == b + (d + 1)
    <2>1. c \in 1..Batches /\ c \in b + 1..Batches /\ c - 1 = b + d
      BY <1>1
    <2>2. Sum(b + d) = Sum(b)
      BY <1>1, <1>3
    <2> HIDE DEF c
    <2>3. Adds(c) /\ ~Intact(c)
      BY <2>1, SumFacts
    <2>4. Sum(c) = Sum(c - 1)
      BY <2>3 DEF Adds
    <2> QED
      BY <2>1, <2>2, <2>4 DEF c
  <1> HIDE DEF Good
  <1>4. Nat \subseteq Good
    BY <1>2, <1>3, InductionOnSet
  <1>5. Batches - b \in Nat /\ b + (Batches - b) = Batches
    BY <1>1
  <1>6. Batches - b \in Good
    BY <1>4, <1>5
  <1>7. Sum(b + (Batches - b)) = Sum(b)
    BY <1>1, <1>5, <1>6 DEF Good
  <1> QED
    BY <1>5, <1>7, SumFacts

\* When the reader has returned it has gone by every batch that is intact.
LEMMA DonePassed ==
    ASSUME ScanInv, FileInv, Done, NEW c \in 1..Batches, Intact(c)
    PROVE  Passed(c)
  <1>1. PICK q \in 1..LastPlace : Ph(q).batch = c /\ Writer!Closes(Ph(q))
    BY Closer DEF Batches
  <1> DEFINE g == Ph(q)
  <1>2. g \in Range(file.physical)
    BY PhysicalPlaces
  <1>3. Writer!Sound(file, g)
    BY <1>1, <1>2 DEF Intact, PhysicalOf
  <1>4. PlaceIs(q)
    BY PlaceNumbers
  <1> HIDE DEF g
  <1>5. g.at \in Nat /\ g.length \in Nat /\ Writer!End(g) = g.at + 3 + g.length
        /\ Edge(q + 1) = Writer!End(g)
    BY <1>4 DEF PlaceIs, g
  <1> DEFINE o == Writer!End(g) - 1
  <1>6. o \in Nat /\ g.at <= o
    BY <1>5
  <1>7. o \in Writer!Extent(g)
    BY <1>5, <1>6 DEF Writer!Extent
  <1>8. o \notin file.spoiled
    BY <1>3, <1>7 DEF Writer!Sound
  <1> HIDE DEF o
  <1>9. o < Len(file.val)
    BY <1>7, <1>8 DEF FileInv, Writer!IsLog, g, Ph, LastPlace
  <1>10. Len(file.val) <= block_start /\ block_start \in Nat /\ here \in Nat
         /\ block_start <= here /\ Len(file.val) \in Nat
    <2>1. block_start >= Len(file.val)
      BY DEF Done
    <2> QED
      BY <2>1, CursorNumbers
  <1>11. Edge(q + 1) <= here
    BY <1>5, <1>9, <1>10 DEF o
  <1> QED
    BY <1>1, <1>11 DEF Passed
\* The file never changes, so neither does what is expected of it.
LEMMA SameBatches ==
    ASSUME file' = file
    PROVE  /\ Batches' = Batches /\ IntactRecords' = IntactRecords
           /\ \A b : Intact(b)' = Intact(b) /\ ClearOfDamage(b)' = ClearOfDamage(b)
           /\ \A b : Sum(b)' = Sum(b) /\ Ops(b)' = Ops(b) /\ Payload(b)' = Payload(b)
           /\ \A b, k : OpEnd(b, k)' = OpEnd(b, k)
  <1>1. \A b : Intact(b)' = Intact(b)
    BY DEF Intact, PhysicalOf, Writer!Sound, Writer!Extent, Writer!End, Writer!HEADER_SIZE
  <1>2. \A b : ClearOfDamage(b)' = ClearOfDamage(b)
    BY <1>1 DEF ClearOfDamage, PhysicalOf, HeadersStandIn, HeaderStands
  <1>3. Parts' = Parts
    BY <1>1 DEF Parts
  <1>4. IntactRecords' = IntactRecords
    BY <1>1 DEF IntactRecords
  <1>5. \A b : Sum(b)' = Sum(b)
    BY <1>3 DEF Sum
  <1>6. \A b, k : OpEnd(b, k)' = OpEnd(b, k)
    BY DEF OpEnd, Encoding, Ops
  <1> QED
    BY <1>1, <1>2, <1>4, <1>5, <1>6 DEF Batches, Ops, Payload

-----------------------------------------------------------------------------
(* While the headers stand the reader has what is expected of the batches  *)
(* it has gone by.                                                         *)

PassedTo(b) == \A c \in 1..Batches : Passed(c) <=> c <= b

\* The records are those of the first b batches, or a call is reading batch b.
AtBatch(b) == /\ call = "idle" => Len(records) = Sum(b)
              /\ call # "idle" => /\ b \in 1..Batches /\ Intact(b) /\ Reading(b)
                                  /\ Len(records) = Sum(b - 1) + op_index

Matched == \A i \in 1..Len(records) : Content(records[i]) = IntactRecords[i]

ExactInv == HeadersStand => \E b \in 0..Batches : PassedTo(b) /\ AtBatch(b) /\ Matched

\* A step that adds no record and stays in the call, or out of one.
LEMMA ExactStays ==
    ASSUME file' = file, UNCHANGED batchVars, NEW b, AtBatch(b), Matched
    PROVE  AtBatch(b)' /\ Matched'
  <1>1. call' = call /\ batch' = batch /\ cur' = cur /\ op_index' = op_index /\ records' = records
    BY DEF batchVars
  <1>2. /\ Batches' = Batches /\ IntactRecords' = IntactRecords
        /\ \A c : Intact(c)' = Intact(c) /\ Sum(c)' = Sum(c)
        /\ \A c : Ops(c)' = Ops(c) /\ Payload(c)' = Payload(c)
        /\ \A c, k : OpEnd(c, k)' = OpEnd(c, k)
    BY SameBatches
  <1>3. \A c : Reading(c)' = Reading(c)
    BY <1>1, <1>2 DEF Reading, Held
  <1>4. Sum(b)' = Sum(b) /\ Sum(b - 1)' = Sum(b - 1) /\ Intact(b)' = Intact(b)
        /\ Reading(b)' = Reading(b)
    BY <1>2, <1>3
  <1>5. AtBatch(b)'
    BY <1>1, <1>2, <1>4 DEF AtBatch
  <1>6. Matched'
    BY <1>1, <1>2 DEF Matched, Content
  <1> QED
    BY <1>5, <1>6

\* Leaving a block whose headers stand, the reader leaves no batch behind.
LEMMA ExactNextBlock ==
    ASSUME ScanInv, FileInv, SyncInv, ExactInv, Scanning, NextBlock,
           ~HeaderFits \/ ZeroHeader \/ data_end > block_len
    PROVE  ExactInv'
  <1>1. file' = file /\ UNCHANGED batchVars
    BY DEF NextBlock, batchVars
  <1> SUFFICES ASSUME HeadersStand
               PROVE  \E b \in 0..Batches' : PassedTo(b)' /\ AtBatch(b)' /\ Matched'
    BY <1>1, SameFile DEF ExactInv
  <1>2. PICK b \in 0..Batches : PassedTo(b) /\ AtBatch(b) /\ Matched
    BY DEF ExactInv
  <1>3. \A c \in 1..Batches : Passed(c)' <=> Passed(c)
    BY PassedNextBlock
  <1>4. Batches' = Batches
    BY <1>1, SameBatches
  <1>5. PassedTo(b)'
    BY <1>2, <1>3, <1>4 DEF PassedTo
  <1>6. AtBatch(b)' /\ Matched'
    BY <1>1, <1>2, ExactStays
  <1> QED
    BY <1>4, <1>5, <1>6

\* What a record that closes batch g does.
LEMMA ExactCloses ==
    ASSUME ScanInv, FileInv, SyncInv, GatherInv, PhysicalRecord, HeadersStand, Standing,
           NEW p \in 1..LastPlace, Consumes(p), Writer!Closes(Ph(p)), call = "idle", file' = file,
           NEW g, g = Ph(p).batch, NEW b \in 0..Batches, PassedTo(b), AtBatch(b), Matched
    PROVE  \E c \in 0..Batches : PassedTo(c)' /\ AtBatch(c)' /\ Matched'
  <1>1. g \in 1..Batches /\ Batches \in Nat
    BY PhysicalFacts, PartsFacts DEF PhysicalIs, Batches
  <1>2. \A c \in 1..Batches : Passed(c) <=> c < g
    <2>1. here \in Nat /\ Under(p)
      BY CursorNumbers DEF Consumes
    <2> QED
      BY <2>1, PassedBefore DEF Batches
  <1>3. \A c \in 1..Batches : Passed(c)' <=> Passed(c) \/ c = g
    BY PassedPhysical
  <1>4. /\ Batches' = Batches /\ IntactRecords' = IntactRecords
        /\ Intact(g)' = Intact(g) /\ Sum(g)' = Sum(g) /\ Sum(g - 1)' = Sum(g - 1)
    BY SameBatches
  <1>5. ~Intact(g) => NoParse
    BY BatchSound, HandsOver
  <1>6. Intact(g) => Starts(g)
    BY BatchSound, HandsOver
  <1>7. b = g - 1
    <2>1. \A c \in 1..Batches : c <= b <=> c < g
      BY <1>2 DEF PassedTo
    <2>2. ~(g <= b)
      BY <1>1, <2>1
    <2>3. g = 1 \/ g - 1 \in 1..Batches
      BY <1>1
    <2>4. g = 1 \/ g - 1 <= b
      BY <1>1, <2>1, <2>3
    <2> QED
      BY <1>1, <2>2, <2>4
  <1>8. PassedTo(g)'
    <2>1. \A c \in 1..Batches : c <= g <=> c < g \/ c = g
      BY <1>1
    <2>2. \A c \in 1..Batches : Passed(c)' <=> c <= g
      BY <1>2, <1>3, <2>1
    <2> QED
      BY <1>4, <2>2 DEF PassedTo
  <1>9. Len(records) = Sum(g - 1)
    BY <1>7 DEF AtBatch
  <1>10. Adds(g)
    BY <1>1, SumFacts
  <1>11. ASSUME Intact(g) PROVE AtBatch(g)' /\ Matched'
    <2>1. Reading(g)' /\ call' = "header" /\ op_index' = 0 /\ records' = records
      BY <1>6, <1>11 DEF Starts
    <2>2. Sum(g - 1) + 0 = Sum(g - 1)
      BY <1>10 DEF Adds
    <2>3. AtBatch(g)'
      BY <1>1, <1>4, <1>9, <1>11, <2>1, <2>2 DEF AtBatch
    <2>4. Matched'
      BY <1>4, <2>1 DEF Matched, Content
    <2> QED
      BY <2>3, <2>4
  <1>12. ASSUME ~Intact(g) PROVE AtBatch(g)' /\ Matched'
    <2>1. call' = "idle" /\ records' = records
      BY <1>5, <1>12 DEF NoParse, batchVars
    <2>2. Sum(g) = Sum(g - 1)
      BY <1>10, <1>12 DEF Adds
    <2>3. AtBatch(g)'
      BY <1>4, <1>9, <2>1, <2>2 DEF AtBatch
    <2>4. Matched'
      BY <1>4, <2>1 DEF Matched, Content
    <2> QED
      BY <2>3, <2>4
  <1>13. g \in 0..Batches
    BY <1>1
  <1> QED
    BY <1>8, <1>11, <1>12, <1>13

\* A record that is consumed closes the next batch, or none.
LEMMA ExactPhysical ==
    ASSUME ScanInv, FileInv, SyncInv, GatherInv, ExactInv, PhysicalRecord
    PROVE  ExactInv'
  <1>1. Physical
    BY DEF PhysicalRecord, FullRecord, FirstFragment, MiddleFragment, LastFragment, UnknownType
  <1>2. file' = file /\ call = "idle" /\ block_start < Len(file.val)
    BY <1>1 DEF Physical, Scanning
  <1> SUFFICES ASSUME HeadersStand
               PROVE  \E b \in 0..Batches' : PassedTo(b)' /\ AtBatch(b)' /\ Matched'
    BY <1>2, SameFile DEF ExactInv
  <1>3. Standing /\ Aligned /\ Synced
    BY <1>2 DEF HeadersStand, HeadersStandIn, Standing, SyncInv
  <1>4. PICK p \in 1..LastPlace : Consumes(p)
    BY <1>1, <1>3, RecordConsumed
  <1>5. PICK b \in 0..Batches : PassedTo(b) /\ AtBatch(b) /\ Matched
    BY DEF ExactInv
  <1>6. Batches' = Batches
    BY <1>2, SameBatches
  <1>7. CASE Writer!Closes(Ph(p))
    <2>1. PICK g : g = Ph(p).batch
      OBVIOUS
    <2> QED
      BY <1>2, <1>3, <1>4, <1>5, <1>6, <1>7, <2>1, ExactCloses
  <1>8. CASE ~Writer!Closes(Ph(p))
    <2>1. NoParse
      BY <1>3, <1>4, <1>8, HandsOver
    <2>2. UNCHANGED batchVars
      BY <2>1 DEF NoParse
    <2>3. \A c \in 1..Batches : Passed(c)' <=> Passed(c)
      BY <1>2, <1>4, <1>8, PassedPhysical
    <2>4. PassedTo(b)'
      BY <1>5, <1>6, <2>3 DEF PassedTo
    <2>5. AtBatch(b)' /\ Matched'
      BY <1>2, <1>5, <2>2, ExactStays
    <2> QED
      BY <1>6, <2>4, <2>5
  <1> QED
    BY <1>7, <1>8

\* The call adds the next op of its batch, or returns with all of them.
LEMMA ExactBatch ==
    ASSUME ScanInv, FileInv, ExactInv, Batch
    PROVE  ExactInv'
  <1>1. file' = file /\ here' = here /\ BatchNext /\ BatchTypeOK
    BY DEF Batch, scanVars, here, ScanInv, TypeOK
  <1>2. call # "idle"
    BY <1>1 DEF BatchNext, TooShort, ReadHeader, PutOp, DeleteOp, AllOps, Inconsistent, NextOp
  <1> SUFFICES ASSUME HeadersStand
               PROVE  \E b \in 0..Batches' : PassedTo(b)' /\ AtBatch(b)' /\ Matched'
    BY <1>1, SameFile DEF ExactInv
  <1>3. PICK b \in 0..Batches : PassedTo(b) /\ AtBatch(b) /\ Matched
    BY DEF ExactInv
  <1>4. b \in 1..Batches /\ Intact(b) /\ Reading(b) /\ Len(records) = Sum(b - 1) + op_index
    BY <1>2, <1>3 DEF AtBatch
  <1>5. /\ Batches' = Batches /\ IntactRecords' = IntactRecords
        /\ Intact(b)' = Intact(b) /\ Sum(b)' = Sum(b) /\ Sum(b - 1)' = Sum(b - 1)
    BY <1>1, SameBatches
  <1>6. PassedTo(b)'
    <2>1. \A c : Passed(c)' <=> Passed(c)
      BY <1>1, SameFile DEF Passed
    <2> QED
      BY <1>3, <1>5, <2>1 DEF PassedTo
  <1>7. /\ Sum(b - 1) \in Nat /\ Sum(b) = Sum(b - 1) + Len(Ops(b))
        /\ \A i \in 1..Len(Ops(b)) : IntactRecords[Sum(b - 1) + i] = Ops(b)[i]
    BY <1>4, SumFacts DEF Adds
  <1>8. op_index \in Nat /\ records \in Seq(Record)
    BY <1>1 DEF BatchTypeOK
  <1>9. Returned(b) \/ HeaderIs(b) \/ OpIs(b)
    BY <1>1, <1>4, DecodeStep DEF Batches
  <1>10. CASE Returned(b)
    <2>1. call' = "idle" /\ records' = records /\ Len(records) = Sum(b)
      BY <1>4, <1>7, <1>10 DEF Returned
    <2> QED
      BY <1>3, <1>5, <1>6, <2>1 DEF AtBatch, Matched, Content
  <1>11. CASE HeaderIs(b)
    <2>1. Reading(b)' /\ call' # "idle" /\ records' = records /\ op_index' = op_index
      BY <1>11 DEF HeaderIs
    <2> QED
      BY <1>3, <1>4, <1>5, <1>6, <2>1 DEF AtBatch, Matched, Content
  <1>12. CASE OpIs(b)
    <2>1. Reading(b)' /\ call' # "idle" /\ op_index' = op_index + 1 /\ op_index + 1 \in 1..Len(Ops(b))
      BY <1>12 DEF OpIs
    <2>2. PICK r : records' = Append(records, r) /\ Content(r) = Ops(b)[op_index + 1]
      BY <1>12 DEF OpIs
    <2> DEFINE l == Len(records)
    <2>3. l \in Nat /\ Len(records') = l + 1 /\ records'[l + 1] = r
          /\ \A i \in 1..l : records'[i] = records[i]
      BY <1>8, <2>2, AppendFacts
    <2>4. l = Sum(b - 1) + op_index
      BY <1>4
    <2> HIDE DEF l
    <2>5. l + 1 = Sum(b - 1) + (op_index + 1) /\ Len(records') = Sum(b - 1) + op_index'
      BY <1>7, <1>8, <2>1, <2>3, <2>4
    <2>6. AtBatch(b)'
      BY <1>4, <1>5, <2>1, <2>5 DEF AtBatch
    <2>7. Content(records'[l + 1]) = IntactRecords[l + 1]
      BY <1>7, <2>1, <2>2, <2>3, <2>5
    <2>8. \A i \in 1..l : Content(records'[i]) = IntactRecords[i]
      BY <1>3, <2>3 DEF Matched, l
    <2>9. \A i \in 1..l + 1 : i \in 1..l \/ i = l + 1
      BY <2>3
    <2>10. \A i \in 1..l + 1 : Content(records'[i]) = IntactRecords[i]
      BY <2>7, <2>8, <2>9
    <2>11. Matched'
      BY <1>5, <2>3, <2>10 DEF Matched, Content
    <2> QED
      BY <1>5, <1>6, <2>6, <2>11
  <1> QED
    BY <1>9, <1>10, <1>11, <1>12
-----------------------------------------------------------------------------
(* However a block is damaged, the batches clear of it are all there.      *)

PlacedAt(b, n) == /\ n + Len(Ops(b)) <= Len(records)
                  /\ \A i \in 1..Len(Ops(b)) : Content(records[n + i]) = Ops(b)[i]

PlacingAt(b, n) == /\ call # "idle" /\ Reading(b) /\ n + op_index = Len(records)
                   /\ \A i \in 1..op_index : Content(records[n + i]) = Ops(b)[i]

\* The reader has gone by a batch that is clear of damage.
Gone(b) == ClearOfDamage(b) /\ Passed(b)

\* Its records are there or on their way, after those of the batches before it.
PlacesOf(place) ==
    \A b \in 1..Batches : Gone(b) =>
        /\ PlacedAt(b, place[b]) \/ PlacingAt(b, place[b])
        /\ \A c \in 1..b - 1 : Gone(c) => /\ PlacedAt(c, place[c])
                                          /\ place[c] + Len(Ops(c)) <= place[b]

PlacesInv == \E place \in [1..Batches -> Nat] : PlacesOf(place)

\* Where no batch is gone by and no record added the places stay.
LEMMA PlacesStay ==
    ASSUME FileInv, file' = file, records' = records, NEW place, PlacesOf(place),
           \A b \in 1..Batches : Gone(b)' => Gone(b),
           \A b \in 1..Batches : PlacingAt(b, place[b]) =>
                                     PlacedAt(b, place[b]) \/ PlacingAt(b, place[b])'
    PROVE  PlacesOf(place)'
  <1>1. Batches' = Batches /\ \A b : Ops(b)' = Ops(b)
    BY SameBatches
  <1>2. \A b, n : PlacedAt(b, n)' <=> PlacedAt(b, n)
    BY <1>1 DEF PlacedAt, Content
  <1>3. ASSUME NEW b \in 1..Batches, Gone(b)'
        PROVE  /\ PlacedAt(b, place[b])' \/ PlacingAt(b, place[b])'
               /\ \A c \in 1..b - 1 : Gone(c)' => /\ PlacedAt(c, place[c])'
                                                  /\ place[c] + Len(Ops(c))' <= place[b]
    <2>1. Gone(b)
      BY <1>3
    <2>2. /\ PlacedAt(b, place[b]) \/ PlacingAt(b, place[b])
          /\ \A c \in 1..b - 1 : Gone(c) => /\ PlacedAt(c, place[c])
                                            /\ place[c] + Len(Ops(c)) <= place[b]
      BY <2>1 DEF PlacesOf
    <2>3. PlacedAt(b, place[b])' \/ PlacingAt(b, place[b])'
      BY <1>2, <2>2
    <2>4. ASSUME NEW c \in 1..b - 1, Gone(c)'
          PROVE  PlacedAt(c, place[c])' /\ place[c] + Len(Ops(c))' <= place[b]
      <3>1. c \in 1..Batches
        BY PartsFacts
      <3>2. Gone(c)
        BY <2>4, <3>1
      <3> QED
        BY <1>1, <1>2, <2>2, <3>2
    <2> QED
      BY <2>3, <2>4
  <1> QED
    BY <1>1, <1>3 DEF PlacesOf
\* No record is on its way while no call is.
LEMMA NonePlacing ==
    ASSUME call = "idle", NEW b, NEW n
    PROVE  ~PlacingAt(b, n)
  BY DEF PlacingAt

\* Where the rest of a block is passed over, no batch clear of damage is.
LEMMA PlacesNextBlock ==
    ASSUME ScanInv, FileInv, SyncInv, PlacesInv, Scanning, NextBlock,
           ~HeaderFits \/ ZeroHeader \/ data_end > block_len
    PROVE  PlacesInv'
  <1>1. file' = file /\ records' = records /\ call = "idle"
    BY DEF NextBlock, batchVars, Scanning
  <1>2. PICK place \in [1..Batches -> Nat] : PlacesOf(place)
    BY DEF PlacesInv
  <1>3. ASSUME NEW b \in 1..Batches, Gone(b)' PROVE Gone(b)
    <2>1. ClearOfDamage(b) /\ Passed(b)'
      BY <1>1, <1>3, SameBatches DEF Gone
    <2> QED
      BY <2>1, PassedNextBlock DEF Gone
  <1>4. PlacesOf(place)'
    BY <1>1, <1>2, <1>3, NonePlacing, PlacesStay
  <1>5. Batches' = Batches
    BY <1>1, SameBatches
  <1> QED
    BY <1>2, <1>4, <1>5 DEF PlacesInv

\* A record of the file that takes the reader past a batch clear of damage hands
\* its payload over: its records come next.
LEMMA NewlyGone ==
    ASSUME ScanInv, FileInv, SyncInv, GatherInv, PhysicalRecord, call = "idle", file' = file,
           NEW g \in 1..Batches, Gone(g)', ~Gone(g)
    PROVE  /\ Starts(g)
           /\ \A b \in 1..Batches : Gone(b)' /\ b # g => Gone(b) /\ b < g
  <1>1. Physical
    BY DEF PhysicalRecord, FullRecord, FirstFragment, MiddleFragment, LastFragment, UnknownType
  <1>2. ClearOfDamage(g) /\ Passed(g)' /\ ~Passed(g)
    BY SameBatches DEF Gone
  <1>3. Aligned /\ (Standing => Synced)
    BY <1>1 DEF Physical, Scanning, SyncInv
  <1>4. Standing
    <2>1. here' \in Nat /\ here' <= block_end
      <3>1. here' = here + HEADER_SIZE + length /\ length \in Nat /\ here \in Nat
            /\ block_start + pos' <= block_end /\ block_start' = block_start
        BY <1>1, DataProperties, CursorNumbers DEF Physical
      <3>2. here' = block_start + pos'
        BY <3>1 DEF here
      <3> QED
        BY <3>1, <3>2 DEF HEADER_SIZE
    <2> QED
      BY <1>2, <1>3, <2>1, PassedLost
  <1>5. PICK p \in 1..LastPlace : Consumes(p)
    BY <1>1, <1>3, <1>4, RecordConsumed
  <1>6. \A b : Passed(b)' <=> Passed(b) \/ (Writer!Closes(Ph(p)) /\ b = Ph(p).batch)
    BY <1>5, PassedPhysical
  <1>7. Writer!Closes(Ph(p)) /\ g = Ph(p).batch
    BY <1>2, <1>6
  <1>8. Trusted(p) /\ Writer!Sound(file, Ph(p))
    BY <1>2, <1>7, BatchSound
  <1>9. Starts(g)
    BY <1>4, <1>5, <1>7, <1>8, HandsOver
  <1>10. \A b \in 1..Batches : Passed(b) <=> b < g
    <2>1. here \in Nat /\ Under(p)
      BY <1>5, CursorNumbers DEF Consumes
    <2> QED
      BY <1>7, <2>1, PassedBefore DEF Batches
  <1>11. ASSUME NEW b \in 1..Batches, Gone(b)', b # g PROVE Gone(b) /\ b < g
    <2>1. ClearOfDamage(b) /\ Passed(b)'
      BY <1>11, SameBatches DEF Gone
    <2>2. Passed(b)
      BY <1>6, <1>7, <1>11, <2>1
    <2> QED
      BY <1>10, <2>1, <2>2 DEF Gone
  <1> QED
    BY <1>9, <1>11

\* A batch that the reader goes by is on its way, after all of those before it.
LEMMA PlacesPhysical ==
    ASSUME ScanInv, FileInv, SyncInv, GatherInv, PlacesInv, PhysicalRecord
    PROVE  PlacesInv'
  <1>1. Physical
    BY DEF PhysicalRecord, FullRecord, FirstFragment, MiddleFragment, LastFragment, UnknownType
  <1>2. file' = file /\ call = "idle"
    BY <1>1 DEF Physical, Scanning
  <1>3. records' = records
    BY DEF PhysicalRecord, FullRecord, FirstFragment, MiddleFragment, LastFragment, UnknownType,
           Parse, Call, NoParse, batchVars
  <1>4. PICK place \in [1..Batches -> Nat] : PlacesOf(place)
    BY DEF PlacesInv
  <1>5. Batches' = Batches /\ \A b : Ops(b)' = Ops(b)
    BY <1>2, SameBatches
  <1>6. CASE \A b \in 1..Batches : Gone(b)' => Gone(b)
    <2>1. PlacesOf(place)'
      BY <1>2, <1>3, <1>4, <1>6, NonePlacing, PlacesStay
    <2> QED
      BY <1>4, <1>5, <2>1 DEF PlacesInv
  <1>7. CASE ~(\A b \in 1..Batches : Gone(b)' => Gone(b))
    <2>1. PICK g \in 1..Batches : Gone(g)' /\ ~Gone(g)
      BY <1>7
    <2>2. Starts(g) /\ \A b \in 1..Batches : Gone(b)' /\ b # g => Gone(b) /\ b < g
      BY <1>2, <2>1, NewlyGone
    <2>3. Reading(g)' /\ call' = "header" /\ op_index' = 0
      BY <2>2 DEF Starts
    <2>4. records \in Seq(Record) /\ Len(records) \in Nat /\ Batches \in Nat
      BY PartsFacts, LenProperties DEF ScanInv, TypeOK, BatchTypeOK
    <2>5. PICK place2 : place2 = [place EXCEPT ![g] = Len(records)]
      OBVIOUS
    <2>6. /\ place2 \in [1..Batches -> Nat] /\ place2[g] = Len(records)
          /\ \A b \in 1..Batches : b # g => place2[b] = place[b]
      BY <1>4, <2>4, <2>5
    <2>7. PlacingAt(g, place2[g])'
      <3>1. place2[g] + 0 = Len(records) /\ 1..0 = {}
        BY <2>4, <2>6
      <3> QED
        BY <1>3, <2>3, <3>1 DEF PlacingAt
    <2>8. ASSUME NEW b \in 1..Batches, Gone(b)', b # g
          PROVE  /\ Gone(b) /\ b < g /\ place2[b] = place[b] /\ PlacedAt(b, place2[b])'
                 /\ place2[b] + Len(Ops(b)) <= place2[g]
                 /\ \A c \in 1..b - 1 : Gone(c) => place[c] + Len(Ops(c)) <= place[b]
      <3>1. Gone(b) /\ b < g /\ place2[b] = place[b]
        BY <2>2, <2>6, <2>8
      <3>2. PlacedAt(b, place[b]) /\ \A c \in 1..b - 1 : Gone(c) => place[c] + Len(Ops(c)) <= place[b]
        BY <1>2, <1>4, <3>1, NonePlacing DEF PlacesOf
      <3>3. PlacedAt(b, place2[b])'
        BY <1>3, <1>5, <3>1, <3>2 DEF PlacedAt, Content
      <3>4. place2[b] + Len(Ops(b)) <= place2[g]
        BY <2>6, <3>1, <3>2 DEF PlacedAt
      <3> QED
        BY <3>1, <3>2, <3>3, <3>4
    <2>9. ASSUME NEW b \in 1..Batches, Gone(b)'
          PROVE  /\ PlacedAt(b, place2[b])' \/ PlacingAt(b, place2[b])'
                 /\ \A c \in 1..b - 1 : Gone(c)' => /\ PlacedAt(c, place2[c])'
                                                    /\ place2[c] + Len(Ops(c))' <= place2[b]
      <3>1. PlacedAt(b, place2[b])' \/ PlacingAt(b, place2[b])'
        BY <2>7, <2>8, <2>9
      <3>2. ASSUME NEW c \in 1..b - 1, Gone(c)'
            PROVE  PlacedAt(c, place2[c])' /\ place2[c] + Len(Ops(c))' <= place2[b]
        <4>1. c \in 1..Batches /\ c < b
          BY <2>4
        <4>2. c # g
          <5> SUFFICES ASSUME c = g PROVE FALSE
            OBVIOUS
          <5>1. b # g /\ ~(b < g)
            BY <4>1
          <5> QED
            BY <2>8, <2>9, <5>1
        <4>3. /\ Gone(c) /\ place2[c] = place[c] /\ PlacedAt(c, place2[c])'
              /\ place2[c] + Len(Ops(c)) <= place2[g]
          BY <2>8, <3>2, <4>1, <4>2
        <4>4. CASE b = g
          BY <1>5, <4>3, <4>4
        <4>5. CASE b # g
          <5>1. place2[b] = place[b] /\ place[c] + Len(Ops(c)) <= place[b]
            BY <2>8, <2>9, <4>3, <4>5
          <5> QED
            BY <1>5, <4>3, <5>1
        <4> QED
          BY <4>4, <4>5
      <3> QED
        BY <3>1, <3>2
    <2>10. PlacesOf(place2)'
      BY <1>5, <2>9 DEF PlacesOf
    <2> QED
      BY <1>5, <2>6, <2>10 DEF PlacesInv
  <1> QED
    BY <1>6, <1>7

\* What is there stays there when a record is added.
LEMMA PlacesBatch ==
    ASSUME ScanInv, FileInv, PlacesInv, Batch
    PROVE  PlacesInv'
  <1>1. file' = file /\ here' = here /\ BatchNext /\ BatchTypeOK
    BY DEF Batch, scanVars, here, ScanInv, TypeOK
  <1>2. PICK place \in [1..Batches -> Nat] : PlacesOf(place)
    BY DEF PlacesInv
  <1>3. Batches' = Batches /\ Batches \in Nat /\ \A b : Ops(b)' = Ops(b)
    BY <1>1, SameBatches, PartsFacts
  <1>4. ASSUME NEW b PROVE Gone(b)' <=> Gone(b)
    <2>1. ClearOfDamage(b)' = ClearOfDamage(b)
      BY <1>1, SameBatches
    <2>2. Passed(b)' <=> Passed(b)
      BY <1>1, SameFile DEF Passed
    <2> QED
      BY <2>1, <2>2 DEF Gone
  <1>5. /\ Len(records) \in Nat /\ Len(records') \in Nat /\ Len(records) <= Len(records')
        /\ \A i \in 1..Len(records) : records'[i] = records[i]
    <2>1. ASSUME NEW r, NEW d, Pushed(r, d)
          PROVE  /\ Len(records) \in Nat /\ Len(records') \in Nat /\ Len(records) <= Len(records')
                 /\ \A i \in 1..Len(records) : records'[i] = records[i]
      <3>1. records' = Append(records, r) /\ records \in Seq(Record)
        BY <1>1, <2>1 DEF Pushed, BatchTypeOK
      <3>2. Len(records') = Len(records) + 1 /\ Len(records) \in Nat
            /\ \A i \in 1..Len(records) : records'[i] = records[i]
        BY <3>1, AppendFacts
      <3> QED
        BY <3>2
    <2>2. ASSUME records' = records
          PROVE  /\ Len(records) \in Nat /\ Len(records') \in Nat /\ Len(records) <= Len(records')
                 /\ \A i \in 1..Len(records) : records'[i] = records[i]
      BY <1>1, <2>2, LenProperties DEF BatchTypeOK
    <2> QED
      BY <1>1, <2>1, <2>2, BatchStep DEF Return, ReadHeader
  <1>6. ASSUME NEW b \in 1..Batches, PlacedAt(b, place[b]) PROVE PlacedAt(b, place[b])'
    <2>1. place[b] + Len(Ops(b)) <= Len(records)
          /\ \A i \in 1..Len(Ops(b)) : Content(records[place[b] + i]) = Ops(b)[i]
      BY <1>6 DEF PlacedAt
    <2>2. place[b] \in Nat /\ Len(Ops(b)) \in Nat
      BY <1>2, WrittenFacts DEF Batches
    <2>3. place[b] + Len(Ops(b)) <= Len(records')
      BY <1>5, <2>1, <2>2
    <2>4. \A i \in 1..Len(Ops(b)) : place[b] + i \in 1..Len(records)
      BY <1>5, <2>1, <2>2
    <2>5. \A i \in 1..Len(Ops(b)) : Content(records'[place[b] + i]) = Ops(b)[i]
      BY <1>5, <2>1, <2>4
    <2> QED
      BY <1>3, <2>3, <2>5 DEF PlacedAt, Content
  <1>7. ASSUME NEW b \in 1..Batches, PlacingAt(b, place[b])
        PROVE  PlacedAt(b, place[b])' \/ PlacingAt(b, place[b])'
    <2>1. Reading(b) /\ place[b] + op_index = Len(records)
          /\ \A i \in 1..op_index : Content(records[place[b] + i]) = Ops(b)[i]
      BY <1>7 DEF PlacingAt
    <2>2. place[b] \in Nat /\ op_index \in Nat
      BY <1>1, <1>2 DEF BatchTypeOK
    <2>3. Returned(b) \/ HeaderIs(b) \/ OpIs(b)
      BY <1>1, <2>1, DecodeStep DEF Batches
    <2>4. CASE Returned(b)
      <3>1. records' = records /\ op_index = Len(Ops(b))
        BY <2>4 DEF Returned
      <3>2. PlacedAt(b, place[b])'
        BY <1>3, <1>5, <2>1, <3>1 DEF PlacedAt, Content
      <3> QED
        BY <3>2
    <2>5. CASE HeaderIs(b)
      BY <1>3, <2>1, <2>5 DEF HeaderIs, PlacingAt, Content
    <2>6. CASE OpIs(b)
      <3>1. Reading(b)' /\ call' # "idle" /\ op_index' = op_index + 1
        BY <2>6 DEF OpIs
      <3>2. PICK r : records' = Append(records, r) /\ Content(r) = Ops(b)[op_index + 1]
        BY <2>6 DEF OpIs
      <3>3. records \in Seq(Record)
        BY <1>1 DEF BatchTypeOK
      <3> DEFINE l == Len(records)
      <3>4. Len(records') = l + 1 /\ records'[l + 1] = r /\ l \in Nat
        BY <3>2, <3>3, AppendFacts
      <3>5. place[b] + op_index = l
        BY <2>1
      <3> HIDE DEF l
      <3>6. place[b] + (op_index + 1) = l + 1
        BY <2>2, <3>4, <3>5
      <3>7. Content(records'[place[b] + (op_index + 1)]) = Ops(b)[op_index + 1]
        BY <3>2, <3>4, <3>6
      <3>8. ASSUME NEW i \in 1..op_index
            PROVE  Content(records'[place[b] + i]) = Ops(b)[i]
        <4>1. place[b] + i \in 1..l
          BY <2>2, <3>5
        <4>2. records'[place[b] + i] = records[place[b] + i]
          BY <1>5, <4>1 DEF l
        <4> QED
          BY <2>1, <4>2
      <3>9. \A i \in 1..op_index + 1 : i \in 1..op_index \/ i = op_index + 1
        BY <2>2
      <3>10. \A i \in 1..op_index + 1 : Content(records'[place[b] + i]) = Ops(b)[i]
        BY <3>7, <3>8, <3>9
      <3>11. PlacingAt(b, place[b])'
        BY <1>3, <3>1, <3>4, <3>6, <3>10 DEF PlacingAt, Content
      <3> QED
        BY <3>11
    <2> QED
      BY <2>3, <2>4, <2>5, <2>6
  <1>8. ASSUME NEW b \in 1..Batches, Gone(b)'
        PROVE  /\ PlacedAt(b, place[b])' \/ PlacingAt(b, place[b])'
               /\ \A c \in 1..b - 1 : Gone(c)' => /\ PlacedAt(c, place[c])'
                                                  /\ place[c] + Len(Ops(c))' <= place[b]
    <2>1. /\ PlacedAt(b, place[b]) \/ PlacingAt(b, place[b])
          /\ \A c \in 1..b - 1 : Gone(c) => /\ PlacedAt(c, place[c])
                                            /\ place[c] + Len(Ops(c)) <= place[b]
      BY <1>2, <1>4, <1>8 DEF PlacesOf
    <2>2. \A c \in 1..b - 1 : c \in 1..Batches
      BY <1>3
    <2> QED
      BY <1>3, <1>4, <1>6, <1>7, <2>1, <2>2
  <1>9. PlacesOf(place)'
    BY <1>3, <1>8 DEF PlacesOf
  <1> QED
    BY <1>2, <1>3, <1>9 DEF PlacesInv
-----------------------------------------------------------------------------
(* The reader over the logs that are written.                              *)

RecoveryInv == ScanInv /\ FileInv /\ SyncInv /\ GatherInv /\ ExactInv /\ PlacesInv

\* The reader starts before any record, with nothing.
LEMMA InitRecovery == Init => RecoveryInv
  <1> SUFFICES ASSUME Init PROVE RecoveryInv
    OBVIOUS
  <1>1. ScanInv
    BY InitScan
  <1>2. FileInv
    BY LogsAssumption, LogsAreWritten DEF Init, FileInv
  <1>3. here = 0 /\ block_start = 0 /\ call = "idle" /\ records = <<>> /\ Len(<<>>) = 0
    BY DEF Init, here
  <1>4. \A q \in 1..LastPlace : Ph(q).at \in Nat /\ Ph(q).at < Edge(q + 1) /\ Edge(q + 1) \in Nat
    BY <1>2, Order
  <1>5. SyncInv
    <2>1. 0 % BLOCK_SIZE = 0
      BY DividedIs, BlockAssumption DEF HEADER_SIZE
    <2>2. Synced
      BY <1>3, <1>4 DEF Synced
    <2> QED
      BY <1>3, <2>1, <2>2 DEF SyncInv, Aligned
  <1>6. GatherInv
    <2> SUFFICES ASSUME NEW q \in 1..LastPlace, ~Writer!Opens(Ph(q)), Under(q) PROVE FALSE
      BY DEF GatherInv
    <2>1. q - 1 \in 1..LastPlace /\ (q - 1) + 1 = q
      BY <1>2, Neighbours
    <2>2. Ph(q - 1).at \in Nat /\ Ph(q - 1).at < Edge(q) /\ Edge(q) \in Nat
      BY <1>4, <2>1
    <2>3. Edge(q) <= 0
      BY <1>3 DEF Under
    <2> QED
      BY <2>2, <2>3
  <1>7. ASSUME NEW c, Passed(c) PROVE FALSE
    <2>1. PICK q \in 1..LastPlace : Edge(q + 1) <= 0
      BY <1>3, <1>7 DEF Passed
    <2> QED
      BY <1>4, <2>1
  <1>8. Batches \in Nat /\ Sum(0) = 0
    BY <1>2, PartsFacts, SumFacts
  <1>9. ExactInv
    <2>1. PassedTo(0)
      <3>1. \A c \in 1..Batches : ~(c <= 0)
        BY <1>8
      <3> QED
        BY <1>7, <3>1 DEF PassedTo
    <2>2. AtBatch(0)
      BY <1>3, <1>8 DEF AtBatch
    <2>3. Matched
      BY <1>3 DEF Matched
    <2> QED
      BY <1>8, <2>1, <2>2, <2>3 DEF ExactInv
  <1>10. PlacesInv
    <2>1. PlacesOf([b \in 1..Batches |-> 0])
      BY <1>7 DEF PlacesOf, Gone
    <2> QED
      BY <2>1 DEF PlacesInv
  <1> QED
    BY <1>1, <1>2, <1>5, <1>6, <1>9, <1>10 DEF RecoveryInv

\* The next-state relation by what it does to the scan, and why a block is left.
LEMMA ScanKinds ==
    ASSUME [Next]_vars
    PROVE  \/ /\ Scanning /\ NextBlock
              /\ ~HeaderFits \/ ZeroHeader \/ data_end > block_len
           \/ PhysicalRecord
           \/ Batch
           \/ UNCHANGED vars
  BY DEF Next, EndOfBlock, Padding, LyingLength, PhysicalRecord, Finished

\* A step that leaves the scan alone leaves it in step and keeps what it gathered.
LEMMA ScanStays ==
    ASSUME UNCHANGED scanVars, SyncInv, GatherInv
    PROVE  SyncInv' /\ GatherInv'
  <1>1. file' = file /\ block_start' = block_start /\ here' = here
        /\ fragment' = fragment /\ in_record' = in_record
    BY DEF scanVars, here
  <1>2. /\ LastPlace' = LastPlace /\ (\A q : Ph(q)' = Ph(q)) /\ (\A q : Edge(q)' = Edge(q))
        /\ \A bl : HeadersStandIn(bl)' = HeadersStandIn(bl)
        /\ HeadersStand' = HeadersStand
    BY <1>1, SameFile
  <1>3. SyncInv'
    BY <1>1, <1>2 DEF SyncInv, Aligned, Standing, Synced
  <1>4. \A q : Under(q)' <=> Under(q)
    BY <1>1, <1>2 DEF Under
  <1>5. \A q : SoundBefore(q)' <=> SoundBefore(q)
    BY <1>1, <1>2 DEF SoundBefore
  <1>6. \A q : Trusted(q)' <=> Trusted(q)
    BY <1>2, <1>5 DEF Trusted
  <1>7. \A q : Gathered(q)' <=> Gathered(q)
    BY <1>1, <1>2 DEF Gathered
  <1>8. \A q : Continued(q)' <=> Continued(q)
    BY <1>1, <1>2, <1>5, <1>6, <1>7 DEF Continued
  <1>9. GatherInv'
    BY <1>2, <1>4, <1>8 DEF GatherInv
  <1> QED
    BY <1>3, <1>9

\* A step that changes nothing changes nothing of what the reader has.
LEMMA RecordsStay ==
    ASSUME FileInv, UNCHANGED vars, ExactInv, PlacesInv
    PROVE  ExactInv' /\ PlacesInv'
  <1>1. file' = file /\ here' = here /\ UNCHANGED batchVars
        /\ call' = call /\ batch' = batch /\ cur' = cur /\ op_index' = op_index /\ records' = records
    BY DEF vars, scanVars, batchVars, here
  <1>2. /\ Batches' = Batches
        /\ \A b : ClearOfDamage(b)' = ClearOfDamage(b)
        /\ \A b : Ops(b)' = Ops(b) /\ Payload(b)' = Payload(b)
        /\ \A b, k : OpEnd(b, k)' = OpEnd(b, k)
    BY <1>1, SameBatches
  <1>3. \A b : Passed(b)' <=> Passed(b)
    BY <1>1, SameFile DEF Passed
  <1>4. ExactInv'
    <2> SUFFICES ASSUME HeadersStand
                 PROVE  \E b \in 0..Batches' : PassedTo(b)' /\ AtBatch(b)' /\ Matched'
      BY <1>1, SameFile DEF ExactInv
    <2>1. PICK b \in 0..Batches : PassedTo(b) /\ AtBatch(b) /\ Matched
      BY DEF ExactInv
    <2>2. PassedTo(b)'
      BY <1>2, <1>3, <2>1 DEF PassedTo
    <2>3. AtBatch(b)' /\ Matched'
      BY <1>1, <2>1, ExactStays
    <2> QED
      BY <1>2, <2>2, <2>3
  <1>5. PlacesInv'
    <2>1. PICK place \in [1..Batches -> Nat] : PlacesOf(place)
      BY DEF PlacesInv
    <2>2. \A b : Gone(b)' <=> Gone(b)
      BY <1>2, <1>3 DEF Gone
    <2>3. \A b : Reading(b)' <=> Reading(b)
      BY <1>1, <1>2 DEF Reading, Held
    <2>4. \A b, n : PlacingAt(b, n)' <=> PlacingAt(b, n)
      BY <1>1, <1>2, <2>3 DEF PlacingAt, Content
    <2>5. PlacesOf(place)'
      BY <1>1, <2>1, <2>2, <2>4, PlacesStay
    <2> QED
      BY <1>2, <2>1, <2>5 DEF PlacesInv
  <1> QED
    BY <1>4, <1>5

\* Every step keeps the reader true to what was written.
LEMMA RecoveryStep ==
    ASSUME RecoveryInv, [Next]_vars
    PROVE  RecoveryInv'
  <1>1. ScanInv /\ FileInv /\ SyncInv /\ GatherInv /\ ExactInv /\ PlacesInv
    BY DEF RecoveryInv
  <1>2. ScanInv'
    BY <1>1, ScanStep
  <1>3. ASSUME Scanning, NextBlock, ~HeaderFits \/ ZeroHeader \/ data_end > block_len
        PROVE  FileInv' /\ SyncInv' /\ GatherInv' /\ ExactInv' /\ PlacesInv'
    <2>1. file' = file
      BY <1>3 DEF NextBlock
    <2> QED
      BY <1>1, <1>3, <2>1, SameFile, SyncNextBlock, GatherNextBlock, ExactNextBlock, PlacesNextBlock
  <1>4. ASSUME PhysicalRecord
        PROVE  FileInv' /\ SyncInv' /\ GatherInv' /\ ExactInv' /\ PlacesInv'
    <2>1. Physical
      BY <1>4 DEF PhysicalRecord, FullRecord, FirstFragment, MiddleFragment, LastFragment, UnknownType
    <2>2. file' = file
      BY <2>1 DEF Physical
    <2> QED
      BY <1>1, <1>4, <2>1, <2>2, SameFile, SyncPhysical, GatherPhysical, ExactPhysical, PlacesPhysical
  <1>5. ASSUME Batch
        PROVE  FileInv' /\ SyncInv' /\ GatherInv' /\ ExactInv' /\ PlacesInv'
    <2>1. UNCHANGED scanVars /\ file' = file
      BY <1>5 DEF Batch, scanVars
    <2> QED
      BY <1>1, <1>5, <2>1, SameFile, ScanStays, ExactBatch, PlacesBatch
  <1>6. ASSUME UNCHANGED vars
        PROVE  FileInv' /\ SyncInv' /\ GatherInv' /\ ExactInv' /\ PlacesInv'
    <2>1. UNCHANGED scanVars /\ file' = file
      BY <1>6 DEF vars, scanVars
    <2> QED
      BY <1>1, <1>6, <2>1, SameFile, ScanStays, RecordsStay
  <1> QED
    BY <1>2, <1>3, <1>4, <1>5, <1>6, ScanKinds DEF RecoveryInv

\* On every log that is written, however damaged, it always is.
LEMMA RecoveryAlways == Spec => []RecoveryInv
  <1>1. RecoveryInv /\ [Next]_vars => RecoveryInv'
    BY RecoveryStep
  <1> QED
    BY InitRecovery, <1>1, PTL DEF Spec

\* What the reader surfaces is a sequence of ops.
LEMMA SurfacedFacts ==
    ASSUME ScanInv
    PROVE  /\ Surfaced \in Seq(Op) /\ Len(Surfaced) = Len(records) /\ Len(records) \in Nat
           /\ \A n \in 1..Len(records) : Surfaced[n] = Content(records[n])
  <1>1. records \in Seq(Record)
    BY DEF ScanInv, TypeOK, BatchTypeOK
  <1>2. DOMAIN records = 1..Len(records) /\ Len(records) \in Nat
    BY <1>1, LenProperties
  <1>3. ASSUME NEW n \in 1..Len(records) PROVE Content(records[n]) \in Op
    <2>1. records[n] \in Record
      BY <1>1, <1>3, ElementOfSeq
    <2>2. /\ records[n].key \in Seq(Cell) /\ records[n].value \in Seq(Cell)
          /\ records[n].seq \in 0..MAX_SEQ /\ records[n].deleted \in BOOLEAN
      BY <2>1 DEF Record
    <2>3. Values(records[n].key) \in Seq(Nat) /\ Values(records[n].value) \in Seq(Nat)
      BY <2>2, ValuesProperties
    <2>4. records[n].seq \in Nat
      BY <2>2, BatchAssumption
    <2> QED
      BY <2>2, <2>3, <2>4 DEF Content, Op
  <1>4. Surfaced \in [1..Len(records) -> Op]
    BY <1>2, <1>3 DEF Surfaced
  <1>5. Surfaced \in Seq(Op)
    BY <1>2, <1>4, SeqDef
  <1>6. DOMAIN Surfaced = 1..Len(records)
    BY <1>4
  <1> QED
    BY <1>2, <1>5, <1>6, LenProperties DEF Surfaced
\* While the headers stand the reader surfaces the records of the intact batches,
\* in the order they were written, nothing else, and all of them when it returns
\* (lib.rs:104-106, log.rs:42-45 and 100-102), whatever else is torn or damaged.
THEOREM RecoversExactly == Spec => []ExactRecovery
  <1>1. ASSUME RecoveryInv PROVE ExactRecovery
    <2> SUFFICES ASSUME HeadersStand
                 PROVE  IsPrefix(Surfaced, IntactRecords) /\ (Done => Surfaced = IntactRecords)
      BY DEF ExactRecovery
    <2>1. ScanInv /\ FileInv /\ ExactInv
      BY <1>1 DEF RecoveryInv
    <2>2. PICK b \in 0..Batches : PassedTo(b) /\ AtBatch(b) /\ Matched
      BY <2>1 DEF ExactInv
    <2>3. /\ IntactRecords \in Seq(Op) /\ Len(IntactRecords) \in Nat
          /\ \A c \in 0..Batches : Sum(c) \in Nat
          /\ \A c \in 1..Batches : Adds(c)
          /\ Sum(Batches) = Len(IntactRecords) /\ Batches \in Nat
      BY <2>1, SumFacts, PartsFacts
    <2>4. /\ Surfaced \in Seq(Op) /\ Len(Surfaced) = Len(records) /\ Len(records) \in Nat
          /\ \A n \in 1..Len(records) : Surfaced[n] = Content(records[n])
      BY <2>1, SurfacedFacts
    <2>5. Len(records) <= Len(IntactRecords)
      <3>1. CASE call = "idle"
        <4>1. b = 0 \/ b \in 1..Batches
          BY <2>3
        <4>2. b \in 1..Batches => Sum(b) <= Len(IntactRecords)
          BY <2>3 DEF Adds
        <4>3. Sum(0) = 0
          BY <2>1, SumFacts
        <4> QED
          BY <2>2, <2>3, <3>1, <4>1, <4>2, <4>3 DEF AtBatch
      <3>2. CASE call # "idle"
        <4>1. b \in 1..Batches /\ Intact(b) /\ Reading(b) /\ Len(records) = Sum(b - 1) + op_index
          BY <2>2, <3>2 DEF AtBatch
        <4>2. Sum(b - 1) \in Nat /\ Sum(b) <= Len(IntactRecords) /\ Sum(b) = Sum(b - 1) + Len(Ops(b))
          BY <2>3, <4>1 DEF Adds
        <4>3. op_index \in 0..Len(Ops(b)) /\ Len(Ops(b)) \in Nat
          BY <2>1, <4>1, WrittenFacts DEF Reading, Batches
        <4> QED
          BY <2>3, <4>1, <4>2, <4>3
      <3> QED
        BY <3>1, <3>2
    <2>6. \A k \in 1..Len(Surfaced) : Surfaced[k] = IntactRecords[k]
      BY <2>2, <2>4 DEF Matched
    <2>7. IsPrefix(Surfaced, IntactRecords)
      BY <2>3, <2>4, <2>5, <2>6, StartsWith
    <2>8. ASSUME Done PROVE Surfaced = IntactRecords
      <3>1. \A c \in b + 1..Batches : ~Intact(c)
        <4> SUFFICES ASSUME NEW c \in b + 1..Batches, Intact(c) PROVE FALSE
          OBVIOUS
        <4>1. c \in 1..Batches /\ ~(c <= b)
          BY <2>3
        <4>2. Passed(c)
          BY <2>1, <2>8, <4>1, DonePassed
        <4> QED
          BY <2>2, <4>1, <4>2 DEF PassedTo
      <3>2. Sum(b) = Len(IntactRecords)
        BY <2>1, <3>1, NothingLeft
      <3>3. Len(Surfaced) = Len(IntactRecords)
        BY <2>2, <2>4, <2>8, <3>2 DEF AtBatch, Done
      <3> QED
        BY <2>3, <2>4, <2>6, <3>3, SeqEqual
    <2> QED
      BY <2>7, <2>8
  <1> QED
    BY <1>1, RecoveryAlways, PTL

\* However a block is damaged, every batch whose bytes hold, and with them the
\* headers in the blocks it lies in, is surfaced in full and after the ones of that
\* kind before it (log.rs:110-113 and 178: every block is scanned from its start).
THEOREM DamageIsContained == Spec => []DamageStaysInItsBlocks
  <1>1. ASSUME RecoveryInv PROVE DamageStaysInItsBlocks
    <2> SUFFICES ASSUME Done
                 PROVE  \E place \in [DOMAIN file.written -> 0..Len(records)] :
                           LET end(b) == place[b] + Len(file.written[b].ops)
                           IN  \A b \in DOMAIN file.written : ClearOfDamage(b) =>
                                  /\ end(b) <= Len(records)
                                  /\ SubSeq(Surfaced, place[b] + 1, end(b)) = file.written[b].ops
                                  /\ \A c \in 1..b - 1 : ClearOfDamage(c) => end(c) <= place[b]
      BY DEF DamageStaysInItsBlocks
    <2>1. ScanInv /\ FileInv /\ PlacesInv
      BY <1>1 DEF RecoveryInv
    <2>2. PICK at \in [1..Batches -> Nat] : PlacesOf(at)
      BY <2>1 DEF PlacesInv
    <2>3. DOMAIN file.written = 1..Batches /\ Batches \in Nat
      BY <2>1, PartsFacts, LenProperties DEF FileInv, Writer!IsLog, Batches
    <2>4. /\ Surfaced \in Seq(Op) /\ Len(Surfaced) = Len(records) /\ Len(records) \in Nat
          /\ \A n \in 1..Len(records) : Surfaced[n] = Content(records[n])
      BY <2>1, SurfacedFacts
    <2>5. ASSUME NEW b \in 1..Batches, ClearOfDamage(b)
          PROVE  /\ PlacedAt(b, at[b])
                 /\ \A c \in 1..b - 1 : ClearOfDamage(c) => at[c] + Len(Ops(c)) <= at[b]
      <3>1. \A c \in 1..Batches : ClearOfDamage(c) => Gone(c)
        BY <2>1, DonePassed DEF Gone, ClearOfDamage
      <3>2. \A c \in 1..b - 1 : c \in 1..Batches
        BY <2>3
      <3>3. call = "idle"
        BY DEF Done
      <3> QED
        BY <2>2, <2>5, <3>1, <3>2, <3>3, NonePlacing DEF PlacesOf
    <2>6. ASSUME NEW b \in 1..Batches, ClearOfDamage(b)
          PROVE  /\ at[b] \in 0..Len(records) /\ at[b] + Len(Ops(b)) <= Len(records)
                 /\ SubSeq(Surfaced, at[b] + 1, at[b] + Len(Ops(b))) = Ops(b)
      <3>1. at[b] + Len(Ops(b)) <= Len(records)
            /\ \A i \in 1..Len(Ops(b)) : Content(records[at[b] + i]) = Ops(b)[i]
        BY <2>5, <2>6 DEF PlacedAt
      <3>2. Ops(b) \in Seq(Op) /\ Len(Ops(b)) \in Nat /\ at[b] \in Nat
        BY <2>1, <2>2, WrittenFacts DEF Batches
      <3>3. \A i \in 1..Len(Ops(b)) : at[b] + i \in 1..Len(records)
        BY <2>4, <3>1, <3>2
      <3>4. \A i \in 1..Len(Ops(b)) : Surfaced[at[b] + i] = Ops(b)[i]
        BY <2>4, <3>1, <3>3
      <3>5. SubSeq(Surfaced, at[b] + 1, at[b] + Len(Ops(b))) = Ops(b)
        BY <2>4, <3>1, <3>2, <3>4, PartIs
      <3> QED
        BY <2>4, <3>1, <3>2, <3>5
    <2>7. PICK place : place = [b \in 1..Batches |-> IF ClearOfDamage(b) THEN at[b] ELSE 0]
      OBVIOUS
    <2>8. place \in [DOMAIN file.written -> 0..Len(records)]
      BY <2>3, <2>4, <2>6, <2>7
    <2>9. \A b \in 1..Batches : ClearOfDamage(b) => place[b] = at[b]
      BY <2>7
    <2>10. ASSUME NEW b \in 1..Batches, ClearOfDamage(b)
           PROVE  /\ place[b] + Len(Ops(b)) <= Len(records)
                  /\ SubSeq(Surfaced, place[b] + 1, place[b] + Len(Ops(b))) = Ops(b)
                  /\ \A c \in 1..b - 1 : ClearOfDamage(c) => place[c] + Len(Ops(c)) <= place[b]
      <3>1. \A c \in 1..b - 1 : c \in 1..Batches
        BY <2>3
      <3> QED
        BY <2>5, <2>6, <2>9, <2>10, <3>1
    <2> QED
      BY <2>3, <2>8, <2>10 DEF Ops
  <1> QED
    BY <1>1, RecoveryAlways, PTL
=============================================================================
