--------------------------- MODULE SequenceLemmas ---------------------------
(***************************************************************************)
(* Facts about natural numbers and sequences that the proofs about several *)
(* modules need: least numbers and induction, stated of sets so that a     *)
(* prover can use them, and FlattenSeq, one sequence at a time.            *)
(***************************************************************************)
EXTENDS Integers, Sequences, SequencesExt, SequenceTheorems, WellFoundedInduction, TLAPS

\* Every set of natural numbers that is not empty has a least element.
LEMMA LeastNat ==
    ASSUME NEW S, S \subseteq Nat, S # {}
    PROVE  \E m \in S : \A n \in S : m <= n
  <1> DEFINE Less == {ss \in Nat \X Nat : ss[1] < ss[2]}
  <1>1. IsWellFoundedOn(Less, Nat)
    BY NatLessThanWellFounded DEF OpToRel
  <1>2. PICK m \in S : \A n \in S : <<n, m>> \notin Less
    BY <1>1, WFMin
  <1>3. \A n \in S : ~(n < m)
    BY <1>2
  <1> QED
    BY <1>2, <1>3

\* Induction: a set that holds zero and the successor of each of its numbers
\* holds all of them.
LEMMA InductionOnSet ==
    ASSUME NEW S, 0 \in S, \A n \in Nat : n \in S => n + 1 \in S
    PROVE  Nat \subseteq S
  <1> SUFFICES ASSUME Nat \ S # {}
               PROVE  FALSE
    OBVIOUS
  <1>1. PICK m \in Nat \ S : \A n \in Nat \ S : m <= n
    BY LeastNat
  <1>2. m - 1 \in Nat /\ m - 1 \notin Nat \ S
    BY <1>1
  <1> QED
    BY <1>1, <1>2

-----------------------------------------------------------------------------
(* Parts of sequences.                                                     *)

\* A part of a sequence is a sequence over the same set.
LEMMA PartType ==
    ASSUME NEW X, NEW s \in Seq(X), NEW m \in Nat \ {0}, NEW n \in Int, n <= Len(s)
    PROVE  SubSeq(s, m, n) \in Seq(X)
  <1>1. \A i \in m..n : s[i] \in X
    BY ElementOfSeq
  <1> QED
    BY <1>1, SubSeqProperties

\* The part at one place.
LEMMA PartOfOne ==
    ASSUME NEW X, NEW s \in Seq(X), NEW d \in 1..Len(s)
    PROVE  SubSeq(s, d, d) = <<s[d]>>
  <1>1. s[d] \in X /\ \A i \in d..d : s[i] \in X
    OBVIOUS
  <1>2. /\ SubSeq(s, d, d) \in Seq(X)
        /\ Len(SubSeq(s, d, d)) = 1
        /\ SubSeq(s, d, d)[1] = s[d]
    BY <1>1, SubSeqProperties
  <1>3. <<s[d]>> \in Seq(X) /\ Len(<<s[d]>>) = 1 /\ <<s[d]>>[1] = s[d]
    BY <1>1
  <1>4. \A i \in 1..1 : SubSeq(s, d, d)[i] = <<s[d]>>[i]
    BY <1>2, <1>3
  <1> QED
    BY <1>2, <1>3, <1>4, SeqEqual

\* What Append leaves and what it adds.
LEMMA AppendFacts ==
    ASSUME NEW X, NEW s \in Seq(X), NEW e
    PROVE  /\ Append(s, e) \in Seq(X \cup {e})
           /\ DOMAIN s = 1..Len(s) /\ Len(s) \in Nat
           /\ DOMAIN Append(s, e) = 1..Len(s) + 1 /\ Len(Append(s, e)) = Len(s) + 1
           /\ \A k \in 1..Len(s) : Append(s, e)[k] = s[k]
           /\ Append(s, e)[Len(s) + 1] = e
  <1>1. s \in Seq(X \cup {e})
    BY SeqMonotonic
  <1>2. e \in X \cup {e}
    OBVIOUS
  <1>3. /\ Append(s, e) \in Seq(X \cup {e})
        /\ Len(Append(s, e)) = Len(s) + 1
        /\ \A k \in 1..Len(s) : Append(s, e)[k] = s[k]
        /\ Append(s, e)[Len(s) + 1] = e
    BY <1>1, <1>2, AppendProperties
  <1> QED
    BY <1>1, <1>3, LenProperties

\* Two sequences, one after the other: where their elements are.
LEMMA ConcatFacts ==
    ASSUME NEW X, NEW s \in Seq(X), NEW t \in Seq(X)
    PROVE  /\ s \o t \in Seq(X)
           /\ Len(s \o t) = Len(s) + Len(t) /\ Len(s) \in Nat /\ Len(t) \in Nat
           /\ \A k \in 1..Len(s) : (s \o t)[k] = s[k]
           /\ \A k \in 1..Len(t) : (s \o t)[Len(s) + k] = t[k]
  <1>1. Len(s) \in Nat /\ Len(t) \in Nat
    BY LenProperties
  <1>2. /\ s \o t \in Seq(X)
        /\ Len(s \o t) = Len(s) + Len(t)
        /\ \A i \in 1..Len(s) + Len(t) :
               (s \o t)[i] = IF i <= Len(s) THEN s[i] ELSE t[i - Len(s)]
    BY ConcatProperties
  <1>3. ASSUME NEW k \in 1..Len(t)
        PROVE  (s \o t)[Len(s) + k] = t[k]
    <2>1. Len(s) + k \in 1..Len(s) + Len(t) /\ ~(Len(s) + k <= Len(s))
          /\ (Len(s) + k) - Len(s) = k
      BY <1>1
    <2> QED
      BY <1>2, <2>1
  <1>4. ASSUME NEW k \in 1..Len(s)
        PROVE  (s \o t)[k] = s[k]
    <2>1. k \in 1..Len(s) + Len(t) /\ k <= Len(s)
      BY <1>1
    <2> QED
      BY <1>2, <2>1
  <1> QED
    BY <1>1, <1>2, <1>3, <1>4

\* A part of a sequence that has the elements of another is that other.
LEMMA PartIs ==
    ASSUME NEW X, NEW s \in Seq(X), NEW t \in Seq(X), NEW m \in Nat, m + Len(t) <= Len(s),
           \A k \in 1..Len(t) : s[m + k] = t[k]
    PROVE  SubSeq(s, m + 1, m + Len(t)) = t
  <1>1. Len(t) \in Nat /\ Len(s) \in Nat
    OBVIOUS
  <1>2. \A i \in m + 1..m + Len(t) : s[i] \in X
    BY <1>1, ElementOfSeq
  <1> DEFINE u == SubSeq(s, m + 1, m + Len(t))
  <1>3. /\ u \in Seq(X)
        /\ Len(u) = IF m + 1 <= m + Len(t) THEN m + Len(t) - (m + 1) + 1 ELSE 0
        /\ \A i \in 1..m + Len(t) - (m + 1) + 1 : u[i] = s[m + 1 + i - 1]
    BY <1>1, <1>2, SubSeqProperties
  <1>4. Len(u) = Len(t)
    BY <1>1, <1>3
  <1>5. ASSUME NEW i \in 1..Len(u)
        PROVE  u[i] = t[i]
    <2>1. i \in 1..m + Len(t) - (m + 1) + 1 /\ m + 1 + i - 1 = m + i /\ i \in 1..Len(t)
      BY <1>1, <1>4
    <2> QED
      BY <1>3, <2>1
  <1> HIDE DEF u
  <1>6. u = t
    BY <1>3, <1>4, <1>5, SeqEqual
  <1> QED
    BY <1>6 DEF u

\* A sequence that has the elements of another first starts with it.
LEMMA StartsWith ==
    ASSUME NEW X, NEW s \in Seq(X), NEW t \in Seq(X), Len(t) <= Len(s),
           \A k \in 1..Len(t) : s[k] = t[k]
    PROVE  IsPrefix(t, s)
  <1>1. Len(t) \in Nat
    OBVIOUS
  <1>2. 0 \in Nat /\ 0 + Len(t) <= Len(s) /\ \A k \in 1..Len(t) : s[0 + k] = t[k]
    BY <1>1
  <1>3. SubSeq(s, 0 + 1, 0 + Len(t)) = t
    BY <1>2, PartIs
  <1>4. 0 + 1 = 1 /\ 0 + Len(t) = Len(t)
    BY <1>1
  <1>5. SubSeq(t, 1, Len(t)) = t
    BY SubSeqFull
  <1>6. SubSeq(s, 1, Len(t)) = t
    BY <1>3, <1>4
  <1> QED
    BY <1>5, <1>6 DEF IsPrefix

\* A text over X made of a prefix, a part, a separator and the rest, with the
\* places they have in it.
IsJoined(X, j, p, g, d, h) ==
    /\ j \in Seq(X) /\ Len(p) \in Nat /\ Len(g) \in Nat /\ Len(h) \in Nat
    /\ Len(j) = Len(p) + Len(g) + 1 + Len(h)
    /\ \A k \in 1..Len(p) : j[k] = p[k]
    /\ \A k \in 1..Len(g) : j[Len(p) + k] = g[k]
    /\ j[Len(p) + Len(g) + 1] = d
    /\ SubSeq(j, Len(p) + 1, Len(p) + Len(g)) = g
    /\ SubSeq(j, Len(p) + Len(g) + 2, Len(j)) = h

\* Put together, they are such a text.
LEMMA JoinFacts ==
    ASSUME NEW X, NEW p \in Seq(X), NEW g \in Seq(X), NEW d \in X, NEW h \in Seq(X)
    PROVE  IsJoined(X, p \o g \o <<d>> \o h, p, g, d, h)
  <1> DEFINE j == p \o g \o <<d>> \o h
  <1> DEFINE a == p \o g
             b == a \o <<d>>
  <1>1. <<d>> \in Seq(X) /\ Len(<<d>>) = 1 /\ <<d>>[1] = d
    OBVIOUS
  <1>2. /\ a \in Seq(X) /\ Len(a) = Len(p) + Len(g) /\ Len(p) \in Nat /\ Len(g) \in Nat
        /\ \A k \in 1..Len(p) : a[k] = p[k]
        /\ \A k \in 1..Len(g) : a[Len(p) + k] = g[k]
    BY ConcatFacts
  <1> HIDE DEF a
  <1>3. /\ b \in Seq(X) /\ Len(b) = Len(a) + Len(<<d>>)
        /\ \A k \in 1..Len(a) : b[k] = a[k]
        /\ \A k \in 1..Len(<<d>>) : b[Len(a) + k] = <<d>>[k]
    <2>1. a \in Seq(X) /\ <<d>> \in Seq(X)
      BY <1>1, <1>2
    <2> QED
      BY <2>1, ConcatFacts
  <1>4. Len(b) = Len(p) + Len(g) + 1 /\ b[Len(p) + Len(g) + 1] = d
    <2>1. 1 \in 1..Len(<<d>>)
      BY <1>1
    <2>2. b[Len(a) + 1] = d
      BY <1>1, <1>3, <2>1
    <2>3. Len(b) = Len(a) + 1
      BY <1>1, <1>3
    <2> QED
      BY <1>2, <2>2, <2>3
  <1>5. j = b \o h
    BY DEF a
  <1> HIDE DEF b, j
  <1>6. /\ j \in Seq(X) /\ Len(j) = Len(b) + Len(h) /\ Len(h) \in Nat
        /\ \A k \in 1..Len(b) : j[k] = b[k]
        /\ \A k \in 1..Len(h) : j[Len(b) + k] = h[k]
    <2>2. b \in Seq(X)
      BY <1>3
    <2>1. /\ b \o h \in Seq(X) /\ Len(b \o h) = Len(b) + Len(h) /\ Len(h) \in Nat
          /\ \A k \in 1..Len(b) : (b \o h)[k] = b[k]
          /\ \A k \in 1..Len(h) : (b \o h)[Len(b) + k] = h[k]
      BY <2>2, ConcatFacts
    <2> QED
      BY <1>5, <2>1
  <1>7. ASSUME NEW k \in 1..Len(p)
        PROVE  j[k] = p[k]
    <2>1. k \in 1..Len(a) /\ k \in 1..Len(b)
      BY <1>2, <1>4
    <2> QED
      BY <1>2, <1>3, <1>6, <2>1
  <1>8. ASSUME NEW k \in 1..Len(g)
        PROVE  j[Len(p) + k] = g[k]
    <2>1. Len(p) + k \in 1..Len(a) /\ Len(p) + k \in 1..Len(b)
      BY <1>2, <1>4
    <2> QED
      BY <1>2, <1>3, <1>6, <2>1
  <1>9. j[Len(p) + Len(g) + 1] = d
    <2>1. Len(p) + Len(g) + 1 \in 1..Len(b)
      BY <1>2, <1>4
    <2> QED
      BY <1>4, <1>6, <2>1
  <1>10. SubSeq(j, Len(p) + 1, Len(p) + Len(g)) = g
    <2>1. Len(p) + Len(g) <= Len(j)
      BY <1>2, <1>4, <1>6
    <2> QED
      BY <1>2, <1>6, <1>8, <2>1, PartIs
  <1>11. SubSeq(j, Len(p) + Len(g) + 2, Len(j)) = h
    <2>1. Len(b) \in Nat /\ Len(b) + Len(h) <= Len(j) /\ Len(b) + 1 = Len(p) + Len(g) + 2
          /\ Len(b) + Len(h) = Len(j)
      BY <1>2, <1>4, <1>6
    <2>2. SubSeq(j, Len(b) + 1, Len(b) + Len(h)) = h
      BY <1>6, <2>1, PartIs
    <2> QED
      BY <2>1, <2>2
  <1> QED
    BY <1>2, <1>4, <1>6, <1>7, <1>8, <1>9, <1>10, <1>11 DEF j, IsJoined

-----------------------------------------------------------------------------
(* FlattenSeq.                                                             *)

\* What is flattened of s after each of its elements.
Flattens(s, f) == /\ DOMAIN f = 0..Len(s)
                  /\ f[0] = <<>>
                  /\ \A i \in 1..Len(s) : f[i] = f[i - 1] \o s[i]

\* The recursive function in FlattenSeq, up to n.
Partial(s, n, f) == f = [i \in 1..n |-> IF i = 1 THEN s[i] ELSE f[i - 1] \o s[i]]

\* What the recursive equation says of one element.
LEMMA PartialAt ==
    ASSUME NEW s, NEW n \in Nat, NEW f, Partial(s, n, f), NEW i \in 1..n
    PROVE  /\ i = 1 => f[i] = s[i]
           /\ i # 1 => f[i] = f[i - 1] \o s[i]
  <1> DEFINE e == [j \in 1..n |-> IF j = 1 THEN s[j] ELSE f[j - 1] \o s[j]]
  <1>1. e[i] = IF i = 1 THEN s[i] ELSE f[i - 1] \o s[i]
    OBVIOUS
  <1>2. f = e
    BY DEF Partial
  <1> HIDE DEF e
  <1> QED
    BY <1>1, <1>2

\* The n up to which there is such a function.
Defined(X, s) == {n \in Nat : n <= Len(s) => \E f \in [1..n -> Seq(X)] : Partial(s, n, f)}

\* The recursive function exists one element further.
LEMMA PartialStep ==
    ASSUME NEW X, NEW s \in Seq(Seq(X)), NEW n \in Nat, n + 1 <= Len(s),
           NEW f \in [1..n -> Seq(X)], Partial(s, n, f)
    PROVE  \E g \in [1..n + 1 -> Seq(X)] : Partial(s, n + 1, g)
  <1> DEFINE last == IF n = 0 THEN s[1] ELSE f[n] \o s[n + 1]
             g    == [i \in 1..n + 1 |-> IF i <= n THEN f[i] ELSE last]
  <1>1. last \in Seq(X)
    <2>1. s[1] \in Seq(X) /\ s[n + 1] \in Seq(X)
      OBVIOUS
    <2> QED
      BY <2>1
  <1>2. g \in [1..n + 1 -> Seq(X)]
    BY <1>1
  <1>3. ASSUME NEW i \in 1..n + 1
        PROVE  g[i] = IF i = 1 THEN s[i] ELSE g[i - 1] \o s[i]
    <2>1. CASE i <= n
      <3>0. i \in 1..n
        BY <2>1
      <3>1. /\ i = 1 => f[i] = s[i]
            /\ i # 1 => f[i] = f[i - 1] \o s[i]
        BY <3>0, PartialAt, Zenon
      <3>2. g[i] = f[i] /\ (i # 1 => g[i - 1] = f[i - 1])
        BY <2>1
      <3> QED
        BY <3>1, <3>2
    <2>2. CASE i = n + 1
      <3>1. g[i] = last /\ (i # 1 => g[i - 1] = f[i - 1])
        BY <2>2
      <3> QED
        BY <2>2, <3>1
    <2> QED
      BY <2>1, <2>2
  <1>4. g = [i \in 1..n + 1 |-> g[i]]
    OBVIOUS
  <1> HIDE DEF g
  <1>5. g = [i \in 1..n + 1 |-> IF i = 1 THEN s[i] ELSE g[i - 1] \o s[i]]
    BY <1>3, <1>4
  <1> QED
    BY <1>2, <1>5 DEF Partial

\* It exists for the whole sequence.
LEMMA PartialExists ==
    ASSUME NEW X, NEW s \in Seq(Seq(X))
    PROVE  \E f \in [1..Len(s) -> Seq(X)] : Partial(s, Len(s), f)
  <1>1. 0 \in Defined(X, s)
    <2> DEFINE f == [i \in 1..0 |-> IF i = 1 THEN s[i] ELSE <<>>]
    <2>1. f \in [1..0 -> Seq(X)] /\ Partial(s, 0, f)
      BY DEF Partial
    <2> QED
      BY <2>1 DEF Defined
  <1>2. ASSUME NEW n \in Nat, n \in Defined(X, s)
        PROVE  n + 1 \in Defined(X, s)
    <2> SUFFICES ASSUME n + 1 <= Len(s)
                 PROVE  \E f \in [1..n + 1 -> Seq(X)] : Partial(s, n + 1, f)
      BY DEF Defined
    <2>1. PICK f \in [1..n -> Seq(X)] : Partial(s, n, f)
      BY <1>2 DEF Defined
    <2> QED
      BY <2>1, PartialStep
  <1>3. Len(s) \in Defined(X, s)
    BY <1>1, <1>2, InductionOnSet
  <1> QED
    BY <1>3 DEF Defined

\* A function that satisfies the recursive equation yields sequences.
LEMMA PartialType ==
    ASSUME NEW X, NEW s \in Seq(Seq(X)), NEW f, Partial(s, Len(s), f)
    PROVE  f \in [1..Len(s) -> Seq(X)]
  <1> DEFINE Typed == {n \in Nat : n \in 1..Len(s) => f[n] \in Seq(X)}
  <1>2. 0 \in Typed
    OBVIOUS
  <1>3. ASSUME NEW n \in Nat, n \in Typed
        PROVE  n + 1 \in Typed
    <2> SUFFICES ASSUME n + 1 \in 1..Len(s)
                 PROVE  f[n + 1] \in Seq(X)
      OBVIOUS
    <2>1. s[n + 1] \in Seq(X) /\ Len(s) \in Nat
      OBVIOUS
    <2>4. /\ n + 1 = 1 => f[n + 1] = s[n + 1]
          /\ n + 1 # 1 => f[n + 1] = f[(n + 1) - 1] \o s[n + 1]
      BY <2>1, PartialAt, Zenon
    <2>2. CASE n = 0
      BY <2>1, <2>2, <2>4
    <2>3. CASE n # 0
      <3>1. f[n] \in Seq(X)
        BY <2>3, <1>3
      <3>2. f[n + 1] = f[(n + 1) - 1] \o s[n + 1]
        <4>1. n + 1 # 1
          BY <2>3
        <4> QED
          BY <2>4, <4>1, Zenon
      <3>3. (n + 1) - 1 = n
        OBVIOUS
      <3> QED
        BY <2>1, <3>1, <3>2, <3>3
    <2> QED
      BY <2>2, <2>3
  <1> HIDE DEF Typed
  <1>4. Nat \subseteq Typed
    BY <1>2, <1>3, InductionOnSet
  <1>5. \A i \in 1..Len(s) : f[i] \in Seq(X)
    BY <1>4 DEF Typed
  <1>6. f = [i \in 1..Len(s) |-> f[i]]
    BY DEF Partial
  <1> QED
    BY <1>5, <1>6

\* FlattenSeq(s) is what there is after the last element.
LEMMA FlattenSteps ==
    ASSUME NEW X, NEW s \in Seq(Seq(X))
    PROVE  \E f \in [0..Len(s) -> Seq(X)] : Flattens(s, f) /\ FlattenSeq(s) = f[Len(s)]
  <1>1. CASE Len(s) = 0
    <2> DEFINE f == [i \in 0..Len(s) |-> <<>>]
    <2>1. FlattenSeq(s) = <<>>
      BY <1>1 DEF FlattenSeq
    <2>2. f \in [0..Len(s) -> Seq(X)] /\ Flattens(s, f) /\ f[Len(s)] = <<>>
      BY <1>1 DEF Flattens
    <2> QED
      BY <2>1, <2>2
  <1>2. CASE Len(s) # 0
    <2> DEFINE c == CHOOSE f : Partial(s, Len(s), f)
               h == [i \in 0..Len(s) |-> IF i = 0 THEN <<>> ELSE c[i]]
    <2>1. Partial(s, Len(s), c)
      BY PartialExists
    <2>2. FlattenSeq(s) = c[Len(s)]
      BY <1>2 DEF FlattenSeq, Partial
    <2> HIDE DEF c
    <2>3. c \in [1..Len(s) -> Seq(X)]
      BY <2>1, PartialType
    <2>4. h \in [0..Len(s) -> Seq(X)]
      BY <2>3
    <2>5. ASSUME NEW i \in 1..Len(s)
          PROVE  h[i] = h[i - 1] \o s[i]
      <3>0. Len(s) \in Nat
        OBVIOUS
      <3>1. /\ i = 1 => c[i] = s[i]
            /\ i # 1 => c[i] = c[i - 1] \o s[i]
        BY <2>1, <3>0, PartialAt, Zenon
      <3>2. s[i] \in Seq(X)
        OBVIOUS
      <3>3. CASE i = 1
        <4>1. h[i] = s[i] /\ h[i - 1] = <<>>
          BY <3>1, <3>3
        <4>2. <<>> \o s[i] = s[i]
          BY <3>2
        <4> QED
          BY <4>1, <4>2
      <3>4. CASE i # 1
        <4>1. i \in 0..Len(s) /\ i - 1 \in 0..Len(s) /\ i # 0 /\ i - 1 # 0
          BY <3>4
        <4>2. h[i] = c[i] /\ h[i - 1] = c[i - 1]
          BY <4>1
        <4> QED
          BY <3>1, <3>4, <4>2
      <3> QED
        BY <3>3, <3>4
    <2>6. DOMAIN h = 0..Len(s) /\ h[0] = <<>>
      OBVIOUS
    <2>7. h[Len(s)] = FlattenSeq(s)
      BY <1>2, <2>2
    <2> HIDE DEF h
    <2>8. Flattens(s, h)
      BY <2>5, <2>6 DEF Flattens
    <2> QED
      BY <2>4, <2>7, <2>8
  <1> QED
    BY <1>1, <1>2
\* Where one sequence starts another, so do the steps.
LEMMA SameSteps ==
    ASSUME NEW s, NEW t, NEW f, NEW g, Len(s) \in Nat, Len(t) \in Nat, Len(s) <= Len(t),
           Flattens(s, f), Flattens(t, g), \A i \in 1..Len(s) : s[i] = t[i]
    PROVE  f[Len(s)] = g[Len(s)]
  <1> DEFINE n == Len(s)
             Same == {k \in Nat : k <= n => f[k] = g[k]}
  <1>1. 0 \in Same
    BY DEF Flattens
  <1>2. ASSUME NEW k \in Nat, k \in Same
        PROVE  k + 1 \in Same
    <2> SUFFICES ASSUME k + 1 <= n
                 PROVE  f[k + 1] = g[k + 1]
      OBVIOUS
    <2>1. k + 1 \in 1..n /\ k + 1 \in 1..Len(s) /\ k + 1 \in 1..Len(t) /\ (k + 1) - 1 = k
      OBVIOUS
    <2>2. f[k + 1] = f[(k + 1) - 1] \o s[k + 1] /\ g[k + 1] = g[(k + 1) - 1] \o t[k + 1]
      BY <2>1, Zenon DEF Flattens
    <2>3. f[k] = g[k]
      BY <1>2, <2>1
    <2> QED
      BY <2>1, <2>2, <2>3
  <1> HIDE DEF Same
  <1>3. n \in Same
    BY <1>1, <1>2, InductionOnSet
  <1> QED
    BY <1>3 DEF Same

\* Flattening sequences over a set gives a sequence over it.
LEMMA FlattenType ==
    ASSUME NEW X, NEW s \in Seq(Seq(X))
    PROVE  FlattenSeq(s) \in Seq(X)
  <1>1. Len(s) \in 0..Len(s)
    OBVIOUS
  <1> QED
    BY <1>1, FlattenSteps

\* There is nothing in an empty sequence.
LEMMA FlattenEmpty == FlattenSeq(<<>>) = <<>>
  BY DEF FlattenSeq

\* One sequence more goes to the end.
LEMMA FlattenAppend ==
    ASSUME NEW X, NEW s \in Seq(Seq(X)), NEW x \in Seq(X)
    PROVE  FlattenSeq(Append(s, x)) = FlattenSeq(s) \o x
  <1> DEFINE t == Append(s, x)
             n == Len(s)
  <1>1. t \in Seq(Seq(X)) /\ Len(t) = n + 1 /\ n \in Nat /\ t[n + 1] = x
        /\ \A i \in 1..n : s[i] = t[i]
    OBVIOUS
  <1> HIDE DEF t
  <1>2. PICK f \in [0..Len(s) -> Seq(X)] : Flattens(s, f) /\ FlattenSeq(s) = f[Len(s)]
    BY FlattenSteps
  <1>3. PICK g \in [0..Len(t) -> Seq(X)] : Flattens(t, g) /\ FlattenSeq(t) = g[Len(t)]
    BY <1>1, FlattenSteps
  <1>4. f[n] = g[n]
    <2>1. Len(s) \in Nat /\ Len(t) \in Nat /\ Len(s) <= Len(t) /\ \A i \in 1..Len(s) : s[i] = t[i]
      BY <1>1
    <2>2. Flattens(s, f) /\ Flattens(t, g)
      BY <1>2, <1>3
    <2> QED
      BY <2>1, <2>2, SameSteps
  <1>5. g[n + 1] = g[n] \o x
    <2>1. n + 1 \in 1..Len(t) /\ (n + 1) - 1 = n
      BY <1>1
    <2>2. g[n + 1] = g[(n + 1) - 1] \o t[n + 1]
      BY <1>3, <2>1, Zenon DEF Flattens
    <2> QED
      BY <1>1, <2>1, <2>2
  <1> QED
    BY <1>1, <1>2, <1>3, <1>4, <1>5 DEF t

\* A sequence cut into its elements is put together again.
LEMMA FlattenOnes ==
    ASSUME NEW X, NEW s \in Seq(X)
    PROVE  FlattenSeq([k \in DOMAIN s |-> <<s[k]>>]) = s
  <1> DEFINE cs == [k \in DOMAIN s |-> <<s[k]>>]
             n  == Len(s)
  <1>1. cs \in Seq(Seq(X)) /\ Len(cs) = n /\ n \in Nat
    <2>1. n \in Nat /\ DOMAIN s = 1..n /\ \A k \in 1..n : <<s[k]>> \in Seq(X)
      OBVIOUS
    <2>2. cs \in [1..n -> Seq(X)]
      BY <2>1
    <2> HIDE DEF cs
    <2> QED
      BY <2>1, <2>2
  <1>2. \A k \in 1..n : cs[k] = <<s[k]>> /\ s[k] \in X
    OBVIOUS
  <1> HIDE DEF cs
  <1>3. PICK f \in [0..Len(cs) -> Seq(X)] : Flattens(cs, f) /\ FlattenSeq(cs) = f[Len(cs)]
    BY <1>1, FlattenSteps
  <1> DEFINE Good == {k \in Nat : k <= n => f[k] = SubSeq(s, 1, k)}
  <1>4. 0 \in Good
    BY <1>3 DEF Flattens
  <1>5. ASSUME NEW k \in Nat, k \in Good
        PROVE  k + 1 \in Good
    <2> SUFFICES ASSUME k + 1 <= n
                 PROVE  f[k + 1] = SubSeq(s, 1, k + 1)
      OBVIOUS
    <2>1. k + 1 \in 1..n /\ (k + 1) - 1 = k /\ k \in 0..n
      BY <1>1
    <2>2. f[k] = SubSeq(s, 1, k)
      BY <1>5, <2>1
    <2>3. f[k + 1] = f[(k + 1) - 1] \o cs[k + 1]
      BY <1>1, <1>3, <2>1 DEF Flattens
    <2>4. f[k + 1] = SubSeq(s, 1, k) \o <<s[k + 1]>>
      BY <1>2, <2>1, <2>2, <2>3
    <2>5. SubSeq(s, k + 1, k + 1) = <<s[k + 1]>>
      BY <2>1, PartOfOne
    <2>6. SubSeq(s, 1, k) \o SubSeq(s, k + 1, k + 1) = SubSeq(s, 1, k + 1)
      <3>1. 1 \in 1..Len(s) + 1 /\ k \in 1 - 1..Len(s) /\ k + 1 \in k..Len(s)
        BY <1>1, <2>1
      <3> QED
        BY <3>1, ConcatAdjacentSubSeq
    <2> QED
      BY <2>4, <2>5, <2>6
  <1> HIDE DEF Good
  <1>6. n \in Good
    BY <1>1, <1>4, <1>5, InductionOnSet
  <1>7. f[n] = SubSeq(s, 1, n)
    BY <1>1, <1>6 DEF Good
  <1> QED
    BY <1>1, <1>3, <1>7, SubSeqFull DEF cs

-----------------------------------------------------------------------------
(* The starts of a flattened sequence.                                     *)

\* The flattened start of a sequence.
JoinedTo(s, k) == FlattenSeq(SubSeq(s, 1, k))

\* The starts of a sequence grow by one element each, and each is where its next
\* element stands in the whole.
LEMMA JoinedFacts ==
    ASSUME NEW X, NEW s \in Seq(Seq(X))
    PROVE  /\ JoinedTo(s, 0) = <<>>
           /\ JoinedTo(s, Len(s)) = FlattenSeq(s)
           /\ \A k \in 0..Len(s) : JoinedTo(s, k) \in Seq(X)
           /\ \A k \in 1..Len(s) : JoinedTo(s, k) = JoinedTo(s, k - 1) \o s[k]
  <1>1. Len(s) \in Nat
    OBVIOUS
  <1>2. ASSUME NEW k \in 0..Len(s)
        PROVE  SubSeq(s, 1, k) \in Seq(Seq(X))
    <2>1. k \in Int /\ k <= Len(s) /\ 1 \in Nat \ {0}
      BY <1>1
    <2> QED
      BY <2>1, PartType
  <1>3. JoinedTo(s, 0) = <<>>
    <2>1. SubSeq(s, 1, 0) = <<>>
      BY SubSeqEmpty
    <2> QED
      BY <2>1, FlattenEmpty DEF JoinedTo
  <1>4. JoinedTo(s, Len(s)) = FlattenSeq(s)
    BY SubSeqFull DEF JoinedTo
  <1>5. ASSUME NEW k \in 0..Len(s)
        PROVE  JoinedTo(s, k) \in Seq(X)
    BY <1>2, FlattenType DEF JoinedTo
  <1>6. ASSUME NEW k \in 1..Len(s)
        PROVE  JoinedTo(s, k) = JoinedTo(s, k - 1) \o s[k]
    <2>1. k - 1 \in 0..Len(s) /\ 1 \in 1..Len(s) + 1 /\ k \in 1 .. Len(s) /\ s[k] \in Seq(X)
      BY <1>1
    <2>2. SubSeq(s, 1, k) = Append(SubSeq(s, 1, k - 1), s[k])
      BY <2>1, SubSeqRecursiveSecond
    <2>3. SubSeq(s, 1, k - 1) \in Seq(Seq(X))
      BY <1>2, <2>1
    <2> QED
      BY <2>1, <2>2, <2>3, FlattenAppend DEF JoinedTo
  <1> QED
    BY <1>3, <1>4, <1>5, <1>6

\* A later start begins with an earlier one.
LEMMA JoinedGrows ==
    ASSUME NEW X, NEW s \in Seq(Seq(X)), NEW k \in 0..Len(s), NEW m \in k..Len(s)
    PROVE  /\ Len(JoinedTo(s, k)) \in Nat /\ Len(JoinedTo(s, m)) \in Nat
           /\ Len(JoinedTo(s, k)) <= Len(JoinedTo(s, m))
           /\ \A i \in 1..Len(JoinedTo(s, k)) : JoinedTo(s, m)[i] = JoinedTo(s, k)[i]
  <1> DEFINE Begins(j) == /\ Len(JoinedTo(s, k)) <= Len(JoinedTo(s, j))
                          /\ \A i \in 1..Len(JoinedTo(s, k)) : JoinedTo(s, j)[i] = JoinedTo(s, k)[i]
             Good == {d \in Nat : k + d <= Len(s) => Begins(k + d)}
  <1>1. \A j \in 0..Len(s) : JoinedTo(s, j) \in Seq(X) /\ Len(JoinedTo(s, j)) \in Nat
    BY JoinedFacts, LenProperties
  <1>2. 0 \in Good
    BY <1>1
  <1>3. ASSUME NEW d \in Nat, d \in Good
        PROVE  d + 1 \in Good
    <2> SUFFICES ASSUME k + d + 1 <= Len(s)
                 PROVE  Begins(k + d + 1)
      OBVIOUS
    <2> DEFINE j == k + d
    <2>1. j \in 0..Len(s) /\ j + 1 \in 1..Len(s) /\ (j + 1) - 1 = j /\ Len(s) \in Nat
      OBVIOUS
    <2>2. Begins(j)
      BY <1>3, <2>1
    <2>3. JoinedTo(s, j + 1) = JoinedTo(s, j) \o s[j + 1]
      BY <2>1, JoinedFacts
    <2>4. s[j + 1] \in Seq(X)
      BY <2>1, ElementOfSeq
    <2> DEFINE u == JoinedTo(s, j)
    <2>5. u \in Seq(X) /\ Len(JoinedTo(s, k)) \in Nat
      BY <1>1, <2>1
    <2> HIDE DEF u, j
    <2>6. /\ Len(u \o s[j + 1]) = Len(u) + Len(s[j + 1]) /\ Len(u) \in Nat /\ Len(s[j + 1]) \in Nat
          /\ \A i \in 1..Len(u) : (u \o s[j + 1])[i] = u[i]
      BY <2>4, <2>5, ConcatFacts
    <2>7. Begins(j + 1)
      BY <2>2, <2>3, <2>5, <2>6 DEF u
    <2> QED
      BY <2>7 DEF j
  <1> HIDE DEF Good
  <1>4. Nat \subseteq Good
    BY <1>2, <1>3, InductionOnSet
  <1>5. m - k \in Nat /\ k + (m - k) = m /\ m \in 0..Len(s)
    OBVIOUS
  <1>6. Begins(m)
    <2>1. m - k \in Good
      BY <1>4, <1>5
    <2>2. Begins(k + (m - k))
      BY <1>5, <2>1 DEF Good
    <2> QED
      BY <1>5, <2>2
  <1> QED
    BY <1>1, <1>5, <1>6

\* Each element stands in the whole after those before it.
LEMMA ElementStands ==
    ASSUME NEW X, NEW s \in Seq(Seq(X)), NEW k \in 1..Len(s)
    PROVE  /\ FlattenSeq(s) \in Seq(X) /\ s[k] \in Seq(X)
           /\ Len(JoinedTo(s, k - 1)) \in Nat
           /\ Len(JoinedTo(s, k)) = Len(JoinedTo(s, k - 1)) + Len(s[k])
           /\ Len(JoinedTo(s, k - 1)) + Len(s[k]) <= Len(FlattenSeq(s))
           /\ \A i \in 1..Len(s[k]) : FlattenSeq(s)[Len(JoinedTo(s, k - 1)) + i] = s[k][i]
  <1>1. k - 1 \in 0..Len(s) /\ k \in 0..Len(s) /\ Len(s) \in k..Len(s) /\ Len(s) \in Nat
    OBVIOUS
  <1>2. s[k] \in Seq(X) /\ JoinedTo(s, k - 1) \in Seq(X) /\ JoinedTo(s, k) \in Seq(X)
        /\ FlattenSeq(s) \in Seq(X)
    BY <1>1, ElementOfSeq, JoinedFacts, FlattenType
  <1>3. JoinedTo(s, k) = JoinedTo(s, k - 1) \o s[k] /\ JoinedTo(s, Len(s)) = FlattenSeq(s)
    BY JoinedFacts
  <1> DEFINE u == JoinedTo(s, k - 1)
  <1> HIDE DEF u
  <1>4. /\ Len(u \o s[k]) = Len(u) + Len(s[k]) /\ Len(u) \in Nat /\ Len(s[k]) \in Nat
        /\ \A i \in 1..Len(s[k]) : (u \o s[k])[Len(u) + i] = s[k][i]
    BY <1>2, ConcatFacts DEF u
  <1>5. /\ Len(JoinedTo(s, k)) <= Len(FlattenSeq(s))
        /\ \A i \in 1..Len(JoinedTo(s, k)) : FlattenSeq(s)[i] = JoinedTo(s, k)[i]
    BY <1>1, <1>3, JoinedGrows
  <1>6. ASSUME NEW i \in 1..Len(s[k])
        PROVE  FlattenSeq(s)[Len(u) + i] = s[k][i]
    <2>1. Len(u) + i \in 1..Len(JoinedTo(s, k))
      <3>1. Len(JoinedTo(s, k)) = Len(u) + Len(s[k]) /\ Len(u) \in Nat /\ Len(s[k]) \in Nat
        BY <1>3, <1>4 DEF u
      <3> QED
        BY <3>1
    <2> QED
      BY <1>3, <1>4, <1>5, <2>1 DEF u
  <1> QED
    BY <1>2, <1>3, <1>4, <1>5, <1>6 DEF u
=============================================================================
