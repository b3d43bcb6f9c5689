------------------------ MODULE TrajectorySourceProofs ------------------------
(***************************************************************************)
(* Proofs about TrajectorySource, for every set of lines, every length of  *)
(* a range and of an audit call, and every bound on the file and on the    *)
(* writes.                                                                 *)
(*   SourceInvariant       SourceInv is inductive: the chain of ranges,    *)
(*                         what a seal vouches for, and where each         *)
(*                         operation stands against the file it pinned.    *)
(*   ReadersGetTheFile     AnswersAreExact is an invariant: an answer is   *)
(*                         the file's matches up to the search frontier,   *)
(*                         and the pages of a cursor are one answer.       *)
(*   VerificationIsEarned  ReadinessIsEarned is an invariant: a seal names *)
(*                         only what was verified, and the frontier skips  *)
(*                         no event.                                       *)
(* No proof compares modification times but by their order: a write moves  *)
(* the time on, so what was pinned, sealed or audited before it names      *)
(* another file.                                                           *)
(***************************************************************************)
EXTENDS TrajectorySource, FiniteSetTheorems, FunctionTheorems, SequenceTheorems,
        WellFoundedInduction, TLAPS

(***************************************************************************)
(* Numbers, and the chain of a scan.                                       *)
(***************************************************************************)
(* What is before what is before.                                          *)
LEMMA NoLaterThan ==
  ASSUME NEW a \in Int, NEW b \in Int, NEW c \in Int, a <= b, b <= c
  PROVE  a <= c
  OBVIOUS

(* Numbers have a least one.                                               *)
LEMMA LeastNumber ==
  ASSUME NEW S \in SUBSET Nat, S # {}
  PROVE  \E m \in S : \A y \in S : m <= y
<1>1. PICK m \in S : \A y \in S : ~ (<<y, m>> \in OpToRel(<, Nat))
  BY NatLessThanWellFounded, WFMin, Zenon
<1>2. \A y \in S : ~ (y < m)
  BY <1>1 DEF OpToRel
<1> QED
  BY <1>2

(* A set with zero and the successor of each of its numbers has them all.  *)
LEMMA SetInduction ==
  ASSUME NEW S, 0 \in S, \A n \in Nat : n \in S => n + 1 \in S
  PROVE  \A n \in Nat : n \in S
<1>1. SUFFICES ASSUME {n \in Nat : n \notin S} # {}
               PROVE  FALSE
  OBVIOUS
<1>2. PICK m \in {n \in Nat : n \notin S} : \A y \in {n \in Nat : n \notin S} : m <= y
  BY <1>1, LeastNumber
<1>3. m # 0 /\ m - 1 \in Nat
  BY <1>2
<1>4. m - 1 \in S
  BY <1>2, <1>3
<1> QED
  BY <1>2, <1>3, <1>4

(* The ranges after each record of a scan.                                 *)
IsScan(g, base, lines, n) ==
  g = [i \in 0..n |-> IF i = 0 THEN base ELSE ExtendRanges(g[i - 1], lines[i])]

(* A scan of any number of records has them.                               *)
LEMMA ScanExists ==
  ASSUME NEW base, NEW lines
  PROVE  \A n \in Nat : \E g : IsScan(g, base, lines, n)
<1> DEFINE S == {n \in Nat : \E g : IsScan(g, base, lines, n)}
<1>1. 0 \in S
  <2> DEFINE g == [i \in 0..0 |-> base]
  <2>1. IsScan(g, base, lines, 0)
    BY DEF IsScan
  <2> QED
    BY <2>1
<1>2. ASSUME NEW n \in Nat, n \in S
      PROVE  n + 1 \in S
  <2>1. PICK g : IsScan(g, base, lines, n)
    BY <1>2
  <2> DEFINE h == [i \in 0..(n + 1) |-> IF i = n + 1 THEN ExtendRanges(g[n], lines[n + 1]) ELSE g[i]]
  <2>2. \A i \in 0..n : g[i] = IF i = 0 THEN base ELSE ExtendRanges(g[i - 1], lines[i])
    BY <2>1, Zenon DEF IsScan
  <2>3. ASSUME NEW i \in 0..(n + 1)
        PROVE  h[i] = IF i = 0 THEN base ELSE ExtendRanges(h[i - 1], lines[i])
    <3>1. CASE i = n + 1
      <4>1. n \in 0..(n + 1) /\ n # n + 1 /\ i # 0 /\ i - 1 = n /\ n + 1 \in 0..(n + 1)
        BY <3>1
      <4>2. h[n] = g[n] /\ h[n + 1] = ExtendRanges(g[n], lines[n + 1])
        BY <4>1
      <4> QED
        BY <3>1, <4>1, <4>2
    <3>2. CASE i = 0
      <4>1. 0 \in 0..n /\ 0 # n + 1
        OBVIOUS
      <4> QED
        BY <3>2, <2>2, <4>1
    <3>3. CASE i # 0 /\ i # n + 1
      <4>1. i \in 0..n /\ i - 1 \in 0..(n + 1) /\ i - 1 # n + 1
        BY <3>3
      <4>2. h[i] = g[i] /\ h[i - 1] = g[i - 1]
        BY <4>1, <3>3
      <4> QED
        BY <3>3, <4>1, <4>2, <2>2
    <3> QED
      BY <3>1, <3>2, <3>3
  <2> HIDE DEF h
  <2>4. DOMAIN h = 0..(n + 1) /\ h = [i \in 0..(n + 1) |-> h[i]]
    BY DEF h
  <2>5. h = [i \in 0..(n + 1) |-> IF i = 0 THEN base ELSE ExtendRanges(h[i - 1], lines[i])]
    BY <2>3, <2>4, Zenon
  <2>6. IsScan(h, base, lines, n + 1)
    BY <2>5, Zenon DEF IsScan
  <2> QED
    BY <2>6
<1> HIDE DEF S
<1>3. \A n \in Nat : n \in S
  BY <1>1, <1>2, SetInduction
<1> QED
  BY <1>3 DEF S

(* Extended is the last of them.                                           *)
LEMMA ExtendedIsLast ==
  ASSUME NEW base, NEW lines, Len(lines) \in Nat
  PROVE  \E g : IsScan(g, base, lines, Len(lines)) /\ Extended(base, lines) = g[Len(lines)]
<1> DEFINE n == Len(lines)
           f == CHOOSE g : g = [i \in 0..n |-> IF i = 0 THEN base ELSE ExtendRanges(g[i - 1], lines[i])]
<1>1. \E g : g = [i \in 0..n |-> IF i = 0 THEN base ELSE ExtendRanges(g[i - 1], lines[i])]
  <2>1. \E g : IsScan(g, base, lines, n)
    BY ScanExists
  <2> QED
    BY <2>1, Zenon DEF IsScan
<1>2. f = [i \in 0..n |-> IF i = 0 THEN base ELSE ExtendRanges(f[i - 1], lines[i])]
  BY <1>1, Zenon
<1>3. Extended(base, lines) = f[n]
  BY Zenon DEF Extended
<1> QED
  BY <1>2, <1>3, Zenon DEF IsScan

(* Two scans agree as far as their records do.                             *)
LEMMA ScansAgree ==
  ASSUME NEW base, NEW lines, NEW more, NEW n \in Nat, NEW m \in Nat, n <= m,
         \A i \in 1..n : more[i] = lines[i],
         NEW g, IsScan(g, base, lines, n), NEW h, IsScan(h, base, more, m)
  PROVE  \A i \in 0..n : h[i] = g[i]
<1> DEFINE S == {i \in Nat : i <= n => h[i] = g[i]}
<1>1. \A i \in 0..n : g[i] = IF i = 0 THEN base ELSE ExtendRanges(g[i - 1], lines[i])
  BY Zenon DEF IsScan
<1>2. \A i \in 0..m : h[i] = IF i = 0 THEN base ELSE ExtendRanges(h[i - 1], more[i])
  BY Zenon DEF IsScan
<1>3. 0 \in S
  BY <1>1, <1>2
<1>4. ASSUME NEW i \in Nat, i \in S
      PROVE  i + 1 \in S
  <2>1. CASE i + 1 <= n
    <3>1. h[i] = g[i] /\ more[i + 1] = lines[i + 1]
      BY <1>4, <2>1
    <3>2. i + 1 \in 0..n /\ i + 1 \in 0..m /\ i + 1 # 0 /\ (i + 1) - 1 = i
      BY <2>1
    <3>3. g[i + 1] = ExtendRanges(g[(i + 1) - 1], lines[i + 1])
      BY <1>1, <3>2, Zenon
    <3>4. h[i + 1] = ExtendRanges(h[(i + 1) - 1], more[i + 1])
      BY <1>2, <3>2, Zenon
    <3>5. h[i + 1] = g[i + 1]
      BY <3>1, <3>2, <3>3, <3>4
    <3> QED
      BY <3>5
  <2>2. CASE ~(i + 1 <= n)
    BY <2>2
  <2> QED
    BY <2>1, <2>2
<1> HIDE DEF S
<1>5. \A i \in Nat : i \in S
  BY <1>3, <1>4, SetInduction
<1> QED
  BY <1>5 DEF S

(* A scan of no record leaves the ranges alone.                            *)
LEMMA ExtendedByNone ==
  ASSUME NEW base
  PROVE  Extended(base, <<>>) = base
<1>1. Len(<<>>) = 0 /\ 0 \in Nat
  OBVIOUS
<1>2. PICK g : IsScan(g, base, <<>>, 0) /\ Extended(base, <<>>) = g[0]
  BY <1>1, ExtendedIsLast
<1>3. \A i \in 0..0 : g[i] = IF i = 0 THEN base ELSE ExtendRanges(g[i - 1], <<>>[i])
  BY <1>2, Zenon DEF IsScan
<1> QED
  BY <1>2, <1>3

(* A record more extends the ranges once more.                             *)
LEMMA ExtendedByOne ==
  ASSUME NEW base, NEW T, NEW lines \in Seq(T), NEW line \in T
  PROVE  Extended(base, Append(lines, line)) = ExtendRanges(Extended(base, lines), line)
<1> DEFINE n == Len(lines)
           more == Append(lines, line)
<1>1. /\ n \in Nat /\ n + 1 \in Nat /\ Len(more) = n + 1
      /\ \A i \in 1..n : more[i] = lines[i]
      /\ more[n + 1] = line
  OBVIOUS
<1>2. PICK g : IsScan(g, base, lines, n) /\ Extended(base, lines) = g[n]
  BY <1>1, ExtendedIsLast
<1> HIDE DEF more
<1>3. PICK h : IsScan(h, base, more, n + 1) /\ Extended(base, more) = h[n + 1]
  BY <1>1, ExtendedIsLast
<1> HIDE DEF n
<1>4. n <= n + 1
  BY <1>1
<1>5. \A i \in 0..n : h[i] = g[i]
  <2> DEFINE m == n + 1
  <2>1. /\ m \in Nat /\ n \in Nat /\ n <= m /\ IsScan(g, base, lines, n)
        /\ IsScan(h, base, more, m) /\ \A i \in 1..n : more[i] = lines[i]
    BY <1>1, <1>2, <1>3, <1>4
  <2> HIDE DEF m
  <2> QED
    BY <2>1, ScansAgree
<1>6. h[n] = g[n]
  BY <1>1, <1>5
<1>7. \A i \in 0..(n + 1) : h[i] = IF i = 0 THEN base ELSE ExtendRanges(h[i - 1], more[i])
  BY <1>3, Zenon DEF IsScan
<1>8. n + 1 \in 0..(n + 1) /\ n + 1 # 0 /\ (n + 1) - 1 = n
  BY <1>1
<1>9. h[n + 1] = ExtendRanges(h[(n + 1) - 1], more[n + 1])
  BY <1>7, <1>8, Zenon
<1> QED
  BY <1>1, <1>2, <1>3, <1>6, <1>8, <1>9 DEF more

(* A property of sequences: the empty one has it, and one that has it has  *)
(* it still with an element more.                                          *)
LEMMA SequenceInduction ==
  ASSUME NEW T, NEW S, <<>> \in S,
         \A s \in Seq(T) : \A x \in T : s \in S => Append(s, x) \in S
  PROVE  \A s \in Seq(T) : s \in S
<1> DEFINE N == {n \in Nat : \A s \in Seq(T) : Len(s) = n => s \in S}
<1>1. 0 \in N
  <2>1. ASSUME NEW s \in Seq(T), Len(s) = 0
        PROVE  s \in S
    BY <2>1, EmptySeq
  <2> QED
    BY <2>1
<1>2. ASSUME NEW n \in Nat, n \in N
      PROVE  n + 1 \in N
  <2>1. ASSUME NEW s \in Seq(T), Len(s) = n + 1
        PROVE  s \in S
    <3> DEFINE f == SubSeq(s, 1, n)
    <3>1. f \in Seq(T) /\ Len(f) = n /\ s[n + 1] \in T /\ s = Append(f, s[n + 1])
      BY <2>1
    <3>2. f \in S
      BY <1>2, <3>1
    <3> QED
      BY <3>1, <3>2
  <2> QED
    BY <2>1
<1> HIDE DEF N
<1>3. \A n \in Nat : n \in N
  BY <1>1, <1>2, SetInduction
<1>4. ASSUME NEW s \in Seq(T)
      PROVE  s \in S
  BY <1>3 DEF N
<1> QED
  BY <1>4

(***************************************************************************)
(* Ranges: one chain, the events and the bytes of its lines.               *)
(***************************************************************************)
RangeType == [from : Nat, lines : Seq(Values)]
Chained(ranges) ==
  \A n \in DOMAIN ranges : ranges[n].from = IF n = 1 THEN 0 ELSE End(ranges[n - 1])
EndOf(ranges) == IF ranges = <<>> THEN 0 ELSE End(Last1(ranges))

(* What is cut out of a sequence.                                          *)
LEMMA SubSeqFacts ==
  ASSUME NEW T, NEW s \in Seq(T), NEW m \in 1..(Len(s) + 1), NEW n \in (m - 1)..Len(s)
  PROVE  /\ SubSeq(s, m, n) \in Seq(T) /\ Len(SubSeq(s, m, n)) = n - m + 1
         /\ \A i \in 1..(n - m + 1) : SubSeq(s, m, n)[i] = s[m + i - 1]
<1>1. m \in Int /\ n \in Int /\ Len(s) \in Nat
  OBVIOUS
<1>2. \A i \in m..n : s[i] \in T
  BY <1>1
<1>3. m <= n \/ n - m + 1 = 0
  BY <1>1
<1> QED
  BY <1>1, <1>2, <1>3, SubSeqProperties

(* A range ends at a number, and its bytes are its lines exactly when each *)
(* of its lines is at its place in the file.                               *)
LEMMA RangeFacts ==
  ASSUME NEW r \in RangeType, log.lines \in Seq(Values)
  PROVE  /\ End(r) \in Nat /\ r.from \in Nat /\ r.from <= End(r) /\ Len(r.lines) \in Nat
         /\ DOMAIN r.lines = 1..Len(r.lines) /\ End(r) = r.from + Len(r.lines)
         /\ Verified(r) <=> \A i \in 1..Len(r.lines) : /\ r.from + i <= Len(log.lines)
                                                      /\ log.lines[r.from + i] = r.lines[i]
<1>1. /\ r.lines \in Seq(Values) /\ r.from \in Nat /\ Len(r.lines) \in Nat
      /\ DOMAIN r.lines = 1..Len(r.lines)
  BY DEF RangeType
<1>2. End(r) \in Nat /\ r.from <= End(r) /\ End(r) = r.from + Len(r.lines)
  BY <1>1 DEF End
<1>3. Len(log.lines) \in Nat
  OBVIOUS
<1>4. CASE End(r) <= Len(log.lines)
  <2> DEFINE b == SubSeq(log.lines, r.from + 1, End(r))
  <2>1. Bytes(r) = b
    BY <1>4 DEF Bytes
  <2>4. /\ r.from + 1 \in 1..(Len(log.lines) + 1)
        /\ End(r) \in ((r.from + 1) - 1)..Len(log.lines)
        /\ End(r) - (r.from + 1) + 1 = Len(r.lines)
    BY <1>1, <1>2, <1>3, <1>4
  <2>5. /\ b \in Seq(Values) /\ Len(b) = End(r) - (r.from + 1) + 1
        /\ \A i \in 1..(End(r) - (r.from + 1) + 1) : b[i] = log.lines[(r.from + 1) + i - 1]
    BY <2>4, SubSeqFacts
  <2>2. /\ b \in Seq(Values) /\ Len(b) = Len(r.lines)
        /\ \A i \in 1..Len(r.lines) : b[i] = log.lines[r.from + i]
    <3> HIDE DEF b
    <3>1. \A i \in 1..Len(r.lines) : (r.from + 1) + i - 1 = r.from + i
      <4>1. ASSUME NEW a \in Nat, NEW c \in Nat PROVE \A i \in 1..c : (a + 1) + i - 1 = a + i
        OBVIOUS
      <4> QED
        BY <1>1, <4>1, Zenon
    <3>2. Len(b) = Len(r.lines) /\ \A i \in 1..Len(r.lines) : b[i] = log.lines[(r.from + 1) + i - 1]
      BY <2>4, <2>5, Zenon
    <3>3. ASSUME NEW i \in 1..Len(r.lines) PROVE b[i] = log.lines[r.from + i]
      BY <3>1, <3>2, Zenon
    <3> QED
      BY <2>5, <3>2, <3>3, Zenon
  <2> HIDE DEF b
  <2>3. b = r.lines <=> \A i \in 1..Len(r.lines) : b[i] = r.lines[i]
    BY <1>1, <2>2, SeqEqual
  <2> QED
    BY <1>1, <1>2, <1>4, <2>1, <2>2, <2>3 DEF Verified
<1>5. CASE ~(End(r) <= Len(log.lines))
  <2>1. Bytes(r) = <<>>
    BY <1>5 DEF Bytes
  <2>2. Verified(r) <=> r.lines = <<>>
    BY <2>1 DEF Verified
  <2>3. r.lines = <<>> <=> Len(r.lines) = 0
    BY <1>1, EmptySeq
  <2>4. Len(r.lines) # 0 => Len(r.lines) \in 1..Len(r.lines) /\ ~(r.from + Len(r.lines) <= Len(log.lines))
    BY <1>1, <1>2, <1>3, <1>5
  <2>5. Len(r.lines) = 0 => 1..Len(r.lines) = {}
    OBVIOUS
  <2> QED
    BY <1>1, <1>2, <2>2, <2>3, <2>4, <2>5
<1> QED
  BY <1>4, <1>5

(* The ranges of a chain follow one another, and cover every line.         *)
LEMMA ChainFacts ==
  ASSUME NEW ranges \in Seq(RangeType), Chained(ranges), log.lines \in Seq(Values)
  PROVE  /\ EndOf(ranges) \in Nat /\ Len(ranges) \in Nat /\ DOMAIN ranges = 1..Len(ranges)
         /\ \A n \in 1..Len(ranges) : /\ ranges[n] \in RangeType
                                      /\ End(ranges[n]) <= EndOf(ranges)
         /\ \A n \in 1..Len(ranges) : \A m \in 1..(n - 1) : End(ranges[m]) <= ranges[n].from
         /\ \A n \in 1..Len(ranges) : \A i \in 1..End(ranges[n]) :
              \E k \in 1..n : i - ranges[k].from \in 1..Len(ranges[k].lines)
<1> DEFINE len == Len(ranges)
<1>1. len \in Nat /\ DOMAIN ranges = 1..len /\ \A n \in 1..len : ranges[n] \in RangeType
  OBVIOUS
<1>2. \A n \in 1..len : ranges[n].from = IF n = 1 THEN 0 ELSE End(ranges[n - 1])
  BY <1>1 DEF Chained
<1>3. \A n \in 1..len : /\ End(ranges[n]) \in Nat /\ ranges[n].from \in Nat
                        /\ ranges[n].from <= End(ranges[n]) /\ Len(ranges[n].lines) \in Nat
                        /\ End(ranges[n]) = ranges[n].from + Len(ranges[n].lines)
  BY <1>1, RangeFacts
<1> HIDE DEF len
<1> DEFINE S == {n \in Nat : n \in 1..len =>
                   /\ \A m \in 1..(n - 1) : End(ranges[m]) <= ranges[n].from
                   /\ \A i \in 1..End(ranges[n]) :
                        \E k \in 1..n : i - ranges[k].from \in 1..Len(ranges[k].lines)}
<1>4. 0 \in S
  BY <1>1
<1>5. ASSUME NEW n \in Nat, n \in S
      PROVE  n + 1 \in S
  <2> SUFFICES ASSUME n + 1 \in 1..len
               PROVE  /\ \A m \in 1..n : End(ranges[m]) <= ranges[n + 1].from
                      /\ \A i \in 1..End(ranges[n + 1]) :
                           \E k \in 1..(n + 1) : i - ranges[k].from \in 1..Len(ranges[k].lines)
    BY <1>5
  <2>1. CASE n = 0
    <3>1. ranges[n + 1].from = 0 /\ n + 1 \in 1..(n + 1)
      BY <1>2, <2>1
    <3>2. \A i \in 1..End(ranges[n + 1]) : i - ranges[n + 1].from \in 1..Len(ranges[n + 1].lines)
      BY <1>3, <3>1
    <3> QED
      BY <2>1, <3>1, <3>2
  <2>2. CASE n # 0
    <3>1. n \in 1..len /\ n + 1 # 1 /\ (n + 1) - 1 = n
      BY <1>1, <2>2
    <3>2. ranges[n + 1].from = End(ranges[n])
      BY <1>2, <3>1
    <3>3. \A m \in 1..(n - 1) : End(ranges[m]) <= ranges[n].from
      BY <1>5, <3>1
    <3>4. \A m \in 1..n : End(ranges[m]) <= ranges[n + 1].from
      <4>1. ASSUME NEW m \in 1..n PROVE End(ranges[m]) <= ranges[n + 1].from
        <5>1. CASE m = n
          BY <1>3, <3>1, <3>2, <5>1
        <5>2. CASE m # n
          <6>1. m \in 1..(n - 1) /\ m \in 1..len
            BY <1>1, <3>1, <5>2
          <6>2. End(ranges[m]) <= ranges[n].from
            BY <3>3, <6>1
          <6>3. /\ End(ranges[m]) \in Int /\ ranges[n].from \in Int /\ End(ranges[n]) \in Int
                /\ ranges[n].from <= End(ranges[n])
            BY <1>3, <3>1, <6>1
          <6> QED
            BY <3>2, <6>2, <6>3, NoLaterThan
        <5> QED
          BY <5>1, <5>2
      <4> QED
        BY <4>1
    <3>5. ASSUME NEW i \in 1..End(ranges[n + 1])
          PROVE  \E k \in 1..(n + 1) : i - ranges[k].from \in 1..Len(ranges[k].lines)
      <4>1. CASE i <= End(ranges[n])
        <5>1. i \in 1..End(ranges[n])
          BY <1>3, <3>1, <4>1
        <5>2. PICK k \in 1..n : i - ranges[k].from \in 1..Len(ranges[k].lines)
          BY <1>5, <3>1, <5>1
        <5>3. k \in 1..(n + 1)
          <6>1. n \in Nat
            BY <3>1
          <6> QED
            BY <5>2, <6>1
        <5> QED
          BY <5>2, <5>3, Zenon
      <4>2. CASE ~(i <= End(ranges[n]))
        <5>1. i - ranges[n + 1].from \in 1..Len(ranges[n + 1].lines)
          BY <1>3, <3>1, <3>2, <4>2
        <5>2. n + 1 \in 1..(n + 1)
          BY <3>1
        <5> QED
          BY <5>1, <5>2, Zenon
      <4> QED
        BY <4>1, <4>2
    <3> QED
      BY <3>4, <3>5
  <2> QED
    BY <2>1, <2>2
<1> HIDE DEF S
<1>6. \A n \in Nat : n \in S
  BY <1>4, <1>5, SetInduction
<1>7. \A n \in 1..len : n \in S
  BY <1>1, <1>6
<1>8. \A n \in 1..len : \A m \in 1..(n - 1) : End(ranges[m]) <= ranges[n].from
  BY <1>7 DEF S
<1>9. \A n \in 1..len : \A i \in 1..End(ranges[n]) :
        \E k \in 1..n : i - ranges[k].from \in 1..Len(ranges[k].lines)
  BY <1>7 DEF S
<1>10. EndOf(ranges) \in Nat /\ \A n \in 1..len : End(ranges[n]) <= EndOf(ranges)
  <2>1. CASE ranges = <<>>
    BY <2>1, <1>1 DEF EndOf, len
  <2>2. CASE ranges # <<>>
    <3>1. len \in 1..len /\ EndOf(ranges) = End(ranges[len])
      BY <1>1, <2>2, EmptySeq DEF EndOf, Last1, len
    <3>2. ASSUME NEW n \in 1..len PROVE End(ranges[n]) <= End(ranges[len])
      <4>1. CASE n = len
        BY <1>3, <4>1
      <4>2. CASE n # len
        <5>1. n \in 1..(len - 1)
          BY <1>1, <4>2
        <5>2. End(ranges[n]) <= ranges[len].from
          BY <1>8, <3>1, <5>1
        <5>3. /\ End(ranges[n]) \in Int /\ ranges[len].from \in Int /\ End(ranges[len]) \in Int
              /\ ranges[len].from <= End(ranges[len])
          BY <1>3, <3>1
        <5> QED
          BY <5>2, <5>3, NoLaterThan
      <4> QED
        BY <4>1, <4>2
    <3> QED
      BY <1>3, <3>1, <3>2
  <2> QED
    BY <2>1, <2>2
<1> QED
  BY <1>1, <1>8, <1>9, <1>10 DEF len

(* The chains a file bears out: each of their lines is at its place.       *)
InFile(ranges) == \A n \in 1..Len(ranges) : Verified(ranges[n])

(* What is kept when ranges become longer: a range the file bears out is   *)
(* borne out still if the new lines are the file's next ones.              *)
Follow(ranges, lines, longer) ==
  /\ longer \in Seq(RangeType) /\ Chained(longer)
  /\ EndOf(longer) = EndOf(ranges) + Len(lines)
  /\ Len(ranges) <= Len(longer)
  /\ IndexedEvents(longer)
       = IndexedEvents(ranges) \cup {EndOf(ranges) + i : i \in Events(lines)}
  /\ (\A i \in 1..Len(lines) : /\ EndOf(ranges) + i <= Len(log.lines)
                               /\ log.lines[EndOf(ranges) + i] = lines[i]) =>
       /\ \A n \in 1..Len(ranges) : Verified(ranges[n]) => Verified(longer[n])
       /\ InFile(ranges) => InFile(longer)

(* An event of a chain is an event of one of its ranges.                   *)
LEMMA EventOfRange ==
  ASSUME NEW ranges \in Seq(RangeType)
  PROVE  \A x : x \in IndexedEvents(ranges) <=>
           \E n \in 1..Len(ranges) : \E i \in 1..Len(ranges[n].lines) :
              IsEvent(ranges[n].lines[i]) /\ x = ranges[n].from + i
<1>1. DOMAIN ranges = 1..Len(ranges)
  OBVIOUS
<1>2. \A n \in 1..Len(ranges) : DOMAIN ranges[n].lines = 1..Len(ranges[n].lines)
  BY DEF RangeType
<1>3. \A n \in 1..Len(ranges) : \A i : i \in Events(ranges[n].lines) <=>
        i \in 1..Len(ranges[n].lines) /\ IsEvent(ranges[n].lines[i])
  BY <1>2 DEF Events
<1>4. \A x : x \in IndexedEvents(ranges) <=>
        \E n \in 1..Len(ranges) : \E i \in Events(ranges[n].lines) : x = ranges[n].from + i
  BY <1>1 DEF IndexedEvents
<1>5. ASSUME NEW x, NEW n \in 1..Len(ranges), NEW i \in Events(ranges[n].lines), x = ranges[n].from + i
      PROVE  \E k \in 1..Len(ranges[n].lines) : IsEvent(ranges[n].lines[k]) /\ x = ranges[n].from + k
  BY <1>3, <1>5
<1>6. ASSUME NEW x, NEW n \in 1..Len(ranges), NEW i \in 1..Len(ranges[n].lines),
             IsEvent(ranges[n].lines[i]), x = ranges[n].from + i
      PROVE  \E k \in Events(ranges[n].lines) : x = ranges[n].from + k
  BY <1>3, <1>6
<1>7. ASSUME NEW x, x \in IndexedEvents(ranges)
      PROVE  \E n \in 1..Len(ranges) : \E i \in 1..Len(ranges[n].lines) :
               IsEvent(ranges[n].lines[i]) /\ x = ranges[n].from + i
  <2>1. PICK n \in 1..Len(ranges) : \E i \in Events(ranges[n].lines) : x = ranges[n].from + i
    BY <1>4, <1>7, Zenon
  <2>2. PICK i \in Events(ranges[n].lines) : x = ranges[n].from + i
    BY <2>1, Zenon
  <2> QED
    BY <1>5, <2>2, Zenon
<1>8. ASSUME NEW x, NEW n \in 1..Len(ranges), NEW i \in 1..Len(ranges[n].lines),
             IsEvent(ranges[n].lines[i]), x = ranges[n].from + i
      PROVE  x \in IndexedEvents(ranges)
  BY <1>4, <1>6, <1>8, Zenon
<1> QED
  BY <1>7, <1>8, Zenon

(* A range with a line more: its events, and when the file bears it out.   *)
LEMMA LongerRange ==
  ASSUME NEW r \in RangeType, NEW v \in Values, NEW q \in RangeType,
         q.from = r.from, q.lines = Append(r.lines, v), log.lines \in Seq(Values)
  PROVE  /\ Len(q.lines) = Len(r.lines) + 1 /\ End(q) = End(r) + 1
         /\ \A i \in 1..Len(r.lines) : q.lines[i] = r.lines[i]
         /\ q.lines[Len(r.lines) + 1] = v
         /\ Verified(r) /\ End(r) + 1 <= Len(log.lines) /\ log.lines[End(r) + 1] = v => Verified(q)
<1>1. /\ r.lines \in Seq(Values) /\ Len(q.lines) = Len(r.lines) + 1
      /\ \A i \in 1..Len(r.lines) : q.lines[i] = r.lines[i]
      /\ q.lines[Len(r.lines) + 1] = v
  BY DEF RangeType
<1>2. /\ r.from \in Nat /\ Len(r.lines) \in Nat /\ End(r) = r.from + Len(r.lines)
      /\ Verified(r) <=> \A i \in 1..Len(r.lines) : /\ r.from + i <= Len(log.lines)
                                                   /\ log.lines[r.from + i] = r.lines[i]
  BY RangeFacts
<1>3. /\ End(q) = q.from + Len(q.lines)
      /\ Verified(q) <=> \A i \in 1..Len(q.lines) : /\ q.from + i <= Len(log.lines)
                                                   /\ log.lines[q.from + i] = q.lines[i]
  BY RangeFacts
<1>4. End(q) = End(r) + 1
  BY <1>1, <1>2, <1>3
<1>5. ASSUME Verified(r), End(r) + 1 <= Len(log.lines), log.lines[End(r) + 1] = v,
             NEW i \in 1..Len(q.lines)
      PROVE  q.from + i <= Len(log.lines) /\ log.lines[q.from + i] = q.lines[i]
  <2>1. CASE i = Len(r.lines) + 1
    <3>1. q.from + i = End(r) + 1
      <4>1. r.from + (Len(r.lines) + 1) = (r.from + Len(r.lines)) + 1
        BY <1>2
      <4> QED
        BY <1>2, <2>1, <4>1, Zenon
    <3> QED
      BY <1>1, <1>5, <2>1, <3>1
  <2>2. CASE i # Len(r.lines) + 1
    <3>1. i \in 1..Len(r.lines)
      BY <1>1, <1>2, <2>2
    <3> QED
      BY <1>1, <1>2, <1>5, <3>1
  <2> QED
    BY <2>1, <2>2
<1> QED
  BY <1>1, <1>3, <1>4, <1>5

(* A range of one line.                                                    *)
LEMMA NewRange ==
  ASSUME NEW from \in Nat, NEW v \in Values, log.lines \in Seq(Values)
  PROVE  LET q == [from |-> from, lines |-> <<v>>] IN
         /\ q \in RangeType /\ Len(q.lines) = 1 /\ q.lines[1] = v /\ End(q) = from + 1
         /\ from + 1 <= Len(log.lines) /\ log.lines[from + 1] = v => Verified(q)
<1> DEFINE q == [from |-> from, lines |-> <<v>>]
<1>1. q \in RangeType /\ Len(q.lines) = 1 /\ q.lines[1] = v /\ q.from = from
  BY DEF RangeType
<1> HIDE DEF q
<1>2. /\ End(q) = q.from + Len(q.lines)
      /\ Verified(q) <=> \A i \in 1..Len(q.lines) : /\ q.from + i <= Len(log.lines)
                                                   /\ log.lines[q.from + i] = q.lines[i]
  BY <1>1, RangeFacts
<1> QED
  BY <1>1, <1>2 DEF q

(* One record extends the last range or starts one.                        *)
LEMMA OneRecord ==
  ASSUME NEW ranges \in Seq(RangeType), Chained(ranges), NEW v \in Values, log.lines \in Seq(Values)
  PROVE  Follow(ranges, <<v>>, ExtendRanges(ranges, v))
<1> DEFINE len == Len(ranges)
           longer == ExtendRanges(ranges, v)
           end == EndOf(ranges)
           Next == end + 1 <= Len(log.lines) /\ log.lines[end + 1] = v
<1> SUFFICES Follow(ranges, <<v>>, longer)
  OBVIOUS
<1>1. /\ len \in Nat /\ DOMAIN ranges = 1..len /\ \A n \in 1..len : ranges[n] \in RangeType
      /\ end \in Nat /\ \A n \in 1..len : End(ranges[n]) <= end
      /\ ranges # <<>> => len \in 1..len /\ end = End(ranges[len])
  <2>1. ranges # <<>> => len \in 1..len
    BY EmptySeq
  <2> QED
    BY <2>1, ChainFacts DEF EndOf, Last1
<1>2. \A n \in 1..len : ranges[n].from = IF n = 1 THEN 0 ELSE End(ranges[n - 1])
  BY <1>1 DEF Chained
<1>3. Events(<<v>>) = IF IsEvent(v) THEN {1} ELSE {}
  BY DEF Events
<1> DEFINE added == IF IsEvent(v) THEN {end + 1} ELSE {}
<1>4. {end + i : i \in Events(<<v>>)} = added
  BY <1>1, <1>3
<1>5. ASSUME longer \in Seq(RangeType), Chained(longer), EndOf(longer) = end + 1,
             len <= Len(longer), IndexedEvents(longer) = IndexedEvents(ranges) \cup added,
             Next => /\ \A n \in 1..len : Verified(ranges[n]) => Verified(longer[n])
                     /\ InFile(ranges) => InFile(longer)
      PROVE  Follow(ranges, <<v>>, longer)
  <2>1. Len(<<v>>) = 1 /\ <<v>>[1] = v
    OBVIOUS
  <2> HIDE DEF longer, len, end, added
  <2>2. (\A i \in 1..Len(<<v>>) : /\ end + i <= Len(log.lines)
                                  /\ log.lines[end + i] = <<v>>[i]) => Next
    BY <2>1
  <2> HIDE DEF Next
  <2> QED
    BY <1>4, <1>5, <2>1, <2>2 DEF Follow, len, end
<1>8. \A x : x \in IndexedEvents(ranges) <=>
        \E n \in 1..len : \E i \in 1..Len(ranges[n].lines) :
           IsEvent(ranges[n].lines[i]) /\ x = ranges[n].from + i
  BY EventOfRange
<1>9. ranges = <<>> <=> len = 0
  BY EmptySeq
<1>10. ranges = <<>> => end = 0
  BY DEF EndOf
<1>11. Last1(ranges) = ranges[len]
  BY DEF Last1
<1> HIDE DEF Next, len, end, added
<1>6. CASE ranges # <<>> /\ Len(Last1(ranges).lines) < RangeLines
  <2> DEFINE q == [ranges[len] EXCEPT !.lines = Append(@, v)]
  <2>1. longer = [ranges EXCEPT ![len] = q]
    BY <1>6 DEF ExtendRanges, len
  <2>2. q \in RangeType /\ q.from = ranges[len].from /\ q.lines = Append(ranges[len].lines, v)
    <3>1. ranges[len] \in RangeType
      BY <1>1, <1>6
    <3>2. ASSUME NEW r \in RangeType
          PROVE  LET t == [r EXCEPT !.lines = Append(@, v)] IN
                 t \in RangeType /\ t.from = r.from /\ t.lines = Append(r.lines, v)
      <4>1. r.lines \in Seq(Values) /\ Append(r.lines, v) \in Seq(Values)
        BY DEF RangeType
      <4> QED
        BY <4>1 DEF RangeType
    <3> HIDE DEF longer
    <3> QED
      BY <3>1, <3>2, Zenon
  <2> HIDE DEF q
  <2>3. /\ longer \in Seq(RangeType) /\ Len(longer) = len
        /\ \A n \in 1..len : longer[n] = IF n = len THEN q ELSE ranges[n]
    BY <1>1, <1>6, <2>1, <2>2 DEF len
  <2>4. /\ Len(q.lines) = Len(ranges[len].lines) + 1 /\ End(q) = end + 1
        /\ \A i \in 1..Len(ranges[len].lines) : q.lines[i] = ranges[len].lines[i]
        /\ q.lines[Len(ranges[len].lines) + 1] = v
        /\ Verified(ranges[len]) /\ Next => Verified(q)
    BY <1>1, <1>6, <2>2, LongerRange DEF Next
  <2> HIDE DEF longer
  <2>5. Chained(longer)
    <3>1. ASSUME NEW n \in 1..len
          PROVE  longer[n].from = IF n = 1 THEN 0 ELSE End(longer[n - 1])
      <4>1. longer[n].from = ranges[n].from
        BY <2>2, <2>3
      <4>2. n # 1 => longer[n - 1] = ranges[n - 1]
        BY <1>1, <2>3
      <4> QED
        BY <1>2, <4>1, <4>2
    <3>2. DOMAIN longer = 1..len
      BY <2>3
    <3> QED
      BY <3>1, <3>2 DEF Chained
  <2>6. EndOf(longer) = end + 1
    <3>1. longer # <<>> /\ Last1(longer) = q
      BY <1>1, <1>6, <2>3, EmptySeq DEF Last1
    <3>2. EndOf(longer) = End(Last1(longer))
      BY <3>1 DEF EndOf
    <3>3. End(q) = end + 1
      BY <2>4
    <3> QED
      BY <3>1, <3>2, <3>3, Zenon
  <2>7. IndexedEvents(longer) = IndexedEvents(ranges) \cup added
    <3> DEFINE old == ranges[len]
    <3>0. len \in 1..len /\ longer[len] = q /\ q.from = old.from
      BY <1>1, <1>6, <2>2, <2>3
    <3>1. /\ old \in RangeType /\ Len(old.lines) \in Nat /\ old.from \in Nat
          /\ End(old) = old.from + Len(old.lines) /\ end = End(old)
      BY <1>1, <1>6, RangeFacts
    <3>5. /\ Len(q.lines) = Len(old.lines) + 1 /\ q.lines[Len(old.lines) + 1] = v
          /\ \A i \in 1..Len(old.lines) : q.lines[i] = old.lines[i]
      BY <2>4
    <3>6. \A x : x \in IndexedEvents(longer) <=>
            \E n \in 1..len : \E i \in 1..Len(longer[n].lines) :
               IsEvent(longer[n].lines[i]) /\ x = longer[n].from + i
      <4>1. \A x : x \in IndexedEvents(longer) <=>
              \E n \in 1..Len(longer) : \E i \in 1..Len(longer[n].lines) :
                 IsEvent(longer[n].lines[i]) /\ x = longer[n].from + i
        BY <2>3, EventOfRange, Zenon
      <4>2. Len(longer) = len
        BY <2>3
      <4> QED
        BY <4>1, <4>2, Zenon
    <3>7. \A n \in 1..len : n # len => longer[n] = ranges[n]
      BY <2>3
    <3> HIDE DEF old
    <3>2. ASSUME NEW x, x \in IndexedEvents(longer)
          PROVE  x \in IndexedEvents(ranges) \cup added
      <4>0. PICK n \in 1..len : \E i \in 1..Len(longer[n].lines) :
               IsEvent(longer[n].lines[i]) /\ x = longer[n].from + i
        BY <3>2, <3>6
      <4>1. PICK i \in 1..Len(longer[n].lines) : IsEvent(longer[n].lines[i]) /\ x = longer[n].from + i
        BY <4>0
      <4>2. CASE n = len /\ i = Len(old.lines) + 1
        <5>1. longer[n] = q
          BY <3>0, <4>2
        <5>2. IsEvent(v) /\ x = old.from + (Len(old.lines) + 1)
          BY <3>0, <3>5, <4>1, <4>2, <5>1, Zenon
        <5>3. x = end + 1
          BY <3>1, <5>2
        <5> QED
          BY <5>2, <5>3 DEF added
      <4>3. CASE n = len /\ i # Len(old.lines) + 1
        <5>1. longer[n] = q /\ i \in 1..Len(old.lines)
          BY <3>0, <3>1, <3>5, <4>3
        <5>2. IsEvent(old.lines[i]) /\ x = old.from + i
          BY <3>0, <3>5, <4>1, <5>1
        <5>3. x \in IndexedEvents(ranges)
          BY <1>8, <3>0, <5>1, <5>2 DEF old
        <5> QED
          BY <5>3
      <4>4. CASE n # len
        <5>1. longer[n] = ranges[n]
          BY <3>7, <4>4
        <5>2. x \in IndexedEvents(ranges)
          BY <1>8, <4>1, <5>1
        <5> QED
          BY <5>2
      <4> QED
        BY <4>2, <4>3, <4>4
    <3>3. ASSUME NEW x, x \in IndexedEvents(ranges)
          PROVE  x \in IndexedEvents(longer)
      <4>0. PICK n \in 1..len : \E i \in 1..Len(ranges[n].lines) :
               IsEvent(ranges[n].lines[i]) /\ x = ranges[n].from + i
        BY <1>8, <3>3
      <4>1. PICK i \in 1..Len(ranges[n].lines) : IsEvent(ranges[n].lines[i]) /\ x = ranges[n].from + i
        BY <4>0
      <4>2. /\ i \in 1..Len(longer[n].lines) /\ longer[n].lines[i] = ranges[n].lines[i]
            /\ longer[n].from = ranges[n].from
        <5>1. CASE n = len
          <6>1. i \in 1..Len(old.lines) /\ ranges[n] = old
            BY <5>1 DEF old
          <6> QED
            BY <3>0, <3>1, <3>5, <5>1, <6>1
        <5>2. CASE n # len
          BY <3>7, <5>2
        <5> QED
          BY <5>1, <5>2
      <4> QED
        BY <3>6, <4>1, <4>2
    <3>4. ASSUME IsEvent(v) PROVE end + 1 \in IndexedEvents(longer)
      <4>1. Len(old.lines) + 1 \in 1..Len(longer[len].lines)
        BY <3>0, <3>1, <3>5
      <4>2. /\ IsEvent(longer[len].lines[Len(old.lines) + 1])
            /\ end + 1 = longer[len].from + (Len(old.lines) + 1)
        <5>1. longer[len].lines[Len(old.lines) + 1] = v
          BY <3>0, <3>5, Zenon
        <5>2. ASSUME NEW a \in Nat, NEW b \in Nat PROVE (a + b) + 1 = a + (b + 1)
          OBVIOUS
        <5>3. (old.from + Len(old.lines)) + 1 = old.from + (Len(old.lines) + 1)
          BY <3>1, <5>2, Zenon
        <5>4. end + 1 = (old.from + Len(old.lines)) + 1
          BY <3>1, Zenon
        <5>5. longer[len].from = old.from
          BY <3>0, Zenon
        <5> QED
          BY <3>4, <5>1, <5>3, <5>4, <5>5, Zenon
      <4> QED
        BY <3>0, <3>6, <4>1, <4>2, Zenon
    <3> QED
      BY <3>2, <3>3, <3>4 DEF added
  <2>8. ASSUME Next
        PROVE  /\ \A n \in 1..len : Verified(ranges[n]) => Verified(longer[n])
               /\ InFile(ranges) => InFile(longer)
    <3>1. \A n \in 1..len : Verified(ranges[n]) => Verified(longer[n])
      BY <2>3, <2>4, <2>8
    <3> QED
      BY <2>3, <3>1 DEF InFile, len
  <2> QED
    BY <1>5, <2>3, <2>5, <2>6, <2>7, <2>8, <1>1
<1>7. CASE ~(ranges # <<>> /\ Len(Last1(ranges).lines) < RangeLines)
  <2> DEFINE q == [from |-> end, lines |-> <<v>>]
  <2>1. longer = Append(ranges, q)
    BY <1>7 DEF ExtendRanges, EndOf, end
  <2>2. /\ q \in RangeType /\ q.from = end /\ Len(q.lines) = 1 /\ q.lines[1] = v
        /\ End(q) = end + 1
        /\ Next => Verified(q)
    BY <1>1, NewRange DEF Next
  <2> HIDE DEF q
  <2>3. /\ longer \in Seq(RangeType) /\ Len(longer) = len + 1 /\ longer[len + 1] = q
        /\ \A n \in 1..len : longer[n] = ranges[n]
    BY <1>1, <2>1, <2>2 DEF len
  <2> HIDE DEF longer
  <2>4. Chained(longer)
    <3>1. ASSUME NEW n \in 1..(len + 1)
          PROVE  longer[n].from = IF n = 1 THEN 0 ELSE End(longer[n - 1])
      <4>1. CASE n = len + 1 /\ len = 0
        <5>2. end = 0
          BY <1>9, <1>10, <4>1
        <5> QED
          BY <2>2, <2>3, <4>1, <5>2
      <4>2. CASE n = len + 1 /\ len # 0
        <5>1. ranges # <<>> /\ n # 1 /\ n - 1 = len /\ len \in 1..len
          BY <1>1, <1>9, <4>2
        <5> QED
          BY <1>1, <2>2, <2>3, <4>2, <5>1
      <4>3. CASE n # len + 1
        <5>1. n \in 1..len /\ (n # 1 => n - 1 \in 1..len)
          BY <1>1, <4>3
        <5> QED
          BY <1>2, <2>3, <5>1
      <4> QED
        BY <4>1, <4>2, <4>3
    <3>2. DOMAIN longer = 1..(len + 1)
      BY <2>3
    <3> QED
      BY <3>1, <3>2 DEF Chained
  <2>5. EndOf(longer) = end + 1
    <3>1. longer # <<>> /\ Last1(longer) = q
      BY <1>1, <2>3, EmptySeq DEF Last1
    <3>2. EndOf(longer) = End(Last1(longer))
      BY <3>1 DEF EndOf
    <3>3. End(q) = end + 1
      BY <2>2
    <3> QED
      BY <3>1, <3>2, <3>3, Zenon
  <2>6. IndexedEvents(longer) = IndexedEvents(ranges) \cup added
    <3>1. ASSUME NEW x, x \in IndexedEvents(longer)
          PROVE  x \in IndexedEvents(ranges) \cup added
      <4>0. PICK n \in 1..(len + 1) : \E i \in 1..Len(longer[n].lines) :
               IsEvent(longer[n].lines[i]) /\ x = longer[n].from + i
        BY <2>3, <3>1, EventOfRange
      <4>1. PICK i \in 1..Len(longer[n].lines) : IsEvent(longer[n].lines[i]) /\ x = longer[n].from + i
        BY <4>0
      <4>2. CASE n = len + 1
        <5>1. longer[n] = q /\ i = 1
          BY <2>2, <2>3, <4>1, <4>2
        <5>2. IsEvent(v) /\ x = end + 1
          BY <2>2, <4>1, <5>1
        <5> QED
          BY <5>2 DEF added
      <4>3. CASE n # len + 1
        <5>1. n \in 1..len
          BY <1>1, <4>3
        <5>2. x \in IndexedEvents(ranges)
          BY <1>8, <2>3, <4>1, <5>1
        <5> QED
          BY <5>2
      <4> QED
        BY <4>2, <4>3
    <3>2. ASSUME NEW x, x \in IndexedEvents(ranges)
          PROVE  x \in IndexedEvents(longer)
      <4>0. PICK n \in 1..len : \E i \in 1..Len(ranges[n].lines) :
               IsEvent(ranges[n].lines[i]) /\ x = ranges[n].from + i
        BY <1>8, <3>2
      <4>1. PICK i \in 1..Len(ranges[n].lines) : IsEvent(ranges[n].lines[i]) /\ x = ranges[n].from + i
        BY <4>0
      <4>2. n \in 1..(len + 1) /\ longer[n] = ranges[n]
        BY <1>1, <2>3
      <4> QED
        BY <2>3, <4>1, <4>2, EventOfRange
    <3>3. ASSUME IsEvent(v) PROVE end + 1 \in IndexedEvents(longer)
      <4>1. len + 1 \in 1..(len + 1) /\ 1 \in 1..Len(longer[len + 1].lines)
        BY <1>1, <2>2, <2>3
      <4>2. IsEvent(longer[len + 1].lines[1]) /\ end + 1 = longer[len + 1].from + 1
        BY <2>2, <2>3, <3>3
      <4> QED
        BY <2>3, <4>1, <4>2, EventOfRange
    <3> QED
      BY <3>1, <3>2, <3>3 DEF added
  <2>7. ASSUME Next
        PROVE  /\ \A n \in 1..len : Verified(ranges[n]) => Verified(longer[n])
               /\ InFile(ranges) => InFile(longer)
    <3>1. \A n \in 1..len : Verified(ranges[n]) => Verified(longer[n])
      BY <2>3
    <3>2. ASSUME InFile(ranges), NEW n \in 1..(len + 1) PROVE Verified(longer[n])
      <4>1. CASE n = len + 1
        <5>1. longer[n] = q
          BY <2>3, <4>1
        <5>2. Verified(q)
          BY <2>2, <2>7
        <5> QED
          BY <5>1, <5>2, Zenon
      <4>2. CASE n # len + 1
        <5>1. n \in 1..len
          BY <1>1, <4>2
        <5> QED
          BY <3>1, <3>2, <5>1 DEF InFile, len
      <4> QED
        BY <4>1, <4>2
    <3> QED
      BY <2>3, <3>1, <3>2 DEF InFile
  <2> QED
    BY <1>5, <2>3, <2>4, <2>5, <2>6, <2>7, <1>1
<1> QED
  BY <1>6, <1>7

(* A scan extends the ranges by its records, in order.                     *)
LEMMA ExtendedFollows ==
  ASSUME NEW ranges \in Seq(RangeType), Chained(ranges), log.lines \in Seq(Values)
  PROVE  \A lines \in Seq(Values) : Follow(ranges, lines, Extended(ranges, lines))
<1> DEFINE S == {lines \in Seq(Values) : Follow(ranges, lines, Extended(ranges, lines))}
           end == EndOf(ranges)
<1>1. end \in Nat /\ Len(ranges) \in Nat
  BY ChainFacts
<1>2. <<>> \in S
  <2>1. Extended(ranges, <<>>) = ranges
    BY ExtendedByNone
  <2>2. Events(<<>>) = {} /\ Len(<<>>) = 0
    BY DEF Events
  <2>3. {end + i : i \in Events(<<>>)} = {}
    BY <2>2
  <2>4. Follow(ranges, <<>>, ranges)
    BY <1>1, <2>2, <2>3 DEF Follow
  <2> QED
    BY <2>1, <2>4
<1>3. ASSUME NEW s \in Seq(Values), NEW x \in Values, s \in S
      PROVE  Append(s, x) \in S
  <2> DEFINE mid == Extended(ranges, s)
             new == Extended(ranges, Append(s, x))
             all == Append(s, x)
             len == Len(s)
  <2>1. new = ExtendRanges(mid, x)
    BY ExtendedByOne
  <2>2. Follow(ranges, s, mid)
    BY <1>3
  <2>3. mid \in Seq(RangeType) /\ Chained(mid)
    BY <2>2 DEF Follow
  <2> HIDE DEF mid, new
  <2>4. Follow(mid, <<x>>, new)
    BY <2>1, <2>3, OneRecord
  <2>5. /\ len \in Nat /\ Len(all) = len + 1 /\ all \in Seq(Values) /\ all[len + 1] = x
        /\ \A i \in 1..len : all[i] = s[i]
        /\ DOMAIN s = 1..len /\ DOMAIN all = 1..(len + 1)
    OBVIOUS
  <2> HIDE DEF all, len
  <2>6. /\ EndOf(mid) = end + len /\ Len(ranges) <= Len(mid)
        /\ IndexedEvents(mid) = IndexedEvents(ranges) \cup {end + i : i \in Events(s)}
    BY <2>2 DEF Follow, len
  <2>7. Len(mid) \in Nat /\ Len(new) \in Nat
    BY <2>3, <2>4 DEF Follow
  <2>8. /\ new \in Seq(RangeType) /\ Chained(new)
        /\ EndOf(new) = EndOf(mid) + 1 /\ Len(mid) <= Len(new)
        /\ IndexedEvents(new) = IndexedEvents(mid) \cup {EndOf(mid) + i : i \in Events(<<x>>)}
    <3>1. Len(<<x>>) = 1
      OBVIOUS
    <3> QED
      BY <2>4, <3>1 DEF Follow
  <2>9. IndexedEvents(new) = IndexedEvents(ranges) \cup {end + i : i \in Events(all)}
    <3>1. Events(<<x>>) = IF IsEvent(x) THEN {1} ELSE {}
      BY DEF Events
    <3>2. \A i : i \in Events(all) <=> i \in Events(s) \/ (IsEvent(x) /\ i = len + 1)
      <4>1. \A i : i \in 1..(len + 1) <=> i \in 1..len \/ i = len + 1
        BY <2>5
      <4>2. len + 1 \notin 1..len
        BY <2>5
      <4> QED
        BY <2>5, <4>1, <4>2 DEF Events
    <3>3. end + (len + 1) = (end + len) + 1
      BY <1>1, <2>5
    <3>4. \A y : y \in {EndOf(mid) + i : i \in Events(<<x>>)} <=> IsEvent(x) /\ y = end + (len + 1)
      BY <2>6, <3>1, <3>3
    <3>5. \A y : y \in {end + i : i \in Events(all)}
                   <=> y \in {end + i : i \in Events(s)} \/ (IsEvent(x) /\ y = end + (len + 1))
      BY <3>2
    <3> QED
      BY <2>6, <2>8, <3>4, <3>5
  <2>10. ASSUME \A i \in 1..(len + 1) : end + i <= Len(log.lines) /\ log.lines[end + i] = all[i]
         PROVE  /\ \A n \in 1..Len(ranges) : Verified(ranges[n]) => Verified(new[n])
                /\ InFile(ranges) => InFile(new)
    <3>1. \A i \in 1..len : end + i <= Len(log.lines) /\ log.lines[end + i] = s[i]
      <4>1. \A i \in 1..len : i \in 1..(len + 1)
        BY <2>5
      <4> QED
        BY <2>5, <2>10, <4>1
    <3>2. /\ \A n \in 1..Len(ranges) : Verified(ranges[n]) => Verified(mid[n])
          /\ InFile(ranges) => InFile(mid)
      BY <2>2, <3>1 DEF Follow, len
    <3>3. \A i \in 1..1 : EndOf(mid) + i <= Len(log.lines) /\ log.lines[EndOf(mid) + i] = <<x>>[i]
      <4>1. len + 1 \in 1..(len + 1) /\ end + (len + 1) = EndOf(mid) + 1
        BY <1>1, <2>5, <2>6
      <4>2. EndOf(mid) + 1 <= Len(log.lines) /\ log.lines[EndOf(mid) + 1] = x
        BY <2>5, <2>10, <4>1
      <4>3. \A i \in 1..1 : i = 1
        OBVIOUS
      <4>4. <<x>>[1] = x
        OBVIOUS
      <4> QED
        BY <4>2, <4>3, <4>4, Zenon
    <3>4. Len(<<x>>) = 1
      OBVIOUS
    <3>5. /\ \A n \in 1..Len(mid) : Verified(mid[n]) => Verified(new[n])
          /\ InFile(mid) => InFile(new)
      BY <2>4, <3>3, <3>4, Zenon DEF Follow
    <3>6. \A n \in 1..Len(ranges) : n \in 1..Len(mid)
      BY <1>1, <2>6, <2>7
    <3> QED
      BY <3>2, <3>5, <3>6, Zenon
  <2>11. EndOf(new) = end + (len + 1) /\ Len(ranges) <= Len(new)
    BY <1>1, <2>5, <2>6, <2>7, <2>8
  <2>12. Follow(ranges, all, new)
    BY <2>5, <2>8, <2>9, <2>10, <2>11, Zenon DEF Follow
  <2> QED
    BY <2>5, <2>12 DEF all, new
<1> HIDE DEF S
<1>4. \A lines \in Seq(Values) : lines \in S
  BY <1>2, <1>3, SequenceInduction
<1> QED
  BY <1>4 DEF S

(* What a chain holds lies within it, and is finite.                       *)
LEMMA EventsWithin ==
  ASSUME NEW ranges \in Seq(RangeType), Chained(ranges), log.lines \in Seq(Values)
  PROVE  /\ IndexedEvents(ranges) \subseteq 1..EndOf(ranges)
         /\ IsFiniteSet(IndexedEvents(ranges))
         /\ Cardinality(IndexedEvents(ranges)) \in 0..EndOf(ranges)
<1>1. EndOf(ranges) \in Nat
  BY ChainFacts
<1>2. ASSUME NEW x, x \in IndexedEvents(ranges) PROVE x \in 1..EndOf(ranges)
  <2>1. PICK n \in 1..Len(ranges) : \E i \in 1..Len(ranges[n].lines) :
           IsEvent(ranges[n].lines[i]) /\ x = ranges[n].from + i
    BY <1>2, EventOfRange
  <2>2. PICK i \in 1..Len(ranges[n].lines) : x = ranges[n].from + i
    BY <2>1
  <2>3. ranges[n] \in RangeType /\ End(ranges[n]) <= EndOf(ranges)
    BY ChainFacts
  <2>4. /\ ranges[n].from \in Nat /\ Len(ranges[n].lines) \in Nat
        /\ End(ranges[n]) = ranges[n].from + Len(ranges[n].lines)
    BY <2>3, RangeFacts
  <2> QED
    BY <1>1, <2>2, <2>3, <2>4
<1>3. IsFiniteSet(1..EndOf(ranges)) /\ Cardinality(1..EndOf(ranges)) = EndOf(ranges)
  BY <1>1, FS_Interval
<1>4. IndexedEvents(ranges) \subseteq 1..EndOf(ranges)
  BY <1>2
<1>5. /\ IsFiniteSet(IndexedEvents(ranges))
      /\ Cardinality(IndexedEvents(ranges)) <= Cardinality(1..EndOf(ranges))
  BY <1>3, <1>4, FS_Subset
<1>6. Cardinality(IndexedEvents(ranges)) \in Nat
  BY <1>5, FS_CardinalityType
<1> QED
  BY <1>1, <1>3, <1>4, <1>5, <1>6

(***************************************************************************)
(* The inductive invariant.                                                *)
(***************************************************************************)
Marks == [size : Int, mtime : Int]
Rows  == [there : BOOLEAN, missing : BOOLEAN, inode : Nat, size : Int, mtime : Int,
          offset : Nat, count : Nat, prefix : Seq(Values), anchor : Seq(Values),
          ready : Nat, frontier : Nat, seal : Marks, audited : Marks, after : Nat,
          ranges : Seq(RangeType)]
Files == [inode : Nat, lines : Seq(Values), torn : BOOLEAN, mtime : Nat]
Stats == [inode : Nat, size : Int, mtime : Nat]
Tasks == [kind : {"none", "index", "query", "ready", "audit"}, pin : Stats, base : Rows,
          read : Seq(Values \cup {"verified"}), at : Nat, hits : SUBSET Nat]

TypesHold ==
  /\ log \in Files /\ Len(log.lines) <= MaxLines /\ log.mtime <= MaxWrites
  /\ row \in Rows
  /\ task \in Tasks
  /\ pages \in [live : BOOLEAN, served : Nat, held : SUBSET Nat]
  /\ reply \in [given : BOOLEAN, hits : SUBSET Nat, upto : Nat]

(* A range's lines are where it says in the file.                          *)
Borne(f, r) ==
  (IF End(r) <= Len(f.lines) THEN SubSeq(f.lines, r.from + 1, End(r)) ELSE <<>>) = r.lines

(* A row's ranges are one chain, what it counts are its events, and those  *)
(* ready are the ones up to its frontier.                                  *)
RowSound(r) ==
  /\ Chained(r.ranges) /\ r.offset = EndOf(r.ranges) /\ r.offset <= MaxLines
  /\ r.count = Cardinality(IndexedEvents(r.ranges))
  /\ r.ready = Cardinality({i \in IndexedEvents(r.ranges) : i <= r.frontier})
  /\ r.frontier <= r.offset
  /\ r.after <= Len(r.ranges)

(* Its seal and its audit cursor are not of the future, and say the truth  *)
(* of the file they name.                                                  *)
Vouched(f, r) ==
  /\ r.seal.mtime <= f.mtime /\ r.audited.mtime <= f.mtime
  /\ r.inode = f.inode /\ r.seal = Span(Stat(f)) =>
       \A n \in 1..Len(r.ranges) : Borne(f, r.ranges[n])
  /\ r.inode = f.inode /\ r.audited = Span(Stat(f)) =>
       \A n \in 1..r.after : Borne(f, r.ranges[n])

(* A row nothing was indexed into yet.                                     *)
Unread(r) == r.ranges = <<>> /\ r.seal = Never /\ r.audited = Never /\ r.after = 0

(* The hits up to the frontier in the ranges before the k-th, and in all.  *)
HitsBefore(r, k) ==
  UNION {{r.ranges[n].from + i : i \in HitsIn(r.ranges[n].lines, r.frontier - r.ranges[n].from)}
            : n \in 1..(k - 1)}
RowHits(r) == HitsBefore(r, Len(r.ranges) + 1)

(* A scan continues the row, or an unread one, with the file's next lines. *)
IndexSound(f, r, t) ==
  /\ t.base = r \/ Unread(t.base)
  /\ t.at \in {0, 1}
  /\ t.at = 1 => /\ t.read \in Seq(Values) /\ t.base.offset + Len(t.read) <= MaxLines
                 /\ Stat(f) = t.pin =>
                      \A i \in 1..Len(t.read) : /\ t.base.offset + i <= Len(f.lines)
                                                /\ f.lines[t.base.offset + i] = t.read[i]

(* Whoever reads ranges is somewhere in the row's chain; behind a query or *)
(* an audit lies only what the pinned file bears out.                      *)
ReadSound(f, r, t) ==
  /\ t.base = r /\ r.inode = t.pin.inode
  /\ t.at \in 1..(Len(r.ranges) + 1)
  /\ t.kind # "ready" /\ Stat(f) = t.pin => \A n \in 1..(t.at - 1) : Borne(f, r.ranges[n])

ReadySound(r, t) ==
  /\ t.at <= Len(r.ranges)
  /\ \A n \in 1..(t.at - 1) : \A i \in Events(r.ranges[n].lines) :
       r.ranges[n].from + i <= r.frontier

TaskSound(f, r, t, p) ==
  /\ t.pin.mtime <= f.mtime
  /\ RowSound(t.base)
  /\ t.kind = "index" => IndexSound(f, r, t)
  /\ t.kind \in {"query", "ready", "audit"} => ReadSound(f, r, t)
  /\ t.kind = "query" => t.hits = HitsBefore(r, t.at) /\ p.live
  /\ t.kind = "ready" => ReadySound(r, t)

(* The pages of a live cursor are the first hits of the row.               *)
PagesSound(r, p) ==
  p.live => /\ IsFiniteSet(p.held) /\ Cardinality(p.held) = p.served
            /\ p.held \subseteq RowHits(r)
            /\ \A h \in p.held, g \in RowHits(r) : g < h => g \in p.held

ReplySound(f, r, t, p, y) ==
  y.given => /\ t.kind = "none" /\ p.live
             /\ y.hits = RowHits(r)
             /\ y.hits = HitsIn(f.lines, y.upto)

SourceInv ==
  /\ TypesHold
  /\ RowSound(row) /\ Vouched(log, row)
  /\ TaskSound(log, row, task, pages)
  /\ PagesSound(row, pages)
  /\ ReplySound(log, row, task, pages, reply)

(***************************************************************************)
(* Rows.                                                                   *)
(***************************************************************************)
(* Verified speaks of the file as it is.                                   *)
LEMMA VerifiedIsBorne == \A r : Verified(r) <=> Borne(log, r)
  BY DEF Verified, Bytes, Borne

(* A file borne out by its lines, one by one.                              *)
LEMMA BorneFacts ==
  ASSUME NEW r \in RangeType, log.lines \in Seq(Values)
  PROVE  Borne(log, r) <=> \A i \in 1..Len(r.lines) : /\ r.from + i <= Len(log.lines)
                                                     /\ log.lines[r.from + i] = r.lines[i]
  BY VerifiedIsBorne, RangeFacts

(* What a hit before the k-th range is.                                    *)
LEMMA HitOfRange ==
  ASSUME NEW r \in Rows, NEW k \in 1..(Len(r.ranges) + 1)
  PROVE  \A x : x \in HitsBefore(r, k) <=>
           \E n \in 1..(k - 1) : \E i \in 1..Len(r.ranges[n].lines) :
              r.ranges[n].lines[i] = "hit" /\ r.ranges[n].from + i <= r.frontier
              /\ x = r.ranges[n].from + i
<1>1. r.ranges \in Seq(RangeType) /\ r.frontier \in Nat
  BY DEF Rows
<1>2. ASSUME NEW n \in 1..(k - 1)
      PROVE  \A i : i \in HitsIn(r.ranges[n].lines, r.frontier - r.ranges[n].from) <=>
               /\ i \in 1..Len(r.ranges[n].lines) /\ r.ranges[n].lines[i] = "hit"
               /\ r.ranges[n].from + i <= r.frontier
  <2>1. n \in 1..Len(r.ranges)
    BY <1>1
  <2>2. r.ranges[n] \in RangeType
    BY <1>1, <2>1
  <2>3. r.ranges[n].from \in Nat /\ DOMAIN r.ranges[n].lines = 1..Len(r.ranges[n].lines)
        /\ Len(r.ranges[n].lines) \in Nat
    BY <2>2 DEF RangeType
  <2>4. \A i \in 1..Len(r.ranges[n].lines) :
          i <= r.frontier - r.ranges[n].from <=> r.ranges[n].from + i <= r.frontier
    <3>1. ASSUME NEW a \in Nat, NEW b \in Nat, NEW i \in 1..b, NEW c \in Nat
          PROVE  i <= c - a <=> a + i <= c
      OBVIOUS
    <3> QED
      BY <1>1, <2>3, <3>1, Zenon
  <2> QED
    BY <2>3, <2>4 DEF HitsIn
<1>3. \A x : x \in HitsBefore(r, k) <=>
        \E n \in 1..(k - 1) : \E i \in HitsIn(r.ranges[n].lines, r.frontier - r.ranges[n].from) :
           x = r.ranges[n].from + i
  BY DEF HitsBefore
<1> DEFINE Hit(x) == \E n \in 1..(k - 1) : \E i \in 1..Len(r.ranges[n].lines) :
                       r.ranges[n].lines[i] = "hit" /\ r.ranges[n].from + i <= r.frontier
                       /\ x = r.ranges[n].from + i
<1>4. ASSUME NEW x, x \in HitsBefore(r, k) PROVE Hit(x)
  <2>1. PICK n \in 1..(k - 1) : \E i \in HitsIn(r.ranges[n].lines, r.frontier - r.ranges[n].from) :
           x = r.ranges[n].from + i
    BY <1>3, <1>4, Zenon
  <2>2. PICK i \in HitsIn(r.ranges[n].lines, r.frontier - r.ranges[n].from) :
           x = r.ranges[n].from + i
    BY <2>1, Zenon
  <2>3. /\ i \in 1..Len(r.ranges[n].lines) /\ r.ranges[n].lines[i] = "hit"
        /\ r.ranges[n].from + i <= r.frontier
    BY <1>2, Zenon
  <2> QED
    BY <2>2, <2>3, Zenon
<1>5. ASSUME NEW x, Hit(x) PROVE x \in HitsBefore(r, k)
  <2>1. PICK n \in 1..(k - 1) : \E i \in 1..Len(r.ranges[n].lines) :
           r.ranges[n].lines[i] = "hit" /\ r.ranges[n].from + i <= r.frontier
           /\ x = r.ranges[n].from + i
    BY <1>5, Zenon
  <2>2. PICK i \in 1..Len(r.ranges[n].lines) :
           r.ranges[n].lines[i] = "hit" /\ r.ranges[n].from + i <= r.frontier
           /\ x = r.ranges[n].from + i
    BY <2>1, Zenon
  <2>3. i \in HitsIn(r.ranges[n].lines, r.frontier - r.ranges[n].from)
    BY <1>2, <2>2, Zenon
  <2> QED
    BY <1>3, <2>2, <2>3, Zenon
<1> QED
  BY <1>4, <1>5, Zenon

(* One range more.                                                         *)
LEMMA HitsOneMore ==
  ASSUME NEW r \in Rows, NEW k \in 1..Len(r.ranges)
  PROVE  /\ HitsBefore(r, k + 1) = HitsBefore(r, k)
              \cup {r.ranges[k].from + i : i \in HitsIn(r.ranges[k].lines, r.frontier - r.ranges[k].from)}
         /\ ~MayMatch(r.ranges[k]) => HitsBefore(r, k + 1) = HitsBefore(r, k)
<1>1. r.ranges \in Seq(RangeType) /\ Len(r.ranges) \in Nat
  BY DEF Rows
<1> DEFINE new == {r.ranges[k].from + i : i \in HitsIn(r.ranges[k].lines, r.frontier - r.ranges[k].from)}
<1>2. \A n : n \in 1..((k + 1) - 1) <=> n \in 1..(k - 1) \/ n = k
  BY <1>1
<1>3. HitsBefore(r, k + 1) = HitsBefore(r, k) \cup new
  BY <1>2 DEF HitsBefore
<1>4. ASSUME ~MayMatch(r.ranges[k]) PROVE new = {}
  BY <1>4 DEF MayMatch, HitsIn
<1> QED
  BY <1>3, <1>4

(* Nothing is before the first range.                                      *)
LEMMA HitsAtFirst ==
  ASSUME NEW r
  PROVE  HitsBefore(r, 1) = {}
  BY DEF HitsBefore

(* No event of a row is ready while its count of ready ones is zero.       *)
LEMMA NothingReady ==
  ASSUME NEW r \in Rows, RowSound(r), r.ready = 0, log.lines \in Seq(Values)
  PROVE  \A i \in IndexedEvents(r.ranges) : ~(i <= r.frontier)
<1> DEFINE ready == {i \in IndexedEvents(r.ranges) : i <= r.frontier}
<1>1. r.ranges \in Seq(RangeType) /\ Chained(r.ranges)
  BY DEF Rows, RowSound
<1>2. IsFiniteSet(IndexedEvents(r.ranges))
  BY <1>1, EventsWithin
<1>3. IsFiniteSet(ready)
  BY <1>2, FS_Subset
<1>4. Cardinality(ready) = 0
  BY DEF RowSound
<1>5. ready = {}
  BY <1>3, <1>4, FS_EmptySet
<1> QED
  BY <1>5

(* A hit is an event.                                                      *)
LEMMA HitsAreEvents ==
  ASSUME NEW r \in Rows, NEW k \in 1..(Len(r.ranges) + 1)
  PROVE  \A x \in HitsBefore(r, k) : x \in IndexedEvents(r.ranges) /\ x <= r.frontier
<1>1. r.ranges \in Seq(RangeType) /\ Len(r.ranges) \in Nat
  BY DEF Rows
<1>2. ASSUME NEW x \in HitsBefore(r, k)
      PROVE  x \in IndexedEvents(r.ranges) /\ x <= r.frontier
  <2>1. PICK n \in 1..(k - 1) : \E i \in 1..Len(r.ranges[n].lines) :
           /\ r.ranges[n].lines[i] = "hit" /\ r.ranges[n].from + i <= r.frontier
           /\ x = r.ranges[n].from + i
    BY HitOfRange
  <2>2. PICK i \in 1..Len(r.ranges[n].lines) :
           /\ r.ranges[n].lines[i] = "hit" /\ r.ranges[n].from + i <= r.frontier
           /\ x = r.ranges[n].from + i
    BY <2>1
  <2>3. n \in 1..Len(r.ranges) /\ IsEvent(r.ranges[n].lines[i])
    BY <1>1, <2>2 DEF IsEvent
  <2>4. x \in IndexedEvents(r.ranges)
    BY <1>1, <2>2, <2>3, EventOfRange
  <2> QED
    BY <2>2, <2>4
<1> QED
  BY <1>2

(* A walk that has come beyond the frontier, through ranges the file bears *)
(* out, has every hit of the row and of the file up to the frontier.       *)
LEMMA WalkedIsExact ==
  ASSUME NEW r \in Rows, RowSound(r), log.lines \in Seq(Values),
         NEW k \in 1..(Len(r.ranges) + 1), Beyond(r, k),
         \A n \in 1..(k - 1) : Borne(log, r.ranges[n])
  PROVE  /\ HitsBefore(r, k) = RowHits(r)
         /\ HitsBefore(r, k) = HitsIn(log.lines, IF r.ready = 0 THEN 0 ELSE r.frontier)
<1> DEFINE ranges == r.ranges
           len == Len(r.ranges)
<1>1. /\ ranges \in Seq(RangeType) /\ Chained(ranges) /\ r.frontier \in Nat
      /\ r.frontier <= EndOf(ranges)
  BY DEF Rows, RowSound
<1>2. /\ EndOf(ranges) \in Nat /\ len \in Nat /\ DOMAIN ranges = 1..len
      /\ \A n \in 1..len : ranges[n] \in RangeType /\ End(ranges[n]) <= EndOf(ranges)
      /\ \A n \in 1..len : \A m \in 1..(n - 1) : End(ranges[m]) <= ranges[n].from
      /\ \A n \in 1..len : \A i \in 1..End(ranges[n]) :
           \E m \in 1..n : i - ranges[m].from \in 1..Len(ranges[m].lines)
  BY <1>1, ChainFacts
<1>3. \A n \in 1..len : /\ ranges[n].from \in Nat /\ Len(ranges[n].lines) \in Nat
                        /\ End(ranges[n]) = ranges[n].from + Len(ranges[n].lines)
  BY <1>2, RangeFacts
<1>4. \A n \in 1..(k - 1) : n \in 1..len
  BY <1>2
<1>5. /\ len + 1 \in 1..(len + 1)
      /\ \A n : n \in 1..((len + 1) - 1) <=> n \in 1..len
  BY <1>2
<1>6. \A x : x \in RowHits(r) <=>
        \E n \in 1..len : \E i \in 1..Len(ranges[n].lines) :
          ranges[n].lines[i] = "hit" /\ ranges[n].from + i <= r.frontier /\ x = ranges[n].from + i
  <2>1. RowHits(r) = HitsBefore(r, len + 1)
    BY DEF RowHits
  <2>2. \A x : x \in HitsBefore(r, len + 1) <=>
          \E n \in 1..((len + 1) - 1) : \E i \in 1..Len(ranges[n].lines) :
            ranges[n].lines[i] = "hit" /\ ranges[n].from + i <= r.frontier /\ x = ranges[n].from + i
    BY <1>5, HitOfRange
  <2>3. (len + 1) - 1 = len
    BY <1>2
  <2> HIDE DEF ranges, len
  <2> QED
    BY <2>1, <2>2, <2>3
<1>7. \A x : x \in HitsBefore(r, k) <=>
        \E n \in 1..(k - 1) : \E i \in 1..Len(ranges[n].lines) :
          ranges[n].lines[i] = "hit" /\ ranges[n].from + i <= r.frontier /\ x = ranges[n].from + i
  BY HitOfRange
<1>8. \A n \in 1..(k - 1) : \A i \in 1..Len(ranges[n].lines) :
        ranges[n].from + i <= Len(log.lines) /\ log.lines[ranges[n].from + i] = ranges[n].lines[i]
  BY <1>2, <1>4, BorneFacts
<1>9. \A x \in HitsBefore(r, k) : x \in RowHits(r)
  BY <1>4, <1>6, <1>7
<1> HIDE DEF ranges, len
<1>10. CASE r.ready = 0
  <2>1. RowHits(r) = {}
    BY <1>5, <1>10, NothingReady, HitsAreEvents DEF RowHits, len
  <2>2. HitsIn(log.lines, 0) = {}
    BY DEF HitsIn
  <2> QED
    BY <1>9, <1>10, <2>1, <2>2
<1>11. CASE r.ready # 0
  <2>1. k = len + 1 \/ (k \in 1..len /\ ranges[k].from >= r.frontier)
    <3>1. k > len \/ ranges[k].from >= r.frontier
      BY <1>11 DEF Beyond, ranges, len
    <3> QED
      BY <1>2, <3>1 DEF len
  <2>2. ASSUME NEW n \in 1..len, n \notin 1..(k - 1)
        PROVE  ranges[n].from >= r.frontier
    <3>1. k \in 1..len /\ ranges[k].from >= r.frontier /\ k <= n
      BY <1>2, <2>1, <2>2 DEF len
    <3>2. CASE n = k
      BY <3>1, <3>2
    <3>3. CASE n # k
      <4>1. k \in 1..(n - 1)
        BY <1>2, <3>1, <3>3
      <4>2. End(ranges[k]) <= ranges[n].from
        BY <1>2, <4>1
      <4>3. ranges[k].from <= End(ranges[k]) /\ End(ranges[k]) \in Nat
        BY <1>3, <3>1
      <4> QED
        BY <1>1, <1>3, <3>1, <4>2, <4>3
    <3> QED
      BY <3>2, <3>3
  <2>3. ASSUME NEW x \in RowHits(r) PROVE x \in HitsBefore(r, k)
    <3>1. PICK n \in 1..len : \E i \in 1..Len(ranges[n].lines) :
             ranges[n].lines[i] = "hit" /\ ranges[n].from + i <= r.frontier /\ x = ranges[n].from + i
      BY <1>6
    <3>2. PICK i \in 1..Len(ranges[n].lines) :
             ranges[n].lines[i] = "hit" /\ ranges[n].from + i <= r.frontier /\ x = ranges[n].from + i
      BY <3>1
    <3>3. n \in 1..(k - 1)
      <4>1. ASSUME NEW a \in Nat, NEW b \in Nat, NEW m \in 1..b, NEW c \in Nat, a + m <= c
            PROVE  ~(a >= c)
        BY <4>1
      <4>2. ~(ranges[n].from >= r.frontier)
        BY <1>1, <1>3, <3>2, <4>1, Zenon
      <4> QED
        BY <2>2, <4>2, Zenon
    <3>4. \E m \in 1..(k - 1) : \E h \in 1..Len(ranges[m].lines) :
            ranges[m].lines[h] = "hit" /\ ranges[m].from + h <= r.frontier /\ x = ranges[m].from + h
      BY <3>2, <3>3
    <3> QED
      BY <1>7, <3>4
  <2>4. ASSUME NEW x \in HitsBefore(r, k)
        PROVE  x \in HitsIn(log.lines, r.frontier)
    <3>1. PICK n \in 1..(k - 1) : \E i \in 1..Len(ranges[n].lines) :
             ranges[n].lines[i] = "hit" /\ ranges[n].from + i <= r.frontier /\ x = ranges[n].from + i
      BY <1>7
    <3>2. PICK i \in 1..Len(ranges[n].lines) :
             ranges[n].lines[i] = "hit" /\ ranges[n].from + i <= r.frontier /\ x = ranges[n].from + i
      BY <3>1
    <3>3. x <= Len(log.lines) /\ log.lines[x] = "hit" /\ x <= r.frontier
      BY <1>8, <3>2
    <3>4. x \in Nat /\ x >= 1
      <4>1. ASSUME NEW a \in Nat, NEW b \in Nat, NEW m \in 1..b PROVE a + m \in Nat /\ a + m >= 1
        OBVIOUS
      <4> QED
        BY <1>3, <1>4, <3>2, <4>1, Zenon
    <3>5. DOMAIN log.lines = 1..Len(log.lines) /\ Len(log.lines) \in Nat
      OBVIOUS
    <3>6. x \in DOMAIN log.lines
      BY <3>3, <3>4, <3>5
    <3> QED
      BY <3>3, <3>6, Zenon DEF HitsIn
  <2>5. ASSUME NEW x \in HitsIn(log.lines, r.frontier)
        PROVE  x \in HitsBefore(r, k)
    <3>1. x \in 1..Len(log.lines) /\ log.lines[x] = "hit" /\ x <= r.frontier /\ x \in Nat /\ x >= 1
      BY DEF HitsIn
    <3>2. PICK e \in 1..len : e <= k - 1 /\ x \in 1..End(ranges[e])
      <4>1. k # 1
        <5>1. CASE k = 1 /\ len = 0
          <6>1. EndOf(ranges) = 0
            BY <5>1, EmptySeq, <1>1 DEF EndOf, len, ranges
          <6> QED
            BY <1>1, <3>1, <6>1
        <5>2. CASE k = 1 /\ len # 0
          <6>1. 1 \in 1..len /\ ranges[1].from >= r.frontier
            BY <1>2, <2>1, <5>2
          <6>2. ranges[1].from = 0
            BY <1>1, <1>2, <6>1 DEF Chained
          <6> QED
            BY <1>1, <3>1, <6>1, <6>2
        <5> QED
          BY <5>1, <5>2
      <4>2. k - 1 \in 1..len
        BY <1>2, <4>1 DEF len
      <4>3. CASE k = len + 1
        <5>1. ranges # <<>> /\ Last1(ranges) = ranges[k - 1]
          BY <1>1, <1>2, <4>2, <4>3, EmptySeq DEF Last1, len, ranges
        <5>2. End(ranges[k - 1]) = EndOf(ranges)
          BY <5>1, Zenon DEF EndOf
        <5>3. x \in 1..End(ranges[k - 1])
          BY <1>1, <1>2, <3>1, <5>2
        <5> QED
          BY <1>2, <4>2, <5>3
      <4>4. CASE k \in 1..len /\ ranges[k].from >= r.frontier
        <5>1. ranges[k].from = End(ranges[k - 1])
          BY <1>1, <1>2, <4>1, <4>4 DEF Chained
        <5>2. x \in 1..End(ranges[k - 1])
          BY <1>1, <1>3, <3>1, <4>4, <5>1
        <5> QED
          BY <1>2, <4>2, <5>2
      <4> QED
        BY <2>1, <4>3, <4>4
    <3>3. PICK n \in 1..e : x - ranges[n].from \in 1..Len(ranges[n].lines)
      BY <1>2, <3>2
    <3>4. n \in 1..(k - 1) /\ n \in 1..len
      BY <1>2, <3>2 DEF len
    <3> DEFINE i == x - ranges[n].from
    <3>5. i \in 1..Len(ranges[n].lines) /\ ranges[n].from + i = x
      BY <1>3, <3>1, <3>3, <3>4
    <3> HIDE DEF i
    <3>6. ranges[n].lines[i] = "hit"
      BY <1>8, <3>1, <3>4, <3>5
    <3> QED
      BY <1>7, <3>1, <3>4, <3>5, <3>6
  <2> QED
    BY <1>9, <1>11, <2>3, <2>4, <2>5
<1> QED
  BY <1>10, <1>11

(* The set of the elements of a finite set of numbers has a greatest one.  *)
LEMMA GreatestNumber ==
  ASSUME NEW n \in Nat, NEW S \in SUBSET (1..n), S # {}
  PROVE  \E m \in S : \A y \in S : y <= m
<1> DEFINE T == {n - y : y \in S}
<1>1. T \in SUBSET Nat /\ T # {}
  <2>1. \A y \in S : n - y \in Nat
    OBVIOUS
  <2>2. T \in SUBSET Nat
    BY <2>1
  <2> QED
    BY <2>2, Zenon
<1>2. PICK t \in T : \A y \in T : t <= y
  BY <1>1, LeastNumber
<1>3. PICK m \in S : t = n - m
  OBVIOUS
<1>4. ASSUME NEW y \in S PROVE y <= m
  <2>1. n - y \in T
    OBVIOUS
  <2>2. n - m <= n - y
    BY <1>2, <1>3, <2>1
  <2> QED
    BY <2>2
<1> QED
  BY <1>4

(* No row at all, and an unread one, are sound.                            *)
LEMMA UnreadSound ==
  ASSUME NEW r \in Rows, r.ranges = <<>>, r.offset = 0, r.count = 0, r.ready = 0,
         r.frontier = 0, r.after = 0
  PROVE  RowSound(r)
<1>1. IndexedEvents(r.ranges) = {}
  BY DEF IndexedEvents
<1>2. {i \in IndexedEvents(r.ranges) : i <= r.frontier} = {}
  BY <1>1
<1>3. Cardinality({}) = 0
  BY FS_EmptySet
<1>4. Chained(r.ranges) /\ EndOf(r.ranges) = 0 /\ Len(r.ranges) = 0
  BY DEF Chained, EndOf
<1>5. 0 <= MaxLines
  BY SourceConstants DEF SourceConstants
<1>6. /\ r.count = Cardinality(IndexedEvents(r.ranges))
      /\ r.ready = Cardinality({i \in IndexedEvents(r.ranges) : i <= r.frontier})
  BY <1>1, <1>2, <1>3, Zenon
<1>7. /\ Chained(r.ranges) /\ r.offset = EndOf(r.ranges) /\ r.offset <= MaxLines
      /\ r.frontier <= r.offset /\ r.after <= Len(r.ranges)
  BY <1>4, <1>5
<1> QED
  BY <1>6, <1>7, Zenon DEF RowSound

(* No file has the mark of one never seen.                                 *)
LEMMA NeverIsNoFile ==
  ASSUME NEW f \in Files
  PROVE  Never # Span(Stat(f)) /\ Never.mtime <= f.mtime
<1>1. Span(Stat(f)).size = Size(f) /\ Never.size = -1
  BY DEF Span, Stat, Never
<1>2. Len(f.lines) \in Nat /\ f.mtime \in Nat
  BY DEF Files
<1>3. Size(f) # -1
  <2>1. (IF f.torn THEN 1 ELSE 0) \in {0, 1}
    OBVIOUS
  <2>2. ASSUME NEW n \in Nat, NEW b \in {0, 1} PROVE 2 * n + b # -1
    OBVIOUS
  <2> QED
    BY <1>2, <2>1, <2>2 DEF Size
<1> QED
  BY <1>1, <1>2, <1>3 DEF Never

(* An unread row vouches for nothing.                                      *)
LEMMA UnreadVouches ==
  ASSUME NEW f \in Files, NEW r, Unread(r)
  PROVE  Vouched(f, r)
  BY NeverIsNoFile DEF Unread, Vouched

(* The row after a scan, field by field.                                   *)
LEMMA IndexedFields ==
  ASSUME NEW base \in Rows, NEW read \in Seq(Values), task \in Tasks, log.lines \in Seq(Values),
         RowSound(base)
  PROVE  LET new == Indexed(base, read)
             events == {base.offset + i : i \in Events(read)}
         IN /\ new.inode = base.inode /\ new.seal = base.seal /\ new.audited = base.audited
            /\ new.after = base.after
            /\ new.offset = base.offset + Len(read)
            /\ new.count = base.count + Cardinality(events)
            /\ new.ranges = Extended(base.ranges, read)
            /\ new.ready = IF base.ready = base.count THEN new.count ELSE base.ready
            /\ new.frontier = IF base.ready = base.count /\ events # {}
                              THEN CHOOSE i \in events : \A j \in events : j <= i
                              ELSE base.frontier
            /\ (new.count \in Nat /\ new.frontier \in Nat => new \in Rows)
<1> DEFINE new == Indexed(base, read)
           events == {base.offset + i : i \in Events(read)}
           count == base.count + Cardinality(events)
           ranges == Extended(base.ranges, read)
           frontier == IF base.ready = base.count /\ events # {}
                       THEN CHOOSE i \in events : \A j \in events : j <= i ELSE base.frontier
           anchor == IF read = <<>> THEN base.anchor ELSE <<Last1(read)>>
           ready == IF base.ready = base.count THEN count ELSE base.ready
<1>1. ranges \in Seq(RangeType)
  <2>1. base.ranges \in Seq(RangeType) /\ Chained(base.ranges)
    BY DEF Rows, RowSound
  <2>2. Follow(base.ranges, read, ranges)
    BY <2>1, ExtendedFollows
  <2> QED
    BY <2>2 DEF Follow
<1>2. anchor \in Seq(Values)
  <2>1. base.anchor \in Seq(Values)
    BY DEF Rows
  <2>2. CASE read # <<>>
    <3>1. Len(read) \in 1..Len(read)
      BY <2>2, EmptySeq
    <3>2. Last1(read) \in Values
      BY <3>1 DEF Last1
    <3> QED
      BY <2>2, <3>2
  <2> QED
    BY <2>1, <2>2
<1>3. task.pin.size \in Int /\ task.pin.mtime \in Int
  BY DEF Tasks, Stats
<1>4. new = [base EXCEPT !.size = task.pin.size, !.mtime = task.pin.mtime,
               !.offset = base.offset + Len(read), !.count = count, !.anchor = anchor,
               !.ranges = ranges, !.ready = ready, !.frontier = frontier]
  BY DEF Indexed, Rows
<1> HIDE DEF count, ranges, frontier, anchor, ready, new
<1>5. /\ new.inode = base.inode /\ new.seal = base.seal /\ new.audited = base.audited
      /\ new.after = base.after
      /\ new.offset = base.offset + Len(read)
      /\ new.count = count /\ new.ranges = ranges /\ new.ready = ready /\ new.frontier = frontier
  BY <1>4 DEF Rows
<1>6. ASSUME count \in Nat, frontier \in Nat
      PROVE  new \in Rows
  <2>1. ready \in Nat
    BY <1>6 DEF ready, Rows
  <2>2. base.offset + Len(read) \in Nat
    BY DEF Rows
  <2> QED
    BY <1>1, <1>2, <1>3, <1>4, <1>6, <2>1, <2>2 DEF Rows
<1> QED
  BY <1>5, <1>6 DEF new, count, ranges, frontier, ready

(* A scan leaves the row sound.                                            *)
LEMMA IndexedSound ==
  ASSUME NEW base \in Rows, RowSound(base), NEW read \in Seq(Values), task \in Tasks,
         log.lines \in Seq(Values), base.offset + Len(read) <= MaxLines
  PROVE  Indexed(base, read) \in Rows /\ RowSound(Indexed(base, read))
<1> DEFINE new == Indexed(base, read)
           E == IndexedEvents(base.ranges)
           N == {base.offset + i : i \in Events(read)}
           len == Len(read)
<1>1. /\ base.ranges \in Seq(RangeType) /\ Chained(base.ranges)
      /\ base.offset = EndOf(base.ranges) /\ base.offset \in Nat
      /\ base.count = Cardinality(E) /\ base.frontier <= base.offset /\ base.frontier \in Nat
      /\ base.ready = Cardinality({i \in E : i <= base.frontier})
      /\ base.after <= Len(base.ranges) /\ base.after \in Nat
  BY DEF Rows, RowSound
<1>2. Follow(base.ranges, read, Extended(base.ranges, read))
  BY <1>1, ExtendedFollows
<1>3. /\ new.after = base.after
      /\ new.offset = base.offset + len
      /\ new.count = base.count + Cardinality(N)
      /\ new.ranges = Extended(base.ranges, read)
      /\ new.ready = IF base.ready = base.count THEN new.count ELSE base.ready
      /\ new.frontier = IF base.ready = base.count /\ N # {}
                        THEN CHOOSE i \in N : \A j \in N : j <= i ELSE base.frontier
      /\ (new.count \in Nat /\ new.frontier \in Nat => new \in Rows)
  BY IndexedFields
<1>4. len \in Nat /\ DOMAIN read = 1..len
  OBVIOUS
<1>5. IsFiniteSet(E) /\ E \subseteq 1..base.offset
  BY <1>1, EventsWithin
<1>6. \A x \in N : x \in Nat /\ x > base.offset /\ x <= base.offset + len
  BY <1>1, <1>4 DEF Events
<1>7. N \in SUBSET (1..(base.offset + len)) /\ base.offset + len \in Nat
  BY <1>1, <1>4, <1>6
<1> HIDE DEF new, E, N, len
<1>8. IsFiniteSet(N)
  <2>1. IsFiniteSet(1..(base.offset + len))
    BY <1>7, FS_Interval
  <2> QED
    BY <1>7, <2>1, FS_Subset
<1>9. Cardinality(E) \in Nat /\ Cardinality(N) \in Nat
  BY <1>5, <1>8, FS_CardinalityType
<1>10. E \cap N = {}
  BY <1>1, <1>5, <1>6
<1>11. /\ IndexedEvents(new.ranges) = E \cup N
       /\ EndOf(new.ranges) = base.offset + len /\ Chained(new.ranges)
       /\ Len(base.ranges) <= Len(new.ranges) /\ Len(new.ranges) \in Nat /\ Len(base.ranges) \in Nat
  BY <1>1, <1>2, <1>3 DEF Follow, E, N, len
<1>12. new.count = Cardinality(E \cup N)
  <2>1. Cardinality(E \cup N) = Cardinality(E) + Cardinality(N) - Cardinality(E \cap N)
    BY <1>5, <1>8, FS_Union
  <2>2. Cardinality({}) = 0
    BY FS_EmptySet
  <2>3. Cardinality(E \cap N) = 0
    BY <1>10, <2>2, Zenon
  <2>4. Cardinality(E \cup N) = Cardinality(E) + Cardinality(N)
    BY <1>9, <2>1, <2>3
  <2> QED
    BY <1>1, <1>3, <2>4
<1>13. /\ new.frontier \in Nat /\ new.frontier <= base.offset + len
       /\ new.ready = Cardinality({i \in E \cup N : i <= new.frontier})
  <2>1. CASE base.ready = base.count /\ N # {}
    <3>1. new.frontier \in N /\ \A j \in N : j <= new.frontier
      <4>1. \E m \in N : \A j \in N : j <= m
        BY <1>7, <2>1, GreatestNumber
      <4> QED
        BY <1>3, <2>1, <4>1
    <3>2. \A x \in E : x <= new.frontier
      BY <1>1, <1>5, <1>6, <3>1
    <3>3. {i \in E \cup N : i <= new.frontier} = E \cup N
      BY <3>1, <3>2
    <3> QED
      BY <1>3, <1>6, <1>12, <2>1, <3>1, <3>3
  <2>2. CASE base.ready = base.count /\ N = {}
    <3>1. new.frontier = base.frontier /\ E \cup N = E /\ Cardinality(N) = 0
      BY <1>3, <2>2, FS_EmptySet
    <3>2. new.ready = base.ready
      BY <1>1, <1>3, <1>9, <2>2, <3>1
    <3>3. new.ready = Cardinality({i \in E \cup N : i <= new.frontier})
      BY <1>1, <3>1, <3>2, Zenon
    <3> QED
      BY <1>1, <1>4, <3>1, <3>3
  <2>3. CASE base.ready # base.count
    <3>1. new.frontier = base.frontier /\ new.ready = base.ready
      BY <1>3, <2>3
    <3>2. {i \in E \cup N : i <= base.frontier} = {i \in E : i <= base.frontier}
      BY <1>1, <1>6
    <3>3. new.ready = Cardinality({i \in E \cup N : i <= new.frontier})
      BY <1>1, <3>1, <3>2, Zenon
    <3> QED
      BY <1>1, <1>4, <3>1, <3>3
  <2> QED
    BY <2>1, <2>2, <2>3
<1>14. new \in Rows
  BY <1>1, <1>3, <1>9, <1>13
<1>15. RowSound(new)
  BY <1>1, <1>3, <1>11, <1>12, <1>13 DEF RowSound, len
<1> QED
  BY <1>14, <1>15 DEF new

(* A scan of the file's next lines vouches for no more than the row did.   *)
LEMMA IndexedVouches ==
  ASSUME NEW base \in Rows, RowSound(base), Vouched(log, base),
         NEW read \in Seq(Values), task \in Tasks, log \in Files,
         \A i \in 1..Len(read) : /\ base.offset + i <= Len(log.lines)
                                 /\ log.lines[base.offset + i] = read[i]
  PROVE  Vouched(log, Indexed(base, read))
<1> DEFINE new == Indexed(base, read)
           ranges == Extended(base.ranges, read)
<1>0. log.lines \in Seq(Values)
  BY DEF Files
<1>1. /\ base.ranges \in Seq(RangeType) /\ Chained(base.ranges)
      /\ base.offset = EndOf(base.ranges)
      /\ base.after <= Len(base.ranges) /\ base.after \in Nat
  BY DEF Rows, RowSound
<1>2. Follow(base.ranges, read, ranges)
  BY <1>0, <1>1, ExtendedFollows
<1>3. /\ new.inode = base.inode /\ new.seal = base.seal /\ new.audited = base.audited
      /\ new.after = base.after /\ new.ranges = ranges
  BY <1>0, IndexedFields
<1> HIDE DEF new, ranges
<1>4. /\ \A n \in 1..Len(base.ranges) : Verified(base.ranges[n]) => Verified(ranges[n])
      /\ InFile(base.ranges) => InFile(ranges)
  BY <1>1, <1>2 DEF Follow
<1>5. ASSUME base.inode = log.inode, base.seal = Span(Stat(log))
      PROVE  \A n \in 1..Len(ranges) : Borne(log, ranges[n])
  BY <1>4, <1>5, VerifiedIsBorne DEF InFile, Vouched
<1>6. ASSUME base.inode = log.inode, base.audited = Span(Stat(log))
      PROVE  \A n \in 1..base.after : Borne(log, ranges[n])
  <2>1. \A n \in 1..base.after : n \in 1..Len(base.ranges)
    BY <1>1
  <2> QED
    BY <1>4, <1>6, <2>1, VerifiedIsBorne DEF Vouched
<1> QED
  BY <1>3, <1>5, <1>6 DEF Vouched, new

(* The row after a readiness step over its k-th range.                     *)
Readied(r, k, upto) ==
  [r EXCEPT !.frontier = upto,
     !.ready = @ + Cardinality({i \in Events(r.ranges[k].lines) :
                     r.ranges[k].from + i > r.frontier /\ r.ranges[k].from + i <= upto})]

(* A readiness step leaves the row sound: the events it adds are those of  *)
(* the one range between the old frontier and the new.                     *)
LEMMA ReadyAdvances ==
  ASSUME NEW r \in Rows, RowSound(r), log.lines \in Seq(Values), NEW k \in 1..Len(r.ranges),
         \A n \in 1..(k - 1) : \A i \in Events(r.ranges[n].lines) : r.ranges[n].from + i <= r.frontier,
         NEW j \in Events(r.ranges[k].lines), NEW upto, upto = r.ranges[k].from + j,
         upto > r.frontier
  PROVE  Readied(r, k, upto) \in Rows /\ RowSound(Readied(r, k, upto))
<1> DEFINE E == IndexedEvents(r.ranges)
           q == r.ranges[k]
           A == {i \in Events(q.lines) : q.from + i > r.frontier /\ q.from + i <= upto}
           R == {i \in E : i <= r.frontier}
           B == {q.from + i : i \in A}
           len == Len(r.ranges)
<1>1. /\ r.ranges \in Seq(RangeType) /\ Chained(r.ranges)
      /\ r.offset = EndOf(r.ranges) /\ r.offset \in Nat /\ r.ready \in Nat
      /\ r.frontier <= r.offset /\ r.frontier \in Nat
      /\ r.ready = Cardinality(R)
  BY DEF Rows, RowSound
<1>2. /\ len \in Nat /\ DOMAIN r.ranges = 1..len
      /\ \A n \in 1..len : r.ranges[n] \in RangeType /\ End(r.ranges[n]) <= r.offset
      /\ \A n \in 1..len : \A m \in 1..(n - 1) : End(r.ranges[m]) <= r.ranges[n].from
  BY <1>1, ChainFacts
<1>3. \A n \in 1..len : /\ r.ranges[n].from \in Nat /\ Len(r.ranges[n].lines) \in Nat
                        /\ End(r.ranges[n]) = r.ranges[n].from + Len(r.ranges[n].lines)
                        /\ \A i : i \in Events(r.ranges[n].lines) <=>
                             i \in 1..Len(r.ranges[n].lines) /\ IsEvent(r.ranges[n].lines[i])
  BY <1>2, RangeFacts DEF Events
<1>4. /\ q \in RangeType /\ q.from \in Nat /\ Len(q.lines) \in Nat
      /\ End(q) = q.from + Len(q.lines) /\ End(q) <= r.offset
      /\ j \in 1..Len(q.lines) /\ upto = q.from + j
  BY <1>2, <1>3
<1>4a. End(q) \in Nat
  BY <1>4, RangeFacts
<1>5. upto \in Nat /\ upto <= r.offset /\ upto <= End(q)
  <2>1. ASSUME NEW a \in Nat, NEW b \in Nat, NEW i \in 1..b, NEW o \in Nat, a + b <= o
        PROVE  a + i \in Nat /\ a + i <= o /\ a + i <= a + b
    BY <2>1
  <2> HIDE DEF q, E, A, R, B, len
  <2>2. r.offset \in Nat
    BY <1>1
  <2>3. q.from + Len(q.lines) <= r.offset
    BY <1>4, Zenon
  <2>4. q.from + j \in Nat /\ q.from + j <= r.offset /\ q.from + j <= q.from + Len(q.lines)
    BY <1>4, <2>1, <2>2, <2>3, Zenon
  <2> QED
    BY <1>4, <2>4, Zenon
<1>6. \A x : x \in E <=>
        \E n \in 1..len : \E i \in Events(r.ranges[n].lines) : x = r.ranges[n].from + i
  <2>1. \A x : x \in E <=>
          \E n \in 1..len : \E i \in 1..Len(r.ranges[n].lines) :
             IsEvent(r.ranges[n].lines[i]) /\ x = r.ranges[n].from + i
    BY <1>1, EventOfRange
  <2>2. \A n \in 1..len : \A i : i \in Events(r.ranges[n].lines) <=>
          i \in 1..Len(r.ranges[n].lines) /\ IsEvent(r.ranges[n].lines[i])
    BY <1>3
  <2> HIDE DEF E, len
  <2>3. ASSUME NEW x, x \in E
        PROVE  \E n \in 1..len : \E i \in Events(r.ranges[n].lines) : x = r.ranges[n].from + i
    BY <2>1, <2>2, <2>3, Zenon
  <2>4. ASSUME NEW x, NEW n \in 1..len, NEW i \in Events(r.ranges[n].lines), x = r.ranges[n].from + i
        PROVE  x \in E
    BY <2>1, <2>2, <2>4, Zenon
  <2> QED
    BY <2>3, <2>4, Zenon
<1>7. IsFiniteSet(E) /\ E \subseteq 1..r.offset
  BY <1>1, EventsWithin
<1>8. A \subseteq 1..Len(q.lines) /\ IsFiniteSet(A)
  <2>0. \A i \in Events(q.lines) : i \in 1..Len(q.lines)
    <3>1. k \in 1..len
      OBVIOUS
    <3> QED
      BY <1>3, <3>1
  <2>1. A \subseteq 1..Len(q.lines)
    <3> HIDE DEF q
    <3> QED
      BY <2>0
  <2> HIDE DEF A, q
  <2>2. IsFiniteSet(1..Len(q.lines))
    <3>1. Len(q.lines) \in Int /\ 1 \in Int
      BY <1>4
    <3> QED
      BY <3>1, FS_Interval, Zenon
  <2> QED
    BY <2>1, <2>2, FS_Subset
<1>9. IsFiniteSet(B) /\ Cardinality(B) = Cardinality(A)
  <2> DEFINE f == [i \in A |-> q.from + i]
  <2>0. \A a, b \in A : q.from + a = q.from + b => a = b
    <3>1. ASSUME NEW c \in Nat, NEW m \in Nat, NEW a \in 1..m, NEW b \in 1..m, c + a = c + b
          PROVE  a = b
      BY <3>1
    <3> HIDE DEF q, A
    <3>2. \A a \in A : a \in 1..Len(q.lines)
      BY <1>8, Zenon
    <3> QED
      BY <1>4, <3>1, <3>2, Zenon
  <2>1. f \in Bijection(A, B)
    <3>1. f \in [A -> B]
      OBVIOUS
    <3>2. \A a, b \in A : f[a] = f[b] => a = b
      <4> HIDE DEF q, A
      <4>1. \A a \in A : f[a] = q.from + a
        OBVIOUS
      <4> HIDE DEF f
      <4> QED
        BY <2>0, <4>1, Zenon
    <3>3. \A y \in B : \E a \in A : f[a] = y
      OBVIOUS
    <3> HIDE DEF f, A, B
    <3>4. f \in Injection(A, B)
      BY <3>1, <3>2, Fun_IsInj
    <3>5. f \in Surjection(A, B)
      BY <3>1, <3>3, Fun_IsSurj
    <3> QED
      BY <3>4, <3>5 DEF Bijection
  <2> HIDE DEF f, A, B
  <2>2. ExistsBijection(A, B)
    BY <2>1 DEF ExistsBijection
  <2> QED
    BY <1>8, <2>2, FS_Bijection
<1> HIDE DEF len
<1>10. {i \in E : i <= upto} = R \cup B
  <2>1. ASSUME NEW x \in E, x <= upto, ~(x <= r.frontier) PROVE x \in B
    <3>0. PICK n \in 1..len : \E i \in Events(r.ranges[n].lines) : x = r.ranges[n].from + i
      BY <1>6
    <3>1. PICK i \in Events(r.ranges[n].lines) : x = r.ranges[n].from + i
      BY <3>0
    <3>2. n \notin 1..(k - 1)
      BY <2>1, <3>1
    <3>3. CASE k \in 1..(n - 1)
      <4>1. End(q) <= r.ranges[n].from
        BY <1>2, <3>3
      <4>2. i \in 1..Len(r.ranges[n].lines) /\ r.ranges[n].from \in Nat /\ Len(r.ranges[n].lines) \in Nat
        BY <1>3, <3>1
      <4>3. x > r.ranges[n].from /\ x \in Nat
        <5>1. ASSUME NEW a \in Nat, NEW b \in Nat, NEW m \in 1..b PROVE a + m > a /\ a + m \in Nat
          OBVIOUS
        <5> HIDE DEF q, E, A, B, R
        <5> QED
          BY <3>1, <4>2, <5>1, Zenon
      <4> HIDE DEF q, E, A, B, R
      <4>4. End(q) \in Nat /\ upto \in Nat /\ upto <= End(q)
        BY <1>4a, <1>5, Zenon
      <4>5. End(q) \in Int /\ upto \in Int /\ r.ranges[n].from \in Int /\ x \in Int
        <5>1. \A a \in Nat : a \in Int
          OBVIOUS
        <5> QED
          BY <4>2, <4>3, <4>4, <5>1, Zenon
      <4>6. x <= r.ranges[n].from
        <5>1. upto <= r.ranges[n].from
          BY <4>1, <4>4, <4>5, NoLaterThan
        <5> QED
          BY <2>1, <4>5, <5>1, NoLaterThan
      <4> QED
        BY <4>3, <4>5, <4>6
    <3>4. CASE n = k
      <4>1. i \in 1..Len(q.lines) /\ x = q.from + i
        BY <1>3, <3>1, <3>4
      <4>2. x > r.frontier
        <5>1. ASSUME NEW a \in Nat, NEW b \in Nat, ~(a <= b) PROVE a > b
          BY <5>1
        <5>2. x \in Nat
          BY <1>1, <1>7
        <5>3. r.frontier \in Nat
          BY <1>1
        <5> QED
          BY <2>1, <5>1, <5>2, <5>3
      <4>3. i \in Events(q.lines) /\ q.from + i <= upto /\ q.from + i > r.frontier
        <5>1. i \in Events(q.lines)
          BY <3>4, Zenon
        <5>2. x <= upto
          BY <2>1, Zenon
        <5> QED
          BY <4>1, <4>2, <5>1, <5>2, Zenon
      <4> HIDE DEF q
      <4>4. i \in A
        BY <4>3
      <4> HIDE DEF A
      <4>5. \E a \in A : x = q.from + a
        BY <4>1, <4>4
      <4> QED
        BY <4>5
    <3> QED
      BY <1>2, <3>2, <3>3, <3>4 DEF len
  <2>2. ASSUME NEW x \in B PROVE x \in E /\ x <= upto
    <3>1. PICK i \in A : x = q.from + i
      OBVIOUS
    <3>2. k \in 1..len
      BY DEF len
    <3> QED
      BY <1>6, <3>1, <3>2
  <2>3. ASSUME NEW x \in R PROVE x \in E /\ x <= upto
    BY <1>1, <1>5, <1>7
  <2> HIDE DEF E, B
  <2> QED
    BY <2>1, <2>2, <2>3
<1>11. R \cap B = {}
  <2>1. ASSUME NEW x \in R, x \in B PROVE FALSE
    <3>1. PICK i \in A : x = q.from + i
      BY <2>1
    <3>2. x <= r.frontier /\ x > r.frontier
      BY <2>1, <3>1
    <3>3. x \in Nat /\ r.frontier \in Nat
      <4>1. x \in E /\ r.offset \in Nat /\ r.frontier \in Nat
        BY <1>1, <2>1
      <4> HIDE DEF E, R, A, B
      <4> QED
        BY <1>7, <4>1
    <3> HIDE DEF E, R, A, B
    <3> QED
      BY <3>2, <3>3
  <2> HIDE DEF R, B
  <2> QED
    BY <2>1
<1>12. IsFiniteSet(R)
  BY <1>7, FS_Subset
<1>13. Cardinality(A) \in Nat /\ Cardinality(R) \in Nat
  BY <1>8, <1>12, FS_CardinalityType
<1>14. Cardinality(R \cup B) = r.ready + Cardinality(A)
  <2> HIDE DEF R, B, A
  <2>1. Cardinality(R \cup B) = Cardinality(R) + Cardinality(B) - Cardinality(R \cap B)
    BY <1>9, <1>12, FS_Union
  <2>2. Cardinality({}) = 0
    BY FS_EmptySet
  <2>3. Cardinality(R \cap B) = 0
    BY <1>11, <2>2, Zenon
  <2> QED
    BY <1>1, <1>9, <1>13, <2>1, <2>3
<1> DEFINE ready == r.ready + Cardinality(A)
           new == Readied(r, k, upto)
<1>15. new = [r EXCEPT !.frontier = upto, !.ready = ready]
  BY DEF Rows, Readied
<1>16. ready \in Nat
  BY <1>1, <1>13
<1>17. ready = Cardinality({i \in E : i <= upto})
  BY <1>10, <1>14, Zenon
<1> HIDE DEF new, ready, E, A, R, B, q
<1>18. /\ new \in Rows /\ new.frontier = upto /\ new.ready = ready
       /\ new.ranges = r.ranges /\ new.offset = r.offset /\ new.count = r.count
       /\ new.after = r.after
  BY <1>5, <1>15, <1>16 DEF Rows
<1>19. new.ready = Cardinality({i \in IndexedEvents(new.ranges) : i <= new.frontier})
  BY <1>17, <1>18, Zenon DEF E
<1>20. RowSound(new)
  BY <1>1, <1>2, <1>5, <1>18, <1>19 DEF RowSound
<1> QED
  BY <1>18, <1>20 DEF new

(* The first range with an event beyond the frontier exists while some are *)
(* not ready.                                                              *)
LEMMA NextUnreadyFacts ==
  ASSUME NEW r \in Rows, RowSound(r), log.lines \in Seq(Values), r.ready < r.count
  PROVE  /\ NextUnready(r) \in 1..Len(r.ranges)
         /\ \A n \in 1..(NextUnready(r) - 1) : \A i \in Events(r.ranges[n].lines) :
              r.ranges[n].from + i <= r.frontier
<1> DEFINE E == IndexedEvents(r.ranges)
           beyond == {n \in DOMAIN r.ranges :
                        \E i \in Events(r.ranges[n].lines) : r.ranges[n].from + i > r.frontier}
           len == Len(r.ranges)
<1>1. /\ r.ranges \in Seq(RangeType) /\ Chained(r.ranges)
      /\ r.ready = Cardinality({i \in E : i <= r.frontier}) /\ r.count = Cardinality(E)
      /\ r.frontier \in Nat /\ len \in Nat /\ DOMAIN r.ranges = 1..len
  BY DEF Rows, RowSound
<1>2. \A n \in 1..len : /\ r.ranges[n].from \in Nat /\ Len(r.ranges[n].lines) \in Nat
                        /\ \A i : i \in Events(r.ranges[n].lines) <=>
                             i \in 1..Len(r.ranges[n].lines) /\ IsEvent(r.ranges[n].lines[i])
  <2>1. \A n \in 1..len : r.ranges[n] \in RangeType
    BY <1>1
  <2> QED
    BY <2>1, RangeFacts DEF Events
<1>3. \A x : x \in E <=>
        \E n \in 1..len : \E i \in 1..Len(r.ranges[n].lines) :
           IsEvent(r.ranges[n].lines[i]) /\ x = r.ranges[n].from + i
  BY <1>1, EventOfRange
<1>4. \E x \in E : ~(x <= r.frontier)
  <2>1. SUFFICES ASSUME \A x \in E : x <= r.frontier
                 PROVE  FALSE
    OBVIOUS
  <2>2. {i \in E : i <= r.frontier} = E
    BY <2>1
  <2>3. r.ready = r.count
    BY <1>1, <2>2, Zenon
  <2> QED
    BY <2>3 DEF Rows
<1> HIDE DEF E
<1>5. beyond # {} /\ beyond \in SUBSET Nat
  <2>1. PICK x \in E : ~(x <= r.frontier)
    BY <1>4
  <2>2. PICK n \in 1..len : \E i \in 1..Len(r.ranges[n].lines) :
           IsEvent(r.ranges[n].lines[i]) /\ x = r.ranges[n].from + i
    BY <1>3
  <2>3. PICK i \in 1..Len(r.ranges[n].lines) :
           IsEvent(r.ranges[n].lines[i]) /\ x = r.ranges[n].from + i
    BY <2>2
  <2>4. i \in Events(r.ranges[n].lines) /\ r.ranges[n].from + i > r.frontier
    <3>1. ASSUME NEW a \in Nat, NEW b \in Nat, NEW c \in Nat, ~(a + b <= c) PROVE a + b > c
      BY <3>1
    <3> HIDE DEF len, beyond
    <3>2. r.ranges[n].from \in Nat /\ Len(r.ranges[n].lines) \in Nat /\ i \in Events(r.ranges[n].lines)
      BY <1>2, <2>3
    <3>3. i \in Nat /\ r.frontier \in Nat
      BY <1>1, <3>2
    <3> QED
      BY <2>1, <2>3, <3>1, <3>2, <3>3
  <2>5. n \in beyond
    BY <1>1, <2>4
  <2> QED
    BY <1>1, <2>5
<1>6. \E n \in beyond : \A k \in beyond : n <= k
  <2> HIDE DEF beyond
  <2> QED
    BY <1>5, LeastNumber
<1>7. NextUnready(r) \in beyond /\ \A k \in beyond : NextUnready(r) <= k
  BY <1>6 DEF NextUnready
<1>8. ASSUME NEW n \in 1..(NextUnready(r) - 1), NEW i \in Events(r.ranges[n].lines)
      PROVE  r.ranges[n].from + i <= r.frontier
  <2>1. n \in 1..len /\ n \notin beyond
    <3>1. NextUnready(r) \in 1..len
      BY <1>1, <1>7
    <3> HIDE DEF beyond, len
    <3>2. n \in 1..len /\ ~(NextUnready(r) <= n)
      BY <1>1, <3>1
    <3> QED
      BY <1>7, <3>2
  <2>2. ~(r.ranges[n].from + i > r.frontier)
    BY <1>1, <2>1
  <2>3. i \in 1..Len(r.ranges[n].lines) /\ Len(r.ranges[n].lines) \in Nat /\ r.ranges[n].from \in Nat
    <3> HIDE DEF len, beyond
    <3> QED
      BY <1>2, <2>1
  <2>4. ASSUME NEW a \in Nat, NEW b \in Nat, NEW c \in Nat, ~(a + b > c) PROVE a + b <= c
    BY <2>4
  <2>5. i \in Nat /\ r.ranges[n].from \in Nat /\ r.frontier \in Nat
    <3> HIDE DEF len, beyond
    <3> QED
      BY <1>1, <2>3
  <2> QED
    BY <2>2, <2>4, <2>5, Zenon
<1> QED
  BY <1>1, <1>7, <1>8

(***************************************************************************)
(* The first states.                                                       *)
(***************************************************************************)
(* Nothing at all is of the types, and sound.                              *)
LEMMA NothingFits ==
  /\ Never \in Marks
  /\ NoRow \in Rows /\ RowSound(NoRow) /\ Unread(NoRow)
  /\ NoTask \in Tasks /\ NoTask.kind = "none" /\ NoTask.pin.mtime = 0 /\ NoTask.base = NoRow
  /\ NoPages \in [live : BOOLEAN, served : Nat, held : SUBSET Nat] /\ ~NoPages.live
  /\ NoReply \in [given : BOOLEAN, hits : SUBSET Nat, upto : Nat] /\ ~NoReply.given
<1>1. Never \in Marks
  BY DEF Never, Marks
<1>2. NoRow \in Rows
  BY <1>1 DEF NoRow, Rows
<1>3. RowSound(NoRow)
  BY <1>2, UnreadSound DEF NoRow
<1>4. Unread(NoRow)
  BY DEF NoRow, Unread
<1>5. NoTask \in Tasks /\ NoTask.kind = "none" /\ NoTask.pin.mtime = 0 /\ NoTask.base = NoRow
  <2>1. Stat([inode |-> 0, lines |-> <<>>, torn |-> FALSE, mtime |-> 0])
          = [inode |-> 0, size |-> 0, mtime |-> 0]
    BY DEF Stat, Size
  <2> QED
    BY <1>2, <2>1 DEF NoTask, Tasks, Stats
<1>6. /\ NoPages \in [live : BOOLEAN, served : Nat, held : SUBSET Nat] /\ ~NoPages.live
      /\ NoReply \in [given : BOOLEAN, hits : SUBSET Nat, upto : Nat] /\ ~NoReply.given
  BY DEF NoPages, NoReply
<1> QED
  BY <1>1, <1>2, <1>3, <1>4, <1>5, <1>6

(* A migrated row is sound, and its seal is of the file it was made of.    *)
LEMMA ImportedSound ==
  ASSUME NEW lines \in Seq(Values), Len(lines) <= MaxLines,
         log = [inode |-> 1, lines |-> lines, torn |-> FALSE, mtime |-> 0]
  PROVE  LET new == Imported(lines, 1) IN new \in Rows /\ RowSound(new) /\ Vouched(log, new)
<1> DEFINE new == Imported(lines, 1)
           chain == Extended(<<>>, lines)
           E == Events(lines)
           B == {i \in E : i <= 1}
           frontier == IF B = {} THEN 0 ELSE CHOOSE i \in B : \A j \in B : j <= i
           anchor == IF lines = <<>> THEN <<>> ELSE <<Last1(lines)>>
           prefix == SubSeq(lines, 1, IF lines = <<>> THEN 0 ELSE 1)
           seal == [size |-> 2 * Len(lines), mtime |-> 0]
           len == Len(lines)
<1>1. log.lines = lines /\ log.inode = 1 /\ log.mtime = 0 /\ log.lines \in Seq(Values)
  OBVIOUS
<1>2. len \in Nat /\ DOMAIN lines = 1..len /\ \A i \in 1..len : lines[i] \in Values
  OBVIOUS
<1>3. <<>> \in Seq(RangeType) /\ Chained(<<>>) /\ EndOf(<<>>) = 0 /\ Len(<<>>) = 0
      /\ IndexedEvents(<<>>) = {}
  BY DEF Chained, EndOf, IndexedEvents
<1>4. Follow(<<>>, lines, chain)
  BY <1>1, <1>3, ExtendedFollows
<1> HIDE DEF chain
<1>5. chain \in Seq(RangeType) /\ Chained(chain) /\ Len(chain) \in Nat
  BY <1>4 DEF Follow
<1>6. EndOf(chain) = len
  BY <1>2, <1>3, <1>4 DEF Follow
<1>7. IndexedEvents(chain) = E
  <2>1. IndexedEvents(chain) = {0 + i : i \in E}
    BY <1>3, <1>4 DEF Follow
  <2>2. \A i \in E : i \in Nat /\ 0 + i = i
    BY <1>2 DEF Events
  <2> HIDE DEF E
  <2> QED
    BY <2>1, <2>2
<1>8. \A n \in 1..Len(chain) : Borne(log, chain[n])
  <2>1. \A i \in 1..Len(lines) : EndOf(<<>>) + i <= Len(log.lines)
                               /\ log.lines[EndOf(<<>>) + i] = lines[i]
    BY <1>1, <1>2, <1>3
  <2>2. InFile(<<>>)
    BY <1>3 DEF InFile
  <2>3. InFile(chain)
    BY <1>4, <2>1, <2>2 DEF Follow
  <2> QED
    BY <2>3, VerifiedIsBorne DEF InFile
<1>9. E \subseteq 1..len /\ IsFiniteSet(E)
  <2>1. E \subseteq 1..len
    BY <1>2 DEF Events
  <2>2. IsFiniteSet(1..len)
    BY <1>2, FS_Interval
  <2> HIDE DEF E, len
  <2> QED
    BY <2>1, <2>2, FS_Subset
<1> HIDE DEF E
<1>10. B \subseteq E /\ IsFiniteSet(B)
  <2>1. B \subseteq E
    OBVIOUS
  <2> HIDE DEF B
  <2> QED
    BY <1>9, <2>1, FS_Subset
<1>11. Cardinality(E) \in Nat /\ Cardinality(B) \in Nat
  BY <1>9, <1>10, FS_CardinalityType
<1>12. frontier \in Nat /\ frontier <= len /\ {i \in E : i <= frontier} = B
  <2>1. CASE B = {}
    <3>1. frontier = 0
      BY <2>1
    <3>2. {i \in E : i <= 0} = {}
      <4>1. \A i \in E : i \in 1..len
        BY <1>9
      <4>2. \A i \in E : ~(i <= 0)
        BY <1>2, <4>1
      <4> QED
        BY <4>2
    <3> QED
      BY <1>2, <2>1, <3>1, <3>2
  <2>2. CASE B # {}
    <3>1. B \in SUBSET (1..len)
      BY <1>9, <1>10
    <3>2. \E m \in B : \A j \in B : j <= m
      <4> HIDE DEF B, len
      <4> QED
        BY <1>2, <2>2, <3>1, GreatestNumber
    <3>3. frontier \in B /\ \A j \in B : j <= frontier
      <4> HIDE DEF B
      <4> QED
        BY <2>2, <3>2
    <3> HIDE DEF frontier
    <3>4. frontier \in 1..len /\ frontier <= 1
      BY <3>1, <3>3
    <3>5. {i \in E : i <= frontier} = B
      BY <1>2, <1>9, <3>3, <3>4
    <3> QED
      BY <1>2, <3>4, <3>5
  <2> QED
    BY <2>1, <2>2
<1>13. anchor \in Seq(Values) /\ prefix \in Seq(Values)
  <2>1. CASE lines = <<>>
    <3>1. 0 \in (1 - 1)..Len(lines) /\ 1 \in 1..(Len(lines) + 1)
      BY <2>1
    <3>2. SubSeq(lines, 1, 0) \in Seq(Values)
      BY <3>1, SubSeqFacts
    <3> QED
      BY <2>1, <3>2
  <2>2. CASE lines # <<>>
    <3>1. len >= 1
      BY <2>2, EmptySeq
    <3>2. Last1(lines) \in Values
      BY <1>2, <3>1 DEF Last1
    <3>3. 1 \in (1 - 1)..Len(lines) /\ 1 \in 1..(Len(lines) + 1)
      BY <1>2, <3>1
    <3>4. SubSeq(lines, 1, 1) \in Seq(Values)
      BY <3>3, SubSeqFacts
    <3> QED
      BY <2>2, <3>2, <3>4
  <2> QED
    BY <2>1, <2>2
<1>14. seal \in Marks /\ Never \in Marks /\ 2 * len \in Int
  BY <1>2, NothingFits DEF Marks
<1>15. new = [NoRow EXCEPT !.there = TRUE, !.inode = 1, !.size = 2 * len, !.mtime = 0,
                !.offset = len, !.count = Cardinality(E), !.prefix = prefix, !.anchor = anchor,
                !.ranges = chain, !.ready = Cardinality(B), !.frontier = frontier, !.seal = seal]
  BY DEF Imported, chain, E
<1> HIDE DEF new, B, frontier, anchor, prefix, seal, len
<1>16. /\ new \in Rows
       /\ new.inode = 1 /\ new.offset = len /\ new.count = Cardinality(E) /\ new.ranges = chain
       /\ new.ready = Cardinality(B) /\ new.frontier = frontier /\ new.seal = seal
       /\ new.audited = Never /\ new.after = 0
  <2>1. new = [there |-> TRUE, missing |-> FALSE, inode |-> 1, size |-> 2 * len, mtime |-> 0,
               offset |-> len, count |-> Cardinality(E), prefix |-> prefix, anchor |-> anchor,
               ready |-> Cardinality(B), frontier |-> frontier, seal |-> seal, audited |-> Never,
               after |-> 0, ranges |-> chain]
    BY <1>15 DEF NoRow
  <2> HIDE DEF chain, E
  <2>2. new \in Rows
    BY <1>2, <1>5, <1>11, <1>12, <1>13, <1>14, <2>1 DEF Rows
  <2> QED
    BY <2>1, <2>2
<1>17. RowSound(new)
  <2>1. new.count = Cardinality(IndexedEvents(new.ranges))
    BY <1>7, <1>16, Zenon
  <2>2. new.ready = Cardinality({i \in IndexedEvents(new.ranges) : i <= new.frontier})
    BY <1>7, <1>12, <1>16, Zenon
  <2>3. /\ Chained(new.ranges) /\ new.offset = EndOf(new.ranges) /\ new.offset <= MaxLines
        /\ new.frontier <= new.offset /\ new.after <= Len(new.ranges)
    BY <1>5, <1>6, <1>12, <1>16 DEF len
  <2> QED
    BY <2>1, <2>2, <2>3, Zenon DEF RowSound
<1>18. Vouched(log, new)
  <2>1. log \in Files
    BY DEF Files
  <2>2. Never # Span(Stat(log)) /\ Never.mtime <= log.mtime
    BY <2>1, NeverIsNoFile
  <2>3. seal.mtime <= log.mtime
    BY <1>1 DEF seal
  <2> QED
    BY <1>8, <1>16, <2>2, <2>3 DEF Vouched
<1> QED
  BY <1>16, <1>17, <1>18 DEF new

(* The first states satisfy the invariant.                                 *)
LEMMA SourceInitInv == SourceInit => SourceInv
<1> SUFFICES ASSUME SourceInit PROVE SourceInv
  OBVIOUS
<1>1. PICK lines \in [1..StartLines -> Values] :
        /\ log = [inode |-> 1, lines |-> lines, torn |-> FALSE, mtime |-> 0]
        /\ row \in {NoRow, Imported(lines, 1)}
  BY DEF SourceInit
<1>2. task = NoTask /\ pages = NoPages /\ reply = NoReply
  BY DEF SourceInit
<1>3. /\ MaxLines \in Nat /\ StartLines \in Nat /\ StartLines <= MaxLines /\ MaxWrites \in Nat
  BY SourceConstants DEF SourceConstants
<1>4. lines \in Seq(Values) /\ Len(lines) <= MaxLines
  BY <1>3
<1>5. log \in Files /\ Len(log.lines) <= MaxLines /\ log.mtime <= MaxWrites /\ log.mtime = 0
  BY <1>1, <1>3, <1>4 DEF Files
<1>6. row \in Rows /\ RowSound(row) /\ Vouched(log, row)
  <2>1. CASE row = NoRow
    BY <1>5, <2>1, NothingFits, UnreadVouches
  <2>2. CASE row = Imported(lines, 1)
    BY <1>1, <1>4, <2>2, ImportedSound
  <2> QED
    BY <1>1, <2>1, <2>2
<1>7. TaskSound(log, row, task, pages)
  BY <1>2, <1>5, NothingFits DEF TaskSound
<1>8. PagesSound(row, pages) /\ ReplySound(log, row, task, pages, reply)
  BY <1>2, NothingFits DEF PagesSound, ReplySound
<1> QED
  BY <1>2, <1>5, <1>6, <1>7, <1>8, NothingFits DEF SourceInv, TypesHold

(***************************************************************************)
(* The agent's writes.                                                     *)
(***************************************************************************)
(* What a stat of a file is.                                               *)
LEMMA StatFits ==
  ASSUME NEW f \in Files
  PROVE  /\ Stat(f) \in Stats /\ Stat(f).mtime = f.mtime /\ Stat(f).inode = f.inode
         /\ Span(Stat(f)) \in Marks /\ Span(Stat(f)).mtime = f.mtime
<1>1. Len(f.lines) \in Nat /\ f.mtime \in Nat /\ f.inode \in Nat
  BY DEF Files
<1>2. Size(f) \in Int
  <2>1. (IF f.torn THEN 1 ELSE 0) \in {0, 1}
    OBVIOUS
  <2>2. ASSUME NEW n \in Nat, NEW b \in {0, 1} PROVE 2 * n + b \in Int
    OBVIOUS
  <2> QED
    BY <1>1, <2>1, <2>2 DEF Size
<1> QED
  BY <1>1, <1>2 DEF Stat, Span, Stats, Marks

(* After a write no pin, seal or audit cursor names the file any more, and *)
(* no answer is outstanding.                                               *)
LEMMA WriteKeeps ==
  ASSUME SourceInv, NEW f \in Files, Len(f.lines) <= MaxLines, Write(f)
  PROVE  SourceInv'
<1>1. /\ log' = [f EXCEPT !.mtime = log.mtime + 1] /\ log.mtime < MaxWrites
      /\ reply' = NoReply /\ row' = row /\ task' = task /\ pages' = pages
  BY DEF Write
<1>2. TypesHold /\ log \in Files /\ log.mtime \in Nat
  BY DEF SourceInv, TypesHold, Files
<1>3. MaxWrites \in Nat
  BY SourceConstants DEF SourceConstants
<1>4. /\ log' \in Files /\ log'.mtime = log.mtime + 1 /\ log'.lines = f.lines
  BY <1>1, <1>2 DEF Files
<1>5. TypesHold'
  BY <1>1, <1>2, <1>3, <1>4, NothingFits DEF TypesHold
<1>6. Stat(log').mtime = log.mtime + 1 /\ Span(Stat(log')).mtime = log.mtime + 1
  BY <1>4, StatFits
<1>7. Vouched(log', row)
  <2>1. Vouched(log, row) /\ row \in Rows
    BY <1>2 DEF SourceInv, TypesHold
  <2>2. /\ row.seal.mtime <= log.mtime /\ row.audited.mtime <= log.mtime
        /\ row.seal.mtime \in Int /\ row.audited.mtime \in Int
    BY <2>1 DEF Vouched, Rows, Marks
  <2>3. row.seal # Span(Stat(log')) /\ row.audited # Span(Stat(log'))
    BY <1>2, <1>6, <2>2
  <2> QED
    BY <1>2, <1>4, <2>2, <2>3 DEF Vouched
<1>8. TaskSound(log', row, task, pages)
  <2>1. TaskSound(log, row, task, pages) /\ task.pin.mtime \in Nat
    BY <1>2 DEF SourceInv, TypesHold, Tasks, Stats
  <2>2. task.pin.mtime <= log.mtime
    BY <2>1 DEF TaskSound
  <2>3. Stat(log') # task.pin /\ task.pin.mtime <= log'.mtime
    BY <1>2, <1>4, <1>6, <2>1, <2>2
  <2>4. task.kind = "index" => IndexSound(log', row, task)
    BY <2>1, <2>3 DEF TaskSound, IndexSound
  <2>5. task.kind \in {"query", "ready", "audit"} => ReadSound(log', row, task)
    BY <2>1, <2>3 DEF TaskSound, ReadSound
  <2> QED
    BY <2>1, <2>3, <2>4, <2>5 DEF TaskSound
<1>9. ReplySound(log', row, task, pages, NoReply)
  BY NothingFits DEF ReplySound
<1> QED
  BY <1>1, <1>5, <1>7, <1>8, <1>9 DEF SourceInv

(* The file after an append, a torn record, an overwrite, a truncation or  *)
(* a replacement is a file.                                                *)
LEMMA AppendKeeps == SourceInv /\ (\E v \in Values : AppendRecord(v)) => SourceInv'
<1> SUFFICES ASSUME SourceInv, NEW v \in Values, AppendRecord(v) PROVE SourceInv'
  OBVIOUS
<1> DEFINE f == [log EXCEPT !.lines = Append(@, v), !.torn = FALSE]
<1>1. log \in Files /\ Len(log.lines) < MaxLines /\ Write(f) /\ MaxLines \in Nat
  BY SourceConstants DEF SourceInv, TypesHold, AppendRecord, SourceConstants
<1>2. log.lines \in Seq(Values) /\ Len(log.lines) \in Nat
  BY <1>1 DEF Files
<1>3. Append(log.lines, v) \in Seq(Values) /\ Len(Append(log.lines, v)) = Len(log.lines) + 1
  BY <1>2
<1>4. f \in Files /\ f.lines = Append(log.lines, v)
  BY <1>1, <1>3 DEF Files
<1>5. Len(f.lines) <= MaxLines
  BY <1>1, <1>2, <1>3, <1>4
<1> HIDE DEF f
<1> QED
  BY <1>1, <1>4, <1>5, WriteKeeps

(* See AppendKeeps.                                                        *)
LEMMA TearKeeps == SourceInv /\ TearRecord => SourceInv'
<1> SUFFICES ASSUME SourceInv, TearRecord PROVE SourceInv'
  OBVIOUS
<1> DEFINE f == [log EXCEPT !.torn = TRUE]
<1>1. log \in Files /\ Len(log.lines) <= MaxLines /\ Write(f)
  BY DEF SourceInv, TypesHold, TearRecord
<1>2. f \in Files /\ f.lines = log.lines
  BY <1>1 DEF Files
<1> HIDE DEF f
<1> QED
  BY <1>1, <1>2, WriteKeeps

(* See AppendKeeps.                                                        *)
LEMMA OverwriteKeeps ==
  SourceInv /\ (\E v \in Values : \E i \in DOMAIN log.lines : OverwriteRecord(i, v)) => SourceInv'
<1> SUFFICES ASSUME SourceInv, NEW v \in Values, NEW i \in DOMAIN log.lines, OverwriteRecord(i, v)
             PROVE  SourceInv'
  OBVIOUS
<1> DEFINE f == [log EXCEPT !.lines[i] = v]
<1>1. log \in Files /\ Len(log.lines) <= MaxLines /\ Write(f)
  BY DEF SourceInv, TypesHold, OverwriteRecord
<1>2. log.lines \in Seq(Values)
  BY <1>1 DEF Files
<1>3. [log.lines EXCEPT ![i] = v] \in Seq(Values)
      /\ Len([log.lines EXCEPT ![i] = v]) = Len(log.lines)
  BY <1>2
<1>4. f = [log EXCEPT !.lines = [log.lines EXCEPT ![i] = v]]
  BY <1>1 DEF Files
<1> HIDE DEF f
<1>5. f \in Files /\ Len(f.lines) <= MaxLines
  BY <1>1, <1>3, <1>4 DEF Files
<1> QED
  BY <1>1, <1>5, WriteKeeps

(* See AppendKeeps.                                                        *)
LEMMA CutKeeps ==
  SourceInv /\ (\E n \in 0..Len(log.lines) : TruncateLog(n) \/ ReplaceLog(n)) => SourceInv'
<1> SUFFICES ASSUME SourceInv, NEW n \in 0..Len(log.lines), TruncateLog(n) \/ ReplaceLog(n)
             PROVE  SourceInv'
  OBVIOUS
<1> DEFINE cut == SubSeq(log.lines, 1, n)
<1>1. log \in Files /\ Len(log.lines) <= MaxLines /\ MaxLines \in Nat
  BY SourceConstants DEF SourceInv, TypesHold, SourceConstants
<1>2. log.lines \in Seq(Values) /\ Len(log.lines) \in Nat /\ log.inode \in Nat
  BY <1>1 DEF Files
<1>3. 1 \in 1..(Len(log.lines) + 1) /\ n \in (1 - 1)..Len(log.lines)
  BY <1>2
<1>4. cut \in Seq(Values) /\ Len(cut) = n - 1 + 1
  BY <1>2, <1>3, SubSeqFacts
<1>5. Len(cut) <= MaxLines
  BY <1>1, <1>2, <1>4
<1> HIDE DEF cut
<1>6. CASE TruncateLog(n)
  <2> DEFINE f == [log EXCEPT !.lines = cut, !.torn = FALSE]
  <2>1. Write(f)
    BY <1>6 DEF TruncateLog, cut
  <2>2. f \in Files /\ f.lines = cut
    BY <1>1, <1>4 DEF Files
  <2> HIDE DEF f
  <2> QED
    BY <1>5, <2>1, <2>2, WriteKeeps
<1>7. CASE ReplaceLog(n)
  <2> DEFINE node == log.inode + 1
             f == [log EXCEPT !.inode = node, !.lines = cut, !.torn = FALSE]
  <2>1. Write(f)
    BY <1>7 DEF ReplaceLog, cut
  <2>2. node \in Nat
    BY <1>2
  <2> HIDE DEF node
  <2>3. f \in Files /\ f.lines = cut
    BY <1>1, <1>4, <2>2 DEF Files
  <2> HIDE DEF f
  <2> QED
    BY <1>5, <2>1, <2>3, WriteKeeps
<1> QED
  BY <1>6, <1>7

(***************************************************************************)
(* Operations that end without a commit.                                   *)
(***************************************************************************)
(* An abandoned operation leaves everything but itself.                    *)
LEMMA AbandonKeeps == SourceInv /\ Abandon => SourceInv'
<1> SUFFICES ASSUME SourceInv, Abandon PROVE SourceInv'
  OBVIOUS
<1>1. task' = NoTask /\ log' = log /\ row' = row /\ pages' = pages /\ reply' = reply
  BY DEF Abandon
<1>2. TypesHold'
  BY <1>1, NothingFits DEF SourceInv, TypesHold
<1>3. TaskSound(log, row, NoTask, pages)
  <2>1. log.mtime \in Nat
    BY DEF SourceInv, TypesHold, Files
  <2> QED
    BY <2>1, NothingFits DEF TaskSound
<1>4. ReplySound(log, row, NoTask, pages, reply)
  BY NothingFits DEF SourceInv, ReplySound
<1> QED
  BY <1>1, <1>2, <1>3, <1>4 DEF SourceInv

(* No step of a task moves the file, the row or the pages: what is left is *)
(* that the task is sound, and that no answer stands beside a running one. *)
LEMMA TaskStep ==
  ASSUME SourceInv, log' = log, row' = row, pages' = pages, reply' = reply,
         task.kind # "none", task' \in Tasks, TaskSound(log, row, task', pages)
  PROVE  SourceInv'
<1>1. TypesHold'
  BY DEF SourceInv, TypesHold
<1>2. ~reply.given
  BY DEF SourceInv, ReplySound
<1>3. ReplySound(log, row, task', pages, reply)
  BY <1>2 DEF ReplySound
<1> QED
  BY <1>1, <1>3 DEF SourceInv

(* The same of the first step of an operation.                             *)
LEMMA BeginStep ==
  ASSUME SourceInv, log' = log, row' = row, pages' = pages, reply' = NoReply,
         task' \in Tasks, TaskSound(log, row, task', pages)
  PROVE  SourceInv'
<1>1. TypesHold'
  BY NothingFits DEF SourceInv, TypesHold
<1>2. ReplySound(log, row, task', pages, NoReply)
  BY NothingFits DEF ReplySound
<1> QED
  BY <1>1, <1>2 DEF SourceInv

(***************************************************************************)
(* The steps of an operation under way.                                    *)
(***************************************************************************)
(* What an operation starts with.                                          *)
TaskOf(k, b, n) ==
  [kind |-> k, pin |-> Stat(log), base |-> b, read |-> <<>>, at |-> n, hits |-> {}]

(* It is a task, pinned to the file as it is.                              *)
LEMMA NewTask ==
  ASSUME NEW k \in {"index", "query", "ready", "audit"}, NEW b \in Rows, NEW n \in Nat, log \in Files
  PROVE  LET t == TaskOf(k, b, n) IN
         /\ t \in Tasks /\ t.kind = k /\ t.base = b /\ t.at = n /\ t.pin = Stat(log)
         /\ t.read = <<>> /\ t.hits = {}
<1>1. Stat(log) \in Stats
  BY StatFits
<1>2. <<>> \in Seq(Values \cup {"verified"}) /\ {} \in SUBSET Nat
      /\ k \in {"none", "index", "query", "ready", "audit"}
  OBVIOUS
<1> QED
  BY <1>1, <1>2 DEF Tasks, TaskOf

(* A scan of a file the row does not continue starts from an unread row.   *)
LEMMA BeginIndexKeeps == SourceInv /\ BeginIndex => SourceInv'
<1> SUFFICES ASSUME SourceInv, BeginIndex PROVE SourceInv'
  OBVIOUS
<1> DEFINE prefix == SubSeq(log.lines, 1, IF log.lines = <<>> THEN 0 ELSE 1)
           node == log.inode
           empty == [NoRow EXCEPT !.there = TRUE, !.inode = node, !.prefix = prefix]
           b == IF Continues(row) THEN row ELSE empty
<1>1. log \in Files /\ row \in Rows /\ RowSound(row) /\ log.lines \in Seq(Values)
      /\ log.inode \in Nat /\ log.mtime \in Nat /\ Len(log.lines) \in Nat
  BY DEF SourceInv, TypesHold, Files
<1>2. task' = [NoTask EXCEPT !.kind = "index", !.base = b, !.pin = Stat(log)]
      /\ reply' = NoReply /\ log' = log /\ row' = row /\ pages' = pages
  BY DEF BeginIndex, Begin
<1>3. task' = TaskOf("index", b, 0)
  <2> HIDE DEF b
  <2> QED
    BY <1>2 DEF NoTask, TaskOf
<1>4. prefix \in Seq(Values)
  <2>1. CASE log.lines = <<>>
    <3>1. 0 \in (1 - 1)..Len(log.lines) /\ 1 \in 1..(Len(log.lines) + 1)
      BY <1>1
    <3> QED
      BY <1>1, <2>1, <3>1, SubSeqFacts
  <2>2. CASE log.lines # <<>>
    <3>1. Len(log.lines) # 0
      BY <1>1, <2>2, EmptySeq
    <3>2. 1 \in (1 - 1)..Len(log.lines) /\ 1 \in 1..(Len(log.lines) + 1)
      BY <1>1, <3>1
    <3> QED
      BY <1>1, <2>2, <3>2, SubSeqFacts
  <2> QED
    BY <2>1, <2>2
<1> HIDE DEF prefix, node
<1>5. empty \in Rows /\ RowSound(empty) /\ Unread(empty)
  <2>1. empty \in Rows
    BY <1>1, <1>4, NothingFits DEF Rows, node
  <2>2. /\ empty.ranges = <<>> /\ empty.offset = 0 /\ empty.count = 0 /\ empty.ready = 0
        /\ empty.frontier = 0 /\ empty.after = 0 /\ empty.seal = Never /\ empty.audited = Never
    BY DEF NoRow
  <2> HIDE DEF empty
  <2> QED
    BY <2>1, <2>2, UnreadSound DEF Unread
<1> HIDE DEF empty
<1>6. b \in Rows /\ RowSound(b) /\ (b = row \/ Unread(b))
  BY <1>1, <1>5
<1> HIDE DEF b
<1>7. /\ task' \in Tasks /\ task'.kind = "index" /\ task'.base = b /\ task'.at = 0
      /\ task'.pin = Stat(log)
  BY <1>1, <1>3, <1>6, NewTask
<1>8. task'.pin.mtime <= log.mtime
  BY <1>1, <1>7, StatFits
<1>9. TaskSound(log, row, task', pages)
  BY <1>6, <1>7, <1>8 DEF TaskSound, IndexSound
<1> QED
  BY <1>2, <1>7, <1>9, BeginStep

(* What a scan reads are the file's lines after the row's.                 *)
LEMMA ScanRecordsKeeps == SourceInv /\ (\E n \in 0..MaxLines : ScanRecords(n)) => SourceInv'
<1> SUFFICES ASSUME SourceInv, NEW n \in 0..MaxLines, ScanRecords(n) PROVE SourceInv'
  OBVIOUS
<1> DEFINE lines == log.lines
           off == task.base.offset
           read == SubSeq(lines, off + 1, off + n)
           half == task.pin.size \div 2
<1>1. /\ log \in Files /\ task \in Tasks /\ Len(lines) <= MaxLines /\ MaxLines \in Nat
      /\ TaskSound(log, row, task, pages)
  BY SourceConstants DEF SourceInv, TypesHold, SourceConstants
<1>2. lines \in Seq(Values) /\ Len(lines) \in Nat /\ off \in Nat /\ task.pin.size \in Int
      /\ n \in Nat
  <2>1. task.base \in Rows /\ task.pin \in Stats
    BY <1>1 DEF Tasks
  <2>2. task.base.offset \in Nat
    BY <2>1 DEF Rows
  <2>3. task.pin.size \in Int
    BY <2>1 DEF Stats
  <2>4. log.lines \in Seq(Values)
    BY <1>1 DEF Files
  <2> QED
    BY <2>2, <2>3, <2>4, <1>1
<1>3. /\ task.kind = "index" /\ task.at = 0
      /\ off + n <= IF half < Len(lines) THEN half ELSE Len(lines)
      /\ task' = [task EXCEPT !.at = 1, !.read = read]
      /\ log' = log /\ row' = row /\ pages' = pages /\ reply' = reply
  BY DEF ScanRecords
<1>4. half \in Int
  BY <1>2
<1> HIDE DEF lines, off, half
<1>5. off + n <= Len(lines)
  BY <1>2, <1>3, <1>4
<1>6. (off + 1) \in 1..(Len(lines) + 1) /\ (off + n) \in ((off + 1) - 1)..Len(lines)
  BY <1>2, <1>5
<1>7. /\ read \in Seq(Values) /\ Len(read) = (off + n) - (off + 1) + 1
      /\ \A i \in 1..((off + n) - (off + 1) + 1) : read[i] = lines[(off + 1) + i - 1]
  BY <1>2, <1>6, SubSeqFacts
<1> HIDE DEF read
<1>8. Len(read) = n
  BY <1>2, <1>7
<1>9. \A i \in 1..Len(read) : off + i <= Len(lines) /\ lines[off + i] = read[i]
  <2> SUFFICES ASSUME NEW i \in 1..Len(read)
               PROVE  off + i <= Len(lines) /\ lines[off + i] = read[i]
    OBVIOUS
  <2>1. (off + n) - (off + 1) + 1 = n /\ (off + 1) + i - 1 = off + i /\ i \in 1..n
    BY <1>2, <1>8
  <2> QED
    BY <1>2, <1>5, <1>7, <2>1
<1>10. read \in Seq(Values \cup {"verified"})
  <2>1. Len(read) \in Nat /\ \A i \in 1..Len(read) : read[i] \in Values \cup {"verified"}
    BY <1>7
  <2>2. read = [i \in 1..Len(read) |-> read[i]]
    BY <1>7
  <2> QED
    BY <2>1, <2>2
<1>11. /\ task' \in Tasks /\ task'.kind = "index" /\ task'.base = task.base /\ task'.at = 1
       /\ task'.pin = task.pin /\ task'.read = read
  BY <1>1, <1>3, <1>10 DEF Tasks
<1>12. off + Len(read) <= MaxLines
  BY <1>1, <1>2, <1>5, <1>8
<1>13. IndexSound(log, row, task')
  BY <1>1, <1>3, <1>7, <1>9, <1>11, <1>12 DEF TaskSound, IndexSound, off, lines
<1>14. TaskSound(log, row, task', pages)
  BY <1>1, <1>11, <1>13 DEF TaskSound
<1> QED
  BY <1>3, <1>11, <1>14, TaskStep

(* A query begins before the first range, with the pages of its cursor.    *)
LEMMA BeginQueryKeeps == SourceInv /\ BeginQuery => SourceInv'
<1> SUFFICES ASSUME SourceInv, BeginQuery PROVE SourceInv'
  OBVIOUS
<1>1. log \in Files /\ row \in Rows /\ RowSound(row) /\ log.mtime \in Nat
      /\ row.ranges \in Seq(RangeType)
      /\ pages \in [live : BOOLEAN, served : Nat, held : SUBSET Nat]
  BY DEF SourceInv, TypesHold, Files, Rows
<1>2. /\ task' = TaskOf("query", row, 1)
      /\ reply' = NoReply /\ log' = log /\ row' = row
      /\ pages' = (IF pages.live THEN pages ELSE [NoPages EXCEPT !.live = TRUE])
      /\ row.inode = log.inode
  BY DEF BeginQuery, Begin, Opens, Continues, NoTask, TaskOf
<1>3. /\ task' \in Tasks /\ task'.kind = "query" /\ task'.base = row /\ task'.at = 1
      /\ task'.pin = Stat(log) /\ task'.hits = {}
  BY <1>1, <1>2, NewTask
<1>4. task'.pin.mtime <= log.mtime /\ row.inode = task'.pin.inode
  BY <1>1, <1>2, <1>3, StatFits
<1>5. /\ pages' \in [live : BOOLEAN, served : Nat, held : SUBSET Nat] /\ pages'.live
      /\ PagesSound(row, pages')
  <2>1. CASE pages.live
    BY <1>1, <1>2, <2>1 DEF SourceInv
  <2>2. CASE ~pages.live
    <3>1. pages' = [live |-> TRUE, served |-> 0, held |-> {}]
      BY <1>2, <2>2 DEF NoPages
    <3>2. IsFiniteSet({}) /\ Cardinality({}) = 0
      BY FS_EmptySet
    <3> QED
      BY <3>1, <3>2 DEF PagesSound
  <2> QED
    BY <2>1, <2>2
<1>6. Len(row.ranges) \in Nat /\ HitsBefore(row, 1) = {}
  BY <1>1, HitsAtFirst
<1>7. ReadSound(log, row, task')
  BY <1>3, <1>4, <1>6 DEF ReadSound
<1>8. TaskSound(log, row, task', pages')
  BY <1>1, <1>3, <1>4, <1>5, <1>6, <1>7 DEF TaskSound
<1>9. TypesHold'
  BY <1>2, <1>3, <1>5, NothingFits DEF SourceInv, TypesHold
<1>10. ReplySound(log, row, task', pages', NoReply)
  BY NothingFits DEF ReplySound
<1> QED
  BY <1>2, <1>5, <1>8, <1>9, <1>10 DEF SourceInv

(* A range more, and its hits.                                             *)
LEMMA WalkStep ==
  ASSUME SourceInv, Walking, NEW h, h = HitsBefore(row, task.at + 1),
         Stat(log) = task.pin => Borne(log, row.ranges[task.at]),
         task' = [task EXCEPT !.at = @ + 1, !.hits = h],
         log' = log, row' = row, pages' = pages, reply' = reply
  PROVE  SourceInv'
<1>1. /\ log \in Files /\ log.lines \in Seq(Values) /\ row \in Rows /\ RowSound(row) /\ task \in Tasks
      /\ row.ranges \in Seq(RangeType) /\ Chained(row.ranges) /\ Len(row.ranges) \in Nat
      /\ TaskSound(log, row, task, pages)
  BY DEF SourceInv, TypesHold, Files, Rows, RowSound
<1>2. /\ task.kind = "query" /\ ReadSound(log, row, task) /\ task.base = row /\ pages.live
      /\ task.at \in Nat /\ task.at \in 1..(Len(row.ranges) + 1)
  BY <1>1 DEF Walking, TaskSound, ReadSound, Tasks
<1>3. task.at \in 1..Len(row.ranges)
  BY <1>1, <1>2 DEF Walking, Beyond
<1>4. task.at + 1 \in 1..(Len(row.ranges) + 1) /\ task.at + 1 \in Nat
      /\ \A n \in 1..((task.at + 1) - 1) : n \in 1..(task.at - 1) \/ n = task.at
  BY <1>1, <1>3
<1>5. h \in SUBSET Nat
  <2>1. \A x \in h : x \in IndexedEvents(row.ranges)
    BY <1>1, <1>4, HitsAreEvents
  <2>2. IndexedEvents(row.ranges) \subseteq 1..EndOf(row.ranges) /\ EndOf(row.ranges) \in Nat
    BY <1>1, EventsWithin, ChainFacts
  <2> QED
    BY <2>1, <2>2
<1>6. /\ task' \in Tasks /\ task'.kind = "query" /\ task'.base = row /\ task'.pin = task.pin
      /\ task'.at = task.at + 1 /\ task'.hits = h
  BY <1>1, <1>2, <1>4, <1>5 DEF Tasks
<1>7. ReadSound(log, row, task')
  BY <1>2, <1>4, <1>6 DEF ReadSound
<1>8. TaskSound(log, row, task', pages)
  BY <1>1, <1>2, <1>6, <1>7 DEF TaskSound
<1> QED
  BY <1>2, <1>6, <1>8, TaskStep

(* A range the filter excludes has no hit; a seal of the pinned file       *)
(* vouches for it, or its bytes were verified.                             *)
LEMMA SkipKeeps == SourceInv /\ (SkipSealedRange \/ SkipVerifiedRange) => SourceInv'
<1> SUFFICES ASSUME SourceInv, SkipSealedRange \/ SkipVerifiedRange PROVE SourceInv'
  OBVIOUS
<1>1. /\ Walking /\ ~MayMatch(Next1) /\ (Sealed(task.base) \/ Verified(Next1))
      /\ task' = [task EXCEPT !.at = @ + 1]
      /\ log' = log /\ row' = row /\ pages' = pages /\ reply' = reply
  BY DEF SkipSealedRange, SkipVerifiedRange
<1>2. /\ row \in Rows /\ task \in Tasks /\ Len(row.ranges) \in Nat /\ log \in Files
      /\ TaskSound(log, row, task, pages) /\ Vouched(log, row)
  BY DEF SourceInv, TypesHold, Rows
<1>3. /\ task.kind = "query" /\ task.base = row /\ row.inode = task.pin.inode
      /\ task.hits = HitsBefore(row, task.at)
      /\ task.at \in Nat /\ task.at \in 1..(Len(row.ranges) + 1)
  BY <1>1, <1>2 DEF Walking, TaskSound, ReadSound, Tasks
<1>4. task.at \in 1..Len(row.ranges)
  BY <1>1, <1>2, <1>3 DEF Walking, Beyond
<1>5. task.hits = HitsBefore(row, task.at + 1)
  BY <1>1, <1>2, <1>3, <1>4, HitsOneMore DEF Next1
<1>6. ASSUME Stat(log) = task.pin PROVE Borne(log, row.ranges[task.at])
  <2>1. CASE Verified(Next1)
    BY <1>3, <2>1, VerifiedIsBorne DEF Next1
  <2>2. CASE Sealed(task.base)
    <3>1. row.seal = Span(Stat(log)) /\ row.inode = log.inode
      BY <1>2, <1>3, <1>6, <2>2, StatFits DEF Sealed
    <3> QED
      BY <1>2, <1>4, <3>1 DEF Vouched
  <2> QED
    BY <1>1, <2>1, <2>2
<1>7. task' = [task EXCEPT !.at = @ + 1, !.hits = task.hits]
  BY <1>1, <1>2 DEF Tasks
<1> QED
  BY <1>1, <1>5, <1>6, <1>7, WalkStep

(* A replayed range adds its hits up to the frontier.                      *)
LEMMA ReplayRangeKeeps == SourceInv /\ ReplayRange => SourceInv'
<1> SUFFICES ASSUME SourceInv, ReplayRange PROVE SourceInv'
  OBVIOUS
<1> DEFINE h == task.hits \cup {Next1.from + i : i \in HitsIn(Next1.lines, task.base.frontier - Next1.from)}
<1>1. /\ Walking /\ Verified(Next1) /\ task' = [task EXCEPT !.at = @ + 1, !.hits = h]
      /\ log' = log /\ row' = row /\ pages' = pages /\ reply' = reply
  BY DEF ReplayRange
<1>2. /\ row \in Rows /\ task \in Tasks /\ Len(row.ranges) \in Nat
      /\ TaskSound(log, row, task, pages)
  BY DEF SourceInv, TypesHold, Rows
<1>3. /\ task.kind = "query" /\ task.base = row /\ task.hits = HitsBefore(row, task.at)
      /\ task.at \in Nat /\ task.at \in 1..(Len(row.ranges) + 1)
  BY <1>1, <1>2 DEF Walking, TaskSound, ReadSound, Tasks
<1>4. task.at \in 1..Len(row.ranges)
  BY <1>1, <1>2, <1>3 DEF Walking, Beyond
<1>5. h = HitsBefore(row, task.at + 1)
  BY <1>2, <1>3, <1>4, HitsOneMore DEF Next1
<1>6. Borne(log, row.ranges[task.at])
  BY <1>1, <1>3, VerifiedIsBorne DEF Next1
<1> HIDE DEF h
<1> QED
  BY <1>1, <1>5, <1>6, WalkStep

(* The readiness step begins at the first range with an event that is not  *)
(* ready.                                                                  *)
LEMMA BeginReadinessKeeps == SourceInv /\ BeginReadiness => SourceInv'
<1> SUFFICES ASSUME SourceInv, BeginReadiness PROVE SourceInv'
  OBVIOUS
<1> DEFINE n == NextUnready(row)
<1>1. /\ log \in Files /\ row \in Rows /\ RowSound(row) /\ log.mtime \in Nat
      /\ log.lines \in Seq(Values) /\ row.ranges \in Seq(RangeType) /\ Len(row.ranges) \in Nat
  BY DEF SourceInv, TypesHold, Files, Rows
<1>2. /\ task' = TaskOf("ready", row, n) /\ row.ready < row.count /\ row.inode = log.inode
      /\ reply' = NoReply /\ log' = log /\ row' = row /\ pages' = pages
  <2> HIDE DEF n
  <2> QED
    BY DEF BeginReadiness, Begin, Opens, Continues, NoTask, TaskOf, n
<1>3. /\ n \in 1..Len(row.ranges)
      /\ \A k \in 1..(n - 1) : \A i \in Events(row.ranges[k].lines) :
           row.ranges[k].from + i <= row.frontier
  BY <1>1, <1>2, NextUnreadyFacts
<1> HIDE DEF n
<1>4. n \in Nat /\ n \in 1..(Len(row.ranges) + 1) /\ n <= Len(row.ranges)
  BY <1>1, <1>3
<1>5. /\ task' \in Tasks /\ task'.kind = "ready" /\ task'.base = row /\ task'.at = n
      /\ task'.pin = Stat(log)
  BY <1>1, <1>2, <1>4, NewTask
<1>6. task'.pin.mtime <= log.mtime /\ row.inode = task'.pin.inode
  BY <1>1, <1>2, <1>5, StatFits
<1>7. ReadSound(log, row, task') /\ ReadySound(row, task')
  BY <1>3, <1>4, <1>5, <1>6 DEF ReadSound, ReadySound
<1>8. TaskSound(log, row, task', pages)
  BY <1>1, <1>5, <1>6, <1>7 DEF TaskSound
<1> QED
  BY <1>2, <1>5, <1>8, BeginStep

(* An audit goes on after its cursor only if that is of this very file.    *)
LEMMA BeginAuditKeeps == SourceInv /\ BeginAudit => SourceInv'
<1> SUFFICES ASSUME SourceInv, BeginAudit PROVE SourceInv'
  OBVIOUS
<1> DEFINE n == 1 + IF row.audited = Span(Stat(log)) THEN row.after ELSE 0
<1>1. /\ log \in Files /\ row \in Rows /\ RowSound(row) /\ log.mtime \in Nat /\ Vouched(log, row)
      /\ row.ranges \in Seq(RangeType) /\ Len(row.ranges) \in Nat
      /\ row.after \in Nat /\ row.after <= Len(row.ranges)
  BY DEF SourceInv, TypesHold, Files, Rows, RowSound
<1>2. /\ task' = TaskOf("audit", row, n) /\ row.inode = log.inode
      /\ reply' = NoReply /\ log' = log /\ row' = row /\ pages' = pages
  <2> HIDE DEF n
  <2> QED
    BY DEF BeginAudit, Begin, Opens, Continues, NoTask, TaskOf, n
<1>3. /\ n \in Nat /\ n \in 1..(Len(row.ranges) + 1)
      /\ \A k \in 1..(n - 1) : Borne(log, row.ranges[k])
  <2>1. CASE row.audited = Span(Stat(log))
    <3>1. n = row.after + 1 /\ n - 1 = row.after
      BY <1>1, <2>1
    <3>2. \A k \in 1..row.after : Borne(log, row.ranges[k])
      BY <1>1, <1>2, <2>1 DEF Vouched
    <3> HIDE DEF n
    <3> QED
      BY <1>1, <3>1, <3>2
  <2>2. CASE row.audited # Span(Stat(log))
    <3>1. n = 1 /\ 1..(n - 1) = {}
      BY <2>2
    <3> HIDE DEF n
    <3> QED
      BY <1>1, <3>1
  <2> QED
    BY <2>1, <2>2
<1> HIDE DEF n
<1>4. /\ task' \in Tasks /\ task'.kind = "audit" /\ task'.base = row /\ task'.at = n
      /\ task'.pin = Stat(log)
  BY <1>1, <1>2, <1>3, NewTask
<1>5. task'.pin.mtime <= log.mtime /\ row.inode = task'.pin.inode
  BY <1>1, <1>2, <1>4, StatFits
<1>6. ReadSound(log, row, task')
  BY <1>3, <1>4, <1>5 DEF ReadSound
<1>7. TaskSound(log, row, task', pages)
  BY <1>1, <1>4, <1>5, <1>6 DEF TaskSound
<1> QED
  BY <1>2, <1>4, <1>7, BeginStep

(* A verified range is one the file bears out.                             *)
LEMMA VerifyRangeKeeps == SourceInv /\ VerifyRange => SourceInv'
<1> SUFFICES ASSUME SourceInv, VerifyRange PROVE SourceInv'
  OBVIOUS
<1>1. CASE ~Verified(Next1)
  BY <1>1, AbandonKeeps DEF VerifyRange
<1>2. CASE Verified(Next1)
  <2> DEFINE more == Append(task.read, "verified")
  <2>1. /\ Auditing /\ task' = [task EXCEPT !.at = @ + 1, !.read = more]
        /\ log' = log /\ row' = row /\ pages' = pages /\ reply' = reply
    BY <1>2 DEF VerifyRange
  <2>2. /\ row \in Rows /\ task \in Tasks /\ Len(row.ranges) \in Nat
        /\ TaskSound(log, row, task, pages)
    BY DEF SourceInv, TypesHold, Rows
  <2>3. /\ task.kind = "audit" /\ ReadSound(log, row, task) /\ task.base = row
        /\ task.at \in Nat /\ task.at \in 1..(Len(row.ranges) + 1)
    BY <2>1, <2>2 DEF Auditing, TaskSound, ReadSound, Tasks
  <2>4. task.at \in 1..Len(row.ranges)
    BY <2>1, <2>2, <2>3 DEF Auditing
  <2>5. /\ task.at + 1 \in 1..(Len(row.ranges) + 1) /\ task.at + 1 \in Nat
        /\ \A n \in 1..((task.at + 1) - 1) : n \in 1..(task.at - 1) \/ n = task.at
    BY <2>2, <2>4
  <2>6. more \in Seq(Values \cup {"verified"})
    BY <2>2 DEF Tasks
  <2> HIDE DEF more
  <2>7. /\ task' \in Tasks /\ task'.kind = "audit" /\ task'.base = row /\ task'.pin = task.pin
        /\ task'.at = task.at + 1
    BY <2>1, <2>2, <2>3, <2>5, <2>6 DEF Tasks
  <2>8. Borne(log, row.ranges[task.at])
    BY <1>2, <2>3, VerifiedIsBorne DEF Next1
  <2>9. ReadSound(log, row, task')
    BY <2>3, <2>5, <2>7, <2>8 DEF ReadSound
  <2>10. TaskSound(log, row, task', pages)
    BY <2>2, <2>3, <2>7, <2>9 DEF TaskSound
  <2> QED
    BY <2>1, <2>3, <2>7, <2>10, TaskStep
<1> QED
  BY <1>1, <1>2

(***************************************************************************)
(* Commits.                                                                *)
(***************************************************************************)
(* A sound row that vouches for the truth may be committed.                *)
LEMMA CommitStep ==
  ASSUME SourceInv, NEW r \in Rows, RowSound(r), Vouched(log, r), Commit(r), task.kind # "none"
  PROVE  SourceInv'
<1>1. /\ row' = r /\ pages' = [pages EXCEPT !.live = FALSE] /\ task' = NoTask
      /\ log' = log /\ reply' = reply
  BY DEF Commit
<1>2. /\ pages \in [live : BOOLEAN, served : Nat, held : SUBSET Nat] /\ log.mtime \in Nat
      /\ ~reply.given
  BY DEF SourceInv, TypesHold, Files, ReplySound
<1>3. pages' \in [live : BOOLEAN, served : Nat, held : SUBSET Nat] /\ ~pages'.live
  BY <1>1, <1>2
<1>4. TypesHold'
  BY <1>1, <1>3, NothingFits DEF SourceInv, TypesHold
<1>5. TaskSound(log, r, NoTask, pages')
  BY <1>2, NothingFits DEF TaskSound
<1>6. PagesSound(r, pages') /\ ReplySound(log, r, NoTask, pages', reply)
  BY <1>2, <1>3 DEF PagesSound, ReplySound
<1> QED
  BY <1>1, <1>4, <1>5, <1>6 DEF SourceInv

(* A scan's commit.                                                        *)
LEMMA CommitIndexKeeps == SourceInv /\ CommitIndex => SourceInv'
<1> SUFFICES ASSUME SourceInv, CommitIndex PROVE SourceInv'
  OBVIOUS
<1>1. /\ task.kind = "index" /\ task.at = 1 /\ Stat(log) = task.pin
      /\ Commit(Indexed(task.base, task.read))
  BY DEF CommitIndex, Pinned
<1>2. /\ log \in Files /\ log.lines \in Seq(Values) /\ task \in Tasks /\ task.base \in Rows
      /\ TaskSound(log, row, task, pages) /\ Vouched(log, row)
  BY DEF SourceInv, TypesHold, Files, Tasks
<1>3. RowSound(task.base) /\ IndexSound(log, row, task)
  BY <1>1, <1>2 DEF TaskSound
<1>4. /\ task.read \in Seq(Values) /\ task.base.offset + Len(task.read) <= MaxLines
      /\ \A i \in 1..Len(task.read) : /\ task.base.offset + i <= Len(log.lines)
                                      /\ log.lines[task.base.offset + i] = task.read[i]
  BY <1>1, <1>3 DEF IndexSound
<1>5. Vouched(log, task.base)
  BY <1>2, <1>3, UnreadVouches DEF IndexSound
<1>6. Indexed(task.base, task.read) \in Rows /\ RowSound(Indexed(task.base, task.read))
  BY <1>2, <1>3, <1>4, IndexedSound
<1>7. Vouched(log, Indexed(task.base, task.read))
  BY <1>2, <1>3, <1>4, <1>5, IndexedVouches
<1> QED
  BY <1>1, <1>6, <1>7, CommitStep

(* A readiness step's commit.                                              *)
LEMMA AdvanceReadinessKeeps == SourceInv /\ AdvanceReadiness => SourceInv'
<1> SUFFICES ASSUME SourceInv, AdvanceReadiness PROVE SourceInv'
  OBVIOUS
<1>1. CASE ~Verified(Next1) \/ ~Pinned
  BY <1>1, AbandonKeeps DEF AdvanceReadiness
<1>2. CASE ~(~Verified(Next1) \/ ~Pinned)
  <2> DEFINE k == task.at
  <2>1. task.kind = "ready"
    BY DEF AdvanceReadiness
  <2>2. /\ row \in Rows /\ RowSound(row) /\ task \in Tasks /\ Len(row.ranges) \in Nat
        /\ log.lines \in Seq(Values) /\ TaskSound(log, row, task, pages) /\ Vouched(log, row)
    BY DEF SourceInv, TypesHold, Rows, Files
  <2>3. task.base = row /\ ReadySound(row, task) /\ task.at \in Nat /\ task.at \in 1..(Len(row.ranges) + 1)
    BY <2>1, <2>2 DEF TaskSound, ReadSound, Tasks
  <2>4. k \in 1..Len(row.ranges)
    BY <2>2, <2>3 DEF ReadySound
  <2>5. Next1 = row.ranges[k]
    BY <2>3 DEF Next1
  <2>6. PICK upto \in {row.ranges[k].from + i : i \in Events(row.ranges[k].lines)} :
          upto > row.frontier /\ Commit(Readied(row, k, upto))
    BY <1>2, <2>5 DEF AdvanceReadiness, Readied
  <2>7. PICK j \in Events(row.ranges[k].lines) : upto = row.ranges[k].from + j
    OBVIOUS
  <2>8. \A n \in 1..(k - 1) : \A i \in Events(row.ranges[n].lines) :
          row.ranges[n].from + i <= row.frontier
    BY <2>3 DEF ReadySound
  <2> DEFINE new == Readied(row, k, upto)
  <2>10. /\ new.inode = row.inode /\ new.seal = row.seal /\ new.audited = row.audited
         /\ new.after = row.after /\ new.ranges = row.ranges
    BY <2>2 DEF Rows, Readied
  <2> HIDE DEF k
  <2>11. new \in Rows /\ RowSound(new)
    BY <2>2, <2>4, <2>6, <2>7, <2>8, ReadyAdvances
  <2> HIDE DEF new
  <2>12. Vouched(log, new)
    BY <2>2, <2>10 DEF Vouched
  <2> QED
    BY <2>1, <2>6, <2>11, <2>12, CommitStep DEF new
<1> QED
  BY <1>1, <1>2

(* An audit's commit: its cursor and its seal vouch for what was verified. *)
LEMMA CommitAuditKeeps == SourceInv /\ CommitAudit => SourceInv'
<1> SUFFICES ASSUME SourceInv, CommitAudit PROVE SourceInv'
  OBVIOUS
<1>1. CASE ~Pinned
  BY <1>1, AbandonKeeps DEF CommitAudit
<1>2. CASE Pinned
  <2> DEFINE span == Span(task.pin)
             after == task.at - 1
             seal == IF task.at > Len(task.base.ranges) THEN span ELSE row.seal
  <2>1. /\ task.kind = "audit" /\ row' = [row EXCEPT !.audited = span, !.after = after, !.seal = seal]
        /\ task' = NoTask /\ log' = log /\ pages' = pages /\ reply' = reply
    BY <1>2 DEF CommitAudit
  <2>2. /\ row \in Rows /\ RowSound(row) /\ task \in Tasks /\ log \in Files /\ log.mtime \in Nat
        /\ Len(row.ranges) \in Nat /\ TaskSound(log, row, task, pages) /\ Vouched(log, row)
        /\ row.seal \in Marks /\ ~reply.given
    BY <2>1 DEF SourceInv, TypesHold, Rows, Files, ReplySound
  <2>3. /\ task.base = row /\ task.at \in 1..(Len(row.ranges) + 1)
        /\ \A n \in 1..after : Borne(log, row.ranges[n])
    BY <1>2, <2>1, <2>2 DEF TaskSound, ReadSound, Pinned
  <2>4. span = Span(Stat(log)) /\ span \in Marks /\ span.mtime = log.mtime
    BY <1>2, <2>2, StatFits DEF Pinned
  <2>5. after \in Nat /\ after <= Len(row.ranges) /\ (task.at > Len(row.ranges) => after = Len(row.ranges))
    BY <2>2, <2>3
  <2>6. seal \in Marks /\ seal.mtime <= log.mtime
    BY <2>2, <2>4 DEF Vouched
  <2>7. row.inode = log.inode /\ seal = Span(Stat(log)) => \A n \in 1..Len(row.ranges) : Borne(log, row.ranges[n])
    <3>1. CASE task.at > Len(row.ranges)
      BY <2>3, <2>5, <3>1
    <3>2. CASE ~(task.at > Len(row.ranges))
      BY <2>2, <2>3, <3>2 DEF Vouched
    <3> QED
      BY <3>1, <3>2
  <2> HIDE DEF span, after, seal
  <2>8. /\ row' \in Rows /\ row'.audited = span /\ row'.after = after /\ row'.seal = seal
        /\ row'.ranges = row.ranges /\ row'.inode = row.inode /\ row'.offset = row.offset
        /\ row'.count = row.count /\ row'.ready = row.ready /\ row'.frontier = row.frontier
    BY <2>1, <2>2, <2>4, <2>5, <2>6 DEF Rows
  <2>9. RowSound(row')
    BY <2>2, <2>5, <2>8 DEF RowSound
  <2>10. Vouched(log, row')
    BY <2>2, <2>3, <2>4, <2>6, <2>7, <2>8 DEF Vouched
  <2>11. RowHits(row') = RowHits(row)
    BY <2>8 DEF RowHits, HitsBefore
  <2>12. PagesSound(row', pages) /\ ReplySound(log, row', NoTask, pages, reply)
    BY <2>2, <2>11 DEF SourceInv, PagesSound, ReplySound
  <2>13. TaskSound(log, row', NoTask, pages)
    BY <2>2, NothingFits DEF TaskSound
  <2>14. TypesHold'
    BY <2>1, <2>8, NothingFits DEF SourceInv, TypesHold
  <2> QED
    BY <2>1, <2>9, <2>10, <2>12, <2>13, <2>14 DEF SourceInv
<1> QED
  BY <1>1, <1>2

(* A denied source keeps its row.                                          *)
LEMMA PruneSourceKeeps == SourceInv /\ PruneSource => SourceInv'
<1> SUFFICES ASSUME SourceInv, PruneSource PROVE SourceInv'
  OBVIOUS
<1>1. /\ task.kind = "none" /\ row' = [row EXCEPT !.missing = TRUE]
      /\ pages' = [pages EXCEPT !.live = FALSE] /\ reply' = NoReply
      /\ log' = log /\ task' = task
  BY DEF PruneSource
<1>2. /\ row \in Rows /\ RowSound(row) /\ Vouched(log, row) /\ TaskSound(log, row, task, pages)
      /\ pages \in [live : BOOLEAN, served : Nat, held : SUBSET Nat]
  BY DEF SourceInv, TypesHold
<1>3. /\ row' \in Rows /\ row'.audited = row.audited /\ row'.after = row.after /\ row'.seal = row.seal
      /\ row'.ranges = row.ranges /\ row'.inode = row.inode /\ row'.offset = row.offset
      /\ row'.count = row.count /\ row'.ready = row.ready /\ row'.frontier = row.frontier
  BY <1>1, <1>2 DEF Rows
<1>4. RowSound(row') /\ Vouched(log, row')
  BY <1>2, <1>3 DEF RowSound, Vouched
<1>5. pages' \in [live : BOOLEAN, served : Nat, held : SUBSET Nat] /\ ~pages'.live
  BY <1>1, <1>2
<1>6. TypesHold'
  BY <1>1, <1>3, <1>5, NothingFits DEF SourceInv, TypesHold
<1>7. TaskSound(log, row', task, pages')
  BY <1>1, <1>2 DEF TaskSound
<1>8. PagesSound(row', pages') /\ ReplySound(log, row', task, pages', NoReply)
  BY <1>5, NothingFits DEF PagesSound, ReplySound
<1> QED
  BY <1>1, <1>4, <1>6, <1>7, <1>8 DEF SourceInv

(* The next page goes on where the pages before it ended.                  *)
LEMMA NextPage ==
  ASSUME NEW H \in SUBSET Nat, IsFiniteSet(H), NEW held \in SUBSET H, NEW served,
         IsFiniteSet(held), Cardinality(held) = served,
         \A h \in held, g \in H : g < h => g \in held
  PROVE  LET page == PageAfter(H, served) IN
         /\ IsFiniteSet(held \cup page) /\ Cardinality(page) \in Nat
         /\ Cardinality(held \cup page) = served + Cardinality(page)
         /\ page \subseteq H
         /\ \A h \in held \cup page, g \in H : g < h => g \in held \cup page
<1> DEFINE page == PageAfter(H, served)
           Below(h) == {g \in H : g < h}
           rest == {h \in H : Cardinality(Below(h)) >= served}
<1>1. served \in Nat
  BY FS_CardinalityType
<1>2. ASSUME NEW h \in H PROVE IsFiniteSet(Below(h)) /\ Cardinality(Below(h)) \in Nat
  <2>1. Below(h) \subseteq H
    OBVIOUS
  <2> HIDE DEF Below
  <2> QED
    BY <2>1, FS_Subset, FS_CardinalityType
<1>3. ASSUME NEW h \in held PROVE h \notin rest
  <2>0. h \in H /\ h \in Nat /\ ~(h < h)
    OBVIOUS
  <2>1. Below(h) \subseteq held /\ h \notin Below(h) /\ h \in H
    BY <2>0
  <2>2. Below(h) \subseteq held \ {h}
    <3> HIDE DEF Below
    <3> QED
      BY <2>1
  <2>3. IsFiniteSet(held \ {h}) /\ Cardinality(held \ {h}) = served - 1
    BY FS_RemoveElement
  <2> HIDE DEF Below
  <2>4. Cardinality(Below(h)) <= served - 1
    BY <2>2, <2>3, FS_Subset
  <2>5. ~(Cardinality(Below(h)) >= served)
    BY <1>1, <1>2, <2>1, <2>4
  <2> QED
    BY <2>5
<1>4. ASSUME NEW h \in H, h \notin held PROVE h \in rest
  <2>1. ASSUME NEW g \in held PROVE g \in Below(h)
    <3>1. g \in H /\ g # h /\ g \in Nat /\ h \in Nat
      BY <1>4
    <3>2. ~(h < g)
      BY <1>4
    <3> QED
      BY <3>1, <3>2
  <2> HIDE DEF Below
  <2>2. held \subseteq Below(h)
    BY <2>1
  <2>3. served <= Cardinality(Below(h))
    BY <1>2, <2>2, FS_Subset
  <2> QED
    BY <1>1, <1>2, <2>3
<1>5. page = IF rest = {} THEN {} ELSE {CHOOSE h \in rest : \A g \in rest : h <= g}
  BY DEF PageAfter
<1>6. rest \in SUBSET Nat /\ rest \subseteq H
  OBVIOUS
<1> HIDE DEF page, rest, Below
<1>7. CASE rest = {}
  <2>1. page = {} /\ held \cup page = held
    BY <1>5, <1>7
  <2>2. Cardinality(page) = 0
    BY <2>1, FS_EmptySet, Zenon
  <2>3. Cardinality(held \cup page) = served
    BY <2>1, Zenon
  <2> QED
    BY <1>1, <2>1, <2>2, <2>3 DEF page
<1>8. CASE rest # {}
  <2> DEFINE x == CHOOSE h \in rest : \A g \in rest : h <= g
  <2>1. x \in rest /\ \A g \in rest : x <= g
    BY <1>6, <1>8, LeastNumber
  <2>2. page = {x}
    BY <1>5, <1>8
  <2> HIDE DEF x
  <2>3. x \notin held /\ x \in H
    BY <1>3, <1>6, <2>1
  <2>4. Cardinality(page) = 1
    BY <2>2, FS_Singleton, Zenon
  <2>5. IsFiniteSet(held \cup {x}) /\ Cardinality(held \cup {x}) = Cardinality(held) + 1
    BY <2>3, FS_AddElement
  <2>6. Cardinality(held \cup page) = served + 1
    BY <2>2, <2>5, Zenon
  <2>7. ASSUME NEW h \in held \cup page, NEW g \in H, g < h PROVE g \in held \cup page
    <3>1. CASE h \in held
      BY <2>7, <3>1
    <3>2. CASE h = x
      <4>1. g \notin rest
        BY <1>6, <2>1, <2>7, <3>2
      <4> QED
        BY <1>4, <4>1
    <3> QED
      BY <2>2, <3>1, <3>2
  <2> QED
    BY <2>2, <2>3, <2>4, <2>5, <2>6, <2>7 DEF page
<1> QED
  BY <1>7, <1>8

(* A query's answer is the row's hits, and the file's up to the frontier.  *)
LEMMA FinishQueryKeeps == SourceInv /\ FinishQuery => SourceInv'
<1> SUFFICES ASSUME SourceInv, FinishQuery PROVE SourceInv'
  OBVIOUS
<1>1. CASE ~Pinned
  <2>1. Abandon
    BY <1>1 DEF FinishQuery, Abandon
  <2> QED
    BY <2>1, AbandonKeeps
<1>2. CASE Pinned
  <2> DEFINE H == task.hits
             page == PageAfter(H, pages.served)
             upto == IF row.ready = 0 THEN 0 ELSE row.frontier
  <2>1. /\ row \in Rows /\ RowSound(row) /\ task \in Tasks /\ Len(row.ranges) \in Nat
        /\ log \in Files /\ log.lines \in Seq(Values) /\ log.mtime \in Nat
        /\ row.ranges \in Seq(RangeType) /\ Chained(row.ranges) /\ row.frontier \in Nat
        /\ pages \in [live : BOOLEAN, served : Nat, held : SUBSET Nat]
        /\ TaskSound(log, row, task, pages) /\ PagesSound(row, pages)
    <3>1. /\ row \in Rows /\ RowSound(row) /\ task \in Tasks /\ log \in Files
          /\ pages \in [live : BOOLEAN, served : Nat, held : SUBSET Nat]
          /\ TaskSound(log, row, task, pages) /\ PagesSound(row, pages)
      BY DEF SourceInv, TypesHold
    <3>2. row.ranges \in Seq(RangeType) /\ row.frontier \in Nat
      BY <3>1 DEF Rows
    <3>3. log.lines \in Seq(Values) /\ log.mtime \in Nat
      BY <3>1 DEF Files
    <3>4. Chained(row.ranges)
      BY <3>1 DEF RowSound
    <3> QED
      BY <3>1, <3>2, <3>3, <3>4
  <2>2. task.kind = "query" /\ ~Walking
    BY DEF FinishQuery
  <2>3. /\ task.base = row /\ task.at \in 1..(Len(row.ranges) + 1) /\ pages.live
        /\ H = HitsBefore(row, task.at)
        /\ \A n \in 1..(task.at - 1) : Borne(log, row.ranges[n])
    BY <1>2, <2>1, <2>2 DEF TaskSound, ReadSound, Pinned
  <2>4. Beyond(row, task.at)
    BY <2>2, <2>3 DEF Walking
  <2>5. H = RowHits(row) /\ H = HitsIn(log.lines, upto)
    BY <2>1, <2>3, <2>4, WalkedIsExact
  <2>6. /\ reply' = [given |-> TRUE, hits |-> H, upto |-> upto]
        /\ pages' = [pages EXCEPT !.held = @ \cup page, !.served = @ + Cardinality(page)]
        /\ task' = NoTask /\ log' = log /\ row' = row
    BY <1>2, <2>3 DEF FinishQuery
  <2>7. H \in SUBSET Nat /\ IsFiniteSet(H)
    <3>1. \A x \in H : x \in IndexedEvents(row.ranges)
      BY <2>1, <2>3, HitsAreEvents
    <3>2. IsFiniteSet(IndexedEvents(row.ranges))
      BY <2>1, EventsWithin
    <3>3. H \in SUBSET Nat
      BY <2>1 DEF Tasks
    <3> HIDE DEF H
    <3> QED
      BY <3>1, <3>2, <3>3, FS_Subset
  <2>8. /\ pages.held \in SUBSET H /\ IsFiniteSet(pages.held) /\ Cardinality(pages.held) = pages.served
        /\ \A h \in pages.held, g \in H : g < h => g \in pages.held
    BY <2>1, <2>3, <2>5 DEF PagesSound
  <2> HIDE DEF H, upto
  <2>9. /\ IsFiniteSet(pages.held \cup page) /\ Cardinality(page) \in Nat
        /\ Cardinality(pages.held \cup page) = pages.served + Cardinality(page)
        /\ page \subseteq H
        /\ \A h \in pages.held \cup page, g \in H : g < h => g \in pages.held \cup page
    BY <2>7, <2>8, NextPage
  <2> HIDE DEF page
  <2> DEFINE served == pages.served + Cardinality(page)
             held == pages.held \cup page
  <2>10. pages' = [pages EXCEPT !.held = held, !.served = served]
    BY <2>1, <2>6
  <2>11. served \in Nat /\ held \in SUBSET Nat /\ held \subseteq H
    <3>1. pages.served \in Nat /\ served \in Nat
      BY <2>1, <2>9
    <3>2. held \subseteq H
      BY <2>8, <2>9
    <3> HIDE DEF served, held
    <3> QED
      BY <2>7, <3>1, <3>2
  <2>12. /\ IsFiniteSet(held) /\ Cardinality(held) = served
         /\ \A h \in held, g \in H : g < h => g \in held
    BY <2>9
  <2> HIDE DEF served, held
  <2>13. /\ pages' \in [live : BOOLEAN, served : Nat, held : SUBSET Nat]
         /\ pages'.live /\ pages'.held = held /\ pages'.served = served
    BY <2>1, <2>3, <2>10, <2>11
  <2>14. PagesSound(row, pages')
    BY <2>5, <2>11, <2>12, <2>13 DEF PagesSound
  <2>15. /\ reply' \in [given : BOOLEAN, hits : SUBSET Nat, upto : Nat]
         /\ ReplySound(log, row, NoTask, pages', reply')
    <3>1. upto \in Nat
      BY <2>1 DEF upto
    <3> QED
      BY <2>5, <2>6, <2>7, <2>13, <3>1, NothingFits DEF ReplySound
  <2>16. TaskSound(log, row, NoTask, pages')
    BY <2>1, NothingFits DEF TaskSound
  <2>17. TypesHold'
    BY <2>1, <2>6, <2>13, <2>15, NothingFits DEF SourceInv, TypesHold
  <2>18. Vouched(log, row)
    BY DEF SourceInv
  <2> QED
    BY <2>1, <2>6, <2>14, <2>15, <2>16, <2>17, <2>18 DEF SourceInv
<1> QED
  BY <1>1, <1>2

(* A step that changes nothing.                                            *)
LEMMA SourceStutters == SourceInv /\ UNCHANGED sourceVars => SourceInv'
<1> SUFFICES ASSUME SourceInv, UNCHANGED sourceVars PROVE SourceInv'
  OBVIOUS
<1>1. log' = log /\ row' = row /\ task' = task /\ pages' = pages /\ reply' = reply
  BY DEF sourceVars
<1> QED
  BY <1>1 DEF SourceInv, TypesHold

(* Every step keeps the invariant.                                         *)
LEMMA SourceStep == SourceInv /\ [SourceNext]_sourceVars => SourceInv'
<1> SUFFICES ASSUME SourceInv, [SourceNext]_sourceVars PROVE SourceInv'
  OBVIOUS
<1>1. CASE \E v \in Values : AppendRecord(v) \/ \E i \in DOMAIN log.lines : OverwriteRecord(i, v)
  BY <1>1, AppendKeeps, OverwriteKeeps
<1>2. CASE \E n \in 0..Len(log.lines) : TruncateLog(n) \/ ReplaceLog(n)
  BY <1>2, CutKeeps
<1>3. CASE TearRecord
  BY <1>3, TearKeeps
<1>4. CASE BeginIndex
  BY <1>4, BeginIndexKeeps
<1>5. CASE \E n \in 0..MaxLines : ScanRecords(n)
  BY <1>5, ScanRecordsKeeps
<1>6. CASE CommitIndex
  BY <1>6, CommitIndexKeeps
<1>7. CASE AbandonIndex \/ StaleRange \/ CrashTask
  <2>1. Abandon
    BY <1>7 DEF AbandonIndex, StaleRange, CrashTask
  <2> QED
    BY <2>1, AbandonKeeps
<1>8. CASE BeginQuery
  BY <1>8, BeginQueryKeeps
<1>9. CASE SkipSealedRange \/ SkipVerifiedRange
  BY <1>9, SkipKeeps
<1>10. CASE ReplayRange
  BY <1>10, ReplayRangeKeeps
<1>11. CASE FinishQuery
  BY <1>11, FinishQueryKeeps
<1>12. CASE BeginReadiness
  BY <1>12, BeginReadinessKeeps
<1>13. CASE AdvanceReadiness
  BY <1>13, AdvanceReadinessKeeps
<1>14. CASE BeginAudit
  BY <1>14, BeginAuditKeeps
<1>15. CASE VerifyRange
  BY <1>15, VerifyRangeKeeps
<1>16. CASE CommitAudit
  BY <1>16, CommitAuditKeeps
<1>17. CASE PruneSource
  BY <1>17, PruneSourceKeeps
<1>18. CASE UNCHANGED sourceVars
  BY <1>18, SourceStutters
<1> QED
  BY <1>1, <1>2, <1>3, <1>4, <1>5, <1>6, <1>7, <1>8, <1>9, <1>10, <1>11, <1>12, <1>13, <1>14,
     <1>15, <1>16, <1>17, <1>18 DEF SourceNext

(* The invariant is inductive: every row is a sound chain, its seal and    *)
(* cursor say the truth of the file they name, and every operation stands  *)
(* where the file, as far as it is still the pinned one, bears it out.     *)
THEOREM SourceInvariant == SourceSpec => []SourceInv
<1>1. SourceInit => SourceInv
  BY SourceInitInv
<1>2. SourceInv /\ [SourceNext]_sourceVars => SourceInv'
  BY SourceStep
<1> QED
  BY <1>1, <1>2, PTL DEF SourceSpec

(* What is ready is part of what is indexed.                               *)
LEMMA CountsWithin == SourceInv => SourceType
<1> SUFFICES ASSUME SourceInv PROVE SourceType
  OBVIOUS
<1> DEFINE E == IndexedEvents(row.ranges)
           R == {i \in E : i <= row.frontier}
<1>1. /\ log \in Files /\ log.lines \in Seq(Values) /\ Len(log.lines) <= MaxLines
      /\ log.mtime \in Nat /\ log.mtime <= MaxWrites /\ task \in Tasks
      /\ row.ranges \in Seq(RangeType) /\ Chained(row.ranges)
      /\ row.offset = EndOf(row.ranges) /\ row.offset \in Nat /\ row.offset <= MaxLines
      /\ row.count = Cardinality(E) /\ row.ready = Cardinality(R)
      /\ row.count \in Nat /\ row.ready \in Nat
  BY DEF SourceInv, TypesHold, Rows, RowSound, Files
<1>2. MaxLines \in Nat /\ MaxWrites \in Nat
  BY SourceConstants DEF SourceConstants
<1>3. IsFiniteSet(E) /\ Cardinality(E) \in 0..EndOf(row.ranges)
  BY <1>1, EventsWithin
<1>4. R \subseteq E
  OBVIOUS
<1> HIDE DEF E, R
<1>5. Cardinality(R) <= Cardinality(E)
  BY <1>3, <1>4, FS_Subset
<1>6. row.count <= row.offset /\ row.ready <= row.count
  BY <1>1, <1>3, <1>5
<1>7. row.offset \in 0..MaxLines /\ row.count \in 0..MaxLines /\ row.ready \in 0..row.count
  BY <1>1, <1>2, <1>6
<1>8. log.mtime \in 0..MaxWrites
  BY <1>1, <1>2
<1>9. task.kind \in {"none", "index", "query", "ready", "audit"}
  BY <1>1 DEF Tasks
<1> QED
  BY <1>1, <1>7, <1>8, <1>9 DEF SourceType

(* What a reader of the source store gets is what the file holds, or       *)
(* nothing: an answer is every match of the file up to the search frontier *)
(* and no other, and the pages of a cursor are one answer.                 *)
THEOREM ReadersGetTheFile == SourceSpec => []AnswersAreExact
<1>1. SourceInv => AnswersAreExact
  <2> SUFFICES ASSUME SourceInv PROVE AnswersAreExact
    OBVIOUS
  <2>1. SourceType
    BY CountsWithin
  <2>2. AnswerMatchesFile
    BY DEF SourceInv, ReplySound, AnswerMatchesFile
  <2>3. PagesAreOneAnswer
    BY DEF SourceInv, ReplySound, PagesSound, PagesAreOneAnswer
  <2> QED
    BY <2>1, <2>2, <2>3 DEF AnswersAreExact
<1> QED
  BY <1>1, SourceInvariant, PTL

(* A seal names only a file whose every range was verified, and the search *)
(* frontier skips no event of the chain of ranges.                         *)
THEOREM VerificationIsEarned == SourceSpec => []ReadinessIsEarned
<1>1. SourceInv => ReadinessIsEarned
  <2> SUFFICES ASSUME SourceInv PROVE ReadinessIsEarned
    OBVIOUS
  <2>1. /\ row.ranges \in Seq(RangeType) /\ DOMAIN row.ranges = 1..Len(row.ranges)
        /\ RowSound(row) /\ Vouched(log, row)
    BY DEF SourceInv, TypesHold, Rows
  <2>2. SealMeansVerified
    BY <2>1, VerifiedIsBorne DEF Vouched, SealMeansVerified
  <2>3. FrontierSkipsNothing
    BY <2>1 DEF RowSound, Chained, EndOf, FrontierSkipsNothing
  <2> QED
    BY <2>2, <2>3 DEF ReadinessIsEarned
<1> QED
  BY <1>1, SourceInvariant, PTL
=============================================================================
