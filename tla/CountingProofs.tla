---------------------------- MODULE CountingProofs ----------------------------
(***************************************************************************)
(* Proofs about the components that count what files hold, for every value *)
(* of their constants.                                                     *)
(*   HistoryInvariant  HistInv is an invariant.                            *)
(*   HistoryKept       HistoryIsKept is an invariant.                      *)
(*   UsageInvariant    UsageInv is an invariant.                           *)
(*   CountedOnce       UsageIsCountedOnce is an invariant.                 *)
(*   ConcurrencyInvariant, ConcurrencyMeasured                             *)
(*                     ConcurrencyIsMeasured is an invariant.              *)
(*                                                                         *)
(* HistoryFile, for every old file, calendar, window and limit and any     *)
(* number of crashes, refused writes and broken reads: what is             *)
(* acknowledged moves, from the hot file into memory at a load, from there *)
(* into the partitions and into the file that takes the hot one's place.   *)
(* So the invariant says what memory holds while a load is not through,    *)
(* and which rows a partition has before the rewrite leaves them out.      *)
(*                                                                         *)
(* UsageTail, for every kind of record, portion and limit: what a reader   *)
(* keeps after any portions is what one pass over their records gives, so  *)
(* the invariant says what it keeps, message by message and as a sum of    *)
(* what each record adds, of the records before its offset.                *)
(*                                                                         *)
(* Concurrency, for every trace, gap, lookback and window: after each edge *)
(* the sweep has as many spans as are open there, the most there were and  *)
(* where first, and between two edges nothing opens or closes; a walk over *)
(* the events of a trace keeps the start of the burst it is in.            *)
(***************************************************************************)
EXTENDS HistoryFile, UsageTail, Concurrency, FiniteSetTheorems, FunctionTheorems,
        SequenceTheorems, WellFoundedInduction, TLAPS

(***************************************************************************)
(* Numbers, and what is consumed line by line.                             *)
(***************************************************************************)
(* Numbers have a least one.                                               *)
LEMMA LeastNumber ==
  ASSUME NEW S \in SUBSET Nat, S # {}
  PROVE  \E m \in S : \A y \in S : m <= y
<1>1. PICK m \in S : \A y \in S : ~ (<<y, m>> \in OpToRel(<, Nat))
  BY NatLessThanWellFounded, WFMin, Zenon
<1>2. \A y \in S : ~ (y < m)
  BY <1>1 DEF OpToRel
<1> QED
  BY <1>2

(* A set with zero and the successor of each of its numbers has them all.  *)
LEMMA SetInduction ==
  ASSUME NEW S, 0 \in S, \A n \in Nat : n \in S => n + 1 \in S
  PROVE  \A n \in Nat : n \in S
<1>1. SUFFICES ASSUME {n \in Nat : n \notin S} # {}
               PROVE  FALSE
  OBVIOUS
<1>2. PICK m \in {n \in Nat : n \notin S} : \A y \in {n \in Nat : n \notin S} : m <= y
  BY <1>1, LeastNumber
<1>3. m # 0 /\ m - 1 \in Nat
  BY <1>2
<1>4. m - 1 \in S
  BY <1>2, <1>3
<1> QED
  BY <1>2, <1>3, <1>4

(* The rows after each line that is read.                                  *)
IsReading(g, base, lines, c, n) ==
  g = [i \in 0..n |-> IF i = 0 THEN base ELSE ConsumeLine(g[i - 1], lines[i], c)]

(* Any number of lines can be read.                                        *)
LEMMA ReadingExists ==
  ASSUME NEW base, NEW lines, NEW c
  PROVE  \A n \in Nat : \E g : IsReading(g, base, lines, c, n)
<1> DEFINE S == {n \in Nat : \E g : IsReading(g, base, lines, c, n)}
<1>1. 0 \in S
  <2> DEFINE g == [i \in 0..0 |-> base]
  <2>1. IsReading(g, base, lines, c, 0)
    BY DEF IsReading
  <2> QED
    BY <2>1
<1>2. ASSUME NEW n \in Nat, n \in S
      PROVE  n + 1 \in S
  <2>1. PICK g : IsReading(g, base, lines, c, n)
    BY <1>2
  <2> DEFINE h == [i \in 0..(n + 1) |-> IF i = n + 1 THEN ConsumeLine(g[n], lines[n + 1], c) ELSE g[i]]
  <2>2. \A i \in 0..n : g[i] = IF i = 0 THEN base ELSE ConsumeLine(g[i - 1], lines[i], c)
    BY <2>1, Zenon DEF IsReading
  <2>3. ASSUME NEW i \in 0..(n + 1)
        PROVE  h[i] = IF i = 0 THEN base ELSE ConsumeLine(h[i - 1], lines[i], c)
    <3>1. CASE i = n + 1
      <4>1. n \in 0..(n + 1) /\ n # n + 1 /\ i # 0 /\ i - 1 = n /\ n + 1 \in 0..(n + 1)
        BY <3>1
      <4>2. h[n] = g[n] /\ h[n + 1] = ConsumeLine(g[n], lines[n + 1], c)
        BY <4>1
      <4> QED
        BY <3>1, <4>1, <4>2
    <3>2. CASE i = 0
      <4>1. 0 \in 0..n /\ 0 # n + 1
        OBVIOUS
      <4> QED
        BY <3>2, <2>2, <4>1
    <3>3. CASE i # 0 /\ i # n + 1
      <4>1. i \in 0..n /\ i - 1 \in 0..(n + 1) /\ i - 1 # n + 1
        BY <3>3
      <4>2. h[i] = g[i] /\ h[i - 1] = g[i - 1]
        BY <4>1, <3>3
      <4> QED
        BY <3>3, <4>1, <4>2, <2>2
    <3> QED
      BY <3>1, <3>2, <3>3
  <2> HIDE DEF h
  <2>4. DOMAIN h = 0..(n + 1) /\ h = [i \in 0..(n + 1) |-> h[i]]
    BY DEF h
  <2>5. h = [i \in 0..(n + 1) |-> IF i = 0 THEN base ELSE ConsumeLine(h[i - 1], lines[i], c)]
    BY <2>3, <2>4, Zenon
  <2>6. IsReading(h, base, lines, c, n + 1)
    BY <2>5, Zenon DEF IsReading
  <2> QED
    BY <2>6
<1> HIDE DEF S
<1>3. \A n \in Nat : n \in S
  BY <1>1, <1>2, SetInduction
<1> QED
  BY <1>3 DEF S

(* What is consumed is the last of them.                                   *)
LEMMA ConsumedIsLast ==
  ASSUME NEW base, NEW lines, NEW c, Len(lines) \in Nat
  PROVE  \E g : IsReading(g, base, lines, c, Len(lines)) /\ Consume(base, lines, c) = g[Len(lines)]
<1> DEFINE n == Len(lines)
           f == CHOOSE g : g = [i \in 0..n |-> IF i = 0 THEN base ELSE ConsumeLine(g[i - 1], lines[i], c)]
<1>1. \E g : g = [i \in 0..n |-> IF i = 0 THEN base ELSE ConsumeLine(g[i - 1], lines[i], c)]
  <2>1. \E g : IsReading(g, base, lines, c, n)
    BY ReadingExists
  <2> QED
    BY <2>1, Zenon DEF IsReading
<1>2. f = [i \in 0..n |-> IF i = 0 THEN base ELSE ConsumeLine(f[i - 1], lines[i], c)]
  BY <1>1, Zenon
<1>3. Consume(base, lines, c) = f[n]
  BY Zenon DEF Consume
<1> QED
  BY <1>2, <1>3, Zenon DEF IsReading

(* Two readings agree as far as their lines do.                            *)
LEMMA ReadingsAgree ==
  ASSUME NEW base, NEW c, NEW lines, NEW more, NEW n \in Nat, NEW m \in Nat, n <= m,
         \A i \in 1..n : more[i] = lines[i],
         NEW g, IsReading(g, base, lines, c, n), NEW h, IsReading(h, base, more, c, m)
  PROVE  \A i \in 0..n : h[i] = g[i]
<1> DEFINE S == {i \in Nat : i <= n => h[i] = g[i]}
<1>1. \A i \in 0..n : g[i] = IF i = 0 THEN base ELSE ConsumeLine(g[i - 1], lines[i], c)
  BY Zenon DEF IsReading
<1>2. \A i \in 0..m : h[i] = IF i = 0 THEN base ELSE ConsumeLine(h[i - 1], more[i], c)
  BY Zenon DEF IsReading
<1>3. 0 \in S
  BY <1>1, <1>2
<1>4. ASSUME NEW i \in Nat, i \in S
      PROVE  i + 1 \in S
  <2>1. CASE i + 1 <= n
    <3>1. h[i] = g[i] /\ more[i + 1] = lines[i + 1]
      BY <1>4, <2>1
    <3>2. i + 1 \in 0..n /\ i + 1 \in 0..m /\ i + 1 # 0 /\ (i + 1) - 1 = i
      BY <2>1
    <3>3. g[i + 1] = ConsumeLine(g[(i + 1) - 1], lines[i + 1], c)
      BY <1>1, <3>2, Zenon
    <3>4. h[i + 1] = ConsumeLine(h[(i + 1) - 1], more[i + 1], c)
      BY <1>2, <3>2, Zenon
    <3>5. h[i + 1] = g[i + 1]
      BY <3>1, <3>2, <3>3, <3>4
    <3> QED
      BY <3>5
  <2>2. CASE ~(i + 1 <= n)
    BY <2>2
  <2> QED
    BY <2>1, <2>2
<1> HIDE DEF S
<1>5. \A i \in Nat : i \in S
  BY <1>3, <1>4, SetInduction
<1> QED
  BY <1>5 DEF S

(* No line leaves the rows alone.                                          *)
LEMMA ConsumeNone ==
  ASSUME NEW base, NEW c
  PROVE  Consume(base, <<>>, c) = base
<1>1. Len(<<>>) = 0 /\ 0 \in Nat
  OBVIOUS
<1>2. PICK g : IsReading(g, base, <<>>, c, 0) /\ Consume(base, <<>>, c) = g[0]
  BY <1>1, ConsumedIsLast
<1>3. \A i \in 0..0 : g[i] = IF i = 0 THEN base ELSE ConsumeLine(g[i - 1], <<>>[i], c)
  BY <1>2, Zenon DEF IsReading
<1> QED
  BY <1>2, <1>3

(* A line more is consumed after the others.                               *)
LEMMA ConsumeOne ==
  ASSUME NEW base, NEW c, NEW T, NEW lines \in Seq(T), NEW line \in T
  PROVE  Consume(base, Append(lines, line), c) = ConsumeLine(Consume(base, lines, c), line, c)
<1> DEFINE n == Len(lines)
           more == Append(lines, line)
<1>1. /\ n \in Nat /\ n + 1 \in Nat /\ Len(more) = n + 1
      /\ \A i \in 1..n : more[i] = lines[i]
      /\ more[n + 1] = line
  OBVIOUS
<1>2. PICK g : IsReading(g, base, lines, c, n) /\ Consume(base, lines, c) = g[n]
  BY <1>1, ConsumedIsLast
<1> HIDE DEF more
<1>3. PICK h : IsReading(h, base, more, c, n + 1) /\ Consume(base, more, c) = h[n + 1]
  BY <1>1, ConsumedIsLast
<1> HIDE DEF n
<1>4. n <= n + 1
  BY <1>1
<1>5. \A i \in 0..n : h[i] = g[i]
  <2> DEFINE m == n + 1
  <2>1. /\ m \in Nat /\ n \in Nat /\ n <= m /\ IsReading(g, base, lines, c, n)
        /\ IsReading(h, base, more, c, m) /\ \A i \in 1..n : more[i] = lines[i]
    BY <1>1, <1>2, <1>3, <1>4
  <2> HIDE DEF m
  <2> QED
    BY <2>1, ReadingsAgree
<1>6. h[n] = g[n]
  BY <1>1, <1>5
<1>7. \A i \in 0..(n + 1) : h[i] = IF i = 0 THEN base ELSE ConsumeLine(h[i - 1], more[i], c)
  BY <1>3, Zenon DEF IsReading
<1>8. n + 1 \in 0..(n + 1) /\ n + 1 # 0 /\ (n + 1) - 1 = n
  BY <1>1
<1>9. h[n + 1] = ConsumeLine(h[(n + 1) - 1], more[n + 1], c)
  BY <1>7, <1>8, Zenon
<1> QED
  BY <1>1, <1>2, <1>3, <1>6, <1>8, <1>9 DEF more

(* A property of sequences: the empty one has it, and one that has it has  *)
(* it still with an element more.                                          *)
LEMMA SequenceInduction ==
  ASSUME NEW T, NEW S, <<>> \in S,
         \A s \in Seq(T) : \A x \in T : s \in S => Append(s, x) \in S
  PROVE  \A s \in Seq(T) : s \in S
<1> DEFINE N == {n \in Nat : \A s \in Seq(T) : Len(s) = n => s \in S}
<1>1. 0 \in N
  <2>1. ASSUME NEW s \in Seq(T), Len(s) = 0
        PROVE  s \in S
    BY <2>1, EmptySeq
  <2> QED
    BY <2>1
<1>2. ASSUME NEW n \in Nat, n \in N
      PROVE  n + 1 \in N
  <2>1. ASSUME NEW s \in Seq(T), Len(s) = n + 1
        PROVE  s \in S
    <3> DEFINE f == SubSeq(s, 1, n)
    <3>1. f \in Seq(T) /\ Len(f) = n /\ s[n + 1] \in T /\ s = Append(f, s[n + 1])
      BY <2>1
    <3>2. f \in S
      BY <1>2, <3>1
    <3> QED
      BY <3>1, <3>2
  <2> QED
    BY <2>1
<1> HIDE DEF N
<1>3. \A n \in Nat : n \in N
  BY <1>1, <1>2, SetInduction
<1>4. ASSUME NEW s \in Seq(T)
      PROVE  s \in S
  BY <1>3 DEF N
<1> QED
  BY <1>4

(***************************************************************************)
(* Rows in their order.                                                    *)
(***************************************************************************)
Rows == [at : 0..LastDay, rate : BOOLEAN]
Lines == Rows \union {Garbage}

(* No two rows of one time.                                                *)
OnePerTime(rows) == \A r, s \in rows : r.at = s.at => r = s

(* Numbers in their order are all of them, each once.                      *)
LEMMA InOrderIsAll ==
  ASSUME NEW S \in SUBSET Int, IsFiniteSet(S)
  PROVE  /\ Cardinality(S) \in Nat
         /\ \A i \in 1..Cardinality(S) : InOrder(S)[i] \in S
         /\ \A i, j \in 1..Cardinality(S) : InOrder(S)[i] = InOrder(S)[j] => i = j
         /\ \A i, j \in 1..Cardinality(S) : i < j => InOrder(S)[i] < InOrder(S)[j]
         /\ \A t \in S : \E i \in 1..Cardinality(S) : InOrder(S)[i] = t
<1> DEFINE n == Cardinality(S)
           Below(t) == {u \in S : u < t}
           rank == [t \in S |-> Cardinality(Below(t)) + 1]
<1>1. n \in Nat
  BY FS_CardinalityType
<1>2. \A t \in S : IsFiniteSet(Below(t)) /\ Cardinality(Below(t)) \in Nat
  BY FS_Subset, FS_CardinalityType
<1>3. ASSUME NEW t \in S
      PROVE  rank[t] \in 1..n
  <2>1. Below(t) \in SUBSET S /\ t \notin Below(t)
    OBVIOUS
  <2> HIDE DEF Below
  <2>2. Cardinality(Below(t)) <= n /\ Cardinality(Below(t)) # n
    BY <2>1, FS_Subset
  <2> QED
    BY <1>1, <1>2, <2>2
<1>4. ASSUME NEW t \in S, NEW u \in S, t < u
      PROVE  rank[t] < rank[u]
  <2>1. Below(t) \in SUBSET Below(u) /\ t \in Below(u) /\ t \notin Below(t)
    <3>1. ASSUME NEW v \in S, v < t PROVE v < u
      BY <1>4, <3>1
    <3>2. ~(t < t)
      OBVIOUS
    <3> QED
      BY <1>4, <3>1, <3>2
  <2>2. IsFiniteSet(Below(u))
    BY <1>2
  <2>3. rank[t] = Cardinality(Below(t)) + 1 /\ rank[u] = Cardinality(Below(u)) + 1
    OBVIOUS
  <2> HIDE DEF Below, rank
  <2>4. Cardinality(Below(t)) <= Cardinality(Below(u)) /\ Cardinality(Below(t)) # Cardinality(Below(u))
    BY <2>1, <2>2, FS_Subset
  <2> QED
    BY <1>2, <2>3, <2>4
<1>5. \A t, u \in S : rank[t] = rank[u] => t = u
  <2>1. ASSUME NEW t \in S, NEW u \in S, rank[t] = rank[u], t # u
        PROVE  FALSE
    <3>1. t < u \/ u < t
      BY <2>1
    <3>2. rank[t] < rank[u] \/ rank[u] < rank[t]
      BY <1>4, <3>1
    <3>3. rank[t] \in Nat /\ rank[u] \in Nat
      BY <1>3
    <3> HIDE DEF rank
    <3> QED
      BY <2>1, <3>2, <3>3
  <2> QED
    BY <2>1
<1>6. rank \in Injection(S, 1..n)
  <2>1. rank \in [S -> 1..n]
    <3>1. rank = [t \in S |-> rank[t]]
      OBVIOUS
    <3> HIDE DEF rank
    <3> QED
      BY <1>3, <3>1
  <2> HIDE DEF rank, n
  <2> QED
    BY <1>5, <2>1, Fun_IsInj
<1>7. IsFiniteSet(1..n) /\ Cardinality(1..n) = n
  <2>1. 1 \in Int /\ n \in Int
    BY <1>1
  <2> HIDE DEF n
  <2>2. Cardinality(1..n) = IF 1 > n THEN 0 ELSE n - 1 + 1
    BY <2>1, FS_Interval
  <2>3. IsFiniteSet(1..n)
    BY <2>1, FS_Interval
  <2> QED
    BY <1>1, <2>2, <2>3
<1>8. \A i \in 1..n : \E t \in S : rank[t] = i
  <2> HIDE DEF rank
  <2>1. rank \in Surjection(S, 1..n)
    BY <1>6, <1>7, FS_Injection
  <2> QED
    BY <2>1 DEF Surjection
<1>9. ASSUME NEW i \in 1..n
      PROVE  InOrder(S)[i] \in S /\ rank[InOrder(S)[i]] = i
  <2>1. InOrder(S)[i] = CHOOSE t \in S : Cardinality(Below(t)) = i - 1
    BY DEF InOrder
  <2>2. PICK t \in S : rank[t] = i
    BY <1>8
  <2>3. Cardinality(Below(t)) = i - 1
    BY <1>2, <2>2
  <2> HIDE DEF Below
  <2>4. InOrder(S)[i] \in S /\ Cardinality(Below(InOrder(S)[i])) = i - 1
    BY <2>1, <2>3
  <2> QED
    BY <2>4
<1> HIDE DEF rank, n
<1>10. ASSUME NEW t \in S
       PROVE  \E i \in 1..n : InOrder(S)[i] = t
  <2>1. rank[t] \in 1..n
    BY <1>3
  <2>2. InOrder(S)[rank[t]] \in S /\ rank[InOrder(S)[rank[t]]] = rank[t]
    BY <1>9, <2>1
  <2>3. InOrder(S)[rank[t]] = t
    BY <1>5, <2>2
  <2> QED
    BY <2>1, <2>3
<1>11. ASSUME NEW i \in 1..n, NEW j \in 1..n, i < j
       PROVE  InOrder(S)[i] < InOrder(S)[j]
  <2> DEFINE t == InOrder(S)[i]
             u == InOrder(S)[j]
  <2>1. t \in S /\ u \in S /\ rank[t] = i /\ rank[u] = j
    BY <1>9
  <2> HIDE DEF t, u
  <2>2. t # u /\ ~(u < t)
    BY <1>4, <1>11, <2>1
  <2>3. t < u
    BY <2>1, <2>2
  <2> QED
    BY <2>3 DEF t, u
<1> QED
  BY <1>1, <1>5, <1>9, <1>10, <1>11 DEF n

(* The times of rows are finite in number.                                 *)
LEMMA TimesAreFew ==
  ASSUME NEW rows \in SUBSET Rows
  PROVE  Times(rows) \in SUBSET Nat /\ IsFiniteSet(Times(rows))
<1>1. LastDay \in Nat
  BY HistoryAssumption
<1>2. Times(rows) \in SUBSET (0..LastDay)
  BY DEF Times, Rows
<1>3. IsFiniteSet(0..LastDay)
  BY <1>1, FS_Interval
<1> QED
  BY <1>1, <1>2, <1>3, FS_Subset

(* The file that is written for rows holds each of them, once.             *)
LEMMA ByTimeIsAll ==
  ASSUME NEW rows \in SUBSET Rows, OnePerTime(rows)
  PROVE  /\ ByTime(rows) \in Seq(rows)
         /\ ToSet(ByTime(rows)) = rows
         /\ IsInjective(ByTime(rows))
<1> DEFINE T == Times(rows)
           n == Cardinality(T)
           s == ByTime(rows)
<1>1. /\ n \in Nat
      /\ \A i \in 1..n : InOrder(T)[i] \in T
      /\ \A i, j \in 1..n : InOrder(T)[i] = InOrder(T)[j] => i = j
      /\ \A t \in T : \E i \in 1..n : InOrder(T)[i] = t
  <2>1. T \in SUBSET Int /\ IsFiniteSet(T)
    BY TimesAreFew
  <2> HIDE DEF T
  <2> QED
    BY <2>1, InOrderIsAll
<1>2. s = [i \in 1..n |-> CHOOSE r \in rows : r.at = InOrder(T)[i]]
  BY DEF ByTime
<1>3. \A t : t \in T <=> \E r \in rows : r.at = t
  BY DEF Times
<1> HIDE DEF T, n, s
<1>4. ASSUME NEW i \in 1..n
      PROVE  s[i] \in rows /\ s[i].at = InOrder(T)[i]
  <2>1. \E r \in rows : r.at = InOrder(T)[i]
    BY <1>1, <1>3
  <2>2. s[i] = CHOOSE r \in rows : r.at = InOrder(T)[i]
    BY <1>2
  <2> QED
    BY <2>1, <2>2
<1>5. s \in Seq(rows) /\ DOMAIN s = 1..n
  <2>1. s \in [1..n -> rows]
    BY <1>2, <1>4
  <2> QED
    BY <1>1, <2>1
<1>6. IsInjective(s)
  <2>1. ASSUME NEW i \in 1..n, NEW j \in 1..n, s[i] = s[j]
        PROVE  i = j
    BY <1>1, <1>4, <2>1
  <2> QED
    BY <1>5, <2>1 DEF IsInjective
<1>7. ASSUME NEW r \in rows
      PROVE  r \in ToSet(s)
  <2>1. PICK i \in 1..n : InOrder(T)[i] = r.at
    BY <1>1, <1>3
  <2>2. s[i] = r
    BY <1>4, <2>1 DEF OnePerTime
  <2> QED
    BY <1>5, <2>2 DEF ToSet
<1>8. ToSet(s) \subseteq rows
  BY <1>4, <1>5 DEF ToSet
<1> QED
  BY <1>5, <1>6, <1>7, <1>8 DEF s

(* What a sequence holds, with another behind it.                          *)
LEMMA ConcatenatedSet ==
  ASSUME NEW T, NEW s \in Seq(T), NEW t \in Seq(T)
  PROVE  /\ s \o t \in Seq(T)
         /\ ToSet(s \o t) = ToSet(s) \union ToSet(t)
         /\ IsInjective(s) /\ IsInjective(t) /\ ToSet(s) \cap ToSet(t) = {} => IsInjective(s \o t)
<1> DEFINE u == s \o t
           n == Len(s)
           m == Len(t)
<1>1. /\ u \in Seq(T) /\ n \in Nat /\ m \in Nat
      /\ DOMAIN s = 1..n /\ DOMAIN t = 1..m /\ DOMAIN u = 1..(n + m)
      /\ \A i \in 1..(n + m) : u[i] = IF i <= n THEN s[i] ELSE t[i - n]
  OBVIOUS
<1> HIDE DEF u, n, m
<1>2. ASSUME NEW i \in 1..(n + m)
      PROVE  \/ i \in 1..n /\ u[i] = s[i]
             \/ i - n \in 1..m /\ u[i] = t[i - n]
  BY <1>1
<1>3. \A i \in 1..n : i \in 1..(n + m) /\ u[i] = s[i]
  BY <1>1
<1>4. \A i \in 1..m : n + i \in 1..(n + m) /\ u[n + i] = t[i]
  <2>1. ASSUME NEW i \in 1..m
        PROVE  n + i \in 1..(n + m) /\ ~(n + i <= n) /\ (n + i) - n = i
    BY <1>1
  <2> QED
    BY <1>1, <2>1
<1>5. ToSet(u) = ToSet(s) \union ToSet(t)
  <2>1. ASSUME NEW x \in ToSet(u) PROVE x \in ToSet(s) \union ToSet(t)
    <3>1. PICK i \in 1..(n + m) : u[i] = x
      BY <1>1 DEF ToSet
    <3> QED
      BY <1>1, <1>2, <3>1 DEF ToSet
  <2>2. ASSUME NEW x \in ToSet(s) PROVE x \in ToSet(u)
    <3>1. PICK i \in 1..n : s[i] = x
      BY <1>1 DEF ToSet
    <3> QED
      BY <1>1, <1>3, <3>1 DEF ToSet
  <2>3. ASSUME NEW x \in ToSet(t) PROVE x \in ToSet(u)
    <3>1. PICK i \in 1..m : t[i] = x
      BY <1>1 DEF ToSet
    <3> QED
      BY <1>1, <1>4, <3>1 DEF ToSet
  <2> QED
    BY <2>1, <2>2, <2>3
<1>6. ASSUME IsInjective(s), IsInjective(t), ToSet(s) \cap ToSet(t) = {}
      PROVE  IsInjective(u)
  <2>1. ASSUME NEW i \in 1..(n + m), NEW j \in 1..(n + m), u[i] = u[j]
        PROVE  i = j
    <3>1. CASE i \in 1..n /\ u[i] = s[i] /\ j \in 1..n /\ u[j] = s[j]
      BY <1>1, <1>6, <2>1, <3>1 DEF IsInjective
    <3>2. CASE i - n \in 1..m /\ u[i] = t[i - n] /\ j - n \in 1..m /\ u[j] = t[j - n]
      <4>1. i - n = j - n
        BY <1>1, <1>6, <2>1, <3>2 DEF IsInjective
      <4> QED
        BY <1>1, <4>1
    <3>3. ASSUME NEW x \in 1..n, NEW y \in 1..m, s[x] = t[y] PROVE FALSE
      <4>1. s[x] \in ToSet(s) /\ t[y] \in ToSet(t)
        BY <1>1 DEF ToSet
      <4> QED
        BY <1>6, <3>3, <4>1
    <3>4. ~(i \in 1..n /\ u[i] = s[i] /\ j - n \in 1..m /\ u[j] = t[j - n])
      BY <2>1, <3>3
    <3>5. ~(j \in 1..n /\ u[j] = s[j] /\ i - n \in 1..m /\ u[i] = t[i - n])
      BY <2>1, <3>3
    <3> QED
      BY <1>2, <3>1, <3>2, <3>4, <3>5
  <2> QED
    BY <1>1, <2>1 DEF IsInjective
<1> QED
  BY <1>1, <1>5, <1>6 DEF u

(* What a sequence holds with an element more.                             *)
LEMMA AppendedSet ==
  ASSUME NEW T, NEW s \in Seq(T), NEW x \in T
  PROVE  Append(s, x) \in Seq(T) /\ ToSet(Append(s, x)) = ToSet(s) \union {x}
<1>1. <<x>> \in Seq(T) /\ Append(s, x) = s \o <<x>>
  OBVIOUS
<1>2. ToSet(<<x>>) = {x}
  BY DEF ToSet
<1>3. s \o <<x>> \in Seq(T) /\ ToSet(s \o <<x>>) = ToSet(s) \union ToSet(<<x>>)
  <2> DEFINE one == <<x>>
  <2>1. one \in Seq(T)
    BY <1>1
  <2> HIDE DEF one
  <2>2. s \o one \in Seq(T) /\ ToSet(s \o one) = ToSet(s) \union ToSet(one)
    BY <2>1, ConcatenatedSet
  <2> QED
    BY <2>2 DEF one
<1> QED
  BY <1>1, <1>2, <1>3, Zenon

(***************************************************************************)
(* What is consumed.                                                       *)
(***************************************************************************)
(* The times of a file's rows from a cutoff on.                            *)
TimesSince(lines, c) == {l.at : l \in {k \in ToSet(lines) : IsRow(k) /\ k.at >= c}}

(* Rows of the window, one per time.                                       *)
Retained(rows, c) == rows \in SUBSET Rows /\ OnePerTime(rows) /\ \A r \in rows : r.at >= c

(* Garbage is not a row.                                                   *)
LEMMA RowsAreRows == \A l \in Lines : (l \in Rows <=> IsRow(l)) /\ l.at \in Int
<1>1. LastDay \in Nat
  BY HistoryAssumption
<1>2. ASSUME NEW l \in Rows PROVE l # Garbage /\ l.at \in Int
  BY <1>1 DEF Rows, Garbage
<1>3. Garbage.at = -1
  BY DEF Garbage
<1> QED
  BY <1>2, <1>3 DEF Lines, IsRow

(* A row that is retained replaces that of its time, and nothing else.     *)
LEMMA RetainFacts ==
  ASSUME NEW c \in Int, NEW rows, Retained(rows, c), NEW row \in Rows, row.at >= c
  PROVE  Retained(Retain(rows, row, c), c) /\ Times(Retain(rows, row, c)) = Times(rows) \union {row.at}
<1> DEFINE new == Retain(rows, row, c)
<1>1. \A r : r \in new <=> r = row \/ (r \in rows /\ r.at # row.at)
  BY DEF Retain, Retained
<1> HIDE DEF new
<1>2. Retained(new, c)
  BY <1>1 DEF Retained, OnePerTime
<1>3. Times(new) = Times(rows) \union {row.at}
  <2>1. ASSUME NEW t \in Times(new) PROVE t \in Times(rows) \union {row.at}
    BY <1>1 DEF Times
  <2>2. ASSUME NEW t \in Times(rows) PROVE t \in Times(new)
    BY <1>1 DEF Times
  <2>3. row.at \in Times(new)
    BY <1>1 DEF Times
  <2> QED
    BY <2>1, <2>2, <2>3
<1> QED
  BY <1>2, <1>3 DEF new

(* Lines consumed on top of rows: one row per time of either.              *)
LEMMA ConsumeFacts ==
  ASSUME NEW c \in Int, NEW rows, Retained(rows, c), NEW lines \in Seq(Lines)
  PROVE  /\ Retained(Consume(rows, lines, c), c)
         /\ Times(Consume(rows, lines, c)) = Times(rows) \union TimesSince(lines, c)
<1> DEFINE S == {s \in Seq(Lines) :
                   /\ Retained(Consume(rows, s, c), c)
                   /\ Times(Consume(rows, s, c)) = Times(rows) \union TimesSince(s, c)}
<1>1. <<>> \in S
  <2>1. TimesSince(<<>>, c) = {}
    BY DEF TimesSince, ToSet
  <2>2. Consume(rows, <<>>, c) = rows
    BY ConsumeNone
  <2>3. <<>> \in Seq(Lines)
    OBVIOUS
  <2> QED
    BY <2>1, <2>2, <2>3
<1>2. ASSUME NEW s \in Seq(Lines), NEW l \in Lines, s \in S
      PROVE  Append(s, l) \in S
  <2> DEFINE old == Consume(rows, s, c)
             more == Append(s, l)
  <2>1. Retained(old, c) /\ Times(old) = Times(rows) \union TimesSince(s, c)
    BY <1>2
  <2>2. Consume(rows, more, c) = ConsumeLine(old, l, c)
    BY ConsumeOne
  <2>3. ToSet(more) = ToSet(s) \union {l} /\ more \in Seq(Lines)
    BY AppendedSet
  <2> HIDE DEF old, more
  <2>4. TimesSince(more, c) = TimesSince(s, c) \union (IF IsRow(l) /\ l.at >= c THEN {l.at} ELSE {})
    BY <2>3 DEF TimesSince
  <2>5. CASE IsRow(l) /\ l.at >= c
    <3>1. l \in Rows
      BY <2>5, RowsAreRows
    <3>2. Retained(Retain(old, l, c), c) /\ Times(Retain(old, l, c)) = Times(old) \union {l.at}
      BY <2>1, <2>5, <3>1, RetainFacts
    <3>3. Consume(rows, more, c) = Retain(old, l, c)
      BY <2>2, <2>5 DEF ConsumeLine
    <3>4. Times(Consume(rows, more, c)) = Times(rows) \union TimesSince(more, c)
      BY <2>1, <2>4, <2>5, <3>2, <3>3
    <3> QED
      BY <2>3, <3>2, <3>3, <3>4 DEF more
  <2>6. CASE ~(IsRow(l) /\ l.at >= c)
    <3>1. Consume(rows, more, c) = old
      BY <2>2, <2>6 DEF ConsumeLine
    <3>2. TimesSince(more, c) = TimesSince(s, c)
      BY <2>4, <2>6
    <3> QED
      BY <2>1, <2>3, <3>1, <3>2 DEF more
  <2> QED
    BY <2>5, <2>6
<1> HIDE DEF S
<1>3. \A s \in Seq(Lines) : s \in S
  BY <1>1, <1>2, SequenceInduction
<1> QED
  BY <1>3 DEF S

(* A month's cold rows are added to what its partition holds.              *)
LEMMA MergedFacts ==
  ASSUME NEW lines \in Seq(Rows), IsInjective(lines), NEW rows \in SUBSET Rows, OnePerTime(rows)
  PROVE  /\ Merged(lines, rows) \in Seq(Rows)
         /\ IsInjective(Merged(lines, rows))
         /\ ToSet(Merged(lines, rows)) = ToSet(lines) \union rows
<1> DEFINE new == rows \ ToSet(lines)
<1>1. new \in SUBSET Rows /\ OnePerTime(new)
  BY DEF OnePerTime
<1>2. ByTime(new) \in Seq(new) /\ ToSet(ByTime(new)) = new /\ IsInjective(ByTime(new))
  BY <1>1, ByTimeIsAll
<1>3. ToSet(lines) \cap new = {} /\ ToSet(lines) \union new = ToSet(lines) \union rows
  OBVIOUS
<1>4. Merged(lines, rows) = lines \o ByTime(new)
  BY DEF Merged
<1> HIDE DEF new
<1>5. ByTime(new) \in Seq(Rows)
  BY <1>1, <1>2
<1>6. /\ lines \o ByTime(new) \in Seq(Rows)
      /\ ToSet(lines \o ByTime(new)) = ToSet(lines) \union new
      /\ IsInjective(lines \o ByTime(new))
  BY <1>2, <1>3, <1>5, ConcatenatedSet
<1> QED
  BY <1>3, <1>4, <1>6, Zenon

(***************************************************************************)
(* The invariant.                                                          *)
(***************************************************************************)
(* Times of the rows on disk.                                              *)
DiskOf(f, ms) ==
  {l.at : l \in {k \in ToSet(f) \union UNION {ToSet(ms[m]) : m \in Months} : IsRow(k)}}
Window(times, day) == {t \in times : t >= day - KeepDays}

HistTypes ==
  /\ today \in 0..LastDay
  /\ hotFile \in Seq(Lines) /\ cut \in BOOLEAN
  /\ months \in [Months -> Seq(Rows)]
  /\ samples \in SUBSET Rows
  /\ step \in {"off", "archive", "rewrite", "migrate", "run"}
  /\ toArchive \in SUBSET Months
  /\ partial \in BOOLEAN /\ lossy \in BOOLEAN
  /\ kept \in SUBSET (0..LastDay) /\ refused \in SUBSET (0..LastDay)

(* A partition holds rows of its month, each once.                         *)
PartitionsHold(ms) ==
  \A m \in Months : IsInjective(ms[m]) /\ \A r \in ToSet(ms[m]) : MonthOf[r.at] = m

(* Nothing is stored or shown that was not handed over.                    *)
NothingInvented(f, ms, rows, kp, rf) ==
  DiskOf(f, ms) \subseteq kp \union rf /\ Times(rows) \subseteq kp \union rf

(* Until it expires, what was acknowledged is on disk.                     *)
Durable(day, f, ms, kp, ls) == ~ls => Window(kp, day) \subseteq DiskOf(f, ms)

(* A load that read everything holds everything until it rewrites the      *)
(* file, and what was acknowledged from then on.                           *)
Shown(day, f, ms, rows, st, part, kp, ls) ==
  /\ st \in {"archive", "rewrite"} => ~part
  /\ st \in {"archive", "rewrite", "migrate"} /\ ~part => Window(DiskOf(f, ms), day) \subseteq Times(rows)
  /\ st = "run" /\ ~part /\ ~ls => Window(kp, day) \subseteq Times(rows)

(* A compaction has in a partition every cold row it will not write.       *)
ColdIsArchived(day, ms, rows, st, todo) ==
  /\ st \in {"archive", "rewrite"} =>
       \A r \in rows : r.at >= day - HotDays \/ MonthOf[r.at] \in todo
                       \/ r \in ToSet(ms[MonthOf[r.at]])
  /\ st = "archive" => todo # {}
  /\ st = "rewrite" => todo = {}

HistInv ==
  /\ HistTypes
  /\ PartitionsHold(months)
  /\ OnePerTime(samples)
  /\ NothingInvented(hotFile, months, samples, kept, refused)
  /\ Durable(today, hotFile, months, kept, lossy)
  /\ Shown(today, hotFile, months, samples, step, partial, kept, lossy)
  /\ ColdIsArchived(today, months, samples, step, toArchive)

(***************************************************************************)
(* The disk.                                                               *)
(***************************************************************************)
(* A time is on disk if a row of it is in the file or in a partition.      *)
LEMMA DiskFacts ==
  ASSUME NEW f, NEW ms
  PROVE  \A t : t \in DiskOf(f, ms) <=>
           \/ \E r \in ToSet(f) : IsRow(r) /\ r.at = t
           \/ \E m \in Months : \E r \in ToSet(ms[m]) : IsRow(r) /\ r.at = t
<1>1. \A t : t \in DiskOf(f, ms) <=>
        \E r \in ToSet(f) \union UNION {ToSet(ms[m]) : m \in Months} : IsRow(r) /\ r.at = t
  BY DEF DiskOf
<1>2. \A r : r \in UNION {ToSet(ms[m]) : m \in Months} <=> \E m \in Months : r \in ToSet(ms[m])
  OBVIOUS
<1> QED
  BY <1>1, <1>2

(* What a sequence of something holds is such a thing.                     *)
LEMMA HeldIsOf ==
  ASSUME NEW T, NEW s \in Seq(T)
  PROVE  ToSet(s) \subseteq T
  BY DEF ToSet

(* The months of rows.                                                     *)
LEMMA MonthOfRow ==
  \A r \in Rows : IsRow(r) /\ r.at \in 0..LastDay /\ r.at \in Nat /\ MonthOf[r.at] \in Months
<1>1. LastDay \in Nat
  BY HistoryAssumption
<1> QED
  BY <1>1, RowsAreRows DEF Rows, Lines, Months

(* Months are numbers.                                                     *)
LEMMA MonthsAreNumbers == Months \in SUBSET Nat
  BY HistoryAssumption DEF Months

(* The partitions give back their rows of the window.                      *)
LEMMA ArchivedFacts ==
  ASSUME months \in [Months -> Seq(Rows)], PartitionsHold(months), NEW c \in Int, c <= LastDay
  PROVE  /\ Retained(Archived(c), c)
         /\ \A t : t \in Times(Archived(c)) <=>
              t >= c /\ \E m \in Months : \E r \in ToSet(months[m]) : IsRow(r) /\ r.at = t
<1> DEFINE R(m) == Consume({}, months[m], c)
           P == PartitionsSince(c)
<1>1. \A m \in P : m \in Months
  BY DEF PartitionsSince
<1>2. ASSUME NEW m \in P
      PROVE  Retained(R(m), c) /\ Times(R(m)) = TimesSince(months[m], c)
  <2>1. months[m] \in Seq(Rows) /\ months[m] \in Seq(Lines)
    BY <1>1 DEF Lines
  <2>2. Retained({}, c) /\ Times({}) = {}
    BY DEF Retained, OnePerTime, Times
  <2>3. /\ Retained(Consume({}, months[m], c), c)
        /\ Times(Consume({}, months[m], c)) = Times({}) \union TimesSince(months[m], c)
    BY <2>1, <2>2, ConsumeFacts
  <2> QED
    BY <2>2, <2>3
<1>3. \A r : r \in Archived(c) <=> \E m \in P : r \in R(m)
  BY DEF Archived
<1> HIDE DEF R, P
<1>4. ASSUME NEW m \in P, NEW r \in R(m)
      PROVE  r \in Rows /\ r.at >= c /\ MonthOf[r.at] = m
  <2>1. r \in Rows /\ r.at >= c /\ r.at \in Times(R(m))
    BY <1>2 DEF Retained, Times
  <2>2. PICK k \in ToSet(months[m]) : k.at = r.at
    BY <1>2, <2>1 DEF TimesSince
  <2> QED
    BY <1>1, <2>1, <2>2 DEF PartitionsHold
<1>5. Retained(Archived(c), c)
  <2>1. Archived(c) \in SUBSET Rows /\ \A r \in Archived(c) : r.at >= c
    BY <1>3, <1>4
  <2>2. ASSUME NEW r \in Archived(c), NEW s \in Archived(c), r.at = s.at
        PROVE  r = s
    <3>1. PICK m \in P : r \in R(m)
      BY <1>3
    <3>2. PICK k \in P : s \in R(k)
      BY <1>3
    <3>3. m = k
      BY <1>4, <2>2, <3>1, <3>2
    <3> QED
      BY <1>2, <2>2, <3>1, <3>2, <3>3 DEF Retained, OnePerTime
  <2> QED
    BY <2>1, <2>2 DEF Retained, OnePerTime
<1>6. ASSUME NEW t, t \in Times(Archived(c))
      PROVE  t >= c /\ \E m \in Months : \E r \in ToSet(months[m]) : IsRow(r) /\ r.at = t
  <2>1. PICK r \in Archived(c) : r.at = t
    BY <1>6 DEF Times
  <2>2. PICK m \in P : r \in R(m)
    BY <1>3
  <2>3. t \in TimesSince(months[m], c)
    BY <1>2, <2>1, <2>2 DEF Times
  <2> QED
    BY <1>1, <2>3 DEF TimesSince
<1>7. ASSUME NEW m \in Months, NEW r \in ToSet(months[m]), IsRow(r), r.at >= c
      PROVE  r.at \in Times(Archived(c))
  <2>1. r \in Rows
    BY HeldIsOf
  <2>2. MonthOf[r.at] = m
    BY DEF PartitionsHold
  <2>3. m \in P
    <3>1. CASE c < 0
      BY <3>1 DEF P, PartitionsSince
    <3>2. CASE ~(c < 0)
      <4>1. c \in 0..LastDay /\ r.at \in 0..LastDay
        BY <2>1, <3>2, MonthOfRow, HistoryAssumption
      <4>2. MonthOf[c] <= m
        BY <1>7, <2>2, <4>1, HistoryAssumption
      <4>3. MonthOf[c] \in Nat /\ m \in Nat
        BY <4>1, MonthsAreNumbers, HistoryAssumption
      <4>4. m >= MonthOf[c]
        BY <4>2, <4>3
      <4> QED
        BY <4>4 DEF P, PartitionsSince
    <3> QED
      BY <3>1, <3>2
  <2>4. r.at \in TimesSince(months[m], c)
    BY <1>7 DEF TimesSince
  <2>6. r.at \in Times(R(m))
    BY <1>2, <2>3, <2>4
  <2>5. PICK q \in R(m) : q.at = r.at
    BY <2>6 DEF Times
  <2> QED
    BY <1>3, <2>3, <2>5 DEF Times
<1> QED
  BY <1>5, <1>6, <1>7

(* What a load reads.                                                      *)
LEMMA LoadFacts ==
  ASSUME HistTypes, PartitionsHold(months), NEW lines \in Seq(Lines)
  PROVE  LET c    == today - KeepDays
             rows == Consume(Archived(c), lines, c)
         IN /\ Retained(rows, c)
            /\ \A t : t \in Times(rows) <=>
                 t >= c /\ \/ \E r \in ToSet(lines) : IsRow(r) /\ r.at = t
                           \/ \E m \in Months : \E r \in ToSet(months[m]) : IsRow(r) /\ r.at = t
<1> DEFINE c == today - KeepDays
           rows == Consume(Archived(c), lines, c)
<1>1. c \in Int /\ c <= LastDay
  BY HistoryAssumption DEF HistTypes
<1> HIDE DEF c
<1>2. /\ Retained(Archived(c), c)
      /\ \A t : t \in Times(Archived(c)) <=>
           t >= c /\ \E m \in Months : \E r \in ToSet(months[m]) : IsRow(r) /\ r.at = t
  BY <1>1, ArchivedFacts DEF HistTypes
<1>3. Retained(rows, c) /\ Times(rows) = Times(Archived(c)) \union TimesSince(lines, c)
  BY <1>1, <1>2, ConsumeFacts
<1>4. \A t : t \in TimesSince(lines, c) <=> t >= c /\ \E r \in ToSet(lines) : IsRow(r) /\ r.at = t
  BY DEF TimesSince
<1> HIDE DEF rows
<1>5. \A t : t \in Times(rows) <=>
        t >= c /\ \/ \E r \in ToSet(lines) : IsRow(r) /\ r.at = t
                  \/ \E m \in Months : \E r \in ToSet(months[m]) : IsRow(r) /\ r.at = t
  BY <1>2, <1>3, <1>4
<1> QED
  BY <1>3, <1>5 DEF c, rows

(***************************************************************************)
(* The steps.                                                              *)
(***************************************************************************)
(* An older version's file starts the history.                             *)
LEMMA HistInitInv == HistInit => HistInv
<1> SUFFICES ASSUME HistInit
             PROVE  HistInv
  OBVIOUS
<1>1. LastDay \in Nat /\ KeepDays \in Nat /\ OldRows \in Seq(Rows)
  BY HistoryAssumption DEF Rows
<1>2. ASSUME NEW i \in DOMAIN OldRows
      PROVE  OldRows[i] \in Rows /\ OldRows[i] \in Lines /\ IsRow(OldRows[i]) /\ OldRows[i].at \in 0..LastDay
  <2>1. OldRows[i] \in Rows
    BY <1>1
  <2> QED
    BY <2>1, MonthOfRow DEF Lines
<1>3. hotFile \in Seq(Lines)
  BY <1>1 DEF HistInit, Lines
<1>4. today \in 0..LastDay
  <2>1. CASE OldRows = <<>>
    BY <1>1, <2>1 DEF HistInit
  <2>2. CASE OldRows # <<>>
    <3>1. Len(OldRows) \in DOMAIN OldRows
      BY <1>1, <2>2, EmptySeq
    <3>2. Last(OldRows) = OldRows[Len(OldRows)]
      BY DEF Last
    <3> QED
      BY <1>2, <2>2, <3>1, <3>2 DEF HistInit
  <2> QED
    BY <2>1, <2>2
<1>5. \A m \in Months : months[m] = <<>> /\ ToSet(months[m]) = {} /\ IsInjective(months[m])
  BY DEF HistInit, ToSet, IsInjective
<1>6. kept \in SUBSET (0..LastDay)
  BY <1>2 DEF HistInit
<1>7. HistTypes
  <2>1. months \in [Months -> Seq(Rows)]
    BY DEF HistInit
  <2>2. /\ cut \in BOOLEAN /\ samples \in SUBSET Rows /\ step = "off"
        /\ toArchive \in SUBSET Months /\ partial \in BOOLEAN /\ lossy \in BOOLEAN
        /\ refused \in SUBSET (0..LastDay)
    BY DEF HistInit
  <2> QED
    BY <1>3, <1>4, <1>6, <2>1, <2>2 DEF HistTypes
<1>8. PartitionsHold(months)
  BY <1>5 DEF PartitionsHold
<1>9. \A t : t \in DiskOf(hotFile, months) <=> t \in kept
  <2>1. \A r : r \in ToSet(hotFile) <=> \E i \in DOMAIN OldRows : r = OldRows[i]
    BY DEF HistInit, ToSet
  <2>2. \A t : t \in DiskOf(hotFile, months) <=> \E r \in ToSet(hotFile) : IsRow(r) /\ r.at = t
    <3>1. \A m \in Months : \A r : r \notin ToSet(months[m])
      BY <1>5, Zenon
    <3>2. \A t : t \in DiskOf(hotFile, months) <=>
               \/ \E r \in ToSet(hotFile) : IsRow(r) /\ r.at = t
               \/ \E m \in Months : \E r \in ToSet(months[m]) : IsRow(r) /\ r.at = t
      BY DiskFacts, SMTT(30)
    <3> QED
      BY <3>1, <3>2, Zenon
  <2>3. \A t : t \in kept <=> \E i \in DOMAIN OldRows : OldRows[i].at = t
    BY DEF HistInit
  <2> QED
    BY <1>2, <2>1, <2>2, <2>3
<1>10. samples = {} /\ step = "off"
  BY DEF HistInit
<1>11. OnePerTime(samples) /\ Times(samples) = {}
  BY <1>10 DEF OnePerTime, Times
<1>12. NothingInvented(hotFile, months, samples, kept, refused)
  BY <1>9, <1>11 DEF NothingInvented
<1>13. Durable(today, hotFile, months, kept, lossy)
  BY <1>9 DEF Durable, Window
<1> QED
  BY <1>7, <1>8, <1>10, <1>11, <1>12, <1>13 DEF HistInv, Shown, ColdIsArchived

(* The lines a load finds are those of the file, and a torn one.           *)
LEMMA HotLinesFacts ==
  ASSUME HistTypes
  PROVE  /\ HotLines \in Seq(Lines)
         /\ \A t : (\E r \in ToSet(HotLines) : IsRow(r) /\ r.at = t)
                   <=> (\E r \in ToSet(hotFile) : IsRow(r) /\ r.at = t)
<1>1. hotFile \in Seq(Lines) /\ Garbage \in Lines /\ ~IsRow(Garbage)
  BY DEF HistTypes, Lines, IsRow
<1>2. Append(hotFile, Garbage) \in Seq(Lines) /\ ToSet(Append(hotFile, Garbage)) = ToSet(hotFile) \union {Garbage}
  BY <1>1, AppendedSet
<1> QED
  BY <1>1, <1>2 DEF HotLines

(* A load that reads everything.                                           *)
LEMMA LoadHistoryKeeps == HistInv /\ LoadHistory => HistInv'
<1> SUFFICES ASSUME HistInv, LoadHistory
             PROVE  HistInv'
  OBVIOUS
<1> DEFINE c == today - KeepDays
           rows == Consume(Archived(c), HotLines, c)
<1>1. /\ HistTypes /\ PartitionsHold(months)
      /\ NothingInvented(hotFile, months, samples, kept, refused)
      /\ Durable(today, hotFile, months, kept, lossy)
  BY DEF HistInv
<1>2. /\ Retained(rows, c)
      /\ \A t : t \in Times(rows) <=> t >= c /\ t \in DiskOf(hotFile, months)
  <2>1. HotLines \in Seq(Lines)
    BY <1>1, HotLinesFacts
  <2>2. /\ Retained(rows, c)
        /\ \A t : t \in Times(rows) <=>
             t >= c /\ \/ \E r \in ToSet(HotLines) : IsRow(r) /\ r.at = t
                       \/ \E m \in Months : \E r \in ToSet(months[m]) : IsRow(r) /\ r.at = t
    BY <1>1, <2>1, LoadFacts
  <2> HIDE DEF rows, c
  <2> QED
    BY <1>1, <2>2, HotLinesFacts, DiskFacts
<1>3. /\ samples' = rows /\ partial' = FALSE /\ step \in {"off"}
      /\ UNCHANGED <<today, hotFile, cut, months, kept, refused, lossy>>
      /\ \/ /\ toArchive' = ColdMonths(rows)
            /\ step' = IF toArchive' = {} THEN "rewrite" ELSE "archive"
         \/ toArchive' = {} /\ step' = "migrate"
  BY DEF LoadHistory, diskVars, ghostVars
<1>4. \A r \in rows : IsHot(r) \/ MonthOf[r.at] \in ColdMonths(rows)
  BY DEF ColdMonths
<1>5. ColdMonths(rows) \in SUBSET Months
  BY <1>2, MonthOfRow DEF ColdMonths, Retained
<1> HIDE DEF rows
<1>6. HistTypes'
  BY <1>1, <1>2, <1>3, <1>5 DEF HistTypes, Retained
<1>7. OnePerTime(rows) /\ Times(rows) = Window(DiskOf(hotFile, months), today)
  <2>1. \A t : t \in Times(rows) <=> t \in Window(DiskOf(hotFile, months), today)
    BY <1>2 DEF Window
  <2> QED
    BY <1>2, <2>1 DEF Retained
<1> HIDE DEF c
<1>8. NothingInvented(hotFile, months, rows, kept, refused)
  BY <1>1, <1>7 DEF NothingInvented, Window
<1>9. Shown(today, hotFile, months, rows, step', partial', kept, lossy)
  BY <1>3, <1>7 DEF Shown
<1>10. ColdIsArchived(today, months, rows, step', toArchive')
  BY <1>3, <1>4 DEF ColdIsArchived, IsHot
<1> QED
  BY <1>1, <1>3, <1>6, <1>7, <1>8, <1>9, <1>10 DEF HistInv

(* A load that breaks off.                                                 *)
LEMMA LoadBreaksKeeps == HistInv /\ (\E n \in -1..Len(hotFile) : LoadBreaks(n)) => HistInv'
<1> SUFFICES ASSUME HistInv, NEW n \in -1..Len(hotFile), LoadBreaks(n)
             PROVE  HistInv'
  OBVIOUS
<1> DEFINE c == today - KeepDays
           lines == SubSeq(hotFile, 1, n)
           rows == Consume(Archived(c), lines, c)
<1>1. /\ HistTypes /\ PartitionsHold(months)
      /\ NothingInvented(hotFile, months, samples, kept, refused)
      /\ Durable(today, hotFile, months, kept, lossy)
  BY DEF HistInv
<1>2. /\ samples' = IF n < 0 THEN {} ELSE rows
      /\ partial' = TRUE /\ toArchive' = {} /\ step' = "migrate"
      /\ UNCHANGED <<today, hotFile, cut, months, kept, refused, lossy>>
  BY DEF LoadBreaks, diskVars, ghostVars
<1>3. hotFile \in Seq(Lines)
  BY <1>1 DEF HistTypes
<1>4. samples' \in SUBSET Rows /\ OnePerTime(samples') /\ Times(samples') \subseteq DiskOf(hotFile, months)
  <2>1. CASE n < 0
    BY <1>2, <2>1 DEF OnePerTime, Times
  <2>2. CASE ~(n < 0)
    <3>1. lines \in Seq(Lines) /\ ToSet(lines) \subseteq ToSet(hotFile)
      <4>1. n \in 0..Len(hotFile)
        BY <1>3, <2>2
      <4>2. /\ lines \in Seq(Lines) /\ DOMAIN lines = 1..n
            /\ \A i \in 1..n : lines[i] = hotFile[i] /\ i \in DOMAIN hotFile
        BY <1>3, <4>1
      <4> HIDE DEF lines
      <4> QED
        BY <4>2 DEF ToSet
    <3> HIDE DEF lines
    <3>2. /\ Retained(rows, c)
          /\ \A t : t \in Times(rows) <=>
               t >= c /\ \/ \E r \in ToSet(lines) : IsRow(r) /\ r.at = t
                         \/ \E m \in Months : \E r \in ToSet(months[m]) : IsRow(r) /\ r.at = t
      BY <1>1, <3>1, LoadFacts
    <3> HIDE DEF rows, c
    <3>3. \A t \in Times(rows) : t \in DiskOf(hotFile, months)
      BY <3>1, <3>2, DiskFacts
    <3> QED
      BY <1>2, <2>2, <3>2, <3>3 DEF Retained
  <2> QED
    BY <2>1, <2>2
<1>5. HistTypes'
  BY <1>1, <1>2, <1>4 DEF HistTypes
<1>6. NothingInvented(hotFile, months, samples', kept, refused)
  BY <1>1, <1>4 DEF NothingInvented
<1> QED
  BY <1>1, <1>2, <1>4, <1>5, <1>6 DEF HistInv, Shown, ColdIsArchived

(* A month is archived.                                                    *)
LEMMA ArchiveMonthKeeps == HistInv /\ ArchiveMonth => HistInv'
<1> SUFFICES ASSUME HistInv, ArchiveMonth
             PROVE  HistInv'
  OBVIOUS
<1> DEFINE m == CHOOSE k \in toArchive : \A j \in toArchive : k <= j
           cold == {r \in samples : ~IsHot(r) /\ MonthOf[r.at] = m}
           new == Merged(months[m], cold)
<1>1. /\ HistTypes /\ PartitionsHold(months) /\ OnePerTime(samples)
      /\ NothingInvented(hotFile, months, samples, kept, refused)
      /\ Durable(today, hotFile, months, kept, lossy)
      /\ Shown(today, hotFile, months, samples, step, partial, kept, lossy)
      /\ ColdIsArchived(today, months, samples, step, toArchive)
  BY DEF HistInv
<1>2. /\ step = "archive" /\ months' = [months EXCEPT ![m] = new]
      /\ toArchive' = toArchive \ {m}
      /\ step' = IF toArchive' = {} THEN "rewrite" ELSE "archive"
      /\ UNCHANGED <<today, hotFile, cut, samples, partial, kept, refused, lossy>>
  BY DEF ArchiveMonth, ghostVars
<1>3. m \in toArchive /\ m \in Months
  <2>1. toArchive \in SUBSET Nat /\ toArchive # {} /\ toArchive \in SUBSET Months
    BY <1>1, <1>2, MonthsAreNumbers DEF HistTypes, ColdIsArchived
  <2>2. \E k \in toArchive : \A j \in toArchive : k <= j
    BY <2>1, LeastNumber
  <2> QED
    BY <2>1, <2>2
<1>4. cold \in SUBSET Rows /\ OnePerTime(cold) /\ cold \in SUBSET samples
  BY <1>1 DEF HistTypes, OnePerTime
<1>5. \A r \in cold : MonthOf[r.at] = m
  OBVIOUS
<1>6. \A r \in samples : r.at >= today - HotDays \/ MonthOf[r.at] # m \/ r \in cold
  BY DEF IsHot
<1> HIDE DEF m, cold
<1>7. /\ new \in Seq(Rows) /\ IsInjective(new) /\ ToSet(new) = ToSet(months[m]) \union cold
  <2>1. months[m] \in Seq(Rows) /\ IsInjective(months[m])
    BY <1>1, <1>3 DEF HistTypes, PartitionsHold
  <2> QED
    BY <1>4, <2>1, MergedFacts
<1> HIDE DEF new
<1>8. /\ months' \in [Months -> Seq(Rows)] /\ months'[m] = new
      /\ \A k \in Months : k # m => months'[k] = months[k]
  BY <1>1, <1>2, <1>3, <1>7 DEF HistTypes
<1>9. HistTypes'
  BY <1>1, <1>2, <1>8 DEF HistTypes
<1>10. PartitionsHold(months')
  <2>1. ASSUME NEW k \in Months
        PROVE  IsInjective(months'[k]) /\ \A r \in ToSet(months'[k]) : MonthOf[r.at] = k
    <3>1. CASE k = m
      BY <1>1, <1>3, <1>5, <1>7, <1>8, <3>1 DEF PartitionsHold
    <3>2. CASE k # m
      BY <1>1, <1>8, <3>2 DEF PartitionsHold
    <3> QED
      BY <3>1, <3>2
  <2> QED
    BY <2>1 DEF PartitionsHold
<1>11. \A t : t \in DiskOf(hotFile, months') <=> t \in DiskOf(hotFile, months) \/ t \in Times(cold)
  <2>1. \A k \in Months : ToSet(months[k]) \subseteq ToSet(months'[k])
    BY <1>7, <1>8
  <2>2. \A k \in Months : \A r \in ToSet(months'[k]) : r \in ToSet(months[k]) \/ r \in cold
    BY <1>7, <1>8
  <2>3. \A r \in cold : r \in ToSet(months'[m]) /\ IsRow(r)
    BY <1>4, <1>7, <1>8, MonthOfRow
  <2>4. ASSUME NEW t, t \in DiskOf(hotFile, months')
        PROVE  t \in DiskOf(hotFile, months) \/ t \in Times(cold)
    BY <2>2, <2>4, DiskFacts DEF Times
  <2>5. ASSUME NEW t, t \in DiskOf(hotFile, months)
        PROVE  t \in DiskOf(hotFile, months')
    BY <2>1, <2>5, DiskFacts
  <2>6. ASSUME NEW t, t \in Times(cold)
        PROVE  t \in DiskOf(hotFile, months')
    <3>1. PICK r \in cold : r.at = t
      BY <2>6 DEF Times
    <3> QED
      BY <1>3, <2>3, <3>1, DiskFacts
  <2> QED
    BY <2>4, <2>5, <2>6
<1>12. Times(cold) \subseteq Times(samples)
  BY <1>4 DEF Times
<1>13. NothingInvented(hotFile, months', samples, kept, refused)
  BY <1>1, <1>11, <1>12 DEF NothingInvented
<1>14. Durable(today, hotFile, months', kept, lossy)
  BY <1>1, <1>11 DEF Durable
<1>15. Shown(today, hotFile, months', samples, step', partial, kept, lossy)
  <2>1. ~partial /\ Window(DiskOf(hotFile, months), today) \subseteq Times(samples)
    BY <1>1, <1>2 DEF Shown
  <2>2. Window(DiskOf(hotFile, months'), today) \subseteq Times(samples)
    BY <1>11, <1>12, <2>1 DEF Window
  <2> QED
    BY <1>2, <2>1, <2>2 DEF Shown
<1>16. ColdIsArchived(today, months', samples, step', toArchive')
  <2>1. ASSUME NEW r \in samples
        PROVE  \/ r.at >= today - HotDays \/ MonthOf[r.at] \in toArchive'
               \/ r \in ToSet(months'[MonthOf[r.at]])
    <3>1. MonthOf[r.at] \in Months
      BY <1>1, MonthOfRow DEF HistTypes
    <3>2. CASE MonthOf[r.at] = m
      BY <1>6, <1>7, <1>8, <3>2
    <3>3. CASE MonthOf[r.at] # m
      BY <1>1, <1>2, <1>8, <3>1, <3>3 DEF ColdIsArchived
    <3> QED
      BY <3>2, <3>3
  <2> QED
    BY <1>2, <2>1 DEF ColdIsArchived
<1> QED
  BY <1>1, <1>2, <1>9, <1>10, <1>13, <1>14, <1>15, <1>16 DEF HistInv

(* The hot file is replaced by the hot rows: the cold ones are archived.   *)
LEMMA RewriteHotKeeps == HistInv /\ RewriteHot => HistInv'
<1> SUFFICES ASSUME HistInv, RewriteHot
             PROVE  HistInv'
  OBVIOUS
<1> DEFINE hot == {r \in samples : IsHot(r)}
<1>1. /\ HistTypes /\ PartitionsHold(months) /\ OnePerTime(samples)
      /\ NothingInvented(hotFile, months, samples, kept, refused)
      /\ Durable(today, hotFile, months, kept, lossy)
      /\ Shown(today, hotFile, months, samples, step, partial, kept, lossy)
      /\ ColdIsArchived(today, months, samples, step, toArchive)
  BY DEF HistInv
<1>2. /\ step = "rewrite" /\ step' = "migrate" /\ hotFile' = ByTime(hot) /\ cut' = FALSE
      /\ UNCHANGED <<today, months, samples, toArchive, partial, kept, refused, lossy>>
  BY DEF RewriteHot, ghostVars
<1>3. hot \in SUBSET Rows /\ OnePerTime(hot) /\ hot \in SUBSET samples
  BY <1>1 DEF HistTypes, OnePerTime
<1>4. \A r \in samples : r \in hot \/ r \in ToSet(months[MonthOf[r.at]])
  BY <1>1, <1>2 DEF ColdIsArchived, IsHot
<1> HIDE DEF hot
<1>5. hotFile' \in Seq(Lines) /\ ToSet(hotFile') = hot
  <2>1. ByTime(hot) \in Seq(hot) /\ ToSet(ByTime(hot)) = hot
    BY <1>3, ByTimeIsAll
  <2>2. hot \in SUBSET Lines
    BY <1>3 DEF Lines
  <2> QED
    BY <1>2, <2>1, <2>2
<1>6. HistTypes'
  BY <1>1, <1>2, <1>5 DEF HistTypes
<1>7. Times(samples) \subseteq DiskOf(hotFile', months)
  <2>1. ASSUME NEW r \in samples PROVE r.at \in DiskOf(hotFile', months)
    <3>1. IsRow(r) /\ MonthOf[r.at] \in Months
      BY <1>1, MonthOfRow DEF HistTypes
    <3> QED
      BY <1>4, <1>5, <3>1, DiskFacts
  <2> QED
    BY <2>1 DEF Times
<1>8. \A t \in DiskOf(hotFile', months) : t \in DiskOf(hotFile, months) \/ t \in Times(samples)
  <2>1. ASSUME NEW t \in DiskOf(hotFile', months)
        PROVE  t \in DiskOf(hotFile, months) \/ t \in Times(samples)
    <3>1. \/ \E r \in hot : r.at = t
          \/ \E m \in Months : \E r \in ToSet(months[m]) : IsRow(r) /\ r.at = t
      BY <1>5, DiskFacts
    <3>2. CASE \E r \in hot : r.at = t
      BY <1>3, <3>2 DEF Times
    <3>3. CASE \E m \in Months : \E r \in ToSet(months[m]) : IsRow(r) /\ r.at = t
      BY <3>3, DiskFacts
    <3> QED
      BY <3>1, <3>2, <3>3
  <2> QED
    BY <2>1
<1>9. NothingInvented(hotFile', months, samples, kept, refused)
  BY <1>1, <1>8 DEF NothingInvented
<1>10. ~partial /\ Window(DiskOf(hotFile, months), today) \subseteq Times(samples)
  BY <1>1, <1>2 DEF Shown
<1>11. Durable(today, hotFile', months, kept, lossy)
  <2>1. ASSUME ~lossy, NEW t \in Window(kept, today)
        PROVE  t \in DiskOf(hotFile', months)
    <3>1. t \in Window(DiskOf(hotFile, months), today)
      BY <1>1, <2>1 DEF Durable, Window
    <3> QED
      BY <1>7, <1>10, <3>1
  <2> QED
    BY <2>1 DEF Durable
<1>12. Shown(today, hotFile', months, samples, step', partial, kept, lossy)
  BY <1>2, <1>8, <1>10 DEF Shown, Window
<1>13. ColdIsArchived(today, months, samples, step', toArchive)
  BY <1>2 DEF ColdIsArchived
<1> QED
  BY <1>1, <1>2, <1>6, <1>9, <1>11, <1>12, <1>13 DEF HistInv

(* A compaction that fails leaves what it had written.                     *)
LEMMA CompactionFailsKeeps == HistInv /\ CompactionFails => HistInv'
<1> SUFFICES ASSUME HistInv, CompactionFails
             PROVE  HistInv'
  OBVIOUS
<1>1. /\ HistTypes
      /\ Shown(today, hotFile, months, samples, step, partial, kept, lossy)
  BY DEF HistInv
<1>2. /\ step \in {"archive", "rewrite"} /\ step' = "migrate" /\ toArchive' = {}
      /\ UNCHANGED <<today, hotFile, cut, months, samples, partial, kept, refused, lossy>>
  BY DEF CompactionFails, diskVars, ghostVars
<1>3. HistTypes'
  BY <1>1, <1>2 DEF HistTypes
<1>4. Shown(today, hotFile, months, samples, step', partial, kept, lossy)
  BY <1>1, <1>2 DEF Shown
<1>5. ColdIsArchived(today, months, samples, step', toArchive')
  BY <1>2 DEF ColdIsArchived
<1> QED
  BY <1>2, <1>3, <1>4, <1>5 DEF HistInv

(* A row without its rate is a row of the same time.                       *)
LEMMA StrippedFacts ==
  ASSUME samples \in SUBSET Rows, OnePerTime(samples)
  PROVE  Stripped \in SUBSET Rows /\ OnePerTime(Stripped) /\ Times(Stripped) = Times(samples)
<1> DEFINE Bare(r) == [r EXCEPT !.rate = FALSE]
<1>1. ASSUME NEW r \in Rows
      PROVE  Bare(r) \in Rows /\ Bare(r).at = r.at
  BY DEF Rows
<1>2. \A b : b \in Stripped <=> \E r \in samples : b = Bare(r)
  BY DEF Stripped
<1>3. \A r, s \in samples : r.at = s.at => Bare(r) = Bare(s)
  BY Zenon DEF OnePerTime
<1> HIDE DEF Bare
<1>4. Stripped \in SUBSET Rows
  BY <1>1, <1>2
<1>5. OnePerTime(Stripped)
  <2>1. ASSUME NEW a \in Stripped, NEW b \in Stripped, a.at = b.at
        PROVE  a = b
    <3>1. PICK r \in samples : a = Bare(r)
      BY <1>2
    <3>2. PICK s \in samples : b = Bare(s)
      BY <1>2
    <3>3. r.at = s.at
      BY <1>1, <2>1, <3>1, <3>2
    <3> QED
      BY <1>3, <3>1, <3>2, <3>3
  <2> QED
    BY <2>1 DEF OnePerTime
<1>6. Times(Stripped) = Times(samples)
  <2>1. ASSUME NEW t \in Times(samples) PROVE t \in Times(Stripped)
    <3>1. PICK r \in samples : r.at = t
      BY DEF Times
    <3>2. Bare(r) \in Stripped /\ Bare(r).at = t
      BY <1>1, <1>2, <3>1
    <3> QED
      BY <3>2 DEF Times
  <2>2. ASSUME NEW t \in Times(Stripped) PROVE t \in Times(samples)
    <3>1. PICK b \in Stripped : b.at = t
      BY DEF Times
    <3>2. PICK r \in samples : b = Bare(r)
      BY <1>2
    <3>3. r.at = t
      BY <1>1, <3>1, <3>2
    <3> QED
      BY <3>3 DEF Times
  <2> QED
    BY <2>1, <2>2
<1> QED
  BY <1>4, <1>5, <1>6

(* The file is rewritten from memory without the rates.                    *)
LEMMA MigrateRatesKeeps == HistInv /\ MigrateRates => HistInv'
<1> SUFFICES ASSUME HistInv, MigrateRates
             PROVE  HistInv'
  OBVIOUS
<1>1. /\ HistTypes /\ PartitionsHold(months) /\ OnePerTime(samples)
      /\ NothingInvented(hotFile, months, samples, kept, refused)
      /\ Durable(today, hotFile, months, kept, lossy)
      /\ Shown(today, hotFile, months, samples, step, partial, kept, lossy)
  BY DEF HistInv
<1>2. /\ step = "migrate" /\ step' = "run"
      /\ UNCHANGED <<today, months, toArchive, partial, kept, refused>>
  BY DEF MigrateRates
<1>3. ~partial => Window(DiskOf(hotFile, months), today) \subseteq Times(samples)
  BY <1>1, <1>2 DEF Shown
<1>4. ~partial /\ ~lossy => Window(kept, today) \subseteq Times(samples)
  BY <1>1, <1>3 DEF Durable, Window
<1>5. ColdIsArchived(today, months, samples', step', toArchive)
  BY <1>2 DEF ColdIsArchived
<1>6. CASE WithRate = {}
  <2>1. UNCHANGED <<hotFile, cut, samples, lossy>>
    BY <1>6 DEF MigrateRates
  <2>2. HistTypes'
    BY <1>1, <1>2, <2>1 DEF HistTypes
  <2>3. Shown(today, hotFile, months, samples, step', partial, kept, lossy)
    BY <1>2, <1>4 DEF Shown
  <2> QED
    BY <1>1, <1>2, <1>5, <2>1, <2>2, <2>3 DEF HistInv
<1>7. CASE WithRate # {}
  <2>1. /\ hotFile' = ByTime(Stripped) /\ cut' = FALSE /\ samples' = Stripped
        /\ lossy' = (lossy \/ partial)
    BY <1>7 DEF MigrateRates
  <2>2. /\ samples' \in SUBSET Rows /\ OnePerTime(samples') /\ Times(samples') = Times(samples)
        /\ hotFile' \in Seq(samples') /\ ToSet(hotFile') = samples'
    BY <1>1, <2>1, StrippedFacts, ByTimeIsAll DEF HistTypes
  <2>3. hotFile' \in Seq(Lines)
    <3>1. samples' \in SUBSET Lines
      BY <2>2 DEF Lines
    <3> QED
      BY <2>2, <3>1
  <2>4. HistTypes'
    BY <1>1, <1>2, <2>1, <2>2, <2>3 DEF HistTypes
  <2>5. Times(samples) \subseteq DiskOf(hotFile', months)
    <3>1. ASSUME NEW t \in Times(samples') PROVE t \in DiskOf(hotFile', months)
      <4>1. PICK r \in samples' : r.at = t
        BY DEF Times
      <4>2. IsRow(r) /\ r \in ToSet(hotFile')
        BY <2>2, <4>1, MonthOfRow
      <4> QED
        BY <4>1, <4>2, DiskFacts
    <3> QED
      BY <2>2, <3>1
  <2>6. \A t \in DiskOf(hotFile', months) : t \in DiskOf(hotFile, months) \/ t \in Times(samples)
    <3>1. ASSUME NEW t \in DiskOf(hotFile', months)
          PROVE  t \in DiskOf(hotFile, months) \/ t \in Times(samples)
      <4>1. \/ \E r \in samples' : r.at = t
            \/ \E m \in Months : \E r \in ToSet(months[m]) : IsRow(r) /\ r.at = t
        BY <2>2, DiskFacts
      <4>2. CASE \E r \in samples' : r.at = t
        <5>1. t \in Times(samples')
          BY <4>2 DEF Times
        <5> QED
          BY <2>2, <5>1
      <4>3. CASE \E m \in Months : \E r \in ToSet(months[m]) : IsRow(r) /\ r.at = t
        BY <4>3, DiskFacts
      <4> QED
        BY <4>1, <4>2, <4>3
    <3> QED
      BY <3>1
  <2>7. NothingInvented(hotFile', months, samples', kept, refused)
    BY <1>1, <2>2, <2>6 DEF NothingInvented
  <2>8. Durable(today, hotFile', months, kept, lossy')
    BY <1>4, <2>1, <2>5 DEF Durable
  <2>9. Shown(today, hotFile', months, samples', step', partial, kept, lossy')
    BY <1>2, <1>4, <2>1, <2>2 DEF Shown
  <2> QED
    BY <1>1, <1>2, <1>5, <2>2, <2>4, <2>7, <2>8, <2>9 DEF HistInv
<1> QED
  BY <1>6, <1>7

(* A migration that fails changes no file.                                 *)
LEMMA MigrationFailsKeeps == HistInv /\ MigrationFails => HistInv'
<1> SUFFICES ASSUME HistInv, MigrationFails
             PROVE  HistInv'
  OBVIOUS
<1>1. /\ HistTypes
      /\ Durable(today, hotFile, months, kept, lossy)
      /\ Shown(today, hotFile, months, samples, step, partial, kept, lossy)
  BY DEF HistInv
<1>2. /\ step = "migrate" /\ step' = "run"
      /\ UNCHANGED <<today, hotFile, cut, months, samples, toArchive, partial, kept, refused, lossy>>
  BY DEF MigrationFails, diskVars, ghostVars
<1>3. HistTypes'
  BY <1>1, <1>2 DEF HistTypes
<1>4. Shown(today, hotFile, months, samples, step', partial, kept, lossy)
  BY <1>1, <1>2 DEF Shown, Durable, Window
<1>5. ColdIsArchived(today, months, samples, step', toArchive)
  BY <1>2 DEF ColdIsArchived
<1> QED
  BY <1>2, <1>3, <1>4, <1>5 DEF HistInv

(* What is remembered of a new sample.                                     *)
LEMMA RememberedFacts ==
  ASSUME HistTypes, OnePerTime(samples)
  PROVE  /\ Remembered \in SUBSET Rows /\ OnePerTime(Remembered)
         /\ \A t : t \in Times(Remembered) <=> t = today \/ t \in Window(Times(samples), today)
<1> DEFINE c == today - KeepDays
           old == {r \in samples : r.at >= c}
<1>1. c \in Int /\ NewRow \in Rows /\ NewRow.at = today /\ NewRow.at >= c
  BY HistoryAssumption DEF HistTypes, NewRow, Rows
<1>2. Remembered = Retain(old, NewRow, c)
  BY DEF Remembered, Retain
<1>3. Retained(old, c)
  BY DEF Retained, HistTypes, OnePerTime
<1>4. \A t : t \in Times(old) <=> t \in Window(Times(samples), today)
  BY DEF Times, Window
<1> HIDE DEF c, old
<1>5. /\ Retained(Retain(old, NewRow, c), c)
      /\ Times(Retain(old, NewRow, c)) = Times(old) \union {NewRow.at}
  BY <1>1, <1>3, RetainFacts
<1> QED
  BY <1>1, <1>2, <1>4, <1>5 DEF Retained

(* A line is appended: the new row, or nothing readable behind a torn one. *)
LEMMA AppendedFacts ==
  ASSUME HistTypes
  PROVE  /\ Appended(NewRow) \in Seq(Lines)
         /\ \A t : t \in DiskOf(Appended(NewRow), months) <=>
              t \in DiskOf(hotFile, months) \/ (~cut /\ t = today)
<1> DEFINE l == IF cut THEN Garbage ELSE NewRow
<1>1. /\ l \in Lines /\ hotFile \in Seq(Lines) /\ NewRow.at = today
      /\ cut => ~IsRow(l)
      /\ ~cut => l = NewRow /\ IsRow(l)
  <2>1. NewRow \in Rows /\ Garbage \in Lines /\ ~IsRow(Garbage) /\ NewRow.at = today
    BY DEF HistTypes, NewRow, Rows, Lines, IsRow
  <2> QED
    BY <2>1, MonthOfRow DEF Lines, HistTypes
<1>2. Appended(NewRow) = Append(hotFile, l)
  BY DEF Appended
<1> HIDE DEF l
<1>3. Append(hotFile, l) \in Seq(Lines) /\ ToSet(Append(hotFile, l)) = ToSet(hotFile) \union {l}
  BY <1>1, AppendedSet
<1>4. ASSUME NEW t, t \in DiskOf(Appended(NewRow), months)
      PROVE  t \in DiskOf(hotFile, months) \/ (~cut /\ t = today)
  BY <1>1, <1>2, <1>3, <1>4, DiskFacts
<1>5. ASSUME NEW t, t \in DiskOf(hotFile, months)
      PROVE  t \in DiskOf(Appended(NewRow), months)
  BY <1>2, <1>3, <1>5, DiskFacts
<1>6. ~cut => today \in DiskOf(Appended(NewRow), months)
  BY <1>1, <1>2, <1>3, DiskFacts
<1> QED
  BY <1>2, <1>3, <1>4, <1>5, <1>6

(* A sample is appended and remembered.  Behind a torn line it is refused  *)
(* the disk without anybody noticing.                                      *)
LEMMA RecordSampleKeeps == HistInv /\ RecordSample => HistInv'
<1> SUFFICES ASSUME HistInv, RecordSample
             PROVE  HistInv'
  OBVIOUS
<1>1. /\ HistTypes /\ PartitionsHold(months) /\ OnePerTime(samples)
      /\ NothingInvented(hotFile, months, samples, kept, refused)
      /\ Durable(today, hotFile, months, kept, lossy)
      /\ Shown(today, hotFile, months, samples, step, partial, kept, lossy)
  BY DEF HistInv
<1>2. /\ step = "run" /\ hotFile' = Appended(NewRow) /\ cut' = FALSE /\ samples' = Remembered
      /\ kept' = IF cut THEN kept ELSE kept \union {today}
      /\ refused' = IF cut THEN refused \union {today} ELSE refused
      /\ UNCHANGED <<today, months, step, toArchive, partial, lossy>>
  BY DEF RecordSample
<1>3. /\ samples' \in SUBSET Rows /\ OnePerTime(samples')
      /\ \A t : t \in Times(samples') <=> t = today \/ t \in Window(Times(samples), today)
  BY <1>1, <1>2, RememberedFacts
<1>4. /\ hotFile' \in Seq(Lines)
      /\ \A t : t \in DiskOf(hotFile', months) <=> t \in DiskOf(hotFile, months) \/ (~cut /\ t = today)
  BY <1>1, <1>2, AppendedFacts
<1>5. HistTypes'
  BY <1>1, <1>2, <1>3, <1>4 DEF HistTypes
<1>6. kept' \union refused' = (kept \union refused) \union {today}
  BY <1>2
<1>7. NothingInvented(hotFile', months, samples', kept', refused')
  BY <1>1, <1>3, <1>4, <1>6 DEF NothingInvented, Window
<1>8. Durable(today, hotFile', months, kept', lossy)
  BY <1>1, <1>2, <1>4 DEF Durable, Window
<1>9. Shown(today, hotFile', months, samples', step, partial, kept', lossy)
  BY <1>1, <1>2, <1>3 DEF Shown, Window
<1>10. ColdIsArchived(today, months, samples', step, toArchive)
  BY <1>2 DEF ColdIsArchived
<1> QED
  BY <1>1, <1>2, <1>3, <1>5, <1>7, <1>8, <1>9, <1>10 DEF HistInv

(* A refused append may leave nothing, part of a line or all of it.        *)
LEMMA RecordFailsKeeps ==
  HistInv /\ (\E written \in {"nothing", "some", "all"} : RecordFails(written)) => HistInv'
<1> SUFFICES ASSUME HistInv, NEW written \in {"nothing", "some", "all"}, RecordFails(written)
             PROVE  HistInv'
  OBVIOUS
<1>1. /\ HistTypes /\ PartitionsHold(months) /\ OnePerTime(samples)
      /\ NothingInvented(hotFile, months, samples, kept, refused)
      /\ Durable(today, hotFile, months, kept, lossy)
      /\ Shown(today, hotFile, months, samples, step, partial, kept, lossy)
  BY DEF HistInv
<1>2. /\ step = "run" /\ samples' = Remembered /\ refused' = refused \union {today}
      /\ UNCHANGED <<today, months, step, toArchive, partial, kept, lossy>>
  BY DEF RecordFails
<1>3. /\ samples' \in SUBSET Rows /\ OnePerTime(samples')
      /\ \A t : t \in Times(samples') <=> t = today \/ t \in Window(Times(samples), today)
  BY <1>1, <1>2, RememberedFacts
<1>4. /\ hotFile' \in Seq(Lines) /\ cut' \in BOOLEAN
      /\ \A t \in DiskOf(hotFile, months) : t \in DiskOf(hotFile', months)
      /\ \A t \in DiskOf(hotFile', months) : t \in DiskOf(hotFile, months) \/ t = today
  <2>1. CASE written = "nothing"
    BY <1>1, <2>1 DEF RecordFails, HistTypes
  <2>2. CASE written = "some"
    BY <1>1, <2>2 DEF RecordFails, HistTypes
  <2>3. CASE written = "all"
    <3>1. hotFile' = Appended(NewRow) /\ cut' = FALSE
      BY <2>3 DEF RecordFails
    <3> QED
      BY <1>1, <3>1, AppendedFacts
  <2> QED
    BY <2>1, <2>2, <2>3
<1>5. HistTypes'
  BY <1>1, <1>2, <1>3, <1>4 DEF HistTypes
<1>6. NothingInvented(hotFile', months, samples', kept, refused')
  BY <1>1, <1>2, <1>3, <1>4 DEF NothingInvented, Window
<1>7. Durable(today, hotFile', months, kept, lossy)
  BY <1>1, <1>4 DEF Durable
<1>8. Shown(today, hotFile', months, samples', step, partial, kept, lossy)
  BY <1>1, <1>2, <1>3 DEF Shown, Window
<1>9. ColdIsArchived(today, months, samples', step, toArchive)
  BY <1>2 DEF ColdIsArchived
<1> QED
  BY <1>1, <1>2, <1>3, <1>5, <1>6, <1>7, <1>8, <1>9 DEF HistInv

(* A day later the window is a day shorter.                                *)
LEMMA NextDayKeeps == HistInv /\ NextDay => HistInv'
<1> SUFFICES ASSUME HistInv, NextDay
             PROVE  HistInv'
  OBVIOUS
<1>1. /\ HistTypes
      /\ Durable(today, hotFile, months, kept, lossy)
      /\ Shown(today, hotFile, months, samples, step, partial, kept, lossy)
  BY DEF HistInv
<1>2. /\ step \in {"off", "run"} /\ today < LastDay /\ today' = today + 1
      /\ UNCHANGED <<hotFile, cut, months, samples, step, toArchive, partial, kept, refused, lossy>>
  BY DEF NextDay, diskVars, ghostVars
<1>3. today' \in 0..LastDay
  BY <1>1, <1>2, HistoryAssumption DEF HistTypes
<1>4. HistTypes'
  BY <1>1, <1>2, <1>3 DEF HistTypes
<1>5. Window(kept, today') \subseteq Window(kept, today)
  <2>1. ASSUME NEW t \in kept, t >= today' - KeepDays
        PROVE  t >= today - KeepDays
    <3>1. t \in Int /\ today \in Int /\ KeepDays \in Int
      BY <1>1, HistoryAssumption DEF HistTypes
    <3> QED
      BY <1>2, <2>1, <3>1
  <2> QED
    BY <2>1 DEF Window
<1>6. Durable(today', hotFile, months, kept, lossy)
  BY <1>1, <1>5 DEF Durable
<1>7. Shown(today', hotFile, months, samples, step, partial, kept, lossy)
  BY <1>1, <1>2, <1>5 DEF Shown
<1>8. ColdIsArchived(today', months, samples, step, toArchive)
  BY <1>2 DEF ColdIsArchived
<1> QED
  BY <1>2, <1>4, <1>6, <1>7, <1>8 DEF HistInv

(* The process dies.                                                       *)
LEMMA CrashHistoryKeeps == HistInv /\ (\E tears \in BOOLEAN : CrashHistory(tears)) => HistInv'
<1> SUFFICES ASSUME HistInv, NEW tears \in BOOLEAN, CrashHistory(tears)
             PROVE  HistInv'
  OBVIOUS
<1>1. /\ HistTypes /\ NothingInvented(hotFile, months, samples, kept, refused)
  BY DEF HistInv
<1>2. /\ step' = "off" /\ samples' = {} /\ toArchive' = {} /\ partial' = FALSE /\ cut' = (cut \/ tears)
      /\ UNCHANGED <<today, hotFile, months, kept, refused, lossy>>
  BY DEF CrashHistory, ghostVars
<1>3. HistTypes'
  BY <1>1, <1>2 DEF HistTypes
<1>4. OnePerTime({}) /\ Times({}) = {}
  BY DEF OnePerTime, Times
<1>5. NothingInvented(hotFile, months, samples', kept, refused)
  BY <1>1, <1>2, <1>4 DEF NothingInvented
<1> QED
  BY <1>2, <1>3, <1>4, <1>5 DEF HistInv, Shown, ColdIsArchived

(* Every step keeps the invariant.                                         *)
LEMMA HistStep == HistInv /\ [HistNext]_histVars => HistInv'
<1> SUFFICES ASSUME HistInv, [HistNext]_histVars
             PROVE  HistInv'
  OBVIOUS
<1>1. CASE HistNext
  BY <1>1, LoadHistoryKeeps, LoadBreaksKeeps, ArchiveMonthKeeps, RewriteHotKeeps, CompactionFailsKeeps,
     MigrateRatesKeeps, MigrationFailsKeeps, RecordSampleKeeps, RecordFailsKeeps, NextDayKeeps,
     CrashHistoryKeeps DEF HistNext
<1>2. CASE UNCHANGED histVars
  BY <1>2 DEF HistInv, HistTypes, histVars
<1> QED
  BY <1>1, <1>2

(* For every old file, calendar, window and limit, and wherever crashes,   *)
(* refused writes and broken reads fall, the invariant holds.              *)
THEOREM HistoryInvariant == HistSpec => []HistInv
<1>1. HistInit => HistInv
  BY HistInitInv
<1>2. HistInv /\ [HistNext]_histVars => HistInv'
  BY HistStep
<1> QED
  BY <1>1, <1>2, PTL DEF HistSpec

(* compactHistorySampleFile, migrateLegacyThroughputHistory and            *)
(* recordSample: until it expires, a row that was appended without error   *)
(* to an intact file is on disk, a complete load shows it, and a partition *)
(* holds no line twice.                                                    *)
THEOREM HistoryKept == HistSpec => []HistoryIsKept
<1>1. HistInv => HistoryIsKept
  <2> SUFFICES ASSUME HistInv
               PROVE  HistoryIsKept
    OBVIOUS
  <2>1. OnDisk = DiskOf(hotFile, months)
    BY DEF OnDisk, DiskOf
  <2>2. RowsSurvive
    BY <2>1 DEF HistInv, Durable, Window, RowsSurvive
  <2>3. ViewIsTheFile
    BY DEF HistInv, Shown, NothingInvented, Window, ViewIsTheFile
  <2>4. ArchiveHoldsALineOnce
    BY DEF HistInv, PartitionsHold, ArchiveHoldsALineOnce
  <2> QED
    BY <2>2, <2>3, <2>4 DEF HistoryIsKept
<1> QED
  BY <1>1, HistoryInvariant, PTL

(***************************************************************************)
(* Maxima and sums.                                                        *)
(***************************************************************************)
HasMax(S) == \E x \in S : \A y \in S : y <= x

(* The greatest number is the maximum.                                     *)
LEMMA MaxIs ==
  ASSUME NEW S \in SUBSET Int, NEW x \in S, \A y \in S : y <= x
  PROVE  HasMax(S) /\ Max(S) = x
<1>1. \A z \in S : (\A y \in S : z >= y) => z = x
  BY Z3
<1>2. \A y \in S : x >= y
  OBVIOUS
<1>3. Max(S) = x
  BY <1>1, <1>2 DEF Max
<1>4. HasMax(S)
  BY Zenon DEF HasMax
<1> QED
  BY <1>3, <1>4

(* A set with a maximum has it as an element, and nothing above it.        *)
LEMMA MaxOf ==
  ASSUME NEW S \in SUBSET Int, HasMax(S)
  PROVE  Max(S) \in S /\ \A y \in S : y <= Max(S)
<1>1. PICK x \in S : \A y \in S : y <= x
  BY DEF HasMax
<1>2. Max(S) = x
  BY <1>1, MaxIs
<1> QED
  BY <1>1, <1>2

(* The maximum of two numbers.                                             *)
LEMMA Larger ==
  ASSUME NEW a \in Int, NEW b \in Int
  PROVE  Max({a, b}) = IF a >= b THEN a ELSE b
<1> DEFINE x == IF a >= b THEN a ELSE b
           S == {a, b}
<1>1. S \in SUBSET Int /\ x \in S /\ \A y \in S : y <= x
  OBVIOUS
<1> HIDE DEF x, S
<1>2. Max(S) = x
  BY <1>1, MaxIs
<1> QED
  BY <1>2 DEF x, S

(* The minimum of two numbers is at most each.                             *)
LEMMA Smaller ==
  ASSUME NEW a \in Int, NEW b \in Int
  PROVE  Min({a, b}) = IF a <= b THEN a ELSE b
<1> DEFINE x == IF a <= b THEN a ELSE b
<1>1. x \in {a, b} /\ \A y \in {a, b} : x <= y
  OBVIOUS
<1>2. \A z \in {a, b} : (\A y \in {a, b} : z <= y) => z = x
  OBVIOUS
<1> HIDE DEF x
<1>3. Min({a, b}) = x
  BY <1>1, <1>2 DEF Min
<1> QED
  BY <1>3 DEF x

(* A number more.                                                          *)
LEMMA MaxWith ==
  ASSUME NEW S \in SUBSET Int, HasMax(S), NEW v \in Int
  PROVE  HasMax(S \union {v}) /\ Max(S \union {v}) = IF v >= Max(S) THEN v ELSE Max(S)
<1> DEFINE x == IF v >= Max(S) THEN v ELSE Max(S)
           T == S \union {v}
<1>1. Max(S) \in S /\ Max(S) \in Int /\ \A y \in S : y <= Max(S)
  BY MaxOf
<1>2. T \in SUBSET Int /\ x \in T /\ \A y \in T : y <= x
  BY <1>1
<1> HIDE DEF x, T
<1>3. HasMax(T) /\ Max(T) = x
  BY <1>2, MaxIs
<1> QED
  BY <1>3 DEF x, T

(* The units by which a number grows.                                      *)
Between(a, u, v) == {<<a, k>> : k \in (u + 1)..v}

(* As many units as the number grows by.                                   *)
LEMMA MoreUnits ==
  ASSUME NEW U, IsFiniteSet(U), NEW a, NEW u \in Nat, NEW v \in Nat, u <= v,
         U \cap Between(a, u, v) = {}
  PROVE  /\ IsFiniteSet(U \union Between(a, u, v))
         /\ Cardinality(U \union Between(a, u, v)) = Cardinality(U) + (v - u)
<1> DEFINE W(n) == U \union Between(a, u, u + n)
           S == {n \in Nat : n <= v - u => IsFiniteSet(W(n)) /\ Cardinality(W(n)) = Cardinality(U) + n}
<1>1. Cardinality(U) \in Nat
  BY FS_CardinalityType
<1>2. 0 \in S
  <2>1. (u + 1)..(u + 0) = {}
    OBVIOUS
  <2>2. W(0) = U
    BY <2>1 DEF Between
  <2>3. IsFiniteSet(W(0)) /\ Cardinality(W(0)) = Cardinality(U)
    BY <2>2, Zenon
  <2> HIDE DEF W
  <2> QED
    BY <1>1, <2>3
<1>3. ASSUME NEW n \in Nat, n \in S
      PROVE  n + 1 \in S
  <2>1. CASE ~(n + 1 <= v - u)
    BY <2>1
  <2>2. CASE n + 1 <= v - u
    <3>1. n <= v - u /\ u + (n + 1) \in (u + 1)..v /\ u + (n + 1) \notin (u + 1)..(u + n)
      BY <2>2
    <3>2. (u + 1)..(u + (n + 1)) = ((u + 1)..(u + n)) \union {u + (n + 1)}
      OBVIOUS
    <3>3. W(n + 1) = W(n) \union {<<a, u + (n + 1)>>}
      BY <3>2 DEF Between
    <3>4. <<a, u + (n + 1)>> \notin W(n)
      <4>1. <<a, u + (n + 1)>> \in Between(a, u, v) /\ <<a, u + (n + 1)>> \notin Between(a, u, u + n)
        BY <3>1 DEF Between
      <4> QED
        BY <4>1
    <3>5. IsFiniteSet(W(n)) /\ Cardinality(W(n)) = Cardinality(U) + n
      BY <1>3, <3>1
    <3> HIDE DEF W
    <3>6. IsFiniteSet(W(n + 1)) /\ Cardinality(W(n + 1)) = Cardinality(W(n)) + 1
      BY <3>3, <3>4, <3>5, FS_AddElement
    <3> QED
      BY <1>1, <3>5, <3>6
  <2> QED
    BY <2>1, <2>2
<1> HIDE DEF S
<1>4. \A n \in Nat : n \in S
  BY <1>2, <1>3, SetInduction
<1>5. v - u \in Nat /\ v - u <= v - u /\ u + (v - u) = v
  OBVIOUS
<1>6. IsFiniteSet(W(v - u)) /\ Cardinality(W(v - u)) = Cardinality(U) + (v - u)
  BY <1>4, <1>5 DEF S
<1> QED
  BY <1>5, <1>6

(* A sum counts units.                                                     *)
UnitsOf(f) == UNION {{x} \X (1 .. f[x]) : x \in DOMAIN f}

(* What units there are.                                                   *)
LEMMA InUnits ==
  ASSUME NEW f
  PROVE  /\ SumOf(f) = Cardinality(UnitsOf(f))
         /\ \A z : z \in UnitsOf(f) <=> \E x \in DOMAIN f : \E k \in 1 .. f[x] : z = <<x, k>>
<1>1. SumOf(f) = Cardinality(UnitsOf(f))
  BY DEF SumOf, UnitsOf
<1>2. \A z : z \in UnitsOf(f) <=> \E x \in DOMAIN f : z \in {x} \X (1 .. f[x])
  BY DEF UnitsOf
<1>3. \A x, z : z \in {x} \X (1 .. f[x]) <=> \E k \in 1 .. f[x] : z = <<x, k>>
  OBVIOUS
<1> QED
  BY <1>1, <1>2, <1>3

(* A sum of numbers of which finitely many are not zero.                   *)
IsSum(f) == (\A x \in DOMAIN f : f[x] \in Nat) /\ IsFiniteSet(UnitsOf(f))

(* From f to g one number grows, from u to v, or is new.                   *)
Grows(f, g, a, u, v) ==
  /\ DOMAIN g = DOMAIN f \union {a}
  /\ \A x \in DOMAIN f : x # a => g[x] = f[x]
  /\ u = IF a \in DOMAIN f THEN f[a] ELSE 0
  /\ v = g[a] /\ u <= v

(* Then there are as many units more.                                      *)
LEMMA UnitsGrow ==
  ASSUME NEW f, NEW g, NEW a, NEW u \in Nat, NEW v \in Nat, Grows(f, g, a, u, v)
  PROVE  /\ UnitsOf(g) = UnitsOf(f) \union Between(a, u, v)
         /\ UnitsOf(f) \cap Between(a, u, v) = {}
<1>1. /\ DOMAIN g = DOMAIN f \union {a}
      /\ \A x \in DOMAIN f : x # a => g[x] = f[x]
      /\ a \in DOMAIN f => u = f[a]
      /\ a \notin DOMAIN f => u = 0
      /\ v = g[a] /\ u <= v
  BY DEF Grows
<1>2. ASSUME NEW z, z \in UnitsOf(g)
      PROVE  z \in UnitsOf(f) \union Between(a, u, v)
  <2>1. PICK x \in DOMAIN g : \E k \in 1 .. g[x] : z = <<x, k>>
    BY <1>2, InUnits
  <2>2. PICK k \in 1 .. g[x] : z = <<x, k>>
    BY <2>1
  <2>3. CASE x # a
    <3>1. x \in DOMAIN f /\ k \in 1 .. f[x]
      BY <1>1, <2>2, <2>3
    <3> QED
      BY <2>2, <3>1, InUnits
  <2>4. CASE x = a /\ k > u
    <3>1. k \in (u + 1)..v
      BY <1>1, <2>2, <2>4
    <3> QED
      BY <2>2, <2>4, <3>1 DEF Between
  <2>5. CASE x = a /\ ~(k > u)
    <3>1. k \in 1..u
      BY <2>2, <2>5
    <3>2. a \in DOMAIN f /\ u = f[a]
      BY <1>1, <3>1
    <3> QED
      BY <2>2, <2>5, <3>1, <3>2, InUnits
  <2> QED
    BY <2>3, <2>4, <2>5
<1>3. ASSUME NEW z, z \in UnitsOf(f)
      PROVE  z \in UnitsOf(g)
  <2>1. PICK x \in DOMAIN f : \E k \in 1 .. f[x] : z = <<x, k>>
    BY <1>3, InUnits
  <2>2. PICK k \in 1 .. f[x] : z = <<x, k>>
    BY <2>1
  <2>3. x \in DOMAIN g
    BY <1>1
  <2>4. k \in 1 .. g[x]
    <3>1. CASE x # a
      BY <1>1, <2>2, <3>1
    <3>2. CASE x = a
      BY <1>1, <2>2, <3>2
    <3> QED
      BY <3>1, <3>2
  <2> QED
    BY <2>2, <2>3, <2>4, InUnits
<1>4. ASSUME NEW z, z \in Between(a, u, v)
      PROVE  z \in UnitsOf(g)
  <2>1. PICK k \in (u + 1)..v : z = <<a, k>>
    BY <1>4 DEF Between
  <2>2. a \in DOMAIN g /\ k \in 1 .. g[a]
    BY <1>1, <2>1
  <2> QED
    BY <2>1, <2>2, InUnits
<1>5. SUFFICES ASSUME NEW k \in (u + 1)..v, <<a, k>> \in UnitsOf(f)
               PROVE  FALSE
  BY <1>2, <1>3, <1>4 DEF Between
<1>6. PICK x \in DOMAIN f : \E i \in 1 .. f[x] : <<a, k>> = <<x, i>>
  BY <1>5, InUnits
<1>7. a \in DOMAIN f /\ k \in 1 .. f[a]
  BY <1>6
<1> QED
  BY <1>1, <1>5, <1>7

(* And the sum is as much more.                                            *)
LEMMA SumGrows ==
  ASSUME NEW f, NEW g, NEW a, NEW u \in Nat, NEW v \in Nat, IsSum(f), Grows(f, g, a, u, v)
  PROVE  IsSum(g) /\ SumOf(f) \in Nat /\ SumOf(g) = SumOf(f) + (v - u)
<1>1. IsFiniteSet(UnitsOf(f)) /\ Cardinality(UnitsOf(f)) \in Nat
  BY FS_CardinalityType DEF IsSum
<1>2. /\ UnitsOf(g) = UnitsOf(f) \union Between(a, u, v)
      /\ UnitsOf(f) \cap Between(a, u, v) = {}
  BY UnitsGrow
<1>3. u <= v
  BY DEF Grows
<1>4. IsFiniteSet(UnitsOf(g)) /\ Cardinality(UnitsOf(g)) = Cardinality(UnitsOf(f)) + (v - u)
  BY <1>1, <1>2, <1>3, MoreUnits
<1>5. \A x \in DOMAIN g : g[x] \in Nat
  BY DEF IsSum, Grows
<1>6. SumOf(f) = Cardinality(UnitsOf(f)) /\ SumOf(g) = Cardinality(UnitsOf(g))
  BY InUnits
<1> QED
  BY <1>1, <1>4, <1>5, <1>6 DEF IsSum

(* A sum of nothing.                                                       *)
LEMMA SumOfNone ==
  ASSUME NEW f, \A x \in DOMAIN f : f[x] = 0
  PROVE  IsSum(f) /\ SumOf(f) = 0
<1>1. \A z : z \notin UnitsOf(f)
  BY InUnits
<1>2. UnitsOf(f) = {}
  BY <1>1
<1> QED
  BY <1>2, InUnits, FS_EmptySet DEF IsSum

(***************************************************************************)
(* UsageTail: the reference, one record further.                           *)
(***************************************************************************)
Records == UNION Providers

(* What a record has.                                                      *)
LEMMA RecordFields ==
  ASSUME NEW l \in Records
  PROVE  /\ IsTotal(l) => l.total \in Nat /\ l.at \in Nat
         /\ ~IsTotal(l) => l.out \in Nat /\ l.of \in Messages
  BY UsageConstants DEF Records, Messages

(* Of finitely many positive numbers one is the greatest.                  *)
LEMMA RangeHasMax ==
  ASSUME NEW n \in Nat, NEW S \in SUBSET (1..n), S # {}
  PROVE  HasMax(S)
<1> DEFINE Above == {k \in Nat : \A x \in S : x <= k}
<1>1. n \in Above
  OBVIOUS
<1>2. PICK m \in Above : \A k \in Above : m <= k
  <2>1. Above \in SUBSET Nat /\ Above # {}
    BY <1>1
  <2> HIDE DEF Above
  <2> QED
    BY <2>1, LeastNumber
<1>3. m \in Nat /\ \A x \in S : x <= m
  OBVIOUS
<1>4. m \in S
  <2> SUFFICES ASSUME m \notin S PROVE FALSE
    OBVIOUS
  <2>1. \A x \in S : x <= m - 1
    BY <1>3
  <2>2. m - 1 \in Nat
    <3>1. PICK x \in S : TRUE
      OBVIOUS
    <3>2. x \in 1..n /\ x <= m
      BY <1>3
    <3> QED
      BY <1>3, <3>2
  <2>3. m - 1 \in Above
    BY <2>1, <2>2
  <2> QED
    BY <1>2, <1>3, <2>3
<1> QED
  BY <1>3, <1>4 DEF HasMax

(* Appending keeps the lines before.                                       *)
LEMMA MoreLines ==
  ASSUME NEW T, NEW s \in Seq(T), NEW l \in T
  PROVE  /\ Append(s, l) \in Seq(T) /\ Len(s) \in Nat /\ Len(Append(s, l)) = Len(s) + 1
         /\ DOMAIN s = 1..Len(s) /\ DOMAIN Append(s, l) = 1..(Len(s) + 1)
         /\ \A i \in 1..Len(s) : Append(s, l)[i] = s[i] /\ s[i] \in T
         /\ Append(s, l)[Len(s) + 1] = l
  OBVIOUS

Outputs(lines, m) ==
  {0} \union {lines[i].out : i \in {j \in DOMAIN lines : ~IsTotal(lines[j]) /\ lines[j].of = m}}

(* The outputs a message had, one record further.                          *)
LEMMA OutputsGrow ==
  ASSUME NEW s \in Seq(Records), NEW l \in Records, NEW m
  PROVE  /\ ~IsTotal(l) /\ l.of = m => Outputs(Append(s, l), m) = Outputs(s, m) \union {l.out}
         /\ ~(~IsTotal(l) /\ l.of = m) => Outputs(Append(s, l), m) = Outputs(s, m)
<1> DEFINE more == Append(s, l)
           n == Len(s)
           new == IF ~IsTotal(l) /\ l.of = m THEN {l.out} ELSE {}
<1>1. /\ n \in Nat /\ DOMAIN s = 1..n /\ DOMAIN more = 1..(n + 1)
      /\ \A i \in 1..n : more[i] = s[i]
      /\ more[n + 1] = l
  BY MoreLines
<1> HIDE DEF more, n
<1>2. \A i \in 1..(n + 1) : i \in 1..n \/ i = n + 1
  BY <1>1
<1>3. \A i \in 1..n : i \in 1..(n + 1)
  BY <1>1
<1>4. n + 1 \in 1..(n + 1)
  BY <1>1
<1>5. \A z : z \in Outputs(s, m) <=>
        z = 0 \/ \E j \in 1..n : ~IsTotal(s[j]) /\ s[j].of = m /\ z = s[j].out
  BY <1>1, Zenon DEF Outputs
<1>6. \A z : z \in Outputs(more, m) <=>
        z = 0 \/ \E j \in 1..(n + 1) : ~IsTotal(more[j]) /\ more[j].of = m /\ z = more[j].out
  BY <1>1, Zenon DEF Outputs
<1>7. \A z : z \in new <=> ~IsTotal(l) /\ l.of = m /\ z = l.out
  OBVIOUS
<1> HIDE DEF new
<1>8. ASSUME NEW z PROVE z \in Outputs(more, m) <=> z \in Outputs(s, m) \/ z \in new
  <2>1. ASSUME z \in Outputs(more, m) PROVE z \in Outputs(s, m) \/ z \in new
    <3>1. CASE z = 0
      BY <1>5, <3>1, Zenon
    <3>2. CASE z # 0
      <4>1. PICK j \in 1..(n + 1) : ~IsTotal(more[j]) /\ more[j].of = m /\ z = more[j].out
        BY <1>6, <2>1, <3>2, Zenon
      <4>2. CASE j \in 1..n
        <5>1. more[j] = s[j]
          BY <1>1, <4>2
        <5> QED
          BY <1>5, <4>1, <4>2, <5>1, Zenon
      <4>3. CASE j = n + 1
        BY <1>1, <1>7, <4>1, <4>3, Zenon
      <4> QED
        BY <1>2, <4>2, <4>3, Zenon
    <3> QED
      BY <3>1, <3>2, Zenon
  <2>2. ASSUME z \in Outputs(s, m) PROVE z \in Outputs(more, m)
    <3>1. CASE z = 0
      BY <1>6, <3>1, Zenon
    <3>2. CASE z # 0
      <4>1. PICK j \in 1..n : ~IsTotal(s[j]) /\ s[j].of = m /\ z = s[j].out
        BY <1>5, <2>2, <3>2, Zenon
      <4>2. more[j] = s[j] /\ j \in 1..(n + 1)
        BY <1>1, <1>3
      <4> QED
        BY <1>6, <4>1, <4>2, Zenon
    <3> QED
      BY <3>1, <3>2, Zenon
  <2>3. ASSUME z \in new PROVE z \in Outputs(more, m)
    BY <1>1, <1>4, <1>6, <1>7, <2>3, Zenon
  <2> QED
    BY <2>1, <2>2, <2>3
<1>9. Outputs(more, m) = Outputs(s, m) \union new
  BY <1>8
<1> QED
  BY <1>9 DEF more, new

(* Of numbers, one is the largest.                                         *)
LEMMA OutputsHaveMax ==
  ASSUME NEW s \in Seq(Records), NEW m
  PROVE  Outputs(s, m) \in SUBSET Nat /\ HasMax(Outputs(s, m))
<1> DEFINE S == {q \in Seq(Records) : Outputs(q, m) \in SUBSET Nat /\ HasMax(Outputs(q, m))}
<1>1. <<>> \in S
  <2>1. Outputs(<<>>, m) = {0}
    BY DEF Outputs
  <2>2. HasMax({0}) /\ {0} \in SUBSET Nat /\ <<>> \in Seq(Records)
    BY DEF HasMax
  <2> QED
    BY <2>1, <2>2, Zenon
<1>2. ASSUME NEW q \in Seq(Records), NEW l \in Records, q \in S
      PROVE  Append(q, l) \in S
  <2>1. Outputs(q, m) \in SUBSET Nat /\ HasMax(Outputs(q, m))
    BY <1>2
  <2>2. Append(q, l) \in Seq(Records)
    OBVIOUS
  <2>3. CASE ~IsTotal(l) /\ l.of = m
    <3>1. l.out \in Nat
      BY <2>3, RecordFields
    <3>2. Outputs(Append(q, l), m) = Outputs(q, m) \union {l.out}
      BY <2>3, OutputsGrow
    <3>3. HasMax(Outputs(q, m) \union {l.out})
      BY <2>1, <3>1, MaxWith
    <3> QED
      BY <2>1, <2>2, <3>1, <3>2, <3>3
  <2>4. CASE ~(~IsTotal(l) /\ l.of = m)
    <3>1. Outputs(Append(q, l), m) = Outputs(q, m)
      BY <2>4, OutputsGrow
    <3> QED
      BY <2>1, <2>2, <3>1
  <2> QED
    BY <2>3, <2>4
<1> HIDE DEF S
<1>3. \A q \in Seq(Records) : q \in S
  BY <1>1, <1>2, SequenceInduction
<1> QED
  BY <1>3 DEF S

(* What a message has come to, one record further.                         *)
LEMMA LargestGrows ==
  ASSUME NEW s \in Seq(Records), NEW l \in Records, NEW m
  PROVE  /\ Largest(s, m) \in Nat
         /\ Largest(Append(s, l), m) =
              IF ~IsTotal(l) /\ l.of = m /\ l.out >= Largest(s, m) THEN l.out ELSE Largest(s, m)
<1>1. Outputs(s, m) \in SUBSET Nat /\ HasMax(Outputs(s, m))
  BY OutputsHaveMax
<1>2. \A q : Largest(q, m) = Max(Outputs(q, m))
  BY DEF Largest, Outputs
<1>3. Largest(s, m) \in Nat
  BY <1>1, <1>2, MaxOf
<1>4. CASE ~IsTotal(l) /\ l.of = m
  <2>1. l.out \in Nat
    BY <1>4, RecordFields
  <2>2. Outputs(Append(s, l), m) = Outputs(s, m) \union {l.out}
    BY <1>4, OutputsGrow
  <2>3. Max(Outputs(s, m) \union {l.out})
          = IF l.out >= Max(Outputs(s, m)) THEN l.out ELSE Max(Outputs(s, m))
    <3>1. Outputs(s, m) \in SUBSET Int /\ l.out \in Int
      BY <1>1, <2>1
    <3> QED
      BY <1>1, <3>1, MaxWith, Zenon
  <2> QED
    BY <1>2, <1>3, <1>4, <2>2, <2>3
<1>5. CASE ~(~IsTotal(l) /\ l.of = m)
  <2>1. Outputs(Append(s, l), m) = Outputs(s, m)
    BY <1>5, OutputsGrow
  <2> QED
    BY <1>2, <1>3, <1>5, <2>1
<1> QED
  BY <1>4, <1>5

(* The running total: of another transcript that agrees so far, and one    *)
(* record further.                                                         *)
LEMMA SumAgrees ==
  ASSUME NEW n \in Nat, NEW s, NEW q, \A i \in 1..n : q[i] = s[i]
  PROVE  SumAt(q, n) = SumAt(s, n)
<1> DEFINE T(w) == {i \in 1..n : IsTotal(w[i])}
<1>1. T(q) = T(s)
  OBVIOUS
<1>2. T(s) # {} => Max(T(s)) \in T(s)
  <2>1. T(s) \in SUBSET (1..n) /\ T(s) \in SUBSET Int
    OBVIOUS
  <2> HIDE DEF T
  <2> QED
    BY <2>1, RangeHasMax, MaxOf
<1>3. T(s) # {} => q[Max(T(s))] = s[Max(T(s))]
  BY <1>2
<1>4. \A w : SumAt(w, n) = IF T(w) = {} THEN NoSum ELSE NextSum(NoSum, w[Max(T(w))])
  BY DEF SumAt
<1> HIDE DEF T
<1> QED
  BY <1>1, <1>3, <1>4

(* A running total is that of the last record that has one.                *)
LEMMA SumMoves ==
  ASSUME NEW n \in Nat, NEW s
  PROVE  SumAt(s, n + 1) = IF IsTotal(s[n + 1]) THEN NextSum(NoSum, s[n + 1]) ELSE SumAt(s, n)
<1> DEFINE T(k) == {i \in 1..k : IsTotal(s[i])}
<1>1. \A k : SumAt(s, k) = IF T(k) = {} THEN NoSum ELSE NextSum(NoSum, s[Max(T(k))])
  BY DEF SumAt
<1>2. CASE IsTotal(s[n + 1])
  <2>1. /\ T(n + 1) \in SUBSET Int /\ n + 1 \in T(n + 1)
        /\ \A y \in T(n + 1) : y <= n + 1
    BY <1>2
  <2> HIDE DEF T
  <2>2. Max(T(n + 1)) = n + 1
    BY <2>1, MaxIs
  <2> QED
    BY <1>1, <1>2, <2>1, <2>2
<1>3. CASE ~IsTotal(s[n + 1])
  <2>1. T(n + 1) = T(n)
    BY <1>3
  <2> HIDE DEF T
  <2> QED
    BY <1>1, <1>3, <2>1
<1> QED
  BY <1>2, <1>3

Sums == [known : BOOLEAN, total : Nat, at : Nat]

(* A running total is a sum, and what is added to it a number.             *)
LEMMA SumTypes ==
  /\ NoSum \in Sums
  /\ \A l \in Records : \A sum : IsTotal(l) => NextSum(sum, l) \in Sums
  /\ \A l \in Records : \A sum \in Sums : IsTotal(l) => SumGrowth(sum, l) \in Nat
<1>1. NoSum \in Sums
  BY DEF NoSum, Sums
<1>2. ASSUME NEW l \in Records, NEW sum, IsTotal(l)
      PROVE  NextSum(sum, l) \in Sums
  BY <1>2, RecordFields DEF NextSum, Sums
<1>3. ASSUME NEW l \in Records, NEW sum \in Sums, IsTotal(l)
      PROVE  SumGrowth(sum, l) \in Nat
  <2>1. l.total \in Nat /\ sum.total \in Nat
    BY <1>3, RecordFields DEF Sums
  <2>2. SumGrowth(sum, l) = 0 \/ (l.total > sum.total /\ SumGrowth(sum, l) = l.total - sum.total)
    BY DEF SumGrowth
  <2> QED
    BY <2>1, <2>2
<1> QED
  BY <1>1, <1>2, <1>3

(* Wherever it is read.                                                    *)
LEMMA SumAtType ==
  ASSUME NEW s \in Seq(Records)
  PROVE  \A n \in Nat : n <= Len(s) => SumAt(s, n) \in Sums
<1> DEFINE S == {n \in Nat : n <= Len(s) => SumAt(s, n) \in Sums}
<1>1. 0 \in S
  <2>1. {i \in 1..0 : IsTotal(s[i])} = {}
    OBVIOUS
  <2>2. SumAt(s, 0) = NoSum
    BY <2>1, Zenon DEF SumAt
  <2> QED
    BY <2>2, SumTypes
<1>2. ASSUME NEW n \in Nat, n \in S
      PROVE  n + 1 \in S
  <2> SUFFICES ASSUME n + 1 <= Len(s) PROVE SumAt(s, n + 1) \in Sums
    OBVIOUS
  <2>1. s[n + 1] \in Records /\ n <= Len(s)
    OBVIOUS
  <2>2. SumAt(s, n) \in Sums
    BY <1>2, <2>1
  <2> QED
    BY <2>1, <2>2, SumMoves, SumTypes
<1> HIDE DEF S
<1>3. \A n \in Nat : n \in S
  BY <1>1, <1>2, SetInduction
<1> QED
  BY <1>3 DEF S

LargestOf(lines) == [m \in Messages |-> Largest(lines, m)]
AddedOf(lines) == [i \in DOMAIN lines |-> AddedBy(lines, i)]
IsProduced(lines) == IsSum(LargestOf(lines)) /\ IsSum(AddedOf(lines))

(* What a record adds to what its transcript produced.                     *)
Adds(lines, l) ==
  IF IsTotal(l) THEN SumGrowth(SumAt(lines, Len(lines)), l)
  ELSE IF l.out >= Largest(lines, l.of) THEN l.out - Largest(lines, l.of) ELSE 0

(* It is a number.                                                         *)
LEMMA AddsNumber ==
  ASSUME NEW s \in Seq(Records), NEW l \in Records
  PROVE  Adds(s, l) \in Nat
<1>1. CASE IsTotal(l)
  <2>1. SumAt(s, Len(s)) \in Sums
    BY SumAtType
  <2> QED
    BY <1>1, <2>1, SumTypes DEF Adds
<1>2. CASE ~IsTotal(l)
  <2>1. l.out \in Nat /\ Largest(s, l.of) \in Nat
    BY <1>2, RecordFields, LargestGrows
  <2> QED
    BY <1>2, <2>1 DEF Adds
<1> QED
  BY <1>1, <1>2

(* The messages' part.                                                     *)
LEMMA LargestSumGrows ==
  ASSUME NEW s \in Seq(Records), NEW l \in Records, IsSum(LargestOf(s))
  PROVE  /\ IsSum(LargestOf(Append(s, l))) /\ SumOf(LargestOf(s)) \in Nat
         /\ SumOf(LargestOf(Append(s, l)))
              = SumOf(LargestOf(s)) + (IF IsTotal(l) THEN 0 ELSE Adds(s, l))
<1> DEFINE f == LargestOf(s)
           g == LargestOf(Append(s, l))
<1>1. SumOf(f) \in Nat
  BY FS_CardinalityType, InUnits DEF IsSum
<1>2. \A m \in Messages : /\ Largest(s, m) \in Nat
                          /\ Largest(Append(s, l), m) =
                               IF ~IsTotal(l) /\ l.of = m /\ l.out >= Largest(s, m)
                               THEN l.out ELSE Largest(s, m)
  BY LargestGrows
<1>3. CASE IsTotal(l)
  <2>1. f = g
    BY <1>2, <1>3 DEF LargestOf
  <2> HIDE DEF f, g
  <2>2. IsSum(g) /\ SumOf(g) = SumOf(f) + 0
    <3>1. SumOf(g) = SumOf(f)
      BY <2>1
    <3> QED
      BY <1>1, <2>1, <3>1 DEF f
  <2> QED
    BY <1>1, <1>3, <2>2 DEF f, g
<1>4. CASE ~IsTotal(l)
  <2> DEFINE a == l.of
             u == Largest(s, a)
             v == IF l.out >= u THEN l.out ELSE u
  <2>1. a \in Messages /\ l.out \in Nat
    BY <1>4, RecordFields
  <2>2. u \in Nat /\ v \in Nat /\ u <= v
    BY <1>2, <2>1
  <2>3. DOMAIN f = Messages /\ DOMAIN g = Messages
    BY DEF LargestOf
  <2>4. \A m \in Messages : f[m] = Largest(s, m) /\ g[m] = Largest(Append(s, l), m)
    BY DEF LargestOf
  <2>5. \A m \in Messages : m # a => g[m] = f[m]
    BY <1>2, <2>4
  <2>6. f[a] = u /\ g[a] = v
    BY <1>2, <1>4, <2>1, <2>4
  <2> HIDE DEF a, u, v, f, g
  <2>7. Grows(f, g, a, u, v)
    BY <2>1, <2>2, <2>3, <2>5, <2>6 DEF Grows
  <2>8. IsSum(f)
    BY DEF f
  <2>9. IsSum(g) /\ SumOf(g) = SumOf(f) + (v - u)
    BY <2>2, <2>7, <2>8, SumGrows
  <2>10. Adds(s, l) = v - u
    BY <1>4, <2>1, <2>2 DEF Adds, u, v, a
  <2> QED
    BY <1>1, <1>4, <2>9, <2>10 DEF f, g
<1> QED
  BY <1>3, <1>4

(* The running totals' part.                                               *)
LEMMA AddedSumGrows ==
  ASSUME NEW s \in Seq(Records), NEW l \in Records, IsSum(AddedOf(s))
  PROVE  /\ IsSum(AddedOf(Append(s, l))) /\ SumOf(AddedOf(s)) \in Nat
         /\ SumOf(AddedOf(Append(s, l)))
              = SumOf(AddedOf(s)) + (IF IsTotal(l) THEN Adds(s, l) ELSE 0)
<1> DEFINE f == AddedOf(s)
           more == Append(s, l)
           g == AddedOf(more)
           n == Len(s)
           v == AddedBy(more, n + 1)
<1>1. SumOf(f) \in Nat
  BY FS_CardinalityType, InUnits DEF IsSum
<1>2. /\ n \in Nat /\ DOMAIN s = 1..n /\ DOMAIN more = 1..(n + 1)
      /\ \A i \in 1..n : more[i] = s[i]
      /\ more[n + 1] = l
  BY MoreLines
<1>3. \A i \in 1..n : AddedBy(more, i) = AddedBy(s, i)
  <2> SUFFICES ASSUME NEW i \in 1..n PROVE AddedBy(more, i) = AddedBy(s, i)
    OBVIOUS
  <2>1. i - 1 \in Nat /\ \A j \in 1..(i - 1) : j \in 1..n
    BY <1>2
  <2> HIDE DEF more, n
  <2>2. SumAt(more, i - 1) = SumAt(s, i - 1)
    BY <1>2, <2>1, SumAgrees
  <2> QED
    BY <1>2, <2>2 DEF AddedBy
<1>4. v = IF IsTotal(l) THEN Adds(s, l) ELSE 0
  <2> HIDE DEF more
  <2>1. (n + 1) - 1 = n
    BY <1>2
  <2>2. SumAt(more, n) = SumAt(s, n)
    BY <1>2, SumAgrees
  <2> QED
    BY <1>2, <2>1, <2>2 DEF AddedBy, Adds
<1>5. v \in Nat
  BY <1>4, AddsNumber
<1>6. /\ DOMAIN f = 1..n /\ DOMAIN g = 1..(n + 1)
      /\ \A i \in 1..n : f[i] = AddedBy(s, i)
      /\ \A i \in 1..(n + 1) : g[i] = AddedBy(more, i)
  BY <1>2 DEF AddedOf
<1>7. 1..(n + 1) = (1..n) \union {n + 1} /\ n + 1 \notin 1..n /\ n + 1 \in 1..(n + 1)
  BY <1>2
<1>8. IsSum(f)
  OBVIOUS
<1> HIDE DEF f, g, n, v, more
<1>9. Grows(f, g, n + 1, 0, v)
  <2>1. \A i \in DOMAIN f : g[i] = f[i]
    BY <1>3, <1>6, <1>7
  <2>2. g[n + 1] = v
    BY <1>6, <1>7 DEF v
  <2> QED
    BY <1>5, <1>6, <1>7, <2>1, <2>2 DEF Grows
<1>10. IsSum(g) /\ SumOf(g) = SumOf(f) + (v - 0)
  BY <1>5, <1>8, <1>9, SumGrows
<1> QED
  BY <1>1, <1>4, <1>5, <1>10 DEF f, g, more

(* Both.                                                                   *)
LEMMA ProducedGrows ==
  ASSUME NEW s \in Seq(Records), NEW l \in Records, IsProduced(s)
  PROVE  /\ IsProduced(Append(s, l)) /\ Produced(s) \in Nat
         /\ Produced(Append(s, l)) = Produced(s) + Adds(s, l)
<1>1. \A q : Produced(q) = SumOf(LargestOf(q)) + SumOf(AddedOf(q))
  BY DEF Produced, LargestOf, AddedOf
<1>2. /\ IsSum(LargestOf(Append(s, l))) /\ SumOf(LargestOf(s)) \in Nat
      /\ SumOf(LargestOf(Append(s, l)))
              = SumOf(LargestOf(s)) + (IF IsTotal(l) THEN 0 ELSE Adds(s, l))
  BY LargestSumGrows DEF IsProduced
<1>3. /\ IsSum(AddedOf(Append(s, l))) /\ SumOf(AddedOf(s)) \in Nat
      /\ SumOf(AddedOf(Append(s, l)))
              = SumOf(AddedOf(s)) + (IF IsTotal(l) THEN Adds(s, l) ELSE 0)
  BY AddedSumGrows DEF IsProduced
<1>4. Adds(s, l) \in Nat
  BY AddsNumber
<1> QED
  BY <1>1, <1>2, <1>3, <1>4 DEF IsProduced

(* Nothing was produced before the first record, and something countable   *)
(* ever after.                                                             *)
LEMMA ProducedIsNumber ==
  /\ Produced(<<>>) = 0
  /\ \A s \in Seq(Records) : IsProduced(s) /\ Produced(s) \in Nat
<1>1. IsProduced(<<>>) /\ Produced(<<>>) = 0
  <2>1. \A m : Largest(<<>>, m) = 0
    <3>1. \A m : Outputs(<<>>, m) = {0} /\ Largest(<<>>, m) = Max(Outputs(<<>>, m))
      BY DEF Outputs, Largest
    <3>2. Max({0}) = 0
      <4>1. {0} \in SUBSET Int /\ 0 \in {0} /\ \A y \in {0} : y <= 0
        OBVIOUS
      <4> QED
        BY <4>1, MaxIs
    <3> QED
      BY <3>1, <3>2
  <2>2. \A x \in DOMAIN LargestOf(<<>>) : LargestOf(<<>>)[x] = 0
    BY <2>1 DEF LargestOf
  <2>3. \A x \in DOMAIN AddedOf(<<>>) : AddedOf(<<>>)[x] = 0
    BY DEF AddedOf
  <2>4. IsSum(LargestOf(<<>>)) /\ SumOf(LargestOf(<<>>)) = 0
    BY <2>2, SumOfNone
  <2>5. IsSum(AddedOf(<<>>)) /\ SumOf(AddedOf(<<>>)) = 0
    BY <2>3, SumOfNone
  <2>6. Produced(<<>>) = SumOf(LargestOf(<<>>)) + SumOf(AddedOf(<<>>))
    BY DEF Produced, LargestOf, AddedOf
  <2> QED
    BY <2>4, <2>5, <2>6 DEF IsProduced
<1> DEFINE S == {s \in Seq(Records) : IsProduced(s)}
<1>2. \A s \in Seq(Records) : s \in S
  <2>1. <<>> \in S
    BY <1>1
  <2>2. \A s \in Seq(Records) : \A l \in Records : s \in S => Append(s, l) \in S
    BY ProducedGrows
  <2> HIDE DEF S
  <2> QED
    BY <2>1, <2>2, SequenceInduction
<1>3. ASSUME NEW s \in Seq(Records)
      PROVE  Produced(s) \in Nat
  <2>1. IsSum(LargestOf(s)) /\ IsSum(AddedOf(s))
    BY <1>2 DEF IsProduced
  <2>2. SumOf(LargestOf(s)) \in Nat /\ SumOf(AddedOf(s)) \in Nat
    BY <2>1, InUnits, FS_CardinalityType DEF IsSum
  <2>3. Produced(s) = SumOf(LargestOf(s)) + SumOf(AddedOf(s))
    BY DEF Produced, LargestOf, AddedOf
  <2> QED
    BY <2>2, <2>3
<1> QED
  BY <1>1, <1>2, <1>3

(***************************************************************************)
(* UsageTail: the messages a reader remembers.                             *)
(***************************************************************************)
Pairs == [of : Messages, out : Nat]

(* Each message has one place.                                             *)
IsMemory(seen) ==
  /\ seen \in Seq(Pairs)
  /\ \A i, j \in DOMAIN seen : seen[i].of = seen[j].of => i = j

(* The output of a message that is remembered.                             *)
LEMMA OutputFacts ==
  ASSUME NEW seen, IsMemory(seen), NEW m
  PROVE  /\ \A i \in DOMAIN seen : seen[i].of = m => OutputOf(seen, m) = seen[i].out
         /\ (\A i \in DOMAIN seen : seen[i].of # m) => OutputOf(seen, m) = 0
         /\ OutputOf(seen, m) \in Nat
<1> DEFINE S == {0} \union {pair.out : pair \in {p \in ToSet(seen) : p.of = m}}
<1>1. \A z : z \in S <=> z = 0 \/ \E i \in DOMAIN seen : seen[i].of = m /\ z = seen[i].out
  BY DEF ToSet
<1>2. OutputOf(seen, m) = Max(S)
  BY DEF OutputOf
<1> HIDE DEF S
<1>3. \A i \in DOMAIN seen : seen[i] \in Pairs
  BY DEF IsMemory
<1>4. ASSUME NEW i \in DOMAIN seen, seen[i].of = m
      PROVE  OutputOf(seen, m) = seen[i].out /\ seen[i].out \in Nat
  <2>1. seen[i].out \in Nat
    BY <1>3 DEF Pairs
  <2>2. \A z : z \in S <=> z = 0 \/ z = seen[i].out
    BY <1>1, <1>4 DEF IsMemory
  <2>3. S \in SUBSET Int /\ seen[i].out \in S /\ \A y \in S : y <= seen[i].out
    BY <2>1, <2>2
  <2>4. Max(S) = seen[i].out
    BY <2>3, MaxIs
  <2> QED
    BY <1>2, <2>1, <2>4
<1>5. ASSUME \A i \in DOMAIN seen : seen[i].of # m
      PROVE  OutputOf(seen, m) = 0
  <2>1. S \in SUBSET Int /\ 0 \in S /\ \A y \in S : y <= 0
    BY <1>1, <1>5
  <2>2. Max(S) = 0
    BY <2>1, MaxIs
  <2> QED
    BY <1>2, <2>2
<1> QED
  BY <1>4, <1>5

(* What is left of a sequence without one of its elements.                 *)
LEMMA RemovedPlaces ==
  ASSUME NEW T, NEW s \in Seq(T), NEW k \in DOMAIN s
  PROVE  /\ RemoveAt(s, k) \in Seq(T) /\ Len(s) \in Nat \ {0}
         /\ DOMAIN RemoveAt(s, k) = 1..(Len(s) - 1)
         /\ \A i \in 1..(Len(s) - 1) :
              RemoveAt(s, k)[i] = IF i < k THEN s[i] ELSE s[i + 1]
<1> DEFINE n == Len(s)
           a == SubSeq(s, 1, k - 1)
           b == SubSeq(s, k + 1, n)
<1>1. n \in Nat /\ k \in 1..n /\ DOMAIN s = 1..n
  OBVIOUS
<1>2. /\ a \in Seq(T) /\ Len(a) = k - 1 /\ \A i \in 1..(k - 1) : a[i] = s[i]
  BY <1>1
<1>3. /\ b \in Seq(T) /\ Len(b) = n - k /\ \A i \in 1..(n - k) : b[i] = s[k + i]
  BY <1>1
<1> HIDE DEF a, b, n
<1>4. RemoveAt(s, k) = a \o b
  BY DEF RemoveAt, a, b, n
<1>5. a \o b \in Seq(T) /\ DOMAIN (a \o b) = 1..(n - 1)
  <2>1. \A p, q \in Seq(T) : p \o q \in Seq(T) /\ DOMAIN (p \o q) = 1..(Len(p) + Len(q))
    BY Z3
  <2>2. Len(a) + Len(b) = n - 1
    BY <1>1, <1>2, <1>3
  <2>3. a \o b \in Seq(T) /\ DOMAIN (a \o b) = 1..(Len(a) + Len(b))
    BY <1>2, <1>3, <2>1, Zenon
  <2> QED
    BY <2>2, <2>3, Zenon
<1>6. ASSUME NEW i \in 1..(n - 1)
      PROVE  (a \o b)[i] = IF i < k THEN s[i] ELSE s[i + 1]
  <2>1. CASE i < k
    <3>1. i \in 1..(k - 1) /\ i \in 1..Len(a)
      BY <1>1, <1>2, <2>1
    <3> QED
      BY <1>2, <1>3, <2>1, <3>1
  <2>2. CASE ~(i < k)
    <3>1. i - (k - 1) \in 1..(n - k) /\ k + (i - (k - 1)) = i + 1 /\ ~(i <= Len(a))
      BY <1>1, <1>2, <2>2
    <3>2. (a \o b)[i] = b[i - (k - 1)]
      BY <1>1, <1>2, <1>3, <2>2, <3>1
    <3> QED
      BY <1>3, <2>2, <3>1, <3>2
  <2> QED
    BY <2>1, <2>2
<1>7. n \in Nat \ {0}
  BY <1>1
<1> QED
  BY <1>4, <1>5, <1>6, <1>7, Zenon DEF n

(* A message is taken out of the memory, and no other.                     *)
LEMMA OthersFacts ==
  ASSUME NEW seen, IsMemory(seen), NEW a
  PROVE  /\ IsMemory(Others(seen, a))
         /\ \A i \in DOMAIN Others(seen, a) : Others(seen, a)[i].of # a
         /\ \A i \in DOMAIN Others(seen, a) : \E j \in DOMAIN seen : Others(seen, a)[i] = seen[j]
         /\ \A j \in DOMAIN seen : seen[j].of # a => \E i \in DOMAIN Others(seen, a) : Others(seen, a)[i] = seen[j]
<1>1. CASE ~ \E i \in DOMAIN seen : seen[i].of = a
  BY <1>1 DEF Others
<1>2. CASE \E i \in DOMAIN seen : seen[i].of = a
  <2> DEFINE k == CHOOSE i \in DOMAIN seen : seen[i].of = a
             rest == RemoveAt(seen, k)
             n == Len(seen)
  <2>1. k \in DOMAIN seen /\ seen[k].of = a
    BY <1>2
  <2>2. Others(seen, a) = rest
    BY <1>2 DEF Others
  <2> HIDE DEF k
  <2>3. seen \in Seq(Pairs) /\ \A i, j \in DOMAIN seen : seen[i].of = seen[j].of => i = j
    BY DEF IsMemory
  <2>4. /\ rest \in Seq(Pairs) /\ n \in Nat \ {0} /\ DOMAIN rest = 1..(n - 1)
        /\ \A i \in 1..(n - 1) : rest[i] = IF i < k THEN seen[i] ELSE seen[i + 1]
    BY <2>1, <2>3, RemovedPlaces
  <2>5. DOMAIN seen = 1..n /\ k \in 1..n
    BY <2>1, <2>3
  <2> HIDE DEF rest, n
  <2> DEFINE at(i) == IF i < k THEN i ELSE i + 1
  <2>6. \A i \in 1..(n - 1) : at(i) \in 1..n /\ at(i) # k /\ rest[i] = seen[at(i)]
    BY <2>4, <2>5
  <2>7. \A i, j \in 1..(n - 1) : at(i) = at(j) => i = j
    BY <2>4, <2>5
  <2>8. \A j \in 1..n : j # k => \E i \in 1..(n - 1) : at(i) = j
    <3> SUFFICES ASSUME NEW j \in 1..n, j # k PROVE \E i \in 1..(n - 1) : at(i) = j
      OBVIOUS
    <3>1. CASE j < k
      <4>1. j \in 1..(n - 1) /\ at(j) = j
        BY <2>4, <2>5, <3>1
      <4> QED
        BY <4>1
    <3>2. CASE j > k
      <4>1. j - 1 \in 1..(n - 1) /\ at(j - 1) = j
        BY <2>4, <2>5, <3>2
      <4> QED
        BY <4>1
    <3> QED
      BY <2>4, <2>5, <3>1, <3>2
  <2> HIDE DEF at
  <2>9. IsMemory(rest)
    <3>1. ASSUME NEW i \in 1..(n - 1), NEW j \in 1..(n - 1), rest[i].of = rest[j].of
          PROVE  i = j
      <4>1. at(i) = at(j)
        BY <2>3, <2>5, <2>6, <3>1
      <4> QED
        BY <2>7, <4>1
    <3> QED
      BY <2>4, <3>1 DEF IsMemory
  <2>10. \A i \in DOMAIN rest : rest[i].of # a
    BY <2>1, <2>3, <2>4, <2>5, <2>6
  <2>11. \A i \in DOMAIN rest : \E j \in DOMAIN seen : rest[i] = seen[j]
    BY <2>4, <2>5, <2>6
  <2>12. \A j \in DOMAIN seen : seen[j].of # a => \E i \in DOMAIN rest : rest[i] = seen[j]
    BY <2>1, <2>4, <2>5, <2>6, <2>8
  <2> QED
    BY <2>2, <2>9, <2>10, <2>11, <2>12
<1> QED
  BY <1>1, <1>2

(* A message that is seen again moves to the end with the larger output.   *)
LEMMA MovedFacts ==
  ASSUME NEW seen, IsMemory(seen), NEW l \in Records, ~IsTotal(l)
  PROVE  /\ IsMemory(Moved(seen, l))
         /\ \A m : OutputOf(Moved(seen, l), m) =
              IF m = l.of /\ l.out >= OutputOf(seen, m) THEN l.out ELSE OutputOf(seen, m)
<1> DEFINE a == l.of
           out == IF l.out >= OutputOf(seen, a) THEN l.out ELSE OutputOf(seen, a)
           rest == Others(seen, a)
           pair == [of |-> a, out |-> out]
           new == Append(rest, pair)
           n == Len(rest)
<1>1. a \in Messages /\ l.out \in Nat /\ OutputOf(seen, a) \in Nat
  BY RecordFields, OutputFacts
<1>2. Max({l.out, OutputOf(seen, a)}) = out
  BY <1>1, Larger
<1>3. Moved(seen, l) = new
  BY <1>2, Zenon DEF Moved
<1>4. out \in Nat
  BY <1>1
<1> HIDE DEF a, out
<1>5. pair \in Pairs /\ pair.of = a /\ pair.out = out
  BY <1>1, <1>4 DEF Pairs
<1> HIDE DEF pair
<1>6. /\ IsMemory(rest)
      /\ \A i \in DOMAIN rest : rest[i].of # a
      /\ \A i \in DOMAIN rest : \E j \in DOMAIN seen : rest[i] = seen[j]
      /\ \A j \in DOMAIN seen : seen[j].of # a => \E i \in DOMAIN rest : rest[i] = seen[j]
  BY OthersFacts
<1> HIDE DEF rest
<1>7. /\ new \in Seq(Pairs) /\ n \in Nat /\ DOMAIN rest = 1..n /\ DOMAIN new = 1..(n + 1)
      /\ \A i \in 1..n : new[i] = rest[i]
      /\ new[n + 1] = pair
  <2>1. rest \in Seq(Pairs)
    BY <1>6 DEF IsMemory
  <2> QED
    BY <1>5, <2>1, MoreLines
<1> HIDE DEF new, n
<1>8. \A i \in 1..(n + 1) : i \in 1..n \/ i = n + 1
  BY <1>7
<1>9. IsMemory(new)
  <2>1. ASSUME NEW i \in 1..(n + 1), NEW j \in 1..(n + 1), new[i].of = new[j].of
        PROVE  i = j
    <3>1. CASE i \in 1..n /\ j \in 1..n
      BY <1>6, <1>7, <2>1, <3>1 DEF IsMemory
    <3>2. CASE i = n + 1 /\ j \in 1..n
      BY <1>5, <1>6, <1>7, <2>1, <3>2
    <3>3. CASE i \in 1..n /\ j = n + 1
      BY <1>5, <1>6, <1>7, <2>1, <3>3
    <3> QED
      BY <1>8, <3>1, <3>2, <3>3
  <2> QED
    BY <1>7, <2>1 DEF IsMemory
<1>10. n + 1 \in 1..(n + 1) /\ \A i \in 1..n : i \in 1..(n + 1)
  BY <1>7
<1>11. ASSUME NEW m
       PROVE  OutputOf(new, m) = IF m = a THEN out ELSE OutputOf(seen, m)
  <2>1. CASE m = a
    BY <1>5, <1>7, <1>9, <1>10, <2>1, OutputFacts
  <2>2. CASE m # a
    <3>1. CASE \E j \in DOMAIN seen : seen[j].of = m
      <4>1. PICK j \in DOMAIN seen : seen[j].of = m
        BY <3>1
      <4>2. PICK i \in DOMAIN rest : rest[i] = seen[j]
        BY <1>6, <2>2, <4>1
      <4>3. i \in DOMAIN new /\ new[i] = seen[j]
        BY <1>7, <1>10, <4>2
      <4>4. OutputOf(seen, m) = seen[j].out
        BY <4>1, OutputFacts
      <4>5. OutputOf(new, m) = new[i].out
        BY <1>9, <4>1, <4>3, OutputFacts
      <4> QED
        BY <2>2, <4>3, <4>4, <4>5
    <3>2. CASE \A j \in DOMAIN seen : seen[j].of # m
      <4>1. \A i \in DOMAIN new : new[i].of # m
        BY <1>5, <1>6, <1>7, <1>8, <2>2, <3>2
      <4>2. OutputOf(seen, m) = 0
        BY <3>2, OutputFacts
      <4>3. OutputOf(new, m) = 0
        BY <1>9, <4>1, OutputFacts
      <4> QED
        BY <2>2, <4>2, <4>3
    <3> QED
      BY <3>1, <3>2
  <2> QED
    BY <2>1, <2>2
<1> QED
  BY <1>3, <1>9, <1>11 DEF a, out

(***************************************************************************)
(* UsageTail: one record after the other.                                  *)
(***************************************************************************)
(* The reader's state after each record.                                   *)
IsPass(g, by, t, lines, n) ==
  g = [i \in 0..n |-> IF i = 0 THEN t ELSE Project(by, g[i - 1], lines[i])]

(* Any number of records can be projected.                                 *)
LEMMA PassExists ==
  ASSUME NEW by, NEW t, NEW lines
  PROVE  \A n \in Nat : \E g : IsPass(g, by, t, lines, n)
<1> DEFINE S == {n \in Nat : \E g : IsPass(g, by, t, lines, n)}
<1>1. 0 \in S
  <2> DEFINE g == [i \in 0..0 |-> t]
  <2>1. IsPass(g, by, t, lines, 0)
    BY DEF IsPass
  <2> QED
    BY <2>1
<1>2. ASSUME NEW n \in Nat, n \in S
      PROVE  n + 1 \in S
  <2>1. PICK g : IsPass(g, by, t, lines, n)
    BY <1>2
  <2> DEFINE h == [i \in 0..(n + 1) |-> IF i = n + 1 THEN Project(by, g[n], lines[n + 1]) ELSE g[i]]
  <2>2. \A i \in 0..n : g[i] = IF i = 0 THEN t ELSE Project(by, g[i - 1], lines[i])
    BY <2>1, Zenon DEF IsPass
  <2>3. ASSUME NEW i \in 0..(n + 1)
        PROVE  h[i] = IF i = 0 THEN t ELSE Project(by, h[i - 1], lines[i])
    <3>1. CASE i = n + 1
      <4>1. n \in 0..(n + 1) /\ n # n + 1 /\ i # 0 /\ i - 1 = n /\ n + 1 \in 0..(n + 1)
        BY <3>1
      <4>2. h[n] = g[n] /\ h[n + 1] = Project(by, g[n], lines[n + 1])
        BY <4>1
      <4> QED
        BY <3>1, <4>1, <4>2
    <3>2. CASE i = 0
      <4>1. 0 \in 0..n /\ 0 # n + 1
        OBVIOUS
      <4> QED
        BY <3>2, <2>2, <4>1
    <3>3. CASE i # 0 /\ i # n + 1
      <4>1. i \in 0..n /\ i - 1 \in 0..(n + 1) /\ i - 1 # n + 1
        BY <3>3
      <4>2. h[i] = g[i] /\ h[i - 1] = g[i - 1]
        BY <4>1, <3>3
      <4> QED
        BY <3>3, <4>1, <4>2, <2>2
    <3> QED
      BY <3>1, <3>2, <3>3
  <2> HIDE DEF h
  <2>4. DOMAIN h = 0..(n + 1) /\ h = [i \in 0..(n + 1) |-> h[i]]
    BY DEF h
  <2>5. h = [i \in 0..(n + 1) |-> IF i = 0 THEN t ELSE Project(by, h[i - 1], lines[i])]
    BY <2>3, <2>4, Zenon
  <2>6. IsPass(h, by, t, lines, n + 1)
    BY <2>5, Zenon DEF IsPass
  <2> QED
    BY <2>6
<1> HIDE DEF S
<1>3. \A n \in Nat : n \in S
  BY <1>1, <1>2, SetInduction
<1> QED
  BY <1>3 DEF S

(* What is projected is the last state.                                    *)
LEMMA ProjectedIsLast ==
  ASSUME NEW by, NEW t, NEW lines, Len(lines) \in Nat
  PROVE  \E g : IsPass(g, by, t, lines, Len(lines)) /\ Projected(by, t, lines) = g[Len(lines)]
<1> DEFINE n == Len(lines)
           f == CHOOSE g : g = [i \in 0..n |-> IF i = 0 THEN t ELSE Project(by, g[i - 1], lines[i])]
<1>1. \E g : g = [i \in 0..n |-> IF i = 0 THEN t ELSE Project(by, g[i - 1], lines[i])]
  <2>1. \E g : IsPass(g, by, t, lines, n)
    BY PassExists
  <2> QED
    BY <2>1, Zenon DEF IsPass
<1>2. f = [i \in 0..n |-> IF i = 0 THEN t ELSE Project(by, f[i - 1], lines[i])]
  BY <1>1, Zenon
<1>3. Projected(by, t, lines) = f[n]
  BY Zenon DEF Projected
<1> QED
  BY <1>2, <1>3, Zenon DEF IsPass

(* Two passes agree as far as their records do.                            *)
LEMMA PassesAgree ==
  ASSUME NEW by, NEW t, NEW lines, NEW more, NEW n \in Nat, NEW m \in Nat, n <= m,
         \A i \in 1..n : more[i] = lines[i],
         NEW g, IsPass(g, by, t, lines, n), NEW h, IsPass(h, by, t, more, m)
  PROVE  \A i \in 0..n : h[i] = g[i]
<1> DEFINE S == {i \in Nat : i <= n => h[i] = g[i]}
<1>1. \A i \in 0..n : g[i] = IF i = 0 THEN t ELSE Project(by, g[i - 1], lines[i])
  BY Zenon DEF IsPass
<1>2. \A i \in 0..m : h[i] = IF i = 0 THEN t ELSE Project(by, h[i - 1], more[i])
  BY Zenon DEF IsPass
<1>3. 0 \in S
  BY <1>1, <1>2
<1>4. ASSUME NEW i \in Nat, i \in S
      PROVE  i + 1 \in S
  <2>1. CASE i + 1 <= n
    <3>1. h[i] = g[i] /\ more[i + 1] = lines[i + 1]
      BY <1>4, <2>1
    <3>2. i + 1 \in 0..n /\ i + 1 \in 0..m /\ i + 1 # 0 /\ (i + 1) - 1 = i
      BY <2>1
    <3>3. g[i + 1] = Project(by, g[(i + 1) - 1], lines[i + 1])
      BY <1>1, <3>2, Zenon
    <3>4. h[i + 1] = Project(by, h[(i + 1) - 1], more[i + 1])
      BY <1>2, <3>2, Zenon
    <3>5. h[i + 1] = g[i + 1]
      BY <3>1, <3>2, <3>3, <3>4
    <3> QED
      BY <3>5
  <2>2. CASE ~(i + 1 <= n)
    BY <2>2
  <2> QED
    BY <2>1, <2>2
<1> HIDE DEF S
<1>5. \A i \in Nat : i \in S
  BY <1>3, <1>4, SetInduction
<1> QED
  BY <1>5 DEF S

(* No record leaves the state alone.                                       *)
LEMMA ProjectedNone ==
  ASSUME NEW by, NEW t
  PROVE  Projected(by, t, <<>>) = t
<1>1. Len(<<>>) = 0 /\ 0 \in Nat
  OBVIOUS
<1>2. PICK g : IsPass(g, by, t, <<>>, 0) /\ Projected(by, t, <<>>) = g[0]
  BY <1>1, ProjectedIsLast
<1>3. \A i \in 0..0 : g[i] = IF i = 0 THEN t ELSE Project(by, g[i - 1], <<>>[i])
  BY <1>2, Zenon DEF IsPass
<1> QED
  BY <1>2, <1>3

(* A record more is projected after the others.                            *)
LEMMA ProjectedOne ==
  ASSUME NEW by, NEW t, NEW T, NEW lines \in Seq(T), NEW line \in T
  PROVE  Projected(by, t, Append(lines, line)) = Project(by, Projected(by, t, lines), line)
<1> DEFINE n == Len(lines)
           more == Append(lines, line)
<1>1. /\ n \in Nat /\ n + 1 \in Nat /\ Len(more) = n + 1
      /\ \A i \in 1..n : more[i] = lines[i]
      /\ more[n + 1] = line
  OBVIOUS
<1>2. PICK g : IsPass(g, by, t, lines, n) /\ Projected(by, t, lines) = g[n]
  BY <1>1, ProjectedIsLast
<1> HIDE DEF more
<1>3. PICK h : IsPass(h, by, t, more, n + 1) /\ Projected(by, t, more) = h[n + 1]
  BY <1>1, ProjectedIsLast
<1> HIDE DEF n
<1>4. n <= n + 1
  BY <1>1
<1>5. \A i \in 0..n : h[i] = g[i]
  <2> DEFINE m == n + 1
  <2>1. /\ m \in Nat /\ n \in Nat /\ n <= m /\ IsPass(g, by, t, lines, n)
        /\ IsPass(h, by, t, more, m) /\ \A i \in 1..n : more[i] = lines[i]
    BY <1>1, <1>2, <1>3, <1>4
  <2> HIDE DEF m
  <2> QED
    BY <2>1, PassesAgree
<1>6. h[n] = g[n]
  BY <1>1, <1>5
<1>7. \A i \in 0..(n + 1) : h[i] = IF i = 0 THEN t ELSE Project(by, h[i - 1], more[i])
  BY <1>3, Zenon DEF IsPass
<1>8. n + 1 \in 0..(n + 1) /\ n + 1 # 0 /\ (n + 1) - 1 = n
  BY <1>1
<1>9. h[n + 1] = Project(by, h[(n + 1) - 1], more[n + 1])
  BY <1>7, <1>8, Zenon
<1> QED
  BY <1>1, <1>2, <1>3, <1>6, <1>8, <1>9 DEF more

Fields == {"messages", "sum", "tokens"}

(* A reader's state knows the records s, and has counted what they add to  *)
(* a count.                                                                *)
Knows(t, count, s) ==
  /\ IsMemory(t.messages)
  /\ \A m \in Messages : OutputOf(t.messages, m) = Largest(s, m)
  /\ t.sum = SumAt(s, Len(s))
  /\ t.tokens = count + Produced(s)

(* What a record leaves alone.                                             *)
Keeps(t, u) ==
  /\ DOMAIN u = DOMAIN t
  /\ \A k \in DOMAIN t : k \notin Fields \union {"forgot"} => u[k] = t[k]

(* A record more is known after it was projected.                          *)
LEMMA RecordIsKnown ==
  ASSUME NEW t, Fields \subseteq DOMAIN t, NEW count \in Int, NEW s \in Seq(Records),
         NEW l \in Records, Knows(t, count, s)
  PROVE  /\ Knows(AfterRecord(t, l), count, Append(s, l))
         /\ DOMAIN AfterRecord(t, l) = DOMAIN t
         /\ \A k \in DOMAIN t : k \notin Fields => AfterRecord(t, l)[k] = t[k]
<1> DEFINE u == AfterRecord(t, l)
           more == Append(s, l)
           n == Len(s)
<1>1. "messages" \in DOMAIN t /\ "sum" \in DOMAIN t /\ "tokens" \in DOMAIN t
  BY DEF Fields
<1>2. /\ IsMemory(t.messages)
      /\ \A m \in Messages : OutputOf(t.messages, m) = Largest(s, m)
      /\ t.sum = SumAt(s, n)
      /\ t.tokens = count + Produced(s)
  BY DEF Knows
<1>3. /\ n \in Nat /\ Len(more) = n + 1 /\ more[n + 1] = l /\ \A i \in 1..n : more[i] = s[i]
  BY MoreLines
<1>4. Produced(s) \in Nat /\ Produced(more) = Produced(s) + Adds(s, l) /\ Adds(s, l) \in Nat
  BY ProducedIsNumber, ProducedGrows, AddsNumber
<1>5. \A m : Largest(more, m) = IF ~IsTotal(l) /\ l.of = m /\ l.out >= Largest(s, m)
                                THEN l.out ELSE Largest(s, m)
  BY LargestGrows
<1>6. SumAt(more, n + 1) = IF IsTotal(l) THEN NextSum(NoSum, l) ELSE SumAt(s, n)
  <2>1. SumAt(more, n) = SumAt(s, n)
    BY <1>3, SumAgrees
  <2> QED
    BY <1>3, <2>1, SumMoves
<1> HIDE DEF more, n
<1>7. CASE IsTotal(l)
  <2>1. u = [t EXCEPT !.tokens = @ + SumGrowth(t.sum, l), !.sum = NextSum(t.sum, l)]
    BY <1>7 DEF AfterRecord
  <2> HIDE DEF u
  <2>2. /\ u.tokens = t.tokens + SumGrowth(t.sum, l) /\ u.sum = NextSum(t.sum, l)
        /\ u.messages = t.messages /\ DOMAIN u = DOMAIN t
        /\ \A k \in DOMAIN t : k \notin Fields => u[k] = t[k]
    BY <1>1, <2>1 DEF Fields
  <2>3. NextSum(t.sum, l) = NextSum(NoSum, l)
    BY DEF NextSum
  <2>4. SumGrowth(t.sum, l) = Adds(s, l)
    BY <1>2, <1>7 DEF Adds, n
  <2>5. u.tokens = count + Produced(more)
    BY <1>2, <1>4, <2>2, <2>4
  <2>6. \A m \in Messages : OutputOf(u.messages, m) = Largest(more, m)
    BY <1>2, <1>5, <1>7, <2>2
  <2>7. u.sum = SumAt(more, Len(more))
    BY <1>3, <1>6, <1>7, <2>2, <2>3
  <2> QED
    BY <1>2, <2>2, <2>5, <2>6, <2>7 DEF Knows, u, more
<1>8. CASE ~IsTotal(l)
  <2>1. u = [t EXCEPT !.tokens = @ + Growth(t.messages, l), !.messages = Moved(t.messages, l)]
    BY <1>8 DEF AfterRecord
  <2> HIDE DEF u
  <2>2. /\ u.tokens = t.tokens + Growth(t.messages, l) /\ u.messages = Moved(t.messages, l)
        /\ u.sum = t.sum /\ DOMAIN u = DOMAIN t
        /\ \A k \in DOMAIN t : k \notin Fields => u[k] = t[k]
    BY <1>1, <2>1 DEF Fields
  <2>3. l.out \in Nat /\ l.of \in Messages
    BY <1>8, RecordFields
  <2>4. OutputOf(t.messages, l.of) = Largest(s, l.of) /\ Largest(s, l.of) \in Nat
    BY <1>2, <2>3, LargestGrows
  <2>5. Growth(t.messages, l) = Adds(s, l)
    <3> DEFINE a == l.out
               b == Largest(s, l.of)
    <3>1. Growth(t.messages, l) = Max({0, a - b})
      BY <2>4, Zenon DEF Growth
    <3>2. a \in Nat /\ b \in Nat
      BY <2>3, <2>4
    <3>3. Adds(s, l) = IF a >= b THEN a - b ELSE 0
      BY <1>8, Zenon DEF Adds
    <3> HIDE DEF a, b
    <3>4. a - b \in Int
      BY <3>2
    <3>5. Max({0, a - b}) = IF 0 >= a - b THEN 0 ELSE a - b
      BY <3>4, Larger
    <3> QED
      BY <3>1, <3>2, <3>3, <3>5
  <2>6. u.tokens = count + Produced(more)
    BY <1>2, <1>4, <2>2, <2>5
  <2>7. IsMemory(u.messages) /\ \A m : OutputOf(u.messages, m) =
          IF m = l.of /\ l.out >= OutputOf(t.messages, m) THEN l.out ELSE OutputOf(t.messages, m)
    BY <1>2, <1>8, <2>2, MovedFacts
  <2>8. \A m \in Messages : OutputOf(u.messages, m) = Largest(more, m)
    BY <1>2, <1>5, <1>8, <2>7
  <2>9. u.sum = SumAt(more, Len(more))
    BY <1>2, <1>3, <1>6, <1>8, <2>2
  <2> QED
    BY <2>2, <2>6, <2>7, <2>8, <2>9 DEF Knows, u, more
<1> QED
  BY <1>7, <1>8

(* A reader's state, as far as it claims to know the records s.            *)
Follows(by, t, count, s) ==
  /\ Fields \subseteq DOMAIN t
  /\ by = "live" => "forgot" \in DOMAIN t /\ t.forgot \in BOOLEAN
  /\ by # "live" \/ ~t.forgot => Knows(t, count, s)

(* The sampler forgets only messages beyond its bound, and says so.        *)
LEMMA ObserveFollows ==
  ASSUME NEW t, NEW count \in Int, NEW s \in Seq(Records), NEW l \in Records,
         Follows("live", t, count, s)
  PROVE  /\ Follows("live", Observe(t, l), count, Append(s, l))
         /\ DOMAIN Observe(t, l) = DOMAIN t
         /\ \A k \in DOMAIN t : k \notin Fields \union {"forgot"} => Observe(t, l)[k] = t[k]
<1> DEFINE u == Observe(t, l)
           r == AfterRecord(t, l)
<1>1. /\ Fields \subseteq DOMAIN t /\ "forgot" \in DOMAIN t /\ t.forgot \in BOOLEAN
      /\ ~t.forgot => Knows(t, count, s)
  BY DEF Follows
<1>2. "messages" \in DOMAIN t /\ "sum" \in DOMAIN t /\ "tokens" \in DOMAIN t
  BY <1>1 DEF Fields
<1>3. ~t.forgot => Knows(r, count, Append(s, l))
  BY <1>1, RecordIsKnown
<1>4. CASE IsTotal(l)
  <2>1. u = r /\ u = [t EXCEPT !.tokens = @ + SumGrowth(t.sum, l), !.sum = NextSum(t.sum, l)]
    BY <1>4 DEF AfterRecord, Observe
  <2> HIDE DEF u, r
  <2>2. /\ DOMAIN u = DOMAIN t /\ u.forgot = t.forgot
        /\ \A k \in DOMAIN t : k \notin Fields \union {"forgot"} => u[k] = t[k]
    BY <1>1, <1>2, <2>1 DEF Fields
  <2>3. Follows("live", u, count, Append(s, l))
    BY <1>1, <1>3, <2>1, <2>2 DEF Follows
  <2> QED
    BY <2>2, <2>3 DEF u
<1>5. CASE ~IsTotal(l)
  <2> DEFINE full == Len(Moved(t.messages, l)) > MaxMessages
  <2>1. u = [t EXCEPT !.tokens = @ + Growth(t.messages, l),
                      !.messages = Remember(t.messages, l),
                      !.forgot = @ \/ full]
    BY <1>5 DEF Observe
  <2>2. r = [t EXCEPT !.tokens = @ + Growth(t.messages, l), !.messages = Moved(t.messages, l)]
    BY <1>5 DEF AfterRecord
  <2>3. ~full => Remember(t.messages, l) = Moved(t.messages, l)
    BY DEF Remember, Forgetful
  <2> HIDE DEF u, r, full
  <2>4. /\ DOMAIN u = DOMAIN t /\ u.forgot = (t.forgot \/ full)
        /\ u.tokens = t.tokens + Growth(t.messages, l)
        /\ u.messages = Remember(t.messages, l) /\ u.sum = t.sum
        /\ \A k \in DOMAIN t : k \notin Fields \union {"forgot"} => u[k] = t[k]
    BY <1>1, <1>2, <2>1 DEF Fields
  <2>5. /\ r.tokens = t.tokens + Growth(t.messages, l)
        /\ r.messages = Moved(t.messages, l) /\ r.sum = t.sum
    BY <1>1, <1>2, <2>2
  <2>6. ASSUME ~u.forgot
        PROVE  Knows(u, count, Append(s, l))
    <3>1. ~t.forgot /\ ~full
      BY <2>4, <2>6
    <3>2. u.messages = r.messages /\ u.sum = r.sum /\ u.tokens = r.tokens
      BY <2>3, <2>4, <2>5, <3>1
    <3> QED
      BY <1>3, <3>1, <3>2 DEF Knows
  <2>7. u.forgot \in BOOLEAN
    BY <1>1, <2>4 DEF full
  <2>8. Follows("live", u, count, Append(s, l))
    BY <1>1, <2>4, <2>6, <2>7 DEF Follows
  <2> QED
    BY <2>4, <2>8 DEF u
<1> QED
  BY <1>4, <1>5

(* So either reader follows the records it is given, in whatever portions. *)
LEMMA PassFollows ==
  ASSUME NEW by \in {"live", "ledger"}, NEW t, NEW count \in Int, NEW s \in Seq(Records),
         Follows(by, t, count, s), NEW q \in Seq(Records)
  PROVE  Follows(by, Projected(by, t, q), count, s \o q) /\ Keeps(t, Projected(by, t, q))
<1> DEFINE S == {w \in Seq(Records) : /\ Follows(by, Projected(by, t, w), count, s \o w)
                                      /\ Keeps(t, Projected(by, t, w))}
<1>1. <<>> \in S
  <2>1. Projected(by, t, <<>>) = t /\ s \o <<>> = s /\ <<>> \in Seq(Records)
    BY ProjectedNone
  <2>2. Keeps(t, t)
    BY DEF Keeps
  <2> QED
    BY <2>1, <2>2, Zenon
<1>2. ASSUME NEW w \in Seq(Records), NEW l \in Records, w \in S
      PROVE  Append(w, l) \in S
  <2> DEFINE old == Projected(by, t, w)
             new == Projected(by, t, Append(w, l))
             before == s \o w
  <2>1. Follows(by, old, count, before) /\ Keeps(t, old)
    BY <1>2
  <2>2. new = Project(by, old, l)
    BY ProjectedOne
  <2>3. s \o Append(w, l) = Append(before, l) /\ before \in Seq(Records) /\ Append(w, l) \in Seq(Records)
    BY Z3
  <2> HIDE DEF old, new, before
  <2>4. Follows(by, new, count, Append(before, l)) /\ Keeps(old, new)
    <3>1. CASE by = "live"
      <4>1. new = Observe(old, l)
        BY <2>2, <3>1 DEF Project
      <4>2. Follows("live", old, count, before)
        BY <2>1, <3>1
      <4>3. /\ Follows("live", new, count, Append(before, l))
            /\ DOMAIN new = DOMAIN old
            /\ \A k \in DOMAIN old : k \notin Fields \union {"forgot"} => new[k] = old[k]
        BY <2>3, <4>1, <4>2, ObserveFollows
      <4> QED
        BY <3>1, <4>3 DEF Keeps
    <3>2. CASE by # "live"
      <4>1. new = AfterRecord(old, l)
        BY <2>2, <3>2 DEF Project
      <4>2. Fields \subseteq DOMAIN old /\ Knows(old, count, before)
        BY <2>1, <3>2 DEF Follows
      <4>3. LET u == AfterRecord(old, l)
            IN  /\ Knows(u, count, Append(before, l))
                /\ DOMAIN u = DOMAIN old
                /\ \A k \in DOMAIN old : k \notin Fields => u[k] = old[k]
        BY <2>3, <4>2, RecordIsKnown, Zenon
      <4> QED
        BY <3>2, <4>1, <4>2, <4>3 DEF Keeps, Follows
    <3> QED
      BY <3>1, <3>2
  <2>5. Keeps(t, new)
    BY <2>1, <2>4 DEF Keeps
  <2> QED
    BY <2>3, <2>4, <2>5, Zenon DEF new, before
<1> HIDE DEF S
<1>3. \A w \in Seq(Records) : w \in S
  BY <1>1, <1>2, SequenceInduction
<1> QED
  BY <1>3 DEF S

(* A part of a transcript after another.                                   *)
LEMMA PartsOfFile ==
  ASSUME NEW lines \in Seq(Records), NEW a \in 0..Len(lines), NEW b \in a..Len(lines)
  PROVE  /\ SubSeq(lines, 1, a) \in Seq(Records) /\ SubSeq(lines, a + 1, b) \in Seq(Records)
         /\ SubSeq(lines, 1, a) \o SubSeq(lines, a + 1, b) = SubSeq(lines, 1, b)
         /\ SubSeq(lines, 1, Len(lines)) = lines
         /\ SubSeq(lines, 1, 0) = <<>>
<1> DEFINE u == SubSeq(lines, 1, a)
           v == SubSeq(lines, a + 1, b)
           w == SubSeq(lines, 1, b)
<1>1. a \in Nat /\ b \in Nat /\ a <= b /\ b <= Len(lines) /\ Len(lines) \in Nat
  OBVIOUS
<1>2. u \in Seq(Records) /\ Len(u) = a /\ \A i \in 1..a : u[i] = lines[i]
  BY <1>1
<1>3. v \in Seq(Records) /\ Len(v) = b - a /\ \A i \in 1..(b - a) : v[i] = lines[a + i]
  BY <1>1
<1>4. w \in Seq(Records) /\ Len(w) = b /\ \A i \in 1..b : w[i] = lines[i]
  BY <1>1
<1> HIDE DEF u, v, w
<1>5. u \o v \in Seq(Records) /\ Len(u \o v) = b
  <2>1. \A q, r \in Seq(Records) : q \o r \in Seq(Records) /\ Len(q \o r) = Len(q) + Len(r)
    BY Z3
  <2>2. a + (b - a) = b
    BY <1>1
  <2> QED
    BY <1>2, <1>3, <2>1, <2>2
<1>6. ASSUME NEW i \in 1..b
      PROVE  (u \o v)[i] = w[i]
  <2>1. CASE i <= a
    BY <1>1, <1>2, <1>3, <1>4, <2>1
  <2>2. CASE ~(i <= a)
    <3>1. i - a \in 1..(b - a) /\ a + (i - a) = i
      BY <1>1, <2>2
    <3>2. (u \o v)[i] = v[i - a]
      BY <1>1, <1>2, <1>3, <2>2
    <3> QED
      BY <1>3, <1>4, <3>1, <3>2
  <2> QED
    BY <2>1, <2>2
<1>7. u \o v = w
  BY <1>4, <1>5, <1>6, SeqEqual
<1>8. \A q \in Seq(Records) : SubSeq(q, 1, Len(q)) = q /\ SubSeq(q, 1, 0) = <<>>
  OBVIOUS
<1> QED
  BY <1>2, <1>3, <1>7, <1>8, Zenon DEF u, v, w


(***************************************************************************)
(* UsageTail: the invariant.                                               *)
(***************************************************************************)
FileFacts ==
  /\ reading \in {"live", "ledger"}
  /\ lineKinds \in Providers
  /\ file.lines \in Seq(Records)
  /\ file.body \in Nat \ {0}
  /\ {"inode", "body", "lines", "torn"} \subseteq DOMAIN file

(* What the ledger holds of this body is one pass over its records.        *)
ReplayFacts ==
  /\ Fields \union {"body", "offset"} \subseteq DOMAIN replay
  /\ replay.body \in Nat /\ replay.body <= file.body
  /\ replay.body = file.body =>
       replay.offset \in 0..Len(file.lines) /\ Knows(replay, 0, Upto(replay.offset))

\* What the sampler knows, with the tokens of one read.
Watch == [messages |-> live.messages, sum |-> live.sum, tokens |-> 0, forgot |-> live.forgot]

(* A sampler that read nothing may have found another body.                *)
LiveFacts ==
  /\ live.tracked \in BOOLEAN
  /\ live.tracked =>
       /\ {"tracked", "messages", "sum", "forgot", "offset", "body", "from"} \subseteq DOMAIN live
       /\ live.body \in Nat /\ live.body <= file.body
       /\ live.offset \in Nat /\ live.from \in 0..live.offset
       /\ live.forgot \in BOOLEAN
       /\ (live.body = file.body \/ live.offset = 0) => live.offset <= Len(file.lines)
       /\ (live.body = file.body \/ live.offset = 0) /\ ~live.forgot =>
            /\ Knows(Watch, -Produced(Upto(live.offset)), Upto(live.offset))
            /\ counted = Produced(Upto(live.offset)) - Produced(Upto(live.from))

UsageInv == FileFacts /\ ReplayFacts /\ LiveFacts

(* The first records of a transcript, when it grows.                       *)
LEMMA UptoKept ==
  ASSUME NEW lines \in Seq(Records), NEW l \in Records, NEW n \in 0..Len(lines)
  PROVE  SubSeq(Append(lines, l), 1, n) = SubSeq(lines, 1, n)
<1> DEFINE u == SubSeq(lines, 1, n)
           w == SubSeq(Append(lines, l), 1, n)
<1>1. n \in Nat /\ n <= Len(lines) /\ Len(lines) \in Nat
  OBVIOUS
<1>2. u \in Seq(Records) /\ Len(u) = n /\ \A i \in 1..n : u[i] = lines[i]
  BY <1>1
<1>3. /\ Append(lines, l) \in Seq(Records) /\ Len(Append(lines, l)) = Len(lines) + 1
      /\ \A i \in 1..Len(lines) : Append(lines, l)[i] = lines[i]
  BY MoreLines
<1>4. w \in Seq(Records) /\ Len(w) = n /\ \A i \in 1..n : w[i] = Append(lines, l)[i]
  BY <1>1, <1>3
<1>5. \A i \in 1..n : w[i] = u[i]
  BY <1>1, <1>2, <1>3, <1>4
<1> HIDE DEF u, w
<1>6. u = w
  BY <1>2, <1>4, <1>5, SeqEqual
<1> QED
  BY <1>6 DEF u, w

(* A reader that read nothing knows nothing.                               *)
LEMMA NothingIsKnown ==
  ASSUME NEW t, t.messages = <<>>, t.sum = NoSum, t.tokens = 0
  PROVE  Knows(t, 0, <<>>)
<1>1. IsMemory(<<>>)
  BY DEF IsMemory
<1>2. ASSUME NEW m
      PROVE  OutputOf(<<>>, m) = Largest(<<>>, m)
  <2>1. OutputOf(<<>>, m) = 0
    BY <1>1, OutputFacts
  <2>2. Outputs(<<>>, m) = {0} /\ Largest(<<>>, m) = Max(Outputs(<<>>, m))
    BY DEF Outputs, Largest
  <2>3. {0} \in SUBSET Int /\ 0 \in {0} /\ \A y \in {0} : y <= 0
    OBVIOUS
  <2>4. Max({0}) = 0
    BY <2>3, MaxIs
  <2> QED
    BY <2>1, <2>2, <2>4
<1>3. SumAt(<<>>, Len(<<>>)) = NoSum
  <2>1. Len(<<>>) = 0
    OBVIOUS
  <2>2. {i \in 1..0 : IsTotal(<<>>[i])} = {}
    OBVIOUS
  <2> QED
    BY <2>1, <2>2, Zenon DEF SumAt
<1>4. Produced(<<>>) = 0
  BY ProducedIsNumber
<1> QED
  BY <1>1, <1>2, <1>3, <1>4 DEF Knows

(* It starts in order.                                                     *)
LEMMA UsageStarts == UsageInit => UsageInv
<1> SUFFICES ASSUME UsageInit PROVE UsageInv
  OBVIOUS
<1>1. FileFacts
  BY DEF UsageInit, FileFacts
<1>2. ReplayFacts
  BY DEF UsageInit, ReplayFacts, NoReplay, Fields
<1>3. LiveFacts
  BY DEF UsageInit, LiveFacts, Untracked
<1> QED
  BY <1>1, <1>2, <1>3 DEF UsageInv

(* A record that is appended disturbs no reader.                           *)
LEMMA AppendLineKeeps ==
  ASSUME UsageInv, NEW l \in lineKinds, AppendLine(l)
  PROVE  UsageInv'
<1> DEFINE lines == file.lines
<1>1. /\ l \in Records /\ lines \in Seq(Records) /\ Len(lines) \in Nat
      /\ {"inode", "body", "lines", "torn"} \subseteq DOMAIN file
  BY DEF UsageInv, FileFacts, Records
<1>2. /\ file' = [file EXCEPT !.lines = Append(@, l), !.torn = 0]
      /\ UNCHANGED <<reading, lineKinds, live, counted, replay>>
  BY DEF AppendLine, Readers
<1>3. file'.lines = Append(lines, l) /\ file'.body = file.body /\ DOMAIN file' = DOMAIN file
  BY <1>1, <1>2
<1>4. Append(lines, l) \in Seq(Records) /\ Len(Append(lines, l)) = Len(lines) + 1
  BY <1>1, MoreLines
<1>5. \A n \in 0..Len(lines) : Upto(n)' = Upto(n)
  BY <1>1, <1>3, UptoKept DEF Upto
<1>6. FileFacts'
  BY <1>2, <1>3, <1>4 DEF UsageInv, FileFacts
<1>7. ReplayFacts'
  BY <1>1, <1>2, <1>3, <1>4, <1>5 DEF UsageInv, ReplayFacts
<1>8. LiveFacts'
  <2> SUFFICES ASSUME live.tracked PROVE LiveFacts'
    BY <1>2 DEF UsageInv, LiveFacts
  <2>1. /\ {"tracked", "messages", "sum", "forgot", "offset", "body", "from"} \subseteq DOMAIN live
        /\ live.body \in Nat /\ live.body <= file.body
        /\ live.offset \in Nat /\ live.from \in 0..live.offset
        /\ live.forgot \in BOOLEAN
    BY DEF UsageInv, LiveFacts
  <2>2. ASSUME live.body = file.body \/ live.offset = 0
        PROVE  live.offset <= Len(file.lines)' /\ Upto(live.offset)' = Upto(live.offset)
                 /\ Upto(live.from)' = Upto(live.from)
    <3>1. live.offset <= Len(lines)
      BY <2>2 DEF UsageInv, LiveFacts
    <3>2. live.offset \in 0..Len(lines) /\ live.from \in 0..Len(lines)
      BY <1>1, <2>1, <3>1
    <3>3. live.offset <= Len(lines) + 1
      BY <1>1, <2>1, <3>1
    <3>4. Upto(live.offset)' = Upto(live.offset) /\ Upto(live.from)' = Upto(live.from)
      BY <1>2, <1>5, <3>2
    <3> QED
      BY <1>3, <1>4, <3>3, <3>4
  <2>3. Watch' = Watch
    BY <1>2 DEF Watch
  <2> QED
    BY <1>2, <1>3, <2>1, <2>2, <2>3 DEF UsageInv, LiveFacts
<1> QED
  BY <1>6, <1>7, <1>8 DEF UsageInv

(* Nor does a torn end.                                                    *)
LEMMA TearLineKeeps ==
  ASSUME UsageInv, TearLine
  PROVE  UsageInv'
<1>1. /\ file' = [file EXCEPT !.torn = 1]
      /\ UNCHANGED <<reading, lineKinds, live, counted, replay>>
  BY DEF TearLine, Readers
<1>2. file'.lines = file.lines /\ file'.body = file.body /\ DOMAIN file' = DOMAIN file
  BY <1>1 DEF UsageInv, FileFacts
<1>3. \A n : Upto(n)' = Upto(n)
  BY <1>2 DEF Upto
<1>4. Watch' = Watch
  BY <1>1 DEF Watch
<1>5. FileFacts'
  BY <1>1, <1>2 DEF UsageInv, FileFacts
<1>6. ReplayFacts'
  BY <1>1, <1>2, <1>3 DEF UsageInv, ReplayFacts
<1>7. LiveFacts'
  <2>1. Upto(live.offset)' = Upto(live.offset) /\ Upto(live.from)' = Upto(live.from)
    BY <1>1, <1>2 DEF Upto
  <2> QED
    BY <1>1, <1>2, <1>4, <2>1 DEF UsageInv, LiveFacts
<1> QED
  BY <1>5, <1>6, <1>7 DEF UsageInv

(* Another body is one no reader knows.                                    *)
LEMMA RewriteFileKeeps ==
  ASSUME UsageInv, NEW lines \in Bodies, RewriteFile(lines)
  PROVE  UsageInv'
<1>1. lines \in Seq(Records) /\ Len(lines) \in Nat
  <2>1. \A l \in lineKinds : l \in Records
    BY DEF UsageInv, FileFacts, Records
  <2>2. CASE lines = <<>>
    BY <2>2
  <2>3. CASE lines # <<>>
    <3>1. PICK l \in lineKinds : lines = <<l>>
      BY <2>3 DEF Bodies
    <3> QED
      BY <2>1, <3>1
  <2> QED
    BY <2>2, <2>3
<1>2. PICK inode \in {file.inode, file.inode + 1} :
        file' = [inode |-> inode, body |-> file.body + 1, lines |-> lines, torn |-> 0]
  BY DEF RewriteFile
<1>3. UNCHANGED <<reading, lineKinds, live, counted, replay>>
  BY DEF RewriteFile, Readers
<1>4. /\ file'.lines = lines /\ file'.body = file.body + 1
      /\ DOMAIN file' = {"inode", "body", "lines", "torn"}
  BY <1>2
<1>5. file.body \in Nat \ {0} /\ file.lines \in Seq(Records) /\ Len(file.lines) \in Nat
  BY DEF UsageInv, FileFacts
<1>6. FileFacts'
  <2>1. file.body + 1 \in Nat \ {0}
    BY <1>5
  <2> QED
    BY <1>1, <1>3, <1>4, <2>1 DEF UsageInv, FileFacts
<1>7. ReplayFacts'
  <2>1. /\ Fields \union {"body", "offset"} \subseteq DOMAIN replay
        /\ replay.body \in Nat /\ replay.body <= file.body
    BY DEF UsageInv, ReplayFacts
  <2>2. replay.body <= file.body + 1 /\ replay.body # file.body + 1
    BY <1>5, <2>1
  <2> QED
    BY <1>3, <1>4, <2>1, <2>2 DEF ReplayFacts
<1>8. LiveFacts'
  <2> SUFFICES ASSUME live.tracked PROVE LiveFacts'
    BY <1>3 DEF UsageInv, LiveFacts
  <2>1. /\ {"tracked", "messages", "sum", "forgot", "offset", "body", "from"} \subseteq DOMAIN live
        /\ live.body \in Nat /\ live.body <= file.body
        /\ live.offset \in Nat /\ live.from \in 0..live.offset
        /\ live.forgot \in BOOLEAN /\ live.tracked \in BOOLEAN
    BY DEF UsageInv, LiveFacts
  <2>2. live.body <= file.body + 1 /\ live.body # file.body + 1
    BY <1>5, <2>1
  <2>3. Watch' = Watch
    BY <1>3 DEF Watch
  <2>4. ASSUME live.offset = 0
        PROVE  /\ live.offset <= Len(lines)
               /\ Upto(live.offset)' = Upto(live.offset) /\ Upto(live.from)' = Upto(live.from)
    <3>1. live.from = 0
      BY <2>1, <2>4
    <3>2. \A q \in Seq(Records) : SubSeq(q, 1, 0) = <<>>
      OBVIOUS
    <3>3. Upto(0)' = Upto(0)
      BY <1>1, <1>4, <1>5, <3>2 DEF Upto
    <3>4. 0 <= Len(lines)
      BY <1>1
    <3> QED
      BY <1>3, <2>4, <3>1, <3>3, <3>4
  <2>5. live.offset = 0 /\ ~live.forgot =>
            /\ Knows(Watch, -Produced(Upto(live.offset)), Upto(live.offset))
            /\ counted = Produced(Upto(live.offset)) - Produced(Upto(live.from))
    BY DEF UsageInv, LiveFacts
  <2> QED
    BY <1>3, <1>4, <2>1, <2>2, <2>3, <2>4, <2>5 DEF LiveFacts
<1> QED
  BY <1>6, <1>7, <1>8 DEF UsageInv

(* A baseline knows what it read, and that it did not read the rest.       *)
LEMMA RebaselineKeeps ==
  ASSUME UsageInv, Rebaseline
  PROVE  UsageInv'
<1> DEFINE lines == file.lines
           n == Len(lines)
           first == Max({1, n - ReadLimit + 1})
           part == SubSeq(lines, first, n)
           t == Projected("live", NewTracker, part)
<1>1. /\ lines \in Seq(Records) /\ n \in Nat /\ ReadLimit \in Nat
      /\ file.body \in Nat \ {0}
  BY UsageConstants DEF UsageInv, FileFacts
<1>2. first \in Nat \ {0} /\ first = IF 1 >= n - ReadLimit + 1 THEN 1 ELSE n - ReadLimit + 1
  <2> DEFINE a == n - ReadLimit + 1
  <2>1. a \in Int
    BY <1>1
  <2> HIDE DEF a
  <2>2. Max({1, a}) = IF 1 >= a THEN 1 ELSE a
    BY <2>1, Larger
  <2>3. (IF 1 >= a THEN 1 ELSE a) \in Nat \ {0}
    BY <2>1
  <2> QED
    BY <2>2, <2>3 DEF a
<1>3. /\ live' = [tracked |-> TRUE, inode |-> file.inode, body |-> file.body,
                  size |-> 2 * Len(file.lines) + file.torn,
                  offset |-> n, messages |-> t.messages, sum |-> t.sum,
                  forgot |-> t.forgot \/ first > 1, from |-> n]
      /\ counted' = 0
      /\ UNCHANGED <<reading, lineKinds, file, replay>>
  BY DEF Rebaseline, Baseline
<1> HIDE DEF first
<1>4. part \in Seq(Records)
  BY <1>1, <1>2
<1>5. first = 1 => part = lines
  BY <1>1
<1> HIDE DEF part
<1>6. Follows("live", NewTracker, 0, <<>>)
  <2>1. Knows(NewTracker, 0, <<>>)
    BY NothingIsKnown DEF NewTracker
  <2> QED
    BY <2>1 DEF Follows, NewTracker, Fields
<1>7. Follows("live", t, 0, <<>> \o part)
  <2>1. <<>> \in Seq(Records) /\ 0 \in Int /\ "live" \in {"live", "ledger"}
    OBVIOUS
  <2> QED
    BY <1>4, <1>6, <2>1, PassFollows, Zenon
<1> HIDE DEF t
<1>8. t.forgot \in BOOLEAN /\ (~t.forgot => Knows(t, 0, part))
  <2>1. <<>> \o part = part
    BY <1>4
  <2> QED
    BY <1>7, <2>1 DEF Follows
<1>9. Upto(n) = lines /\ Produced(lines) \in Nat
  BY <1>1, ProducedIsNumber DEF Upto
<1>10. /\ live'.tracked = TRUE /\ live'.body = file.body /\ live'.offset = n /\ live'.from = n
       /\ live'.messages = t.messages /\ live'.sum = t.sum
       /\ live'.forgot = (t.forgot \/ first > 1)
       /\ {"tracked", "messages", "sum", "forgot", "offset", "body", "from"} \subseteq DOMAIN live'
  BY <1>3
<1>11. FileFacts'
  BY <1>3 DEF UsageInv, FileFacts
<1>12. ReplayFacts'
  <2>1. \A k : Upto(k)' = Upto(k)
    BY <1>3 DEF Upto
  <2> QED
    BY <1>3, <2>1 DEF UsageInv, ReplayFacts
<1>13. LiveFacts'
  <2>1. ASSUME ~live'.forgot
        PROVE  /\ Knows(Watch', -Produced(lines), lines)
               /\ counted' = Produced(lines) - Produced(lines)
    <3>1. ~t.forgot /\ ~(first > 1)
      BY <1>10, <2>1, Zenon
    <3>2. first = 1
      BY <1>2, <3>1
    <3>6. Knows(t, 0, lines)
      BY <1>5, <1>8, <3>1, <3>2
    <3>3. Watch' = [messages |-> t.messages, sum |-> t.sum, tokens |-> 0, forgot |-> live'.forgot]
      BY <1>10 DEF Watch
    <3>4. 0 = -Produced(lines) + Produced(lines) /\ 0 = Produced(lines) - Produced(lines)
      BY <1>9
    <3>5. Knows(Watch', -Produced(lines), lines)
      BY <3>3, <3>4, <3>6 DEF Knows
    <3> QED
      BY <1>3, <3>4, <3>5
  <2>2. Upto(live.offset)' = lines /\ Upto(live.from)' = lines
    BY <1>3, <1>9, <1>10 DEF Upto
  <2>3. n <= n /\ n \in 0..n /\ file.body <= file.body /\ file.body \in Nat
    BY <1>1
  <2>4. live'.forgot \in BOOLEAN
    BY <1>8, <1>10
  <2> QED
    BY <1>1, <1>3, <1>10, <2>1, <2>2, <2>3, <2>4 DEF LiveFacts
<1> QED
  BY <1>11, <1>12, <1>13 DEF UsageInv

(* A file that is let go is none.                                          *)
LEMMA DropTrackedKeeps ==
  ASSUME UsageInv, DropTracked
  PROVE  UsageInv'
<1>1. live' = Untracked /\ UNCHANGED <<reading, lineKinds, file, replay>>
  BY DEF DropTracked
<1>2. \A k : Upto(k)' = Upto(k)
  BY <1>1 DEF Upto
<1>3. FileFacts'
  BY <1>1 DEF UsageInv, FileFacts
<1>4. ReplayFacts'
  BY <1>1, <1>2 DEF UsageInv, ReplayFacts
<1>5. LiveFacts'
  BY <1>1 DEF LiveFacts, Untracked
<1> QED
  BY <1>3, <1>4, <1>5 DEF UsageInv

(* A message that is forgotten is known to be.                             *)
LEMMA ExpireMessagesKeeps ==
  ASSUME UsageInv, ExpireMessages
  PROVE  UsageInv'
<1>1. /\ live' = [live EXCEPT !.messages = Tail(@), !.forgot = TRUE] /\ live.tracked
      /\ UNCHANGED <<reading, lineKinds, file, counted, replay>>
  BY DEF ExpireMessages
<1>2. /\ {"tracked", "messages", "sum", "forgot", "offset", "body", "from"} \subseteq DOMAIN live
      /\ live.body \in Nat /\ live.body <= file.body
      /\ live.offset \in Nat /\ live.from \in 0..live.offset
      /\ (live.body = file.body \/ live.offset = 0) => live.offset <= Len(file.lines)
  BY <1>1 DEF UsageInv, LiveFacts
<1>3. /\ DOMAIN live' = DOMAIN live /\ live'.forgot = TRUE
      /\ live'.body = live.body /\ live'.offset = live.offset /\ live'.from = live.from
      /\ live'.tracked = live.tracked
  BY <1>1, <1>2
<1>4. \A k : Upto(k)' = Upto(k)
  BY <1>1 DEF Upto
<1>5. FileFacts'
  BY <1>1 DEF UsageInv, FileFacts
<1>6. ReplayFacts'
  BY <1>1, <1>4 DEF UsageInv, ReplayFacts
<1>7. LiveFacts'
  BY <1>1, <1>2, <1>3 DEF LiveFacts
<1> QED
  BY <1>5, <1>6, <1>7 DEF UsageInv

(* What is read is known, and counted as what it added.                    *)
LEMMA ReadAppendKeeps ==
  ASSUME UsageInv, ReadAppend
  PROVE  UsageInv'
<1> DEFINE lines == file.lines
           n == Len(lines)
           o == live.offset
           part == SubSeq(lines, o + 1, n)
           old == Produced(Upto(o))
           t == Projected("live", Watch, part)
<1>1. /\ lines \in Seq(Records) /\ n \in Nat /\ file.body \in Nat \ {0}
      /\ reading \in {"live", "ledger"}
  BY DEF UsageInv, FileFacts
<1>2. /\ live.tracked /\ n > o /\ ~MustRebaseline
      /\ live' = [live EXCEPT !.messages = t.messages, !.sum = t.sum, !.forgot = t.forgot,
                              !.offset = n, !.body = file.body, !.size = Size]
      /\ counted' = counted + t.tokens
      /\ UNCHANGED <<reading, lineKinds, file, replay>>
  BY Zenon DEF ReadAppend, Watch
<1>3. live.body = file.body \/ o = 0
  BY <1>2 DEF MustRebaseline, BoundaryMatches
<1>4. /\ {"tracked", "messages", "sum", "forgot", "offset", "body", "from"} \subseteq DOMAIN live
      /\ o \in Nat /\ live.from \in 0..o /\ o <= n
      /\ live.forgot \in BOOLEAN
      /\ ~live.forgot => Knows(Watch, -old, Upto(o)) /\ counted = old - Produced(Upto(live.from))
  BY <1>2, <1>3 DEF UsageInv, LiveFacts
<1>5. /\ Upto(o) \in Seq(Records) /\ part \in Seq(Records)
      /\ Upto(o) \o part = lines
  <2>1. o \in 0..Len(lines) /\ n \in o..Len(lines)
    BY <1>1, <1>4
  <2>2. SubSeq(lines, 1, n) = lines
    BY <1>1
  <2> QED
    BY <1>1, <2>1, <2>2, PartsOfFile DEF Upto
<1>6. Upto(live.from) \in Seq(Records)
  BY <1>1, <1>4 DEF Upto
<1>7. old \in Nat /\ Produced(lines) \in Nat /\ Produced(Upto(live.from)) \in Nat
  BY <1>1, <1>5, <1>6, ProducedIsNumber
<1> HIDE DEF old, part
<1>8. Follows("live", Watch, -old, Upto(o))
  BY <1>4 DEF Follows, Watch, Fields
<1>9. Follows("live", t, -old, lines)
  <2>1. -old \in Int /\ "live" \in {"live", "ledger"}
    BY <1>7
  <2>2. Follows("live", t, -old, Upto(o) \o part)
    BY <1>5, <1>8, <2>1, PassFollows, Zenon
  <2> QED
    BY <1>5, <2>2
<1> HIDE DEF t
<1>10. t.forgot \in BOOLEAN /\ (~t.forgot => Knows(t, -old, lines))
  BY <1>9 DEF Follows
<1>11. ASSUME ~t.forgot
       PROVE  ~live.forgot
  \* A state that follows any count knows none.
  <2> SUFFICES ASSUME live.forgot PROVE FALSE
    OBVIOUS
  <2>1. Follows("live", Watch, 0, Upto(o)) /\ Follows("live", Watch, 1, Upto(o))
    BY <1>4 DEF Follows, Watch, Fields
  <2>2. 0 \in Int /\ 1 \in Int /\ "live" \in {"live", "ledger"}
    OBVIOUS
  <2>3. Follows("live", t, 0, Upto(o) \o part) /\ Follows("live", t, 1, Upto(o) \o part)
    BY <1>5, <2>1, <2>2, PassFollows, Zenon DEF t
  <2>4. t.tokens = 0 + Produced(lines) /\ t.tokens = 1 + Produced(lines)
    BY <1>5, <1>11, <2>3 DEF Follows, Knows
  <2> QED
    BY <1>7, <2>4
<1>12. /\ live'.tracked = live.tracked /\ live'.from = live.from /\ DOMAIN live' = DOMAIN live
       /\ live'.messages = t.messages /\ live'.sum = t.sum /\ live'.forgot = t.forgot
       /\ live'.offset = n /\ live'.body = file.body
  BY <1>2, <1>4
<1>13. FileFacts'
  BY <1>2 DEF UsageInv, FileFacts
<1>14. ReplayFacts'
  <2>1. \A k : Upto(k)' = Upto(k)
    BY <1>2 DEF Upto
  <2> QED
    BY <1>2, <2>1 DEF UsageInv, ReplayFacts
<1>15. Upto(live.offset)' = lines /\ Upto(live.from)' = Upto(live.from)
  <2>1. SubSeq(lines, 1, n) = lines
    BY <1>1
  <2> QED
    BY <1>2, <1>12, <2>1 DEF Upto
<1>16. ASSUME ~live'.forgot
       PROVE  /\ Knows(Watch', -Produced(lines), lines)
              /\ counted' = Produced(lines) - Produced(Upto(live.from))
  <2>1. ~t.forgot /\ ~live.forgot
    BY <1>11, <1>12, <1>16
  <2>2. Knows(t, -old, lines) /\ counted = old - Produced(Upto(live.from))
    BY <1>4, <1>10, <2>1
  <2>3. t.tokens = -old + Produced(lines)
    BY <2>2 DEF Knows
  <2>4. counted' = Produced(lines) - Produced(Upto(live.from))
    <3> DEFINE a == old
               b == Produced(lines)
               c == Produced(Upto(live.from))
    <3>1. a \in Nat /\ b \in Nat /\ c \in Nat
      BY <1>7
    <3>2. counted' = (a - c) + (-a + b)
      BY <1>2, <2>2, <2>3
    <3> HIDE DEF a, b, c
    <3>3. counted' = b - c
      BY <3>1, <3>2
    <3> QED
      BY <3>3 DEF b, c
  <2>5. Watch' = [messages |-> t.messages, sum |-> t.sum, tokens |-> 0, forgot |-> t.forgot]
    BY <1>12 DEF Watch
  <2>6. 0 = -Produced(lines) + Produced(lines)
    BY <1>7
  <2>7. Knows(Watch', -Produced(lines), lines)
    BY <2>2, <2>5, <2>6 DEF Knows
  <2> QED
    BY <2>4, <2>7
<1>17. LiveFacts'
  <2>1. /\ {"tracked", "messages", "sum", "forgot", "offset", "body", "from"} \subseteq DOMAIN live'
        /\ live'.tracked = TRUE
    BY <1>2, <1>4, <1>12 DEF UsageInv, LiveFacts
  <2>2. file'.body = file.body /\ Len(file'.lines) = n /\ file.body <= file.body /\ n <= n
    BY <1>1, <1>2
  <2>3. live.from \in 0..n
    BY <1>1, <1>4
  <2> QED
    BY <1>1, <1>10, <1>12, <1>15, <1>16, <2>1, <2>2, <2>3 DEF LiveFacts
<1> QED
  BY <1>13, <1>14, <1>17 DEF UsageInv

(* A quantum of the replay goes on with the pass it belongs to.            *)
LEMMA PrepareSourceKeeps ==
  ASSUME UsageInv, PrepareSource
  PROVE  UsageInv'
<1> DEFINE lines == file.lines
           old == IF SameSource THEN replay ELSE Rebuilt
           o == old.offset
           left == Len(lines) - o
<1>1. /\ lines \in Seq(Records) /\ Len(lines) \in Nat /\ Quantum \in Nat
      /\ file.body \in Nat \ {0}
  BY UsageConstants DEF UsageInv, FileFacts
<1>2. /\ Fields \union {"body", "offset"} \subseteq DOMAIN old
      /\ old.body = file.body
      /\ o \in 0..Len(lines)
      /\ Knows(old, 0, Upto(o))
  <2>1. CASE SameSource
    <3>1. old = replay /\ replay.body = file.body
      BY <2>1 DEF SameSource
    <3> HIDE DEF old
    <3> QED
      BY <3>1 DEF UsageInv, ReplayFacts
  <2>2. CASE ~SameSource
    <3>1. old = Rebuilt
      BY <2>2
    <3>2. Rebuilt = [NoReplay EXCEPT !.inode = file.inode, !.body = file.body]
      BY DEF Rebuilt
    <3>3. /\ Rebuilt.body = file.body /\ Rebuilt.offset = 0 /\ Rebuilt.messages = <<>>
          /\ Rebuilt.sum = NoSum /\ Rebuilt.tokens = 0 /\ DOMAIN Rebuilt = DOMAIN NoReplay
      BY <3>2 DEF NoReplay
    <3>4. Knows(Rebuilt, 0, <<>>)
      BY <3>3, NothingIsKnown
    <3>5. Upto(0) = <<>>
      BY <1>1 DEF Upto
    <3>6. Fields \union {"body", "offset"} \subseteq DOMAIN NoReplay
      BY DEF Fields, NoReplay
    <3>7. 0 \in 0..Len(lines)
      BY <1>1
    <3> HIDE DEF old
    <3> QED
      BY <3>1, <3>3, <3>4, <3>5, <3>6, <3>7
  <2> QED
    BY <2>1, <2>2
<1>3. /\ UNCHANGED <<reading, lineKinds, file, live, counted>>
      /\ \E n \in (IF left = 0 THEN {0} ELSE 1 .. Min({left, Quantum})) :
             replay' = [Projected("ledger", old, SubSeq(lines, o + 1, o + n))
                          EXCEPT !.offset = o + n, !.size = Size]
  BY Zenon DEF PrepareSource
<1> HIDE DEF old
<1>4. PICK n \in (IF left = 0 THEN {0} ELSE 1 .. Min({left, Quantum})) :
             replay' = [Projected("ledger", old, SubSeq(lines, o + 1, o + n))
                          EXCEPT !.offset = o + n, !.size = Size]
  BY <1>3, Zenon
<1>5. n \in Nat /\ n <= left
  <2>1. left \in Nat
    BY <1>1, <1>2
  <2> HIDE DEF left
  <2>2. Min({left, Quantum}) = IF left <= Quantum THEN left ELSE Quantum
    BY <1>1, <2>1, Smaller
  <2> QED
    BY <1>1, <1>4, <2>1, <2>2
<1> DEFINE part == SubSeq(lines, o + 1, o + n)
           t == Projected("ledger", old, part)
<1>6. o + n \in 0..Len(lines) /\ o + n \in o..Len(lines)
  BY <1>1, <1>2, <1>5
<1>7. part \in Seq(Records) /\ Upto(o) \in Seq(Records) /\ Upto(o) \o part = Upto(o + n)
  BY <1>1, <1>2, <1>6, PartsOfFile DEF Upto
<1>8. replay' = [t EXCEPT !.offset = o + n, !.size = Size]
  BY <1>4
<1> HIDE DEF part
<1>9. Follows("ledger", old, 0, Upto(o))
  BY <1>2 DEF Follows
<1>10. Follows("ledger", t, 0, Upto(o + n)) /\ Keeps(old, t)
  <2>1. 0 \in Int /\ "ledger" \in {"live", "ledger"}
    OBVIOUS
  <2>2. Follows("ledger", t, 0, Upto(o) \o part) /\ Keeps(old, t)
    BY <1>7, <1>9, <2>1, PassFollows, Zenon
  <2> QED
    BY <1>7, <2>2
<1> HIDE DEF t
<1>11. /\ Knows(t, 0, Upto(o + n)) /\ DOMAIN t = DOMAIN old /\ t.body = old.body
  <2>1. Knows(t, 0, Upto(o + n))
    BY <1>10 DEF Follows
  <2>2. "body" \in DOMAIN old /\ "body" \notin Fields \union {"forgot"}
    BY <1>2 DEF Fields
  <2> QED
    BY <1>10, <2>1, <2>2 DEF Keeps
<1>12. /\ "messages" \in DOMAIN t /\ "sum" \in DOMAIN t /\ "tokens" \in DOMAIN t
       /\ "body" \in DOMAIN t /\ "offset" \in DOMAIN t
  BY <1>2, <1>11 DEF Fields
<1>13. /\ replay'.messages = t.messages /\ replay'.sum = t.sum /\ replay'.tokens = t.tokens
       /\ replay'.body = file.body /\ replay'.offset = o + n /\ DOMAIN replay' = DOMAIN t
  BY <1>2, <1>8, <1>11, <1>12
<1>14. \A k : Upto(k)' = Upto(k)
  BY <1>3 DEF Upto
<1>15. Knows(replay', 0, Upto(o + n))
  BY <1>11, <1>13 DEF Knows
<1>16. FileFacts'
  BY <1>3 DEF UsageInv, FileFacts
<1>17. ReplayFacts'
  <2>1. Upto(replay.offset)' = Upto(o + n)
    BY <1>3, <1>13 DEF Upto
  <2>2. Fields \union {"body", "offset"} \subseteq DOMAIN replay'
    BY <1>2, <1>11, <1>13
  <2>3. file.body <= file.body /\ file.body \in Nat
    BY <1>1
  <2> QED
    BY <1>3, <1>6, <1>13, <1>15, <2>1, <2>2, <2>3 DEF ReplayFacts
<1>18. LiveFacts'
  <2>1. Watch' = Watch
    BY <1>3 DEF Watch
  <2>2. Upto(live.offset)' = Upto(live.offset) /\ Upto(live.from)' = Upto(live.from)
    BY <1>3 DEF Upto
  <2> QED
    BY <1>3, <2>1, <2>2 DEF UsageInv, LiveFacts
<1> QED
  BY <1>16, <1>17, <1>18 DEF UsageInv

(* No step breaks the invariant.                                           *)
LEMMA UsageStepKeeps ==
  ASSUME UsageInv, [UsageNext]_usageVars
  PROVE  UsageInv'
<1>1. CASE \E l \in lineKinds : AppendLine(l)
  BY <1>1, AppendLineKeeps
<1>2. CASE TearLine
  BY <1>2, TearLineKeeps
<1>3. CASE \E lines \in Bodies : RewriteFile(lines)
  BY <1>3, RewriteFileKeeps
<1>4. CASE SyncEvidence
  BY <1>4, RebaselineKeeps DEF SyncEvidence
<1>5. CASE DropTracked
  BY <1>5, DropTrackedKeeps
<1>6. CASE PollRebaseline
  BY <1>6, RebaselineKeeps DEF PollRebaseline
<1>7. CASE ReadAppend
  BY <1>7, ReadAppendKeeps
<1>8. CASE ExpireMessages
  BY <1>8, ExpireMessagesKeeps
<1>9. CASE PrepareSource
  BY <1>9, PrepareSourceKeeps
<1>10. CASE UNCHANGED usageVars
  <2>1. UNCHANGED <<reading, lineKinds, file, live, counted, replay>>
    BY <1>10 DEF usageVars
  <2>2. Upto(live.offset)' = Upto(live.offset) /\ Upto(live.from)' = Upto(live.from)
          /\ Upto(replay.offset)' = Upto(replay.offset) /\ Watch' = Watch
    BY <2>1 DEF Upto, Watch
  <2>3. FileFacts'
    BY <2>1 DEF UsageInv, FileFacts
  <2>4. ReplayFacts'
    BY <2>1, <2>2 DEF UsageInv, ReplayFacts
  <2>5. LiveFacts'
    BY <2>1, <2>2 DEF UsageInv, LiveFacts
  <2> QED
    BY <2>3, <2>4, <2>5 DEF UsageInv
<1> QED
  BY <1>1, <1>2, <1>3, <1>4, <1>5, <1>6, <1>7, <1>8, <1>9, <1>10 DEF UsageNext

(* Both readers keep their books: what the ledger holds of a body is one   *)
(* pass over the records before its checkpoint, and what the sampler       *)
(* remembers of a file is, as long as it forgot nothing, every message's   *)
(* largest output and the last running total.                              *)
THEOREM UsageInvariant == UsageSpec => []UsageInv
<1>1. UsageInit => UsageInv
  BY UsageStarts
<1>2. UsageInv /\ [UsageNext]_usageVars => UsageInv'
  BY UsageStepKeeps
<1> QED
  BY <1>1, <1>2, PTL DEF UsageSpec

(* throughput_recovery.go:130-133, live_token_rate.go:697-768: a token is  *)
(* counted once, however a transcript's records come in portions, whatever *)
(* is torn, rewritten or dropped in between.                               *)
THEOREM CountedOnce == UsageSpec => []UsageIsCountedOnce
<1>1. UsageInv => ReplayIsOnePass
  <2> SUFFICES ASSUME UsageInv, replay.body = file.body
               PROVE  replay.tokens = Produced(Upto(replay.offset))
    BY DEF ReplayIsOnePass
  <2>1. replay.offset \in 0..Len(file.lines) /\ Knows(replay, 0, Upto(replay.offset))
    BY DEF UsageInv, ReplayFacts
  <2>2. replay.tokens = 0 + Produced(Upto(replay.offset))
    BY <2>1 DEF Knows
  <2>3. file.lines \in Seq(Records)
    BY DEF UsageInv, FileFacts
  <2>4. Upto(replay.offset) \in Seq(Records)
    BY <2>1, <2>3, PartsOfFile DEF Upto
  <2>5. Produced(Upto(replay.offset)) \in Nat
    BY <2>4, ProducedIsNumber
  <2> QED
    BY <2>2, <2>5
<1>2. UsageInv => LiveCountsGrowth
  BY DEF UsageInv, LiveFacts, LiveCountsGrowth
<1>3. UsageInv => UsageIsCountedOnce
  BY <1>1, <1>2 DEF UsageIsCountedOnce
<1> QED
  BY <1>3, UsageInvariant, PTL

(***************************************************************************)
(* Concurrency: times in their order, and the steps of a walk.             *)
(***************************************************************************)
(* The numbers of S in their order, n of them.                             *)
Orders(e, n, S) ==
  /\ n \in Nat
  /\ Len(e) = n
  /\ \A i \in 1..n : e[i] \in S
  /\ \A i, j \in 1..n : i < j => e[i] < e[j]
  /\ \A t \in S : \E i \in 1..n : e[i] = t

(* Times in their order are all of them, each once.                        *)
LEMMA ChronologicalOrders ==
  ASSUME NEW S \in SUBSET Int, IsFiniteSet(S)
  PROVE  Orders(Chronological(S), Cardinality(S), S)
<1>1. Chronological(S) = InOrder(S)
  BY DEF Chronological, InOrder
<1>2. /\ Cardinality(S) \in Nat
      /\ \A i \in 1..Cardinality(S) : InOrder(S)[i] \in S
      /\ \A i, j \in 1..Cardinality(S) : i < j => InOrder(S)[i] < InOrder(S)[j]
      /\ \A t \in S : \E i \in 1..Cardinality(S) : InOrder(S)[i] = t
  BY InOrderIsAll
<1>3. Len(InOrder(S)) = Cardinality(S)
  <2> DEFINE n == Cardinality(S)
             f == [i \in 1..n |-> CHOOSE t \in S : Cardinality({u \in S : u < t}) = i - 1]
  <2>1. n \in Nat
    BY <1>2
  <2> HIDE DEF n
  <2>2. Len(f) = n
    BY <2>1
  <2> QED
    BY <2>2 DEF InOrder, n
<1> QED
  BY <1>1, <1>2, <1>3 DEF Orders

(* Numbers in their order up to t are the first so many.                   *)
LEMMA UpToIsFirst ==
  ASSUME NEW e, NEW n, NEW S \in SUBSET Int, Orders(e, n, S), NEW t \in Int
  PROVE  /\ Cardinality({j \in 1..n : e[j] <= t}) \in 0..n
         /\ \A j \in 1..n : e[j] <= t <=> j <= Cardinality({i \in 1..n : e[i] <= t})
<1> DEFINE B == {j \in 1..n : e[j] <= t}
<1>1. n \in Nat /\ (\A i \in 1..n : e[i] \in Int) /\ \A i, j \in 1..n : i < j => e[i] < e[j]
  BY DEF Orders
<1>2. CASE B = {}
  <2>1. Cardinality(B) = 0
    BY <1>2, FS_EmptySet
  <2>2. \A j \in 1..n : ~(e[j] <= t)
    BY <1>2
  <2> HIDE DEF B
  <2>3. \A j \in 1..n : ~(j <= 0)
    BY <1>1
  <2> QED
    BY <1>1, <2>1, <2>2, <2>3 DEF B
<1>3. CASE B # {}
  <2>1. B \in SUBSET (1..n)
    OBVIOUS
  <2> HIDE DEF B
  <2>2. PICK m \in B : \A j \in B : j <= m
    BY <1>1, <1>3, <2>1, RangeHasMax DEF HasMax
  <2>3. m \in 1..n /\ e[m] <= t
    BY <2>1, <2>2 DEF B
  <2>4. ASSUME NEW j \in 1..n
        PROVE  j \in B <=> j <= m
    <3>1. CASE j <= m
      <4>1. e[j] <= e[m]
        BY <1>1, <2>3, <3>1
      <4>2. e[j] <= t
        BY <1>1, <2>3, <4>1
      <4> QED
        BY <3>1, <4>2 DEF B
    <3>2. CASE ~(j <= m)
      BY <2>2, <3>2
    <3> QED
      BY <3>1, <3>2
  <2>5. B = 1..m
    <3>1. \A j : j \in B <=> j \in 1..n /\ j <= m
      BY <2>1, <2>4
    <3>2. \A j : j \in 1..m <=> j \in 1..n /\ j <= m
      BY <1>1, <2>3
    <3> QED
      BY <3>1, <3>2
  <2>6. Cardinality(1..m) = m
    BY <2>3, FS_Interval
  <2>7. Cardinality(B) = m
    BY <2>5, <2>6, Zenon
  <2>8. \A j \in 1..n : e[j] <= t <=> j <= m
    BY <2>4 DEF B
  <2> QED
    BY <1>1, <2>3, <2>7, <2>8 DEF B
<1> QED
  BY <1>2, <1>3

(* From lo to m, g starts with a and takes a step of act to each index.    *)
Recursion(g, a, act, lo, m) ==
  \A i \in lo..m : g[i] = IF i = lo THEN a ELSE act[i][g[i - 1]]

(* A function that starts with a and takes a step to each index has values *)
(* in any set the steps stay in.                                           *)
LEMMA RecursionExists ==
  ASSUME NEW A, NEW a \in A, NEW act \in [Nat -> [A -> A]], NEW lo \in Nat
  PROVE  \A n \in Nat : \E g \in [lo..(lo + n) -> A] : Recursion(g, a, act, lo, lo + n)
<1> DEFINE Good(g, n) == \A i \in lo..(lo + n) : g[i] = IF i = lo THEN a ELSE act[i][g[i - 1]]
           N == {n \in Nat : \E g \in [lo..(lo + n) -> A] : Good(g, n)}
<1>1. 0 \in N
  <2> DEFINE g == [i \in lo..(lo + 0) |-> a]
  <2>1. g \in [lo..(lo + 0) -> A]
    OBVIOUS
  <2>2. Good(g, 0)
    OBVIOUS
  <2> QED
    BY <2>1, <2>2
<1>2. ASSUME NEW n \in Nat, n \in N
      PROVE  n + 1 \in N
  <2>1. PICK g \in [lo..(lo + n) -> A] : Good(g, n)
    BY <1>2
  <2> DEFINE m == lo + n
             h == [i \in lo..(m + 1) |-> IF i = m + 1 THEN act[m + 1][g[m]] ELSE g[i]]
  <2>2. m \in Nat /\ lo <= m /\ m + 1 # lo /\ m \in lo..m /\ m + 1 \in Nat /\ (m + 1) - 1 = m
        /\ lo + (n + 1) = m + 1
    OBVIOUS
  <2>3. g \in [lo..m -> A] /\ \A i \in lo..m : g[i] = IF i = lo THEN a ELSE act[i][g[i - 1]]
    BY <2>1
  <2> HIDE DEF m
  <2>4. act[m + 1] \in [A -> A] /\ g[m] \in A
    BY <2>2, <2>3
  <2>5. act[m + 1][g[m]] \in A
    BY <2>4
  <2>6. \A i \in lo..(m + 1) : i # m + 1 => i \in lo..m /\ (i # lo => i - 1 \in lo..m)
    BY <2>2
  <2>7. h \in [lo..(m + 1) -> A]
    BY <2>3, <2>5, <2>6
  <2>8. ASSUME NEW i \in lo..(m + 1)
        PROVE  h[i] = IF i = lo THEN a ELSE act[i][h[i - 1]]
    <3>1. CASE i = m + 1
      <4>1. m \in lo..(m + 1) /\ m # m + 1
        BY <2>2
      <4>2. h[m] = g[m]
        BY <4>1
      <4> QED
        BY <2>2, <3>1, <4>2
    <3>2. CASE i # m + 1 /\ i = lo
      BY <2>3, <2>6, <3>2
    <3>3. CASE i # m + 1 /\ i # lo
      <4>1. i \in lo..m /\ i - 1 \in lo..(m + 1) /\ i - 1 # m + 1
        BY <2>2, <3>3
      <4>2. h[i] = g[i] /\ h[i - 1] = g[i - 1]
        BY <3>3, <4>1
      <4> QED
        BY <2>3, <3>3, <4>1, <4>2
    <3> QED
      BY <3>1, <3>2, <3>3
  <2> HIDE DEF h
  <2>9. \E f \in [lo..(lo + (n + 1)) -> A] : Good(f, n + 1)
    BY <2>2, <2>7, <2>8
  <2> QED
    BY <2>9
<1> HIDE DEF N
<1>3. \A n \in Nat : n \in N
  BY <1>1, <1>2, SetInduction
<1> QED
  BY <1>3, Zenon DEF N, Recursion

(* The values of a function on a finite set are finite in number.          *)
LEMMA ImageIsFinite ==
  ASSUME NEW S, IsFiniteSet(S), NEW f, DOMAIN f = S, f = [x \in S |-> f[x]]
  PROVE  IsFiniteSet({f[x] : x \in S})
<1> DEFINE T == {f[x] : x \in S}
<1>1. f \in [S -> T] /\ \A t \in T : \E x \in S : f[x] = t
  OBVIOUS
<1> HIDE DEF T
<1>2. f \in Surjection(S, T)
  BY <1>1, Fun_IsSurj
<1>3. IsFiniteSet(T)
  BY <1>2, FS_Surjection
<1> QED
  BY <1>3 DEF T

(***************************************************************************)
(* The sweep.                                                              *)
(***************************************************************************)
(* What a window leaves of the spans: each begins before it ends.          *)
IsCut(spans) ==
  IsFiniteSet(spans) /\ \A s \in spans : s.start \in Int /\ s.end \in Int /\ s.start < s.end

OpenAt(spans, t) == {s \in spans : s.start <= t /\ t < s.end}
OpenBefore(spans, t) == {s \in spans : s.start < t /\ t <= s.end}
StartAt(spans, t) == {s \in spans : s.start = t}
EndAt(spans, t) == {s \in spans : s.end = t}
EdgeTimes(spans) == {s.start : s \in spans} \union {s.end : s \in spans}

(* The edges of a sweep are in their order.                                *)
LEMMA EdgesInOrder ==
  ASSUME NEW spans, IsCut(spans)
  PROVE  /\ EdgeTimes(spans) \in SUBSET Int
         /\ Orders(Edges(spans), Cardinality(EdgeTimes(spans)), EdgeTimes(spans))
<1>1. IsFiniteSet(spans) /\ \A s \in spans : s.start \in Int /\ s.end \in Int
  BY DEF IsCut
<1>2. IsFiniteSet({s.start : s \in spans})
  <2> DEFINE f == [s \in spans |-> s.start]
  <2>1. DOMAIN f = spans /\ f = [s \in spans |-> f[s]] /\ {s.start : s \in spans} = {f[s] : s \in spans}
    OBVIOUS
  <2> HIDE DEF f
  <2>2. IsFiniteSet({f[s] : s \in spans})
    BY <1>1, <2>1, ImageIsFinite
  <2> QED
    BY <2>1, <2>2, Zenon
<1>3. IsFiniteSet({s.end : s \in spans})
  <2> DEFINE f == [s \in spans |-> s.end]
  <2>1. DOMAIN f = spans /\ f = [s \in spans |-> f[s]] /\ {s.end : s \in spans} = {f[s] : s \in spans}
    OBVIOUS
  <2> HIDE DEF f
  <2>2. IsFiniteSet({f[s] : s \in spans})
    BY <1>1, <2>1, ImageIsFinite
  <2> QED
    BY <2>1, <2>2, Zenon
<1>4. EdgeTimes(spans) \in SUBSET Int
  BY <1>1 DEF EdgeTimes
<1>5. IsFiniteSet(EdgeTimes(spans))
  BY <1>2, <1>3, FS_Union, Zenon DEF EdgeTimes
<1>6. Edges(spans) = Chronological(EdgeTimes(spans))
  BY Zenon DEF Edges, EdgeTimes
<1> QED
  BY <1>4, <1>5, <1>6, ChronologicalOrders

(* At t the spans that end there close and the spans that begin there open. *)
LEMMA OpenAndClose ==
  ASSUME NEW spans, IsCut(spans), NEW t \in Int
  PROVE  /\ Cardinality(OpenAt(spans, t)) \in Nat /\ Cardinality(OpenBefore(spans, t)) \in Nat
         /\ Cardinality(StartAt(spans, t)) \in Nat /\ Cardinality(EndAt(spans, t)) \in Nat
         /\ Cardinality(OpenAt(spans, t))
              = Cardinality(OpenBefore(spans, t)) - Cardinality(EndAt(spans, t))
                + Cardinality(StartAt(spans, t))
<1> DEFINE O == OpenAt(spans, t)
           B == OpenBefore(spans, t)
           S == StartAt(spans, t)
           E == EndAt(spans, t)
           R == B \ E
<1>1. IsFiniteSet(spans) /\ \A s \in spans : s.start \in Int /\ s.end \in Int /\ s.start < s.end
  BY DEF IsCut
<1>2. O \in SUBSET spans /\ B \in SUBSET spans /\ S \in SUBSET spans /\ E \in SUBSET spans
  BY DEF OpenAt, OpenBefore, StartAt, EndAt
<1>3. O = R \union S
  BY <1>1 DEF OpenAt, OpenBefore, StartAt, EndAt
<1>4. R \cap S = {} /\ B \cap E = E
  BY <1>1 DEF OpenAt, OpenBefore, StartAt, EndAt
<1> HIDE DEF O, B, S, E
<1>5. IsFiniteSet(O) /\ IsFiniteSet(B) /\ IsFiniteSet(S) /\ IsFiniteSet(E)
  BY <1>1, <1>2, FS_Subset
<1>6. Cardinality(O) \in Nat /\ Cardinality(B) \in Nat /\ Cardinality(S) \in Nat /\ Cardinality(E) \in Nat
  BY <1>5, FS_CardinalityType
<1>7. IsFiniteSet(R) /\ Cardinality(R) = Cardinality(B) - Cardinality(B \cap E)
  BY <1>5, FS_Difference
<1>8. Cardinality(B \cap E) = Cardinality(E)
  BY <1>4, Zenon
<1> HIDE DEF R
<1>9. Cardinality(R \union S) = Cardinality(R) + Cardinality(S) - Cardinality(R \cap S)
  BY <1>5, <1>7, FS_Union
<1>10. Cardinality(R \cap S) = 0
  BY <1>4, FS_EmptySet, Zenon
<1>11. Cardinality(O) = Cardinality(R \union S)
  BY <1>3, Zenon
<1>12. Cardinality(O) = Cardinality(B) - Cardinality(E) + Cardinality(S)
  BY <1>6, <1>7, <1>8, <1>9, <1>10, <1>11
<1> QED
  BY <1>6, <1>12 DEF O, B, S, E

(* Nothing opens or closes between two edges.                              *)
LEMMA BetweenEdges ==
  ASSUME NEW spans, IsCut(spans), NEW t \in Int, NEW u \in Int, t < u,
         \A x \in EdgeTimes(spans) : ~(t < x /\ x < u)
  PROVE  /\ OpenBefore(spans, u) = OpenAt(spans, t)
         /\ u \notin EdgeTimes(spans) => OpenAt(spans, u) = OpenAt(spans, t)
<1>1. \A s \in spans : s.start \in Int /\ s.end \in Int
  BY DEF IsCut
<1>2. \A s \in spans : s.start \in EdgeTimes(spans) /\ s.end \in EdgeTimes(spans)
  BY DEF EdgeTimes
<1>3. \A s \in spans : ~(t < s.start /\ s.start < u) /\ ~(t < s.end /\ s.end < u)
  BY <1>2
<1>4. \A s \in spans : (s.start < u <=> s.start <= t) /\ (u <= s.end <=> t < s.end)
  BY <1>1, <1>3
<1>5. OpenBefore(spans, u) = OpenAt(spans, t)
  BY <1>4 DEF OpenBefore, OpenAt
<1>6. ASSUME u \notin EdgeTimes(spans)
      PROVE  OpenAt(spans, u) = OpenAt(spans, t)
  <2>1. \A s \in spans : s.start # u /\ s.end # u
    BY <1>2, <1>6
  <2>2. \A s \in spans : (s.start <= u <=> s.start <= t) /\ (u < s.end <=> t < s.end)
    BY <1>1, <1>4, <2>1
  <2> QED
    BY <2>2 DEF OpenAt
<1> QED
  BY <1>5, <1>6

(* Before the first edge nothing is open.                                  *)
LEMMA BeforeEdges ==
  ASSUME NEW spans, IsCut(spans), NEW t \in Int
  PROVE  /\ (\A x \in EdgeTimes(spans) : t < x) => OpenAt(spans, t) = {}
         /\ (\A x \in EdgeTimes(spans) : t <= x) => OpenBefore(spans, t) = {}
<1>1. \A s \in spans : s.start \in Int
  BY DEF IsCut
<1>2. \A s \in spans : s.start \in EdgeTimes(spans)
  BY DEF EdgeTimes
<1>3. ASSUME \A x \in EdgeTimes(spans) : t < x
      PROVE  OpenAt(spans, t) = {}
  <2>1. \A s \in spans : ~(s.start <= t)
    BY <1>1, <1>2, <1>3
  <2> QED
    BY <2>1 DEF OpenAt
<1>4. ASSUME \A x \in EdgeTimes(spans) : t <= x
      PROVE  OpenBefore(spans, t) = {}
  <2>1. \A s \in spans : ~(s.start < t)
    BY <1>1, <1>2, <1>4
  <2> QED
    BY <2>1 DEF OpenBefore
<1> QED
  BY <1>3, <1>4

(* The spans open at each edge, and before it.                             *)
LEMMA EdgeByEdge ==
  ASSUME NEW spans, IsCut(spans), NEW n, Orders(Edges(spans), n, EdgeTimes(spans)),
         NEW i \in 1..n
  PROVE  OpenBefore(spans, Edges(spans)[i])
           = IF i = 1 THEN {} ELSE OpenAt(spans, Edges(spans)[i - 1])
<1> DEFINE e == Edges(spans)
<1>1. EdgeTimes(spans) \in SUBSET Int
  BY EdgesInOrder
<1>2. /\ n \in Nat /\ \A j \in 1..n : e[j] \in EdgeTimes(spans) /\ e[j] \in Int
      /\ \A j, k \in 1..n : j < k => e[j] < e[k]
      /\ \A t \in EdgeTimes(spans) : \E j \in 1..n : e[j] = t
  BY <1>1 DEF Orders
<1> HIDE DEF e
<1>3. CASE i = 1
  <2>1. \A j \in 1..n : e[1] <= e[j]
    BY <1>2, <1>3
  <2>2. \A x \in EdgeTimes(spans) : e[i] <= x
    BY <1>2, <1>3, <2>1
  <2>3. e[i] \in Int
    BY <1>2
  <2>4. OpenBefore(spans, e[i]) = {}
    BY <2>2, <2>3, BeforeEdges
  <2> QED
    BY <1>3, <2>4 DEF e
<1>4. CASE i # 1
  <2> DEFINE t == e[i - 1]
             u == e[i]
  <2>1. i - 1 \in 1..n /\ i - 1 < i
    BY <1>2, <1>4
  <2>2. t \in Int /\ u \in Int /\ t < u
    BY <1>2, <2>1
  <2>3. ASSUME NEW j \in 1..n
        PROVE  ~(t < e[j] /\ e[j] < u)
    <3>1. j <= i - 1 \/ i <= j
      OBVIOUS
    <3>2. e[j] <= e[i - 1] \/ e[i] <= e[j]
      BY <1>2, <2>1, <3>1
    <3>3. e[j] \in Int
      BY <1>2
    <3> QED
      BY <2>2, <3>2, <3>3
  <2>4. \A x \in EdgeTimes(spans) : ~(t < x /\ x < u)
    BY <1>2, <2>3
  <2> HIDE DEF t, u
  <2>5. OpenBefore(spans, u) = OpenAt(spans, t)
    BY <2>2, <2>4, BetweenEdges
  <2> QED
    BY <1>4, <2>5 DEF t, u, e
<1> QED
  BY <1>3, <1>4

(* At any time there are open the spans that are at the last edge not later. *)
LEMMA OpenAtLastEdge ==
  ASSUME NEW spans, IsCut(spans), NEW n, Orders(Edges(spans), n, EdgeTimes(spans)),
         NEW t \in Int, NEW k \in 0..n, \A j \in 1..n : Edges(spans)[j] <= t <=> j <= k
  PROVE  OpenAt(spans, t) = IF k = 0 THEN {} ELSE OpenAt(spans, Edges(spans)[k])
<1> DEFINE e == Edges(spans)
<1>1. EdgeTimes(spans) \in SUBSET Int
  BY EdgesInOrder
<1>2. /\ n \in Nat /\ \A j \in 1..n : e[j] \in EdgeTimes(spans) /\ e[j] \in Int
      /\ \A j, l \in 1..n : j < l => e[j] < e[l]
      /\ \A x \in EdgeTimes(spans) : \E j \in 1..n : e[j] = x
      /\ \A j \in 1..n : e[j] <= t <=> j <= k
  BY <1>1 DEF Orders
<1> HIDE DEF e
<1>3. CASE k = 0
  <2>1. \A j \in 1..n : t < e[j]
    BY <1>2, <1>3
  <2>2. \A x \in EdgeTimes(spans) : t < x
    BY <1>2, <2>1
  <2> QED
    BY <1>3, <2>2, BeforeEdges
<1>4. CASE k # 0
  <2> DEFINE u == e[k]
  <2>1. k \in 1..n /\ u \in Int /\ u <= t
    BY <1>2, <1>4
  <2>2. ASSUME NEW j \in 1..n
        PROVE  e[j] <= u \/ t < e[j]
    <3>1. j <= k => e[j] <= u
      BY <1>2, <2>1
    <3> QED
      BY <1>2, <2>1, <3>1
  <2>3. \A x \in EdgeTimes(spans) : x <= u \/ t < x
    BY <1>2, <2>2
  <2> HIDE DEF u
  <2>4. CASE u = t
    BY <1>4, <2>4 DEF u, e
  <2>5. CASE u < t
    <3>1. \A x \in EdgeTimes(spans) : ~(u < x /\ x < t)
      BY <1>1, <2>1, <2>3
    <3>2. t \notin EdgeTimes(spans)
      BY <2>1, <2>3, <2>5
    <3>3. OpenAt(spans, t) = OpenAt(spans, u)
      BY <2>1, <2>5, <3>1, <3>2, BetweenEdges
    <3> QED
      BY <1>4, <3>3 DEF u, e
  <2> QED
    BY <2>1, <2>4, <2>5
<1> QED
  BY <1>3, <1>4

(* What the sweep has after some edges.                                    *)
Counts == [current : Int, value : Int, at : Int]
Zero == [current |-> 0, value |-> 0, at |-> 0]

(* What the edges of one time do to the counts.                            *)
LEMMA TakeFacts ==
  ASSUME NEW spans, IsCut(spans), NEW a \in Counts, NEW t \in Int
  PROVE  LET starts == Cardinality(StartAt(spans, t))
             current == a.current - Cardinality(EndAt(spans, t)) + starts
         IN  /\ Take(a, spans, t) \in Counts
             /\ Take(a, spans, t).current = current
             /\ starts > 0 /\ current > a.value
                  => Take(a, spans, t).value = current /\ Take(a, spans, t).at = t
             /\ ~(starts > 0 /\ current > a.value)
                  => Take(a, spans, t).value = a.value /\ Take(a, spans, t).at = a.at
<1> DEFINE starts == Cardinality(StartAt(spans, t))
           ends == Cardinality(EndAt(spans, t))
           current == a.current - ends + starts
<1>1. starts \in Nat /\ ends \in Nat
  BY OpenAndClose
<1>2. Take(a, spans, t) = IF starts > 0 /\ current > a.value
                          THEN [current |-> current, value |-> current, at |-> t]
                          ELSE [a EXCEPT !.current = current]
  BY Zenon DEF Take, StartAt, EndAt
<1> HIDE DEF starts, ends
<1>3. current \in Int /\ a.value \in Int /\ a.at \in Int
  BY <1>1 DEF Counts
<1>4. [a EXCEPT !.current = current] = [current |-> current, value |-> a.value, at |-> a.at]
  BY DEF Counts
<1> HIDE DEF current
<1>5. Take(a, spans, t) \in Counts /\ Take(a, spans, t).current = current
  BY <1>2, <1>3, <1>4 DEF Counts
<1>6. ASSUME starts > 0 /\ current > a.value
      PROVE  Take(a, spans, t).value = current /\ Take(a, spans, t).at = t
  BY <1>2, <1>6
<1>7. ASSUME ~(starts > 0 /\ current > a.value)
      PROVE  Take(a, spans, t).value = a.value /\ Take(a, spans, t).at = a.at
  BY <1>2, <1>4, <1>7
<1> QED
  BY <1>5, <1>6, <1>7 DEF starts, ends, current

(* The sweep takes one edge after the other.                               *)
LEMMA SweepIsLast ==
  ASSUME NEW spans, IsCut(spans), NEW n, Orders(Edges(spans), n, EdgeTimes(spans)),
         NEW m \in 0..n
  PROVE  \E g \in [0..m -> Counts] :
           /\ \A i \in 0..m : g[i] = IF i = 0 THEN Zero ELSE Take(g[i - 1], spans, Edges(spans)[i])
           /\ Sweep(spans, m) = g[m]
<1> DEFINE e == Edges(spans)
           act == [i \in Nat |-> [a \in Counts |-> IF i \in 1..n THEN Take(a, spans, e[i]) ELSE a]]
<1>1. \A i \in 1..n : e[i] \in Int
  BY EdgesInOrder DEF Orders
<1>2. n \in Nat /\ m \in Nat
  BY DEF Orders
<1> HIDE DEF e
<1>3. act \in [Nat -> [Counts -> Counts]]
  <2>1. \A i \in 1..n : \A a \in Counts : Take(a, spans, e[i]) \in Counts
    BY <1>1, TakeFacts
  <2> QED
    BY <2>1
<1>4. \A i \in 1..n : i \in Nat /\ \A a \in Counts : act[i][a] = Take(a, spans, e[i])
  BY <1>2
<1> HIDE DEF act
<1>5. Zero \in Counts /\ 0 \in Nat
  BY DEF Zero, Counts
<1>6. PICK g \in [0..(0 + m) -> Counts] : Recursion(g, Zero, act, 0, 0 + m)
  BY <1>2, <1>3, <1>5, RecursionExists
<1>7. 0 + m = m
  BY <1>2
<1>8. g \in [0..m -> Counts] /\ \A i \in 0..m : g[i] = IF i = 0 THEN Zero ELSE act[i][g[i - 1]]
  BY <1>6, <1>7 DEF Recursion
<1>9. ASSUME NEW i \in 0..m
      PROVE  g[i] = IF i = 0 THEN Zero ELSE Take(g[i - 1], spans, e[i])
  <2>1. CASE i = 0
    BY <1>8, <2>1
  <2>2. CASE i # 0
    <3>1. i - 1 \in 0..m /\ i \in 1..n
      BY <1>2, <2>2
    <3>2. g[i - 1] \in Counts
      BY <1>8, <3>1
    <3> QED
      BY <1>4, <1>8, <2>2, <3>1, <3>2
  <2> QED
    BY <2>1, <2>2
<1>10. g = [i \in 0..m |-> IF i = 0 THEN Zero ELSE Take(g[i - 1], spans, e[i])]
  <2>1. g = [i \in 0..m |-> g[i]]
    BY <1>8
  <2> QED
    BY <1>9, <2>1, Zenon
<1> DEFINE Is(f) == f = [i \in 0..m |-> IF i = 0 THEN Zero ELSE Take(f[i - 1], spans, e[i])]
           h == CHOOSE f : Is(f)
<1>11. Is(h)
  BY <1>10, Zenon
<1>12. Sweep(spans, m) = h[m]
  BY Zenon DEF Sweep, Zero, e
<1> HIDE DEF h
<1>13. \A i \in 0..m : h[i] = IF i = 0 THEN Zero ELSE Take(h[i - 1], spans, e[i])
  BY <1>11, Zenon
<1>14. \A i \in 0..m : h[i] \in Counts
  <2> DEFINE N == {i \in Nat : i <= m => h[i] \in Counts}
  <2>1. 0 \in N
    BY <1>2, <1>5, <1>13
  <2>2. ASSUME NEW i \in Nat, i \in N
        PROVE  i + 1 \in N
    <3>1. CASE i + 1 <= m
      <4>1. i + 1 \in 0..m /\ i + 1 # 0 /\ (i + 1) - 1 = i /\ h[i] \in Counts /\ i + 1 \in 1..n
        BY <1>2, <2>2, <3>1
      <4>2. h[i + 1] = Take(h[i], spans, e[i + 1])
        BY <1>13, <4>1
      <4>3. \A a \in Counts : \A x \in Int : Take(a, spans, x) \in Counts
        BY TakeFacts
      <4>4. h[i + 1] \in Counts
        BY <1>1, <4>1, <4>2, <4>3, Zenon
      <4> QED
        BY <4>4
    <3>2. CASE ~(i + 1 <= m)
      BY <3>2
    <3> QED
      BY <3>1, <3>2
  <2> HIDE DEF N
  <2>3. \A i \in Nat : i \in N
    BY <2>1, <2>2, SetInduction
  <2> QED
    BY <2>3 DEF N
<1>15. h \in [0..m -> Counts]
  <2>1. h = [i \in 0..m |-> IF i = 0 THEN Zero ELSE Take(h[i - 1], spans, e[i])]
    BY <1>11
  <2>2. h = [i \in 0..m |-> h[i]]
    BY <2>1
  <2> QED
    BY <1>14, <2>2
<1> QED
  BY <1>12, <1>13, <1>15 DEF e

(* After i edges: how many spans are open, the most there were, and where  *)
(* there were as many for the first time.  count is the spans open at each *)
(* edge of e.                                                              *)
Swept(count, e, i, a) ==
  /\ a.current = IF i = 0 THEN 0 ELSE count[i]
  /\ a.value >= 0
  /\ \A j \in 1..i : count[j] <= a.value
  /\ a.value > 0 => \E j \in 1..i : /\ a.at = e[j] /\ count[j] = a.value
                                    /\ \A l \in 1..(j - 1) : count[l] < a.value

(* One edge more.                                                          *)
LEMMA SweptNext ==
  ASSUME NEW n \in Nat, NEW count \in [1..n -> Nat], NEW e, NEW i \in 1..n,
         NEW a \in Counts, NEW b \in Counts, NEW starts \in Nat, NEW ends \in Nat,
         Swept(count, e, i - 1, a),
         count[i] = a.current - ends + starts, b.current = count[i],
         starts > 0 /\ count[i] > a.value => b.value = count[i] /\ b.at = e[i],
         ~(starts > 0 /\ count[i] > a.value) => b.value = a.value /\ b.at = a.at
  PROVE  Swept(count, e, i, b)
<1> DEFINE v == a.value
           w == b.value
<1>1. v \in Int /\ w \in Int /\ count[i] \in Nat /\ a.current \in Int
  BY DEF Counts
<1>2. \A j \in 1..i : count[j] \in Nat
  OBVIOUS
<1>3. a.current = (IF i - 1 = 0 THEN 0 ELSE count[i - 1]) /\ v >= 0
  BY DEF Swept
<1>4. \A j \in 1..(i - 1) : count[j] <= v
  BY DEF Swept
<1>5. a.current <= v
  BY <1>1, <1>3, <1>4
<1>6. \A j \in 1..i : j = i \/ j \in 1..(i - 1)
  OBVIOUS
<1>7. i # 0 /\ i \in 1..i /\ \A j \in 1..(i - 1) : j \in 1..i
  OBVIOUS
<1>8. CASE starts > 0 /\ count[i] > v
  <2>1. w = count[i] /\ b.at = e[i]
    BY <1>8
  <2>2. w >= 0
    BY <1>1, <2>1
  <2>3. \A j \in 1..(i - 1) : count[j] < w
    BY <1>1, <1>2, <1>4, <1>7, <1>8, <2>1
  <2>4. \A j \in 1..i : count[j] <= w
    <3>1. \A j \in 1..(i - 1) : count[j] <= w
      BY <1>1, <1>2, <1>7, <2>3
    <3>2. count[i] <= w
      BY <1>1, <2>1
    <3> HIDE DEF w
    <3> QED
      BY <1>6, <3>1, <3>2, Zenon
  <2>5. \E j \in 1..i : b.at = e[j] /\ count[j] = w /\ \A l \in 1..(j - 1) : count[l] < w
    BY <1>7, <2>1, <2>3
  <2> HIDE DEF v, w
  <2> QED
    BY <1>7, <2>2, <2>4, <2>5 DEF Swept, w
<1>9. CASE ~(starts > 0 /\ count[i] > v)
  <2>1. w = v /\ b.at = a.at
    BY <1>9
  <2>2. count[i] <= v
    <3>1. starts = 0 => count[i] <= a.current
      BY <1>1
    <3>2. starts = 0 \/ starts > 0
      OBVIOUS
    <3> QED
      BY <1>1, <1>5, <1>9, <3>1, <3>2
  <2>3. \A j \in 1..i : count[j] <= w
    BY <1>4, <1>6, <2>1, <2>2
  <2>4. w > 0 => \E j \in 1..i : b.at = e[j] /\ count[j] = w /\ \A l \in 1..(j - 1) : count[l] < w
    <3>1. w > 0 => \E j \in 1..(i - 1) : a.at = e[j] /\ count[j] = v /\ \A l \in 1..(j - 1) : count[l] < v
      BY <2>1 DEF Swept
    <3> HIDE DEF v, w
    <3> QED
      BY <1>7, <2>1, <3>1
  <2>5. w >= 0
    BY <1>3, <2>1
  <2> HIDE DEF v, w
  <2> QED
    BY <1>7, <2>3, <2>4, <2>5 DEF Swept, w
<1> QED
  BY <1>8, <1>9

(* The spans open at each edge.                                            *)
OpenPerEdge(spans) ==
  [j \in 1..Len(Edges(spans)) |-> Cardinality(OpenAt(spans, Edges(spans)[j]))]

(* The sweep has what is open at each edge.                                *)
LEMMA SweepFacts ==
  ASSUME NEW spans, IsCut(spans), NEW n, Orders(Edges(spans), n, EdgeTimes(spans)),
         NEW m \in 0..n
  PROVE  /\ OpenPerEdge(spans) \in [1..n -> Nat]
         /\ Sweep(spans, m) \in Counts
         /\ Swept(OpenPerEdge(spans), Edges(spans), m, Sweep(spans, m))
<1> DEFINE e == Edges(spans)
           count == OpenPerEdge(spans)
<1>1. /\ n \in Nat /\ m \in Nat /\ Len(e) = n
      /\ \A i \in 1..n : e[i] \in Int
  BY EdgesInOrder DEF Orders
<1>2. \A i \in 1..n : count[i] = Cardinality(OpenAt(spans, e[i]))
  BY <1>1 DEF OpenPerEdge
<1>3. count \in [1..n -> Nat]
  <2>1. \A i \in 1..n : Cardinality(OpenAt(spans, e[i])) \in Nat
    BY <1>1, OpenAndClose
  <2>2. count = [i \in 1..n |-> Cardinality(OpenAt(spans, e[i]))]
    BY <1>1 DEF OpenPerEdge
  <2> QED
    BY <2>1, <2>2
<1>4. PICK g \in [0..m -> Counts] :
        /\ \A i \in 0..m : g[i] = IF i = 0 THEN Zero ELSE Take(g[i - 1], spans, e[i])
        /\ Sweep(spans, m) = g[m]
  BY SweepIsLast
<1>5. \A i \in 1..n : OpenBefore(spans, e[i]) = IF i = 1 THEN {} ELSE OpenAt(spans, e[i - 1])
  BY EdgeByEdge
<1> HIDE DEF e, count
<1> DEFINE N == {i \in Nat : i <= m => Swept(count, e, i, g[i])}
<1>6. 0 \in N
  <2>1. g[0] = Zero
    BY <1>1, <1>4
  <2>2. Swept(count, e, 0, Zero)
    BY DEF Swept, Zero
  <2> QED
    BY <2>1, <2>2
<1>7. ASSUME NEW k \in Nat, k \in N
      PROVE  k + 1 \in N
  <2>1. CASE k + 1 <= m
    <3> DEFINE i == k + 1
               a == g[k]
               x == e[i]
    <3>1. i \in 1..n /\ i \in 0..m /\ k \in 0..m /\ i # 0 /\ i - 1 = k /\ k <= m
      BY <1>1, <2>1
    <3>2. a \in Counts /\ g[i] \in Counts /\ g[i] = Take(a, spans, x) /\ x \in Int /\ Swept(count, e, k, a)
      BY <1>1, <1>4, <1>7, <3>1
    <3>3. count[i] = Cardinality(OpenAt(spans, x))
      BY <1>2, <3>1
    <3>4. Cardinality(OpenBefore(spans, x)) = a.current
      <4>1. CASE i = 1
        <5>1. OpenBefore(spans, x) = {} /\ k = 0
          BY <1>5, <3>1, <4>1
        <5>2. a.current = 0
          BY <3>2, <5>1 DEF Swept
        <5> QED
          BY <5>1, <5>2, FS_EmptySet, Zenon
      <4>2. CASE i # 1
        <5>1. k # 0 /\ k \in 1..n
          BY <1>1, <3>1, <4>2
        <5>2. OpenBefore(spans, x) = OpenAt(spans, e[k])
          BY <1>5, <3>1, <4>2
        <5>3. a.current = count[k]
          BY <3>2, <5>1 DEF Swept
        <5>4. count[k] = Cardinality(OpenAt(spans, e[k]))
          BY <1>2, <5>1
        <5> QED
          BY <5>2, <5>3, <5>4, Zenon
      <4> QED
        BY <4>1, <4>2
    <3> DEFINE starts == Cardinality(StartAt(spans, x))
               ends == Cardinality(EndAt(spans, x))
               b == g[i]
    <3> HIDE DEF i, a, x
    <3>5. /\ starts \in Nat /\ ends \in Nat
          /\ Cardinality(OpenAt(spans, x)) = Cardinality(OpenBefore(spans, x)) - ends + starts
      BY <3>2, OpenAndClose
    <3>6. /\ Take(a, spans, x).current = a.current - ends + starts
          /\ starts > 0 /\ a.current - ends + starts > a.value
               => Take(a, spans, x).value = a.current - ends + starts /\ Take(a, spans, x).at = x
          /\ ~(starts > 0 /\ a.current - ends + starts > a.value)
               => Take(a, spans, x).value = a.value /\ Take(a, spans, x).at = a.at
      BY <3>2, TakeFacts
    <3> HIDE DEF starts, ends, b
    <3>7. count[i] = a.current - ends + starts
      BY <3>3, <3>4, <3>5
    <3>8. b = Take(a, spans, x) /\ x = e[i] /\ b \in Counts
      BY <3>2 DEF b, x
    <3>9. /\ b.current = count[i]
          /\ starts > 0 /\ count[i] > a.value => b.value = count[i] /\ b.at = e[i]
          /\ ~(starts > 0 /\ count[i] > a.value) => b.value = a.value /\ b.at = a.at
      BY <3>6, <3>7, <3>8, Zenon
    <3>10. Swept(count, e, i - 1, a)
      BY <3>1, <3>2
    <3>11. Swept(count, e, i, b)
      BY <1>1, <1>3, <3>1, <3>2, <3>5, <3>7, <3>8, <3>9, <3>10, SweptNext
    <3> QED
      BY <3>11 DEF i, b
  <2>2. CASE ~(k + 1 <= m)
    BY <2>2
  <2> QED
    BY <2>1, <2>2
<1> HIDE DEF N
<1>8. \A i \in Nat : i \in N
  BY <1>6, <1>7, SetInduction
<1>9. Swept(count, e, m, g[m]) /\ g[m] \in Counts
  BY <1>1, <1>4, <1>8 DEF N
<1> QED
  BY <1>3, <1>4, <1>9 DEF e, count

(* As many spans are open at any time as after the edges up to it.         *)
LEMMA OpenAfterEdges ==
  ASSUME NEW spans, IsCut(spans), NEW n, Orders(Edges(spans), n, EdgeTimes(spans)),
         NEW t \in Int
  PROVE  LET k == Cardinality({j \in 1..n : Edges(spans)[j] <= t})
         IN  /\ k \in 0..n
             /\ \A j \in 1..n : Edges(spans)[j] <= t <=> j <= k
             /\ Cardinality(OpenAt(spans, t)) = IF k = 0 THEN 0 ELSE OpenPerEdge(spans)[k]
<1> DEFINE e == Edges(spans)
           k == Cardinality({j \in 1..n : e[j] <= t})
<1>1. EdgeTimes(spans) \in SUBSET Int /\ n \in Nat /\ Len(e) = n
  BY EdgesInOrder DEF Orders
<1>2. k \in 0..n /\ \A j \in 1..n : e[j] <= t <=> j <= k
  BY <1>1, UpToIsFirst
<1> HIDE DEF k
<1>3. OpenAt(spans, t) = IF k = 0 THEN {} ELSE OpenAt(spans, e[k])
  BY <1>2, OpenAtLastEdge
<1> HIDE DEF e
<1>4. CASE k = 0
  <2>1. Cardinality(OpenAt(spans, t)) = 0
    BY <1>3, <1>4, FS_EmptySet
  <2> QED
    BY <1>2, <1>4, <2>1 DEF k, e
<1>5. CASE k # 0
  <2>1. k \in 1..Len(e)
    BY <1>1, <1>2, <1>5
  <2>2. OpenPerEdge(spans)[k] = Cardinality(OpenAt(spans, e[k]))
    BY <2>1 DEF OpenPerEdge, e
  <2>3. Cardinality(OpenAt(spans, t)) = OpenPerEdge(spans)[k]
    BY <1>3, <1>5, <2>2
  <2> QED
    BY <1>2, <1>5, <2>3 DEF k, e
<1> QED
  BY <1>4, <1>5

(* After the edges up to t the sweep has the spans open at t.              *)
LEMMA SweepToTime ==
  ASSUME NEW spans, IsCut(spans), NEW t \in Int
  PROVE  Sweep(spans, Cardinality({j \in 1..Len(Edges(spans)) : Edges(spans)[j] <= t})).current
           = Cardinality(OpenAt(spans, t))
<1> DEFINE e == Edges(spans)
           n == Len(e)
           k == Cardinality({j \in 1..n : e[j] <= t})
<1>1. Orders(e, n, EdgeTimes(spans))
  BY EdgesInOrder DEF Orders
<1> HIDE DEF n
<1>2. k \in 0..n /\ Cardinality(OpenAt(spans, t)) = IF k = 0 THEN 0 ELSE OpenPerEdge(spans)[k]
  BY <1>1, OpenAfterEdges
<1> HIDE DEF k
<1>3. Swept(OpenPerEdge(spans), e, k, Sweep(spans, k))
  BY <1>1, <1>2, SweepFacts
<1>4. Sweep(spans, k).current = Cardinality(OpenAt(spans, t))
  BY <1>2, <1>3 DEF Swept
<1> QED
  BY <1>4 DEF n, k

(* The whole sweep has the most spans that are ever open, and the first    *)
(* time there are as many.                                                 *)
LEMMA SweepToEnd ==
  ASSUME NEW spans, IsCut(spans)
  PROVE  LET w == Sweep(spans, Len(Edges(spans)))
         IN  /\ w.value \in Int /\ w.at \in Int
             /\ \A t \in Int : Cardinality(OpenAt(spans, t)) <= w.value
             /\ w.value > 0 =>
                  /\ Cardinality(OpenAt(spans, w.at)) = w.value
                  /\ \A t \in Int : t < w.at => Cardinality(OpenAt(spans, t)) < w.value
<1> DEFINE e == Edges(spans)
           n == Len(e)
           w == Sweep(spans, n)
           count == OpenPerEdge(spans)
           K(t) == Cardinality({j \in 1..n : e[j] <= t})
<1>1. Orders(e, n, EdgeTimes(spans)) /\ EdgeTimes(spans) \in SUBSET Int
  BY EdgesInOrder DEF Orders
<1>2. n \in Nat /\ (\A i \in 1..n : e[i] \in Int) /\ \A i, j \in 1..n : i < j => e[i] < e[j]
  BY <1>1 DEF Orders
<1> HIDE DEF n
<1>3. n \in 0..n
  BY <1>2
<1>4. count \in [1..n -> Nat] /\ w \in Counts /\ Swept(count, e, n, w)
  BY <1>1, <1>3, SweepFacts
<1>5. ASSUME NEW t \in Int
      PROVE  /\ K(t) \in 0..n
             /\ \A j \in 1..n : e[j] <= t <=> j <= K(t)
             /\ Cardinality(OpenAt(spans, t)) = IF K(t) = 0 THEN 0 ELSE count[K(t)]
  BY <1>1, OpenAfterEdges
<1> HIDE DEF w, count, e, K
<1>6. w.value \in Int /\ w.at \in Int /\ w.value >= 0 /\ \A j \in 1..n : count[j] <= w.value
  BY <1>4 DEF Counts, Swept
<1>7. ASSUME NEW t \in Int
      PROVE  Cardinality(OpenAt(spans, t)) <= w.value
  BY <1>2, <1>5, <1>6
<1>8. ASSUME w.value > 0
      PROVE  /\ Cardinality(OpenAt(spans, w.at)) = w.value
             /\ \A t \in Int : t < w.at => Cardinality(OpenAt(spans, t)) < w.value
  <2>1. PICK j \in 1..n : w.at = e[j] /\ count[j] = w.value /\ \A l \in 1..(j - 1) : count[l] < w.value
    BY <1>4, <1>8 DEF Swept
  <2>2. ASSUME NEW t \in Int, t < e[j]
        PROVE  Cardinality(OpenAt(spans, t)) < w.value
    <3>1. K(t) \in 0..n /\ ~(j <= K(t))
      BY <1>2, <1>5, <2>2
    <3>2. K(t) = 0 \/ K(t) \in 1..(j - 1)
      BY <1>2, <3>1
    <3>3. K(t) # 0 => count[K(t)] < w.value
      BY <2>1, <3>2
    <3> QED
      BY <1>5, <1>8, <3>3
  <2>3. Cardinality(OpenAt(spans, e[j])) = w.value
    <3> DEFINE t == e[j]
    <3>1. t \in Int /\ t <= t
      BY <1>2
    <3>2. j <= K(t) /\ K(t) \in 0..n
      BY <1>5, <3>1
    <3>3. K(t) = j
      <4>1. SUFFICES ASSUME K(t) # j PROVE FALSE
        OBVIOUS
      <4>2. K(t) \in 1..n /\ j < K(t) /\ K(t) <= K(t)
        BY <1>2, <3>2, <4>1
      <4>3. e[K(t)] <= t
        BY <1>5, <3>1, <4>2
      <4>4. e[j] < e[K(t)] /\ e[K(t)] \in Int
        BY <1>2, <4>2
      <4> QED
        BY <3>1, <4>3, <4>4
    <3> HIDE DEF t
    <3>4. Cardinality(OpenAt(spans, t)) = count[j]
      BY <1>5, <3>1, <3>3
    <3> QED
      BY <2>1, <3>4 DEF t
  <2> QED
    BY <2>1, <2>2, <2>3
<1> QED
  BY <1>6, <1>7, <1>8 DEF w, n, e

(* A window cuts each span it keeps, and leaves open what is open in it.   *)
IsSpans(spans) == IsFiniteSet(spans) /\ \A s \in spans : s.start \in Int /\ s.end \in Int
CutTo(q, from, to) == [of |-> q, start |-> Later(q.start, from), end |-> Sooner(q.end, to)]

(* What a window keeps are the spans it cuts, each where one is left.      *)
LEMMA InClipped ==
  ASSUME NEW spans, IsSpans(spans), NEW from \in Int, NEW to \in Int, from < to
  PROVE  /\ \A s \in Clipped(spans, from, to) :
              s.of \in spans /\ s = CutTo(s.of, from, to) /\ s.start < s.end
         /\ \A q \in spans : CutTo(q, from, to).start < CutTo(q, from, to).end
                               => CutTo(q, from, to) \in Clipped(spans, from, to)
<1> DEFINE M(q) == CutTo(q, from, to)
           In == {q \in spans : q.end >= from /\ q.start < to}
<1>1. Clipped(spans, from, to) = {s \in {M(q) : q \in In} : s.end > s.start}
  BY Zenon DEF Clipped, CutTo
<1>2. \A q : M(q).of = q
  BY DEF CutTo
<1>3. ASSUME NEW q \in spans, M(q).start < M(q).end
      PROVE  q \in In
  BY <1>3 DEF CutTo, Later, Sooner, IsSpans
<1>4. \A q \in spans : M(q).start \in Int /\ M(q).end \in Int
  BY DEF CutTo, Later, Sooner, IsSpans
<1> HIDE DEF M
<1>5. ASSUME NEW s \in Clipped(spans, from, to)
      PROVE  s.of \in spans /\ s = M(s.of) /\ s.start < s.end
  <2>1. PICK q \in In : s = M(q)
    BY <1>1
  <2>2. s.of = q /\ q \in spans
    BY <1>2, <2>1
  <2>3. s.end > s.start
    BY <1>1
  <2> QED
    BY <1>4, <2>1, <2>2, <2>3
<1>6. ASSUME NEW q \in spans, M(q).start < M(q).end
      PROVE  M(q) \in Clipped(spans, from, to)
  BY <1>1, <1>3, <1>4, <1>6
<1> QED
  BY <1>5, <1>6 DEF M

(* In the window as many are open of the spans as of those cut.            *)
LEMMA ClippedFacts ==
  ASSUME NEW spans, IsSpans(spans), NEW from \in Int, NEW to \in Int, from < to
  PROVE  /\ IsCut(Clipped(spans, from, to))
         /\ \A s \in Clipped(spans, from, to) : from <= s.start /\ s.end <= to
         /\ \A t \in from..(to - 1) :
              Cardinality(OpenAt(Clipped(spans, from, to), t)) = Cardinality(OpenAt(spans, t))
<1> DEFINE C == Clipped(spans, from, to)
           M(q) == CutTo(q, from, to)
           f == [s \in C |-> s.of]
<1>1. IsFiniteSet(spans) /\ \A q \in spans : q.start \in Int /\ q.end \in Int
  BY DEF IsSpans
<1>2. \A s \in C : s.of \in spans /\ s = M(s.of) /\ s.start < s.end
  BY InClipped
<1>3. \A q \in spans : M(q).start < M(q).end => M(q) \in C
  BY InClipped
<1>4. \A q \in spans : /\ M(q).of = q
                       /\ M(q).start = Later(q.start, from) /\ M(q).end = Sooner(q.end, to)
                       /\ M(q).start \in Int /\ M(q).end \in Int
  BY <1>1 DEF CutTo, Later, Sooner
<1>5. \A q \in spans : from <= M(q).start /\ M(q).end <= to
  BY <1>1, <1>4 DEF Later, Sooner
<1>6. ASSUME NEW t \in from..(to - 1), NEW q \in spans
      PROVE  M(q).start <= t /\ t < M(q).end <=> q.start <= t /\ t < q.end
  BY <1>1, <1>4 DEF Later, Sooner
<1> HIDE DEF C, M
<1>7. IsFiniteSet(C)
  <2>1. f \in [C -> spans] /\ \A a, b \in C : f[a] = f[b] => a = b
    <3>1. f \in [C -> spans]
      BY <1>2
    <3>2. ASSUME NEW a \in C, NEW b \in C, f[a] = f[b]
          PROVE  a = b
      <4>1. a.of = b.of
        BY <3>2
      <4> QED
        BY <1>2, <4>1
    <3> QED
      BY <3>1, <3>2
  <2> HIDE DEF f
  <2>2. f \in Injection(C, spans)
    BY <2>1, Fun_IsInj
  <2> QED
    BY <1>1, <2>2, FS_Injection
<1>8. \A s \in C : s.start \in Int /\ s.end \in Int /\ s.start < s.end /\ from <= s.start /\ s.end <= to
  BY <1>2, <1>4, <1>5
<1>9. ASSUME NEW t \in from..(to - 1)
      PROVE  Cardinality(OpenAt(C, t)) = Cardinality(OpenAt(spans, t))
  <2> DEFINE S == OpenAt(spans, t)
             T == OpenAt(C, t)
             g == [q \in S |-> M(q)]
  <2>1. t \in Int
    OBVIOUS
  <2>2. \A q : q \in S <=> q \in spans /\ q.start <= t /\ t < q.end
    BY DEF OpenAt
  <2>3. \A s : s \in T <=> s \in C /\ s.start <= t /\ t < s.end
    BY DEF OpenAt
  <2> HIDE DEF S, T
  <2>4. ASSUME NEW q \in S
        PROVE  M(q) \in T
    <3>1. q \in spans /\ M(q).start <= t /\ t < M(q).end
      BY <1>6, <2>2
    <3>2. M(q).start < M(q).end
      BY <1>4, <2>1, <3>1
    <3> QED
      BY <1>3, <2>3, <3>1, <3>2
  <2>5. ASSUME NEW s \in T
        PROVE  \E q \in S : M(q) = s
    <3>1. s \in C /\ s.start <= t /\ t < s.end
      BY <2>3
    <3>2. s.of \in spans /\ M(s.of) = s
      BY <1>2, <3>1
    <3>3. s.of \in S
      <4> DEFINE q == s.of
      <4>1. q \in spans /\ M(q).start <= t /\ t < M(q).end
        BY <3>1, <3>2
      <4> HIDE DEF q
      <4>2. q \in S
        BY <1>6, <2>2, <4>1
      <4> QED
        BY <4>2 DEF q
    <3> QED
      BY <3>2, <3>3
  <2>6. \A a, b \in S : M(a) = M(b) => a = b
    BY <1>4, <2>2
  <2>7. g \in [S -> T]
    BY <2>4
  <2>8. (\A a, b \in S : g[a] = g[b] => a = b) /\ \A s \in T : \E q \in S : g[q] = s
    BY <2>5, <2>6
  <2> HIDE DEF g
  <2>9. g \in Bijection(S, T)
    BY <2>7, <2>8, Fun_IsBij
  <2>10. IsFiniteSet(S)
    <3>1. S \in SUBSET spans
      BY <2>2
    <3> QED
      BY <1>1, <3>1, FS_Subset
  <2>11. ExistsBijection(S, T)
    BY <2>9 DEF ExistsBijection
  <2>12. Cardinality(T) = Cardinality(S)
    BY <2>10, <2>11, FS_Bijection
  <2> QED
    BY <2>12 DEF S, T
<1>10. IsCut(C)
  BY <1>7, <1>8 DEF IsCut
<1> QED
  BY <1>8, <1>9, <1>10 DEF C

(* Whether the peak of a window is the most spans that hold in it.         *)
PeakIs(peak, spans, moments) ==
  /\ \A t \in moments : Covering(spans, t) <= peak.value
  /\ peak.value > 0 =>
       /\ peak.at \in moments
       /\ Covering(spans, peak.at) = peak.value
       /\ \A t \in moments : t < peak.at => Covering(spans, t) < peak.value

(* The peak of a window is the most spans that hold in it.                 *)
LEMMA PeakFacts ==
  ASSUME NEW spans, IsSpans(spans), NEW from \in Int, NEW to \in Int, from < to
  PROVE  PeakIs(PeakConcurrency(spans, from, to), spans, from..(to - 1))
<1> DEFINE C == Clipped(spans, from, to)
           w == Sweep(C, Len(Edges(C)))
           peak == PeakConcurrency(spans, from, to)
           moments == from..(to - 1)
<1>1. /\ IsCut(C)
      /\ \A s \in C : from <= s.start /\ s.end <= to
      /\ \A t \in moments : Cardinality(OpenAt(C, t)) = Cardinality(OpenAt(spans, t))
  BY ClippedFacts
<1>2. \A t : Covering(spans, t) = Cardinality(OpenAt(spans, t))
  BY Zenon DEF Covering, OpenAt
<1>3. peak = [value |-> w.value, at |-> w.at]
  BY Zenon DEF PeakConcurrency
<1>4. peak.value = w.value /\ peak.at = w.at
  BY <1>3
<1> HIDE DEF C
<1>5. /\ w.value \in Int /\ w.at \in Int
      /\ \A t \in Int : Cardinality(OpenAt(C, t)) <= w.value
      /\ w.value > 0 =>
           /\ Cardinality(OpenAt(C, w.at)) = w.value
           /\ \A t \in Int : t < w.at => Cardinality(OpenAt(C, t)) < w.value
  BY <1>1, SweepToEnd
<1> HIDE DEF w, peak
<1>6. \A t \in moments : t \in Int
  OBVIOUS
<1>7. \A t \in moments : Covering(spans, t) <= peak.value
  BY <1>1, <1>2, <1>4, <1>5, <1>6
<1>8. ASSUME w.value > 0
      PROVE  /\ w.at \in moments
             /\ Covering(spans, w.at) = w.value
             /\ \A t \in moments : t < w.at => Covering(spans, t) < w.value
  <2>1. OpenAt(C, w.at) # {}
    <3>1. Cardinality(OpenAt(C, w.at)) # 0
      BY <1>5, <1>8
    <3> QED
      BY <3>1, FS_EmptySet
  <2>2. PICK s \in C : s.start <= w.at /\ w.at < s.end
    BY <2>1 DEF OpenAt
  <2>3. s.start \in Int /\ s.end \in Int /\ from <= s.start /\ s.end <= to
    BY <1>1 DEF IsCut
  <2>4. w.at \in moments
    BY <1>5, <2>2, <2>3
  <2>5. Covering(spans, w.at) = w.value
    BY <1>1, <1>2, <1>5, <1>8, <2>4
  <2>6. \A t \in moments : t < w.at => Covering(spans, t) < w.value
    BY <1>1, <1>2, <1>5, <1>6, <1>8
  <2> QED
    BY <2>4, <2>5, <2>6
<1> HIDE DEF moments
<1>9. PeakIs(peak, spans, moments)
  BY <1>4, <1>7, <1>8 DEF PeakIs
<1> QED
  BY <1>9 DEF peak, moments

(* The grid of a trend begins and ends with its window.                    *)
LEMMA GridFacts ==
  ASSUME NEW from \in Int, NEW to \in Int, from < to, NEW every \in Nat \ {0}
  PROVE  LET grid == TrendPointTimes(from, to, every)
         IN  /\ Len(grid) \in Nat /\ Len(grid) > 0
             /\ grid[1] = from /\ grid[Len(grid)] = to
             /\ \A i \in 1..Len(grid) : i # Len(grid) => grid[i] \in from..(to - 1)
<1> DEFINE S == {t \in from..to : (t - from) % every = 0} \union {to}
           n == Cardinality(S)
           grid == TrendPointTimes(from, to, every)
<1>1. S \in SUBSET Int /\ (\A t \in S : from <= t /\ t <= to) /\ to \in S
  OBVIOUS
<1>2. from \in S
  <2>1. (from - from) % every = 0
    <3>1. from - from = 0
      OBVIOUS
    <3>2. 0 % every = 0
      OBVIOUS
    <3> QED
      BY <3>1, <3>2
  <2> QED
    BY <2>1
<1>3. IsFiniteSet(S)
  <2>1. S \in SUBSET (from..to)
    OBVIOUS
  <2> HIDE DEF S
  <2> QED
    BY <2>1, FS_Interval, FS_Subset
<1>4. grid = Chronological(S)
  BY Zenon DEF TrendPointTimes
<1> HIDE DEF S
<1>5. Orders(grid, n, S)
  BY <1>1, <1>3, <1>4, ChronologicalOrders
<1> HIDE DEF n, grid
<1>6. /\ n \in Nat /\ Len(grid) = n
      /\ \A i \in 1..n : grid[i] \in S /\ grid[i] \in Int
      /\ \A i, j \in 1..n : i < j => grid[i] < grid[j]
      /\ \A t \in S : \E i \in 1..n : grid[i] = t
  BY <1>1, <1>5 DEF Orders
<1>7. PICK i \in 1..n : grid[i] = from
  BY <1>2, <1>6
<1>8. PICK k \in 1..n : grid[k] = to
  BY <1>1, <1>6
<1>9. grid[1] = from
  <2>1. 1 \in 1..n /\ (1 < i => grid[1] < grid[i]) /\ (1 < i \/ i = 1)
    BY <1>6
  <2>2. from <= grid[1] /\ grid[1] \in Int
    BY <1>1, <1>6, <2>1
  <2> QED
    BY <1>7, <2>1, <2>2
<1>10. grid[n] = to
  <2>1. n \in 1..n /\ (k < n => grid[k] < grid[n]) /\ (k < n \/ k = n)
    BY <1>6
  <2>2. grid[n] <= to /\ grid[n] \in Int
    BY <1>1, <1>6, <2>1
  <2> QED
    BY <1>8, <2>1, <2>2
<1>11. ASSUME NEW j \in 1..n, j # n
       PROVE  grid[j] \in from..(to - 1)
  <2>1. j < n /\ n \in 1..n
    BY <1>6, <1>11
  <2>2. grid[j] < to /\ from <= grid[j] /\ grid[j] \in Int
    BY <1>1, <1>6, <1>10, <2>1
  <2> QED
    BY <2>2
<1>12. n > 0
  BY <1>6
<1> QED
  BY <1>6, <1>9, <1>10, <1>11, <1>12 DEF grid

(* A point of the series is the spans that hold there.                     *)
LEMMA SeriesFacts ==
  ASSUME NEW spans, IsSpans(spans), NEW grid, NEW from \in Int, NEW to \in Int, from < to,
         grid[1] = from, grid[Len(grid)] = to, NEW i \in 1..Len(grid),
         grid[i] \in from..(to - 1)
  PROVE  ConcurrencySeries(spans, grid)[i] = Covering(spans, grid[i])
<1> DEFINE C == Clipped(spans, from, to)
           t == grid[i]
<1>1. ConcurrencySeries(spans, grid)[i]
        = Sweep(C, Cardinality({j \in 1..Len(Edges(C)) : Edges(C)[j] <= t})).current
  BY DEF ConcurrencySeries
<1>2. IsCut(C) /\ \A u \in from..(to - 1) : Cardinality(OpenAt(C, u)) = Cardinality(OpenAt(spans, u))
  BY ClippedFacts
<1>3. t \in Int
  OBVIOUS
<1>4. Covering(spans, t) = Cardinality(OpenAt(spans, t))
  BY Zenon DEF Covering, OpenAt
<1>5. Cardinality(OpenAt(C, t)) = Cardinality(OpenAt(spans, t))
  BY <1>2
<1> HIDE DEF C, t
<1>6. Sweep(C, Cardinality({j \in 1..Len(Edges(C)) : Edges(C)[j] <= t})).current
        = Cardinality(OpenAt(C, t))
  BY <1>2, <1>3, SweepToTime
<1>7. ConcurrencySeries(spans, grid)[i] = Covering(spans, t)
  BY <1>1, <1>4, <1>5, <1>6, Zenon
<1> QED
  BY <1>7 DEF t

(***************************************************************************)
(* Bursts.                                                                 *)
(***************************************************************************)
(* A walk over the events of a trace: the burst it is in and those closed. *)
Walks(times) == [start : times, prev : times, closed : SUBSET (times \X times)]
Parts(acc) == acc.closed \union {<<acc.start, acc.prev>>}
StartOf(t) == [start |-> t, prev |-> t, closed |-> {}]

(* An event no other precedes by the gap or less.                          *)
Opens(times, u) == \A v \in times : v < u => u - v > IdleGap

(* The walk has come to t: bursts begin where a silence ends, and two      *)
(* events no further apart than the gap are in one.                        *)
WalkedTo(times, t, acc) ==
  /\ acc.prev = t
  /\ \A u \in times : (\E b \in Parts(acc) : b[1] = u) <=> u <= t /\ Opens(times, u)
  /\ \A u, v \in times : u <= v /\ v <= t /\ v - u <= IdleGap
                           => \E b \in Parts(acc) : b[1] <= u /\ v <= b[2]
  /\ \A u \in times : u <= t /\ t - u <= IdleGap => acc.start <= u

(* The first event begins a burst.                                         *)
LEMMA WalkStarts ==
  ASSUME NEW times \in SUBSET Nat, NEW t \in times, \A u \in times : t <= u
  PROVE  StartOf(t) \in Walks(times) /\ WalkedTo(times, t, StartOf(t))
<1> DEFINE acc == StartOf(t)
<1>1. acc.start = t /\ acc.prev = t /\ acc.closed = {} /\ acc \in Walks(times)
  BY DEF StartOf, Walks
<1> HIDE DEF acc
<1>2. \A b : b \in Parts(acc) <=> b = <<t, t>>
  BY <1>1 DEF Parts
<1>3. \A u \in times : u \in Nat /\ t \in Nat
  OBVIOUS
<1>4. ASSUME NEW u \in times
      PROVE  (\E b \in Parts(acc) : b[1] = u) <=> u <= t /\ Opens(times, u)
  <2>1. (\E b \in Parts(acc) : b[1] = u) <=> u = t
    <3>1. ASSUME NEW b \in Parts(acc), b[1] = u PROVE u = t
      <4>1. b = <<t, t>>
        BY <1>2
      <4> QED
        BY <3>1, <4>1
    <3>2. <<t, t>> \in Parts(acc) /\ <<t, t>>[1] = t
      BY <1>2
    <3> QED
      BY <3>1, <3>2
  <2>2. u = t <=> u <= t
    BY <1>3
  <2>3. u = t => Opens(times, u)
    BY <1>3 DEF Opens
  <2> QED
    BY <2>1, <2>2, <2>3, Zenon
<1>5. ASSUME NEW u \in times, NEW v \in times, u <= v, v <= t
      PROVE  \E b \in Parts(acc) : b[1] <= u /\ v <= b[2]
  <2>1. u = t /\ v = t /\ <<t, t>> \in Parts(acc) /\ t <= t
    BY <1>2, <1>3, <1>5
  <2> QED
    BY <2>1
<1>6. \A u \in times : acc.start <= u
  BY <1>1
<1>7. WalkedTo(times, t, acc)
  BY <1>1, <1>4, <1>5, <1>6, Zenon DEF WalkedTo
<1> QED
  BY <1>1, <1>7 DEF acc

(* The next event goes into the burst, or begins one.                      *)
LEMMA WalkFollows ==
  ASSUME NEW times \in SUBSET Nat, NEW t \in times, NEW u \in times, t < u,
         \A v \in times : v <= t \/ u <= v,
         NEW acc \in Walks(times), WalkedTo(times, t, acc)
  PROVE  Follow(acc, u) \in Walks(times) /\ WalkedTo(times, u, Follow(acc, u))
<1> DEFINE next == Follow(acc, u)
<1>1. /\ acc.start \in times /\ acc.prev \in times /\ acc.closed \in SUBSET (times \X times)
      /\ acc = [start |-> acc.start, prev |-> acc.prev, closed |-> acc.closed]
  BY DEF Walks
<1>2. /\ acc.prev = t
      /\ \A x \in times : (\E b \in Parts(acc) : b[1] = x) <=> x <= t /\ Opens(times, x)
      /\ \A x, v \in times : x <= v /\ v <= t /\ v - x <= IdleGap
                              => \E b \in Parts(acc) : b[1] <= x /\ v <= b[2]
      /\ \A x \in times : x <= t /\ t - x <= IdleGap => acc.start <= x
  BY Zenon DEF WalkedTo
<1>3. t \in Nat /\ u \in Nat /\ IdleGap \in Nat /\ acc.start \in Nat /\ \A v \in times : v \in Nat
  BY <1>1, ConcurrencyAssumption
<1>4. acc.start <= t
  BY <1>2, <1>3
<1>5. CASE u - t > IdleGap
  <2>1. next = [start |-> u, prev |-> u, closed |-> Parts(acc)]
    BY <1>2, <1>5 DEF Follow, Parts
  <2>2. Parts(acc) \in SUBSET (times \X times)
    BY <1>1 DEF Parts
  <2>3. next.start = u /\ next.prev = u /\ next.closed = Parts(acc) /\ next \in Walks(times)
    BY <2>1, <2>2 DEF Walks
  <2> HIDE DEF next
  <2>4. \A b : b \in Parts(next) <=> b \in Parts(acc) \/ b = <<u, u>>
    BY <2>3 DEF Parts
  <2>5. Opens(times, u)
    BY <1>3, <1>5 DEF Opens
  <2>6. ASSUME NEW x \in times
        PROVE  (\E b \in Parts(next) : b[1] = x) <=> x <= u /\ Opens(times, x)
    <3>1. (\E b \in Parts(next) : b[1] = x) <=> (\E b \in Parts(acc) : b[1] = x) \/ x = u
      <4>1. ASSUME NEW b \in Parts(next), b[1] = x
            PROVE  b \in Parts(acc) \/ x = u
        <5>1. b = <<u, u>> => b[1] = u
          OBVIOUS
        <5> QED
          BY <2>4, <4>1, <5>1
      <4>2. <<u, u>> \in Parts(next) /\ <<u, u>>[1] = u /\ \A b \in Parts(acc) : b \in Parts(next)
        BY <2>4
      <4> QED
        BY <4>1, <4>2, Zenon
    <3>2. x <= u <=> x <= t \/ x = u
      BY <1>3
    <3>3. (\E b \in Parts(acc) : b[1] = x) <=> x <= t /\ Opens(times, x)
      BY <1>2
    <3> QED
      BY <2>5, <3>1, <3>2, <3>3, Zenon
  <2>7. ASSUME NEW x \in times, NEW v \in times, x <= v, v <= u, v - x <= IdleGap
        PROVE  \E b \in Parts(next) : b[1] <= x /\ v <= b[2]
    <3>1. CASE v <= t
      <4>1. PICK b \in Parts(acc) : b[1] <= x /\ v <= b[2]
        BY <1>2, <2>7, <3>1
      <4> QED
        BY <2>4, <4>1
    <3>2. CASE ~(v <= t)
      <4>1. v = u /\ x = u
        BY <1>3, <1>5, <2>7, <3>2
      <4>2. <<u, u>> \in Parts(next) /\ u <= u
        BY <1>3, <2>4
      <4> QED
        BY <4>1, <4>2
    <3> QED
      BY <3>1, <3>2
  <2>8. ASSUME NEW x \in times, x <= u, u - x <= IdleGap
        PROVE  next.start <= x
    <3>1. x = u
      BY <1>3, <1>5, <2>8
    <3> QED
      BY <1>3, <2>3, <3>1
  <2>9. WalkedTo(times, u, next)
    BY <2>3, <2>6, <2>7, <2>8, Zenon DEF WalkedTo
  <2> QED
    BY <2>3, <2>9 DEF next
<1>6. CASE ~(u - t > IdleGap)
  <2>1. next = [start |-> acc.start, prev |-> u, closed |-> acc.closed]
    <3>1. next = [acc EXCEPT !.prev = u]
      BY <1>2, <1>6 DEF Follow
    <3> QED
      BY <1>1, <3>1
  <2>2. next.start = acc.start /\ next.prev = u /\ next.closed = acc.closed /\ next \in Walks(times)
    BY <1>1, <2>1 DEF Walks
  <2> HIDE DEF next
  <2>3. /\ \A b : b \in Parts(next) <=> b \in acc.closed \/ b = <<acc.start, u>>
        /\ \A b : b \in Parts(acc) <=> b \in acc.closed \/ b = <<acc.start, t>>
    BY <1>2, <2>2 DEF Parts
  <2>4. ~Opens(times, u)
    BY <1>3, <1>6 DEF Opens
  <2>5. ASSUME NEW x \in times
        PROVE  (\E b \in Parts(next) : b[1] = x) <=> x <= u /\ Opens(times, x)
    <3>1. (\E b \in Parts(next) : b[1] = x) <=> (\E b \in Parts(acc) : b[1] = x)
      <4> DEFINE old == <<acc.start, t>>
                 new == <<acc.start, u>>
      <4>1. old[1] = acc.start /\ new[1] = acc.start /\ old \in Parts(acc) /\ new \in Parts(next)
        BY <2>3
      <4>2. \A b : b \in acc.closed => b \in Parts(acc) /\ b \in Parts(next)
        BY <2>3
      <4>3. \A b \in Parts(next) : b \in acc.closed \/ b = new
        BY <2>3
      <4>4. \A b \in Parts(acc) : b \in acc.closed \/ b = old
        BY <2>3
      <4> HIDE DEF old, new
      <4> QED
        BY <4>1, <4>2, <4>3, <4>4, Zenon
    <3>2. x <= u <=> x <= t \/ x = u
      BY <1>3
    <3>3. (\E b \in Parts(acc) : b[1] = x) <=> x <= t /\ Opens(times, x)
      BY <1>2
    <3> QED
      BY <2>4, <3>1, <3>2, <3>3, Zenon
  <2>6. ASSUME NEW x \in times, x <= u, u - x <= IdleGap
        PROVE  next.start <= x
    <3>1. CASE x <= t
      <4>1. t - x <= IdleGap
        BY <1>3, <2>6
      <4> QED
        BY <1>2, <2>2, <3>1, <4>1
    <3>2. CASE ~(x <= t)
      BY <1>3, <1>4, <2>2, <3>2
    <3> QED
      BY <3>1, <3>2
  <2>7. ASSUME NEW x \in times, NEW v \in times, x <= v, v <= u, v - x <= IdleGap
        PROVE  \E b \in Parts(next) : b[1] <= x /\ v <= b[2]
    <3>1. <<acc.start, u>> \in Parts(next) /\ <<acc.start, u>>[1] = acc.start /\ <<acc.start, u>>[2] = u
      BY <2>3
    <3>2. CASE v <= t
      <4>1. PICK b \in Parts(acc) : b[1] <= x /\ v <= b[2]
        BY <1>2, <2>7, <3>2
      <4>2. CASE b \in acc.closed
        BY <2>3, <4>1, <4>2
      <4>3. CASE b = <<acc.start, t>>
        BY <2>7, <3>1, <4>1, <4>3
      <4> QED
        BY <2>3, <4>2, <4>3
    <3>3. CASE ~(v <= t)
      <4>1. v = u
        BY <1>3, <2>7, <3>3
      <4>2. acc.start <= x
        BY <2>2, <2>6, <2>7, <4>1
      <4> QED
        BY <2>7, <3>1, <4>2
    <3> QED
      BY <3>2, <3>3
  <2>8. WalkedTo(times, u, next)
    BY <2>2, <2>5, <2>6, <2>7, Zenon DEF WalkedTo
  <2> QED
    BY <2>2, <2>8 DEF next
<1> QED
  BY <1>5, <1>6

(* A walk stays among the events of its trace.                             *)
LEMMA FollowWalks ==
  ASSUME NEW times, NEW acc \in Walks(times), NEW u \in times
  PROVE  Follow(acc, u) \in Walks(times)
<1>1. /\ acc.start \in times /\ acc.prev \in times /\ acc.closed \in SUBSET (times \X times)
      /\ acc = [start |-> acc.start, prev |-> acc.prev, closed |-> acc.closed]
  BY DEF Walks
<1>2. CASE u - acc.prev > IdleGap
  <2>1. Follow(acc, u) = [start |-> u, prev |-> u, closed |-> acc.closed \cup {<<acc.start, acc.prev>>}]
    BY <1>2 DEF Follow
  <2>2. acc.closed \cup {<<acc.start, acc.prev>>} \in SUBSET (times \X times)
    BY <1>1
  <2> QED
    BY <2>1, <2>2 DEF Walks
<1>3. CASE ~(u - acc.prev > IdleGap)
  <2>1. Follow(acc, u) = [acc EXCEPT !.prev = u]
    BY <1>3 DEF Follow
  <2>2. [acc EXCEPT !.prev = u] = [start |-> acc.start, prev |-> u, closed |-> acc.closed]
    BY <1>1
  <2> QED
    BY <1>1, <2>1, <2>2 DEF Walks
<1> QED
  BY <1>2, <1>3

(* The bursts of a trace are those of a walk over all its events.          *)
SpanOf(r, a, b) == NormalizedInterval([trace |-> r, start |-> a, end |-> b])
BurstFor(r, b) == SpanOf(r, b[1], b[2])

(* The walk comes to the last event.                                       *)
LEMMA BurstsAreWalked ==
  ASSUME NEW r, NEW times \in SUBSET Nat, IsFiniteSet(times), times # {}
  PROVE  \E acc \in Walks(times) : \E t \in times :
           /\ \A u \in times : u <= t
           /\ WalkedTo(times, t, acc)
           /\ BurstsOf(r, times) = {BurstFor(r, b) : b \in Parts(acc)}
<1> DEFINE S == Chronological(times)
           n == Cardinality(times)
           W == Walks(times)
           act == [i \in Nat |-> [a \in W |-> IF i \in 1..n THEN Follow(a, S[i]) ELSE a]]
           first == StartOf(S[1])
<1>1. Orders(S, n, times)
  <2>1. times \in SUBSET Int
    OBVIOUS
  <2> QED
    BY <2>1, ChronologicalOrders
<1> HIDE DEF S, n
<1>2. /\ n \in Nat /\ Len(S) = n
      /\ \A i \in 1..n : S[i] \in times /\ S[i] \in Nat
      /\ \A i, j \in 1..n : i < j => S[i] < S[j]
      /\ \A t \in times : \E i \in 1..n : S[i] = t
  BY <1>1 DEF Orders
<1>3. 1 \in 1..n /\ n \in 1..n /\ n # 0 /\ n - 1 \in Nat /\ 1 + (n - 1) = n
  <2>1. PICK t \in times : TRUE
    OBVIOUS
  <2>2. PICK i \in 1..n : S[i] = t
    BY <1>2, <2>1
  <2> QED
    BY <1>2, <2>2
<1>4. \A u \in times : S[1] <= u /\ u <= S[n]
  <2>1. \A i \in 1..n : S[1] <= S[i] /\ S[i] <= S[n]
    <3>1. ASSUME NEW i \in 1..n PROVE S[1] <= S[i] /\ S[i] <= S[n]
      <4>1. (1 = i \/ 1 < i) /\ (i = n \/ i < n)
        BY <1>2
      <4> QED
        BY <1>2, <1>3, <4>1
    <3> QED
      BY <3>1
  <2> QED
    BY <1>2, <2>1
<1>5. first \in W /\ WalkedTo(times, S[1], first)
  <2> DEFINE t == S[1]
  <2>1. t \in times /\ \A u \in times : t <= u
    BY <1>2, <1>3, <1>4
  <2> HIDE DEF t
  <2>2. StartOf(t) \in Walks(times) /\ WalkedTo(times, t, StartOf(t))
    BY <2>1, WalkStarts
  <2> QED
    BY <2>2 DEF t
<1> HIDE DEF W, first
<1>6. \A a \in W : \A u \in times : Follow(a, u) \in W
  BY FollowWalks DEF W
<1>7. act \in [Nat -> [W -> W]]
  BY <1>2, <1>6
<1>8. \A i \in 1..n : i \in Nat /\ \A a \in W : act[i][a] = Follow(a, S[i])
  BY <1>2
<1> HIDE DEF act
<1>9. PICK g \in [1..(1 + (n - 1)) -> W] : Recursion(g, first, act, 1, 1 + (n - 1))
  <2>1. 1 \in Nat
    OBVIOUS
  <2> QED
    BY <1>3, <1>5, <1>7, <2>1, RecursionExists
<1>10. g \in [1..n -> W] /\ \A i \in 1..n : g[i] = IF i = 1 THEN first ELSE act[i][g[i - 1]]
  BY <1>3, <1>9 DEF Recursion
<1>11. ASSUME NEW i \in 1..n
       PROVE  g[i] = IF i = 1 THEN first ELSE Follow(g[i - 1], S[i])
  <2>1. CASE i = 1
    BY <1>10, <2>1
  <2>2. CASE i # 1
    <3>1. i - 1 \in 1..n
      BY <1>2, <2>2
    <3>2. g[i - 1] \in W
      BY <1>10, <3>1
    <3> QED
      BY <1>8, <1>10, <2>2, <3>2
  <2> QED
    BY <2>1, <2>2
<1>12. g = [i \in 1..n |-> IF i = 1 THEN first ELSE Follow(g[i - 1], S[i])]
  <2>1. g = [i \in 1..n |-> g[i]]
    BY <1>10
  <2> QED
    BY <1>11, <2>1, Zenon
<1> DEFINE Is(f) == f = [i \in 1..Len(S) |-> IF i = 1 THEN first ELSE Follow(f[i - 1], S[i])]
           h == CHOOSE f : Is(f)
           acc == h[n]
<1>13. Is(h)
  BY <1>2, <1>12, Zenon
<1>14. BurstsOf(r, times) = {BurstFor(r, b) : b \in Parts(acc)}
  <2>1. BurstsOf(r, times) = {BurstFor(r, b) : b \in Parts(h[Len(S)])}
    BY Zenon DEF BurstsOf, BurstFor, SpanOf, Parts, S, first, StartOf
  <2> QED
    BY <1>2, <2>1, Zenon
<1> HIDE DEF h
<1>15. \A i \in 1..n : h[i] = IF i = 1 THEN first ELSE Follow(h[i - 1], S[i])
  BY <1>2, <1>13, Zenon
<1> DEFINE N == {k \in Nat : k + 1 <= n => h[k + 1] \in W /\ WalkedTo(times, S[k + 1], h[k + 1])}
<1>16. 0 \in N
  <2>1. h[1] = first
    BY <1>3, <1>15
  <2>2. 0 + 1 = 1
    OBVIOUS
  <2> QED
    BY <1>5, <2>1, <2>2
<1>17. ASSUME NEW k \in Nat, k \in N
       PROVE  k + 1 \in N
  <2>1. CASE (k + 1) + 1 <= n
    <3> DEFINE i == k + 1
               a == h[i]
               t == S[i]
               u == S[i + 1]
    <3>1. i \in 1..n /\ i + 1 \in 1..n /\ i + 1 # 1 /\ (i + 1) - 1 = i /\ i < i + 1
      BY <1>2, <2>1
    <3>2. a \in W /\ WalkedTo(times, t, a)
      BY <1>17, <3>1
    <3>3. h[i + 1] = Follow(a, u)
      BY <1>15, <3>1
    <3>4. t \in times /\ u \in times /\ t < u
      BY <1>2, <3>1
    <3>5. ASSUME NEW v \in times
          PROVE  v <= t \/ u <= v
      <4>1. PICK j \in 1..n : S[j] = v
        BY <1>2
      <4>2. (j = i \/ j < i) \/ (j = i + 1 \/ i + 1 < j)
        BY <3>1
      <4>3. (j < i => S[j] < t) /\ (i + 1 < j => u < S[j]) /\ S[j] \in Nat /\ t \in Nat /\ u \in Nat
        BY <1>2, <3>1
      <4>4. (j = i => S[j] = t) /\ (j = i + 1 => S[j] = u)
        OBVIOUS
      <4> HIDE DEF t, u
      <4>5. S[j] <= t \/ u <= S[j]
        BY <4>2, <4>3, <4>4
      <4> QED
        BY <4>1, <4>5
    <3> HIDE DEF a, t, u
    <3>6. Follow(a, u) \in Walks(times) /\ WalkedTo(times, u, Follow(a, u))
      BY <3>2, <3>4, <3>5, WalkFollows DEF W
    <3> QED
      BY <3>3, <3>6 DEF W, u
  <2>2. CASE ~((k + 1) + 1 <= n)
    BY <2>2
  <2> QED
    BY <2>1, <2>2
<1> HIDE DEF N
<1>18. \A k \in Nat : k \in N
  BY <1>16, <1>17, SetInduction
<1>19. acc \in W /\ WalkedTo(times, S[n], acc)
  <2>1. n - 1 \in N /\ (n - 1) + 1 = n
    BY <1>3, <1>18
  <2> QED
    BY <1>2, <2>1 DEF N
<1> HIDE DEF acc
<1>20. S[n] \in times
  BY <1>2, <1>3
<1> QED
  BY <1>4, <1>14, <1>19, <1>20 DEF W

(***************************************************************************)
(* What a scan builds.                                                     *)
(***************************************************************************)
Reads == [Traces -> SUBSET Time]

(* A trace has finitely many times.                                        *)
LEMMA ReadTimes ==
  ASSUME NEW read \in Reads, NEW r \in Traces
  PROVE  read[r] \in SUBSET Nat /\ read[r] \in SUBSET (1..Horizon) /\ IsFiniteSet(read[r])
<1>1. Horizon \in Nat /\ read[r] \in SUBSET (1..Horizon)
  BY ConcurrencyAssumption DEF Reads, Time
<1>2. IsFiniteSet(1..Horizon)
  BY <1>1, FS_Interval
<1>3. IsFiniteSet(read[r])
  BY <1>1, <1>2, FS_Subset
<1>4. read[r] \in SUBSET Nat
  BY <1>1
<1> QED
  BY <1>1, <1>3, <1>4

(* Times have an earliest one.                                             *)
LEMMA EarliestIs ==
  ASSUME NEW T \in SUBSET Nat, T # {}
  PROVE  Earliest(T) \in T /\ \A t \in T : Earliest(T) <= t
<1>1. \E t \in T : \A u \in T : t <= u
  BY LeastNumber
<1> QED
  BY <1>1 DEF Earliest

(* Times have a latest one.                                                *)
LEMMA LatestIs ==
  ASSUME NEW n \in Nat, NEW T \in SUBSET (1..n), T # {}
  PROVE  Latest(T) \in T
<1>1. \E t \in T : \A u \in T : u <= t
  BY RangeHasMax DEF HasMax
<1> QED
  BY <1>1 DEF Latest

(* A span keeps its trace and its start, and does not become shorter.      *)
LEMMA NormalizedFacts ==
  ASSUME NEW r, NEW a \in Nat, NEW b \in Nat
  PROVE  /\ SpanOf(r, a, b).trace = r
         /\ SpanOf(r, a, b).start = a
         /\ SpanOf(r, a, b).end \in Nat
         /\ b <= SpanOf(r, a, b).end
<1> DEFINE s == SpanOf(r, a, b)
<1>1. MinInterval \in Nat
  BY ConcurrencyAssumption
<1>2. s = [trace |-> r, start |-> a, end |-> Later(b, a + MinInterval)]
  BY DEF SpanOf, NormalizedInterval
<1>3. Later(b, a + MinInterval) \in Nat /\ b <= Later(b, a + MinInterval)
  BY <1>1 DEF Later
<1> QED
  BY <1>2, <1>3

(* One session span to a trace with events, from the first of them.        *)
SessionFor(r, T) == SpanOf(r, Earliest(T), Latest(T))

(* Each trace with events has a session span, and no other.                *)
LEMMA SessionFacts ==
  ASSUME NEW read \in Reads
  PROVE  /\ IsSpans(SessionSpans(read))
         /\ \A s \in SessionSpans(read) : s.trace \in Traces /\ s.start \in read[s.trace]
         /\ \A r \in Traces : \A t \in read[r] : \E s \in SessionSpans(read) : s.start <= t
<1> DEFINE Q == {r \in Traces : read[r] # {}}
           f == [r \in Q |-> SessionFor(r, read[r])]
           spans == SessionSpans(read)
<1>1. spans = {SessionFor(r, read[r]) : r \in Q}
  BY Zenon DEF SessionSpans, SessionFor, SpanOf
<1>2. DOMAIN f = Q /\ (\A r \in Q : f[r] = SessionFor(r, read[r])) /\ f = [r \in Q |-> f[r]]
  OBVIOUS
<1>3. spans = {f[r] : r \in Q}
  BY <1>1, <1>2
<1>4. ASSUME NEW r \in Q
      PROVE  /\ f[r].trace = r /\ f[r].start = Earliest(read[r]) /\ f[r].start \in read[r]
             /\ f[r].start \in Nat /\ f[r].end \in Nat
             /\ \A t \in read[r] : f[r].start <= t
  <2> DEFINE T == read[r]
  <2>1. r \in Traces /\ T # {}
    OBVIOUS
  <2>2. T \in SUBSET Nat /\ T \in SUBSET (1..Horizon) /\ Horizon \in Nat
    BY ReadTimes, ConcurrencyAssumption
  <2>3. f[r] = SessionFor(r, T)
    BY <1>2
  <2> HIDE DEF T, f
  <2>4. Earliest(T) \in T /\ (\A t \in T : Earliest(T) <= t) /\ Latest(T) \in T
    BY <2>1, <2>2, EarliestIs, LatestIs
  <2>5. Earliest(T) \in Nat /\ Latest(T) \in Nat
    BY <2>2, <2>4
  <2>6. SessionFor(r, T).trace = r /\ SessionFor(r, T).start = Earliest(T)
        /\ SessionFor(r, T).end \in Nat
    <3>1. \A a, b \in Nat : SpanOf(r, a, b).trace = r /\ SpanOf(r, a, b).start = a
                             /\ SpanOf(r, a, b).end \in Nat
      BY NormalizedFacts
    <3> QED
      BY <2>5, <3>1 DEF SessionFor
  <2> QED
    BY <2>3, <2>4, <2>5, <2>6 DEF T
<1> HIDE DEF f, spans
<1>5. IsFiniteSet(Q)
  <2>1. IsFiniteSet(Traces) /\ Q \in SUBSET Traces
    BY ConcurrencyAssumption
  <2> HIDE DEF Q
  <2> QED
    BY <2>1, FS_Subset
<1>6. IsFiniteSet(spans)
  <2> HIDE DEF Q
  <2> QED
    BY <1>2, <1>3, <1>5, ImageIsFinite
<1>7. \A s \in spans : s.start \in Int /\ s.end \in Int /\ s.trace \in Traces /\ s.start \in read[s.trace]
  <2>1. ASSUME NEW s \in spans
        PROVE  s.start \in Int /\ s.end \in Int /\ s.trace \in Traces /\ s.start \in read[s.trace]
    <3>1. PICK r \in Q : s = f[r]
      BY <1>3
    <3> QED
      BY <1>4, <3>1
  <2> QED
    BY <2>1
<1>8. ASSUME NEW r \in Traces, NEW t \in read[r]
      PROVE  \E s \in spans : s.start <= t
  <2>1. r \in Q
    OBVIOUS
  <2>2. f[r] \in spans /\ f[r].start <= t
    BY <1>3, <1>4, <2>1
  <2> QED
    BY <2>2
<1> QED
  BY <1>6, <1>7, <1>8 DEF spans, IsSpans

(* The bursts of a trace with events.                                      *)
LEMMA BurstFields ==
  ASSUME NEW r, NEW times \in SUBSET Nat, NEW acc \in Walks(times), NEW b \in Parts(acc)
  PROVE  /\ b[1] \in times /\ b[1] \in Nat /\ b[2] \in Nat
         /\ BurstFor(r, b).trace = r /\ BurstFor(r, b).start = b[1]
         /\ BurstFor(r, b).end \in Nat /\ b[2] <= BurstFor(r, b).end
<1>1. b \in times \X times
  BY DEF Parts, Walks
<1>2. b[1] \in times /\ b[1] \in Nat /\ b[2] \in Nat
  BY <1>1
<1>3. /\ BurstFor(r, b).trace = r /\ BurstFor(r, b).start = b[1]
      /\ BurstFor(r, b).end \in Nat /\ b[2] <= BurstFor(r, b).end
  <2>1. \A a, c \in Nat : /\ SpanOf(r, a, c).trace = r /\ SpanOf(r, a, c).start = a
                           /\ SpanOf(r, a, c).end \in Nat /\ c <= SpanOf(r, a, c).end
    BY NormalizedFacts
  <2> DEFINE x == b[1]
             y == b[2]
  <2>2. x \in Nat /\ y \in Nat
    BY <1>2
  <2>3. BurstFor(r, b) = SpanOf(r, x, y)
    BY Zenon DEF BurstFor
  <2> HIDE DEF x, y
  <2>4. /\ BurstFor(r, b).trace = r /\ BurstFor(r, b).start = x
        /\ BurstFor(r, b).end \in Nat /\ y <= BurstFor(r, b).end
    BY <2>1, <2>2, <2>3
  <2> QED
    BY <2>4 DEF x, y
<1> QED
  BY <1>2, <1>3

(* Its bursts begin at the silences and hold what is close together.       *)
LEMMA BurstsOfFacts ==
  ASSUME NEW r, NEW times \in SUBSET Nat, IsFiniteSet(times), times # {}
  PROVE  /\ IsFiniteSet(BurstsOf(r, times))
         /\ \A s \in BurstsOf(r, times) :
              s.trace = r /\ s.start \in times /\ s.start \in Nat /\ s.end \in Nat
         /\ {s.start : s \in BurstsOf(r, times)} = {u \in times : Opens(times, u)}
         /\ \A u, v \in times : u <= v /\ v - u <= IdleGap
              => \E s \in BurstsOf(r, times) : s.start <= u /\ v <= s.end
<1> DEFINE spans == BurstsOf(r, times)
<1>1. PICK acc \in Walks(times) : \E t \in times :
        /\ \A u \in times : u <= t
        /\ WalkedTo(times, t, acc)
        /\ spans = {BurstFor(r, b) : b \in Parts(acc)}
  BY BurstsAreWalked
<1>2. PICK t \in times :
        /\ \A u \in times : u <= t
        /\ WalkedTo(times, t, acc)
        /\ spans = {BurstFor(r, b) : b \in Parts(acc)}
  BY <1>1
<1> HIDE DEF spans
<1>3. /\ \A u \in times : (\E b \in Parts(acc) : b[1] = u) <=> u <= t /\ Opens(times, u)
      /\ \A u, v \in times : u <= v /\ v <= t /\ v - u <= IdleGap
                              => \E b \in Parts(acc) : b[1] <= u /\ v <= b[2]
  BY <1>2, Zenon DEF WalkedTo
<1>4. ASSUME NEW b \in Parts(acc)
      PROVE  /\ b[1] \in times /\ b[1] \in Nat /\ b[2] \in Nat
             /\ BurstFor(r, b) \in spans
             /\ BurstFor(r, b).trace = r /\ BurstFor(r, b).start = b[1]
             /\ BurstFor(r, b).end \in Nat /\ b[2] <= BurstFor(r, b).end
  BY <1>2, BurstFields
<1>5. ASSUME NEW s \in spans
      PROVE  \E b \in Parts(acc) : s = BurstFor(r, b)
  BY <1>2
<1>6. IsFiniteSet(spans)
  <2> DEFINE f == [b \in Parts(acc) |-> BurstFor(r, b)]
  <2>1. IsFiniteSet(Parts(acc))
    <3>1. IsFiniteSet(times \X times)
      BY FS_Product
    <3>2. acc.closed \in SUBSET (times \X times)
      BY DEF Walks
    <3>3. IsFiniteSet(acc.closed)
      BY <3>1, <3>2, FS_Subset
    <3> QED
      BY <3>3, FS_AddElement, Zenon DEF Parts
  <2>2. DOMAIN f = Parts(acc) /\ f = [b \in Parts(acc) |-> f[b]] /\ spans = {f[b] : b \in Parts(acc)}
    BY <1>2
  <2> HIDE DEF f
  <2> QED
    BY <2>1, <2>2, ImageIsFinite
<1>7. ASSUME NEW s \in spans
      PROVE  s.trace = r /\ s.start \in times /\ s.start \in Nat /\ s.end \in Nat
  <2>1. PICK b \in Parts(acc) : s = BurstFor(r, b)
    BY <1>5
  <2> QED
    BY <1>4, <2>1
<1>8. \A u : u \in {s.start : s \in spans} <=> u \in times /\ Opens(times, u)
  <2>1. ASSUME NEW s \in spans
        PROVE  s.start \in times /\ Opens(times, s.start)
    <3>1. PICK b \in Parts(acc) : s = BurstFor(r, b)
      BY <1>5
    <3>2. b[1] \in times /\ s.start = b[1]
      BY <1>4, <3>1
    <3>3. \E c \in Parts(acc) : c[1] = b[1]
      OBVIOUS
    <3>4. Opens(times, b[1])
      BY <1>3, <3>2, <3>3
    <3> QED
      BY <3>2, <3>4
  <2>2. ASSUME NEW u \in times, Opens(times, u)
        PROVE  \E s \in spans : s.start = u
    <3>1. PICK b \in Parts(acc) : b[1] = u
      BY <1>2, <1>3, <2>2
    <3> QED
      BY <1>4, <3>1
  <2> QED
    BY <2>1, <2>2
<1>9. ASSUME NEW u \in times, NEW v \in times, u <= v, v - u <= IdleGap
      PROVE  \E s \in spans : s.start <= u /\ v <= s.end
  <2>1. v <= t
    BY <1>2
  <2>2. PICK b \in Parts(acc) : b[1] <= u /\ v <= b[2]
    BY <1>3, <1>9, <2>1
  <2>3. BurstFor(r, b) \in spans /\ BurstFor(r, b).start <= u
    BY <1>4, <2>2
  <2>4. v <= BurstFor(r, b).end
    <3> DEFINE x == b[2]
               y == BurstFor(r, b).end
    <3>1. v \in Nat /\ x \in Nat /\ y \in Nat /\ v <= x /\ x <= y
      BY <1>4, <2>2
    <3> HIDE DEF x, y
    <3>2. v <= y
      BY <3>1
    <3> QED
      BY <3>2 DEF y
  <2> QED
    BY <2>3, <2>4
<1>10. {s.start : s \in spans} = {u \in times : Opens(times, u)}
  BY <1>8
<1> QED
  BY <1>6, <1>7, <1>9, <1>10 DEF spans

(* The bursts of a scan are those of each trace.                           *)
LEMMA BurstSpansFacts ==
  ASSUME NEW read \in Reads
  PROVE  /\ IsSpans(BurstSpans(read))
         /\ \A s \in BurstSpans(read) : s.trace \in Traces /\ s.start \in read[s.trace]
         /\ \A r \in Traces : {b \in BurstSpans(read) : b.trace = r}
                                = IF read[r] = {} THEN {} ELSE BurstsOf(r, read[r])
<1> DEFINE Q == {r \in Traces : read[r] # {}}
           f == [r \in Q |-> BurstsOf(r, read[r])]
           spans == BurstSpans(read)
<1>1. DOMAIN f = Q /\ (\A r \in Q : f[r] = BurstsOf(r, read[r])) /\ f = [r \in Q |-> f[r]]
  OBVIOUS
<1>2. spans = UNION {f[r] : r \in Q}
  <2>1. spans = UNION {BurstsOf(r, read[r]) : r \in Q}
    BY Zenon DEF BurstSpans
  <2>2. {BurstsOf(r, read[r]) : r \in Q} = {f[r] : r \in Q}
    BY <1>1
  <2> QED
    BY <2>1, <2>2, Zenon
<1>3. ASSUME NEW r \in Q
      PROVE  /\ r \in Traces /\ read[r] # {} /\ IsFiniteSet(f[r])
             /\ \A s \in f[r] : s.trace = r /\ s.start \in read[r] /\ s.start \in Int /\ s.end \in Int
  <2> DEFINE T == read[r]
  <2>1. r \in Traces /\ T # {} /\ T \in SUBSET Nat /\ IsFiniteSet(T)
    BY ReadTimes
  <2>2. f[r] = BurstsOf(r, T)
    BY <1>1
  <2> HIDE DEF T, f
  <2>3. /\ IsFiniteSet(BurstsOf(r, T))
        /\ \A s \in BurstsOf(r, T) : s.trace = r /\ s.start \in T /\ s.start \in Nat /\ s.end \in Nat
    BY <2>1, BurstsOfFacts
  <2> QED
    BY <2>1, <2>2, <2>3 DEF T
<1> HIDE DEF f, spans
<1>4. \A s : s \in spans <=> \E r \in Q : s \in f[r]
  BY <1>2
<1>5. IsFiniteSet(spans)
  <2>1. IsFiniteSet(Traces) /\ Q \in SUBSET Traces
    BY ConcurrencyAssumption
  <2>2. \A r \in Q : IsFiniteSet(f[r])
    BY <1>3
  <2> HIDE DEF Q
  <2>3. IsFiniteSet(Q)
    BY <2>1, FS_Subset
  <2> DEFINE I == {f[r] : r \in Q}
  <2>4. IsFiniteSet(I)
    BY <1>1, <2>3, ImageIsFinite
  <2>5. \A T \in I : IsFiniteSet(T)
    BY <2>2
  <2> HIDE DEF I
  <2>6. IsFiniteSet(UNION I)
    BY <2>4, <2>5, FS_UNION
  <2> QED
    BY <1>2, <2>6 DEF I
<1>6. ASSUME NEW s \in spans
      PROVE  s.start \in Int /\ s.end \in Int /\ s.trace \in Traces /\ s.start \in read[s.trace]
  <2>1. PICK r \in Q : s \in f[r]
    BY <1>4
  <2> QED
    BY <1>3, <2>1
<1>7. ASSUME NEW r \in Traces
      PROVE  {b \in spans : b.trace = r} = IF read[r] = {} THEN {} ELSE BurstsOf(r, read[r])
  <2>1. CASE read[r] = {}
    <3>1. \A b \in spans : b.trace # r
      <4>1. ASSUME NEW b \in spans PROVE b.trace # r
        <5>1. PICK q \in Q : b \in f[q]
          BY <1>4
        <5> QED
          BY <1>3, <2>1, <5>1
      <4> QED
        BY <4>1
    <3> QED
      BY <2>1, <3>1
  <2>2. CASE read[r] # {}
    <3>1. r \in Q /\ f[r] = BurstsOf(r, read[r])
      BY <1>1, <2>2
    <3>2. \A b \in f[r] : b \in spans /\ b.trace = r
      BY <1>3, <1>4, <3>1
    <3>3. ASSUME NEW b \in spans, b.trace = r PROVE b \in f[r]
      <4>1. PICK q \in Q : b \in f[q]
        BY <1>4
      <4>2. q = r
        BY <1>3, <3>3, <4>1
      <4> QED
        BY <4>1, <4>2
    <3>4. {b \in spans : b.trace = r} = f[r]
      BY <3>2, <3>3
    <3> QED
      BY <2>2, <3>1, <3>4
  <2> QED
    BY <2>1, <2>2
<1> QED
  BY <1>5, <1>6, <1>7 DEF spans, IsSpans

(* A scan's bursts follow the gap.                                         *)
IsScan(data) ==
  data.read \in Reads /\ data.sessions = SessionSpans(data.read) /\ data.bursts = BurstSpans(data.read)

(* What BurstsFollowTheGap says holds of every scan.                       *)
LEMMA BurstsKeepTheGap == IsScan(scanned) => BurstsFollowTheGap
<1> SUFFICES ASSUME IsScan(scanned) PROVE BurstsFollowTheGap
  OBVIOUS
<1>1. scanned.read \in Reads /\ scanned.bursts = BurstSpans(scanned.read)
  BY DEF IsScan
<1>2. ASSUME NEW r \in Traces
      PROVE  LET times == scanned.read[r]
                 mine == {b \in scanned.bursts : b.trace = r}
                 Own(t) == {b \in mine : b.start <= t /\ t <= b.end}
                 raw == {t \in times : \A u \in times : u < t => t - u > IdleGap}
             IN  /\ \A t \in times : Own(t) # {}
                 /\ {b.start : b \in mine} = raw
                 /\ \A t, u \in times : t < u /\ u - t <= IdleGap => Own(t) \cap Own(u) # {}
  <2> DEFINE times == scanned.read[r]
             mine == {b \in scanned.bursts : b.trace = r}
             Own(t) == {b \in mine : b.start <= t /\ t <= b.end}
             raw == {t \in times : \A u \in times : u < t => t - u > IdleGap}
  <2>1. times \in SUBSET Nat /\ IsFiniteSet(times)
    BY <1>1, ReadTimes
  <2>2. mine = IF times = {} THEN {} ELSE BurstsOf(r, times)
    BY <1>1, BurstSpansFacts
  <2>3. raw = {t \in times : Opens(times, t)}
    BY DEF Opens
  <2> HIDE DEF times, mine, raw
  <2>4. CASE times = {}
    <3>1. mine = {} /\ raw = {}
      BY <2>2, <2>3, <2>4
    <3>2. {b.start : b \in mine} = raw
      BY <3>1
    <3> QED
      BY <2>4, <3>2 DEF times, mine, raw
  <2>5. CASE times # {}
    <3> DEFINE spans == BurstsOf(r, times)
    <3>1. /\ \A s \in spans : s.start \in Nat /\ s.end \in Nat
          /\ {s.start : s \in spans} = {u \in times : Opens(times, u)}
          /\ \A u, v \in times : u <= v /\ v - u <= IdleGap
               => \E s \in spans : s.start <= u /\ v <= s.end
      BY <2>1, <2>5, BurstsOfFacts
    <3>2. mine = spans
      BY <2>2, <2>5
    <3> HIDE DEF spans
    <3>3. {b.start : b \in mine} = raw
      BY <2>3, <3>1, <3>2, Zenon
    <3>4. IdleGap \in Nat /\ \A t \in times : t \in Nat
      BY <2>1, ConcurrencyAssumption
    <3>5. ASSUME NEW t \in times
          PROVE  Own(t) # {}
      <4>1. t <= t /\ t - t <= IdleGap
        BY <3>4
      <4>2. PICK s \in spans : s.start <= t /\ t <= s.end
        BY <3>1, <4>1
      <4> QED
        BY <3>2, <4>2
    <3>6. ASSUME NEW t \in times, NEW u \in times, t < u, u - t <= IdleGap
          PROVE  Own(t) \cap Own(u) # {}
      <4>1. t <= u
        BY <3>4, <3>6
      <4>2. PICK s \in spans : s.start <= t /\ u <= s.end
        BY <3>1, <3>6, <4>1
      <4>3. s.start <= u /\ t <= s.end
        BY <3>1, <3>4, <3>6, <4>2
      <4> QED
        BY <3>2, <4>2, <4>3
    <3> QED
      BY <3>3, <3>5, <3>6 DEF times, mine, raw
  <2> QED
    BY <2>4, <2>5
<1> QED
  BY <1>2 DEF BurstsFollowTheGap

(* A trend's evidence begins with an event no later.                       *)
LEMMA EvidenceIsSeen ==
  ASSUME NEW data, IsScan(data), NEW now \in Nat, TranscriptEvidenceStart(data, now) # 0
  PROVE  /\ TranscriptEvidenceStart(data, now) \in Nat
         /\ \E s \in data.sessions : s.start <= TranscriptEvidenceStart(data, now)
<1> DEFINE from == now - Lookback
           overlaps == {Later(s.start, from)
                          : s \in {q \in data.sessions \cup data.bursts : q.end >= from /\ q.start <= now}}
           told == UNION {data.read[r] : r \in Traces}
           seen == {t \in overlaps \cup told : t >= from /\ t <= now}
           source == TranscriptEvidenceStart(data, now)
<1>1. source = IF seen = {} THEN 0 ELSE Earliest(seen)
  BY Zenon DEF TranscriptEvidenceStart
<1>2. from \in Int
  BY ConcurrencyAssumption
<1>3. data.read \in Reads /\ data.sessions = SessionSpans(data.read) /\ data.bursts = BurstSpans(data.read)
  BY DEF IsScan
<1>4. \A s \in data.sessions \cup data.bursts : s.trace \in Traces /\ s.start \in data.read[s.trace]
  BY <1>3, SessionFacts, BurstSpansFacts
<1>5. \A r \in Traces : \A t \in data.read[r] : t \in Nat /\ \E s \in data.sessions : s.start <= t
  BY <1>3, SessionFacts, ReadTimes
<1> HIDE DEF from, source
<1>6. ASSUME NEW t \in seen
      PROVE  t \in Nat /\ \E s \in data.sessions : s.start <= t
  <2>1. CASE t \in told
    <3>1. PICK r \in Traces : t \in data.read[r]
      BY <2>1
    <3> QED
      BY <1>5, <3>1, Zenon
  <2>2. CASE t \in overlaps
    <3>1. PICK q \in data.sessions \cup data.bursts : t = Later(q.start, from)
      BY <2>2
    <3>2. q.trace \in Traces /\ q.start \in data.read[q.trace]
      BY <1>4
    <3> DEFINE x == q.start
    <3>3. x \in Nat /\ \E s \in data.sessions : s.start <= x
      BY <1>5, <3>2
    <3> HIDE DEF x
    <3>4. t = Later(x, from)
      BY <3>1 DEF x
    <3>5. t \in Nat /\ x <= t
      BY <1>2, <3>3, <3>4 DEF Later
    <3>6. PICK s \in data.sessions : s.start <= x
      BY <3>3
    <3>7. s.start \in Nat
      BY <1>4, <1>5
    <3>8. s.start <= t
      BY <3>3, <3>5, <3>6, <3>7
    <3> QED
      BY <3>5, <3>8
  <2> HIDE DEF told, overlaps
  <2>3. t \in told \/ t \in overlaps
    OBVIOUS
  <2> HIDE DEF seen
  <2> QED
    BY <2>1, <2>2, <2>3
<1> HIDE DEF seen
<1>7. seen # {} /\ source = Earliest(seen)
  BY <1>1 DEF source
<1>8. seen \in SUBSET Nat
  BY <1>6
<1>9. source \in seen
  BY <1>7, <1>8, EarliestIs
<1> QED
  BY <1>6, <1>9 DEF source

(* Every claimed point is measured.                                        *)
PointsAre(w, data) ==
  \A i \in 1..Len(w.points) :
    w.points[i].sampled =>
      /\ w.points[i].active = Covering(data.bursts, w.points[i].at)
      /\ w.points[i].sessions = Covering(data.sessions, w.points[i].at)
      /\ \E s \in data.sessions : s.start <= w.points[i].at

(* A window of a trend claims what is measured.                            *)
LEMMA TrendFacts ==
  ASSUME NEW data, IsScan(data), NEW now \in Nat, NEW spec \in Specs
  PROVE  PointsAre(TrendWindow(data, now, spec), data)
<1> DEFINE from == now - spec.span
           every == spec.step
           grid == TrendPointTimes(from, now, every)
           active == ConcurrencySeries(data.bursts, grid)
           sessions == ConcurrencySeries(data.sessions, grid)
           source == TranscriptEvidenceStart(data, now)
           Point(i) == [at |-> grid[i],
                        sampled |-> i # Len(grid) /\ source # 0 /\ grid[i] >= source,
                        active |-> active[i], sessions |-> sessions[i]]
           points == [i \in 1..Len(grid) |-> Point(i)]
           w == TrendWindow(data, now, spec)
<1>1. w = [from |-> from, complete |-> source # 0 /\ source <= from, points |-> points]
  BY Zenon DEF TrendWindow
<1>2. spec.span \in Nat \ {0} /\ every \in Nat \ {0}
  BY ConcurrencyAssumption
<1> HIDE DEF every
<1>3. from \in Int /\ now \in Int /\ from < now
  BY <1>2
<1> HIDE DEF from
<1>4. /\ Len(grid) \in Nat /\ Len(grid) > 0
      /\ grid[1] = from /\ grid[Len(grid)] = now
      /\ \A i \in 1..Len(grid) : i # Len(grid) => grid[i] \in from..(now - 1)
  BY <1>2, <1>3, GridFacts
<1>5. IsSpans(data.sessions) /\ IsSpans(data.bursts)
  BY SessionFacts, BurstSpansFacts DEF IsScan
<1>6. source # 0 => source \in Nat /\ \E s \in data.sessions : s.start <= source
  BY EvidenceIsSeen
<1>7. \A s \in data.sessions : s.start \in Int
  BY <1>5 DEF IsSpans
<1> HIDE DEF grid
<1>8. ASSUME NEW i \in 1..Len(grid), grid[i] \in from..(now - 1)
      PROVE  active[i] = Covering(data.bursts, grid[i]) /\ sessions[i] = Covering(data.sessions, grid[i])
  BY <1>3, <1>4, <1>5, <1>8, SeriesFacts
<1> HIDE DEF active, sessions, source
<1>9. ASSUME NEW i \in 1..Len(grid), points[i].sampled
      PROVE  /\ points[i].active = Covering(data.bursts, points[i].at)
             /\ points[i].sessions = Covering(data.sessions, points[i].at)
             /\ \E s \in data.sessions : s.start <= points[i].at
  <2>1. points[i] = Point(i)
    OBVIOUS
  <2>2. /\ points[i].at = grid[i] /\ points[i].active = active[i] /\ points[i].sessions = sessions[i]
        /\ points[i].sampled = (i # Len(grid) /\ source # 0 /\ grid[i] >= source)
    BY <2>1
  <2> HIDE DEF points
  <2>3. i # Len(grid) /\ source # 0 /\ grid[i] >= source
    BY <1>9, <2>2, Zenon
  <2>4. grid[i] \in from..(now - 1)
    BY <1>4, <2>3
  <2>5. active[i] = Covering(data.bursts, grid[i]) /\ sessions[i] = Covering(data.sessions, grid[i])
    BY <1>8, <2>4
  <2>6. source \in Nat /\ \E s \in data.sessions : s.start <= source
    BY <1>6, <2>3
  <2>7. PICK s \in data.sessions : s.start <= source
    BY <2>6
  <2> DEFINE x == grid[i]
  <2>8. x \in Int /\ x >= source
    BY <1>3, <2>3, <2>4
  <2> HIDE DEF x
  <2>9. s.start <= x
    BY <1>7, <2>6, <2>7, <2>8
  <2> QED
    BY <2>2, <2>5, <2>9 DEF x
<1>10. Len(points) = Len(grid) /\ w.points = points
  BY <1>1, <1>4
<1> HIDE DEF points, w
<1>11. PointsAre(w, data)
  BY <1>9, <1>10, Zenon DEF PointsAre
<1> QED
  BY <1>11 DEF w

(***************************************************************************)
(* Concurrency: the invariant.                                             *)
(***************************************************************************)
(* The spans every snapshot shares are those of the events a scan read,    *)
(* and what the last snapshot shows of them is right.                      *)
ConcurrencyInv ==
  /\ clock \in Nat
  /\ eventTimes \in Reads
  /\ IsScan(scanned)
  /\ PeakIsTheMaximum
  /\ PointsAreMeasured

(* What is shown stays right until the next snapshot.                      *)
LEMMA ShownStays ==
  ASSUME shownTrend' = shownTrend, PeakIsTheMaximum, PointsAreMeasured
  PROVE  PeakIsTheMaximum' /\ PointsAreMeasured'
  BY DEF PeakIsTheMaximum, PointsAreMeasured

(* Nothing is scanned or shown at the start.                               *)
LEMMA ConcurrencyStarts == ConcurrencyInit => ConcurrencyInv
<1> SUFFICES ASSUME ConcurrencyInit PROVE ConcurrencyInv
  OBVIOUS
<1> USE DEF ConcurrencyInit
<1>1. clock \in Nat
  BY ConcurrencyAssumption
<1>2. eventTimes \in Reads
  BY DEF Reads
<1>3. IsScan(scanned)
  <2>1. scanned.read \in Reads /\ scanned.sessions = {} /\ scanned.bursts = {}
        /\ \A r \in Traces : scanned.read[r] = {}
    BY DEF Reads
  <2>2. SessionSpans(scanned.read) = {} /\ BurstSpans(scanned.read) = {}
    BY <2>1 DEF SessionSpans, BurstSpans
  <2> QED
    BY <2>1, <2>2 DEF IsScan
<1>4. ~shownTrend.built
  BY DEF None
<1> QED
  BY <1>1, <1>2, <1>3, <1>4, Zenon DEF ConcurrencyInv, PeakIsTheMaximum, PointsAreMeasured

(* A snapshot shows what the scan has.                                     *)
LEMMA BuildTrendsKeeps == ConcurrencyInv /\ BuildTrends => ConcurrencyInv'
<1> SUFFICES ASSUME ConcurrencyInv, BuildTrends PROVE ConcurrencyInv'
  OBVIOUS
<1> DEFINE now == clock
           data == scanned
           shown == shownTrend'
<1>1. IsScan(data) /\ now \in Nat
  BY DEF ConcurrencyInv
<1>2. UNCHANGED <<clock, eventTimes, scanned>>
  BY DEF BuildTrends
<1>3. /\ shown.now = now /\ shown.data = data
      /\ \A spec \in Specs :
           /\ shown.windows[spec] = TrendWindow(data, now, spec)
           /\ shown.peaks[spec].sessions = PeakConcurrency(data.sessions, now - spec.span, now)
           /\ shown.peaks[spec].active = PeakConcurrency(data.bursts, now - spec.span, now)
  BY DEF BuildTrends
<1>4. IsSpans(data.sessions) /\ IsSpans(data.bursts)
  BY <1>1, SessionFacts, BurstSpansFacts DEF IsScan
<1> HIDE DEF now, data, shown
<1>5. ASSUME NEW spec \in Specs
      PROVE  /\ PeakIs(shown.peaks[spec].sessions, data.sessions, (now - spec.span)..(now - 1))
             /\ PeakIs(shown.peaks[spec].active, data.bursts, (now - spec.span)..(now - 1))
  <2> DEFINE from == now - spec.span
  <2>1. from \in Int /\ now \in Int /\ from < now
    BY <1>1, ConcurrencyAssumption
  <2> HIDE DEF from
  <2>2. /\ PeakIs(PeakConcurrency(data.sessions, from, now), data.sessions, from..(now - 1))
        /\ PeakIs(PeakConcurrency(data.bursts, from, now), data.bursts, from..(now - 1))
    BY <1>4, <2>1, PeakFacts
  <2> QED
    BY <1>3, <2>2, Zenon DEF from
<1>6. PeakIsTheMaximum'
  <2>1. \A spec \in Specs :
          /\ PeakIs(shown.peaks[spec].sessions, shown.data.sessions, (shown.now - spec.span)..(shown.now - 1))
          /\ PeakIs(shown.peaks[spec].active, shown.data.bursts, (shown.now - spec.span)..(shown.now - 1))
    BY <1>3, <1>5, Zenon
  <2> QED
    BY <2>1, Zenon DEF PeakIsTheMaximum, PeakIs, Covering, shown
<1>7. PointsAreMeasured'
  <2>1. \A spec \in Specs : PointsAre(shown.windows[spec], shown.data)
    <3>1. \A spec \in Specs : PointsAre(TrendWindow(data, now, spec), data)
      BY <1>1, TrendFacts
    <3> QED
      BY <1>3, <3>1, Zenon
  <2> QED
    BY <2>1, Zenon DEF PointsAreMeasured, PointsAre, Covering, shown
<1>8. clock' \in Nat /\ eventTimes' \in Reads /\ IsScan(scanned)'
  BY <1>2 DEF ConcurrencyInv, IsScan
<1> QED
  BY <1>6, <1>7, <1>8 DEF ConcurrencyInv

(* Every step keeps the invariant.                                         *)
LEMMA ConcurrencyStepKeeps == ConcurrencyInv /\ [ConcurrencyNext]_concurrencyVars => ConcurrencyInv'
<1> SUFFICES ASSUME ConcurrencyInv, [ConcurrencyNext]_concurrencyVars PROVE ConcurrencyInv'
  OBVIOUS
<1>1. clock \in Nat /\ eventTimes \in Reads /\ IsScan(scanned) /\ PeakIsTheMaximum /\ PointsAreMeasured
  BY DEF ConcurrencyInv
<1>2. scanned' = scanned => IsScan(scanned)'
  BY <1>1 DEF IsScan
<1>3. shownTrend' = shownTrend => PeakIsTheMaximum' /\ PointsAreMeasured'
  BY <1>1, ShownStays
<1>4. ASSUME NEW r \in Traces, NEW t \in Time, RecordEvent(r, t)
      PROVE  ConcurrencyInv'
  <2>1. /\ eventTimes' = [eventTimes EXCEPT ![r] = @ \cup {t}]
        /\ UNCHANGED <<clock, scanned, shownTrend>>
    BY <1>4, Zenon DEF RecordEvent
  <2>2. eventTimes' \in Reads
    BY <1>1, <2>1 DEF Reads
  <2> QED
    BY <1>1, <1>2, <1>3, <2>1, <2>2 DEF ConcurrencyInv
<1>5. CASE Pass
  <2>1. clock' = clock + 1 /\ UNCHANGED <<eventTimes, scanned, shownTrend>>
    BY <1>5 DEF Pass
  <2>2. clock' \in Nat
    BY <1>1, <2>1
  <2> QED
    BY <1>1, <1>2, <1>3, <2>1, <2>2 DEF ConcurrencyInv
<1>6. CASE BuildSpans
  <2>1. /\ scanned' = [read |-> eventTimes, sessions |-> SessionSpans(eventTimes),
                       bursts |-> BurstSpans(eventTimes)]
        /\ UNCHANGED <<clock, eventTimes, shownTrend>>
    BY <1>6, Zenon DEF BuildSpans
  <2>2. scanned'.read = eventTimes /\ scanned'.sessions = SessionSpans(eventTimes)
        /\ scanned'.bursts = BurstSpans(eventTimes)
    BY <2>1
  <2>3. IsScan(scanned)'
    BY <1>1, <2>2, Zenon DEF IsScan, Reads, SessionSpans, BurstSpans
  <2> QED
    BY <1>1, <1>3, <2>1, <2>3 DEF ConcurrencyInv
<1>7. CASE BuildTrends
  BY <1>7, BuildTrendsKeeps
<1>8. CASE UNCHANGED concurrencyVars
  BY <1>1, <1>2, <1>3, <1>8 DEF concurrencyVars, ConcurrencyInv
<1> QED
  BY <1>4, <1>5, <1>6, <1>7, <1>8 DEF ConcurrencyNext

(* Whatever the events, in whatever order they are recorded, read and      *)
(* shown: the last snapshot's peaks and points are right for the spans of  *)
(* the scan before it (metrics.go buildTranscriptTrendWindows,             *)
(* peakConcurrency, buildBurstSpans).                                      *)
THEOREM ConcurrencyInvariant == ConcurrencySpec => []ConcurrencyInv
<1>1. ConcurrencyInit => ConcurrencyInv
  BY ConcurrencyStarts
<1>2. ConcurrencyInv /\ [ConcurrencyNext]_concurrencyVars => ConcurrencyInv'
  BY ConcurrencyStepKeeps
<1> QED
  BY <1>1, <1>2, PTL DEF ConcurrencySpec

(* The sweep's peak is the most spans over any moment of the window and    *)
(* the first such moment, a claimed point of a trend is the spans over it  *)
(* and within the evidence, and bursts split exactly at the silences.      *)
THEOREM ConcurrencyMeasured == ConcurrencySpec => []ConcurrencyIsMeasured
<1>1. ConcurrencyInv => ConcurrencyIsMeasured
  BY BurstsKeepTheGap, Zenon DEF ConcurrencyInv, ConcurrencyIsMeasured
<1> QED
  BY <1>1, ConcurrencyInvariant, PTL

=============================================================================
