----------------------- MODULE ThroughputJournalProofs -----------------------
(***************************************************************************)
(* Proofs about ThroughputJournal for every set of minutes and legacy      *)
(* rates, every retention, batch size and bound, while lines are written   *)
(* whole or not at all.                                                    *)
(*   JournalSound    JournalIsSound is an invariant: types, and no legacy  *)
(*                   rate is lost.                                         *)
(*   LossesBounded   CrashLosesAtMostOneRow is an invariant.               *)
(*   StoreRefined    the journal and its archives implement                *)
(*                   ThroughputStore.                                      *)
(***************************************************************************)
EXTENDS ThroughputJournal, FiniteSetTheorems, SequenceTheorems, WellFoundedInduction, TLAPS

(* Numbers have a least one.                                               *)
LEMMA LeastNumber ==
  ASSUME NEW S \in SUBSET Nat, S # {}
  PROVE  \E m \in S : \A y \in S : m <= y
<1>1. PICK m \in S : \A y \in S : ~ (<<y, m>> \in OpToRel(<, Nat))
  BY NatLessThanWellFounded, WFMin, Zenon
<1>2. \A y \in S : ~ (y < m)
  BY <1>1 DEF OpToRel
<1> QED
  BY <1>2

(* A set with zero and the successor of each of its numbers has them all.  *)
LEMMA SetInduction ==
  ASSUME NEW S, 0 \in S, \A n \in Nat : n \in S => n + 1 \in S
  PROVE  \A n \in Nat : n \in S
<1>1. SUFFICES ASSUME {n \in Nat : n \notin S} # {}
               PROVE  FALSE
  OBVIOUS
<1>2. PICK m \in {n \in Nat : n \notin S} : \A y \in {n \in Nat : n \notin S} : m <= y
  BY <1>1, LeastNumber
<1>3. m # 0 /\ m - 1 \in Nat
  BY <1>2
<1>4. m - 1 \in S
  BY <1>2, <1>3
<1> QED
  BY <1>2, <1>3, <1>4

(* The states of a fold, line by line.                                     *)
IsFold(g, base, lines, n) ==
  g = [i \in 0..n |-> IF i = 0 THEN base ELSE Apply(g[i - 1], lines[i])]

(* There is a fold of every number of lines.                               *)
LEMMA FoldExists ==
  ASSUME NEW base, NEW lines
  PROVE  \A n \in Nat : \E g : IsFold(g, base, lines, n)
<1> DEFINE S == {n \in Nat : \E g : IsFold(g, base, lines, n)}
<1>1. 0 \in S
  <2> DEFINE g == [i \in 0..0 |-> base]
  <2>1. IsFold(g, base, lines, 0)
    BY DEF IsFold
  <2> QED
    BY <2>1
<1>2. ASSUME NEW n \in Nat, n \in S
      PROVE  n + 1 \in S
  <2>1. PICK g : IsFold(g, base, lines, n)
    BY <1>2
  <2> DEFINE h == [i \in 0..(n + 1) |-> IF i = n + 1 THEN Apply(g[n], lines[n + 1]) ELSE g[i]]
  <2>2. \A i \in 0..n : g[i] = IF i = 0 THEN base ELSE Apply(g[i - 1], lines[i])
    BY <2>1, Zenon DEF IsFold
  <2>3. ASSUME NEW i \in 0..(n + 1)
        PROVE  h[i] = IF i = 0 THEN base ELSE Apply(h[i - 1], lines[i])
    <3>1. CASE i = n + 1
      <4>1. n \in 0..(n + 1) /\ n # n + 1 /\ i # 0 /\ i - 1 = n /\ n + 1 \in 0..(n + 1)
        BY <3>1
      <4>2. h[n] = g[n] /\ h[n + 1] = Apply(g[n], lines[n + 1])
        BY <4>1
      <4> QED
        BY <3>1, <4>1, <4>2
    <3>2. CASE i = 0
      <4>1. 0 \in 0..n /\ 0 # n + 1
        OBVIOUS
      <4> QED
        BY <3>2, <2>2, <4>1
    <3>3. CASE i # 0 /\ i # n + 1
      <4>1. i \in 0..n /\ i - 1 \in 0..(n + 1) /\ i - 1 # n + 1
        BY <3>3
      <4>2. h[i] = g[i] /\ h[i - 1] = g[i - 1]
        BY <4>1, <3>3
      <4> QED
        BY <3>3, <4>1, <4>2, <2>2
    <3> QED
      BY <3>1, <3>2, <3>3
  <2> HIDE DEF h
  <2>4. DOMAIN h = 0..(n + 1) /\ h = [i \in 0..(n + 1) |-> h[i]]
    BY DEF h
  <2>5. h = [i \in 0..(n + 1) |-> IF i = 0 THEN base ELSE Apply(h[i - 1], lines[i])]
    BY <2>3, <2>4, Zenon
  <2>6. IsFold(h, base, lines, n + 1)
    BY <2>5, Zenon DEF IsFold
  <2> QED
    BY <2>6
<1> HIDE DEF S
<1>3. \A n \in Nat : n \in S
  BY <1>1, <1>2, SetInduction
<1> QED
  BY <1>3 DEF S

(* FoldLines is the last state of the fold.                                *)
LEMMA FoldIsLast ==
  ASSUME NEW base, NEW lines, Len(lines) \in Nat
  PROVE  \E g : IsFold(g, base, lines, Len(lines)) /\ FoldLines(base, lines) = g[Len(lines)]
<1> DEFINE n == Len(lines)
           f == CHOOSE g : g = [i \in 0..n |-> IF i = 0 THEN base ELSE Apply(g[i - 1], lines[i])]
<1>1. \E g : g = [i \in 0..n |-> IF i = 0 THEN base ELSE Apply(g[i - 1], lines[i])]
  <2>1. \E g : IsFold(g, base, lines, n)
    BY FoldExists
  <2> QED
    BY <2>1, Zenon DEF IsFold
<1>2. f = [i \in 0..n |-> IF i = 0 THEN base ELSE Apply(f[i - 1], lines[i])]
  BY <1>1, Zenon
<1>3. FoldLines(base, lines) = f[n]
  BY Zenon DEF FoldLines
<1> QED
  BY <1>2, <1>3, Zenon DEF IsFold

(* Two folds agree where their lines do.                                   *)
LEMMA FoldsAgree ==
  ASSUME NEW base, NEW lines, NEW more, NEW n \in Nat, NEW m \in Nat, n <= m,
         \A i \in 1..n : more[i] = lines[i],
         NEW g, IsFold(g, base, lines, n), NEW h, IsFold(h, base, more, m)
  PROVE  \A i \in 0..n : h[i] = g[i]
<1> DEFINE S == {i \in Nat : i <= n => h[i] = g[i]}
<1>1. \A i \in 0..n : g[i] = IF i = 0 THEN base ELSE Apply(g[i - 1], lines[i])
  BY Zenon DEF IsFold
<1>2. \A i \in 0..m : h[i] = IF i = 0 THEN base ELSE Apply(h[i - 1], more[i])
  BY Zenon DEF IsFold
<1>3. 0 \in S
  BY <1>1, <1>2
<1>4. ASSUME NEW i \in Nat, i \in S
      PROVE  i + 1 \in S
  <2>1. CASE i + 1 <= n
    <3>1. h[i] = g[i] /\ more[i + 1] = lines[i + 1]
      BY <1>4, <2>1
    <3>2. i + 1 \in 0..n /\ i + 1 \in 0..m /\ i + 1 # 0 /\ (i + 1) - 1 = i
      BY <2>1
    <3>3. g[i + 1] = Apply(g[(i + 1) - 1], lines[i + 1])
      BY <1>1, <3>2, Zenon
    <3>4. h[i + 1] = Apply(h[(i + 1) - 1], more[i + 1])
      BY <1>2, <3>2, Zenon
    <3>5. h[i + 1] = g[i + 1]
      BY <3>1, <3>2, <3>3, <3>4
    <3> QED
      BY <3>5
  <2>2. CASE ~(i + 1 <= n)
    BY <2>2
  <2> QED
    BY <2>1, <2>2
<1> HIDE DEF S
<1>5. \A i \in Nat : i \in S
  BY <1>3, <1>4, SetInduction
<1> QED
  BY <1>5 DEF S

(* Nothing to fold.                                                        *)
LEMMA FoldNone ==
  ASSUME NEW base
  PROVE  FoldLines(base, <<>>) = base
<1>1. Len(<<>>) = 0 /\ 0 \in Nat
  OBVIOUS
<1>2. PICK g : IsFold(g, base, <<>>, 0) /\ FoldLines(base, <<>>) = g[0]
  BY <1>1, FoldIsLast
<1>3. \A i \in 0..0 : g[i] = IF i = 0 THEN base ELSE Apply(g[i - 1], <<>>[i])
  BY <1>2, Zenon DEF IsFold
<1> QED
  BY <1>2, <1>3

(* One line more.                                                          *)
LEMMA FoldOneMore ==
  ASSUME NEW base, NEW T, NEW lines \in Seq(T), NEW line \in T
  PROVE  FoldLines(base, Append(lines, line)) = Apply(FoldLines(base, lines), line)
<1> DEFINE n == Len(lines)
           more == Append(lines, line)
<1>1. /\ n \in Nat /\ n + 1 \in Nat /\ Len(more) = n + 1
      /\ \A i \in 1..n : more[i] = lines[i]
      /\ more[n + 1] = line
  OBVIOUS
<1>2. PICK g : IsFold(g, base, lines, n) /\ FoldLines(base, lines) = g[n]
  BY <1>1, FoldIsLast
<1> HIDE DEF more
<1>3. PICK h : IsFold(h, base, more, n + 1) /\ FoldLines(base, more) = h[n + 1]
  BY <1>1, FoldIsLast
<1> HIDE DEF n
<1>4. n <= n + 1
  BY <1>1
<1>5. \A i \in 0..n : h[i] = g[i]
  <2> DEFINE m == n + 1
  <2>1. /\ m \in Nat /\ n \in Nat /\ n <= m /\ IsFold(g, base, lines, n)
        /\ IsFold(h, base, more, m) /\ \A i \in 1..n : more[i] = lines[i]
    BY <1>1, <1>2, <1>3, <1>4
  <2> HIDE DEF m
  <2> QED
    BY <2>1, FoldsAgree
<1>6. h[n] = g[n]
  BY <1>1, <1>5
<1>7. \A i \in 0..(n + 1) : h[i] = IF i = 0 THEN base ELSE Apply(h[i - 1], more[i])
  BY <1>3, Zenon DEF IsFold
<1>8. n + 1 \in 0..(n + 1) /\ n + 1 # 0 /\ (n + 1) - 1 = n
  BY <1>1
<1>9. h[n + 1] = Apply(h[(n + 1) - 1], more[n + 1])
  BY <1>7, <1>8, Zenon
<1> QED
  BY <1>1, <1>2, <1>3, <1>6, <1>8, <1>9 DEF more

(* A property of sequences: the empty one has it, and one that has it has  *)
(* it still with an element more.                                          *)
LEMMA SequenceInduction ==
  ASSUME NEW T, NEW S, <<>> \in S,
         \A s \in Seq(T) : \A x \in T : s \in S => Append(s, x) \in S
  PROVE  \A s \in Seq(T) : s \in S
<1> DEFINE N == {n \in Nat : \A s \in Seq(T) : Len(s) = n => s \in S}
<1>1. 0 \in N
  <2>1. ASSUME NEW s \in Seq(T), Len(s) = 0
        PROVE  s \in S
    BY <2>1, EmptySeq
  <2> QED
    BY <2>1
<1>2. ASSUME NEW n \in Nat, n \in N
      PROVE  n + 1 \in N
  <2>1. ASSUME NEW s \in Seq(T), Len(s) = n + 1
        PROVE  s \in S
    <3> DEFINE f == SubSeq(s, 1, n)
    <3>1. f \in Seq(T) /\ Len(f) = n /\ s[n + 1] \in T /\ s = Append(f, s[n + 1])
      BY <2>1
    <3>2. f \in S
      BY <1>2, <3>1
    <3> QED
      BY <3>1, <3>2
  <2> QED
    BY <2>1
<1> HIDE DEF N
<1>3. \A n \in Nat : n \in N
  BY <1>1, <1>2, SetInduction
<1>4. ASSUME NEW s \in Seq(T)
      PROVE  s \in S
  BY <1>3 DEF N
<1> QED
  BY <1>4

(***************************************************************************)
(* Facts and the rows that carry them.                                     *)
(***************************************************************************)
(* What can be recorded of a key, and the views and the rows of whole      *)
(* lines that hold nothing else.                                           *)
FactsOf(s) == IF s \in Legacy THEN {LegacyRate} ELSE Facts \ {LegacyRate}
Views      == {view \in [Slots -> Values] : \A s \in Slots : view[s] \in FactsOf(s) \cup {Missing}}
Rows       == {row \in [slot : Slots, fact : Facts] : row.fact \in FactsOf(row.slot)}

(* Facts are told apart by where they come from.                           *)
LEMMA FactKinds ==
  /\ Missing \notin Facts
  /\ Measured(Online(1)) /\ ~Measured(Unavailable) /\ ~Measured(Missing) /\ ~Measured(LegacyRate)
  /\ \A n : ~Measured(Replayed(n)) /\ Replayed(n).origin = "session_replay"
  /\ \A fact \in Facts :
       \/ fact \in MinuteFacts /\ fact.origin = "online"
       \/ fact = LegacyRate /\ fact.origin = "legacy"
       \/ fact.origin = "session_replay" /\ \E n \in 1..MaxRevision : fact = Replayed(n)
<1> USE DEF Missing, Measured, Online, Unavailable, LegacyRate, Replayed, NoTokens
<1>1. ASSUME NEW fact \in Facts
      PROVE  /\ fact # Missing
             /\ \/ fact \in MinuteFacts /\ fact.origin = "online"
                \/ fact = LegacyRate /\ fact.origin = "legacy"
                \/ fact.origin = "session_replay" /\ \E n \in 1..MaxRevision : fact = Replayed(n)
  <2>1. CASE fact \in MinuteFacts
    BY <2>1 DEF MinuteFacts
  <2>2. CASE fact = LegacyRate
    BY <2>2
  <2>3. CASE fact \in {Replayed(n) : n \in 1..MaxRevision}
    <3>1. PICK n \in 1..MaxRevision : fact = Replayed(n)
      BY <2>3
    <3>2. fact.origin = "session_replay" /\ fact # Missing
      BY <3>1
    <3> QED
      BY <3>1, <3>2, Zenon
  <2> QED
    BY <2>1, <2>2, <2>3 DEF Facts
<1>2. Measured(Online(1)) /\ ~Measured(Unavailable) /\ ~Measured(Missing) /\ ~Measured(LegacyRate)
  OBVIOUS
<1>3. \A n : ~Measured(Replayed(n)) /\ Replayed(n).origin = "session_replay"
  OBVIOUS
<1>4. Missing \notin Facts
  BY <1>1, Zenon
<1> QED
  BY <1>1, <1>2, <1>3, <1>4, Zenon

(* Folding two facts of a key gives one of them.                           *)
LEMMA FoldType ==
  ASSUME NEW s, NEW old \in FactsOf(s) \cup {Missing}, NEW fact \in FactsOf(s)
  PROVE  Fold(old, fact) \in FactsOf(s)
  BY DEF Fold, ShouldReplace, Missing, NoTokens

(* A row whole is not the unreadable line.                                 *)
LEMMA RowIsReadable ==
  ASSUME NEW row \in Rows
  PROVE  /\ row # Corrupt /\ row.slot \in Slots /\ row.fact \in FactsOf(row.slot)
         /\ row.fact \in Facts /\ row.fact # Missing
  BY ConstantsAssumption, FactKinds DEF ConstantsAssumption, Rows, Corrupt

(* A row changes its key only.                                             *)
LEMMA ApplyRow ==
  ASSUME NEW view \in Views, NEW row \in Rows
  PROVE  /\ Apply(view, row) \in Views
         /\ \A s \in Slots : Apply(view, row)[s] =
              IF s = row.slot THEN Fold(view[s], row.fact) ELSE view[s]
<1> DEFINE v == Fold(view[row.slot], row.fact)
<1>1. row # Corrupt /\ row.slot \in Slots /\ row.fact \in FactsOf(row.slot)
  BY RowIsReadable
<1>2. view[row.slot] \in FactsOf(row.slot) \cup {Missing} /\ view \in [Slots -> Values]
  BY <1>1 DEF Views
<1>3. v \in FactsOf(row.slot)
  BY <1>1, <1>2, FoldType
<1>4. v \in Values
  BY <1>3 DEF FactsOf, Values, Facts
<1> HIDE DEF v
<1>5. Apply(view, row) = [view EXCEPT ![row.slot] = v]
  BY <1>1 DEF Apply, v
<1>6. /\ Apply(view, row) \in [Slots -> Values]
      /\ \A s \in Slots : Apply(view, row)[s] = IF s = row.slot THEN v ELSE view[s]
  BY <1>2, <1>4, <1>5
<1>7. Apply(view, row) \in Views
  BY <1>3, <1>6 DEF Views
<1> QED
  BY <1>6, <1>7 DEF v

(* No facts at all are a view.                                             *)
LEMMA NothingIsView == Nothing \in Views
  BY DEF Views, Nothing, Values

(* A fold of rows yields a view.                                           *)
LEMMA FoldIsView ==
  ASSUME NEW base \in Views
  PROVE  \A lines \in Seq(Rows) : FoldLines(base, lines) \in Views
<1> DEFINE S == {lines \in Seq(Rows) : FoldLines(base, lines) \in Views}
<1>1. <<>> \in S
  BY FoldNone
<1>2. ASSUME NEW lines \in Seq(Rows), NEW row \in Rows, lines \in S
      PROVE  Append(lines, row) \in S
  <2>1. FoldLines(base, Append(lines, row)) = Apply(FoldLines(base, lines), row)
    BY FoldOneMore
  <2> QED
    BY <1>2, <2>1, ApplyRow
<1> HIDE DEF S
<1>3. \A lines \in Seq(Rows) : lines \in S
  BY <1>1, <1>2, SequenceInduction
<1> QED
  BY <1>3 DEF S

(* Lines read after others are folded onto what those gave.                *)
LEMMA FoldConcat ==
  ASSUME NEW base, NEW first \in Seq(Rows)
  PROVE  \A lines \in Seq(Rows) :
           FoldLines(base, first \o lines) = FoldLines(FoldLines(base, first), lines)
<1> DEFINE S == {lines \in Seq(Rows) :
                   FoldLines(base, first \o lines) = FoldLines(FoldLines(base, first), lines)}
<1>1. <<>> \in S
  BY FoldNone
<1>2. ASSUME NEW lines \in Seq(Rows), NEW row \in Rows, lines \in S
      PROVE  Append(lines, row) \in S
  <2>1. first \o lines \in Seq(Rows) /\ first \o Append(lines, row) = Append(first \o lines, row)
    OBVIOUS
  <2>2. FoldLines(base, Append(first \o lines, row)) = Apply(FoldLines(base, first \o lines), row)
    <3> DEFINE both == first \o lines
    <3>1. both \in Seq(Rows)
      BY <2>1
    <3> HIDE DEF both
    <3>2. FoldLines(base, Append(both, row)) = Apply(FoldLines(base, both), row)
      BY <3>1, FoldOneMore
    <3> QED
      BY <3>2 DEF both
  <2>3. FoldLines(FoldLines(base, first), Append(lines, row))
          = Apply(FoldLines(FoldLines(base, first), lines), row)
    BY FoldOneMore
  <2>4. Append(lines, row) \in Seq(Rows)
    OBVIOUS
  <2> QED
    BY <1>2, <2>1, <2>2, <2>3, <2>4
<1> HIDE DEF S
<1>3. \A lines \in Seq(Rows) : lines \in S
  BY <1>1, <1>2, SequenceInduction
<1> QED
  BY <1>3 DEF S

(* What folding `fact` onto `old` gives, if there is a fact.               *)
Weigh(old, fact) == IF fact = Missing THEN old ELSE Fold(old, fact)

(* Whether a fact stays when a replayed one comes.                         *)
Sticks(fact) == fact.origin # "session_replay" /\ fact.tokens # NoTokens

(* What folds of the same rows give for a key: the same, whatever they     *)
(* begin with, once one of the rows is no replay's; else the last replay,  *)
(* weighed against the beginning.                                          *)
Decides(lines, s) ==
  LET r == FoldLines(Nothing, lines)[s]
  IN \/ r # Missing /\ \A b \in Views : FoldLines(b, lines)[s] = r
     \/ /\ r = Missing \/ r.origin = "session_replay"
        /\ \A b \in Views : FoldLines(b, lines)[s] = Weigh(b[s], r)

(* Every sequence of rows decides every key so.                            *)
LEMMA FoldDecides ==
  ASSUME NEW s \in Slots
  PROVE  \A lines \in Seq(Rows) : Decides(lines, s)
<1> DEFINE S == {lines \in Seq(Rows) : Decides(lines, s)}
<1>1. <<>> \in S
  <2>1. FoldLines(Nothing, <<>>)[s] = Missing
    BY FoldNone DEF Nothing
  <2>2. \A b \in Views : FoldLines(b, <<>>)[s] = Weigh(b[s], Missing)
    BY FoldNone DEF Weigh
  <2> QED
    BY <2>1, <2>2 DEF Decides
<1>2. ASSUME NEW lines \in Seq(Rows), NEW row \in Rows, Decides(lines, s)
      PROVE  Decides(Append(lines, row), s)
  <2> DEFINE more == Append(lines, row)
             r == FoldLines(Nothing, lines)[s]
             r2 == FoldLines(Nothing, more)[s]
  <2>1. ASSUME NEW b \in Views
        PROVE  FoldLines(b, more)[s]
                 = IF s = row.slot THEN Fold(FoldLines(b, lines)[s], row.fact) ELSE FoldLines(b, lines)[s]
    <3>1. FoldLines(b, more) = Apply(FoldLines(b, lines), row)
      BY FoldOneMore
    <3>2. FoldLines(b, lines) \in Views
      BY FoldIsView
    <3> QED
      BY <3>1, <3>2, ApplyRow
  <2>2. r2 = IF s = row.slot THEN Fold(r, row.fact) ELSE r
    BY <2>1, NothingIsView
  <2>3. row.fact \in Facts /\ row.fact # Missing /\ row.fact \in FactsOf(row.slot)
    BY RowIsReadable
  <2>4. r \in FactsOf(s) \cup {Missing}
    BY FoldIsView, NothingIsView DEF Views
  <2>5. \A b \in Views : b[s] \in FactsOf(s) \cup {Missing}
    BY DEF Views
  <2> HIDE DEF more, r, r2
  <2>6. CASE s # row.slot
    <3>1. r2 = r /\ \A b \in Views : FoldLines(b, more)[s] = FoldLines(b, lines)[s]
      BY <2>1, <2>2, <2>6
    <3> QED
      BY <1>2, <3>1, Zenon DEF Decides, more, r, r2
  <2>7. CASE s = row.slot /\ row.fact.origin # "session_replay"
    <3>1. \A old : Fold(old, row.fact) = row.fact
      BY <2>7 DEF Fold, ShouldReplace
    <3>2. r2 = row.fact /\ r2 # Missing /\ \A b \in Views : FoldLines(b, more)[s] = r2
      BY <2>1, <2>2, <2>3, <2>7, <3>1
    <3> QED
      BY <3>2, Zenon DEF Decides, more, r2
  <2>8. CASE s = row.slot /\ row.fact.origin = "session_replay"
    <3>1. CASE r # Missing /\ \A b \in Views : FoldLines(b, lines)[s] = r
      <4>1. r2 # Missing
        BY <2>2, <2>3, <2>8, <3>1 DEF Fold
      <4>2. \A b \in Views : FoldLines(b, more)[s] = r2
        BY <2>1, <2>2, <2>8, <3>1
      <4> QED
        BY <4>1, <4>2, Zenon DEF Decides, more, r2
    <3>2. CASE /\ r = Missing \/ r.origin = "session_replay"
               /\ \A b \in Views : FoldLines(b, lines)[s] = Weigh(b[s], r)
      <4>1. r2 = row.fact
        BY <2>2, <2>8, <3>2 DEF Fold, ShouldReplace, Missing
      <4>2. ASSUME NEW b \in Views
            PROVE  FoldLines(b, more)[s] = Weigh(b[s], r2)
        <5>1. FoldLines(b, more)[s] = Fold(Weigh(b[s], r), row.fact)
          BY <2>1, <2>8, <3>2
        <5>2. Fold(Weigh(b[s], r), row.fact) = Fold(b[s], row.fact)
          BY <2>8, <3>2 DEF Weigh, Fold, ShouldReplace
        <5> QED
          BY <5>1, <5>2, <4>1, <2>3 DEF Weigh
      <4>3. r2.origin = "session_replay"
        BY <4>1, <2>8
      <4> QED
        BY <4>2, <4>3, Zenon DEF Decides, more, r2
    <3> QED
      BY <1>2, <3>1, <3>2, Zenon DEF Decides, r
  <2> QED
    BY <2>6, <2>7, <2>8 DEF more
<1>3. \A lines \in Seq(Rows) : \A row \in Rows : lines \in S => Append(lines, row) \in S
  BY <1>2
<1> HIDE DEF S
<1>4. \A lines \in Seq(Rows) : lines \in S
  BY <1>1, <1>3, SequenceInduction
<1> QED
  BY <1>4 DEF S

(* Once the fold of some rows has been weighed into what they are folded   *)
(* onto, they give what they gave before.                                  *)
LEMMA FoldAgain ==
  ASSUME NEW s \in Slots, NEW lines \in Seq(Rows), NEW old \in Views, NEW new \in Views,
         new[s] = old[s] \/ new[s] = Weigh(old[s], FoldLines(Nothing, lines)[s])
  PROVE  FoldLines(new, lines)[s] = FoldLines(old, lines)[s]
<1> DEFINE r == FoldLines(Nothing, lines)[s]
<1>1. Decides(lines, s)
  BY FoldDecides
<1> HIDE DEF r
<1>2. CASE \A b \in Views : FoldLines(b, lines)[s] = r
  BY <1>2
<1>3. CASE /\ r = Missing \/ r.origin = "session_replay"
           /\ \A b \in Views : FoldLines(b, lines)[s] = Weigh(b[s], r)
  <2>1. Weigh(Weigh(old[s], r), r) = Weigh(old[s], r)
    BY <1>3 DEF Weigh, Fold, ShouldReplace
  <2> QED
    BY <1>3, <2>1 DEF r
<1> QED
  BY <1>1, <1>2, <1>3, Zenon DEF Decides, r

(* What rows give for a key stays when their fold takes their place, or a  *)
(* fact they had overruled comes back.                                     *)
LEMMA FoldReplaced ==
  ASSUME NEW s \in Slots, NEW lines \in Seq(Rows), NEW base \in Views
  PROVE  LET r == FoldLines(Nothing, lines)[s]
         IN \/ FoldLines(base, lines)[s] = Weigh(base[s], r)
            \/ /\ r.origin = "session_replay" /\ FoldLines(base, lines)[s] = r
               /\ Weigh(base[s], r) = base[s] /\ Sticks(base[s])
<1> DEFINE r == FoldLines(Nothing, lines)[s]
<1>1. Decides(lines, s)
  BY FoldDecides
<1> HIDE DEF r
<1>2. CASE r # Missing /\ \A b \in Views : FoldLines(b, lines)[s] = r
  <2>1. FoldLines(base, lines)[s] = r
    BY <1>2
  <2>2. \/ Weigh(base[s], r) = r
        \/ r.origin = "session_replay" /\ Weigh(base[s], r) = base[s] /\ Sticks(base[s])
    BY <1>2 DEF Weigh, Fold, ShouldReplace, Sticks
  <2> QED
    BY <2>1, <2>2 DEF r
<1>3. CASE \A b \in Views : FoldLines(b, lines)[s] = Weigh(b[s], r)
  BY <1>3 DEF r
<1> QED
  BY <1>1, <1>2, <1>3, Zenon DEF Decides, r

(* Rows of different keys.                                                 *)
Batches == {lines \in Seq(Rows) : \A i, j \in 1..Len(lines) : i # j => lines[i].slot # lines[j].slot}

(* What weighing a batch into `base` gives for a key.                      *)
Weighed(base, lines, s) ==
  \/ /\ FoldLines(base, lines)[s] = base[s]
     /\ \A i \in 1..Len(lines) : lines[i].slot # s
  \/ \E i \in 1..Len(lines) :
       lines[i].slot = s /\ FoldLines(base, lines)[s] = Fold(base[s], lines[i].fact)

(* The fold of a batch weighs each of its rows once.                       *)
LEMMA BatchFold ==
  ASSUME NEW base \in Views
  PROVE  \A lines \in Batches : \A s \in Slots : Weighed(base, lines, s)
<1> DEFINE S == {lines \in Seq(Rows) : lines \in Batches => \A s \in Slots : Weighed(base, lines, s)}
<1>1. <<>> \in S
  BY FoldNone DEF Weighed
<1>2. ASSUME NEW lines \in Seq(Rows), NEW row \in Rows, lines \in S, Append(lines, row) \in Batches,
             NEW s \in Slots
      PROVE  Weighed(base, Append(lines, row), s)
  <2> DEFINE more == Append(lines, row)
             n == Len(lines)
  <2>1. n \in Nat /\ Len(more) = n + 1 /\ more[n + 1] = row /\ \A i \in 1..n : more[i] = lines[i]
    OBVIOUS
  <2>0. \A i, j \in 1..Len(more) : i # j => more[i].slot # more[j].slot
    BY <1>2 DEF Batches
  <2>5. FoldLines(base, more)[s]
          = IF s = row.slot THEN Fold(FoldLines(base, lines)[s], row.fact) ELSE FoldLines(base, lines)[s]
    <3>1. FoldLines(base, more) = Apply(FoldLines(base, lines), row)
      BY FoldOneMore
    <3>2. FoldLines(base, lines) \in Views
      BY FoldIsView
    <3> QED
      BY <3>1, <3>2, ApplyRow
  <2> HIDE DEF more, n
  <2>2. ASSUME NEW i \in 1..n
        PROVE  lines[i].slot # row.slot
    <3>1. i \in 1..Len(more) /\ n + 1 \in 1..Len(more) /\ i # n + 1
      BY <2>1
    <3>2. more[i].slot # more[n + 1].slot
      BY <2>0, <3>1
    <3> QED
      BY <2>1, <3>2
  <2>3. lines \in Batches
    <3>1. ASSUME NEW i \in 1..n, NEW j \in 1..n, i # j
          PROVE  lines[i].slot # lines[j].slot
      <4>1. i \in 1..Len(more) /\ j \in 1..Len(more)
        BY <2>1
      <4>2. more[i].slot # more[j].slot
        BY <2>0, <3>1, <4>1
      <4> QED
        BY <2>1, <4>2
    <3> QED
      BY <3>1 DEF Batches, n
  <2>4. Weighed(base, lines, s)
    BY <1>2, <2>3
  <2>6. CASE s = row.slot
    <3>1. FoldLines(base, lines)[s] = base[s]
      BY <2>2, <2>4, <2>6 DEF Weighed, n
    <3>2. n + 1 \in 1..Len(more)
      BY <2>1
    <3>3. FoldLines(base, more)[s] = Fold(base[s], more[n + 1].fact) /\ more[n + 1].slot = s
      BY <2>1, <2>5, <2>6, <3>1
    <3> QED
      BY <3>2, <3>3, Zenon DEF Weighed, more
  <2>7. CASE s # row.slot
    <3>1. FoldLines(base, more)[s] = FoldLines(base, lines)[s]
      BY <2>5, <2>7
    <3>2. CASE FoldLines(base, lines)[s] = base[s] /\ \A i \in 1..n : lines[i].slot # s
      <4>1. \A i \in 1..Len(more) : more[i].slot # s
        BY <2>1, <2>7, <3>2
      <4> QED
        BY <3>1, <3>2, <4>1, Zenon DEF Weighed, more
    <3>3. ASSUME NEW i \in 1..n, lines[i].slot = s,
                 FoldLines(base, lines)[s] = Fold(base[s], lines[i].fact)
          PROVE  Weighed(base, more, s)
      <4>1. i \in 1..Len(more) /\ more[i] = lines[i]
        BY <2>1
      <4> QED
        BY <3>1, <3>3, <4>1, Zenon DEF Weighed
    <3> QED
      BY <2>4, <3>2, <3>3, Zenon DEF Weighed, n, more
  <2> QED
    BY <2>6, <2>7 DEF more
<1>3. \A lines \in Seq(Rows) : \A row \in Rows : lines \in S => Append(lines, row) \in S
  BY <1>2
<1> HIDE DEF S
<1>4. \A lines \in Seq(Rows) : lines \in S
  BY <1>1, <1>3, SequenceInduction
<1> QED
  BY <1>4 DEF S, Batches

(***************************************************************************)
(* Keys in order.                                                          *)
(***************************************************************************)
(* Times are numbers.                                                      *)
LEMMA TimeType ==
  ASSUME NEW s \in Slots
  PROVE  At(s) \in Nat /\ Month(s) \in Nat
  BY ConstantsAssumption DEF ConstantsAssumption, Slots, At, Month

(* Sets of keys are finite.                                                *)
LEMMA SlotsFinite ==
  ASSUME NEW S \in SUBSET Slots
  PROVE  IsFiniteSet(S) /\ Cardinality(S) \in Nat
<1>1. IsFiniteSet(Slots)
  BY ConstantsAssumption, FS_Union DEF ConstantsAssumption, Slots
<1> QED
  BY <1>1, FS_Subset, FS_CardinalityType

Ordered(S, order) ==
  \A i, j \in 1..Cardinality(S) : i < j => order[i] # order[j] /\ At(order[i]) <= At(order[j])

(* A set of keys can be put in order.                                      *)
LEMMA OrderExists ==
  ASSUME NEW S \in SUBSET Slots
  PROVE  \E order \in [1..Cardinality(S) -> S] : Ordered(S, order)
<1> DEFINE N == {n \in Nat : \A T \in SUBSET Slots : Cardinality(T) = n =>
                               \E order \in [1..Cardinality(T) -> T] : Ordered(T, order)}
<1>1. 0 \in N
  <2>1. ASSUME NEW T \in SUBSET Slots, Cardinality(T) = 0
        PROVE  \E order \in [1..Cardinality(T) -> T] : Ordered(T, order)
    <3>1. [i \in 1..0 |-> i] \in [1..Cardinality(T) -> T]
      BY <2>1
    <3>2. Ordered(T, [i \in 1..0 |-> i])
      BY <2>1 DEF Ordered
    <3> QED
      BY <3>1, <3>2
  <2> QED
    BY <2>1
<1>2. ASSUME NEW n \in Nat, n \in N
      PROVE  n + 1 \in N
  <2>1. ASSUME NEW T \in SUBSET Slots, Cardinality(T) = n + 1
        PROVE  \E order \in [1..Cardinality(T) -> T] : Ordered(T, order)
    <3>1. T # {} /\ IsFiniteSet(T)
      BY <2>1, SlotsFinite, FS_EmptySet
    <3>2. PICK m \in T : \A x \in T : At(m) <= At(x)
      <4>1. {At(x) : x \in T} \in SUBSET Nat /\ {At(x) : x \in T} # {}
        BY <3>1, TimeType
      <4>2. PICK t \in {At(x) : x \in T} : \A u \in {At(x) : x \in T} : t <= u
        BY <4>1, LeastNumber
      <4> QED
        BY <4>2
    <3> DEFINE R == T \ {m}
    <3>3. R \in SUBSET Slots /\ Cardinality(R) = n
      BY <2>1, <3>1, FS_RemoveElement
    <3>4. PICK rest \in [1..Cardinality(R) -> R] : Ordered(R, rest)
      BY <1>2, <3>3
    <3> DEFINE order == [i \in 1..(n + 1) |-> IF i = 1 THEN m ELSE rest[i - 1]]
    <3>a. rest \in [1..n -> R] /\ R \subseteq T /\ m \in T
      BY <3>2, <3>3, <3>4
    <3> HIDE DEF R
    <3>5. ASSUME NEW i \in 1..(n + 1), i # 1
          PROVE  i - 1 \in 1..n /\ order[i] = rest[i - 1] /\ order[i] \in R
      <4>1. i - 1 \in 1..n
        BY <3>5
      <4>2. order[i] = rest[i - 1]
        BY <3>5
      <4> QED
        BY <4>1, <4>2, <3>a
    <3>6. order[1] = m
      BY <1>2
    <3>7. order \in [1..(n + 1) -> T]
      <4>1. \A i \in 1..(n + 1) : order[i] \in T
        BY <3>5, <3>6, <3>a
      <4> QED
        BY <4>1
    <3> HIDE DEF order
    <3>8. ASSUME NEW i \in 1..(n + 1), NEW j \in 1..(n + 1), i < j
          PROVE  order[i] # order[j] /\ At(order[i]) <= At(order[j])
      <4>1. CASE i = 1
        <5>1. order[j] \in R /\ order[i] = m
          BY <3>5, <3>6, <3>8, <4>1
        <5>2. order[j] \in T /\ order[j] # m
          BY <5>1 DEF R
        <5> QED
          BY <3>2, <5>1, <5>2
      <4>2. CASE i # 1
        <5>1. i - 1 \in 1..n /\ j - 1 \in 1..n /\ i - 1 < j - 1 /\ j # 1
          BY <3>8, <4>2
        <5>2. rest[i - 1] # rest[j - 1] /\ At(rest[i - 1]) <= At(rest[j - 1])
          BY <3>3, <3>4, <5>1 DEF Ordered
        <5> QED
          BY <3>5, <4>2, <5>1, <5>2
      <4> QED
        BY <4>1, <4>2
    <3> QED
      BY <2>1, <3>7, <3>8 DEF Ordered
  <2> QED
    BY <2>1
<1> HIDE DEF N
<1>3. \A n \in Nat : n \in N
  BY <1>1, <1>2, SetInduction
<1>4. Cardinality(S) \in N
  BY <1>3, SlotsFinite
<1> QED
  BY <1>4 DEF N

(* InOrder has every key once.                                             *)
LEMMA InOrderType ==
  ASSUME NEW S \in SUBSET Slots
  PROVE  /\ InOrder(S) \in [1..Cardinality(S) -> S] /\ Cardinality(S) \in Nat
         /\ \A i, j \in 1..Cardinality(S) : i # j => InOrder(S)[i] # InOrder(S)[j]
         /\ \A s \in S : \E i \in 1..Cardinality(S) : InOrder(S)[i] = s
<1> DEFINE n == Cardinality(S)
           order == InOrder(S)
<1>1. n \in Nat /\ IsFiniteSet(S)
  BY SlotsFinite
<1>2. order \in [1..n -> S] /\ Ordered(S, order)
  BY OrderExists, Zenon DEF InOrder, Ordered
<1> HIDE DEF order
<1>3. \A i, j \in 1..n : i # j => order[i] # order[j]
  <2>1. \A i, j \in 1..n : i < j => order[i] # order[j]
    BY <1>2 DEF Ordered
  <2> HIDE DEF n
  <2> QED
    BY <1>1, <2>1
<1>4. order \in Injection(1..n, S)
  BY <1>2, <1>3 DEF Injection, IsInjective
<1>5. IsFiniteSet(1..n) /\ Cardinality(1..n) = n
  BY <1>1, FS_Interval
<1>6. order \in Surjection(1..n, S)
  BY <1>1, <1>4, <1>5, FS_Injection
<1>7. \A s \in S : \E i \in 1..n : order[i] = s
  BY <1>6 DEF Surjection
<1> QED
  BY <1>1, <1>2, <1>3, <1>7 DEF order

(***************************************************************************)
(* The batches the store writes.                                           *)
(***************************************************************************)
(* The lines of a function from keys to facts, in the keys' order.         *)
LinesOf(S, view) ==
  LET order == InOrder(S) IN [i \in DOMAIN order |-> Line(order[i], view[order[i]])]

(* A line of a key and a fact of it is a row.                              *)
LEMMA LineType ==
  ASSUME NEW s \in Slots, NEW fact \in FactsOf(s)
  PROVE  Line(s, fact) \in Rows /\ Line(s, fact).slot = s /\ Line(s, fact).fact = fact
<1>1. fact \in Facts
  BY DEF FactsOf, Facts
<1> QED
  BY <1>1 DEF Line, Rows

(* They are a batch that has every key.                                    *)
LEMMA LinesAreBatch ==
  ASSUME NEW S \in SUBSET Slots, NEW view, \A s \in S : view[s] \in FactsOf(s)
  PROVE  /\ LinesOf(S, view) \in Batches /\ Len(LinesOf(S, view)) = Cardinality(S)
         /\ \A i \in 1..Cardinality(S) : /\ LinesOf(S, view)[i].slot \in S
                                         /\ LinesOf(S, view)[i].fact = view[LinesOf(S, view)[i].slot]
         /\ \A s \in S : \E i \in 1..Cardinality(S) : LinesOf(S, view)[i].slot = s
<1> DEFINE n == Cardinality(S)
           order == InOrder(S)
           lines == LinesOf(S, view)
<1>1. /\ order \in [1..n -> S] /\ n \in Nat
      /\ \A i, j \in 1..n : i # j => order[i] # order[j]
      /\ \A s \in S : \E i \in 1..n : order[i] = s
  BY InOrderType
<1>2. lines = [i \in 1..n |-> Line(order[i], view[order[i]])]
  BY <1>1 DEF LinesOf
<1> HIDE DEF order, lines, n
<1>3. ASSUME NEW i \in 1..n
      PROVE  /\ lines[i] \in Rows /\ order[i] \in S
             /\ lines[i].slot = order[i] /\ lines[i].fact = view[order[i]]
  <2>1. order[i] \in S /\ lines[i] = Line(order[i], view[order[i]])
    BY <1>1, <1>2
  <2>2. order[i] \in Slots /\ view[order[i]] \in FactsOf(order[i])
    BY <2>1
  <2> QED
    BY <2>1, <2>2, LineType
<1>4. lines \in Seq(Rows) /\ Len(lines) = n
  <2>1. lines \in [1..n -> Rows]
    BY <1>2, <1>3
  <2> QED
    BY <1>1, <2>1
<1>5. \A i, j \in 1..n : i # j => lines[i].slot # lines[j].slot
  BY <1>1, <1>3
<1>6. lines \in Batches
  BY <1>4, <1>5 DEF Batches
<1>7. \A s \in S : \E i \in 1..n : lines[i].slot = s
  BY <1>1, <1>3
<1>8. \A i \in 1..n : lines[i].slot \in S /\ lines[i].fact = view[lines[i].slot]
  BY <1>3
<1> QED
  BY <1>4, <1>6, <1>7, <1>8 DEF lines, n

(* The first lines of a batch are a batch.                                 *)
LEMMA PartOfBatch ==
  ASSUME NEW lines \in Batches, NEW k \in 0..Len(lines)
  PROVE  /\ SubSeq(lines, 1, k) \in Batches /\ Len(SubSeq(lines, 1, k)) = k
         /\ \A i \in 1..k : SubSeq(lines, 1, k)[i] = lines[i]
<1>1. lines \in Seq(Rows) /\ \A i, j \in 1..Len(lines) : i # j => lines[i].slot # lines[j].slot
  BY DEF Batches
<1>2. /\ SubSeq(lines, 1, k) \in Seq(Rows) /\ Len(SubSeq(lines, 1, k)) = k
      /\ \A i \in 1..k : SubSeq(lines, 1, k)[i] = lines[i]
  BY <1>1
<1>3. \A i, j \in 1..k : i # j => SubSeq(lines, 1, k)[i].slot # SubSeq(lines, 1, k)[j].slot
  BY <1>1, <1>2
<1> QED
  BY <1>2, <1>3 DEF Batches

(* The first of the lines, as many as an append takes.                     *)
FirstLinesOf(S, view) ==
  [i \in 1..Min({Batch, Len(InOrder(S))}) |-> Line(InOrder(S)[i], view[InOrder(S)[i]])]

(* How many they are.                                                      *)
LEMMA FirstCount ==
  ASSUME NEW S \in SUBSET Slots
  PROVE  LET k == Min({Batch, Len(InOrder(S))})
         IN /\ k \in Nat /\ k <= Cardinality(S) /\ k <= Batch
            /\ k = Cardinality(S) \/ k = Batch
            /\ Len(InOrder(S)) = Cardinality(S) /\ Batch \in Nat \ {0}
<1> DEFINE n == Len(InOrder(S))
<1>1. InOrder(S) \in [1..Cardinality(S) -> S] /\ Cardinality(S) \in Nat
  BY InOrderType
<1>2. n = Cardinality(S) /\ n \in Nat /\ Batch \in Nat \ {0}
  BY <1>1, ConstantsAssumption DEF ConstantsAssumption
<1> HIDE DEF n
<1>3. LET k == Min({Batch, n}) IN k \in Nat /\ k <= n /\ k <= Batch /\ (k = n \/ k = Batch)
  BY <1>2 DEF Min
<1> QED
  BY <1>2, <1>3 DEF n

(* A bound on a batch cuts it to its first lines.                          *)
LEMMA FirstLines ==
  ASSUME NEW S \in SUBSET Slots, NEW view, \A s \in S : view[s] \in FactsOf(s)
  PROVE  /\ FirstLinesOf(S, view) \in Batches
         /\ FirstLinesOf(S, view) = <<>> => S = {}
         /\ \A i \in 1..Len(FirstLinesOf(S, view)) :
              /\ FirstLinesOf(S, view)[i].slot \in S
              /\ FirstLinesOf(S, view)[i].fact = view[FirstLinesOf(S, view)[i].slot]
<1> DEFINE n == Cardinality(S)
           order == InOrder(S)
           k == Min({Batch, Len(order)})
           lines == LinesOf(S, view)
           first == FirstLinesOf(S, view)
<1>1. order \in [1..n -> S] /\ n \in Nat /\ IsFiniteSet(S)
  BY InOrderType, SlotsFinite
<1>2. Len(order) = n /\ Batch \in Nat \ {0}
  BY <1>1, ConstantsAssumption DEF ConstantsAssumption
<1>3. k \in Nat /\ k <= n /\ k <= Batch /\ (k = n \/ k = Batch)
  BY FirstCount
<1>4. lines = [i \in 1..n |-> Line(order[i], view[order[i]])]
  BY <1>1 DEF LinesOf
<1>5. /\ lines \in Batches /\ Len(lines) = n
      /\ \A i \in 1..n : lines[i].slot \in S /\ lines[i].fact = view[lines[i].slot]
  BY LinesAreBatch
<1>0. first = [i \in 1..k |-> Line(order[i], view[order[i]])]
  BY DEF FirstLinesOf
<1> HIDE DEF order, k, lines, n, first
<1>6. first = SubSeq(lines, 1, k)
  <2>1. DOMAIN SubSeq(lines, 1, k) = 1..k /\ DOMAIN first = 1..k
    BY <1>0, <1>3, <1>5, PartOfBatch DEF Batches
  <2>2. \A i \in 1..k : SubSeq(lines, 1, k)[i] = lines[i]
    BY <1>3, <1>5, PartOfBatch
  <2>3. \A i \in 1..k : first[i] = lines[i]
    BY <1>0, <1>1, <1>3, <1>4
  <2>4. SubSeq(lines, 1, k) \in Seq(Rows) /\ Len(SubSeq(lines, 1, k)) = k
    BY <1>3, <1>5, PartOfBatch DEF Batches
  <2>5. SubSeq(lines, 1, k) = [i \in 1..k |-> SubSeq(lines, 1, k)[i]]
    BY <2>1, <2>4
  <2> QED
    BY <1>0, <2>1, <2>2, <2>3, <2>5
<1>7. first \in Batches /\ Len(first) = k /\ \A i \in 1..k : first[i] = lines[i]
  <2>1. /\ SubSeq(lines, 1, k) \in Batches /\ Len(SubSeq(lines, 1, k)) = k
        /\ \A i \in 1..k : SubSeq(lines, 1, k)[i] = lines[i]
    BY <1>3, <1>5, PartOfBatch
  <2> QED
    BY <1>6, <2>1, Zenon
<1>8. first = <<>> => S = {}
  <2>1. ASSUME first = <<>>
        PROVE  S = {}
    <3>1. n = 0
      BY <1>2, <1>3, <1>7, <2>1
    <3> QED
      BY <3>1, <1>1, FS_EmptySet DEF n
  <2> QED
    BY <2>1
<1>9. \A i \in 1..Len(first) : first[i].slot \in S /\ first[i].fact = view[first[i].slot]
  BY <1>1, <1>3, <1>5, <1>7
<1> QED
  BY <1>7, <1>8, <1>9 DEF first

(***************************************************************************)
(* The invariant.                                                          *)
(***************************************************************************)
(* Lines are written whole or not at all.                                  *)
WholeLines == ~CanTear

(* The file is rows, and every view is of facts its keys can have.         *)
RowsOnly ==
  /\ tail = <<>> /\ hot \in Seq(Rows)
  /\ archive \in Views /\ minutes \in Views /\ maintenance.rows \in Views
  /\ \A m \in Minutes : ledger[m] <= MaxRevision
  /\ phase = "down" => minutes = Nothing

(* Maintenance knows the file; a cold row is in the archive unless its     *)
(* month is still to come.                                                 *)
MaintenanceFollows ==
  phase = "maintain" =>
    /\ maintenance.rows = FoldLines(Nothing, hot)
    /\ \A s \in Slots :
         Cold(s) => \/ Month(s) \in maintenance.months
                    \/ archive[s] = Weigh(archive[s], maintenance.rows[s])

(* What is served is stored, a measurement exactly.                        *)
ServedIsStored ==
  \A s \in Slots : /\ minutes[s] # Missing => Durable[s] # Missing
                   /\ Measured(minutes[s]) => Durable[s] = minutes[s]

(* The minutes lost, and the one the sampler is at, which can be.          *)
AtRisk == {m \in offered : ~Measured(Durable[m]) \/ m = cursor + 1}

LossesAreCounted ==
  /\ \A m \in offered : m <= now /\ m <= cursor + 1
  /\ Cardinality(AtRisk) <= crashes + faults

JournalInv ==
  /\ TypeOK /\ RowsOnly /\ MaintenanceFollows /\ ServedIsStored
  /\ LegacyKept /\ LossesAreCounted

(***************************************************************************)
(* What the parts of an action do.                                         *)
(***************************************************************************)
(* A view is a function from keys to values.                               *)
LEMMA ViewType ==
  ASSUME NEW view \in Views
  PROVE  view \in [Slots -> Values] /\ \A s \in Slots : view[s] \in FactsOf(s) \cup {Missing}
  BY DEF Views

(* Minutes and legacy rates are different keys.                            *)
LEMMA KeysApart ==
  /\ \A m \in Minutes : m \in Slots /\ m \notin Legacy /\ m \in Nat /\ At(m) = m
                        /\ FactsOf(m) = Facts \ {LegacyRate}
  /\ \A s \in Legacy : s \in Slots /\ FactsOf(s) = {LegacyRate}
  /\ \A s \in Slots : s \notin Legacy => s \in Minutes
  BY ConstantsAssumption DEF ConstantsAssumption, Slots, At, FactsOf

(* The facts of minutes.                                                   *)
LEMMA MinuteFactType ==
  ASSUME NEW m \in Minutes
  PROVE  /\ \A fact \in MinuteFacts : fact \in FactsOf(m) /\ fact.origin = "online"
         /\ \A n \in 1..MaxRevision : Replayed(n) \in FactsOf(m)
<1>1. FactsOf(m) = Facts \ {LegacyRate}
  BY KeysApart
<1>2. \A fact \in MinuteFacts : fact \in Facts /\ fact.origin = "online" /\ fact # LegacyRate
  BY DEF MinuteFacts, Facts, Online, Unavailable, LegacyRate
<1>3. \A n \in 1..MaxRevision : Replayed(n) \in Facts /\ Replayed(n) # LegacyRate
  BY DEF Facts, Replayed, LegacyRate
<1> QED
  BY <1>1, <1>2, <1>3

(* Merging a batch into the view replaces the facts of its keys.           *)
LEMMA MergeType ==
  ASSUME minutes \in Views, NEW lines \in Batches
  PROVE  /\ Merge(lines) \in Views
         /\ \A s \in Slots :
              (\A i \in 1..Len(lines) : lines[i].slot # s) => Merge(lines)[s] = minutes[s]
         /\ \A i \in 1..Len(lines) : Merge(lines)[lines[i].slot] = lines[i].fact
<1>1. /\ lines \in Seq(Rows) /\ DOMAIN lines = 1..Len(lines)
      /\ \A i, j \in 1..Len(lines) : i # j => lines[i].slot # lines[j].slot
  BY DEF Batches
<1>2. \A i \in 1..Len(lines) : /\ lines[i].slot \in Slots /\ lines[i].fact \in FactsOf(lines[i].slot)
                               /\ lines[i].fact \in Facts
  BY <1>1, RowIsReadable
<1>3. ASSUME NEW s \in Slots, \A i \in 1..Len(lines) : lines[i].slot # s
      PROVE  Merge(lines)[s] = minutes[s]
  BY <1>1, <1>3 DEF Merge
<1>4. ASSUME NEW i \in 1..Len(lines)
      PROVE  Merge(lines)[lines[i].slot] = lines[i].fact
  <2> DEFINE s == lines[i].slot
             j == CHOOSE k \in DOMAIN lines : lines[k].slot = s
  <2>1. j \in 1..Len(lines) /\ lines[j].slot = s
    BY <1>1
  <2>2. j = i
    BY <1>1, <2>1
  <2>3. Merge(lines)[s] = lines[j].fact
    BY <1>1, <1>2 DEF Merge
  <2> QED
    BY <2>2, <2>3
<1>5. ASSUME NEW s \in Slots
      PROVE  Merge(lines)[s] \in FactsOf(s) \cup {Missing}
  <2>1. CASE \E i \in 1..Len(lines) : lines[i].slot = s
    BY <2>1, <1>2, <1>4
  <2>2. CASE ~ \E i \in 1..Len(lines) : lines[i].slot = s
    BY <2>2, <1>3, ViewType
  <2> QED
    BY <2>1, <2>2
<1>6. \A s \in Slots : FactsOf(s) \cup {Missing} \subseteq Values
  BY DEF FactsOf, Values, Facts
<1>7. Merge(lines) = [s \in Slots |-> Merge(lines)[s]]
  BY DEF Merge
<1>8. \A s \in Slots : Merge(lines)[s] \in Values
  BY <1>5, <1>6
<1>9. Merge(lines) \in [Slots -> Values]
  BY <1>7, <1>8, Zenon
<1> QED
  BY <1>3, <1>4, <1>5, <1>9 DEF Views

(* Pruning removes expired minutes.                                        *)
LEMMA PrunedType ==
  ASSUME NEW view \in Views
  PROVE  /\ Pruned(view) \in Views
         /\ \A s \in Slots : Pruned(view)[s] = IF s \in Minutes /\ Expired(s) THEN Missing ELSE view[s]
<1>1. \A s \in Slots : Pruned(view)[s] = IF s \in Minutes /\ Expired(s) THEN Missing ELSE view[s]
  BY DEF Pruned
<1>2. \A s \in Slots : Pruned(view)[s] \in FactsOf(s) \cup {Missing} /\ Pruned(view)[s] \in Values
  BY <1>1, ViewType DEF Values
<1>3. Pruned(view) \in [Slots -> Values]
  BY <1>2 DEF Pruned
<1> QED
  BY <1>1, <1>2, <1>3 DEF Views

(* The rates a migration writes next.                                      *)
LEMMA LegacyBatchType ==
  ASSUME history \subseteq Legacy
  PROVE  /\ LegacyBatch \in Batches
         /\ \A i \in 1..Len(LegacyBatch) :
              /\ LegacyBatch[i].slot \in history /\ ~Expired(LegacyBatch[i].slot)
              /\ minutes[LegacyBatch[i].slot] = Missing /\ LegacyBatch[i].fact = LegacyRate
         /\ LegacyBatch = <<>> => \A s \in history : Expired(s) \/ minutes[s] # Missing
<1> DEFINE S == {s \in ToMigrate : minutes[s] = Missing}
           view == [s \in S |-> LegacyRate]
           first == FirstLinesOf(S, view)
<1>1. /\ S \in SUBSET Slots /\ S \subseteq history /\ \A s \in S : ~Expired(s) /\ minutes[s] = Missing
      /\ \A s \in history : Expired(s) \/ minutes[s] # Missing \/ s \in S
  BY DEF ToMigrate, Slots
<1>2. LegacyBatch = [i \in 1..Min({Batch, Len(InOrder(S))}) |-> Line(InOrder(S)[i], LegacyRate)]
  BY DEF LegacyBatch, FirstBatch
<1> HIDE DEF S
<1>3. \A s \in S : view[s] = LegacyRate /\ view[s] \in FactsOf(s)
  BY <1>1 DEF FactsOf
<1> HIDE DEF view
<1>4. /\ first \in Batches
      /\ first = <<>> => S = {}
      /\ \A i \in 1..Len(first) : first[i].slot \in S /\ first[i].fact = view[first[i].slot]
  BY <1>1, <1>3, FirstLines
<1>5. LegacyBatch = first
  <2> DEFINE k == Min({Batch, Len(InOrder(S))})
  <2>1. InOrder(S) \in [1..Cardinality(S) -> S] /\ Cardinality(S) \in Nat
    BY <1>1, InOrderType
  <2>2. k \in Nat /\ k <= Cardinality(S)
    BY <1>1, FirstCount
  <2>3. first = [i \in 1..k |-> Line(InOrder(S)[i], view[InOrder(S)[i]])]
    BY DEF FirstLinesOf
  <2> HIDE DEF k
  <2>4. \A i \in 1..k : view[InOrder(S)[i]] = LegacyRate
    BY <1>3, <2>1, <2>2
  <2> QED
    BY <1>2, <2>3, <2>4 DEF k
<1> HIDE DEF first
<1>6. ASSUME first = <<>>
      PROVE  \A s \in history : Expired(s) \/ minutes[s] # Missing
  <2>1. \A s : s \notin S
    BY <1>4, <1>6
  <2> QED
    BY <1>1, <2>1
<1>7. ASSUME NEW i \in 1..Len(first)
      PROVE  /\ first[i].slot \in history /\ ~Expired(first[i].slot)
             /\ minutes[first[i].slot] = Missing /\ first[i].fact = LegacyRate
  BY <1>1, <1>3, <1>4
<1> QED
  BY <1>4, <1>5, <1>6, <1>7

(* The sums a replay publishes next.                                       *)
LEMMA ReplayBatchType ==
  ASSUME \A m \in Minutes : ledger[m] \in Nat /\ ledger[m] <= MaxRevision
  PROVE  /\ ReplayBatch \in Batches
         /\ \A i \in 1..Len(ReplayBatch) :
              /\ ReplayBatch[i].slot \in Minutes /\ ~Expired(ReplayBatch[i].slot)
              /\ ~Measured(minutes[ReplayBatch[i].slot])
              /\ ReplayBatch[i].fact = Replayed(ledger[ReplayBatch[i].slot])
              /\ ledger[ReplayBatch[i].slot] \in 1..MaxRevision
<1> DEFINE S == ToPublish
           view == [s \in S |-> Replayed(ledger[s])]
           first == FirstLinesOf(S, view)
<1>1. /\ S \in SUBSET Slots /\ S \subseteq Minutes
      /\ \A s \in S : ~Expired(s) /\ ~Measured(minutes[s]) /\ ledger[s] \in 1..MaxRevision
  <2>1. MaxRevision \in Nat
    BY ConstantsAssumption DEF ConstantsAssumption
  <2> QED
    BY <2>1 DEF ToPublish, Slots
<1>2. ReplayBatch
        = [i \in 1..Min({Batch, Len(InOrder(S))}) |-> Line(InOrder(S)[i], Replayed(ledger[InOrder(S)[i]]))]
  BY DEF ReplayBatch, FirstBatch
<1> HIDE DEF S
<1>3. \A s \in S : view[s] = Replayed(ledger[s]) /\ view[s] \in FactsOf(s)
  BY <1>1, MinuteFactType
<1> HIDE DEF view
<1>4. /\ first \in Batches
      /\ \A i \in 1..Len(first) : first[i].slot \in S /\ first[i].fact = view[first[i].slot]
  BY <1>1, <1>3, FirstLines
<1>5. ReplayBatch = first
  <2> DEFINE k == Min({Batch, Len(InOrder(S))})
  <2>1. InOrder(S) \in [1..Cardinality(S) -> S] /\ Cardinality(S) \in Nat
    BY <1>1, InOrderType
  <2>2. k \in Nat /\ k <= Cardinality(S)
    BY <1>1, FirstCount
  <2>3. first = [i \in 1..k |-> Line(InOrder(S)[i], view[InOrder(S)[i]])]
    BY DEF FirstLinesOf
  <2> HIDE DEF k
  <2>4. \A i \in 1..k : view[InOrder(S)[i]] = Replayed(ledger[InOrder(S)[i]])
    BY <1>3, <2>1, <2>2
  <2> QED
    BY <1>2, <2>3, <2>4 DEF k
<1> HIDE DEF first
<1> QED
  BY <1>1, <1>3, <1>4, <1>5

Types == TypeOK /\ RowsOnly

(* Rows are lines.                                                         *)
LEMMA RowsAreLines == \A lines \in Seq(Rows) : lines \in Seq(Lines)
<1>1. Rows \subseteq Lines
  BY DEF Rows, Lines
<1> QED
  BY <1>1

(* An append puts its lines behind the others.                             *)
LEMMA PersistWrites ==
  ASSUME RowsOnly, NEW lines \in Seq(Rows), Persist(lines)
  PROVE  hot' = hot \o lines /\ hot' \in Seq(Rows) /\ tail' = <<>>
<1>1. CASE lines = <<>>
  BY <1>1 DEF Persist, RowsOnly
<1>2. CASE lines # <<>>
  <2>1. tail = <<>> /\ hot \in Seq(Rows)
    BY DEF RowsOnly
  <2>2. hot' = hot \o lines /\ tail' = <<>>
    BY <1>2, <2>1 DEF Persist, Joined
  <2> QED
    BY <2>1, <2>2
<1> QED
  BY <1>1, <1>2

(* One cut short puts its first lines there.                               *)
LEMMA PartlyWrites ==
  ASSUME WholeLines, RowsOnly, NEW lines \in Batches, PersistPartly(lines)
  PROVE  /\ tail' = <<>> /\ hot' \in Seq(Rows)
         /\ \E part \in Batches :
              /\ hot' = hot \o part
              /\ \A i \in 1..Len(part) : \E j \in 1..Len(lines) : part[i] = lines[j]
<1>1. lines \in Seq(Rows) /\ hot \in Seq(Rows) /\ tail = <<>> /\ ~CanTear
  BY DEF Batches, RowsOnly, WholeLines
<1>2. PICK k \in 0..Len(lines) :
        /\ hot' = IF k = 0 THEN hot ELSE Joined(SubSeq(lines, 1, k))
        /\ tail' \in TornAfter(lines, k) \cup {IF k = 0 THEN tail ELSE <<>>}
  BY Zenon DEF PersistPartly
<1>3. tail' = <<>>
  BY <1>1, <1>2 DEF TornAfter
<1> DEFINE part == SubSeq(lines, 1, k)
<1>4. part \in Batches /\ Len(part) = k /\ \A i \in 1..k : part[i] = lines[i]
  BY PartOfBatch
<1>5. hot' = hot \o part
  BY <1>1, <1>2 DEF Joined
<1>6. part \in Seq(Rows)
  BY <1>4 DEF Batches
<1> HIDE DEF part
<1>7. hot' \in Seq(Rows)
  BY <1>1, <1>5, <1>6
<1>8. \A i \in 1..Len(part) : \E j \in 1..Len(lines) : part[i] = lines[j]
  BY <1>1, <1>4
<1> QED
  BY <1>3, <1>4, <1>5, <1>7, <1>8

(* What a batch behind the file does to what a load reads.                 *)
LEMMA DurableAppended ==
  ASSUME RowsOnly, NEW lines \in Batches, hot' = hot \o lines, tail' = <<>>, archive' = archive
  PROVE  \A s \in Slots :
           \/ Durable'[s] = Durable[s] /\ \A i \in 1..Len(lines) : lines[i].slot # s
           \/ \E i \in 1..Len(lines) :
                lines[i].slot = s /\ Durable'[s] = Fold(Durable[s], lines[i].fact)
<1>1. hot \in Seq(Rows) /\ lines \in Seq(Rows) /\ archive \in Views
  BY DEF RowsOnly, Batches
<1>2. hot \o tail = hot /\ hot' \o tail' = hot \o lines
  BY <1>1 DEF RowsOnly
<1>3. Durable = FoldLines(archive, hot)
  BY <1>2 DEF Durable
<1>4. Durable' = FoldLines(archive, hot \o lines)
  BY <1>2 DEF Durable
<1>5. Durable' = FoldLines(Durable, lines)
  BY <1>1, <1>3, <1>4, FoldConcat
<1>6. Durable \in Views
  BY <1>1, <1>3, FoldIsView
<1>7. \A s \in Slots : Weighed(Durable, lines, s)
  BY <1>6, BatchFold
<1> QED
  BY <1>5, <1>7 DEF Weighed

(* A load reads a view.                                                    *)
LEMMA DurableIsView ==
  ASSUME RowsOnly
  PROVE  Durable = FoldLines(archive, hot) /\ Durable \in Views
<1>1. hot \in Seq(Rows) /\ archive \in Views /\ hot \o tail = hot
  BY DEF RowsOnly
<1> QED
  BY <1>1, FoldIsView DEF Durable

(* What is not written is what was read before.                            *)
LEMMA DurableKept ==
  ASSUME UNCHANGED files
  PROVE  Durable' = Durable
  BY DEF files, Durable

(* Maintenance reads the journal.                                          *)
LEMMA MaintenanceBegins ==
  ASSUME NEW journal \in Seq(Rows), NEW back, BeginMaintenance(journal, <<>>, back)
  PROVE  /\ phase' = "maintain"
         /\ maintenance'.rows = FoldLines(Nothing, journal) /\ maintenance'.rows \in Views
         /\ maintenance'.months \in SUBSET Nat /\ maintenance'.back = back
         /\ maintenance' = [rows |-> maintenance'.rows, months |-> maintenance'.months, back |-> back]
         /\ \A s \in Slots : Cold(s) => \/ Month(s) \in maintenance'.months
                                        \/ maintenance'.rows[s] = Missing
<1> DEFINE rows == FoldLines(Nothing, journal)
           months == {Month(s) : s \in {r \in Slots : rows[r] # Missing /\ Cold(r)}}
<1>1. rows \in Views
  BY NothingIsView, FoldIsView
<1>2. ~ \E i \in DOMAIN journal : journal[i] = Corrupt
  BY RowIsReadable
<1>3. phase' = "maintain" /\ maintenance' = [rows |-> rows, back |-> back, months |-> months]
  BY <1>2, Zenon DEF BeginMaintenance
<1>4. months \in SUBSET Nat
  BY TimeType
<1>5. \A s \in Slots : Cold(s) => Month(s) \in months \/ rows[s] = Missing
  OBVIOUS
<1> HIDE DEF rows, months
<1>6. maintenance'.rows = rows /\ maintenance'.months = months /\ maintenance'.back = back
  BY <1>3
<1>7. maintenance' = [rows |-> maintenance'.rows, months |-> maintenance'.months, back |-> back]
  BY <1>3, <1>6
<1>8. rows = FoldLines(Nothing, journal)
  BY DEF rows
<1> QED
  BY <1>1, <1>3, <1>4, <1>5, <1>6, <1>7, <1>8, Zenon

(* Maintenance after an append, if it is due.                              *)
LEMMA MaintenanceIfDue ==
  ASSUME now \in Nat, nextMaintenance \in Nat, hot' \in Seq(Rows), MaintainIfDue
  PROVE  /\ nextMaintenance' \in Nat
         /\ \/ phase' = "up" /\ maintenance' = maintenance
            \/ BeginMaintenance(hot', <<>>, "up")
<1>1. CASE now < nextMaintenance
  BY <1>1 DEF MaintainIfDue
<1>2. CASE ~(now < nextMaintenance)
  <2>1. nextMaintenance' = now + 1
    BY <1>2 DEF MaintainIfDue
  <2>2. CASE Len(hot') < HotLimit /\ now < nextColdRoll
    BY <1>2, <2>1, <2>2 DEF MaintainIfDue
  <2>3. CASE ~(Len(hot') < HotLimit /\ now < nextColdRoll)
    BY <1>2, <2>1, <2>3 DEF MaintainIfDue
  <2> QED
    BY <2>2, <2>3
<1> QED
  BY <1>1, <1>2

(***************************************************************************)
(* Types.                                                                  *)
(***************************************************************************)
Numbers ==
  /\ now \in Nat /\ cursor \in Nat /\ crashes \in Nat /\ faults \in Nat
  /\ nextMaintenance \in Nat /\ nextColdRoll \in Nat

FilesType == hot \in Seq(Rows) /\ tail = <<>> /\ archive \in Views

WorkType ==
  /\ phase \in Phases
  /\ maintenance \in [rows : [Slots -> Values], months : SUBSET Nat, back : {"up", "migrate"}]
  /\ maintenance.rows \in Views
  /\ phase # "maintain" => maintenance = NoMaintenance

ViewsType ==
  /\ minutes \in Views /\ history \subseteq Legacy
  /\ phase = "down" => minutes = Nothing
  /\ ledger \in [Minutes -> Nat] /\ (\A m \in Minutes : ledger[m] <= MaxRevision)
  /\ dirty \in BOOLEAN /\ offered \subseteq Minutes

(* The parts of the types.                                                 *)
LEMMA TypeParts == Types <=> Numbers /\ FilesType /\ WorkType /\ ViewsType
<1>1. Types => Numbers /\ FilesType /\ WorkType /\ ViewsType
  BY DEF Types, TypeOK, RowsOnly, Numbers, FilesType, WorkType, ViewsType
<1>2. ASSUME Numbers, FilesType, WorkType, ViewsType
      PROVE  Types
  <2>1. hot \in Seq(Lines) /\ tail \in Seq(Lines) /\ Len(tail) <= 1
    BY <1>2, RowsAreLines DEF FilesType
  <2>2. archive \in [Slots -> Values] /\ minutes \in [Slots -> Values]
    BY <1>2, ViewType DEF FilesType, ViewsType
  <2> QED
    BY <1>2, <2>1, <2>2 DEF Types, TypeOK, RowsOnly, Numbers, FilesType, WorkType, ViewsType
<1> QED
  BY <1>1, <1>2

(* The constants of the types.                                             *)
LEMMA ConstantTypes ==
  /\ HotWindow \in Nat /\ Retention \in Nat /\ ColdRoll \in Nat
  /\ MaxRevision \in Nat /\ HotLimit \in Nat \ {0} /\ Batch \in Nat \ {0}
  BY ConstantsAssumption DEF ConstantsAssumption

(* The maintenance that is not under way.                                  *)
LEMMA NoMaintenanceType ==
  /\ NoMaintenance \in [rows : [Slots -> Values], months : SUBSET Nat, back : {"up", "migrate"}]
  /\ NoMaintenance.rows \in Views /\ NoMaintenance.rows = Nothing
<1>1. Nothing \in Views /\ Nothing \in [Slots -> Values]
  BY NothingIsView, ViewType
<1>2. NoMaintenance.rows = Nothing
  BY DEF NoMaintenance
<1> HIDE DEF Nothing
<1>3. NoMaintenance \in [rows : [Slots -> Values], months : SUBSET Nat, back : {"up", "migrate"}]
  BY <1>1 DEF NoMaintenance
<1> QED
  BY <1>1, <1>2, <1>3

(* The sampler's line is a batch of one.                                   *)
LEMMA MinuteLine ==
  ASSUME MinuteDue, NEW fact \in MinuteFacts
  PROVE  /\ cursor + 1 \in Minutes /\ cursor + 1 \in Slots /\ cursor + 1 <= now
         /\ <<Line(cursor + 1, fact)>> \in Batches /\ Len(<<Line(cursor + 1, fact)>>) = 1
         /\ <<Line(cursor + 1, fact)>>[1].slot = cursor + 1
         /\ <<Line(cursor + 1, fact)>>[1].fact = fact
<1>1. cursor + 1 \in Minutes /\ cursor + 1 \in Slots /\ cursor + 1 <= now
  BY KeysApart DEF MinuteDue
<1> DEFINE line == Line(cursor + 1, fact)
<1>2. line \in Rows /\ line.slot = cursor + 1 /\ line.fact = fact
  BY <1>1, MinuteFactType, LineType
<1> HIDE DEF line
<1>3. <<line>> \in Seq(Rows) /\ Len(<<line>>) = 1 /\ <<line>>[1] = line
  BY <1>2
<1>4. <<line>> \in Batches
  BY <1>3 DEF Batches
<1> QED
  BY <1>1, <1>2, <1>3, <1>4 DEF line

(* The keys whose rows the hot file keeps.                                 *)
KeptSlots == {s \in Slots : maintenance.rows[s] # Missing /\ ~Cold(s)}

(* Their rows are a batch.                                                 *)
LEMMA KeptIsBatch ==
  ASSUME maintenance.rows \in Views
  PROVE  /\ LinesOf(KeptSlots, maintenance.rows) \in Batches
         /\ \A s \in Slots :
              \/ /\ s \in KeptSlots
                 /\ \E i \in 1..Len(LinesOf(KeptSlots, maintenance.rows)) :
                      LinesOf(KeptSlots, maintenance.rows)[i].slot = s
              \/ /\ s \notin KeptSlots
                 /\ \A i \in 1..Len(LinesOf(KeptSlots, maintenance.rows)) :
                      LinesOf(KeptSlots, maintenance.rows)[i].slot # s
         /\ \A i \in 1..Len(LinesOf(KeptSlots, maintenance.rows)) :
              LinesOf(KeptSlots, maintenance.rows)[i].fact
                = maintenance.rows[LinesOf(KeptSlots, maintenance.rows)[i].slot]
<1> DEFINE rows == maintenance.rows
           lines == LinesOf(KeptSlots, rows)
<1>1. KeptSlots \in SUBSET Slots /\ \A s \in KeptSlots : rows[s] \in FactsOf(s)
  BY ViewType DEF KeptSlots
<1>2. /\ lines \in Batches /\ Len(lines) = Cardinality(KeptSlots)
      /\ \A i \in 1..Cardinality(KeptSlots) : lines[i].slot \in KeptSlots /\ lines[i].fact = rows[lines[i].slot]
      /\ \A s \in KeptSlots : \E i \in 1..Cardinality(KeptSlots) : lines[i].slot = s
  BY <1>1, LinesAreBatch
<1> HIDE DEF lines
<1> QED
  BY <1>2 DEF lines

(* Rewriting the hot file leaves those rows in it.                         *)
LEMMA ReplaceHotWrites ==
  ASSUME Types, ReplaceHot
  PROVE  /\ hot' = LinesOf(KeptSlots, maintenance.rows) /\ hot' \in Batches /\ hot' \in Seq(Rows)
         /\ tail' = <<>> /\ archive' = archive
<1>1. hot' = LinesOf(KeptSlots, maintenance.rows)
  BY DEF ReplaceHot, LinesOf, KeptSlots
<1>2. maintenance.rows \in Views
  BY DEF Types, RowsOnly
<1>3. hot' \in Batches
  BY <1>1, <1>2, KeptIsBatch
<1>4. hot' \in Seq(Rows)
  BY <1>3 DEF Batches
<1>5. tail' = <<>> /\ archive' = archive
  BY DEF ReplaceHot, Types, RowsOnly
<1> QED
  BY <1>1, <1>3, <1>4, <1>5

(* A month's archive weighs its rows.                                      *)
LEMMA ArchiveMonthWrites ==
  ASSUME Types, ArchiveMonth
  PROVE  /\ archive' \in Views /\ hot' = hot /\ tail' = tail
         /\ \A s \in Slots : \/ archive'[s] = archive[s] /\ ~(Cold(s) /\ Month(s) = Min(maintenance.months))
                             \/ archive'[s] = Weigh(archive[s], maintenance.rows[s])
<1>0. hot' = hot /\ tail' = tail
  BY DEF ArchiveMonth
<1>1. archive \in Views /\ maintenance.rows \in Views
  BY DEF Types, RowsOnly
<1> DEFINE due(s) == maintenance.rows[s] # Missing /\ Cold(s) /\ Month(s) = Min(maintenance.months)
<1>2. archive' = [s \in Slots |-> IF due(s) THEN Fold(archive[s], maintenance.rows[s]) ELSE archive[s]]
  BY DEF ArchiveMonth
<1>3. ASSUME NEW s \in Slots
      PROVE  archive'[s] \in FactsOf(s) \cup {Missing} /\ archive'[s] \in Values
  <2>1. archive[s] \in FactsOf(s) \cup {Missing} /\ maintenance.rows[s] \in FactsOf(s) \cup {Missing}
    BY <1>1, ViewType
  <2>2. archive'[s] \in FactsOf(s) \cup {Missing}
    BY <1>2, <2>1, FoldType
  <2>3. FactsOf(s) \cup {Missing} \subseteq Values
    BY DEF FactsOf, Values, Facts
  <2> QED
    BY <2>2, <2>3
<1>4. archive' = [s \in Slots |-> archive'[s]]
  BY <1>2
<1>5. archive' \in [Slots -> Values]
  BY <1>3, <1>4, Zenon
<1>6. archive' \in Views
  BY <1>3, <1>5 DEF Views
<1>7. \A s \in Slots : \/ archive'[s] = archive[s] /\ ~(Cold(s) /\ Month(s) = Min(maintenance.months))
                       \/ archive'[s] = Weigh(archive[s], maintenance.rows[s])
  BY <1>2 DEF Weigh
<1> QED
  BY <1>0, <1>6, <1>7

(* The numbers stay numbers.                                               *)
LEMMA NumbersStep ==
  ASSUME Types, Next
  PROVE  Numbers'
<1>0. Numbers /\ ViewsType
  BY TypeParts
<1>a. \A n \in {now, cursor, crashes, faults} : n \in Nat /\ n + 1 \in Nat
  BY <1>0 DEF Numbers
<1> USE DEF Numbers
<1>1. CASE Tick
  BY <1>0, <1>1 DEF Tick, timers
<1>2. CASE ArchiveMonth
  BY <1>0, <1>2 DEF ArchiveMonth, timers
<1>3. CASE ReplaceHot
  <2>1. now + ColdRoll \in Nat
    BY <1>0, ConstantTypes
  <2> QED
    BY <1>0, <1>3, <2>1 DEF ReplaceHot
<1>4. CASE AbandonMaintenance
  BY <1>0, <1>4 DEF AbandonMaintenance, Fault, timers
<1>5. CASE Start
  BY <1>0, <1>5 DEF Start
<1>6. CASE MigrateBatch
  BY <1>0, <1>6 DEF MigrateBatch, timers
<1>7. CASE RejectBatch
  BY <1>0, <1>7 DEF RejectBatch, Fault, timers
<1>8. CASE FinishMigration
  BY <1>0, <1>8 DEF FinishMigration, Fault, timers
<1>9. CASE SkipMinute
  BY <1>0, <1>9 DEF SkipMinute, timers
<1>10. CASE ObservationGap
  BY <1>0, <1>10 DEF ObservationGap, timers
<1>11. CASE IdlePoll
  BY <1>0, <1>11 DEF IdlePoll, vars, timers
<1>12. ASSUME NEW fact \in MinuteFacts, RecordMinute(fact)
       PROVE  Numbers'
  <2>1. nextMaintenance' = nextMaintenance \/ nextMaintenance' = now + 1
    BY <1>12 DEF RecordMinute, MaintainIfDue
  <2> QED
    BY <1>0, <1>12, <2>1 DEF RecordMinute
<1>13. ASSUME NEW fact \in MinuteFacts, RejectMinute(fact)
       PROVE  Numbers'
  BY <1>0, <1>13 DEF RejectMinute, Fault, timers
<1>14. ASSUME NEW fact \in MinuteFacts, CrashInMinute(fact)
       PROVE  Numbers'
  BY <1>0, <1>14 DEF CrashInMinute, Stop, timers
<1>15. ASSUME NEW m \in Minutes, AdvanceLedger(m)
       PROVE  Numbers'
  BY <1>0, <1>15 DEF AdvanceLedger, timers
<1>16. CASE PublishReplay
  <2>1. nextMaintenance' = nextMaintenance \/ nextMaintenance' = now + 1
    BY <1>16 DEF PublishReplay, MaintainIfDue
  <2> QED
    BY <1>0, <1>16, <2>1 DEF PublishReplay
<1>17. CASE RejectReplay
  BY <1>0, <1>17 DEF RejectReplay, Fault, timers
<1>18. CASE CrashIdle
  BY <1>0, <1>18 DEF CrashIdle, Stop, timers
<1>19. CASE CrashInBatch
  BY <1>0, <1>19 DEF CrashInBatch, Stop, timers
<1> QED
  BY <1>1, <1>2, <1>3, <1>4, <1>5, <1>6, <1>7, <1>8, <1>9, <1>10, <1>11, <1>12, <1>13, <1>14,
     <1>15, <1>16, <1>17, <1>18, <1>19 DEF Next

(* What a batch writes, whole or in part, leaves rows.                     *)
LEMMA FilesAppended ==
  ASSUME WholeLines, Types, NEW lines \in Batches, Persist(lines) \/ PersistPartly(lines),
         archive' = archive
  PROVE  FilesType'
<1>1. RowsOnly /\ lines \in Seq(Rows)
  BY DEF Types, Batches
<1>2. hot' \in Seq(Rows) /\ tail' = <<>>
  BY <1>1, PersistWrites, PartlyWrites
<1> QED
  BY <1>1, <1>2 DEF FilesType, RowsOnly

(* The replay's batch can be written.                                      *)
LEMMA BatchesOfTypes ==
  ASSUME Types
  PROVE  ReplayBatch \in Batches /\ LegacyBatch \in Batches
<1>1. ViewsType
  BY TypeParts
<1>2. history \subseteq Legacy /\ \A m \in Minutes : ledger[m] \in Nat /\ ledger[m] <= MaxRevision
  BY <1>1 DEF ViewsType
<1> QED
  BY <1>2, ReplayBatchType, LegacyBatchType

(* The files stay rows.                                                    *)
LEMMA FilesStep ==
  ASSUME WholeLines, Types, Next
  PROVE  FilesType'
<1>0. FilesType /\ ReplayBatch \in Batches /\ LegacyBatch \in Batches
  BY TypeParts, BatchesOfTypes
<1>a. ASSUME UNCHANGED files
      PROVE  FilesType'
  BY <1>0, <1>a DEF files, FilesType
<1>1. CASE Tick
  BY <1>1, <1>a DEF Tick
<1>2. CASE ArchiveMonth
  BY <1>0, <1>2, ArchiveMonthWrites DEF FilesType
<1>3. CASE ReplaceHot
  BY <1>0, <1>3, ReplaceHotWrites DEF FilesType
<1>4. CASE AbandonMaintenance
  BY <1>4, <1>a DEF AbandonMaintenance
<1>5. CASE Start
  BY <1>5, <1>a DEF Start
<1>6. CASE MigrateBatch
  BY <1>0, <1>6, FilesAppended DEF MigrateBatch
<1>7. CASE RejectBatch
  BY <1>0, <1>7, FilesAppended DEF RejectBatch
<1>8. CASE FinishMigration
  BY <1>8, <1>a DEF FinishMigration
<1>9. CASE SkipMinute
  BY <1>9, <1>a DEF SkipMinute
<1>10. CASE ObservationGap
  BY <1>10, <1>a DEF ObservationGap
<1>11. CASE IdlePoll
  BY <1>11, <1>a DEF IdlePoll, vars
<1>12. ASSUME NEW fact \in MinuteFacts, RecordMinute(fact)
       PROVE  FilesType'
  BY <1>12, MinuteLine, FilesAppended DEF RecordMinute
<1>13. ASSUME NEW fact \in MinuteFacts, RejectMinute(fact)
       PROVE  FilesType'
  BY <1>13, MinuteLine, FilesAppended DEF RejectMinute
<1>14. ASSUME NEW fact \in MinuteFacts, CrashInMinute(fact)
       PROVE  FilesType'
  BY <1>14, MinuteLine, FilesAppended DEF CrashInMinute, Stop
<1>15. ASSUME NEW m \in Minutes, AdvanceLedger(m)
       PROVE  FilesType'
  BY <1>15, <1>a DEF AdvanceLedger
<1>16. CASE PublishReplay
  BY <1>0, <1>16, FilesAppended DEF PublishReplay
<1>17. CASE RejectReplay
  BY <1>0, <1>17, FilesAppended DEF RejectReplay
<1>18. CASE CrashIdle
  BY <1>18, <1>a DEF CrashIdle, Stop, files
<1>19. CASE CrashInBatch
  BY <1>0, <1>19, FilesAppended DEF CrashInBatch, Stop
<1> QED
  BY <1>1, <1>2, <1>3, <1>4, <1>5, <1>6, <1>7, <1>8, <1>9, <1>10, <1>11, <1>12, <1>13, <1>14,
     <1>15, <1>16, <1>17, <1>18, <1>19 DEF Next

(* Maintenance that begins is of its type.                                 *)
LEMMA WorkBegun ==
  ASSUME NEW journal \in Seq(Rows), NEW back \in {"up", "migrate"}, BeginMaintenance(journal, <<>>, back)
  PROVE  WorkType'
<1>1. /\ phase' = "maintain" /\ maintenance'.rows \in Views /\ maintenance'.months \in SUBSET Nat
      /\ maintenance' = [rows |-> maintenance'.rows, months |-> maintenance'.months, back |-> back]
  BY MaintenanceBegins
<1>2. maintenance'.rows \in [Slots -> Values]
  BY <1>1, ViewType
<1> DEFINE rows == maintenance'.rows
           months == maintenance'.months
<1> HIDE DEF rows, months
<1>3. [rows |-> rows, months |-> months, back |-> back]
        \in [rows : [Slots -> Values], months : SUBSET Nat, back : {"up", "migrate"}]
  BY <1>1, <1>2 DEF rows, months
<1> QED
  BY <1>1, <1>3 DEF WorkType, Phases, rows, months

(* The phase and the work in progress keep their types.                    *)
LEMMA WorkStep ==
  ASSUME WholeLines, Types, Next
  PROVE  WorkType'
<1>0. WorkType /\ FilesType /\ FilesType' /\ now \in Nat /\ nextMaintenance \in Nat
  BY TypeParts, FilesStep DEF Numbers
<1>a. ASSUME UNCHANGED <<phase, maintenance>>
      PROVE  WorkType'
  BY <1>0, <1>a DEF WorkType
<1>b. ASSUME phase' \in {"up", "down", "migrate", "publish"}, maintenance' = NoMaintenance
      PROVE  WorkType'
  BY <1>b, NoMaintenanceType DEF WorkType, Phases
<1>c. ASSUME phase' \in {"up", "down", "migrate", "publish"}, phase # "maintain", maintenance' = maintenance
      PROVE  WorkType'
  BY <1>0, <1>b, <1>c DEF WorkType
<1>d. ASSUME MaintainIfDue, phase # "maintain"
      PROVE  WorkType'
  <2>1. hot' \in Seq(Rows)
    BY <1>0 DEF FilesType
  <2>2. (phase' = "up" /\ maintenance' = maintenance) \/ BeginMaintenance(hot', <<>>, "up")
    BY <1>0, <1>d, <2>1, MaintenanceIfDue
  <2> QED
    BY <1>c, <1>d, <2>1, <2>2, WorkBegun
<1>e. maintenance.back \in {"up", "migrate"}
  BY <1>0 DEF WorkType
<1>1. CASE Tick
  BY <1>1, <1>a DEF Tick
<1>2. CASE ArchiveMonth
  <2> DEFINE months == maintenance.months \ {Min(maintenance.months)}
  <2>1. maintenance' = [maintenance EXCEPT !.months = months] /\ phase' = phase /\ phase = "maintain"
    BY <1>2 DEF ArchiveMonth
  <2>2. months \in SUBSET Nat
    BY <1>0 DEF WorkType
  <2> HIDE DEF months
  <2>3. /\ maintenance' \in [rows : [Slots -> Values], months : SUBSET Nat, back : {"up", "migrate"}]
        /\ maintenance'.rows = maintenance.rows
    BY <1>0, <2>1, <2>2 DEF WorkType
  <2> QED
    BY <1>0, <2>1, <2>3 DEF WorkType
<1>3. CASE ReplaceHot
  BY <1>3, <1>b, <1>e DEF ReplaceHot
<1>4. CASE AbandonMaintenance
  BY <1>4, <1>b, <1>e DEF AbandonMaintenance
<1>5. CASE Start
  <2>1. phase = "down" /\ hot \in Seq(Rows) /\ tail = <<>>
    BY <1>0, <1>5 DEF Start, FilesType
  <2>2. \/ BeginMaintenance(hot, tail, "migrate")
        \/ phase' = "migrate" /\ maintenance' = maintenance
    BY <1>5 DEF Start
  <2> QED
    BY <1>c, <2>1, <2>2, WorkBegun
<1>6. CASE MigrateBatch
  BY <1>6, <1>a DEF MigrateBatch
<1>7. CASE RejectBatch
  BY <1>7, <1>c DEF RejectBatch
<1>8. CASE FinishMigration
  BY <1>8, <1>c DEF FinishMigration
<1>9. CASE SkipMinute
  BY <1>9, <1>a DEF SkipMinute
<1>10. CASE ObservationGap
  BY <1>10, <1>a DEF ObservationGap
<1>11. CASE IdlePoll
  BY <1>11, <1>a DEF IdlePoll, vars
<1>12. ASSUME NEW fact \in MinuteFacts, RecordMinute(fact)
       PROVE  WorkType'
  BY <1>12, <1>d DEF RecordMinute, MinuteDue
<1>13. ASSUME NEW fact \in MinuteFacts, RejectMinute(fact)
       PROVE  WorkType'
  BY <1>13, <1>a DEF RejectMinute
<1>14. ASSUME NEW fact \in MinuteFacts, CrashInMinute(fact)
       PROVE  WorkType'
  BY <1>14, <1>b DEF CrashInMinute, Stop
<1>15. ASSUME NEW m \in Minutes, AdvanceLedger(m)
       PROVE  WorkType'
  BY <1>15, <1>a DEF AdvanceLedger
<1>16. CASE PublishReplay
  <2>1. phase # "maintain" /\ (MaintainIfDue \/ (phase' = "publish" /\ maintenance' = maintenance))
    BY <1>16 DEF PublishReplay
  <2> QED
    BY <2>1, <1>c, <1>d
<1>17. CASE RejectReplay
  BY <1>17, <1>c DEF RejectReplay
<1>18. CASE CrashIdle
  BY <1>18, <1>b DEF CrashIdle, Stop
<1>19. CASE CrashInBatch
  BY <1>19, <1>b DEF CrashInBatch, Stop
<1> QED
  BY <1>1, <1>2, <1>3, <1>4, <1>5, <1>6, <1>7, <1>8, <1>9, <1>10, <1>11, <1>12, <1>13, <1>14,
     <1>15, <1>16, <1>17, <1>18, <1>19 DEF Next

(* A view that is loaded has no expired facts.                             *)
LEMMA LoadedType ==
  ASSUME RowsOnly
  PROVE  [s \in Slots |-> IF Expired(s) THEN Missing ELSE Durable[s]] \in Views
<1> DEFINE loaded == [s \in Slots |-> IF Expired(s) THEN Missing ELSE Durable[s]]
<1>1. Durable \in Views
  BY DurableIsView
<1>2. \A s \in Slots : loaded[s] \in FactsOf(s) \cup {Missing} /\ loaded[s] \in Values
  BY <1>1, ViewType DEF Values
<1>3. loaded \in [Slots -> Values]
  BY <1>2
<1> QED
  BY <1>2, <1>3 DEF Views

(* The view, the old file, the ledger and the offers keep their types.     *)
LEMMA ViewsStep ==
  ASSUME WholeLines, Types, Next
  PROVE  ViewsType'
<1>0. ViewsType /\ ReplayBatch \in Batches /\ LegacyBatch \in Batches /\ WorkType /\ RowsOnly
  BY TypeParts, BatchesOfTypes DEF Types
<1>r. ledger \in [Minutes -> Nat] /\ minutes \in Views
  BY <1>0 DEF ViewsType
<1>a. ASSUME UNCHANGED <<history, minutes, ledger, dirty, offered>>, phase' = "down" => phase = "down"
      PROVE  ViewsType'
  BY <1>0, <1>a DEF ViewsType
<1>b. ASSUME UNCHANGED <<history, ledger>>, dirty' \in BOOLEAN, offered' \subseteq Minutes,
             minutes' \in Views, phase' # "down"
      PROVE  ViewsType'
  BY <1>0, <1>b DEF ViewsType
<1>c. ASSUME NEW lines \in Batches
      PROVE  Merge(lines) \in Views /\ Pruned(Merge(lines)) \in Views
  BY <1>r, MergeType, PrunedType
<1>d. ASSUME Stop, offered' \subseteq Minutes
      PROVE  ViewsType'
  BY <1>0, <1>d, NothingIsView DEF Stop, replay, ViewsType
<1>e. ASSUME MaintainIfDue
      PROVE  phase' # "down"
  BY <1>e DEF MaintainIfDue, BeginMaintenance
<1>f. ASSUME NEW fact, Offer(fact), MinuteDue
      PROVE  offered' \subseteq Minutes
  BY <1>0, <1>f DEF Offer, MinuteDue, ViewsType
<1>g. dirty \in BOOLEAN /\ offered \subseteq Minutes
  BY <1>0 DEF ViewsType
<1>1. CASE Tick
  BY <1>1, <1>a DEF Tick, replay
<1>2. CASE ArchiveMonth
  BY <1>2, <1>a DEF ArchiveMonth, replay
<1>3. CASE ReplaceHot
  BY <1>0, <1>3, <1>a DEF ReplaceHot, replay, WorkType
<1>4. CASE AbandonMaintenance
  BY <1>0, <1>4, <1>a DEF AbandonMaintenance, replay, WorkType
<1>5. CASE Start
  <2>1. minutes' \in Views
    BY <1>0, <1>5, LoadedType DEF Start
  <2>2. phase' # "down"
    BY <1>5 DEF Start, BeginMaintenance
  <2>3. UNCHANGED <<history, ledger, offered>> /\ dirty' \in BOOLEAN
    BY <1>5 DEF Start
  <2> QED
    BY <1>b, <1>g, <2>1, <2>2, <2>3
<1>6. CASE MigrateBatch
  BY <1>0, <1>6, <1>b, <1>c, <1>g DEF MigrateBatch, replay
<1>7. CASE RejectBatch
  BY <1>7, <1>a DEF RejectBatch, replay
<1>8. CASE FinishMigration
  BY <1>0, <1>8 DEF FinishMigration, replay, ViewsType
<1>9. CASE SkipMinute
  BY <1>9, <1>a DEF SkipMinute, replay
<1>10. CASE ObservationGap
  BY <1>10, <1>a DEF ObservationGap, replay
<1>11. CASE IdlePoll
  BY <1>11, <1>a DEF IdlePoll, vars, replay
<1>12. ASSUME NEW fact \in MinuteFacts, RecordMinute(fact)
       PROVE  ViewsType'
  <2>1. MinuteDue /\ Offer(fact) /\ MaintainIfDue /\ UNCHANGED <<history, ledger, dirty>>
        /\ minutes' = Pruned(Merge(<<Line(cursor + 1, fact)>>))
    BY <1>12 DEF RecordMinute, replay
  <2>2. <<Line(cursor + 1, fact)>> \in Batches
    BY <2>1, MinuteLine
  <2> QED
    BY <2>1, <2>2, <1>b, <1>c, <1>e, <1>f, <1>g
<1>13. ASSUME NEW fact \in MinuteFacts, RejectMinute(fact)
       PROVE  ViewsType'
  <2>1. offered' \subseteq Minutes
    BY <1>13, <1>f DEF RejectMinute
  <2> QED
    BY <1>0, <1>13, <2>1 DEF RejectMinute, replay, ViewsType
<1>14. ASSUME NEW fact \in MinuteFacts, CrashInMinute(fact)
       PROVE  ViewsType'
  <2>1. offered' \subseteq Minutes
    BY <1>14, <1>f DEF CrashInMinute
  <2> QED
    BY <1>14, <1>d, <2>1 DEF CrashInMinute
<1>15. ASSUME NEW m \in Minutes, AdvanceLedger(m)
       PROVE  ViewsType'
  <2>1. /\ ledger' = [ledger EXCEPT ![m] = ledger[m] + 1] /\ ledger[m] < MaxRevision
        /\ dirty' = TRUE /\ UNCHANGED <<history, minutes, offered>> /\ phase' = phase
    BY <1>15 DEF AdvanceLedger
  <2>2. ledger' \in [Minutes -> Nat] /\ \A k \in Minutes : ledger'[k] <= MaxRevision
    BY <1>0, <1>r, <2>1, ConstantTypes DEF ViewsType
  <2> QED
    BY <1>0, <2>1, <2>2 DEF ViewsType
<1>16. CASE PublishReplay
  <2>1. UNCHANGED <<history, ledger, offered>> /\ dirty' \in BOOLEAN
    BY <1>16 DEF PublishReplay
  <2>2. /\ minutes' = Merge(ReplayBatch) \/ minutes' = Pruned(Merge(ReplayBatch))
        /\ phase' = "publish" \/ MaintainIfDue
    BY <1>16 DEF PublishReplay
  <2>3. minutes' \in Views /\ phase' # "down"
    BY <1>0, <1>c, <1>e, <2>2
  <2> QED
    BY <1>b, <1>g, <2>1, <2>3
<1>17. CASE RejectReplay
  <2>1. minutes' \in Views
    BY <1>r, <1>17, PrunedType DEF RejectReplay
  <2> QED
    BY <1>17, <1>b, <1>g, <2>1 DEF RejectReplay, replay
<1>18. CASE CrashIdle
  BY <1>18, <1>d, <1>g DEF CrashIdle
<1>19. CASE CrashInBatch
  BY <1>19, <1>d, <1>g DEF CrashInBatch
<1> QED
  BY <1>1, <1>2, <1>3, <1>4, <1>5, <1>6, <1>7, <1>8, <1>9, <1>10, <1>11, <1>12, <1>13, <1>14,
     <1>15, <1>16, <1>17, <1>18, <1>19 DEF Next

(* Every step keeps the types.                                             *)
LEMMA TypesStep ==
  ASSUME WholeLines, Types, Next
  PROVE  Types'
<1>1. Numbers' /\ FilesType' /\ WorkType' /\ ViewsType'
  BY NumbersStep, FilesStep, WorkStep, ViewsStep
<1>2. Types' <=> Numbers' /\ FilesType' /\ WorkType' /\ ViewsType'
  BY TypeParts, PTL
<1> QED
  BY <1>1, <1>2

(***************************************************************************)
(* Maintenance.                                                            *)
(***************************************************************************)
(* Maintenance that has just read the file follows it.                     *)
LEMMA BegunFollows ==
  ASSUME Types', now' = now, NEW back, BeginMaintenance(hot', <<>>, back)
  PROVE  MaintenanceFollows'
<1>1. hot' \in Seq(Rows)
  BY DEF Types, RowsOnly
<1>2. /\ maintenance'.rows = FoldLines(Nothing, hot')
      /\ \A s \in Slots : Cold(s) => \/ Month(s) \in maintenance'.months
                                     \/ maintenance'.rows[s] = Missing
  BY <1>1, MaintenanceBegins
<1>3. \A s \in Slots : Cold(s)' <=> Cold(s)
  BY DEF Cold
<1> QED
  BY <1>2, <1>3 DEF MaintenanceFollows, Weigh

(* Every step keeps maintenance behind the file it read.                   *)
LEMMA MaintenanceStep ==
  ASSUME WholeLines, Types, MaintenanceFollows, Next
  PROVE  MaintenanceFollows'
<1>0. Types' /\ WorkType /\ now \in Nat /\ nextMaintenance \in Nat
  BY TypesStep, TypeParts DEF Numbers
<1>1. CASE phase # "maintain"
  <2>1. \/ phase' # "maintain"
        \/ \E back : BeginMaintenance(hot', <<>>, back) /\ now' = now
    <3>h. hot' \in Seq(Rows) /\ tail = <<>>
      BY <1>0 DEF Types, RowsOnly
    <3>m. ASSUME MaintainIfDue
          PROVE  phase' # "maintain" \/ BeginMaintenance(hot', <<>>, "up")
      BY <1>0, <3>h, <3>m, MaintenanceIfDue
    <3>1. CASE Start
      BY <1>1, <3>1, <3>h DEF Start, files
    <3>2. ASSUME NEW fact \in MinuteFacts, RecordMinute(fact)
          PROVE  phase' # "maintain" \/ \E back : BeginMaintenance(hot', <<>>, back) /\ now' = now
      BY <3>2, <3>m DEF RecordMinute
    <3>3. CASE PublishReplay
      BY <3>3, <3>m DEF PublishReplay
    <3>4. CASE /\ ~Start /\ ~PublishReplay
               /\ ~ \E fact \in MinuteFacts : RecordMinute(fact)
      BY <1>1, <3>4 DEF Next, Tick, ArchiveMonth, ReplaceHot, AbandonMaintenance, MigrateBatch,
         RejectBatch, FinishMigration, SkipMinute, ObservationGap, IdlePoll, vars, RejectMinute,
         CrashInMinute, Stop, AdvanceLedger, RejectReplay, CrashIdle, CrashInBatch
    <3> QED
      BY <3>1, <3>2, <3>3, <3>4
  <2> QED
    BY <1>0, <2>1, BegunFollows DEF MaintenanceFollows
<1>2. CASE phase = "maintain"
  <2>1. \/ phase' # "maintain" \/ ArchiveMonth
    BY <1>0, <1>2 DEF Next, Tick, ReplaceHot, AbandonMaintenance, Start, MigrateBatch,
       RejectBatch, FinishMigration, SkipMinute, ObservationGap, IdlePoll, RecordMinute, RejectMinute,
       CrashInMinute, Stop, AdvanceLedger, PublishReplay, RejectReplay, CrashIdle, CrashInBatch,
       MinuteDue, WorkType
  <2>2. CASE ArchiveMonth
    <3> DEFINE month == Min(maintenance.months)
    <3>1. /\ now' = now /\ hot' = hot
          /\ maintenance' = [maintenance EXCEPT !.months = maintenance.months \ {month}]
      BY <2>2 DEF ArchiveMonth
    <3>2. maintenance'.rows = maintenance.rows /\ maintenance'.months = maintenance.months \ {month}
      BY <1>0, <3>1 DEF WorkType
    <3>3. maintenance.rows = FoldLines(Nothing, hot)
      BY <1>2 DEF MaintenanceFollows
    <3>4. ASSUME NEW s \in Slots, Cold(s)'
          PROVE  \/ Month(s) \in maintenance'.months
                 \/ archive'[s] = Weigh(archive'[s], maintenance'.rows[s])
      <4> DEFINE r == maintenance.rows[s]
      <4>1. Cold(s)
        BY <3>1, <3>4 DEF Cold
      <4>2. Month(s) \in maintenance.months \/ archive[s] = Weigh(archive[s], r)
        BY <1>2, <4>1 DEF MaintenanceFollows
      <4>3. \/ archive'[s] = archive[s] /\ Month(s) # month
            \/ archive'[s] = Weigh(archive[s], r)
        BY <2>2, <4>1, ArchiveMonthWrites
      <4> HIDE DEF r
      <4>4. Weigh(Weigh(archive[s], r), r) = Weigh(archive[s], r)
        BY DEF Weigh, Fold, ShouldReplace
      <4> QED
        BY <3>2, <4>2, <4>3, <4>4 DEF r
    <3> QED
      BY <3>1, <3>2, <3>3, <3>4 DEF MaintenanceFollows
  <2> QED
    BY <2>1, <2>2 DEF MaintenanceFollows
<1> QED
  BY <1>1, <1>2

(***************************************************************************)
(* What a step does to a key.                                              *)
(***************************************************************************)
(* The facts a writer may have for a key: measurements of the sampler's    *)
(* minute only, and none that would displace what is served.               *)
MayWrite(s, fact) ==
  /\ fact \in FactsOf(s)
  /\ fact.origin = "online" => minutes[s].origin # "online" /\ s = cursor + 1
  /\ fact.origin = "session_replay" => ~Measured(minutes[s])
  /\ fact.origin = "legacy" => minutes[s] = Missing

Admitted(lines) == \A i \in 1..Len(lines) : MayWrite(lines[i].slot, lines[i].fact)

(* The durable fact stays; a written one is weighed into it; the writer    *)
(* serves it too; a measurement that had been overruled is back.           *)
Held(s)    == Durable'[s] = Durable[s]
Tried(s)   == \E fact \in FactsOf(s) : MayWrite(s, fact) /\ Durable'[s] = Fold(Durable[s], fact)
Taken(s)   == \E fact \in FactsOf(s) : /\ MayWrite(s, fact)
                                       /\ Durable'[s] = Fold(Durable[s], fact)
                                       /\ minutes'[s] = fact \/ (Expired(s) /\ minutes'[s] = Missing)
Resumed(s) == ~Measured(minutes[s]) /\ Measured(Durable'[s])

KeyWritten(s) ==
  \/ Taken(s)
  \/ (Held(s) \/ Tried(s) \/ Resumed(s)) /\ minutes'[s] = minutes[s]
  \/ Held(s) /\ Expired(s) /\ minutes'[s] = Missing

(* The three writers' lines are admitted.                                  *)
LEMMA WritersAdmitted ==
  ASSUME Types
  PROVE  /\ LegacyBatch \in Batches /\ Admitted(LegacyBatch)
         /\ ReplayBatch \in Batches /\ Admitted(ReplayBatch)
<1>1. ViewsType
  BY TypeParts
<1>2. history \subseteq Legacy /\ \A m \in Minutes : ledger[m] \in Nat /\ ledger[m] <= MaxRevision
  BY <1>1 DEF ViewsType
<1>3. ASSUME NEW i \in 1..Len(LegacyBatch)
      PROVE  MayWrite(LegacyBatch[i].slot, LegacyBatch[i].fact)
  <2>1. /\ LegacyBatch[i].slot \in Legacy /\ minutes[LegacyBatch[i].slot] = Missing
        /\ LegacyBatch[i].fact = LegacyRate
    BY <1>2, LegacyBatchType
  <2> QED
    BY <2>1 DEF MayWrite, FactsOf, LegacyRate
<1>4. ASSUME NEW i \in 1..Len(ReplayBatch)
      PROVE  MayWrite(ReplayBatch[i].slot, ReplayBatch[i].fact)
  <2>1. /\ ReplayBatch[i].slot \in Minutes /\ ~Measured(minutes[ReplayBatch[i].slot])
        /\ ReplayBatch[i].fact = Replayed(ledger[ReplayBatch[i].slot])
        /\ ledger[ReplayBatch[i].slot] \in 1..MaxRevision
    BY <1>2, ReplayBatchType
  <2>2. ReplayBatch[i].fact \in FactsOf(ReplayBatch[i].slot)
    BY <2>1, MinuteFactType
  <2>3. ReplayBatch[i].fact.origin = "session_replay"
    BY <2>1, FactKinds
  <2> QED
    BY <2>1, <2>2, <2>3 DEF MayWrite
<1> QED
  BY <1>2, <1>3, <1>4, LegacyBatchType, ReplayBatchType DEF Admitted

(* So is the sampler's.                                                    *)
LEMMA SamplerAdmitted ==
  ASSUME MinuteDue, NEW fact \in MinuteFacts, minutes[cursor + 1].origin # "online"
  PROVE  <<Line(cursor + 1, fact)>> \in Batches /\ Admitted(<<Line(cursor + 1, fact)>>)
<1> DEFINE line == <<Line(cursor + 1, fact)>>
<1>1. line \in Batches /\ Len(line) = 1 /\ line[1].slot = cursor + 1 /\ line[1].fact = fact
  BY MinuteLine
<1>2. fact \in FactsOf(cursor + 1) /\ fact.origin = "online"
  BY MinuteLine, MinuteFactType
<1> HIDE DEF line
<1>3. Admitted(line)
  BY <1>1, <1>2 DEF Admitted, MayWrite
<1> QED
  BY <1>1, <1>3 DEF line

(* A batch refused or cut short.                                           *)
LEMMA KeysTried ==
  ASSUME WholeLines, Types, NEW lines \in Batches, Admitted(lines), PersistPartly(lines),
         archive' = archive
  PROVE  \A s \in Slots : Held(s) \/ Tried(s)
<1>1. RowsOnly
  BY DEF Types
<1>2. PICK part \in Batches :
        /\ tail' = <<>> /\ hot' = hot \o part
        /\ \A i \in 1..Len(part) : \E j \in 1..Len(lines) : part[i] = lines[j]
  BY <1>1, PartlyWrites
<1>3. ASSUME NEW s \in Slots, NEW i \in 1..Len(part), part[i].slot = s,
             Durable'[s] = Fold(Durable[s], part[i].fact)
      PROVE  Tried(s)
  <2>1. MayWrite(s, part[i].fact)
    BY <1>2, <1>3 DEF Admitted
  <2>2. part[i].fact \in FactsOf(s)
    BY <2>1 DEF MayWrite
  <2> QED
    BY <1>3, <2>1, <2>2 DEF Tried
<1>4. ASSUME NEW s \in Slots
      PROVE  Held(s) \/ Tried(s)
  <2>1. \/ Durable'[s] = Durable[s] /\ \A i \in 1..Len(part) : part[i].slot # s
        \/ \E i \in 1..Len(part) :
             part[i].slot = s /\ Durable'[s] = Fold(Durable[s], part[i].fact)
    BY <1>1, <1>2, DurableAppended
  <2> QED
    BY <2>1, <1>3 DEF Held
<1> QED
  BY <1>4

(* A batch acknowledged, and served.                                       *)
LEMMA KeysTaken ==
  ASSUME Types, NEW lines \in Batches, Admitted(lines), Persist(lines), archive' = archive,
         minutes' = Merge(lines) \/ minutes' = Pruned(Merge(lines))
  PROVE  \A s \in Slots : KeyWritten(s)
<1>1. RowsOnly /\ lines \in Seq(Rows) /\ minutes \in Views
  BY DEF Types, RowsOnly, Batches
<1>2. hot' = hot \o lines /\ tail' = <<>>
  BY <1>1, PersistWrites
<1>3. /\ Merge(lines) \in Views
      /\ \A s \in Slots : (\A i \in 1..Len(lines) : lines[i].slot # s) => Merge(lines)[s] = minutes[s]
      /\ \A i \in 1..Len(lines) : Merge(lines)[lines[i].slot] = lines[i].fact
  BY <1>1, MergeType
<1>4. \A s \in Slots : \/ minutes'[s] = Merge(lines)[s]
                       \/ Expired(s) /\ minutes'[s] = Missing
  BY <1>3, PrunedType
<1>5. ASSUME NEW s \in Slots
      PROVE  KeyWritten(s)
  <2>1. CASE Durable'[s] = Durable[s] /\ \A i \in 1..Len(lines) : lines[i].slot # s
    <3>1. Merge(lines)[s] = minutes[s]
      BY <1>3, <2>1
    <3> QED
      BY <2>1, <1>4, <3>1 DEF KeyWritten, Held
  <2>2. ASSUME NEW i \in 1..Len(lines), lines[i].slot = s,
               Durable'[s] = Fold(Durable[s], lines[i].fact)
        PROVE  KeyWritten(s)
    <3>1. MayWrite(s, lines[i].fact) /\ lines[i].fact \in FactsOf(s)
      BY <2>2 DEF Admitted, MayWrite
    <3>2. Merge(lines)[s] = lines[i].fact
      BY <1>3, <2>2
    <3> QED
      BY <1>4, <2>2, <3>1, <3>2 DEF KeyWritten, Taken
  <2>3. \/ Durable'[s] = Durable[s] /\ \A i \in 1..Len(lines) : lines[i].slot # s
        \/ \E i \in 1..Len(lines) :
             lines[i].slot = s /\ Durable'[s] = Fold(Durable[s], lines[i].fact)
    BY <1>1, <1>2, DurableAppended
  <2> QED
    BY <2>1, <2>2, <2>3
<1> QED
  BY <1>5

(* Archiving a month changes nothing a load reads.                         *)
LEMMA KeysArchived ==
  ASSUME Types, MaintenanceFollows, ArchiveMonth
  PROVE  \A s \in Slots : Held(s)
<1>1. hot \in Seq(Rows) /\ tail = <<>> /\ archive \in Views /\ archive' \in Views
      /\ hot' = hot /\ tail' = tail
  BY ArchiveMonthWrites DEF Types, RowsOnly
<1>2. maintenance.rows = FoldLines(Nothing, hot)
  BY DEF MaintenanceFollows, ArchiveMonth
<1>3. \A s \in Slots : archive'[s] = archive[s]
                       \/ archive'[s] = Weigh(archive[s], FoldLines(Nothing, hot)[s])
  BY <1>2, ArchiveMonthWrites
<1>4. Durable = FoldLines(archive, hot)
  BY DurableIsView DEF Types
<1>5. Durable' = FoldLines(archive', hot)
  BY <1>1 DEF Durable
<1>6. \A s \in Slots : FoldLines(archive', hot)[s] = FoldLines(archive, hot)[s]
  BY <1>1, <1>3, FoldAgain
<1> QED
  BY <1>4, <1>5, <1>6 DEF Held

(* Rewriting the hot file keeps what a load reads, but for a measurement   *)
(* of the archives that a replayed number had overruled.                   *)
LEMMA KeysRewritten ==
  ASSUME Types, MaintenanceFollows, ServedIsStored, ReplaceHot
  PROVE  \A s \in Slots : (Held(s) \/ Resumed(s)) /\ minutes'[s] = minutes[s]
<1> DEFINE rows == maintenance.rows
           lines == LinesOf(KeptSlots, rows)
<1>1. hot \in Seq(Rows) /\ tail = <<>> /\ archive \in Views /\ rows \in Views
  BY DEF Types, RowsOnly
<1>2. hot' = lines /\ lines \in Batches /\ lines \in Seq(Rows) /\ tail' = <<>> /\ archive' = archive
  BY ReplaceHotWrites
<1>3. rows = FoldLines(Nothing, hot)
  BY DEF MaintenanceFollows, ReplaceHot
<1>4. \A s \in Slots : Cold(s) => archive[s] = Weigh(archive[s], rows[s])
  BY DEF MaintenanceFollows, ReplaceHot
<1>5. Durable = FoldLines(archive, hot)
  BY DurableIsView DEF Types
<1>6. lines \o <<>> = lines
  BY <1>2
<1>7. Durable' = FoldLines(archive, lines)
  BY <1>2, <1>6 DEF Durable
<1>8. ASSUME NEW s \in Slots
      PROVE  FoldLines(archive, lines)[s] = Weigh(archive[s], rows[s])
  <2>1. Weighed(archive, lines, s)
    BY <1>1, <1>2, BatchFold
  <2>2. CASE s \in KeptSlots
    <3>1. PICK j \in 1..Len(lines) : lines[j].slot = s
      BY <1>1, <2>2, KeptIsBatch
    <3>2. PICK i \in 1..Len(lines) :
            lines[i].slot = s /\ FoldLines(archive, lines)[s] = Fold(archive[s], lines[i].fact)
      BY <2>1, <3>1 DEF Weighed
    <3>3. lines[i].fact = rows[s]
      BY <1>1, <3>2, KeptIsBatch
    <3>4. rows[s] # Missing
      BY <2>2 DEF KeptSlots
    <3> QED
      BY <3>2, <3>3, <3>4 DEF Weigh
  <2>3. CASE s \notin KeptSlots
    <3>1. \A i \in 1..Len(lines) : lines[i].slot # s
      BY <1>1, <2>3, KeptIsBatch
    <3>2. FoldLines(archive, lines)[s] = archive[s]
      BY <2>1, <3>1 DEF Weighed
    <3>3. rows[s] = Missing \/ Cold(s)
      BY <2>3 DEF KeptSlots
    <3> QED
      BY <1>4, <3>2, <3>3 DEF Weigh
  <2> QED
    BY <2>2, <2>3
<1>9. minutes' = minutes
  BY DEF ReplaceHot
<1> HIDE DEF rows, lines
<1>10. ASSUME NEW s \in Slots
       PROVE  Held(s) \/ Resumed(s)
  <2>1. \/ FoldLines(archive, hot)[s] = Weigh(archive[s], rows[s])
        \/ /\ rows[s].origin = "session_replay" /\ FoldLines(archive, hot)[s] = rows[s]
           /\ Weigh(archive[s], rows[s]) = archive[s] /\ Sticks(archive[s])
    BY <1>1, <1>3, FoldReplaced
  <2>2. Durable'[s] = Weigh(archive[s], rows[s])
    BY <1>7, <1>8
  <2>3. CASE FoldLines(archive, hot)[s] = Weigh(archive[s], rows[s])
    BY <1>5, <2>2, <2>3 DEF Held
  <2>4. CASE /\ rows[s].origin = "session_replay" /\ FoldLines(archive, hot)[s] = rows[s]
             /\ Weigh(archive[s], rows[s]) = archive[s] /\ Sticks(archive[s])
    <3>1. rows[s] \in FactsOf(s) \cup {Missing} /\ archive[s] \in FactsOf(s) \cup {Missing}
      BY <1>1, ViewType
    <3>2. s \notin Legacy
      BY <2>4, <3>1 DEF FactsOf, LegacyRate, Missing
    <3>3. archive[s] \in Facts \ {LegacyRate}
      BY <2>4, <3>1, <3>2 DEF FactsOf, Sticks, Missing
    <3>4. Measured(archive[s])
      BY <2>4, <3>3, FactKinds DEF Sticks, Measured
    <3>5. ~Measured(minutes[s])
      <4>1. ~Measured(Durable[s])
        BY <1>5, <2>4 DEF Measured
      <4> QED
        BY <4>1 DEF ServedIsStored
    <3> QED
      BY <2>2, <2>4, <3>4, <3>5 DEF Resumed
  <2> QED
    BY <2>1, <2>3, <2>4
<1> QED
  BY <1>9, <1>10

(***************************************************************************)
(* The kinds of steps.                                                     *)
(***************************************************************************)
Up == phase # "down"

QuietStep == UNCHANGED <<now, minutes>> /\ Durable' = Durable /\ (Up' <=> Up)

ClockStep == now' = now + 1 /\ minutes' = minutes /\ Durable' = Durable /\ phase' = phase

StartStep ==
  /\ ~Up /\ Up' /\ now' = now /\ Durable' = Durable
  /\ minutes' = [s \in Slots |-> IF Expired(s) THEN Missing ELSE Durable[s]]

WriteStep == Up /\ Up' /\ now' = now /\ \A s \in Slots : KeyWritten(s)

CrashStep ==
  /\ Up /\ ~Up' /\ now' = now /\ minutes' = Nothing
  /\ \A s \in Slots : Held(s) \/ Tried(s)

(* Refused batches are writes.                                             *)
LEMMA RefusedStep ==
  ASSUME WholeLines, Types, NEW lines \in Batches, Admitted(lines), PersistPartly(lines),
         archive' = archive, now' = now, Up, Up', minutes' = minutes \/ minutes' = Pruned(minutes)
  PROVE  WriteStep
<1>1. \A s \in Slots : Held(s) \/ Tried(s)
  BY KeysTried
<1>2. minutes \in Views
  BY DEF Types, RowsOnly
<1>3. ASSUME NEW s \in Slots
      PROVE  KeyWritten(s)
  <2>1. minutes'[s] = minutes[s] \/ (s \in Minutes /\ Expired(s) /\ minutes'[s] = Missing)
    BY <1>2, PrunedType
  <2>2. CASE minutes'[s] = minutes[s]
    BY <1>1, <2>2 DEF KeyWritten
  <2>3. CASE Held(s)
    BY <2>1, <2>3 DEF KeyWritten
  <2>4. CASE Tried(s) /\ Expired(s) /\ minutes'[s] = Missing
    BY <2>4 DEF KeyWritten, Tried, Taken
  <2> QED
    BY <1>1, <2>1, <2>2, <2>3, <2>4
<1> QED
  BY <1>3 DEF WriteStep

(* Batches cut short by a crash.                                           *)
LEMMA StoppedStep ==
  ASSUME WholeLines, Types, NEW lines \in Batches, Admitted(lines), PersistPartly(lines), Stop
  PROVE  CrashStep
<1>1. archive' = archive /\ now' = now /\ Up /\ ~Up' /\ minutes' = Nothing
  BY DEF Stop, Up
<1>2. \A s \in Slots : Held(s) \/ Tried(s)
  BY <1>1, KeysTried
<1> QED
  BY <1>1, <1>2 DEF CrashStep

(* Every step is of a kind.                                                *)
LEMMA StepKinds ==
  ASSUME WholeLines, Types, MaintenanceFollows, ServedIsStored, Next
  PROVE  QuietStep \/ ClockStep \/ StartStep \/ WriteStep \/ CrashStep
<1>0. /\ LegacyBatch \in Batches /\ Admitted(LegacyBatch)
      /\ ReplayBatch \in Batches /\ Admitted(ReplayBatch)
  BY WritersAdmitted
<1>w. WorkType
  BY TypeParts
<1>q. ASSUME UNCHANGED files, UNCHANGED <<now, minutes>>, Up' <=> Up
      PROVE  QuietStep
  BY <1>q, DurableKept DEF QuietStep
<1>m. ASSUME MaintainIfDue
      PROVE  Up'
  BY <1>m DEF MaintainIfDue, BeginMaintenance, Up
<1>b. phase = "maintain" => maintenance.back # "down"
  BY <1>w DEF WorkType
<1>1. CASE Tick
  BY <1>1, DurableKept DEF Tick, ClockStep
<1>2. CASE ArchiveMonth
  <2>1. \A s \in Slots : Held(s)
    BY <1>2, KeysArchived
  <2>2. Up /\ Up' /\ now' = now /\ minutes' = minutes
    BY <1>2 DEF ArchiveMonth, Up
  <2> QED
    BY <2>1, <2>2 DEF WriteStep, KeyWritten
<1>3. CASE ReplaceHot
  <2>1. \A s \in Slots : (Held(s) \/ Resumed(s)) /\ minutes'[s] = minutes[s]
    BY <1>3, KeysRewritten
  <2>2. Up /\ Up' /\ now' = now
    BY <1>3, <1>b DEF ReplaceHot, Up
  <2> QED
    BY <2>1, <2>2 DEF WriteStep, KeyWritten
<1>4. CASE AbandonMaintenance
  BY <1>4, <1>b, <1>q DEF AbandonMaintenance, Up
<1>5. CASE Start
  <2>1. Durable' = Durable
    BY <1>5, DurableKept DEF Start
  <2>2. phase' # "down"
    BY <1>5 DEF Start, BeginMaintenance
  <2>3. now' = now /\ phase = "down"
        /\ minutes' = [s \in Slots |-> IF Expired(s) THEN Missing ELSE Durable[s]]
    BY <1>5 DEF Start
  <2> QED
    BY <2>1, <2>2, <2>3 DEF StartStep, Up
<1>6. CASE MigrateBatch
  <2>1. /\ Persist(LegacyBatch) /\ archive' = archive /\ minutes' = Merge(LegacyBatch)
        /\ Up /\ Up' /\ now' = now
    BY <1>6 DEF MigrateBatch, Up
  <2>2. \A s \in Slots : KeyWritten(s)
    BY <1>0, <2>1, KeysTaken
  <2> QED
    BY <2>1, <2>2 DEF WriteStep
<1>7. CASE RejectBatch
  BY <1>0, <1>7, RefusedStep DEF RejectBatch, Up
<1>8. CASE FinishMigration
  BY <1>8, <1>q DEF FinishMigration, Up
<1>9. CASE SkipMinute
  BY <1>9, <1>q DEF SkipMinute, Up
<1>10. CASE ObservationGap
  BY <1>10, <1>q DEF ObservationGap, Up
<1>11. CASE IdlePoll
  BY <1>11, <1>q DEF IdlePoll, vars, Up
<1>12. ASSUME NEW fact \in MinuteFacts, RecordMinute(fact)
       PROVE  WriteStep
  <2> DEFINE line == <<Line(cursor + 1, fact)>>
  <2>1. /\ MinuteDue /\ minutes[cursor + 1].origin # "online" /\ Persist(line) /\ archive' = archive
        /\ minutes' = Pruned(Merge(line)) /\ MaintainIfDue /\ now' = now
    BY <1>12 DEF RecordMinute
  <2>2. Up /\ Up'
    BY <2>1, <1>m DEF MinuteDue, Up
  <2>3. line \in Batches /\ Admitted(line)
    BY <2>1, SamplerAdmitted
  <2> HIDE DEF line
  <2>4. \A s \in Slots : KeyWritten(s)
    BY <2>1, <2>3, KeysTaken
  <2> QED
    BY <2>1, <2>2, <2>4 DEF WriteStep
<1>13. ASSUME NEW fact \in MinuteFacts, RejectMinute(fact)
       PROVE  WriteStep
  <2> DEFINE line == <<Line(cursor + 1, fact)>>
  <2>1. /\ MinuteDue /\ minutes[cursor + 1].origin # "online" /\ PersistPartly(line) /\ archive' = archive
        /\ minutes' = minutes /\ now' = now /\ Up /\ Up'
    BY <1>13 DEF RejectMinute, MinuteDue, Up
  <2>3. line \in Batches /\ Admitted(line)
    BY <2>1, SamplerAdmitted
  <2> HIDE DEF line
  <2> QED
    BY <2>1, <2>3, RefusedStep
<1>14. ASSUME NEW fact \in MinuteFacts, CrashInMinute(fact)
       PROVE  CrashStep
  <2> DEFINE line == <<Line(cursor + 1, fact)>>
  <2>1. MinuteDue /\ minutes[cursor + 1].origin # "online" /\ PersistPartly(line) /\ Stop
    BY <1>14 DEF CrashInMinute
  <2>3. line \in Batches /\ Admitted(line)
    BY <2>1, SamplerAdmitted
  <2> HIDE DEF line
  <2> QED
    BY <2>1, <2>3, StoppedStep
<1>15. ASSUME NEW m \in Minutes, AdvanceLedger(m)
       PROVE  QuietStep
  BY <1>15, <1>q DEF AdvanceLedger, Up
<1>16. CASE PublishReplay
  <2>1. /\ Persist(ReplayBatch) /\ archive' = archive /\ now' = now /\ Up
        /\ minutes' = Merge(ReplayBatch) \/ minutes' = Pruned(Merge(ReplayBatch))
    BY <1>16 DEF PublishReplay, Up
  <2>2. Up'
    BY <1>16, <1>m DEF PublishReplay, Up
  <2>3. \A s \in Slots : KeyWritten(s)
    BY <1>0, <2>1, KeysTaken
  <2> QED
    BY <2>1, <2>2, <2>3 DEF WriteStep
<1>17. CASE RejectReplay
  BY <1>0, <1>17, RefusedStep DEF RejectReplay, Up
<1>18. CASE CrashIdle
  <2>1. Durable' = Durable
    BY <1>18, DurableKept DEF CrashIdle, Stop, files
  <2> QED
    BY <1>18, <2>1 DEF CrashIdle, Stop, CrashStep, Held, Up
<1>19. CASE CrashInBatch
  BY <1>0, <1>19, StoppedStep DEF CrashInBatch
<1> QED
  BY <1>1, <1>2, <1>3, <1>4, <1>5, <1>6, <1>7, <1>8, <1>9, <1>10, <1>11, <1>12, <1>13, <1>14,
     <1>15, <1>16, <1>17, <1>18, <1>19 DEF Next

(***************************************************************************)
(* The store without files.                                                *)
(***************************************************************************)
ReadsView == Durable \in Views

(* A load of rows reads a view, before a step and after it.                *)
LEMMA DurableView == RowsOnly => ReadsView
  BY DurableIsView DEF ReadsView

(* The abstract store names facts as the journal does.                     *)
LEMMA SameFacts ==
  /\ Store!Missing = Missing /\ Store!Nothing = Nothing /\ Store!Values = Values
  /\ \A fact : Store!Measured(fact) <=> Measured(fact)
<1>1. Store!Missing = Missing
  BY DEF Store!Missing, Missing, Store!NoTokens, NoTokens
<1>2. \A fact : Store!Measured(fact) <=> Measured(fact)
  BY DEF Store!Measured, Measured, Store!NoTokens, NoTokens
<1> QED
  BY <1>1, <1>2 DEF Store!Nothing, Nothing, Store!Values, Values

(* The fact that stays is the same in both.                                *)
LEMMA SamePreference ==
  ASSUME NEW s \in Slots, NEW old \in FactsOf(s) \cup {Missing}, NEW fact \in FactsOf(s)
  PROVE  Store!Preferred(old, fact) = Fold(old, fact)
<1>1. Store!Preferred(old, fact)
        = IF Measured(old) /\ fact.origin = "session_replay" THEN old ELSE fact
  BY SameFacts DEF Store!Preferred
<1>2. CASE fact.origin # "session_replay"
  BY <1>1, <1>2 DEF Fold, ShouldReplace
<1>3. CASE fact.origin = "session_replay"
  <2>1. s \notin Legacy
    BY <1>3 DEF FactsOf, LegacyRate
  <2>2. old \in Facts \ {LegacyRate} \/ old = Missing
    BY <2>1 DEF FactsOf
  <2>3. Measured(old) <=> old.origin # "session_replay" /\ old.tokens # NoTokens
    <3>1. CASE old = Missing
      BY <3>1 DEF Missing, Measured
    <3>2. CASE old \in Facts /\ old # LegacyRate
      BY <3>2, FactKinds DEF Measured
    <3> QED
      BY <2>2, <3>1, <3>2
  <2> QED
    BY <1>1, <1>3, <2>3 DEF Fold, ShouldReplace
<1> QED
  BY <1>2, <1>3

(* A fact a writer may have is one the abstract store is offered.          *)
LEMMA WrittenIsOffered ==
  ASSUME NEW s \in Slots, NEW fact, MayWrite(s, fact)
  PROVE  fact \in Store!Offered(s) /\ fact \in Facts
<1>1. fact \in Facts
  BY DEF MayWrite, FactsOf, Facts
<1>2. Store!Admissible(s, fact)
  BY SameFacts DEF MayWrite, Store!Admissible
<1> QED
  BY <1>1, <1>2 DEF Store!Offered

(* A key that is held or tried is so in the abstract store.                *)
LEMMA KeyInStore ==
  ASSUME Types, NEW s \in Slots
  PROVE  /\ Held(s) => Store!Kept(s)
         /\ Tried(s) => Store!Refused(s)
<1>1. Durable[s] \in FactsOf(s) \cup {Missing}
  BY DurableIsView, ViewType DEF Types
<1>2. ASSUME Tried(s)
      PROVE  Store!Refused(s)
  <2>1. PICK fact \in FactsOf(s) : MayWrite(s, fact) /\ Durable'[s] = Fold(Durable[s], fact)
    BY <1>2 DEF Tried
  <2>2. Durable'[s] = Store!Preferred(Durable[s], fact) /\ fact \in Store!Offered(s)
    BY <1>1, <2>1, SamePreference, WrittenIsOffered
  <2> QED
    BY <2>2 DEF Store!Refused
<1> QED
  BY <1>2 DEF Held, Store!Kept

(* And so is one that is written.                                          *)
LEMMA KeyWrittenInStore ==
  ASSUME Types, Types', NEW s \in Slots, KeyWritten(s)
  PROVE  \/ Store!Accepted(s)
         \/ (Store!Kept(s) \/ Store!Refused(s) \/ Store!Restored(s)) /\ minutes'[s] = minutes[s]
         \/ /\ Store!Kept(s) /\ minutes'[s] = Store!Missing
            /\ s \notin {k \in Slots : ~Expired(k)}
<1>1. Durable[s] \in FactsOf(s) \cup {Missing}
  BY DurableIsView, ViewType DEF Types
<1>2. Types' => RowsOnly'
  BY DEF Types
<1>3. RowsOnly' => ReadsView'
  BY DurableView, PTL
<1>4. CASE Taken(s)
  <2>1. PICK fact \in FactsOf(s) : /\ MayWrite(s, fact)
                                   /\ Durable'[s] = Fold(Durable[s], fact)
                                   /\ minutes'[s] = fact \/ (Expired(s) /\ minutes'[s] = Missing)
    BY <1>4 DEF Taken
  <2>2. Durable'[s] = Store!Preferred(Durable[s], fact) /\ fact \in Store!Offered(s)
    BY <1>1, <2>1, SamePreference, WrittenIsOffered
  <2>3. \/ minutes'[s] = fact
        \/ s \notin {k \in Slots : ~Expired(k)} /\ minutes'[s] = Store!Missing
    BY <2>1, SameFacts
  <2> QED
    BY <2>2, <2>3 DEF Store!Accepted
<1>5. CASE (Held(s) \/ Tried(s)) /\ minutes'[s] = minutes[s]
  BY <1>5, KeyInStore
<1>6. CASE Resumed(s) /\ minutes'[s] = minutes[s]
  <2>1. Durable'[s] \in Facts
    <3>1. Durable'[s] \in Facts \cup {Missing}
      BY <1>2, <1>3 DEF Views, Values, ReadsView
    <3> QED
      BY <1>6, <3>1, FactKinds DEF Resumed
  <2>2. Store!Restored(s)
    BY <1>6, <2>1, SameFacts DEF Resumed, Store!Restored
  <2> QED
    BY <1>6, <2>2
<1>7. CASE Held(s) /\ Expired(s) /\ minutes'[s] = Missing
  BY <1>7, KeyInStore, SameFacts
<1> QED
  BY <1>4, <1>5, <1>6, <1>7 DEF KeyWritten

(* The views of both sides of a step are the abstract store's.             *)
LEMMA StoreTyped ==
  ASSUME Types, Types'
  PROVE  Store!Typed
<1>1. Types' => RowsOnly'
  BY DEF Types
<1>2. RowsOnly' => ReadsView'
  BY DurableView, PTL
<1>3. minutes' \in Views
  BY <1>1 DEF RowsOnly
<1>4. Durable' \in [Slots -> Values] /\ minutes' \in [Slots -> Values]
  BY <1>1, <1>2, <1>3 DEF Views, ReadsView
<1> QED
  BY <1>4, SameFacts DEF Store!Typed

(* What has not expired stays so while the clock stands.                   *)
LEMMA RetainedKept ==
  ASSUME now' = now
  PROVE  /\ {s \in Slots : ~Expired(s)}' = {s \in Slots : ~Expired(s)}
         /\ \A s : Expired(s)' <=> Expired(s)
  BY DEF Expired

(* Every step is one of the abstract store, or none.                       *)
LEMMA StoreStep ==
  ASSUME WholeLines, Types, MaintenanceFollows, ServedIsStored, Next
  PROVE  [Store!Next]_(Store!store)
<1>0. Types'
  BY TypesStep
<1> DEFINE retained == {s \in Slots : ~Expired(s)}
<1>1. CASE QuietStep
  <2>1. retained' = retained
    BY <1>1, RetainedKept DEF QuietStep
  <2>2. UNCHANGED Store!store
    BY <1>1, <2>1 DEF QuietStep, Up, Store!store
  <2> QED
    BY <2>2
<1>2. CASE ClockStep
  <2>1. \A s \in Slots : Expired(s) => Expired(s)'
    <3>1. now \in Nat /\ Retention \in Nat /\ now' = now + 1
      BY <1>2, ConstantTypes, TypeParts DEF Numbers, ClockStep
    <3>2. \A s \in Slots : At(s) \in Nat
      BY TimeType
    <3> QED
      BY <3>1, <3>2 DEF Expired
  <2>2. retained' \in SUBSET retained
    BY <2>1
  <2>3. Store!Expire
    BY <1>2, <2>2 DEF ClockStep, Store!Expire
  <2> QED
    BY <2>3 DEF Store!Next
<1>3. CASE StartStep
  <2>1. retained' = retained
    BY <1>3, RetainedKept DEF StartStep
  <2>2. minutes' = [s \in Slots |-> IF s \in retained THEN Durable[s] ELSE Store!Missing]
    BY <1>3, SameFacts DEF StartStep
  <2>3. Store!Restart
    BY <1>3, <2>1, <2>2 DEF StartStep, Up, Store!Restart
  <2> QED
    BY <2>3 DEF Store!Next
<1>4. CASE WriteStep
  <2>1. retained' = retained
    BY <1>4, RetainedKept DEF WriteStep
  <2>2. Store!Typed
    BY <1>0, StoreTyped
  <2>3. \A s \in Slots :
          \/ Store!Accepted(s)
          \/ (Store!Kept(s) \/ Store!Refused(s) \/ Store!Restored(s)) /\ minutes'[s] = minutes[s]
          \/ Store!Kept(s) /\ minutes'[s] = Store!Missing /\ s \notin retained
    BY <1>0, <1>4, KeyWrittenInStore DEF WriteStep
  <2>4. Store!Write
    BY <1>4, <2>1, <2>2, <2>3 DEF WriteStep, Up, Store!Write
  <2> QED
    BY <2>4 DEF Store!Next
<1>5. CASE CrashStep
  <2>1. retained' = retained
    BY <1>5, RetainedKept DEF CrashStep
  <2>2. Store!Typed
    BY <1>0, StoreTyped
  <2>3. \A s \in Slots : Store!Kept(s) \/ Store!Refused(s)
    BY <1>5, KeyInStore DEF CrashStep
  <2>4. Store!Crash
    BY <1>5, <2>1, <2>2, <2>3, SameFacts DEF CrashStep, Up, Store!Crash
  <2> QED
    BY <2>4 DEF Store!Next
<1> QED
  BY <1>1, <1>2, <1>3, <1>4, <1>5, StepKinds

(***************************************************************************)
(* What is served, and what was to be migrated.                            *)
(***************************************************************************)
(* Weighing a fact leaves a fact: the measurement, if it is one.           *)
LEMMA FoldedFact ==
  ASSUME Types, NEW s \in Slots, NEW fact \in FactsOf(s)
  PROVE  /\ Fold(Durable[s], fact) # Missing
         /\ fact.origin = "online" => Fold(Durable[s], fact) = fact
<1>1. Durable[s] \in FactsOf(s) \cup {Missing}
  BY DurableIsView, ViewType DEF Types
<1>2. Fold(Durable[s], fact) \in FactsOf(s)
  BY <1>1, FoldType
<1>3. FactsOf(s) \subseteq Facts
  BY DEF FactsOf, Facts
<1> QED
  BY <1>2, <1>3, FactKinds DEF Fold, ShouldReplace

(* Nothing is written over a measurement that is served.                   *)
LEMMA MeasuredIsNotTried ==
  ASSUME NEW s \in Slots, Measured(minutes[s])
  PROVE  ~Tried(s) /\ ~Taken(s) /\ ~Resumed(s)
<1>1. minutes[s].origin = "online" /\ minutes[s] # Missing
  BY DEF Measured, Missing
<1>2. ASSUME NEW fact \in FactsOf(s), MayWrite(s, fact)
      PROVE  FALSE
  <2>1. fact \in Facts
    BY DEF FactsOf, Facts
  <2>2. fact.origin \in {"online", "session_replay", "legacy"}
    BY <2>1, FactKinds
  <2> QED
    BY <1>1, <1>2, <2>2 DEF MayWrite
<1> QED
  BY <1>2 DEF Tried, Taken, Resumed

(* A key that has a durable fact keeps one.                                *)
LEMMA StoredStays ==
  ASSUME Types, QuietStep \/ ClockStep \/ StartStep \/ WriteStep \/ CrashStep,
         NEW s \in Slots, Durable[s] # Missing
  PROVE  Durable'[s] # Missing
<1>1. CASE QuietStep \/ ClockStep \/ StartStep
  BY <1>1 DEF QuietStep, ClockStep, StartStep
<1>2. CASE Held(s)
  BY <1>2 DEF Held
<1>3. CASE Tried(s) \/ Taken(s)
  BY <1>3, FoldedFact DEF Tried, Taken
<1>4. CASE Resumed(s)
  BY <1>4, FactKinds DEF Resumed
<1> QED
  BY <1>1, <1>2, <1>3, <1>4 DEF WriteStep, CrashStep, KeyWritten

(* Every step keeps what is served stored.                                 *)
LEMMA ServedStep ==
  ASSUME WholeLines, Types, MaintenanceFollows, ServedIsStored, Next
  PROVE  ServedIsStored'
<1>k. QuietStep \/ ClockStep \/ StartStep \/ WriteStep \/ CrashStep
  BY StepKinds
<1>1. ASSUME NEW s \in Slots, minutes'[s] # Missing
      PROVE  /\ Durable'[s] # Missing
             /\ Measured(minutes'[s]) => Durable'[s] = minutes'[s]
  <2>0. /\ minutes[s] # Missing => Durable[s] # Missing
        /\ Measured(minutes[s]) => Durable[s] = minutes[s]
    BY DEF ServedIsStored
  <2>1. CASE QuietStep \/ ClockStep
    BY <1>1, <2>0, <2>1 DEF QuietStep, ClockStep
  <2>2. CASE StartStep
    BY <1>1, <2>2 DEF StartStep
  <2>3. CASE CrashStep
    BY <1>1, <2>3 DEF CrashStep, Nothing
  <2>4. CASE Taken(s)
    <3>1. PICK fact \in FactsOf(s) : Durable'[s] = Fold(Durable[s], fact) /\ minutes'[s] = fact
      BY <1>1, <2>4 DEF Taken
    <3> QED
      BY <3>1, FoldedFact DEF Measured
  <2>5. CASE (Held(s) \/ Tried(s) \/ Resumed(s)) /\ minutes'[s] = minutes[s] /\ WriteStep
    <3>1. Durable'[s] # Missing
      BY <1>1, <2>0, <2>5, StoredStays
    <3>2. Measured(minutes[s]) => Held(s)
      BY <2>5, MeasuredIsNotTried
    <3> QED
      BY <2>0, <2>5, <3>1, <3>2 DEF Held
  <2> QED
    BY <1>1, <1>k, <2>1, <2>2, <2>3, <2>4, <2>5 DEF WriteStep, KeyWritten
<1>2. \A s \in Slots : minutes'[s] = Missing => ~Measured(minutes'[s])
  BY FactKinds
<1> QED
  BY <1>1, <1>2 DEF ServedIsStored

(* The clock does not go back.                                             *)
LEMMA ClockGrows ==
  ASSUME Types, Next
  PROVE  now \in Nat /\ now' \in Nat /\ now <= now'
<1>1. now \in Nat
  BY TypeParts DEF Numbers
<1>2. now' = now \/ now' = now + 1
  BY DEF Next, Tick, ArchiveMonth, ReplaceHot, AbandonMaintenance, Start, MigrateBatch,
     RejectBatch, FinishMigration, SkipMinute, ObservationGap, IdlePoll, vars, RecordMinute,
     RejectMinute, CrashInMinute, Stop, AdvanceLedger, PublishReplay, RejectReplay, CrashIdle,
     CrashInBatch
<1> QED
  BY <1>1, <1>2

(* The old file loses its rates only when none is left to migrate.         *)
LEMMA HistoryStep ==
  ASSUME Next
  PROVE  history' = history \/ LegacyBatch = <<>>
  BY DEF Next, Tick, ArchiveMonth, ReplaceHot, AbandonMaintenance, Start, MigrateBatch,
     RejectBatch, FinishMigration, SkipMinute, ObservationGap, IdlePoll, vars, RecordMinute,
     RejectMinute, CrashInMinute, Stop, AdvanceLedger, PublishReplay, RejectReplay, CrashIdle,
     CrashInBatch

(* Every step keeps every legacy rate that has not expired.                *)
LEMMA LegacyStep ==
  ASSUME WholeLines, Types, MaintenanceFollows, ServedIsStored, LegacyKept, Next
  PROVE  LegacyKept'
<1>1. history \subseteq Legacy
  BY TypeParts DEF ViewsType
<1>2. ASSUME NEW s \in Legacy
      PROVE  Expired(s)' \/ s \in history' \/ Durable'[s] # Missing
  <2>1. s \in Slots
    BY KeysApart
  <2>2. CASE Expired(s)
    <3>1. At(s) \in Nat /\ Retention \in Nat /\ now \in Nat /\ now' \in Nat /\ now <= now'
      BY <2>1, TimeType, ConstantTypes, ClockGrows
    <3> QED
      BY <2>2, <3>1 DEF Expired
  <2>3. CASE Durable[s] # Missing
    BY <2>1, <2>3, StepKinds, StoredStays
  <2>4. CASE s \in history /\ ~Expired(s)
    <3>1. CASE history' = history
      BY <2>4, <3>1
    <3>2. CASE LegacyBatch = <<>>
      <4>1. minutes[s] # Missing
        BY <1>1, <2>4, <3>2, LegacyBatchType
      <4> QED
        BY <2>1, <2>3, <4>1 DEF ServedIsStored
    <3> QED
      BY <3>1, <3>2, HistoryStep
  <2> QED
    BY <2>2, <2>3, <2>4 DEF LegacyKept
<1> QED
  BY <1>2 DEF LegacyKept

(***************************************************************************)
(* What crashes and refused writes cost.                                   *)
(***************************************************************************)
(* A durable measurement stays one, but for the minute the sampler is at.  *)
LEMMA MeasuredStays ==
  ASSUME Types, QuietStep \/ ClockStep \/ StartStep \/ WriteStep \/ CrashStep,
         NEW s \in Slots, s # cursor + 1, Measured(Durable[s])
  PROVE  Measured(Durable'[s])
<1>1. CASE QuietStep \/ ClockStep \/ StartStep
  BY <1>1 DEF QuietStep, ClockStep, StartStep
<1>2. CASE Held(s)
  BY <1>2 DEF Held
<1>3. ASSUME NEW fact \in FactsOf(s), MayWrite(s, fact), Durable'[s] = Fold(Durable[s], fact)
      PROVE  Measured(Durable'[s])
  <2>1. fact.origin # "online"
    BY <1>3 DEF MayWrite
  <2>2. fact.origin # "legacy"
    <3>1. Durable[s] \in FactsOf(s) \cup {Missing}
      BY DurableIsView, ViewType DEF Types
    <3>2. s \notin Legacy
      BY <3>1, FactKinds DEF FactsOf
    <3>3. fact \in Facts /\ fact # LegacyRate
      BY <3>2 DEF FactsOf
    <3> QED
      BY <3>3, FactKinds
  <2>3. fact \in Facts
    BY DEF FactsOf, Facts
  <2>4. fact.origin = "session_replay"
    BY <2>1, <2>2, <2>3, FactKinds
  <2>5. Fold(Durable[s], fact) = Durable[s]
    BY <2>4 DEF Fold, ShouldReplace, Measured
  <2> QED
    BY <1>3, <2>5
<1>4. CASE Resumed(s)
  BY <1>4 DEF Resumed
<1> QED
  BY <1>1, <1>2, <1>3, <1>4 DEF WriteStep, CrashStep, KeyWritten, Tried, Taken

(* Only the sampler's minute is offered, and only the poll, a start and a  *)
(* gap move the sampler: past every minute, or to the next.                *)
SamplerAt ==
  \/ offered' = offered /\ cursor' = cursor
  \/ offered' = offered /\ cursor' = cursor + 1
  \/ offered' = offered /\ cursor' \in {now, now + 1} /\ now' = now

SamplerOffers(fact) ==
  /\ cursor + 1 \in Minutes /\ cursor + 1 <= now
  /\ offered' = offered \cup {cursor + 1} /\ Measured(fact)
  /\ \/ cursor' = cursor + 1 /\ Measured(Durable'[cursor + 1])
     \/ cursor' = cursor /\ crashes' + faults' = crashes + faults + 1

(* What is counted does not shrink.                                        *)
LEMMA CostsGrow ==
  ASSUME Types, Next
  PROVE  crashes' + faults' \in Nat /\ crashes + faults \in Nat /\ crashes + faults <= crashes' + faults'
<1>1. crashes \in Nat /\ faults \in Nat
  BY TypeParts DEF Numbers
<1>2. (crashes' = crashes \/ crashes' = crashes + 1) /\ (faults' = faults \/ faults' = faults + 1)
  BY DEF Next, Tick, ArchiveMonth, ReplaceHot, AbandonMaintenance, Start, MigrateBatch,
     RejectBatch, FinishMigration, SkipMinute, ObservationGap, IdlePoll, vars, RecordMinute,
     RejectMinute, CrashInMinute, Stop, AdvanceLedger, PublishReplay, RejectReplay, CrashIdle,
     CrashInBatch, Fault
<1> QED
  BY <1>1, <1>2

(* Every step moves the sampler so.                                        *)
LEMMA SamplerStep ==
  ASSUME Types, Next
  PROVE  SamplerAt \/ \E fact \in MinuteFacts : SamplerOffers(fact)
<1>0. crashes \in Nat /\ faults \in Nat
  BY TypeParts DEF Numbers
<1>1. ASSUME NEW fact \in MinuteFacts, RecordMinute(fact), Measured(fact)
      PROVE  SamplerOffers(fact)
  <2> DEFINE line == <<Line(cursor + 1, fact)>>
  <2>1. /\ MinuteDue /\ minutes[cursor + 1].origin # "online" /\ Persist(line) /\ archive' = archive
        /\ cursor' = cursor + 1 /\ offered' = offered \cup {cursor + 1}
    BY <1>1 DEF RecordMinute, Offer
  <2>2. /\ line \in Batches /\ Len(line) = 1 /\ line[1].slot = cursor + 1 /\ line[1].fact = fact
        /\ cursor + 1 \in Minutes /\ cursor + 1 \in Slots /\ cursor + 1 <= now
    BY <2>1, MinuteLine
  <2> HIDE DEF line
  <2>3. line \in Seq(Rows) /\ RowsOnly
    BY <2>2 DEF Batches, Types
  <2>4. hot' = hot \o line /\ tail' = <<>>
    BY <2>1, <2>3, PersistWrites
  <2>5. \/ Durable'[cursor + 1] = Durable[cursor + 1] /\ \A i \in 1..Len(line) : line[i].slot # cursor + 1
        \/ \E i \in 1..Len(line) :
             line[i].slot = cursor + 1 /\ Durable'[cursor + 1] = Fold(Durable[cursor + 1], line[i].fact)
    BY <2>1, <2>2, <2>3, <2>4, DurableAppended
  <2>6. Durable'[cursor + 1] = Fold(Durable[cursor + 1], fact)
    BY <2>2, <2>5
  <2>7. fact \in FactsOf(cursor + 1) /\ fact.origin = "online"
    BY <2>2, MinuteFactType
  <2>8. Measured(Durable'[cursor + 1])
    BY <1>1, <2>2, <2>6, <2>7, FoldedFact
  <2> QED
    BY <1>1, <2>1, <2>2, <2>8 DEF SamplerOffers
<1>2. ASSUME NEW fact \in MinuteFacts, RejectMinute(fact) \/ CrashInMinute(fact), Measured(fact)
      PROVE  SamplerOffers(fact)
  <2>1. /\ cursor + 1 \in Minutes /\ cursor + 1 <= now /\ offered' = offered \cup {cursor + 1}
        /\ cursor' = cursor
    BY <1>2 DEF RejectMinute, CrashInMinute, Stop, MinuteDue, Offer
  <2>2. crashes' + faults' = crashes + faults + 1
    BY <1>0, <1>2 DEF RejectMinute, CrashInMinute, Stop, Fault
  <2> QED
    BY <1>2, <2>1, <2>2 DEF SamplerOffers
<1>3. ASSUME NEW fact \in MinuteFacts, RecordMinute(fact) \/ RejectMinute(fact) \/ CrashInMinute(fact),
             ~Measured(fact)
      PROVE  SamplerAt
  BY <1>3 DEF RecordMinute, RejectMinute, CrashInMinute, Stop, Offer, SamplerAt
<1>4. CASE ~ \E fact \in MinuteFacts : RecordMinute(fact) \/ RejectMinute(fact) \/ CrashInMinute(fact)
  BY <1>4 DEF Next, Tick, ArchiveMonth, ReplaceHot, AbandonMaintenance, Start, MigrateBatch,
     RejectBatch, FinishMigration, SkipMinute, ObservationGap, IdlePoll, vars, Stop, AdvanceLedger,
     PublishReplay, RejectReplay, CrashIdle, CrashInBatch, SamplerAt
<1> QED
  BY <1>1, <1>2, <1>3, <1>4

(* Every step that loses a minute is a crash or a refused write.           *)
LEMMA LossesStep ==
  ASSUME WholeLines, Types, MaintenanceFollows, ServedIsStored, LossesAreCounted, Next
  PROVE  LossesAreCounted'
<1>0. /\ cursor \in Nat /\ now \in Nat /\ now' \in Nat /\ now <= now'
      /\ crashes' + faults' \in Nat /\ crashes + faults \in Nat /\ crashes + faults <= crashes' + faults'
      /\ offered \subseteq Minutes /\ \A m \in Minutes : m \in Nat /\ m \in Slots
  BY ClockGrows, CostsGrow, TypeParts, KeysApart DEF Numbers, ViewsType
<1>1. \A m \in offered : m <= now /\ m <= cursor + 1
  BY DEF LossesAreCounted
<1>2. \A m \in offered : m # cursor + 1 /\ Measured(Durable[m]) => Measured(Durable'[m])
  BY <1>0, StepKinds, MeasuredStays
<1>3. /\ AtRisk \in SUBSET Slots /\ IsFiniteSet(AtRisk) /\ Cardinality(AtRisk) \in Nat
      /\ Cardinality(AtRisk) <= crashes + faults
  <2>1. AtRisk \in SUBSET Slots
    BY <1>0 DEF AtRisk
  <2> QED
    BY <2>1, SlotsFinite DEF LossesAreCounted
<1>4. AtRisk' = {m \in offered' : ~Measured(Durable'[m]) \/ m = cursor' + 1}
  BY DEF AtRisk
<1>5. CASE SamplerAt
  <2>1. \A m \in offered' : m <= now' /\ m <= cursor' + 1
    BY <1>0, <1>1, <1>5 DEF SamplerAt
  <2>2. AtRisk' \subseteq AtRisk
    <3> SUFFICES ASSUME NEW m \in AtRisk'
                 PROVE  m \in AtRisk
      OBVIOUS
    <3>1. m \in offered /\ m \in Nat /\ (~Measured(Durable'[m]) \/ m = cursor' + 1)
      BY <1>0, <1>4, <1>5 DEF SamplerAt
    <3>2. CASE m = cursor + 1
      BY <3>1, <3>2 DEF AtRisk
    <3>3. CASE m # cursor + 1 /\ ~Measured(Durable'[m])
      BY <1>2, <3>1, <3>3 DEF AtRisk
    <3>4. CASE m # cursor + 1 /\ m = cursor' + 1
      BY <1>0, <1>1, <1>5, <3>1, <3>4 DEF SamplerAt
    <3> QED
      BY <3>1, <3>2, <3>3, <3>4
  <2>3. Cardinality(AtRisk') \in Nat /\ Cardinality(AtRisk') <= Cardinality(AtRisk)
    BY <1>3, <2>2, FS_Subset, FS_CardinalityType
  <2> QED
    BY <1>0, <1>3, <2>1, <2>3 DEF LossesAreCounted
<1>6. ASSUME NEW fact \in MinuteFacts, SamplerOffers(fact)
      PROVE  LossesAreCounted'
  <2>1. \A m \in offered' : m <= now' /\ m <= cursor' + 1 /\ m \in Nat
    BY <1>0, <1>1, <1>6 DEF SamplerOffers
  <2>2. CASE cursor' = cursor + 1 /\ Measured(Durable'[cursor + 1])
    <3>1. AtRisk' \subseteq AtRisk
      <4> SUFFICES ASSUME NEW m \in AtRisk'
                   PROVE  m \in AtRisk
        OBVIOUS
      <4>1. m \in offered \cup {cursor + 1} /\ (~Measured(Durable'[m]) \/ m = cursor + 1 + 1)
        BY <1>4, <1>6, <2>2 DEF SamplerOffers
      <4>2. m # cursor + 1
        BY <1>0, <2>2, <4>1
      <4>3. m \in offered /\ m # cursor + 1 + 1
        BY <1>0, <1>1, <4>1, <4>2
      <4> QED
        BY <1>2, <4>1, <4>2, <4>3 DEF AtRisk
    <3>2. Cardinality(AtRisk') \in Nat /\ Cardinality(AtRisk') <= Cardinality(AtRisk)
      BY <1>3, <3>1, FS_Subset, FS_CardinalityType
    <3> QED
      BY <1>0, <1>3, <2>1, <3>2 DEF LossesAreCounted
  <2>3. CASE cursor' = cursor /\ crashes' + faults' = crashes + faults + 1
    <3> DEFINE more == AtRisk \cup {cursor + 1}
    <3>1. AtRisk' \subseteq more
      <4> SUFFICES ASSUME NEW m \in AtRisk', m # cursor + 1
                   PROVE  m \in AtRisk
        OBVIOUS
      <4>1. m \in offered /\ ~Measured(Durable'[m])
        BY <1>4, <1>6, <2>3 DEF SamplerOffers
      <4> QED
        BY <1>2, <4>1 DEF AtRisk
    <3>2. /\ IsFiniteSet(more) /\ Cardinality(more) \in Nat
          /\ Cardinality(more) <= Cardinality(AtRisk) + 1
      BY <1>3, FS_AddElement, FS_CardinalityType
    <3> HIDE DEF more
    <3>3. Cardinality(AtRisk') \in Nat /\ Cardinality(AtRisk') <= Cardinality(more)
      BY <3>1, <3>2, FS_Subset, FS_CardinalityType
    <3> QED
      BY <1>0, <1>3, <2>1, <2>3, <3>2, <3>3 DEF LossesAreCounted
  <2> QED
    BY <1>6, <2>2, <2>3 DEF SamplerOffers
<1> QED
  BY <1>5, <1>6, SamplerStep

(***************************************************************************)
(* The theorems.                                                           *)
(***************************************************************************)
(* An empty store satisfies the invariant, and is the abstract one's.      *)
LEMMA InitJournal == Init => JournalInv /\ Store!Init
<1> SUFFICES ASSUME Init
             PROVE  JournalInv /\ Store!Init
  OBVIOUS
<1>0. /\ hot = <<>> /\ tail = <<>> /\ archive = Nothing /\ minutes = Nothing /\ history = Legacy
      /\ phase = "down" /\ maintenance = NoMaintenance /\ offered = {} /\ now = 0
      /\ crashes = 0 /\ faults = 0 /\ cursor = 0 /\ nextMaintenance = 0 /\ nextColdRoll = 0
      /\ ledger = [m \in Minutes |-> 0] /\ dirty = FALSE
  BY DEF Init
<1>1. Numbers
  BY <1>0 DEF Numbers
<1>2. FilesType
  BY <1>0, NothingIsView DEF FilesType
<1>3. WorkType
  BY <1>0, NoMaintenanceType DEF WorkType, Phases
<1>4. ViewsType
  <2>1. ledger \in [Minutes -> Nat] /\ \A m \in Minutes : ledger[m] <= MaxRevision
    BY <1>0, ConstantTypes
  <2> QED
    BY <1>0, <2>1, NothingIsView DEF ViewsType
<1>5. Types
  BY <1>1, <1>2, <1>3, <1>4, TypeParts
<1>6. Durable = Nothing
  BY <1>0, FoldNone DEF Durable
<1>7. MaintenanceFollows
  BY <1>0 DEF MaintenanceFollows
<1>8. ServedIsStored
  BY <1>0, FactKinds DEF ServedIsStored, Nothing
<1>9. LegacyKept
  BY <1>0 DEF LegacyKept
<1>10. LossesAreCounted
  <2>1. AtRisk = {}
    BY <1>0 DEF AtRisk
  <2> QED
    BY <1>0, <2>1, FS_EmptySet DEF LossesAreCounted
<1>11. Store!Init
  <2>1. \A s \in Slots : ~Expired(s)
    BY <1>0, TimeType, ConstantTypes DEF Expired
  <2>2. {s \in Slots : ~Expired(s)} = Slots
    BY <2>1
  <2> QED
    BY <1>0, <1>6, <2>2, SameFacts DEF Store!Init
<1> QED
  BY <1>5, <1>7, <1>8, <1>9, <1>10, <1>11 DEF JournalInv, Types

(* The invariant is inductive, for whole lines.                            *)
LEMMA JournalStep == WholeLines /\ JournalInv /\ [Next]_vars => JournalInv'
<1> SUFFICES ASSUME WholeLines, JournalInv, [Next]_vars
             PROVE  JournalInv'
  OBVIOUS
<1>1. Types /\ MaintenanceFollows /\ ServedIsStored /\ LegacyKept /\ LossesAreCounted
  BY DEF JournalInv, Types
<1>2. CASE Next
  <2>1. Types'
    BY <1>1, <1>2, TypesStep
  <2>2. MaintenanceFollows' /\ ServedIsStored' /\ LegacyKept' /\ LossesAreCounted'
    BY <1>1, <1>2, MaintenanceStep, ServedStep, LegacyStep, LossesStep
  <2> QED
    BY <2>1, <2>2 DEF JournalInv, Types
<1>3. CASE UNCHANGED vars
  <2>1. /\ now' = now /\ hot' = hot /\ tail' = tail /\ archive' = archive /\ history' = history
        /\ minutes' = minutes /\ phase' = phase /\ maintenance' = maintenance
        /\ nextMaintenance' = nextMaintenance /\ nextColdRoll' = nextColdRoll /\ cursor' = cursor
        /\ ledger' = ledger /\ dirty' = dirty /\ crashes' = crashes /\ faults' = faults
        /\ offered' = offered
    BY <1>3 DEF vars, files, timers, replay
  <2>2. Durable' = Durable
    BY <2>1 DEF Durable
  <2>3. Types'
    BY <1>1, <2>1 DEF Types, TypeOK, RowsOnly
  <2>4. \A s : Expired(s)' = Expired(s) /\ Cold(s)' = Cold(s)
    BY <2>1 DEF Expired, Cold
  <2>5. MaintenanceFollows'
    BY <1>1, <2>1, <2>4 DEF MaintenanceFollows
  <2>6. ServedIsStored' /\ LegacyKept'
    BY <1>1, <2>1, <2>2, <2>4 DEF ServedIsStored, LegacyKept
  <2>7. AtRisk' = AtRisk
    BY <2>1, <2>2 DEF AtRisk
  <2>8. LossesAreCounted'
    BY <1>1, <2>1, <2>7 DEF LossesAreCounted
  <2> QED
    BY <2>3, <2>5, <2>6, <2>8 DEF JournalInv, Types
<1> QED
  BY <1>2, <1>3

(* It holds of every behaviour.                                            *)
LEMMA JournalInvariant == WholeLines => (Spec => []JournalInv)
<1> SUFFICES ASSUME WholeLines
             PROVE  Spec => []JournalInv
  OBVIOUS
<1>1. Init => JournalInv
  BY InitJournal
<1>2. JournalInv /\ [Next]_vars => JournalInv'
  BY JournalStep
<1> QED
  BY <1>1, <1>2, PTL DEF Spec

(* While lines are written whole, the journal's files keep their types     *)
(* and no legacy rate is lost, whichever migration, compaction or cold     *)
(* roll a crash or a refused write cuts short.                             *)
THEOREM JournalSound == WholeLines => (Spec => []JournalIsSound)
<1> SUFFICES ASSUME WholeLines
             PROVE  Spec => []JournalIsSound
  OBVIOUS
<1>1. JournalInv => JournalIsSound
  BY DEF JournalInv, JournalIsSound
<1>2. Spec => []JournalInv
  BY JournalInvariant
<1> QED
  BY <1>1, <1>2, PTL

(* Each crash and each refused write costs at most one measured minute.    *)
THEOREM LossesBounded == WholeLines => (Spec => []CrashLosesAtMostOneRow)
<1> SUFFICES ASSUME WholeLines
             PROVE  Spec => []CrashLosesAtMostOneRow
  OBVIOUS
<1>1. JournalInv => CrashLosesAtMostOneRow
  <2> SUFFICES ASSUME JournalInv
               PROVE  CrashLosesAtMostOneRow
    OBVIOUS
  <2> DEFINE lost == {m \in offered : ~Measured(Durable[m])}
  <2>1. lost \subseteq AtRisk
    BY DEF AtRisk
  <2>2. crashes \in Nat /\ faults \in Nat /\ offered \subseteq Slots
    BY DEF JournalInv, TypeOK, Slots
  <2>3. AtRisk \in SUBSET Slots
    BY <2>2 DEF AtRisk
  <2>4. IsFiniteSet(AtRisk) /\ Cardinality(AtRisk) \in Nat
    BY <2>3, SlotsFinite
  <2> HIDE DEF lost
  <2>5. Cardinality(lost) \in Nat /\ Cardinality(lost) <= Cardinality(AtRisk)
    BY <2>1, <2>4, FS_Subset, FS_CardinalityType
  <2>6. Cardinality(AtRisk) <= crashes + faults
    BY DEF JournalInv, LossesAreCounted
  <2>7. Cardinality(lost) <= crashes + faults
    BY <2>2, <2>4, <2>5, <2>6
  <2> QED
    BY <2>7 DEF lost, CrashLosesAtMostOneRow
<1>2. Spec => []JournalInv
  BY JournalInvariant
<1> QED
  BY <1>1, <1>2, PTL

(* The journal, its archives and the store implement the promises of the   *)
(* store without files: every append, crash, start, archived month and     *)
(* rewrite of the hot file is one of its steps, or changes nothing of it.  *)
THEOREM StoreRefined == WholeLines => (Spec => StoreSpec)
<1> SUFFICES ASSUME WholeLines
             PROVE  Spec => StoreSpec
  OBVIOUS
<1>1. JournalInv /\ [Next]_vars => [Store!Next]_(Store!store)
  <2> SUFFICES ASSUME JournalInv, [Next]_vars
               PROVE  [Store!Next]_(Store!store)
    OBVIOUS
  <2>1. CASE Next
    BY <2>1, StoreStep DEF JournalInv, Types
  <2>2. CASE UNCHANGED vars
    <3>1. UNCHANGED <<files, now, minutes, phase>>
      BY <2>2 DEF vars
    <3>2. UNCHANGED Store!store
      BY <3>1, DurableKept DEF Store!store, Expired
    <3> QED
      BY <3>2
  <2> QED
    BY <2>1, <2>2
<1>2. Init => Store!Init
  BY InitJournal
<1>3. Spec => []JournalInv
  BY JournalInvariant
<1> QED
  BY <1>1, <1>2, <1>3, PTL DEF Spec, StoreSpec, Store!Spec
=============================================================================
