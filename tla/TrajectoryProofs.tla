--------------------------- MODULE TrajectoryProofs ---------------------------
(***************************************************************************)
(* Proofs about the trajectory service's source store.                     *)
(* TrajectoryMigration, for every number of rows and positions and every   *)
(* number of changes and interruptions:                                    *)
(*   RetirementIsSafe   RetiresOnlyReadable holds of every step.           *)
(*   NothingIsLost      MigrationKeepsFacts is an invariant.               *)
(* SourceRepack, for every set of facts, batch and block size:             *)
(*   FactsAreOnce       EveryFactOnce is an invariant.                     *)
(*   PackingIsDense     PackedIsDense holds of every step.                 *)
(***************************************************************************)
EXTENDS TrajectoryMigration, SourceRepack, FunctionTheorems, FiniteSetTheorems, TLAPS

(***************************************************************************)
(* Sets of positions and counts of facts.                                  *)
(***************************************************************************)

Positions == 1 .. SlotCount

(* A set of numbers that is not empty has its minimum as an element.       *)
LEMMA MinIsLeast ==
  ASSUME NEW S \in SUBSET Nat, S # {}
  PROVE  Min(S) \in S /\ \A x \in S : Min(S) <= x
<1>1. PICK m \in S : \A y \in S : ~ (<<y, m>> \in OpToRel(<, Nat))
  BY NatLessThanWellFounded, WFMin, Zenon
<1>2. \A y \in S : ~ (y < m)
  BY <1>1 DEF OpToRel
<1>3. \A y \in S : m <= y
  BY <1>2
<1>4. QED
  BY <1>3 DEF Min

(* The facts of the rows are finite sets of positions.                     *)
LEMMA FactsAreFinite ==
  ASSUME NEW r \in InputRows, NEW S \in SUBSET OldFacts[r]
  PROVE  /\ OldFacts[r] \subseteq Positions
         /\ IsFiniteSet(S) /\ Cardinality(S) \in Nat
         /\ Cardinality(S) = Cardinality(OldFacts[r]) => S = OldFacts[r]
<1> USE MigrationConstants DEF MigrationConstants, Positions
<1>1. OldFacts[r] \subseteq Positions
  OBVIOUS
<1>2. IsFiniteSet(OldFacts[r])
  <2>1. IsFiniteSet(Positions)
    BY FS_Interval
  <2>2. QED
    BY <1>1, <2>1, FS_Subset
<1>3. QED
  BY <1>1, <1>2, FS_Subset, FS_CardinalityType

(* No row, no fact.                                                        *)
LEMMA CountOfNone == OldCount({}) = 0
  BY FS_EmptySet DEF OldCount

(* The count is finite, and one more row adds its own facts.               *)
LEMMA CountOfOneMore ==
  ASSUME NEW S \in SUBSET InputRows, NEW r \in InputRows, r \notin S
  PROVE  /\ OldCount(S) \in Nat
         /\ OldCount(S \cup {r}) = OldCount(S) + Cardinality(OldFacts[r])
<1> DEFINE pairs == UNION {{q} \X OldFacts[q] : q \in S}
           more  == {r} \X OldFacts[r]
<1>1. IsFiniteSet(InputRows)
  BY MigrationConstants DEF MigrationConstants
<1>2. IsFiniteSet(pairs)
  <2>1. pairs \subseteq InputRows \X Positions
    <3>1. \A q \in S : OldFacts[q] \subseteq Positions
      BY FactsAreFinite
    <3>2. QED
      BY <3>1
  <2>2. IsFiniteSet(InputRows \X Positions)
    <3>1. IsFiniteSet(Positions)
      BY FS_Interval, MigrationConstants DEF MigrationConstants, Positions
    <3>2. QED
      BY <1>1, <3>1, FS_Product
  <2>3. QED
    BY <2>1, <2>2, FS_Subset
<1>3. IsFiniteSet(more) /\ Cardinality(more) = Cardinality(OldFacts[r])
  <2>1. IsFiniteSet({r}) /\ Cardinality({r}) = 1
    BY FS_Singleton
  <2>2. IsFiniteSet(OldFacts[r]) /\ Cardinality(OldFacts[r]) \in Nat
    BY FactsAreFinite
  <2>3. IsFiniteSet(more) /\ Cardinality(more) = 1 * Cardinality(OldFacts[r])
    BY <2>1, <2>2, FS_Product
  <2>4. QED
    BY <2>2, <2>3
<1>4. pairs \cap more = {}
  OBVIOUS
<1>5. UNION {{q} \X OldFacts[q] : q \in S \cup {r}} = pairs \cup more
  OBVIOUS
<1>6. Cardinality(pairs \cup more) = Cardinality(pairs) + Cardinality(more)
  <2>1. Cardinality(pairs) \in Nat /\ Cardinality(more) \in Nat
    BY <1>2, <1>3, FS_CardinalityType
  <2>2. Cardinality(pairs \cup more)
          = Cardinality(pairs) + Cardinality(more) - Cardinality(pairs \cap more)
    BY <1>2, <1>3, FS_Union
  <2>3. Cardinality(pairs \cap more) = 0
    BY <1>4, FS_EmptySet
  <2>4. QED
    BY <2>1, <2>2, <2>3
<1>7. QED
  BY <1>2, <1>3, <1>5, <1>6, FS_CardinalityType DEF OldCount

(***************************************************************************)
(* The progress row: what it says was copied, and what it counts.          *)
(***************************************************************************)

ProgressTypes ==
  [phase : {"control", "sources", "verify", "search", "ready"}, source : Nat \ {0},
   anchor : 0 .. SlotCount, mode : {"none", "stored"}, after : 0 .. SlotCount,
   records : Int, back : Nat, backPhase : {"none", "sources", "verify", "search", "ready"}]

(* The rows the cursor has passed; a repair leaves out the row it is at.   *)
Behind(p) == {r \in InputRows : r # p.source /\ r < (IF p.back # 0 THEN p.back ELSE p.source)}

Cursor(p) == IF p.mode = "stored" THEN p.after ELSE p.anchor

UnderCursor(p) ==
  IF p.source \in InputRows THEN Cardinality(OldFacts[p.source] \cap (1 .. Cursor(p))) ELSE 0

Counted(p) == p.records = OldCount(Behind(p)) + UnderCursor(p)

(* A repair goes back to an earlier row, and nothing is verified, sealed   *)
(* or restarted before the last row is done.                               *)
ProgressIsSound(p) ==
  /\ p \in ProgressTypes
  /\ p.back # 0 => p.source \in InputRows /\ p.source < p.back
  /\ p.phase \in {"verify", "search", "ready"} => p.source > LastRow
  /\ Counted(p)

(* The rows are numbered, and past the last one none is left.              *)
LEMMA RowNumbers ==
  /\ InputRows \subseteq Nat \ {0}
  /\ LastRow \in Nat
  /\ \A n \in Nat : n > LastRow => n \notin InputRows /\ \A r \in InputRows : r < n
  /\ \A n \in Nat \ {0} : n <= LastRow => n \in InputRows
<1>1. LastRow \in Nat /\ InputRows = 1 .. LastRow
  BY MigrationConstants, FS_CardinalityType DEF MigrationConstants, LastRow
<1>2. QED
  BY <1>1

(* The facts up to a position are a number between none and all.           *)
LEMMA UpToFacts ==
  ASSUME NEW r \in InputRows, NEW n \in 0 .. SlotCount
  PROVE  /\ Cardinality(OldFacts[r] \cap (1 .. n)) \in Nat
         /\ OldFacts[r] \cap (1 .. 0) = {}
         /\ OldFacts[r] \cap (1 .. SlotCount) = OldFacts[r]
<1>1. OldFacts[r] \subseteq Positions
  BY FactsAreFinite
<1>2. Cardinality(OldFacts[r] \cap (1 .. n)) \in Nat
  BY FactsAreFinite
<1>3. QED
  BY <1>1, <1>2 DEF Positions

(* Counts are numbers.                                                     *)
LEMMA CountsAreNumbers ==
  ASSUME NEW p \in ProgressTypes
  PROVE  OldCount(Behind(p)) \in Nat /\ UnderCursor(p) \in Nat /\ Cursor(p) \in 0 .. SlotCount
<1>1. Cursor(p) \in 0 .. SlotCount
  BY DEF Cursor, ProgressTypes
<1>2. UnderCursor(p) \in Nat
  BY <1>1, UpToFacts DEF UnderCursor
<1>3. OldCount(Behind(p)) \in Nat
  <2>1. CASE \E r \in InputRows : r \notin Behind(p)
    BY <2>1, CountOfOneMore DEF Behind
  <2>2. CASE Behind(p) = {}
    BY <2>2, CountOfNone
  <2>3. CASE Behind(p) = InputRows /\ InputRows # {}
    <3>1. PICK r \in InputRows : TRUE
      BY <2>3
    <3>2. /\ OldCount(InputRows \ {r}) \in Nat
          /\ OldCount((InputRows \ {r}) \cup {r})
               = OldCount(InputRows \ {r}) + Cardinality(OldFacts[r])
      BY CountOfOneMore
    <3>3. (InputRows \ {r}) \cup {r} = InputRows
      OBVIOUS
    <3>4. Cardinality(OldFacts[r]) \in Nat
      BY FactsAreFinite
    <3>5. QED
      BY <2>3, <3>2, <3>3, <3>4
  <2>4. QED
    BY <2>1, <2>2, <2>3 DEF Behind
<1>4. QED
  BY <1>1, <1>2, <1>3

(* Switching to stored copies gives the replayed facts back to the count.  *)
LEMMA EnterStoredSound ==
  ASSUME NEW p, ProgressIsSound(p), p.phase = "sources", p.source \in InputRows
  PROVE  LET q == EnterStored(p)
         IN  /\ ProgressIsSound(q) /\ q.mode = "stored"
             /\ q.phase = "sources" /\ q.source = p.source /\ Behind(q) = Behind(p)
<1> DEFINE q == EnterStored(p)
           n == Cardinality(OldFacts[p.source] \cap (1 .. p.anchor))
<1>0. p \in ProgressTypes /\ p.anchor \in 0 .. SlotCount
  BY DEF ProgressIsSound, ProgressTypes
<1>1. CASE p.mode = "stored"
  BY <1>1 DEF EnterStored
<1>2. CASE p.mode # "stored"
  <2>1. n \in Nat
    BY <1>0, UpToFacts
  <2>2. q = [p EXCEPT !.records = p.records - n, !.mode = "stored", !.after = 0]
    BY <1>0, <1>2 DEF EnterStored, ProgressTypes
  <2> HIDE DEF q, n
  <2>3. /\ q \in ProgressTypes /\ q.mode = "stored" /\ q.phase = "sources"
        /\ q.source = p.source /\ q.back = p.back /\ q.records = p.records - n /\ q.after = 0
    <3>1. SlotCount \in Nat
      BY MigrationConstants DEF MigrationConstants
    <3>2. p.records - n \in Int
      BY <1>0, <2>1 DEF ProgressTypes
    <3>3. q \in ProgressTypes
      <4>1. 0 \in 0 .. SlotCount
        BY <3>1
      <4>2. QED
        BY <1>0, <2>2, <4>1, <3>2, Zenon DEF ProgressTypes
    <3>4. /\ q.mode = "stored" /\ q.phase = p.phase /\ q.source = p.source /\ q.back = p.back
          /\ q.records = p.records - n /\ q.after = 0
      BY <1>0, <2>2 DEF ProgressTypes
    <3>5. QED
      BY <3>3, <3>4
  <2>4. Behind(q) = Behind(p)
    BY <2>3 DEF Behind
  <2>5. UnderCursor(p) = n
    BY <1>2 DEF UnderCursor, Cursor, n
  <2>6. UnderCursor(q) = 0
    <3>1. OldFacts[p.source] \cap (1 .. 0) = {}
      BY <1>0, UpToFacts
    <3>2. QED
      BY <2>3, <3>1, FS_EmptySet DEF UnderCursor, Cursor
  <2>7. Counted(q)
    <3>1. p.records = OldCount(Behind(p)) + n
      BY <2>5 DEF ProgressIsSound, Counted
    <3>2. OldCount(Behind(p)) \in Nat
      BY <1>0, CountsAreNumbers
    <3>3. QED
      BY <2>1, <2>3, <2>4, <2>6, <3>1, <3>2 DEF Counted
  <2>8. QED
    BY <2>3, <2>4, <2>7 DEF ProgressIsSound, q
<1>3. QED
  BY <1>1, <1>2

(* Past a row of which every fact is under the cursor.                     *)
LEMMA NextRowSound ==
  ASSUME NEW p, ProgressIsSound(p), p.phase = "sources", p.source \in InputRows,
         OldFacts[p.source] \subseteq 1 .. Cursor(p)
  PROVE  LET q == NextRow(p)
         IN  /\ ProgressIsSound(q) /\ q.phase = "sources"
             /\ Behind(q) = Behind(p) \cup {p.source}
<1> DEFINE q == NextRow(p)
           to == IF p.back # 0 THEN p.back ELSE p.source + 1
<1>0. /\ p \in ProgressTypes /\ p.source \in Nat \ {0} /\ p.back \in Nat
      /\ SlotCount \in Nat
  BY MigrationConstants DEF MigrationConstants, ProgressIsSound, ProgressTypes
<1>1. to \in Nat \ {0}
  BY <1>0
<1>q. q = [p EXCEPT !.source = to, !.back = 0, !.anchor = 0, !.mode = "none", !.after = 0]
  BY <1>0 DEF NextRow, ProgressTypes
<1> HIDE DEF q, to
<1>2. /\ q \in ProgressTypes /\ q.phase = "sources" /\ q.source = to /\ q.back = 0
      /\ q.mode = "none" /\ q.anchor = 0 /\ q.records = p.records
  <2>1. q \in ProgressTypes
    <3>1. 0 \in 0 .. SlotCount /\ 0 \in Nat
      BY <1>0
    <3>2. QED
      BY <1>0, <3>1, <1>1, <1>q, Zenon DEF ProgressTypes
  <2>2. /\ q.phase = p.phase /\ q.source = to /\ q.back = 0
        /\ q.mode = "none" /\ q.anchor = 0 /\ q.records = p.records
    BY <1>0, <1>q DEF ProgressTypes
  <2>3. QED
    BY <2>1, <2>2
<1>3. Behind(q) = Behind(p) \cup {p.source}
  <2>1. \A r \in InputRows : r \in Nat
    BY RowNumbers
  <2>2. CASE p.back = 0
    BY <1>0, <1>2, <2>1, <2>2 DEF Behind, to
  <2>3. CASE p.back # 0
    BY <1>0, <1>2, <2>1, <2>3 DEF Behind, ProgressIsSound, to
  <2>4. QED
    BY <2>2, <2>3
<1>4. UnderCursor(p) = Cardinality(OldFacts[p.source])
  <2>1. OldFacts[p.source] \cap (1 .. Cursor(p)) = OldFacts[p.source]
    OBVIOUS
  <2>2. QED
    BY <2>1 DEF UnderCursor
<1>5. UnderCursor(q) = 0
  <2>1. CASE q.source \in InputRows
    <3>1. OldFacts[q.source] \cap (1 .. 0) = {}
      BY <1>0, <2>1, UpToFacts
    <3>2. QED
      BY <1>2, <3>1, FS_EmptySet DEF UnderCursor, Cursor
  <2>2. QED
    BY <2>1 DEF UnderCursor
<1>6. Counted(q)
  <2>1. Behind(p) \subseteq InputRows /\ p.source \notin Behind(p)
    BY DEF Behind
  <2>2. OldCount(Behind(q)) = OldCount(Behind(p)) + Cardinality(OldFacts[p.source])
    BY <1>3, <2>1, CountOfOneMore
  <2>3. OldCount(Behind(q)) \in Nat
    BY <1>2, CountsAreNumbers
  <2>4. p.records = OldCount(Behind(p)) + UnderCursor(p)
    BY DEF ProgressIsSound, Counted
  <2>5. QED
    BY <1>2, <1>4, <1>5, <2>2, <2>3, <2>4 DEF Counted
<1>7. QED
  BY <1>2, <1>3, <1>6 DEF ProgressIsSound, q

(* One more stored fact, the first that is not yet under the cursor.       *)
LEMMA StoreOneSound ==
  ASSUME NEW p, ProgressIsSound(p), p.phase = "sources", p.source \in InputRows,
         p.mode = "stored", NEW n \in OldFacts[p.source], n > p.after,
         \A s \in OldFacts[p.source] : s > p.after => n <= s
  PROVE  LET q == [p EXCEPT !.after = n, !.records = @ + 1]
         IN  /\ ProgressIsSound(q) /\ q.phase = "sources"
             /\ q.source = p.source /\ Behind(q) = Behind(p)
<1> DEFINE q == [p EXCEPT !.after = n, !.records = @ + 1]
           under == OldFacts[p.source] \cap (1 .. p.after)
<1>0. /\ p \in ProgressTypes /\ p.after \in 0 .. SlotCount /\ p.records \in Int
      /\ SlotCount \in Nat
  BY MigrationConstants DEF MigrationConstants, ProgressIsSound, ProgressTypes
<1>1. /\ OldFacts[p.source] \subseteq 1 .. SlotCount /\ n \in 0 .. SlotCount
      /\ p.records + 1 \in Int
  BY <1>0, FactsAreFinite DEF Positions
<1>q. q = [p EXCEPT !.after = n, !.records = p.records + 1]
  BY <1>0 DEF ProgressTypes
<1> HIDE DEF q
<1>2. /\ q.phase = p.phase /\ q.source = p.source /\ q.back = p.back /\ q.mode = "stored"
      /\ q.after = n /\ q.records = p.records + 1
  BY <1>0, <1>q DEF ProgressTypes
<1>3. q \in ProgressTypes
  BY <1>0, <1>1, <1>q, Zenon DEF ProgressTypes
<1>4. Behind(q) = Behind(p)
  BY <1>2 DEF Behind
<1>5. UnderCursor(p) = Cardinality(under)
  BY DEF UnderCursor, Cursor
<1>6. UnderCursor(q) = Cardinality(under) + 1
  <2>1. OldFacts[p.source] \cap (1 .. n) = under \cup {n}
    BY <1>0, <1>1
  <2>2. IsFiniteSet(under) /\ n \notin under
    <3>1. n \notin under
      BY <1>0, <1>1
    <3>2. QED
      BY <3>1, FactsAreFinite
  <2>3. Cardinality(under \cup {n}) = Cardinality(under) + 1
    BY <2>2, FS_AddElement
  <2>4. QED
    BY <1>2, <2>1, <2>3 DEF UnderCursor, Cursor
<1>7. Counted(q)
  <2>1. OldCount(Behind(p)) \in Nat /\ Cardinality(under) \in Nat
    BY <1>0, <1>5, CountsAreNumbers
  <2>2. p.records = OldCount(Behind(p)) + Cardinality(under)
    BY <1>5 DEF ProgressIsSound, Counted
  <2>3. QED
    BY <1>2, <1>4, <1>6, <2>1, <2>2 DEF Counted
<1>8. QED
  BY <1>2, <1>3, <1>4, <1>7 DEF ProgressIsSound, q

(* One more replayed chunk.                                                *)
LEMMA ReplayOneSound ==
  ASSUME NEW p, ProgressIsSound(p), p.phase = "sources", p.source \in InputRows,
         p.mode # "stored", p.anchor + 1 <= SlotCount
  PROVE  LET s == p.anchor + 1
             q == [p EXCEPT !.anchor = s,
                            !.records = @ + Cardinality({s} \cap OldFacts[p.source])]
         IN  /\ ProgressIsSound(q) /\ q.phase = "sources"
             /\ q.source = p.source /\ Behind(q) = Behind(p)
<1> DEFINE s == p.anchor + 1
           k == Cardinality({s} \cap OldFacts[p.source])
           q == [p EXCEPT !.anchor = s, !.records = @ + k]
           under == OldFacts[p.source] \cap (1 .. p.anchor)
<1>0. /\ p \in ProgressTypes /\ p.anchor \in 0 .. SlotCount /\ p.records \in Int
      /\ SlotCount \in Nat
  BY MigrationConstants DEF MigrationConstants, ProgressIsSound, ProgressTypes
<1>1. /\ OldFacts[p.source] \subseteq 1 .. SlotCount /\ s \in 0 .. SlotCount
      /\ k \in Nat /\ p.records + k \in Int
  <2>1. OldFacts[p.source] \subseteq 1 .. SlotCount
    BY FactsAreFinite DEF Positions
  <2>2. k \in Nat
    <3>1. {s} \cap OldFacts[p.source] \in SUBSET OldFacts[p.source]
      OBVIOUS
    <3>2. QED
      BY <3>1, FactsAreFinite
  <2> HIDE DEF k
  <2>3. QED
    BY <1>0, <2>1, <2>2
<1>q. q = [p EXCEPT !.anchor = s, !.records = p.records + k]
  BY <1>0 DEF ProgressTypes
<1> HIDE DEF q, k
<1>2. /\ q.phase = p.phase /\ q.source = p.source /\ q.back = p.back /\ q.mode = p.mode
      /\ q.anchor = s /\ q.records = p.records + k
  BY <1>0, <1>q DEF ProgressTypes
<1>3. q \in ProgressTypes
  BY <1>0, <1>1, <1>q, Zenon DEF ProgressTypes
<1>4. Behind(q) = Behind(p)
  BY <1>2 DEF Behind
<1>5. UnderCursor(p) = Cardinality(under)
  BY DEF UnderCursor, Cursor
<1>6. UnderCursor(q) = Cardinality(under) + k
  <2>1. OldFacts[p.source] \cap (1 .. s) = under \cup ({s} \cap OldFacts[p.source])
    BY <1>0, <1>1
  <2>2. IsFiniteSet(under) /\ s \notin under /\ Cardinality(under) \in Nat
    <3>1. s \notin under
      BY <1>0
    <3>2. QED
      BY <3>1, FactsAreFinite
  <2>3. CASE s \in OldFacts[p.source]
    <3>1. {s} \cap OldFacts[p.source] = {s}
      BY <2>3
    <3>2. k = 1
      BY <3>1, FS_Singleton DEF k
    <3>3. Cardinality(under \cup {s}) = Cardinality(under) + 1
      BY <2>2, FS_AddElement
    <3>4. QED
      BY <1>2, <2>1, <3>1, <3>2, <3>3 DEF UnderCursor, Cursor
  <2>4. CASE s \notin OldFacts[p.source]
    <3>1. {s} \cap OldFacts[p.source] = {}
      BY <2>4
    <3>2. k = 0
      BY <3>1, FS_EmptySet DEF k
    <3>3. under \cup {} = under
      OBVIOUS
    <3>4. QED
      BY <1>2, <2>1, <2>2, <3>1, <3>2, <3>3 DEF UnderCursor, Cursor
  <2>5. QED
    BY <2>3, <2>4
<1>7. Counted(q)
  <2>1. OldCount(Behind(p)) \in Nat /\ Cardinality(under) \in Nat
    BY <1>0, <1>5, CountsAreNumbers
  <2>2. p.records = OldCount(Behind(p)) + Cardinality(under)
    BY <1>5 DEF ProgressIsSound, Counted
  <2>3. QED
    BY <1>1, <1>2, <1>4, <1>6, <2>1, <2>2 DEF Counted
<1>8. QED
  BY <1>2, <1>3, <1>4, <1>7 DEF ProgressIsSound, q, k

(* Past the last row every row is behind and nothing is under the cursor.  *)
LEMMA PastLast ==
  ASSUME NEW p \in ProgressTypes, p.source > LastRow, p.back = 0
  PROVE  Behind(p) = InputRows /\ UnderCursor(p) = 0
<1>1. p.source \in Nat
  BY DEF ProgressTypes
<1>2. p.source \notin InputRows /\ \A r \in InputRows : r < p.source
  BY <1>1, RowNumbers
<1>3. QED
  BY <1>2 DEF Behind, UnderCursor

(* p in another phase, or back at row r.                                   *)
InPhase(p, to, was) == [p EXCEPT !.phase = to, !.backPhase = was]
BackAt(p, r, was) ==
  [p EXCEPT !.back = p.source, !.source = r, !.records = @ - Cardinality(OldFacts[r]),
            !.backPhase = was, !.phase = "sources", !.anchor = 0, !.mode = "stored", !.after = 0]

(* Back to one row for a repair.                                           *)
LEMMA RepairSound ==
  ASSUME NEW p, ProgressIsSound(p), p.back = 0, p.source > LastRow,
         NEW r \in InputRows, NEW was \in {"sources", "verify", "search", "ready"}
  PROVE  /\ ProgressIsSound(BackAt(p, r, was)) /\ BackAt(p, r, was).phase = "sources"
         /\ Behind(BackAt(p, r, was)) = InputRows \ {r}
<1> DEFINE n == Cardinality(OldFacts[r])
           q == BackAt(p, r, was)
<1>0. /\ p \in ProgressTypes /\ p.records \in Int /\ p.source \in Nat \ {0}
      /\ SlotCount \in Nat
  BY MigrationConstants DEF MigrationConstants, ProgressIsSound, ProgressTypes
<1>1. n \in Nat
  BY FactsAreFinite
<1>q. q = [p EXCEPT !.back = p.source, !.source = r,
                    !.records = p.records - n, !.backPhase = was,
                    !.phase = "sources", !.anchor = 0, !.mode = "stored", !.after = 0]
  BY <1>0 DEF ProgressTypes, BackAt
<1> HIDE DEF n, q
<1>2. /\ p.records - n \in Int /\ p.source \in Nat /\ r \in Nat \ {0} /\ 0 \in 0 .. SlotCount
      /\ r < p.source
  BY <1>0, <1>1, RowNumbers
<1>3. /\ q.phase = "sources" /\ q.source = r /\ q.back = p.source /\ q.mode = "stored"
      /\ q.after = 0 /\ q.records = p.records - n
  BY <1>0, <1>q DEF ProgressTypes
<1>4. q \in ProgressTypes
  <2>1. /\ was \in {"none", "sources", "verify", "search", "ready"} /\ "stored" \in {"none", "stored"}
        /\ "sources" \in {"control", "sources", "verify", "search", "ready"}
    OBVIOUS
  <2>2. QED
    BY <1>0, <1>2, <1>q, <2>1, ZenonT(60) DEF ProgressTypes
<1>5. Behind(q) = InputRows \ {r}
  <2>1. \A x \in InputRows : x < p.source
    BY <1>0, RowNumbers
  <2>2. QED
    BY <1>0, <1>3, <2>1 DEF Behind
<1>6. UnderCursor(q) = 0
  <2>1. OldFacts[r] \cap (1 .. 0) = {}
    OBVIOUS
  <2>2. QED
    BY <1>3, <2>1, FS_EmptySet DEF UnderCursor, Cursor
<1>7. Counted(q)
  <2>1. /\ OldCount(InputRows \ {r}) \in Nat
        /\ OldCount((InputRows \ {r}) \cup {r}) = OldCount(InputRows \ {r}) + n
    BY CountOfOneMore DEF n
  <2>2. (InputRows \ {r}) \cup {r} = InputRows
    OBVIOUS
  <2>3. p.records = OldCount(InputRows)
    <3>1. p.records = OldCount(Behind(p)) + UnderCursor(p)
      BY DEF ProgressIsSound, Counted
    <3>2. OldCount(Behind(p)) \in Nat
      BY <1>0, CountsAreNumbers
    <3>3. Behind(p) = InputRows /\ UnderCursor(p) = 0
      BY <1>0, PastLast
    <3>4. QED
      BY <3>1, <3>2, <3>3
  <2>4. p.records = OldCount(InputRows \ {r}) + n
    BY <2>1, <2>2, <2>3
  <2>5. p.records - n = OldCount(InputRows \ {r}) + 0
    BY <1>1, <2>1, <2>4
  <2>6. q.records = OldCount(Behind(q)) + UnderCursor(q)
    BY <1>3, <1>5, <1>6, <2>5, Zenon
  <2>7. QED
    BY <2>6, Zenon DEF Counted
<1>8. QED
  BY <1>2, <1>3, <1>4, <1>5, <1>7 DEF ProgressIsSound, q

(* A phase of its own is entered only past the last row.                   *)
LEMMA PhaseSound ==
  ASSUME NEW p, NEW to, NEW was, ProgressIsSound(p),
         to \in {"control", "sources", "verify", "search", "ready"},
         to \in {"verify", "search", "ready"} => p.source > LastRow,
         was \in {"none", "sources", "verify", "search", "ready"}
  PROVE  /\ ProgressIsSound(InPhase(p, to, was)) /\ InPhase(p, to, was).phase = to
         /\ Behind(InPhase(p, to, was)) = Behind(p)
<1> DEFINE q == InPhase(p, to, was)
<1>q. q = [p EXCEPT !.phase = to, !.backPhase = was]
  BY DEF InPhase
<1> HIDE DEF q
<1>0. p \in ProgressTypes
  BY DEF ProgressIsSound
<1>1. /\ q.phase = to /\ q.source = p.source /\ q.back = p.back /\ q.mode = p.mode
      /\ q.anchor = p.anchor /\ q.after = p.after /\ q.records = p.records
  BY <1>0, <1>q DEF ProgressTypes
<1>2. q \in ProgressTypes
  BY <1>0, <1>q, Zenon DEF ProgressTypes
<1>3. Behind(q) = Behind(p) /\ UnderCursor(q) = UnderCursor(p)
  BY <1>1 DEF Behind, UnderCursor, Cursor
<1>4. QED
  BY <1>1, <1>2, <1>3 DEF ProgressIsSound, Counted, q

(* A start from nothing is sound.                                          *)
LEMMA UnstartedSound ==
  /\ ProgressIsSound(Unstarted) /\ Behind(Unstarted) = {}
  /\ Unstarted.phase = "control" /\ Unstarted.source = 1 /\ Unstarted.back = 0
<1> DEFINE q == Unstarted
<1>1. /\ q.phase = "control" /\ q.source = 1 /\ q.back = 0 /\ q.mode = "none"
      /\ q.anchor = 0 /\ q.after = 0 /\ q.records = 0 /\ q.backPhase = "none"
  BY DEF Unstarted
<1>2. q \in ProgressTypes
  <2>1. 0 \in 0 .. SlotCount /\ 0 \in Nat /\ 1 \in Nat \ {0} /\ 0 \in Int
    BY MigrationConstants DEF MigrationConstants
  <2>2. QED
    BY <2>1, Zenon DEF Unstarted, ProgressTypes
<1> HIDE DEF q
<1>3. Behind(q) = {}
  <2>1. \A r \in InputRows : ~ (r < 1)
    BY RowNumbers
  <2>2. QED
    BY <1>1, <2>1 DEF Behind
<1>4. UnderCursor(q) = 0
  <2>1. \A r \in InputRows : OldFacts[r] \cap (1 .. 0) = {}
    OBVIOUS
  <2>2. QED
    BY <1>1, <2>1, FS_EmptySet DEF UnderCursor, Cursor
<1>5. Counted(q)
  BY <1>1, <1>3, <1>4, CountOfNone DEF Counted
<1>6. QED
  BY <1>1, <1>2, <1>3, <1>5 DEF ProgressIsSound, q

(***************************************************************************)
(* The rows of the new store.                                              *)
(***************************************************************************)

RowTypes ==
  [copied : {TRUE}, of : InputRows, missing : BOOLEAN, verified : Nat \cup {Unverified},
   ranges : SUBSET Positions, stored : SUBSET Positions, hidden : SUBSET Positions]

(* A row stores nothing the original lacks; while it is replayed, its      *)
(* exceptions are exactly those of its ranges.                             *)
RowIsSound(r, row) ==
  /\ row \in RowTypes /\ row.of = r
  /\ row.stored \subseteq OldFacts[r]
  /\ ~row.missing => /\ row.stored = row.ranges \cap (OldFacts[r] \ Decoded[r])
                     /\ row.hidden = row.ranges \cap (Decoded[r] \ OldFacts[r])

(* The bytes a row was verified against are there until a change.          *)
VerifiedIntact(row, file) ==
  row.verified # Unverified =>
    /\ row.verified <= file.stamp
    /\ row.verified = file.stamp => file.file = "intact"

Finished(r, row) ==
  /\ row.copied
  /\ row.missing => row.stored = OldFacts[r]
  /\ ~row.missing => row.verified # Unverified /\ row.ranges = Positions

StandsBehind(rows, p) == \A r \in Behind(p) : Finished(r, rows[r])

TargetTypes == [rows : [InputRows -> RowTypes \cup {NotCopied}], progress : ProgressTypes]

(* The durable store: its rows are sound, and those behind the cursor are  *)
(* finished.                                                               *)
TargetIsSound(t, transcripts) ==
  /\ t \in TargetTypes
  /\ \A r \in InputRows : t.rows[r].copied => /\ RowIsSound(r, t.rows[r])
                                              /\ VerifiedIntact(t.rows[r], transcripts[r])
  /\ ProgressIsSound(t.progress)
  /\ StandsBehind(t.rows, t.progress)

(* A finished row gives back exactly the facts of the original.            *)
LEMMA FinishedIsExact ==
  ASSUME NEW r \in InputRows, NEW row, RowIsSound(r, row), Finished(r, row)
  PROVE  FactsOf(row) = OldFacts[r]
<1>0. Decoded[r] \subseteq Positions /\ OldFacts[r] \subseteq Positions
  BY MigrationConstants DEF MigrationConstants, Positions
<1>1. CASE row.missing
  BY <1>1 DEF FactsOf, Finished
<1>2. CASE ~row.missing
  <2>1. /\ row.ranges = Positions /\ row.of = r
        /\ row.stored = Positions \cap (OldFacts[r] \ Decoded[r])
        /\ row.hidden = Positions \cap (Decoded[r] \ OldFacts[r])
    BY <1>2 DEF Finished, RowIsSound
  <2>2. FactsOf(row) = ((Decoded[r] \cap Positions) \ row.hidden) \cup row.stored
    BY <1>2, <2>1 DEF FactsOf, Finished
  <2>3. QED
    BY <1>0, <2>1, <2>2
<1>3. QED
  BY <1>1, <1>2

(* One row is written; the progress row stays, the next one is held back.  *)
LEMMA PutRow ==
  ASSUME NEW t, NEW transcripts, TargetIsSound(t, transcripts),
         NEW r \in InputRows, r = t.progress.source,
         NEW row, RowIsSound(r, row), VerifiedIntact(row, transcripts[r]),
         NEW next, Behind(next) \subseteq Behind(t.progress) \cup {r},
         r \in Behind(next) => Finished(r, row)
  PROVE  LET put == [t EXCEPT !.rows[r] = row]
         IN  /\ TargetIsSound(put, transcripts)
             /\ put.progress = t.progress
             /\ StandsBehind(put.rows, next)
<1> DEFINE put == [t EXCEPT !.rows[r] = row]
<1>0. t \in TargetTypes /\ row \in RowTypes
  BY DEF TargetIsSound, RowIsSound
<1>1. /\ put \in TargetTypes /\ put.progress = t.progress
      /\ put.rows[r] = row /\ \A q \in InputRows \ {r} : put.rows[q] = t.rows[q]
  BY <1>0 DEF TargetTypes
<1> HIDE DEF put
<1>2. r \notin Behind(t.progress)
  BY DEF Behind
<1>3. StandsBehind(put.rows, t.progress)
  BY <1>1, <1>2 DEF StandsBehind, TargetIsSound, Behind
<1>4. StandsBehind(put.rows, next)
  BY <1>1, <1>2 DEF StandsBehind, TargetIsSound, Behind
<1>5. QED
  BY <1>1, <1>3, <1>4 DEF TargetIsSound, put

(* The progress row is written.                                            *)
LEMMA PutProgress ==
  ASSUME NEW t, NEW transcripts, TargetIsSound(t, transcripts),
         NEW next, ProgressIsSound(next), StandsBehind(t.rows, next)
  PROVE  LET put == [t EXCEPT !.progress = next]
         IN  /\ TargetIsSound(put, transcripts)
             /\ put.progress = next /\ put.rows = t.rows
<1> DEFINE put == [t EXCEPT !.progress = next]
<1>0. t \in TargetTypes /\ next \in ProgressTypes
  BY DEF TargetIsSound, ProgressIsSound
<1>1. put \in TargetTypes /\ put.progress = next /\ put.rows = t.rows
  BY <1>0 DEF TargetTypes
<1> HIDE DEF put
<1>2. QED
  BY <1>1 DEF TargetIsSound, put

(* The row under the cursor, if it was never written, is a fresh one.      *)
LEMMA RowAtHand ==
  ASSUME TargetIsSound(target, raw), NEW r \in InputRows
  PROVE  RowIsSound(r, RowOf(r)) /\ VerifiedIntact(RowOf(r), raw[r])
<1>1. CASE target.rows[r].copied
  BY <1>1 DEF TargetIsSound, RowOf
<1>2. CASE ~target.rows[r].copied
  BY <1>2 DEF RowOf, FreshRow, RowIsSound, RowTypes, VerifiedIntact
<1>3. QED
  BY <1>1, <1>2

(* Past the last row, every row is finished.                               *)
LEMMA AllFinished ==
  ASSUME NEW t, NEW transcripts, TargetIsSound(t, transcripts), t.progress.source > LastRow
  PROVE  /\ t.progress.back = 0 /\ Behind(t.progress) = InputRows
         /\ \A r \in InputRows : Finished(r, t.rows[r]) /\ FactsOf(t.rows[r]) = OldFacts[r]
<1>0. t.progress \in ProgressTypes /\ t.progress.source \in Nat
  BY DEF TargetIsSound, ProgressIsSound, ProgressTypes
<1>1. t.progress.back = 0
  BY <1>0, RowNumbers DEF TargetIsSound, ProgressIsSound
<1>2. Behind(t.progress) = InputRows
  BY <1>0, <1>1, PastLast
<1>3. \A r \in InputRows : Finished(r, t.rows[r])
  BY <1>2 DEF TargetIsSound, StandsBehind
<1>4. \A r \in InputRows : RowIsSound(r, t.rows[r])
  BY <1>3 DEF Finished, TargetIsSound
<1>5. QED
  BY <1>1, <1>2, <1>3, <1>4, FinishedIsExact

(***************************************************************************)
(* The copy.                                                               *)
(***************************************************************************)

RawTypes == [InputRows -> [stamp : Nat, file : {"intact", "rewritten", "gone"}]]

(* Between the two writes of a batch the progress row held back is sound   *)
(* as well, so that it does not matter whether a crash loses it.           *)
SaveIsSound(f, rows) ==
  f.do = "save" => /\ ProgressIsSound(f.progress) /\ f.progress.phase = "sources"
                   /\ StandsBehind(rows, f.progress)

CopyInv ==
  /\ raw \in RawTypes
  /\ TargetIsSound(target, raw)
  /\ SaveIsSound(flight, target.rows)

(* What a step of the copy leaves for the call to do.                      *)
CopyFlight == /\ flight'.do \in {"nothing", "save", "seal"}
              /\ flight'.do = "seal" => Progress'.phase = "ready"

(* A batch that writes a row.                                              *)
LEMMA WriteStep ==
  ASSUME CopyInv, raw' = raw, NEW r \in InputRows, r = Progress.source,
         NEW row, RowIsSound(r, row), VerifiedIntact(row, raw[r]),
         NEW next, ProgressIsSound(next), next.phase = "sources",
         Behind(next) \subseteq Behind(Progress) \cup {r},
         r \in Behind(next) => Finished(r, row),
         WriteRow(r, row, next)
  PROVE  CopyInv' /\ CopyFlight
<1>1. target' = [target EXCEPT !.rows[r] = row] /\ flight' = [do |-> "save", progress |-> next]
  BY DEF WriteRow
<1>2. /\ TargetIsSound(target', raw) /\ StandsBehind(target'.rows, next)
  BY <1>1, PutRow DEF CopyInv, Progress
<1>3. SaveIsSound(flight', target'.rows)
  BY <1>1, <1>2 DEF SaveIsSound
<1>4. QED
  BY <1>1, <1>2, <1>3 DEF CopyInv, CopyFlight

(* A batch that only moves the progress row.                               *)
LEMMA SaveStep ==
  ASSUME CopyInv, raw' = raw, flight = Nothing,
         NEW next, ProgressIsSound(next), StandsBehind(target.rows, next),
         SaveNow(next)
  PROVE  CopyInv' /\ CopyFlight /\ Progress' = next
<1>1. target' = [target EXCEPT !.progress = next] /\ flight' = Nothing
  BY DEF SaveNow
<1>2. TargetIsSound(target', raw) /\ target'.progress = next
  BY <1>1, PutProgress DEF CopyInv
<1>3. flight'.do = "nothing"
  BY <1>1 DEF Nothing
<1>4. QED
  BY <1>1, <1>2, <1>3 DEF CopyInv, CopyFlight, SaveIsSound, Progress

(* Where the cursor is while rows are copied.                              *)
LEMMA AtTheCursor ==
  ASSUME CopyInv, Progress.phase = "sources", NEW r \in InputRows, r = Progress.source
  PROVE  /\ ProgressIsSound(Progress)
         /\ StandsBehind(target.rows, Progress)
         /\ r \notin Behind(Progress)
         /\ ProgressIsSound(EnterStored(Progress)) /\ EnterStored(Progress).mode = "stored"
         /\ EnterStored(Progress).phase = "sources" /\ EnterStored(Progress).source = r
         /\ Behind(EnterStored(Progress)) = Behind(Progress)
<1>1. ProgressIsSound(Progress) /\ StandsBehind(target.rows, Progress)
  BY DEF CopyInv, TargetIsSound, Progress
<1>2. r \notin Behind(Progress)
  BY DEF Behind
<1>3. QED
  BY <1>1, <1>2, EnterStoredSound

(* Clearing a row before its facts are stored.                             *)
LEMMA ClearKeeps ==
  ASSUME CopyInv, NEW r \in InputRows, ClearRow(r)
  PROVE  CopyInv' /\ CopyFlight
<1> DEFINE row == [RowOf(r) EXCEPT !.ranges = {}, !.stored = {}, !.hidden = {}]
           next == EnterStored(Progress)
<1>1. /\ r = Progress.source /\ Progress.phase = "sources" /\ raw' = raw /\ WriteRow(r, row, next)
  BY DEF ClearRow, Copying, Quiet
<1>2. RowIsSound(r, row) /\ VerifiedIntact(row, raw[r])
  <2>1. RowIsSound(r, RowOf(r)) /\ VerifiedIntact(RowOf(r), raw[r])
    BY RowAtHand DEF CopyInv
  <2>2. /\ row \in RowTypes /\ row.of = r /\ row.ranges = {} /\ row.stored = {} /\ row.hidden = {}
        /\ row.verified = RowOf(r).verified
    BY <2>1 DEF RowIsSound, RowTypes
  <2> HIDE DEF row
  <2>3. QED
    BY <2>1, <2>2 DEF RowIsSound, VerifiedIntact
<1>3. /\ ProgressIsSound(next) /\ next.phase = "sources" /\ Behind(next) = Behind(Progress)
      /\ r \notin Behind(Progress)
  BY <1>1, AtTheCursor
<1> HIDE DEF row, next
<1>4. QED
  BY <1>1, <1>2, <1>3, WriteStep

(* Storing the next fact of a row.                                         *)
LEMMA StoreKeeps ==
  ASSUME CopyInv, NEW r \in InputRows, StoreFact(r)
  PROVE  CopyInv' /\ CopyFlight
<1> DEFINE p == EnterStored(Progress)
           left == {s \in OldFacts[r] : s > p.after}
           n == Min(left)
           row == [[RowOf(r) EXCEPT !.missing = TRUE, !.verified = Unverified]
                     EXCEPT !.stored = @ \cup {n}]
           next == [p EXCEPT !.after = n, !.records = @ + 1]
<1>1. /\ r = Progress.source /\ Progress.phase = "sources" /\ raw' = raw /\ left # {}
      /\ WriteRow(r, row, next)
  BY DEF StoreFact, Copying, Quiet
<1>2. n \in left /\ \A s \in left : n <= s
  <2>1. OldFacts[r] \subseteq Nat
    BY FactsAreFinite DEF Positions
  <2>2. left \in SUBSET Nat
    BY <2>1
  <2>3. QED
    BY <1>1, <2>2, MinIsLeast
<1>3. /\ ProgressIsSound(p) /\ p.phase = "sources" /\ p.source = r /\ p.mode = "stored"
      /\ Behind(p) = Behind(Progress) /\ r \notin Behind(Progress)
  BY <1>1, AtTheCursor
<1>4. /\ n \in OldFacts[p.source] /\ n > p.after
      /\ \A s \in OldFacts[p.source] : s > p.after => n <= s
  BY <1>2, <1>3
<1>5. RowIsSound(r, row) /\ VerifiedIntact(row, raw[r])
  <2>1. RowIsSound(r, RowOf(r))
    BY RowAtHand DEF CopyInv
  <2>2. n \in OldFacts[r] /\ n \in Positions
    BY <1>2, FactsAreFinite
  <2> HIDE DEF n
  <2>3. QED
    BY <2>1, <2>2 DEF RowIsSound, RowTypes, VerifiedIntact, Unverified
<1> HIDE DEF p, n, row
<1>6. ProgressIsSound(next) /\ next.phase = "sources" /\ Behind(next) = Behind(p)
  BY <1>3, <1>4, StoreOneSound
<1> HIDE DEF next
<1>7. QED
  BY <1>1, <1>3, <1>5, <1>6, WriteStep

(* The last step of a stored row: as many facts as the original, none of   *)
(* them foreign, so all of them.                                           *)
LEMMA FinishStoredKeeps ==
  ASSUME CopyInv, NEW r \in InputRows, FinishStored(r)
  PROVE  CopyInv' /\ CopyFlight
<1> DEFINE p == EnterStored(Progress)
           row == [RowOf(r) EXCEPT !.missing = TRUE, !.verified = Unverified]
           next == NextRow(p)
<1>1. /\ r = Progress.source /\ Progress.phase = "sources" /\ raw' = raw
      /\ ~\E s \in OldFacts[r] : s > p.after
      /\ Cardinality(row.stored) = Cardinality(OldFacts[r])
      /\ WriteRow(r, row, next)
  BY DEF FinishStored, Copying, Quiet
<1>2. /\ ProgressIsSound(p) /\ p.phase = "sources" /\ p.source = r /\ p.mode = "stored"
      /\ Behind(p) = Behind(Progress) /\ r \notin Behind(Progress)
  BY <1>1, AtTheCursor
<1>3. RowIsSound(r, row) /\ VerifiedIntact(row, raw[r]) /\ row.missing
  <2>1. RowIsSound(r, RowOf(r))
    BY RowAtHand DEF CopyInv
  <2>2. QED
    BY <2>1 DEF RowIsSound, RowTypes, VerifiedIntact, Unverified
<1>4. Finished(r, row)
  <2>1. row.stored \in SUBSET OldFacts[r] /\ row.copied
    BY <1>3 DEF RowIsSound, RowTypes
  <2>2. row.stored = OldFacts[r]
    BY <1>1, <2>1, FactsAreFinite
  <2>3. QED
    BY <1>3, <2>1, <2>2 DEF Finished
<1> HIDE DEF row
<1>5. OldFacts[p.source] \subseteq 1 .. Cursor(p)
  <2>1. p.after \in Nat
    BY <1>2 DEF ProgressIsSound, ProgressTypes
  <2>2. OldFacts[r] \subseteq Nat \ {0}
    BY FactsAreFinite DEF Positions
  <2> HIDE DEF p
  <2>3. \A s \in OldFacts[r] : s \in 1 .. p.after
    BY <1>1, <2>1, <2>2
  <2>4. QED
    BY <1>2, <2>3 DEF Cursor
<1> HIDE DEF p
<1>6. ProgressIsSound(next) /\ next.phase = "sources" /\ Behind(next) = Behind(p) \cup {r}
  BY <1>2, <1>5, NextRowSound
<1> HIDE DEF next
<1>7. QED
  BY <1>1, <1>2, <1>3, <1>4, <1>6, WriteStep

(* Not storing: the row is replayed.                                       *)
LEMMA Replaying ==
  ASSUME CopyInv, NEW r \in InputRows, MayReplay(r)
  PROVE  /\ r = Progress.source /\ Progress.phase = "sources" /\ Progress.mode # "stored"
         /\ raw' = raw /\ raw[r].file = "intact" /\ ~RowOf(r).missing
         /\ RowIsSound(r, RowOf(r))
  BY RowAtHand DEF CopyInv, MayReplay, MustStore, Copying, Quiet

(* Replaying the next chunk.                                               *)
LEMMA ReplayKeeps ==
  ASSUME CopyInv, NEW r \in InputRows, ReplayChunk(r)
  PROVE  CopyInv' /\ CopyFlight
<1> DEFINE s == Progress.anchor + 1
           row == RangeRow(r, s)
           next == [Progress EXCEPT !.anchor = s,
                                    !.records = @ + Cardinality({s} \cap OldFacts[r])]
<1>1. s <= SlotCount /\ WriteRow(r, row, next) /\ MayReplay(r)
  BY DEF ReplayChunk
<1>2. /\ r = Progress.source /\ Progress.phase = "sources" /\ Progress.mode # "stored"
      /\ raw' = raw /\ ~RowOf(r).missing /\ RowIsSound(r, RowOf(r))
  BY <1>1, Replaying
<1>3. ProgressIsSound(Progress) /\ r \notin Behind(Progress)
  BY <1>2, AtTheCursor
<1>4. RowIsSound(r, row) /\ VerifiedIntact(row, raw[r])
  <2>1. s \in Positions
    <3>1. Progress.anchor \in Nat /\ SlotCount \in Nat
      BY <1>3, MigrationConstants DEF MigrationConstants, ProgressIsSound, ProgressTypes
    <3>2. QED
      BY <1>1, <3>1 DEF Positions
  <2> HIDE DEF s
  <2>2. row = [RowOf(r) EXCEPT
                 !.verified = Unverified,
                 !.ranges = @ \cup {s},
                 !.stored = (@ \ {s}) \cup ({s} \cap (OldFacts[r] \ Decoded[r])),
                 !.hidden = (@ \ {s}) \cup ({s} \cap (Decoded[r] \ OldFacts[r]))]
    BY DEF RangeRow
  <2> DEFINE old == RowOf(r)
             ranges == old.ranges \cup {s}
             stored == (old.stored \ {s}) \cup ({s} \cap (OldFacts[r] \ Decoded[r]))
             hidden == (old.hidden \ {s}) \cup ({s} \cap (Decoded[r] \ OldFacts[r]))
  <2> HIDE DEF row
  <2>a. old \in RowTypes /\ old.of = r /\ ~old.missing
    BY <1>2 DEF RowIsSound
  <2>b. row = [old EXCEPT !.verified = Unverified, !.ranges = ranges, !.stored = stored,
                          !.hidden = hidden]
    BY <2>2, <2>a DEF RowTypes
  <2>c. /\ ranges \in SUBSET Positions /\ stored \in SUBSET Positions
        /\ hidden \in SUBSET Positions /\ Unverified \in Nat \cup {Unverified}
    BY <2>1, <2>a DEF RowTypes
  <2> HIDE DEF old, ranges, stored, hidden
  <2>d. row \in RowTypes
    BY <2>a, <2>b, <2>c, Zenon DEF RowTypes
  <2>e. /\ row.of = r /\ ~row.missing /\ row.verified = Unverified
        /\ row.ranges = ranges /\ row.stored = stored /\ row.hidden = hidden
    BY <2>a, <2>b DEF RowTypes
  <2>3. /\ row \in RowTypes /\ row.of = r /\ ~row.missing /\ row.verified = Unverified
        /\ row.ranges = RowOf(r).ranges \cup {s}
        /\ row.stored = (RowOf(r).stored \ {s}) \cup ({s} \cap (OldFacts[r] \ Decoded[r]))
        /\ row.hidden = (RowOf(r).hidden \ {s}) \cup ({s} \cap (Decoded[r] \ OldFacts[r]))
    BY <2>d, <2>e DEF old, ranges, stored, hidden
  <2>4. /\ RowOf(r).stored = RowOf(r).ranges \cap (OldFacts[r] \ Decoded[r])
        /\ RowOf(r).hidden = RowOf(r).ranges \cap (Decoded[r] \ OldFacts[r])
    BY <1>2 DEF RowIsSound
  <2>5. QED
    BY <2>3, <2>4 DEF RowIsSound, VerifiedIntact
<1> HIDE DEF row
<1>5. ProgressIsSound(next) /\ next.phase = "sources" /\ Behind(next) = Behind(Progress)
  BY <1>1, <1>2, <1>3, ReplayOneSound
<1> HIDE DEF next
<1>6. QED
  BY <1>1, <1>2, <1>3, <1>4, <1>5, WriteStep

(* The last step of a replayed row binds it to the bytes it was read from. *)
LEMMA CompleteKeeps ==
  ASSUME CopyInv, NEW r \in InputRows, CompleteRow(r)
  PROVE  CopyInv' /\ CopyFlight
<1> DEFINE row == [RowOf(r) EXCEPT !.verified = raw[r].stamp]
           next == NextRow(Progress)
<1>1. /\ MayReplay(r) /\ Progress.anchor = SlotCount /\ RowOf(r).ranges = Positions
      /\ WriteRow(r, row, next)
  BY DEF CompleteRow, Positions
<1>2. /\ r = Progress.source /\ Progress.phase = "sources" /\ Progress.mode # "stored"
      /\ raw' = raw /\ raw[r].file = "intact" /\ ~RowOf(r).missing /\ RowIsSound(r, RowOf(r))
  BY <1>1, Replaying
<1>3. ProgressIsSound(Progress) /\ r \notin Behind(Progress)
  BY <1>2, AtTheCursor
<1>4. /\ RowIsSound(r, row) /\ row.ranges = RowOf(r).ranges
      /\ row.verified = raw[r].stamp /\ row.copied /\ ~row.missing /\ raw[r].stamp \in Nat
  <2>1. raw[r].stamp \in Nat
    BY DEF CopyInv, RawTypes
  <2>2. QED
    BY <1>2, <2>1 DEF RowIsSound, RowTypes
<1>5. VerifiedIntact(row, raw[r]) /\ Finished(r, row)
  BY <1>1, <1>2, <1>4 DEF VerifiedIntact, Finished, Unverified
<1> HIDE DEF row
<1>6. OldFacts[Progress.source] \subseteq 1 .. Cursor(Progress)
  BY <1>1, <1>2, FactsAreFinite DEF Cursor, Positions
<1>7. ProgressIsSound(next) /\ next.phase = "sources" /\ Behind(next) = Behind(Progress) \cup {r}
  BY <1>2, <1>3, <1>6, NextRowSound
<1> HIDE DEF next
<1>8. QED
  BY <1>1, <1>2, <1>4, <1>5, <1>7, WriteStep

(* A replay that cannot be relied on goes over to stored copies.           *)
LEMMA RefusedKeeps ==
  ASSUME CopyInv, NEW r \in InputRows, ReplayRefused(r)
  PROVE  CopyInv' /\ CopyFlight
<1>1. /\ r = Progress.source /\ Progress.phase = "sources" /\ raw' = raw /\ flight = Nothing
      /\ SaveNow(EnterStored(Progress))
  BY DEF ReplayRefused, Copying, Quiet
<1>2. /\ ProgressIsSound(EnterStored(Progress)) /\ Behind(EnterStored(Progress)) = Behind(Progress)
      /\ StandsBehind(target.rows, Progress)
  BY <1>1, AtTheCursor
<1>3. StandsBehind(target.rows, EnterStored(Progress))
  BY <1>2 DEF StandsBehind
<1>4. QED
  BY <1>1, <1>2, <1>3, SaveStep

(* A transcript that changes gets a new stamp, which no row was verified   *)
(* against.                                                                *)
LEMMA ChangeKeeps ==
  ASSUME CopyInv, NEW r \in InputRows, NEW how \in {"intact", "rewritten", "gone"}
  PROVE  /\ Changed(r, how) \in RawTypes
         /\ \A t : TargetIsSound(t, raw) => TargetIsSound(t, Changed(r, how))
<1> DEFINE now == Changed(r, how)
<1>0. /\ raw \in RawTypes /\ raw[r].stamp \in Nat
      /\ raw[r] = [stamp |-> raw[r].stamp, file |-> raw[r].file]
  BY DEF CopyInv, RawTypes
<1>1. now = [raw EXCEPT ![r] = [stamp |-> raw[r].stamp + 1, file |-> how]]
  BY <1>0 DEF Changed, RawTypes
<1> HIDE DEF now
<1>2. /\ now \in RawTypes /\ now[r].stamp = raw[r].stamp + 1
      /\ \A q \in InputRows \ {r} : now[q] = raw[q]
  <2>1. raw[r].stamp + 1 \in Nat
    BY <1>0
  <2>2. QED
    BY <1>0, <1>1, <2>1 DEF RawTypes
<1>3. ASSUME NEW t, TargetIsSound(t, raw) PROVE TargetIsSound(t, now)
  <2>1. ASSUME NEW q \in InputRows, t.rows[q].copied PROVE VerifiedIntact(t.rows[q], now[q])
    <3>1. RowIsSound(q, t.rows[q]) /\ VerifiedIntact(t.rows[q], raw[q])
      BY <1>3, <2>1 DEF TargetIsSound
    <3>2. CASE q # r
      BY <1>2, <3>1, <3>2
    <3>3. CASE q = r
      <4>1. t.rows[r].verified \in Nat \cup {Unverified}
        BY <3>1, <3>3 DEF RowIsSound, RowTypes
      <4>2. QED
        BY <1>0, <1>2, <3>1, <3>3, <4>1 DEF VerifiedIntact
    <3>4. QED
      BY <3>2, <3>3
  <2>2. QED
    BY <1>3, <2>1 DEF TargetIsSound
<1>4. QED
  BY <1>2, <1>3 DEF now

(* A transcript changes by itself.                                         *)
LEMMA TranscriptKeeps ==
  ASSUME CopyInv, NEW r \in InputRows, ChangeTranscript(r)
  PROVE  CopyInv'
<1>1. PICK how \in {"intact", "rewritten", "gone"} : raw' = Changed(r, how)
  BY DEF ChangeTranscript
<1>2. target' = target /\ flight' = flight
  BY DEF ChangeTranscript
<1>3. raw' \in RawTypes /\ TargetIsSound(target, raw')
  BY <1>1, ChangeKeeps DEF CopyInv
<1>4. QED
  BY <1>2, <1>3 DEF CopyInv

(* A transcript grows under the replay, which is then given up.            *)
LEMMA GrowKeeps ==
  ASSUME CopyInv, NEW r \in InputRows, GrowDuringReplay(r)
  PROVE  CopyInv' /\ CopyFlight
<1> DEFINE next == EnterStored(Progress)
<1>1. /\ r = Progress.source /\ Progress.phase = "sources" /\ flight = Nothing /\ flight' = flight
      /\ raw' = Changed(r, "intact") /\ target' = [target EXCEPT !.progress = next]
  BY DEF GrowDuringReplay, SaveNow
<1>2. /\ ProgressIsSound(next) /\ Behind(next) = Behind(Progress)
      /\ StandsBehind(target.rows, Progress)
  BY <1>1, AtTheCursor
<1>3. StandsBehind(target.rows, next)
  BY <1>2 DEF StandsBehind
<1> HIDE DEF next
<1>4. TargetIsSound(target', raw)
  BY <1>1, <1>2, <1>3, PutProgress DEF CopyInv
<1>5. raw' \in RawTypes /\ TargetIsSound(target', raw')
  BY <1>1, <1>4, ChangeKeeps
<1>6. QED
  BY <1>1, <1>5 DEF CopyInv, CopyFlight, SaveIsSound, Nothing

(* The second write of a batch.                                            *)
LEMMA SaveKeeps ==
  ASSUME CopyInv, SaveMigration
  PROVE  CopyInv' /\ CopyFlight /\ Progress'.phase = "sources"
<1>1. /\ flight.do = "save" /\ target' = [target EXCEPT !.progress = flight.progress]
      /\ flight' = Nothing /\ raw' = raw
  BY DEF SaveMigration
<1>2. /\ ProgressIsSound(flight.progress) /\ StandsBehind(target.rows, flight.progress)
      /\ flight.progress.phase = "sources"
  BY <1>1 DEF CopyInv, SaveIsSound
<1>3. TargetIsSound(target', raw) /\ target'.progress = flight.progress
  BY <1>1, <1>2, PutProgress DEF CopyInv
<1>4. QED
  BY <1>1, <1>2, <1>3 DEF CopyInv, CopyFlight, SaveIsSound, Nothing, Progress

(* The control rows are copied first.                                      *)
LEMMA ControlKeeps ==
  ASSUME CopyInv, CopyControl
  PROVE  CopyInv' /\ CopyFlight
<1> DEFINE next == [Progress EXCEPT !.phase = "sources"]
<1>1. /\ flight = Nothing /\ raw' = raw /\ SaveNow(next)
  BY DEF CopyControl, Quiet
<1>2. ProgressIsSound(Progress) /\ StandsBehind(target.rows, Progress)
  BY DEF CopyInv, TargetIsSound, Progress
<1>3. /\ Progress \in ProgressTypes
      /\ Progress.backPhase \in {"none", "sources", "verify", "search", "ready"}
  BY <1>2 DEF ProgressIsSound, ProgressTypes
<1>4. next = InPhase(Progress, "sources", Progress.backPhase)
  BY <1>3 DEF ProgressTypes, InPhase
<1> HIDE DEF next
<1>5. ProgressIsSound(next) /\ Behind(next) = Behind(Progress)
  BY <1>2, <1>3, <1>4, PhaseSound
<1>6. StandsBehind(target.rows, next)
  BY <1>2, <1>5 DEF StandsBehind
<1>7. QED
  BY <1>1, <1>5, <1>6, SaveStep

(* A repair, from the end of the copy, the comparison or a sealed shadow.  *)
LEMMA RepairIsSound ==
  ASSUME CopyInv, MayRepair, Progress.source > LastRow, Progress.phase # "control"
  PROVE  /\ ProgressIsSound(Repair) /\ Repair.phase = "sources"
         /\ StandsBehind(target.rows, Repair)
<1>1. ProgressIsSound(Progress) /\ Progress.back = 0 /\ ~SourcesValid
  BY DEF CopyInv, TargetIsSound, Progress, MayRepair
<1>2. Invalidated \in InputRows
  <2>1. InputRows \subseteq Nat
    BY RowNumbers
  <2>2. Absent \in SUBSET Nat /\ Stale \in SUBSET Nat /\ Absent \subseteq InputRows /\ Stale \subseteq InputRows
    BY <2>1 DEF Absent, Stale, Relying
  <2>3. CASE Absent # {}
    BY <2>2, <2>3, MinIsLeast DEF Invalidated
  <2>4. CASE Absent = {}
    BY <1>1, <2>2, <2>4, MinIsLeast DEF Invalidated, SourcesValid
  <2>5. QED
    BY <2>3, <2>4
<1> DEFINE was == IF Progress.backPhase = "none" THEN Progress.phase ELSE Progress.backPhase
<1>3. Progress \in ProgressTypes /\ was \in {"sources", "verify", "search", "ready"}
  BY <1>1 DEF ProgressIsSound, ProgressTypes
<1>4. Repair = BackAt(Progress, Invalidated, was)
  BY <1>3 DEF Repair, ProgressTypes, BackAt
<1> HIDE DEF was
<1>5. /\ ProgressIsSound(Repair) /\ Repair.phase = "sources"
      /\ Behind(Repair) = InputRows \ {Invalidated}
  BY <1>1, <1>2, <1>3, <1>4, RepairSound
<1>6. \A q \in InputRows : Finished(q, target.rows[q])
  BY AllFinished DEF CopyInv, Progress
<1>7. QED
  BY <1>5, <1>6 DEF StandsBehind

(* A shadow becomes ready only with every row finished.                    *)
LEMMA ReadyStep ==
  ASSUME CopyInv, raw' = raw, Progress.source > LastRow, SaveReady(Progress)
  PROVE  CopyInv' /\ CopyFlight
<1> DEFINE next == [Progress EXCEPT !.phase = "ready", !.backPhase = "none"]
<1>1. target' = [target EXCEPT !.progress = next] /\ flight' = [do |-> "seal"]
  BY DEF SaveReady
<1>2. ProgressIsSound(Progress) /\ StandsBehind(target.rows, Progress)
  BY DEF CopyInv, TargetIsSound, Progress
<1>q. next = InPhase(Progress, "ready", "none")
  BY DEF InPhase
<1> HIDE DEF next
<1>3. ProgressIsSound(next) /\ next.phase = "ready" /\ Behind(next) = Behind(Progress)
  BY <1>2, <1>q, PhaseSound
<1>4. StandsBehind(target.rows, next)
  BY <1>2, <1>3 DEF StandsBehind
<1>5. TargetIsSound(target', raw) /\ target'.progress = next
  BY <1>1, <1>3, <1>4, PutProgress DEF CopyInv
<1>6. QED
  BY <1>1, <1>3, <1>5 DEF CopyInv, CopyFlight, SaveIsSound, Progress

(* After the last row: repair, compare again, or seal.                     *)
LEMMA EndKeeps ==
  ASSUME CopyInv, RepairCopied \/ FinishCopy \/ VerifyDual \/ VerifySearch
  PROVE  CopyInv' /\ CopyFlight
<1>0. /\ flight = Nothing /\ raw' = raw /\ Progress.phase # "control"
      /\ Progress.phase # "ready" /\ Progress.source > LastRow
      /\ ProgressIsSound(Progress) /\ StandsBehind(target.rows, Progress)
  BY DEF CopyInv, TargetIsSound, ProgressIsSound, Progress, RepairCopied, FinishCopy, VerifyDual,
     VerifySearch, RowsDone, Copying, Quiet
<1>1. CASE MayRepair /\ SaveNow(Repair)
  BY <1>0, <1>1, RepairIsSound, SaveStep
<1>2. CASE SaveReady(Progress)
  BY <1>0, <1>2, ReadyStep
<1>3. ASSUME NEW to \in {"verify", "search"},
             SaveNow([Progress EXCEPT !.phase = to, !.backPhase = "none"])
      PROVE  CopyInv' /\ CopyFlight
  <2> DEFINE next == [Progress EXCEPT !.phase = to, !.backPhase = "none"]
  <2>q. next = InPhase(Progress, to, "none")
    BY DEF InPhase
  <2>2. SaveNow(next)
    BY <1>3
  <2> HIDE DEF next
  <2>1. ProgressIsSound(next) /\ Behind(next) = Behind(Progress)
    BY <1>0, <2>q, PhaseSound
  <2>3. StandsBehind(target.rows, next)
    BY <1>0, <2>1 DEF StandsBehind
  <2>4. QED
    BY <1>0, <2>1, <2>2, <2>3, SaveStep
<1>4. CASE FinishCopy /\ inputKind # "facts"
  <2> DEFINE to == IF Progress.phase = "sources" /\ Progress.backPhase \in {"ready", "search"}
                   THEN "search" ELSE "verify"
  <2>1. SaveNow([Progress EXCEPT !.phase = to, !.backPhase = "none"])
    <3>1. Progress \in ProgressTypes
      BY <1>0 DEF ProgressIsSound
    <3>2. [Progress EXCEPT !.phase = IF @ = "sources" /\ Progress.backPhase \in {"ready", "search"}
                                     THEN "search" ELSE "verify", !.backPhase = "none"]
            = [Progress EXCEPT !.phase = to, !.backPhase = "none"]
      BY <3>1 DEF ProgressTypes
    <3>3. QED
      BY <1>4, <3>2 DEF FinishCopy
  <2>2. to \in {"verify", "search"}
    OBVIOUS
  <2> HIDE DEF to
  <2>3. QED
    BY <1>3, <2>1, <2>2
<1>5. CASE VerifyDual
  <2> DEFINE next == [Progress EXCEPT !.phase = "search"]
  <2>1. SaveNow(next)
    BY <1>5 DEF VerifyDual
  <2>2. /\ Progress \in ProgressTypes
        /\ Progress.backPhase \in {"none", "sources", "verify", "search", "ready"}
    BY <1>0 DEF ProgressIsSound, ProgressTypes
  <2>3. next = InPhase(Progress, "search", Progress.backPhase)
    BY <2>2 DEF ProgressTypes, InPhase
  <2> HIDE DEF next
  <2>4. ProgressIsSound(next) /\ Behind(next) = Behind(Progress)
    BY <1>0, <2>2, <2>3, PhaseSound
  <2>5. StandsBehind(target.rows, next)
    BY <1>0, <2>4 DEF StandsBehind
  <2>6. QED
    BY <1>0, <2>1, <2>4, <2>5, SaveStep
<1>6. QED
  BY <1>1, <1>2, <1>4, <1>5 DEF RepairCopied, FinishCopy, VerifySearch

(* A shadow that is ready but not sealed starts over.                      *)
LEMMA RestartKeeps ==
  ASSUME CopyInv, RestartUnsealed
  PROVE  CopyInv' /\ CopyFlight
<1> DEFINE next == [Unstarted EXCEPT !.back = Progress.back, !.backPhase = Progress.backPhase]
<1>1. /\ flight = Nothing /\ raw' = raw /\ Progress.phase = "ready" /\ SaveNow(next)
  BY DEF RestartUnsealed, Quiet
<1>2. Progress.back = 0 /\ Progress \in ProgressTypes
  BY <1>1, AllFinished DEF CopyInv, TargetIsSound, ProgressIsSound, Progress
<1>3. Progress.backPhase \in {"none", "sources", "verify", "search", "ready"}
  BY <1>2 DEF ProgressTypes
<1>4. next = InPhase(Unstarted, "control", Progress.backPhase)
  <2>1. /\ Unstarted \in ProgressTypes /\ Unstarted.back = Progress.back
        /\ Unstarted.phase = "control"
    BY <1>2, UnstartedSound DEF ProgressIsSound
  <2>2. QED
    BY <2>1 DEF ProgressTypes, InPhase
<1> HIDE DEF next
<1>5. ProgressIsSound(next) /\ Behind(next) = {}
  BY <1>3, <1>4, UnstartedSound, PhaseSound
<1>6. StandsBehind(target.rows, next)
  BY <1>5 DEF StandsBehind
<1>7. QED
  BY <1>1, <1>5, <1>6, SaveStep

(***************************************************************************)
(* The cutover.                                                            *)
(***************************************************************************)

Originals == {"source-legacy", "search.sqlite", "index.bbolt"}

FileTypes == [index : {"old", "none", "new"}, shadow : BOOLEAN, kept : SUBSET Originals]

SealTypes(s) ==
  \/ s = NoSeal
  \/ s \in [sealed : {TRUE}, of : {s.of}, retiring : Originals \cup {"none"},
            retired : SUBSET Originals]

Removing(f) == f.do \in {"remove", "retired"}

FlightTypes(f) ==
  /\ f.do \in {"nothing", "save", "seal", "unseal", "publish", "restore", "remove", "retired"}
  /\ Removing(f) => f \in [do : {f.do}, name : Originals]

(* What is under the name of the index, and what the call may be doing.    *)
PlacesInv ==
  /\ files \in FileTypes /\ SealTypes(seal) /\ FlightTypes(flight)
  /\ inputKind \in {"facts", "dual"}
  /\ seal.sealed => seal.of.progress.phase = "ready"
  /\ flight.do = "seal" => Progress.phase = "ready"
  /\ files.index = "new" => /\ ~files.shadow
                            /\ Progress.phase = "ready"
                            /\ flight.do \in {"nothing", "remove", "retired"}
  /\ Removing(flight) => files.index = "new" /\ seal.sealed /\ flight.name = seal.retiring
  /\ flight.do \in {"publish", "restore"} => files.index = "none" /\ inputKind = "facts"

(* One original file: it is the index or is kept beside a sealed store.    *)
FactsFiles ==
  inputKind = "facts" =>
    /\ files.kept \subseteq {"source-legacy"}
    /\ files.index = "old" => files.kept = {}
    /\ files.index = "none" => files.kept = {"source-legacy"}
    /\ files.kept # {} =>
         SealFits(target) /\ flight.do \in {"nothing", "publish", "restore", "remove", "retired"}

(* Two original files: index.bbolt stays until the new store is in place,  *)
(* and if it is gone the seal says so; search.sqlite is retired before it. *)
DualFiles ==
  inputKind = "dual" =>
    /\ files.kept \subseteq {"index.bbolt", "search.sqlite"}
    /\ files.index # "old"
    /\ files.index = "none" => "index.bbolt" \in files.kept
    /\ seal.sealed =>
         /\ "index.bbolt" \notin files.kept
              => seal.retiring = "index.bbolt" \/ "index.bbolt" \in seal.retired
         /\ seal.retiring = "index.bbolt" \/ "index.bbolt" \in seal.retired
              => "search.sqlite" \in seal.retired

CutoverInv == PlacesInv /\ FactsFiles /\ DualFiles

MigrationInv == CopyInv /\ CutoverInv

(* While the shadow is worked on it is not the index, and the one original *)
(* file still is.                                                          *)
OriginalInPlace ==
  files.index # "new" /\ (inputKind = "facts" => files.index = "old" /\ files.kept = {})

LEMMA CopyingInPlace ==
  ASSUME CutoverInv,
         \/ flight.do \in {"save", "seal", "unseal"}
         \/ Progress.phase # "ready"
         \/ ~seal.sealed /\ files.shadow
  PROVE  OriginalInPlace
<1>1. files.index # "new"
  BY DEF CutoverInv, PlacesInv
<1>2. ASSUME inputKind = "facts" PROVE files.kept = {}
  <2>1. SUFFICES ASSUME files.kept # {} PROVE FALSE
    OBVIOUS
  <2>2. SealFits(target) /\ flight.do \notin {"save", "seal", "unseal"}
    BY <1>2, <2>1 DEF CutoverInv, FactsFiles
  <2>3. seal.sealed /\ Progress.phase = "ready"
    BY <2>2 DEF SealFits, Progress, CutoverInv, PlacesInv
  <2>4. QED
    BY <2>2, <2>3
<1>3. ASSUME inputKind = "facts" PROVE files.index = "old"
  <2>1. files.kept = {} /\ files.index \in {"old", "none", "new"}
    BY <1>2, <1>3 DEF CutoverInv, PlacesInv, FileTypes
  <2>2. QED
    BY <1>1, <1>3, <2>1 DEF CutoverInv, FactsFiles
<1>4. QED
  BY <1>1, <1>2, <1>3 DEF OriginalInPlace

(* Work on the shadow changes neither the files nor the seal.              *)
LEMMA ShadowWorkKeeps ==
  ASSUME CutoverInv, OriginalInPlace, UNCHANGED <<inputKind, files, seal>>,
         flight'.do \in {"nothing", "save", "seal", "unseal"},
         flight'.do = "seal" => Progress'.phase = "ready"
  PROVE  CutoverInv'
<1>1. PlacesInv'
  BY DEF CutoverInv, PlacesInv, OriginalInPlace, FlightTypes, Removing
<1>2. FactsFiles'
  BY DEF CutoverInv, FactsFiles, OriginalInPlace
<1>3. DualFiles'
  BY DEF CutoverInv, DualFiles
<1>4. QED
  BY <1>1, <1>2, <1>3 DEF CutoverInv

(* A step of the copy.                                                     *)
LEMMA CopyStepKeeps ==
  ASSUME MigrationInv, CopyStep
  PROVE  MigrationInv'
<1>1. /\ UNCHANGED <<inputKind, files, seal>>
      /\ flight.do = "save" \/ Progress.phase # "ready"
  BY DEF CopyStep, CopyControl, ClearRow, StoreFact, FinishStored, ReplayChunk, CompleteRow,
     MayReplay, ReplayRefused, RepairCopied, FinishCopy, RowsDone, Copying, VerifyDual,
     VerifySearch, SaveMigration, Quiet
<1>2. CopyInv' /\ CopyFlight
  <2>1. CASE CopyControl
    BY <2>1, ControlKeeps DEF MigrationInv
  <2>2. ASSUME NEW r \in InputRows,
               \/ ClearRow(r) \/ StoreFact(r) \/ FinishStored(r)
               \/ ReplayChunk(r) \/ CompleteRow(r) \/ ReplayRefused(r)
        PROVE  CopyInv' /\ CopyFlight
    BY <2>2, ClearKeeps, StoreKeeps, FinishStoredKeeps, ReplayKeeps, CompleteKeeps, RefusedKeeps
       DEF MigrationInv
  <2>3. CASE RepairCopied \/ FinishCopy \/ VerifyDual \/ VerifySearch
    BY <2>3, EndKeeps DEF MigrationInv
  <2>4. CASE SaveMigration
    BY <2>4, SaveKeeps DEF MigrationInv
  <2>5. QED
    BY <2>1, <2>2, <2>3, <2>4 DEF CopyStep
<1>3. OriginalInPlace
  BY <1>1, CopyingInPlace DEF MigrationInv
<1>4. CutoverInv'
  BY <1>1, <1>2, <1>3, ShadowWorkKeeps DEF MigrationInv, CopyFlight
<1>5. QED
  BY <1>2, <1>4 DEF MigrationInv

(* A transcript changes, by itself or under a replay; the call stops.      *)
LEMMA OutsideKeeps ==
  ASSUME MigrationInv,
         \/ \E r \in InputRows : ChangeTranscript(r) \/ GrowDuringReplay(r)
         \/ StopMigration
  PROVE  MigrationInv'
<1>1. ASSUME NEW r \in InputRows, ChangeTranscript(r) PROVE MigrationInv'
  <2>1. CopyInv'
    BY <1>1, TranscriptKeeps DEF MigrationInv
  <2>2. UNCHANGED <<inputKind, files, target, seal, flight>>
    BY <1>1 DEF ChangeTranscript
  <2>3. CutoverInv'
    BY <2>2 DEF MigrationInv, CutoverInv, PlacesInv, FactsFiles, DualFiles, Progress, SealFits
  <2>4. QED
    BY <2>1, <2>3 DEF MigrationInv
<1>2. ASSUME NEW r \in InputRows, GrowDuringReplay(r) PROVE MigrationInv'
  <2>1. CopyInv' /\ CopyFlight
    BY <1>2, GrowKeeps DEF MigrationInv
  <2>2. UNCHANGED <<inputKind, files, seal>> /\ Progress.phase # "ready"
    BY <1>2 DEF GrowDuringReplay
  <2>3. CutoverInv'
    BY <2>1, <2>2, CopyingInPlace, ShadowWorkKeeps DEF MigrationInv, CopyFlight
  <2>4. QED
    BY <2>1, <2>3 DEF MigrationInv
<1>3. CASE StopMigration
  <2>1. flight'.do = "nothing" /\ UNCHANGED <<inputKind, raw, files, target, seal>>
    BY <1>3 DEF StopMigration, Nothing
  <2>2. CopyInv'
    BY <2>1 DEF MigrationInv, CopyInv, SaveIsSound
  <2>3. PlacesInv'
    BY <2>1 DEF MigrationInv, CutoverInv, PlacesInv, FlightTypes, Removing, Progress
  <2>4. FactsFiles' /\ DualFiles'
    BY <2>1 DEF MigrationInv, CutoverInv, FactsFiles, DualFiles, SealFits
  <2>5. QED
    BY <2>2, <2>3, <2>4 DEF MigrationInv, CutoverInv
<1>4. QED
  BY <1>1, <1>2, <1>3

(* The cutover steps that leave the new store as it is.                    *)
LEMMA StoreUntouched ==
  ASSUME CopyInv, UNCHANGED <<raw, target>>, flight'.do # "save"
  PROVE  CopyInv'
  BY DEF CopyInv, SaveIsSound

(* A seal that is there has all its fields.                                *)
LEMMA SealFields ==
  ASSUME SealTypes(seal), seal.sealed
  PROVE  seal \in [sealed : {TRUE}, of : {seal.of}, retiring : Originals \cup {"none"},
                   retired : SUBSET Originals]
<1>1. seal # NoSeal
  BY DEF NoSeal
<1>2. QED
  BY <1>1 DEF SealTypes

(* The finished shadow is bound to its contents.                           *)
LEMMA WriteSealKeeps ==
  ASSUME MigrationInv, WriteSeal
  PROVE  MigrationInv'
<1> DEFINE gone == IF inputKind = "dual" /\ seal.sealed THEN seal.retired ELSE {}
<1>1. /\ flight.do = "seal" /\ flight'.do = "nothing"
      /\ seal' = [sealed |-> TRUE, of |-> target, retiring |-> "none", retired |-> gone]
      /\ UNCHANGED <<inputKind, raw, files, target>>
  BY DEF WriteSeal, Nothing
<1>2. gone \in SUBSET Originals /\ (gone # {} => seal.sealed /\ gone = seal.retired)
  <2>1. SealTypes(seal)
    BY DEF MigrationInv, CutoverInv, PlacesInv
  <2>2. ASSUME seal.sealed PROVE seal.retired \in SUBSET Originals
    BY <2>1, <2>2, SealFields
  <2>3. CASE inputKind = "dual" /\ seal.sealed
    BY <2>2, <2>3
  <2>4. CASE ~ (inputKind = "dual" /\ seal.sealed)
    BY <2>4
  <2>5. QED
    BY <2>3, <2>4
<1> HIDE DEF gone
<1>3. /\ SealTypes(seal') /\ seal'.sealed /\ seal'.of = target
      /\ seal'.retiring = "none" /\ seal'.retired = gone
  BY <1>1, <1>2 DEF SealTypes, Originals
<1>4. OriginalInPlace
  BY <1>1, CopyingInPlace DEF MigrationInv
<1>5. PlacesInv'
  BY <1>1, <1>3, <1>4
     DEF MigrationInv, CutoverInv, PlacesInv, FlightTypes, Removing, OriginalInPlace, Progress
<1>6. FactsFiles'
  BY <1>1, <1>4 DEF MigrationInv, CutoverInv, FactsFiles, OriginalInPlace
<1>7. DualFiles'
  <2>1. inputKind = "dual" => "index.bbolt" \in files.kept
    BY <1>4 DEF MigrationInv, CutoverInv, PlacesInv, FileTypes, DualFiles, OriginalInPlace
  <2>2. QED
    BY <1>1, <1>2, <1>3, <2>1 DEF MigrationInv, CutoverInv, DualFiles
<1>8. QED
  BY <1>1, <1>5, <1>6, <1>7, StoreUntouched DEF MigrationInv, CutoverInv

(* No seal, or a repair under it: back to the copy.                        *)
LEMMA BackToCopyKeeps ==
  ASSUME MigrationInv, RestartUnsealed \/ RepairSealed
  PROVE  MigrationInv'
<1>1. CASE RestartUnsealed
  <2>1. UNCHANGED <<inputKind, files, seal>> /\ ~seal.sealed /\ files.shadow
    BY <1>1 DEF RestartUnsealed, Quiet
  <2>2. CopyInv' /\ CopyFlight
    BY <1>1, RestartKeeps DEF MigrationInv
  <2>3. QED
    BY <2>1, <2>2, CopyingInPlace, ShadowWorkKeeps DEF MigrationInv, CopyFlight
<1>2. CASE RepairSealed
  <2>1. /\ UNCHANGED <<inputKind, raw, files, seal>> /\ files.shadow
        /\ Progress.phase = "ready" /\ MayRepair /\ seal.sealed
        /\ inputKind = "facts" => files.index = "old"
        /\ target' = [target EXCEPT !.progress = Repair]
        /\ flight'.do \in {"nothing", "unseal"}
    BY <1>2 DEF RepairSealed, Installable, Quiet, Nothing, SealFits
  <2>2. CopyInv /\ Progress.source > LastRow
    BY <2>1 DEF MigrationInv, CopyInv, TargetIsSound, ProgressIsSound, Progress
  <2>3. ProgressIsSound(Repair) /\ StandsBehind(target.rows, Repair)
    BY <2>1, <2>2, RepairIsSound
  <2>4. TargetIsSound(target', raw)
    BY <2>1, <2>2, <2>3, PutProgress DEF CopyInv
  <2>5. CopyInv'
    BY <2>1, <2>2, <2>4 DEF CopyInv, SaveIsSound
  <2>6. OriginalInPlace
    BY <2>1 DEF MigrationInv, CutoverInv, PlacesInv, FactsFiles, OriginalInPlace
  <2>7. QED
    BY <2>1, <2>5, <2>6, ShadowWorkKeeps DEF MigrationInv
<1>3. QED
  BY <1>1, <1>2

(* The seal of a shadow that is being repaired goes.                       *)
LEMMA DropSealKeeps ==
  ASSUME MigrationInv, DropSeal
  PROVE  MigrationInv'
<1>1. /\ flight.do = "unseal" /\ flight'.do = "nothing" /\ seal' = NoSeal
      /\ UNCHANGED <<inputKind, raw, files, target>>
  BY DEF DropSeal, Nothing
<1>2. OriginalInPlace /\ ~seal'.sealed
  BY <1>1, CopyingInPlace DEF MigrationInv, NoSeal
<1>3. PlacesInv'
  BY <1>1, <1>2
     DEF MigrationInv, CutoverInv, PlacesInv, FlightTypes, SealTypes, Removing, OriginalInPlace
<1>4. FactsFiles' /\ DualFiles'
  BY <1>1, <1>2 DEF MigrationInv, CutoverInv, FactsFiles, DualFiles, OriginalInPlace
<1>5. QED
  BY <1>1, <1>3, <1>4, StoreUntouched DEF MigrationInv, CutoverInv

(* The shadow is moved into the place of the original.                     *)
LEMMA InstallKeeps ==
  ASSUME MigrationInv, Install
  PROVE  MigrationInv'
<1>1. /\ UNCHANGED <<inputKind, raw, target, seal>> /\ flight.do = "nothing" /\ files.shadow
      /\ Progress.phase = "ready" /\ SealFits(target) /\ "source-legacy" \notin files.kept
      /\ files.index # "new"
  BY DEF Install, Installable, Quiet, Nothing
<1>2. SealTypes(seal) /\ FlightTypes(flight) /\ files \in FileTypes
  BY DEF MigrationInv, CutoverInv, PlacesInv
<1>3. CASE inputKind = "facts"
  <2>1. /\ files' = [files EXCEPT !.index = "none", !.kept = {"source-legacy"}]
        /\ flight' = [do |-> "publish"]
    BY <1>3 DEF Install
  <2>2. /\ files' \in FileTypes /\ files'.index = "none" /\ files'.kept = {"source-legacy"}
        /\ flight'.do = "publish"
    BY <1>2, <2>1 DEF FileTypes, Originals
  <2>3. PlacesInv'
    BY <1>1, <1>2, <1>3, <2>2
       DEF MigrationInv, CutoverInv, PlacesInv, FlightTypes, Removing, Progress
  <2>4. FactsFiles' /\ DualFiles'
    BY <1>1, <1>3, <2>2 DEF FactsFiles, DualFiles, SealFits
  <2>5. QED
    BY <1>1, <2>2, <2>3, <2>4, StoreUntouched DEF MigrationInv, CutoverInv
<1>4. CASE inputKind # "facts"
  <2>1. files' = [files EXCEPT !.index = "new", !.shadow = FALSE] /\ flight' = flight
    BY <1>4 DEF Install
  <2>2. /\ files' \in FileTypes /\ files'.index = "new" /\ ~files'.shadow
        /\ files'.kept = files.kept
    BY <1>2, <2>1 DEF FileTypes
  <2>3. PlacesInv'
    BY <1>1, <1>2, <2>1, <2>2
       DEF MigrationInv, CutoverInv, PlacesInv, FlightTypes, Removing, Progress
  <2>4. FactsFiles' /\ DualFiles'
    BY <1>1, <1>4, <2>1, <2>2 DEF MigrationInv, CutoverInv, FactsFiles, DualFiles
  <2>5. QED
    BY <1>1, <2>1, <2>3, <2>4, StoreUntouched DEF MigrationInv, CutoverInv
<1>5. QED
  BY <1>3, <1>4

(* The second rename, also at a later start.                               *)
LEMMA PublishKeeps ==
  ASSUME MigrationInv, PublishShadow
  PROVE  MigrationInv'
<1>1. /\ UNCHANGED <<inputKind, raw, target, seal>> /\ "source-legacy" \in files.kept
      /\ files' = [files EXCEPT !.index = "new", !.shadow = FALSE]
      /\ flight'.do = "nothing"
  BY DEF PublishShadow, Nothing
<1>2. SealTypes(seal) /\ files \in FileTypes /\ inputKind = "facts"
  BY <1>1 DEF MigrationInv, CutoverInv, PlacesInv, DualFiles
<1>3. SealFits(target)
  BY <1>1, <1>2 DEF MigrationInv, CutoverInv, FactsFiles
<1>4. Progress.phase = "ready"
  BY <1>3 DEF SealFits, MigrationInv, CutoverInv, PlacesInv, Progress
<1>5. /\ files' \in FileTypes /\ files'.index = "new" /\ ~files'.shadow
      /\ files'.kept = files.kept
  BY <1>1, <1>2 DEF FileTypes
<1>6. PlacesInv'
  BY <1>1, <1>2, <1>4, <1>5
     DEF MigrationInv, CutoverInv, PlacesInv, FlightTypes, Removing, Progress
<1>7. FactsFiles' /\ DualFiles'
  BY <1>1, <1>2, <1>3, <1>5 DEF MigrationInv, CutoverInv, FactsFiles, DualFiles, SealFits
<1>8. QED
  BY <1>1, <1>6, <1>7, StoreUntouched DEF MigrationInv, CutoverInv

(* The new store is the index and its seal fits.                           *)
LEMMA FinishableFacts ==
  ASSUME MigrationInv, Finishable
  PROVE  /\ UNCHANGED <<inputKind, raw>> /\ flight.do = "nothing" /\ files.index = "new"
         /\ SealFits(target) /\ seal.sealed /\ Progress.phase = "ready" /\ files \in FileTypes
         /\ seal \in [sealed : {TRUE}, of : {seal.of}, retiring : Originals \cup {"none"},
                      retired : SUBSET Originals]
<1>1. /\ UNCHANGED <<inputKind, raw>> /\ flight.do = "nothing" /\ files.index = "new"
      /\ SealFits(target) /\ seal.sealed
  BY DEF Finishable, Quiet, Nothing, SealFits
<1>2. Progress.phase = "ready" /\ files \in FileTypes /\ SealTypes(seal)
  BY <1>1 DEF MigrationInv, CutoverInv, PlacesInv
<1>3. QED
  BY <1>1, <1>2, SealFields

(* The intent to retire an original.                                       *)
LEMMA IntendKeeps ==
  ASSUME MigrationInv, NEW name \in Originals, IntendRetirement(name)
  PROVE  MigrationInv'
<1>1. /\ Finishable /\ ToRetire(name)
      /\ inputKind = "facts" => name \in files.kept
      /\ seal' = [seal EXCEPT !.retiring = name]
      /\ flight' = [do |-> "remove", name |-> name]
      /\ UNCHANGED <<files, target>>
  BY DEF IntendRetirement
<1>2. /\ UNCHANGED <<inputKind, raw>> /\ files.index = "new" /\ SealFits(target) /\ seal.sealed
      /\ Progress.phase = "ready" /\ files \in FileTypes
      /\ seal \in [sealed : {TRUE}, of : {seal.of}, retiring : Originals \cup {"none"},
                   retired : SUBSET Originals]
  BY <1>1, FinishableFacts
<1>3. /\ SealTypes(seal') /\ seal'.sealed /\ seal'.of = seal.of
      /\ seal'.retiring = name /\ seal'.retired = seal.retired
  BY <1>1, <1>2 DEF SealTypes
<1>4. FlightTypes(flight') /\ flight'.do = "remove" /\ flight'.name = name
  BY <1>1 DEF FlightTypes, Removing
<1>5. PlacesInv'
  BY <1>1, <1>2, <1>3, <1>4 DEF MigrationInv, CutoverInv, PlacesInv, Removing, Progress
<1>6. FactsFiles'
  BY <1>1, <1>2, <1>3, <1>4 DEF MigrationInv, CutoverInv, FactsFiles, SealFits
<1>7. DualFiles'
  BY <1>1, <1>2, <1>3 DEF MigrationInv, CutoverInv, DualFiles, ToRetire, RetireOrder, Originals
<1>8. QED
  BY <1>1, <1>2, <1>4, <1>5, <1>6, <1>7, StoreUntouched DEF MigrationInv, CutoverInv

(* The original is removed, and then recorded as retired.                  *)
LEMMA RemovalKeeps ==
  ASSUME MigrationInv, RemoveOriginal \/ RecordRetired
  PROVE  MigrationInv'
<1>1. /\ UNCHANGED <<inputKind, raw, target>>
      /\ flight.do \in {"remove", "retired"} /\ Removing(flight)
  BY DEF RemoveOriginal, RecordRetired, Removing
<1>2. /\ files.index = "new" /\ ~files.shadow /\ seal.sealed /\ flight.name = seal.retiring
      /\ flight \in [do : {flight.do}, name : Originals] /\ Progress.phase = "ready"
      /\ files \in FileTypes /\ SealTypes(seal)
  BY <1>1 DEF MigrationInv, CutoverInv, PlacesInv, FlightTypes
<1>3. seal \in [sealed : {TRUE}, of : {seal.of}, retiring : Originals \cup {"none"},
                retired : SUBSET Originals]
  BY <1>2, SealFields
<1>4. CASE RemoveOriginal
  <2>1. /\ files' = [files EXCEPT !.kept = @ \ {flight.name}] /\ seal' = seal
        /\ flight' = [flight EXCEPT !.do = "retired"]
    BY <1>4 DEF RemoveOriginal
  <2>2. /\ files' \in FileTypes /\ files'.index = "new" /\ files'.shadow = files.shadow
        /\ files'.kept = files.kept \ {seal.retiring}
    BY <1>2, <2>1 DEF FileTypes
  <2>3. FlightTypes(flight') /\ flight'.do = "retired" /\ flight'.name = flight.name
    BY <1>2, <2>1 DEF FlightTypes, Removing
  <2>4. PlacesInv'
    BY <1>1, <1>2, <2>1, <2>2, <2>3 DEF MigrationInv, CutoverInv, PlacesInv, Removing, Progress
  <2>5. FactsFiles' /\ DualFiles'
    BY <1>1, <2>1, <2>2, <2>3 DEF MigrationInv, CutoverInv, FactsFiles, DualFiles, SealFits
  <2>6. QED
    BY <1>1, <2>3, <2>4, <2>5, StoreUntouched DEF MigrationInv, CutoverInv
<1>5. CASE RecordRetired
  <2>1. /\ seal' = [seal EXCEPT !.retiring = "none", !.retired = @ \cup {flight.name}]
        /\ flight'.do = "nothing" /\ files' = files
    BY <1>5 DEF RecordRetired, Nothing
  <2>2. /\ SealTypes(seal') /\ seal'.sealed /\ seal'.of = seal.of
        /\ seal'.retired = seal.retired \cup {seal.retiring} /\ seal'.retiring = "none"
    BY <1>2, <1>3, <2>1 DEF SealTypes
  <2>3. PlacesInv'
    BY <1>1, <1>2, <2>1, <2>2
       DEF MigrationInv, CutoverInv, PlacesInv, FlightTypes, Removing, Progress
  <2>4. FactsFiles' /\ DualFiles'
    BY <1>1, <1>2, <2>1, <2>2 DEF MigrationInv, CutoverInv, FactsFiles, DualFiles, SealFits
  <2>5. QED
    BY <1>1, <2>1, <2>3, <2>4, StoreUntouched DEF MigrationInv, CutoverInv
<1>6. QED
  BY <1>4, <1>5

(* The seal of a finished migration goes.                                  *)
LEMMA RemoveSealKeeps ==
  ASSUME MigrationInv, RemoveSeal
  PROVE  MigrationInv'
<1>1. /\ Finishable /\ seal' = NoSeal /\ UNCHANGED <<files, target, flight>>
      /\ inputKind = "facts" => files.kept = {}
  BY DEF RemoveSeal
<1>2. UNCHANGED <<inputKind, raw>> /\ flight.do = "nothing" /\ ~seal'.sealed
  BY <1>1, FinishableFacts DEF NoSeal
<1>3. PlacesInv'
  BY <1>1, <1>2 DEF MigrationInv, CutoverInv, PlacesInv, SealTypes, Removing, Progress
<1>4. FactsFiles' /\ DualFiles'
  BY <1>1, <1>2 DEF MigrationInv, CutoverInv, FactsFiles, DualFiles
<1>5. QED
  BY <1>1, <1>2, <1>3, <1>4, StoreUntouched DEF MigrationInv, CutoverInv

(* The published store goes back to the shadow; the original file returns. *)
LEMMA WithdrawKeeps ==
  ASSUME MigrationInv, Withdraw \/ RestoreOriginal
  PROVE  MigrationInv'
<1>1. CASE Withdraw
  <2>1. /\ Finishable /\ Canonical \in files.kept /\ UNCHANGED <<target, seal>>
        /\ files' = [files EXCEPT !.index = "none", !.shadow = TRUE]
        /\ flight'.do = IF inputKind = "facts" THEN "restore" ELSE "nothing"
    BY <1>1 DEF Withdraw, Nothing
  <2>2. /\ UNCHANGED <<inputKind, raw>> /\ files \in FileTypes /\ SealFits(target)
        /\ SealTypes(seal)
    BY <2>1, FinishableFacts DEF MigrationInv, CutoverInv, PlacesInv
  <2>3. files' \in FileTypes /\ files'.index = "none" /\ files'.kept = files.kept
    BY <2>1, <2>2 DEF FileTypes
  <2>4. PlacesInv'
    BY <2>1, <2>2, <2>3 DEF MigrationInv, CutoverInv, PlacesInv, FlightTypes, Removing, Progress
  <2>5. FactsFiles'
    BY <2>1, <2>2, <2>3 DEF MigrationInv, CutoverInv, FactsFiles, SealFits, Canonical
  <2>6. DualFiles'
    BY <2>1, <2>2, <2>3 DEF MigrationInv, CutoverInv, DualFiles, Canonical
  <2>7. QED
    BY <2>1, <2>2, <2>4, <2>5, <2>6, StoreUntouched DEF MigrationInv, CutoverInv
<1>2. CASE RestoreOriginal
  <2>1. /\ flight.do = "restore" /\ files' = [files EXCEPT !.index = "old", !.kept = {}]
        /\ flight'.do = "nothing" /\ UNCHANGED <<inputKind, raw, target, seal>>
    BY <1>2 DEF RestoreOriginal, Nothing
  <2>2. inputKind = "facts" /\ files \in FileTypes
    BY <2>1 DEF MigrationInv, CutoverInv, PlacesInv
  <2>3. files' \in FileTypes /\ files'.index = "old" /\ files'.kept = {}
    BY <2>1, <2>2 DEF FileTypes
  <2>4. PlacesInv'
    BY <2>1, <2>2, <2>3 DEF MigrationInv, CutoverInv, PlacesInv, FlightTypes, Removing, Progress
  <2>5. FactsFiles' /\ DualFiles'
    BY <2>1, <2>2, <2>3 DEF FactsFiles, DualFiles
  <2>6. QED
    BY <2>1, <2>4, <2>5, StoreUntouched DEF MigrationInv, CutoverInv
<1>3. QED
  BY <1>1, <1>2

(* A migration starts with nothing copied and every original in place.     *)
LEMMA MigrationStarts == MigrationInit => MigrationInv
<1> SUFFICES ASSUME MigrationInit PROVE MigrationInv
  OBVIOUS
<1>1. /\ inputKind \in {"facts", "dual"} /\ flight.do = "nothing" /\ seal = NoSeal
      /\ raw = [r \in InputRows |-> [stamp |-> 0, file |-> "intact"]]
      /\ target = [rows |-> [r \in InputRows |-> NotCopied], progress |-> Unstarted]
  BY MigrationConstants DEF MigrationConstants, MigrationInit, Nothing
<1>2. TargetIsSound(target, raw)
  <2>1. /\ target.progress = Unstarted /\ \A r \in InputRows : ~target.rows[r].copied
        /\ target.rows \in [InputRows -> RowTypes \cup {NotCopied}]
    BY <1>1 DEF NotCopied
  <2>2. Unstarted \in ProgressTypes
    BY UnstartedSound DEF ProgressIsSound
  <2>3. target \in TargetTypes
    BY <1>1, <2>1, <2>2, Zenon DEF TargetTypes
  <2>4. QED
    BY <2>1, <2>3, UnstartedSound DEF TargetIsSound, StandsBehind
<1>3. CopyInv
  BY <1>1, <1>2 DEF CopyInv, RawTypes, SaveIsSound
<1>4. CASE inputKind = "facts"
  <2>1. files = [index |-> "old", shadow |-> TRUE, kept |-> {}]
    BY <1>4 DEF MigrationInit
  <2>2. PlacesInv
    BY <1>1, <2>1 DEF PlacesInv, FileTypes, SealTypes, FlightTypes, Removing, NoSeal
  <2>3. FactsFiles /\ DualFiles
    BY <1>4, <2>1 DEF FactsFiles, DualFiles
  <2>4. QED
    BY <1>3, <2>2, <2>3 DEF MigrationInv, CutoverInv
<1>5. CASE inputKind = "dual"
  <2>1. files = [index |-> "none", shadow |-> TRUE, kept |-> {"index.bbolt", "search.sqlite"}]
    BY <1>5 DEF MigrationInit
  <2>2. PlacesInv
    BY <1>1, <2>1 DEF PlacesInv, FileTypes, SealTypes, FlightTypes, Removing, NoSeal, Originals
  <2>3. FactsFiles /\ DualFiles
    BY <1>1, <1>5, <2>1 DEF FactsFiles, DualFiles, NoSeal
  <2>4. QED
    BY <1>3, <2>2, <2>3 DEF MigrationInv, CutoverInv
<1>6. QED
  BY <1>1, <1>4, <1>5

LEMMA MigrationStepKeeps ==
  ASSUME MigrationInv, [MigrationNext]_migrationVars
  PROVE  MigrationInv'
<1>1. CASE CopyStep
  BY <1>1, CopyStepKeeps
<1>2. CASE CutoverStep
  <2>1. ASSUME NEW name \in Originals, IntendRetirement(name) PROVE MigrationInv'
    BY <2>1, IntendKeeps
  <2>2. CASE \E name \in Originals : IntendRetirement(name)
    BY <2>1, <2>2
  <2>3. QED
    BY <1>2, <2>2, WriteSealKeeps, BackToCopyKeeps, DropSealKeeps, InstallKeeps, PublishKeeps,
       RemovalKeeps, RemoveSealKeeps, WithdrawKeeps DEF CutoverStep, Originals
<1>3. CASE (\E r \in InputRows : ChangeTranscript(r) \/ GrowDuringReplay(r)) \/ StopMigration
  BY <1>3, OutsideKeeps
<1>4. CASE UNCHANGED migrationVars
  BY <1>4 DEF migrationVars, MigrationInv, CopyInv, CutoverInv, PlacesInv, FactsFiles, DualFiles,
     Progress, SealFits
<1>5. QED
  BY <1>1, <1>2, <1>3, <1>4 DEF MigrationNext

THEOREM MigrationIsSound == MigrationSpec => []MigrationInv
<1>1. MigrationInit => MigrationInv
  BY MigrationStarts
<1>2. MigrationInv /\ [MigrationNext]_migrationVars => MigrationInv'
  BY MigrationStepKeeps
<1>3. QED
  BY <1>1, <1>2, PTL DEF MigrationSpec

(***************************************************************************)
(* The results.                                                            *)
(***************************************************************************)

(* When no transcript is absent or changed since its verification, the     *)
(* rows of a ready store can be read back as they were recorded.           *)
LEMMA ValidIsReadable ==
  ASSUME MigrationInv, Progress.phase = "ready", SourcesValid, NEW r \in InputRows
  PROVE  ReadableFacts(target.rows[r]) = OldFacts[r]
<1> DEFINE row == target.rows[r]
<1>1. TargetIsSound(target, raw) /\ target.progress.source > LastRow
  BY DEF MigrationInv, CopyInv, TargetIsSound, ProgressIsSound, Progress
<1>2. Finished(r, row) /\ FactsOf(row) = OldFacts[r]
  BY <1>1, AllFinished
<1>3. RowIsSound(r, row) /\ VerifiedIntact(row, raw[r])
  BY <1>1, <1>2 DEF TargetIsSound, Finished
<1>4. ASSUME Replayed(row) PROVE raw[row.of].file = "intact"
  <2>1. row.of = r /\ row.verified # Unverified
    BY <1>2, <1>3, <1>4 DEF Finished, Replayed, RowIsSound
  <2>2. raw[r].stamp = row.verified
    BY <1>4 DEF SourcesValid, Stale, Relying
  <2>3. QED
    BY <1>3, <2>1, <2>2 DEF VerifiedIntact
<1>5. QED
  BY <1>2, <1>4 DEF ReadableFacts

(* Transcripts change, the process stops and starts, and still the removal *)
(* of the canonical original is decided on (IntendRetirement, the sync of  *)
(* the seal's retiring field) only while the new store and the transcripts *)
(* give back every one of its facts, and no other.                         *)
THEOREM RetirementIsSafe == MigrationSpec => RetiresOnlyReadable
<1> DEFINE Safe == seal'.sealed /\ seal'.retiring = Canonical /\ seal.retiring # Canonical
                     => \A r \in InputRows : ReadableFacts(target.rows[r]) = OldFacts[r]
<1>1. ASSUME MigrationInv, [MigrationNext]_migrationVars PROVE [Safe]_migrationVars
  <2>1. SUFFICES ASSUME seal'.sealed, seal'.retiring = Canonical, seal.retiring # Canonical,
                        ~ UNCHANGED migrationVars
                 PROVE  \A r \in InputRows : ReadableFacts(target.rows[r]) = OldFacts[r]
    OBVIOUS
  <2>2. Canonical \in Originals
    BY DEF Canonical, Originals
  <2>3. PICK name \in Originals : IntendRetirement(name)
    <3>1. seal' # seal
      BY <2>1
    <3>2. ~ CopyStep
      BY <3>1 DEF CopyStep, CopyControl, ClearRow, StoreFact, FinishStored, ReplayChunk,
         CompleteRow, MayReplay, ReplayRefused, RepairCopied, FinishCopy, RowsDone, Copying,
         VerifyDual, VerifySearch, SaveMigration
    <3>3. ~ (\E r \in InputRows : ChangeTranscript(r) \/ GrowDuringReplay(r)) /\ ~ StopMigration
      BY <3>1 DEF ChangeTranscript, GrowDuringReplay, StopMigration
    <3>4. CutoverStep
      BY <1>1, <2>1, <3>2, <3>3 DEF MigrationNext
    <3>5. ~ (RestartUnsealed \/ RepairSealed \/ Install \/ PublishShadow \/ RemoveOriginal
               \/ Withdraw \/ RestoreOriginal)
      BY <3>1 DEF RestartUnsealed, RepairSealed, Install, PublishShadow, RemoveOriginal,
         Withdraw, RestoreOriginal
    <3>6. ~ (DropSeal \/ RemoveSeal)
      BY <2>1 DEF DropSeal, RemoveSeal, NoSeal
    <3>7. ~ WriteSeal
      BY <2>1, <2>2 DEF WriteSeal, Originals
    <3>8. ~ RecordRetired
      <4>1. SUFFICES ASSUME RecordRetired PROVE FALSE
        OBVIOUS
      <4>2. seal.sealed /\ SealTypes(seal)
        BY <1>1, <4>1 DEF RecordRetired, MigrationInv, CutoverInv, PlacesInv, Removing
      <4>3. seal'.retiring = "none"
        BY <4>1, <4>2, SealFields DEF RecordRetired
      <4>4. QED
        BY <2>1, <2>2, <4>3 DEF Originals
    <3>9. QED
      BY <3>4, <3>5, <3>6, <3>7, <3>8 DEF CutoverStep, Originals
  <2>4. /\ Finishable /\ ToRetire(name) /\ seal' = [seal EXCEPT !.retiring = name]
        /\ inputKind = "facts" => name \in files.kept
        /\ Canonical \in files.kept => SourcesValid
    BY <2>3 DEF IntendRetirement
  <2>5. /\ seal.sealed /\ Progress.phase = "ready"
        /\ seal \in [sealed : {TRUE}, of : {seal.of}, retiring : Originals \cup {"none"},
                     retired : SUBSET Originals]
    BY <1>1, <2>4, FinishableFacts
  <2>6. name = Canonical
    BY <2>1, <2>4, <2>5
  <2>7. SourcesValid
    <3>1. CASE inputKind = "facts"
      BY <2>4, <2>6, <3>1
    <3>2. CASE inputKind = "dual"
      <4>1. Canonical = "index.bbolt" /\ Canonical \notin seal.retired
        BY <2>4, <2>6, <3>2 DEF Canonical, ToRetire
      <4>2. QED
        BY <1>1, <2>1, <2>4, <2>5, <3>2, <4>1 DEF MigrationInv, CutoverInv, DualFiles
    <3>3. QED
      BY <1>1, <3>1, <3>2 DEF MigrationInv, CutoverInv, PlacesInv
  <2>8. QED
    BY <1>1, <2>5, <2>7, ValidIsReadable
<1>2. QED
  BY <1>1, MigrationIsSound, PTL DEF MigrationSpec, RetiresOnlyReadable

(* At every instant an original or a complete new store has the name under *)
(* which the next open looks for the facts, and the durable count is exact *)
(* whatever the interruptions, the switches to stored copies and the       *)
(* repairs.                                                                *)
THEOREM NothingIsLost == MigrationSpec => []MigrationKeepsFacts
<1>1. ASSUME MigrationInv PROVE FactsHaveAnOwner
  <2>1. CASE files.index = "new"
    <3>1. Progress.phase = "ready"
      BY <1>1, <2>1 DEF MigrationInv, CutoverInv, PlacesInv
    <3>2. TargetIsSound(target, raw) /\ target.progress.source > LastRow
      BY <1>1, <3>1 DEF MigrationInv, CopyInv, TargetIsSound, ProgressIsSound, Progress
    <3>3. QED
      BY <2>1, <3>2, AllFinished DEF FactsHaveAnOwner
  <2>2. CASE files.index = "none"
    BY <1>1, <2>2
       DEF MigrationInv, CutoverInv, PlacesInv, FactsFiles, DualFiles, FactsHaveAnOwner
  <2>3. CASE files.index = "old"
    BY <2>3 DEF FactsHaveAnOwner
  <2>4. QED
    BY <1>1, <2>1, <2>2, <2>3 DEF MigrationInv, CutoverInv, PlacesInv, FileTypes
<1>2. ASSUME MigrationInv PROVE RecordsCountCopied
  <2>1. Progress.records = OldCount(Behind(Progress)) + UnderCursor(Progress)
    BY <1>2 DEF MigrationInv, CopyInv, TargetIsSound, ProgressIsSound, Counted, Progress
  <2>2. Behind(Progress)
          = {r \in InputRows :
               r < (IF Progress.back # 0 THEN Progress.back ELSE Progress.source)}
            \ {Progress.source}
    BY DEF Behind
  <2>3. QED
    BY <2>1, <2>2 DEF RecordsCountCopied, UnderCursor, Cursor
<1>3. QED
  BY <1>1, <1>2, MigrationIsSound, PTL DEF MigrationKeepsFacts

(***************************************************************************)
(* The upgrade and the packing: sets of numbers.                           *)
(***************************************************************************)

(* A number of a set has fewer numbers of the set below it than a larger   *)
(* one, and fewer than the set has elements.                               *)
LEMMA FewerBelow ==
  ASSUME NEW S \in SUBSET Nat, IsFiniteSet(S), NEW x \in S
  PROVE  /\ Cardinality({z \in S : z < x}) \in Nat
         /\ Cardinality({z \in S : z < x}) < Cardinality(S)
         /\ \A y \in Nat : x < y => Cardinality({z \in S : z < x}) < Cardinality({z \in S : z < y})
         /\ \A y \in Nat : y <= x => Cardinality({z \in S : z < y}) <= Cardinality({z \in S : z < x})
<1> DEFINE Below(y) == {z \in S : z < y}
<1>1. \A y : IsFiniteSet(Below(y)) /\ Cardinality(Below(y)) \in Nat
  <2>1. \A y : Below(y) \in SUBSET S
    OBVIOUS
  <2>2. QED
    BY <2>1, FS_Subset, FS_CardinalityType
<1>2. Cardinality(Below(x)) < Cardinality(S)
  <2>1. Below(x) \in SUBSET S /\ Below(x) # S
    OBVIOUS
  <2>2. QED
    BY <1>1, <2>1, FS_Subset, FS_CardinalityType
<1>3. ASSUME NEW y \in Nat, x < y PROVE Cardinality(Below(x)) < Cardinality(Below(y))
  <2>1. x \in Below(y) /\ x \notin Below(x) /\ \A z \in S : z < x => z < y
    BY <1>3
  <2>2. Below(x) \in SUBSET Below(y) /\ Below(x) # Below(y)
    BY <2>1, Zenon
  <2> HIDE DEF Below
  <2>3. QED
    BY <1>1, <2>2, FS_Subset
<1>4. ASSUME NEW y \in Nat, y <= x PROVE Cardinality(Below(y)) <= Cardinality(Below(x))
  <2>1. \A z \in S : z < y => z < x
    BY <1>4
  <2>2. Below(y) \in SUBSET Below(x)
    BY <2>1, Zenon
  <2> HIDE DEF Below
  <2>3. QED
    BY <1>1, <2>2, FS_Subset
<1>5. QED
  BY <1>1, <1>2, <1>3, <1>4

(* A finite set of numbers that is not empty has its maximum as an element. *)
LEMMA MaxIsMost ==
  ASSUME NEW S \in SUBSET Nat, IsFiniteSet(S), S # {}
  PROVE  Max(S) \in S /\ \A x \in S : x <= Max(S)
<1> DEFINE Above(x) == {z \in S : z >= x}
           sizes == {Cardinality(Above(x)) : x \in S}
<1>1. \A x \in S : IsFiniteSet(Above(x)) /\ Cardinality(Above(x)) \in Nat
  <2>1. \A x \in S : Above(x) \in SUBSET S
    OBVIOUS
  <2>2. QED
    BY <2>1, FS_Subset, FS_CardinalityType
<1>2. sizes \in SUBSET Nat /\ sizes # {}
  BY <1>1
<1>3. PICK m \in S : \A x \in S : Cardinality(Above(m)) <= Cardinality(Above(x))
  <2> HIDE DEF Above
  <2>1. Min(sizes) \in sizes /\ \A k \in sizes : Min(sizes) <= k
    BY <1>2, MinIsLeast
  <2>2. QED
    BY <2>1
<1>4. \A x \in S : x <= m
  <2> SUFFICES ASSUME NEW x \in S, x > m PROVE FALSE
    OBVIOUS
  <2>1. m \in Above(m) /\ m \notin Above(x) /\ \A z \in S : z >= x => z >= m
    OBVIOUS
  <2>2. Above(x) \in SUBSET Above(m) /\ Above(x) # Above(m)
    BY <2>1, Zenon
  <2> HIDE DEF Above
  <2>3. Cardinality(Above(x)) < Cardinality(Above(m))
    BY <1>1, <2>2, FS_Subset
  <2>4. QED
    BY <1>1, <1>3, <2>3
<1>5. \E y \in S : \A x \in S : y >= x
  BY <1>4
<1>6. Max(S) \in S /\ \A x \in S : Max(S) >= x
  BY <1>5, Zenon DEF Max
<1>7. QED
  BY <1>6

(* The lowest numbers of a set: some if it has any, and all below the rest. *)
LEMMA LowestAreFirst ==
  ASSUME NEW S \in SUBSET Nat, IsFiniteSet(S), NEW k \in Nat \ {0}
  PROVE  /\ LowestOf(S, k) \in SUBSET S /\ IsFiniteSet(LowestOf(S, k))
         /\ S # {} => LowestOf(S, k) # {}
         /\ \A x \in S \ LowestOf(S, k), m \in LowestOf(S, k) : m < x
<1>1. LowestOf(S, k) \in SUBSET S /\ IsFiniteSet(LowestOf(S, k))
  <2>1. LowestOf(S, k) \in SUBSET S
    BY DEF LowestOf
  <2>2. QED
    BY <2>1, FS_Subset
<1>2. ASSUME S # {} PROVE LowestOf(S, k) # {}
  <2>A. PICK m \in S : m = Min(S) /\ \A y \in S : m <= y
    BY <1>2, MinIsLeast
  <2>B. m \in Nat /\ \A y \in S : y \in Nat
    OBVIOUS
  <2>C. \A y \in S : ~(y < m)
    BY <2>A, <2>B
  <2>1. Min(S) \in S /\ {y \in S : y < Min(S)} = {}
    BY <2>A, <2>C, Zenon
  <2>2. Cardinality({y \in S : y < Min(S)}) = 0
    BY <2>1, FS_EmptySet
  <2>3. QED
    BY <2>1, <2>2 DEF LowestOf
<1>3. ASSUME NEW x \in S \ LowestOf(S, k), NEW m \in LowestOf(S, k) PROVE m < x
  <2>1. /\ x \in S /\ m \in S
        /\ Cardinality({y \in S : y < m}) < k /\ ~(Cardinality({y \in S : y < x}) < k)
    BY Zenon DEF LowestOf
  <2>2. x <= m => Cardinality({y \in S : y < x}) <= Cardinality({y \in S : y < m})
    BY <2>1, FewerBelow
  <2>3. Cardinality({y \in S : y < m}) \in Nat /\ Cardinality({y \in S : y < x}) \in Nat
    BY <2>1, FewerBelow
  <2>4. QED
    BY <2>1, <2>2, <2>3
<1>4. QED
  BY <1>1, <1>2, <1>3

(***************************************************************************)
(* What a table of exceptions has to be: every fact in one row, and in no  *)
(* row facts of two sources or two replay ranges.                          *)
(***************************************************************************)

OneRange(S) == \A f, g \in S : OwnerOf[f] = OwnerOf[g] /\ RangeOf[f] = RangeOf[g]

TableIsSound ==
  /\ Rows \in SUBSET (Nat \ {0}) /\ IsFiniteSet(Rows)
  /\ \A n \in Rows : /\ table[n].facts \in SUBSET StoredFacts /\ table[n].facts # {}
                     /\ OneRange(table[n].facts)
  /\ \A f \in StoredFacts : \E n \in Rows : f \in table[n].facts
  /\ \A n, m \in Rows : n # m => table[n].facts \cap table[m].facts = {}

(* Rows give way to others that hold the same facts, once each.            *)
Replaced(gone, new, content) ==
  /\ gone \in SUBSET Rows
  /\ new \in SUBSET (Nat \ {0}) /\ IsFiniteSet(new) /\ new \cap (Rows \ gone) = {}
  /\ table' = [n \in (Rows \ gone) \cup new |-> IF n \in new THEN content[n] ELSE table[n]]
  /\ \A n \in new : /\ content[n].facts \in SUBSET StoredFacts /\ content[n].facts # {}
                    /\ OneRange(content[n].facts)
  /\ \A f \in StoredFacts :
       (\E n \in gone : f \in table[n].facts) <=> (\E n \in new : f \in content[n].facts)
  /\ \A n, m \in new : n # m => content[n].facts \cap content[m].facts = {}

LEMMA ReplaceRows ==
  ASSUME TableIsSound, NEW gone, NEW new, NEW content, Replaced(gone, new, content)
  PROVE  TableIsSound'
<1> USE DEF Replaced
<1>1. Rows' = (Rows \ gone) \cup new
  BY DEF Rows
<1>2. \A n \in new : table'[n] = content[n]
  BY DEF Rows
<1>3. \A n \in Rows \ gone : table'[n] = table[n]
  BY DEF Rows
<1>4. Rows' \in SUBSET (Nat \ {0}) /\ IsFiniteSet(Rows')
  <2>1. IsFiniteSet(Rows \ gone)
    BY FS_Difference DEF TableIsSound
  <2>2. QED
    BY <1>1, <2>1, FS_Union DEF TableIsSound
<1>5. \A n \in Rows' : /\ table'[n].facts \in SUBSET StoredFacts /\ table'[n].facts # {}
                       /\ OneRange(table'[n].facts)
  BY <1>1, <1>2, <1>3 DEF TableIsSound
<1>6. ASSUME NEW f \in StoredFacts PROVE \E n \in Rows' : f \in table'[n].facts
  <2>1. PICK n \in Rows : f \in table[n].facts
    BY DEF TableIsSound
  <2>2. CASE n \in gone
    BY <1>1, <1>2, <2>1, <2>2
  <2>3. CASE n \notin gone
    BY <1>1, <1>3, <2>1, <2>3
  <2>4. QED
    BY <2>2, <2>3
<1>7. ASSUME NEW n \in new, NEW m \in Rows \ gone PROVE content[n].facts \cap table[m].facts = {}
  <2> SUFFICES ASSUME NEW f \in content[n].facts, f \in table[m].facts PROVE FALSE
    OBVIOUS
  <2>1. f \in StoredFacts
    OBVIOUS
  <2>2. PICK k \in gone : f \in table[k].facts
    BY <2>1
  <2>3. QED
    BY <2>2 DEF TableIsSound
<1>8. ASSUME NEW n \in Rows', NEW m \in Rows', n # m PROVE table'[n].facts \cap table'[m].facts = {}
  <2>1. CASE n \in new /\ m \in new
    BY <1>2, <1>8, <2>1
  <2>2. CASE n \in new /\ m \notin new
    BY <1>1, <1>2, <1>3, <1>7, <2>2
  <2>3. CASE n \notin new /\ m \in new
    BY <1>1, <1>2, <1>3, <1>7, <2>3
  <2>4. CASE n \notin new /\ m \notin new
    BY <1>1, <1>3, <1>8, <2>4 DEF TableIsSound
  <2>5. QED
    BY <2>1, <2>2, <2>3, <2>4
<1>9. QED
  BY <1>4, <1>5, <1>6, <1>8 DEF TableIsSound, OneRange

(***************************************************************************)
(* Blocks.                                                                 *)
(***************************************************************************)

LEMMA FactNumbers == StoredFacts \in SUBSET Nat
<1>1. Cardinality(StoredFacts) \in Nat /\ StoredFacts = 1 .. Cardinality(StoredFacts)
  BY FS_CardinalityType, RepackConstants DEF RepackConstants
<1> HIDE DEF StoredFacts
<1>2. QED
  BY <1>1

(* The blocks of some facts part them: each fact is in its own block, and  *)
(* the block of every other fact of a block is the same one, of one range. *)
LEMMA BlocksPart ==
  ASSUME NEW batch \in SUBSET StoredFacts, NEW f \in batch
  PROVE  /\ f \in BlockOf(batch, f) /\ BlockOf(batch, f) \in SUBSET batch
         /\ OneRange(BlockOf(batch, f))
         /\ \A g \in BlockOf(batch, f) : BlockOf(batch, g) = BlockOf(batch, f)
         /\ Min(BlockOf(batch, f)) \in BlockOf(batch, f)
<1>1. \A g \in batch : g \in Group(batch, g) /\ Group(batch, g) \in SUBSET batch
                        /\ OneRange(Group(batch, g))
  BY DEF Group, OneRange
<1>2. f \in BlockOf(batch, f) /\ BlockOf(batch, f) \in SUBSET Group(batch, f)
  BY <1>1 DEF BlockOf
<1>3. ASSUME NEW g \in BlockOf(batch, f) PROVE BlockOf(batch, g) = BlockOf(batch, f)
  <2>1. Group(batch, g) = Group(batch, f)
    BY <1>2 DEF Group
  <2>2. Slice(Group(batch, f), g) = Slice(Group(batch, f), f)
    BY DEF BlockOf
  <2>3. QED
    BY <2>1, <2>2 DEF BlockOf
<1>4. Min(BlockOf(batch, f)) \in BlockOf(batch, f)
  <2>2. BlockOf(batch, f) \in SUBSET Nat
    BY <1>1, <1>2, FactNumbers
  <2>3. QED
    BY <1>2, <2>2, MinIsLeast
<1>5. QED
  BY <1>1, <1>2, <1>3, <1>4 DEF OneRange

(* The facts that lead a block name the blocks: each fact is in the block  *)
(* of exactly one leader.                                                  *)
Leaders(batch) == {f \in batch : f = Min(BlockOf(batch, f))}

LEMMA LeadersPart ==
  ASSUME NEW batch \in SUBSET StoredFacts
  PROVE  /\ \A f \in batch : \E g \in Leaders(batch) : f \in BlockOf(batch, g)
         /\ \A f, g \in Leaders(batch) : f # g => BlockOf(batch, f) \cap BlockOf(batch, g) = {}
<1>1. ASSUME NEW f \in batch PROVE \E g \in Leaders(batch) : f \in BlockOf(batch, g)
  <2> DEFINE g == Min(BlockOf(batch, f))
  <2>1. g \in BlockOf(batch, f) /\ g \in batch
    BY BlocksPart
  <2>2. BlockOf(batch, g) = BlockOf(batch, f)
    BY <2>1, BlocksPart
  <2>3. f \in BlockOf(batch, g) /\ g = Min(BlockOf(batch, g))
    BY <2>2, BlocksPart
  <2>4. QED
    BY <2>1, <2>3 DEF Leaders
<1>2. ASSUME NEW f \in Leaders(batch), NEW g \in Leaders(batch),
             NEW h \in BlockOf(batch, f), h \in BlockOf(batch, g)
      PROVE  f = g
  <2>A. f \in batch /\ g \in batch
    BY DEF Leaders
  <2>1. BlockOf(batch, f) = BlockOf(batch, g)
    BY <1>2, <2>A, BlocksPart
  <2>2. QED
    BY <2>1 DEF Leaders
<1>3. QED
  BY <1>1, <1>2

(***************************************************************************)
(* The two passes.                                                         *)
(***************************************************************************)

(* Until the upgrade is over a row has the number of the first row of one  *)
(* of its facts, and a row nobody has touched holds that fact alone.       *)
UpgradeIsSound ==
  /\ version \in {2, 3}
  /\ upgrade.phase # "none" => version = 2
  /\ version = 2 => \A n \in Rows :
       /\ \E f \in table[n].facts : FirstRow[f] = n
       /\ table[n].legacy => \A f \in table[n].facts : FirstRow[f] = n

PackingTypes ==
  [phase : {"pack_blocks", "reclaim"}, maxOldRow : Nat, cursor : Nat, nextRow : Nat,
   blocks : Nat, packed : Nat, revision : Nat]

(* A packing has filled the numbers above the old rows without a gap, and  *)
(* the old rows that are left lie above its cursor.                        *)
PackedSoFar ==
  /\ packing.maxOldRow < packing.nextRow
  /\ (packing.maxOldRow + 1) .. (packing.nextRow - 1) \subseteq Rows
  /\ \A n \in Rows : /\ n < packing.nextRow
                     /\ n > packing.maxOldRow \/ (packing.phase = "pack_blocks" /\ n > packing.cursor)

PackingIsSound ==
  packing # Off => version = 3 /\ packing \in PackingTypes /\ PackedSoFar

RepackInv ==
  /\ TableIsSound /\ UpgradeIsSound /\ PackingIsSound
  /\ revision \in Nat /\ passes.count \in Nat

LEMMA RepackStarts == RepackInit => RepackInv
<1> SUFFICES ASSUME RepackInit PROVE RepackInv
  OBVIOUS
<1> DEFINE firsts == {FirstRow[f] : f \in StoredFacts}
<1>1. /\ FirstRow \in [StoredFacts -> Nat \ {0}]
      /\ \A f, g \in StoredFacts : f # g => FirstRow[f] # FirstRow[g]
  BY RepackConstants DEF RepackConstants
<1>2. Rows = firsts /\ firsts \in SUBSET (Nat \ {0})
  BY <1>1 DEF RepackInit, Rows
<1>3. IsFiniteSet(Rows)
  <2>1. FirstRow \in Surjection(StoredFacts, firsts)
    BY <1>1 DEF Surjection
  <2>2. QED
    BY <1>2, <2>1, FS_Surjection, RepackConstants DEF RepackConstants
<1>4. \A f \in StoredFacts : FirstRow[f] \in Rows /\ table[FirstRow[f]].facts = {f}
  <2>1. \A n \in firsts : table[n].facts = {f \in StoredFacts : FirstRow[f] = n}
    BY DEF RepackInit
  <2>2. QED
    BY <1>1, <1>2, <2>1
<1>5. \A n \in Rows : \E f \in StoredFacts : n = FirstRow[f] /\ table[n].facts = {f}
  BY <1>2, <1>4
<1>6. TableIsSound
  <2>1. \A n \in Rows : /\ table[n].facts \in SUBSET StoredFacts /\ table[n].facts # {}
                        /\ OneRange(table[n].facts)
    BY <1>5 DEF OneRange
  <2>2. \A n, m \in Rows : n # m => table[n].facts \cap table[m].facts = {}
    BY <1>5
  <2>3. QED
    BY <1>2, <1>3, <1>4, <2>1, <2>2 DEF TableIsSound
<1>7. UpgradeIsSound
  BY <1>5 DEF UpgradeIsSound, RepackInit, Off
<1>8. PackingIsSound /\ revision \in Nat /\ passes.count \in Nat
  BY DEF PackingIsSound, RepackInit
<1>9. QED
  BY <1>6, <1>7, <1>8 DEF RepackInv

LEMMA UpgradeBlocksKeeps == RepackInv /\ UpgradeBlocks => RepackInv'
<1> SUFFICES ASSUME RepackInv, UpgradeBlocks PROVE RepackInv'
  OBVIOUS
<1> DEFINE batch == UpgradeBatch
           old == {FirstRow[f] : f \in batch}
           lead == Leaders(batch)
           kept == {FirstRow[f] : f \in lead}
           content == [n \in kept |->
                         [facts |-> BlockOf(batch, CHOOSE f \in lead : FirstRow[f] = n),
                          legacy |-> FALSE]]
<1>1. /\ FirstRow \in [StoredFacts -> Nat \ {0}]
      /\ \A f, g \in StoredFacts : f # g => FirstRow[f] # FirstRow[g]
  BY RepackConstants DEF RepackConstants
<1>2. version = 2 /\ packing = Off
  BY DEF RepackInv, UpgradeIsSound, PackingIsSound, UpgradeBlocks
<1>3. batch \in SUBSET StoredFacts
  BY DEF UpgradeBatch, LowestOf
<1>4. \A f \in batch : FirstRow[f] \in Rows /\ table[FirstRow[f]].facts = {f}
  <2> SUFFICES ASSUME NEW f \in batch
               PROVE  FirstRow[f] \in Rows /\ table[FirstRow[f]].facts = {f}
    OBVIOUS
  <2>1. PICK n \in Rows : table[n].legacy /\ f \in table[n].facts
    BY DEF UpgradeBatch, LowestOf
  <2>2. \A g \in table[n].facts : g \in StoredFacts /\ FirstRow[g] = n
    <3>1. table[n].facts \in SUBSET StoredFacts
      BY DEF RepackInv, TableIsSound
    <3>2. \A g \in table[n].facts : FirstRow[g] = n
      BY <1>2, <2>1 DEF RepackInv, UpgradeIsSound
    <3>3. QED
      BY <3>1, <3>2
  <2>3. QED
    BY <1>1, <2>1, <2>2
<1>5. lead \in SUBSET batch
  BY DEF Leaders
<1>6. \A f \in lead : /\ content[FirstRow[f]].facts = BlockOf(batch, f)
                      /\ content[FirstRow[f]].legacy = FALSE
  <2> SUFFICES ASSUME NEW f \in lead
               PROVE  content[FirstRow[f]] = [facts |-> BlockOf(batch, f), legacy |-> FALSE]
    OBVIOUS
  <2>1. (CHOOSE g \in lead : FirstRow[g] = FirstRow[f]) = f
    BY <1>1, <1>3, <1>5
  <2>2. QED
    BY <2>1
<1>7. table' = [n \in (Rows \ old) \cup kept |-> IF n \in kept THEN content[n] ELSE table[n]]
  BY DEF UpgradeBlocks, Leaders
<1> HIDE DEF content, lead, batch
<1>8. old \in SUBSET Rows /\ kept \in SUBSET old
  BY <1>4, <1>5
<1>9. \A n \in kept : \E f \in lead : /\ n = FirstRow[f] /\ content[n].facts = BlockOf(batch, f)
                                        /\ content[n].legacy = FALSE
  <2> SUFFICES ASSUME NEW n \in kept
               PROVE  \E f \in lead : /\ n = FirstRow[f] /\ content[n].facts = BlockOf(batch, f)
                                      /\ content[n].legacy = FALSE
    OBVIOUS
  <2>1. PICK f \in lead : n = FirstRow[f]
    OBVIOUS
  <2>2. QED
    BY <1>6, <2>1
<1>10. TableIsSound'
  <2>1. kept \in SUBSET (Nat \ {0}) /\ IsFiniteSet(kept) /\ kept \cap (Rows \ old) = {}
    BY <1>8, FS_Subset DEF RepackInv, TableIsSound
  <2>2. \A n \in kept : /\ content[n].facts \in SUBSET StoredFacts /\ content[n].facts # {}
                        /\ OneRange(content[n].facts)
    <3>1. \A f \in lead : /\ f \in BlockOf(batch, f) /\ BlockOf(batch, f) \in SUBSET batch
                          /\ OneRange(BlockOf(batch, f))
      BY <1>3, <1>5, BlocksPart
    <3>2. QED
      BY <1>3, <1>9, <3>1
  <2>3. ASSUME NEW f \in StoredFacts
        PROVE  (\E n \in old : f \in table[n].facts) <=> (\E n \in kept : f \in content[n].facts)
    <3>4. ASSUME NEW n \in old, f \in table[n].facts PROVE f \in batch
      <4>1. PICK g \in batch : n = FirstRow[g]
        OBVIOUS
      <4>2. QED
        BY <1>4, <3>4, <4>1
    <3>1. (\E n \in old : f \in table[n].facts) <=> f \in batch
      BY <1>4, <3>4
    <3>2. ASSUME f \in batch PROVE \E n \in kept : f \in content[n].facts
      <4>1. PICK g \in lead : f \in BlockOf(batch, g)
        BY <1>3, <3>2, LeadersPart DEF lead
      <4>2. FirstRow[g] \in kept
        OBVIOUS
      <4>3. f \in content[FirstRow[g]].facts
        BY <1>6, <4>1
      <4>4. QED
        BY <4>2, <4>3
    <3>3. (\E n \in kept : f \in content[n].facts) => f \in batch
      BY <1>3, <1>5, <1>9, BlocksPart
    <3>5. QED
      BY <3>1, <3>2, <3>3
  <2>4. \A n, m \in kept : n # m => content[n].facts \cap content[m].facts = {}
    BY <1>3, <1>9, LeadersPart DEF lead
  <2>5. TableIsSound
    BY DEF RepackInv
  <2> HIDE DEF old, kept
  <2>6. Replaced(old, kept, content)
    BY <1>7, <1>8, <2>1, <2>2, <2>3, <2>4 DEF Replaced
  <2>7. QED
    BY <2>5, <2>6, ReplaceRows
<1>11. UpgradeIsSound'
  <2>1. Rows' = (Rows \ old) \cup kept
    BY <1>7 DEF Rows
  <2>2. version' = 2
    BY <1>2 DEF UpgradeBlocks
  <2>3. ASSUME NEW n \in Rows'
        PROVE  /\ \E f \in table'[n].facts : FirstRow[f] = n
               /\ table'[n].legacy => \A f \in table'[n].facts : FirstRow[f] = n
    <3>1. CASE n \in kept
      <4>1. table'[n] = content[n]
        BY <1>7, <3>1
      <4>2. PICK f \in lead : /\ n = FirstRow[f] /\ content[n].facts = BlockOf(batch, f)
                              /\ content[n].legacy = FALSE
        BY <1>9, <3>1
      <4>3. f \in BlockOf(batch, f)
        BY <1>3, <1>5, BlocksPart
      <4>4. QED
        BY <4>1, <4>2, <4>3
    <3>2. CASE n \notin kept
      <4>1. n \in Rows /\ table'[n] = table[n]
        BY <1>7, <2>1, <3>2
      <4>2. QED
        BY <1>2, <4>1 DEF RepackInv, UpgradeIsSound
    <3>3. QED
      BY <3>1, <3>2
  <2>4. QED
    BY <2>2, <2>3 DEF UpgradeIsSound
<1>12. PackingIsSound' /\ revision' \in Nat /\ passes'.count \in Nat
  BY <1>2 DEF PackingIsSound, UpgradeBlocks, RepackInv, Off
<1>13. QED
  BY <1>10, <1>11, <1>12 DEF RepackInv

(* The rows a packing has still to move, and those of one transaction.     *)
OldRows == {n \in Rows : n > packing.cursor /\ n <= packing.maxOldRow}

LEMMA PackingBatchFacts ==
  ASSUME RepackInv
  PROVE  /\ PackingBatch \in SUBSET OldRows /\ OldRows \in SUBSET Nat /\ OldRows \in SUBSET Rows
         /\ IsFiniteSet(PackingBatch)
         /\ OldRows # {} => PackingBatch # {}
         /\ \A n \in OldRows \ PackingBatch, m \in PackingBatch : m < n
<1>1. OldRows \in SUBSET Rows /\ OldRows \in SUBSET Nat /\ IsFiniteSet(OldRows)
  <2>1. Rows \in SUBSET Nat /\ IsFiniteSet(Rows)
    BY DEF RepackInv, TableIsSound
  <2>2. OldRows \in SUBSET Rows
    BY DEF OldRows
  <2>3. QED
    BY <2>1, <2>2, FS_Subset
<1>2. PackingBatch = LowestOf(OldRows, BatchRows)
  BY DEF PackingBatch, OldRows
<1>3. BatchRows \in Nat \ {0}
  BY RepackConstants DEF RepackConstants
<1>4. QED
  BY <1>1, <1>2, <1>3, LowestAreFirst

LEMMA RunIsFinite ==
  ASSUME NEW a \in Nat, NEW k \in Nat
  PROVE  IsFiniteSet(a .. (a + k - 1)) /\ Cardinality(a .. (a + k - 1)) = k
<1> DEFINE b == a + k - 1
<1>1. b \in Int /\ a \in Int
  OBVIOUS
<1>2. IsFiniteSet(a .. b) /\ Cardinality(a .. b) = IF a > b THEN 0 ELSE b - a + 1
  <2> HIDE DEF b
  <2>1. QED
    BY <1>1, FS_Interval
<1>3. QED
  BY <1>2

(* Numbers given out in order fill a run.                                  *)
LEMMA FillsRun ==
  ASSUME NEW batch \in SUBSET Nat, IsFiniteSet(batch), NEW start \in Nat
  PROVE  LET to == [n \in batch |-> start + Cardinality({m \in batch : m < n})]
         IN  /\ {to[n] : n \in batch} = start .. (start + Cardinality(batch) - 1)
             /\ \A n, m \in batch : n # m => to[n] # to[m]
<1> DEFINE to == [n \in batch |-> start + Cardinality({m \in batch : m < n})]
           run == start .. (start + Cardinality(batch) - 1)
<1>1. Cardinality(batch) \in Nat
  BY FS_CardinalityType
<1>2. \A n \in batch : to[n] \in run
  <2> SUFFICES ASSUME NEW n \in batch PROVE to[n] \in run
    OBVIOUS
  <2>1. /\ Cardinality({z \in batch : z < n}) \in Nat
        /\ Cardinality({z \in batch : z < n}) < Cardinality(batch)
    BY FewerBelow
  <2>2. QED
    BY <1>1, <2>1
<1>3. \A n, m \in batch : n < m => to[n] < to[m]
  <2> SUFFICES ASSUME NEW n \in batch, NEW m \in batch, n < m PROVE to[n] < to[m]
    OBVIOUS
  <2>1. /\ Cardinality({z \in batch : z < n}) \in Nat
        /\ Cardinality({z \in batch : z < m}) \in Nat
        /\ Cardinality({z \in batch : z < n}) < Cardinality({z \in batch : z < m})
    BY FewerBelow
  <2>2. QED
    BY <2>1
<1>4. \A n, m \in batch : n # m => to[n] # to[m]
  <2> SUFFICES ASSUME NEW n \in batch, NEW m \in batch, n # m PROVE to[n] # to[m]
    OBVIOUS
  <2>1. n \in Nat /\ m \in Nat /\ to[n] \in Nat /\ to[m] \in Nat
    BY <1>1, <1>2
  <2> HIDE DEF to
  <2>2. n < m \/ m < n
    BY <2>1
  <2>3. QED
    BY <1>3, <2>1, <2>2
<1>5. IsFiniteSet(run) /\ Cardinality(run) = Cardinality(batch)
  BY <1>1, RunIsFinite
<1>6. to \in Injection(batch, run)
  BY <1>2, <1>4 DEF Injection, IsInjective
<1>7. to \in Surjection(batch, run)
  <2> HIDE DEF to, run
  <2>1. QED
    BY <1>5, <1>6, FS_Injection
<1>8. {to[n] : n \in batch} = run
  <2> HIDE DEF to, run
  <2>1. QED
    BY <1>2, <1>7 DEF Surjection
<1>9. QED
  BY <1>4, <1>8

LEMMA PackBlocksKeeps == RepackInv /\ PackBlocks => RepackInv'
<1> SUFFICES ASSUME RepackInv, PackBlocks PROVE RepackInv'
  OBVIOUS
<1> DEFINE batch == PackingBatch
           to == [n \in batch |-> packing.nextRow + Cardinality({m \in batch : m < n})]
           moved == {to[n] : n \in batch}
           content == [n \in moved |-> table[CHOOSE m \in batch : to[m] = n]]
<1>1. version = 3 /\ packing \in PackingTypes /\ PackedSoFar /\ packing.phase = "pack_blocks"
  BY DEF RepackInv, PackingIsSound, PackBlocks, Off
<1>2. /\ packing.nextRow \in Nat /\ packing.maxOldRow \in Nat /\ packing.cursor \in Nat
      /\ packing.packed \in Nat /\ packing.revision \in Nat
  BY <1>1 DEF PackingTypes
<1>3. /\ batch \in SUBSET OldRows /\ batch \in SUBSET Rows /\ batch \in SUBSET Nat
      /\ IsFiniteSet(batch) /\ batch # {}
      /\ \A n \in OldRows \ batch, m \in batch : m < n
  <2>1. batch # {}
    BY DEF PackBlocks
  <2>2. QED
    BY <2>1, PackingBatchFacts
<1>4. /\ moved = packing.nextRow .. (packing.nextRow + Cardinality(batch) - 1)
      /\ \A n, m \in batch : n # m => to[n] # to[m]
  <2> HIDE DEF batch
  <2>1. QED
    BY <1>2, <1>3, FillsRun
<1>5. /\ moved \cap Rows = {}
      /\ table' = [n \in (Rows \ batch) \cup moved |-> IF n \in moved THEN content[n] ELSE table[n]]
  <2>1. /\ moved \cap Rows = {}
        /\ table' = [n \in (Rows \ batch) \cup moved |->
                       IF n \in moved THEN table[CHOOSE m \in batch : to[m] = n] ELSE table[n]]
    BY Zenon DEF PackBlocks
  <2>2. \A n \in moved : content[n] = table[CHOOSE m \in batch : to[m] = n]
    BY Zenon
  <2> HIDE DEF moved, content, to, batch
  <2>3. QED
    BY <2>1, <2>2
<1>B. /\ packing' = [packing EXCEPT !.cursor = Max(batch), !.nextRow = @ + Cardinality(batch),
                                    !.packed = @ + Cardinality(batch), !.revision = @ + 1]
      /\ revision' = revision + 1
      /\ UNCHANGED <<version, upgrade, passes>>
  BY DEF PackBlocks
<1>6. Cardinality(batch) \in Nat
  BY <1>3, FS_CardinalityType
<1>7. Max(batch) \in batch /\ \A n \in batch : n <= Max(batch)
  BY <1>3, MaxIsMost
<1> HIDE DEF batch
<1>8. \A n \in batch : content[to[n]] = table[n]
  <2> SUFFICES ASSUME NEW n \in batch PROVE content[to[n]] = table[n]
    OBVIOUS
  <2> HIDE DEF to
  <2>1. (CHOOSE m \in batch : to[m] = to[n]) = n
    BY <1>4
  <2>2. QED
    BY <2>1
<1> HIDE DEF content, to
<1>9. \A k \in moved : \E n \in batch : k = to[n] /\ content[k] = table[n]
  BY <1>8
<1>10. TableIsSound'
  <2>1. TableIsSound
    BY DEF RepackInv
  <2>2. moved \in SUBSET (Nat \ {0}) /\ IsFiniteSet(moved) /\ moved \cap (Rows \ batch) = {}
    <3>1. packing.nextRow > 0
      BY <1>1, <1>2 DEF PackedSoFar
    <3>2. IsFiniteSet(packing.nextRow .. (packing.nextRow + Cardinality(batch) - 1))
      BY <1>2, <1>6, RunIsFinite
    <3>3. (packing.nextRow .. (packing.nextRow + Cardinality(batch) - 1)) \in SUBSET (Nat \ {0})
      BY <1>2, <1>6, <3>1
    <3> HIDE DEF moved
    <3>4. QED
      BY <1>4, <1>5, <3>2, <3>3
  <2>3. \A n \in moved : /\ content[n].facts \in SUBSET StoredFacts /\ content[n].facts # {}
                         /\ OneRange(content[n].facts)
    BY <1>3, <1>9, <2>1 DEF TableIsSound
  <2>4. ASSUME NEW f \in StoredFacts
        PROVE  (\E n \in batch : f \in table[n].facts) <=> (\E n \in moved : f \in content[n].facts)
    <3>1. ASSUME NEW n \in batch, f \in table[n].facts PROVE \E k \in moved : f \in content[k].facts
      <4>1. to[n] \in moved
        OBVIOUS
      <4>2. f \in content[to[n]].facts
        BY <1>8, <3>1
      <4>3. QED
        BY <4>1, <4>2
    <3>2. ASSUME NEW k \in moved, f \in content[k].facts PROVE \E n \in batch : f \in table[n].facts
      BY <1>9, <3>2
    <3>3. QED
      BY <3>1, <3>2
  <2>5. ASSUME NEW n \in moved, NEW m \in moved, n # m
        PROVE  content[n].facts \cap content[m].facts = {}
    <3>1. PICK i \in batch : n = to[i] /\ content[n] = table[i]
      BY <1>9
    <3>2. PICK j \in batch : m = to[j] /\ content[m] = table[j]
      BY <1>9
    <3>3. i # j /\ i \in Rows /\ j \in Rows
      BY <1>3, <2>5, <3>1, <3>2
    <3>4. QED
      BY <2>1, <3>1, <3>2, <3>3 DEF TableIsSound
  <2> HIDE DEF moved
  <2>6. Replaced(batch, moved, content)
    BY <1>3, <1>5, <2>2, <2>3, <2>4, <2>5 DEF Replaced
  <2>7. QED
    BY <2>1, <2>6, ReplaceRows
<1>11. UpgradeIsSound'
  BY <1>1, <1>B DEF RepackInv, UpgradeIsSound
<1>12. Max(batch) \in Nat /\ Max(batch) <= packing.maxOldRow
  BY <1>2, <1>3, <1>7 DEF OldRows
<1>13. packing' \in PackingTypes
  <2>1. /\ packing.nextRow + Cardinality(batch) \in Nat
        /\ packing.packed + Cardinality(batch) \in Nat /\ packing.revision + 1 \in Nat
    BY <1>2, <1>6
  <2>2. QED
    BY <1>1, <1>B, <1>12, <2>1, Zenon DEF PackingTypes
<1>14. /\ packing'.nextRow = packing.nextRow + Cardinality(batch)
       /\ packing'.cursor = Max(batch) /\ packing'.maxOldRow = packing.maxOldRow
       /\ packing'.phase = "pack_blocks"
  BY <1>1, <1>B DEF PackingTypes
<1>15. Rows' = (Rows \ batch) \cup moved
  BY <1>5 DEF Rows
<1>16. PackedSoFar'
  <2>1. packing.maxOldRow < packing.nextRow + Cardinality(batch)
    BY <1>1, <1>2, <1>6 DEF PackedSoFar
  <2>2. ASSUME NEW n \in (packing.maxOldRow + 1) .. (packing.nextRow + Cardinality(batch) - 1)
        PROVE  n \in Rows'
    <3>1. CASE n < packing.nextRow
      <4>1. n \in Rows
        BY <1>1, <1>2, <3>1 DEF PackedSoFar
      <4>2. n \notin batch
        BY <1>2, <1>3 DEF OldRows
      <4>3. QED
        BY <1>15, <4>1, <4>2
    <3>2. CASE n >= packing.nextRow
      <4>1. n \in moved
        BY <1>2, <1>4, <1>6, <3>2
      <4>2. QED
        BY <1>15, <4>1
    <3>3. QED
      BY <1>2, <3>1, <3>2
  <2>3. ASSUME NEW n \in Rows'
        PROVE  /\ n < packing.nextRow + Cardinality(batch)
               /\ n > packing.maxOldRow \/ n > Max(batch)
    <3>1. CASE n \in moved
      <4>1. n \in packing.nextRow .. (packing.nextRow + Cardinality(batch) - 1)
        BY <1>4, <3>1
      <4>2. QED
        BY <1>1, <1>2, <1>6, <4>1 DEF PackedSoFar
    <3>2. CASE n \in Rows \ batch
      <4>1. n \in Nat /\ n < packing.nextRow /\ (n > packing.maxOldRow \/ n > packing.cursor)
        <5>1. n \in Nat
          BY <3>2 DEF RepackInv, TableIsSound
        <5>2. QED
          BY <1>1, <3>2, <5>1, Zenon DEF PackedSoFar
      <4>2. n <= packing.maxOldRow => n \in OldRows \ batch
        BY <1>2, <3>2, <4>1 DEF OldRows
      <4>3. n <= packing.maxOldRow => Max(batch) < n
        BY <1>3, <1>7, <4>2
      <4>4. QED
        BY <1>2, <1>6, <1>12, <4>1, <4>3
    <3>3. QED
      BY <1>15, <3>1, <3>2
  <2>4. (packing.maxOldRow + 1) .. (packing.nextRow + Cardinality(batch) - 1) \subseteq Rows'
    BY <2>2
  <2>5. packing'.maxOldRow < packing'.nextRow
    BY <1>14, <2>1, Zenon
  <2>6. (packing'.maxOldRow + 1) .. (packing'.nextRow - 1) \subseteq Rows'
    <3>1. packing'.maxOldRow + 1 = packing.maxOldRow + 1
      BY <1>14, Zenon
    <3>2. packing'.nextRow - 1 = packing.nextRow + Cardinality(batch) - 1
      <4>1. packing'.nextRow = packing.nextRow + Cardinality(batch)
        BY <1>14
      <4>2. QED
        BY <1>2, <1>6, <4>1
    <3>3. QED
      BY <2>4, <3>1, <3>2, Zenon
  <2>7. \A n \in Rows' :
          /\ n < packing'.nextRow
          /\ n > packing'.maxOldRow \/ (packing'.phase = "pack_blocks" /\ n > packing'.cursor)
    BY <1>14, <2>3, Zenon
  <2>8. QED
    BY <2>5, <2>6, <2>7, Zenon DEF PackedSoFar
<1>17. PackingIsSound' /\ revision' \in Nat /\ passes'.count \in Nat
  BY <1>1, <1>B, <1>13, <1>16 DEF PackingIsSound, RepackInv
<1>18. QED
  BY <1>10, <1>11, <1>17 DEF RepackInv

LEMMA RewriteRangeKeeps ==
  ASSUME RepackInv, NEW s, NEW r, RewriteRange(s, r)
  PROVE  RepackInv'
<1> DEFINE inside == {f \in StoredFacts : OwnerOf[f] = s /\ RangeOf[f] = r}
           gone == {n \in Rows : Min(table[n].facts) \in inside}
           fresh == Leaders(inside)
           last == Max(Rows \cup {0})
           at == [f \in fresh |-> last + Cardinality({g \in fresh : g <= f})]
           new == {at[f] : f \in fresh}
           content == [n \in new |-> [facts |-> BlockOf(inside, CHOOSE f \in fresh : at[f] = n),
                                      legacy |-> FALSE]]
<1>1. version = 3 /\ packing = Off
  BY DEF RewriteRange
<1>2. TableIsSound
  BY DEF RepackInv
<1>3. inside \in SUBSET StoredFacts /\ fresh \in SUBSET inside
  BY DEF Leaders
<1>4. fresh \in SUBSET Nat /\ IsFiniteSet(fresh)
  <2>1. IsFiniteSet(StoredFacts) /\ fresh \in SUBSET StoredFacts
    BY <1>3, RepackConstants DEF RepackConstants
  <2>2. QED
    BY <2>1, FactNumbers, FS_Subset
<1>5. last \in Nat /\ \A n \in Rows : n <= last
  <2>1. (Rows \cup {0}) \in SUBSET Nat /\ (Rows \cup {0}) # {}
    BY <1>2 DEF TableIsSound
  <2>2. IsFiniteSet(Rows \cup {0})
    BY <1>2, FS_AddElement DEF TableIsSound
  <2>3. last \in (Rows \cup {0}) /\ \A n \in (Rows \cup {0}) : n <= last
    BY <2>1, <2>2, MaxIsMost
  <2>4. QED
    BY <2>1, <2>3
<1>6. table' = [n \in (Rows \ gone) \cup new |->
                 IF \E f \in fresh : at[f] = n
                 THEN [facts |-> BlockOf(inside, CHOOSE f \in fresh : at[f] = n), legacy |-> FALSE]
                 ELSE table[n]]
  BY Zenon DEF RewriteRange, Leaders
<1> HIDE DEF inside, fresh, last
<1>7. \A f \in fresh : /\ at[f] = last + 1 + Cardinality({g \in fresh : g < f})
                       /\ Cardinality({g \in fresh : g < f}) \in Nat
                       /\ Cardinality({g \in fresh : g < f}) < Cardinality(fresh)
  <2> SUFFICES ASSUME NEW f \in fresh
               PROVE  /\ at[f] = last + 1 + Cardinality({g \in fresh : g < f})
                      /\ Cardinality({g \in fresh : g < f}) \in Nat
                      /\ Cardinality({g \in fresh : g < f}) < Cardinality(fresh)
    OBVIOUS
  <2> DEFINE below == {g \in fresh : g < f}
  <2>1. Cardinality(below) \in Nat /\ Cardinality(below) < Cardinality(fresh)
    BY <1>4, FewerBelow
  <2>2. {g \in fresh : g <= f} = below \cup {f}
    <3>1. \A g \in fresh : g <= f <=> g < f \/ g = f
      BY <1>4
    <3>2. QED
      BY <3>1
  <2>3. IsFiniteSet(below) /\ f \notin below
    <3>1. below \in SUBSET fresh
      OBVIOUS
    <3>2. ~(f < f)
      BY <1>4
    <3>3. QED
      BY <1>4, <3>1, <3>2, FS_Subset
  <2> HIDE DEF below
  <2>4. Cardinality(below \cup {f}) = Cardinality(below) + 1
    BY <2>3, FS_AddElement
  <2>5. at[f] = last + (Cardinality(below) + 1)
    BY <2>2, <2>4
  <2>6. QED
    BY <1>5, <2>1, <2>5 DEF below
<1>8. \A f, g \in fresh : f # g => at[f] # at[g]
  <2> SUFFICES ASSUME NEW f \in fresh, NEW g \in fresh, f < g PROVE at[f] # at[g]
    <3>1. \A f, g \in fresh : f # g => f < g \/ g < f
      BY <1>4
    <3>2. QED
      BY <3>1
  <2>1. Cardinality({h \in fresh : h < f}) < Cardinality({h \in fresh : h < g})
    BY <1>4, FewerBelow
  <2>2. QED
    BY <1>5, <1>7, <2>1
<1>9. \A f \in fresh : at[f] \in (last + 1) .. (last + Cardinality(fresh))
  <2> SUFFICES ASSUME NEW f \in fresh PROVE at[f] \in (last + 1) .. (last + Cardinality(fresh))
    OBVIOUS
  <2>1. Cardinality(fresh) \in Nat
    BY <1>4, FS_CardinalityType
  <2> HIDE DEF at
  <2>2. PICK k \in Nat : at[f] = last + 1 + k /\ k < Cardinality(fresh)
    BY <1>7
  <2>3. QED
    BY <1>5, <2>1, <2>2
<1> HIDE DEF at
<1>10. \A f \in fresh : /\ content[at[f]].facts = BlockOf(inside, f)
                        /\ content[at[f]].legacy = FALSE
  <2> SUFFICES ASSUME NEW f \in fresh
               PROVE  content[at[f]] = [facts |-> BlockOf(inside, f), legacy |-> FALSE]
    OBVIOUS
  <2>1. (CHOOSE g \in fresh : at[g] = at[f]) = f
    BY <1>8
  <2>2. QED
    BY <2>1
<1>11. table' = [n \in (Rows \ gone) \cup new |-> IF n \in new THEN content[n] ELSE table[n]]
  <2>1. \A n : n \in new <=> \E f \in fresh : at[f] = n
    OBVIOUS
  <2>2. \A n \in new : content[n] = [facts |-> BlockOf(inside, CHOOSE f \in fresh : at[f] = n),
                                     legacy |-> FALSE]
    OBVIOUS
  <2> DEFINE told(n) == IF \E f \in fresh : at[f] = n
                        THEN [facts |-> BlockOf(inside, CHOOSE f \in fresh : at[f] = n), legacy |-> FALSE]
                        ELSE table[n]
             asked(n) == IF n \in new THEN content[n] ELSE table[n]
  <2> HIDE DEF new, content, gone
  <2>3. \A n : told(n) = asked(n)
    BY <2>1, <2>2
  <2>4. table' = [n \in (Rows \ gone) \cup new |-> told(n)]
    BY <1>6, Zenon
  <2> HIDE DEF told, asked
  <2>5. table' = [n \in (Rows \ gone) \cup new |-> asked(n)]
    BY <2>3, <2>4
  <2>6. QED
    BY <2>5, Zenon DEF asked
<1> HIDE DEF content
<1>12. \A n \in new : \E f \in fresh : n = at[f] /\ content[n].facts = BlockOf(inside, f)
  BY <1>10
<1>13. \A n \in Rows, f \in inside : f \in table[n].facts => n \in gone
  <2> SUFFICES ASSUME NEW n \in Rows, NEW f \in inside, f \in table[n].facts PROVE n \in gone
    OBVIOUS
  <2>1. table[n].facts \in SUBSET StoredFacts /\ table[n].facts # {} /\ OneRange(table[n].facts)
    BY <1>2 DEF TableIsSound
  <2>2. Min(table[n].facts) \in table[n].facts
    BY <2>1, FactNumbers, MinIsLeast
  <2>3. Min(table[n].facts) \in inside
    BY <2>1, <2>2 DEF OneRange, inside
  <2>4. QED
    BY <2>3
<1>14. \A n \in gone : table[n].facts \in SUBSET inside
  <2> SUFFICES ASSUME NEW n \in gone, NEW f \in table[n].facts PROVE f \in inside
    OBVIOUS
  <2>1. table[n].facts \in SUBSET StoredFacts /\ OneRange(table[n].facts)
    BY <1>2 DEF TableIsSound
  <2>2. Min(table[n].facts) \in table[n].facts
    BY <2>1, FactNumbers, MinIsLeast
  <2>3. QED
    BY <2>1, <2>2 DEF OneRange, inside
<1>15. TableIsSound'
  <2>1. new \in SUBSET (Nat \ {0}) /\ IsFiniteSet(new) /\ new \cap Rows = {}
    <3>1. Cardinality(fresh) \in Nat
      BY <1>4, FS_CardinalityType
    <3>2. IsFiniteSet((last + 1) .. (last + Cardinality(fresh)))
      BY <1>5, <3>1, FS_Interval
    <3>3. new \in SUBSET ((last + 1) .. (last + Cardinality(fresh)))
      BY <1>9
    <3> HIDE DEF new
    <3>4. IsFiniteSet(new)
      BY <3>2, <3>3, FS_Subset
    <3>5. \A n \in new : n \in Nat /\ n > last
      BY <1>5, <3>1, <3>3
    <3>6. \A n \in new : n \in Nat \ {0} /\ n \notin Rows
      BY <1>5, <3>5
    <3>7. QED
      BY <3>4, <3>6
  <2>2. \A n \in new : /\ content[n].facts \in SUBSET StoredFacts /\ content[n].facts # {}
                       /\ OneRange(content[n].facts)
    <3>1. \A f \in fresh : /\ f \in BlockOf(inside, f) /\ BlockOf(inside, f) \in SUBSET inside
                           /\ OneRange(BlockOf(inside, f))
      BY <1>3, BlocksPart
    <3>2. QED
      BY <1>3, <1>12, <3>1
  <2>3. ASSUME NEW f \in StoredFacts
        PROVE  (\E n \in gone : f \in table[n].facts) <=> (\E n \in new : f \in content[n].facts)
    <3>1. (\E n \in gone : f \in table[n].facts) => f \in inside
      BY <1>14
    <3>2. f \in inside => \E n \in gone : f \in table[n].facts
      BY <1>2, <1>13 DEF TableIsSound
    <3>3. ASSUME f \in inside PROVE \E n \in new : f \in content[n].facts
      <4>1. PICK g \in fresh : f \in BlockOf(inside, g)
        BY <1>3, <3>3, LeadersPart DEF fresh
      <4>2. at[g] \in new
        OBVIOUS
      <4>3. f \in content[at[g]].facts
        BY <1>10, <4>1
      <4>4. QED
        BY <4>2, <4>3
    <3>4. ASSUME NEW n \in new, f \in content[n].facts PROVE f \in inside
      <4>1. PICK g \in fresh : content[n].facts = BlockOf(inside, g)
        BY <1>12
      <4>2. g \in inside /\ BlockOf(inside, g) \in SUBSET inside
        BY <1>3, BlocksPart
      <4>3. QED
        BY <3>4, <4>1, <4>2
    <3>5. QED
      BY <3>1, <3>2, <3>3, <3>4
  <2>4. \A n, m \in new : n # m => content[n].facts \cap content[m].facts = {}
    BY <1>3, <1>12, LeadersPart DEF fresh
  <2>5. gone \in SUBSET Rows
    OBVIOUS
  <2> HIDE DEF gone, new
  <2>6. Replaced(gone, new, content)
    BY <1>11, <2>1, <2>2, <2>3, <2>4, <2>5 DEF Replaced
  <2>7. QED
    BY <1>2, <2>6, ReplaceRows
<1>16. UpgradeIsSound'
  BY <1>1 DEF RepackInv, UpgradeIsSound, RewriteRange
<1>17. PackingIsSound' /\ revision' \in Nat /\ passes'.count \in Nat
  BY <1>1 DEF RepackInv, PackingIsSound, RewriteRange
<1>18. QED
  BY <1>15, <1>16, <1>17 DEF RepackInv

(* The steps that leave the table as it is.                                *)
LEMMA MarksKeep ==
  ASSUME RepackInv,
         \/ BeginUpgrade \/ UpgradeProved \/ FinishUpgrade
         \/ BeginPacking \/ PackingProved \/ FinishPacking \/ UNCHANGED repackVars
  PROVE  RepackInv'
<1>1. UNCHANGED table
  BY DEF BeginUpgrade, UpgradeProved, FinishUpgrade, BeginPacking, PackingProved, FinishPacking,
         repackVars
<1>2. TableIsSound'
  BY <1>1 DEF RepackInv, TableIsSound, Rows
<1>3. revision' \in Nat /\ passes'.count \in Nat
  BY DEF RepackInv, BeginUpgrade, UpgradeProved, FinishUpgrade, BeginPacking, PackingProved,
         FinishPacking, repackVars
<1>4. UpgradeIsSound'
  <2>1. CASE BeginUpgrade \/ UpgradeProved
    BY <1>1, <2>1 DEF RepackInv, UpgradeIsSound, BeginUpgrade, UpgradeProved, Rows
  <2>2. CASE FinishUpgrade
    BY <2>2 DEF UpgradeIsSound, FinishUpgrade, Off
  <2>3. CASE BeginPacking \/ PackingProved \/ FinishPacking \/ UNCHANGED repackVars
    BY <1>1, <2>3 DEF RepackInv, UpgradeIsSound, BeginPacking, PackingProved, FinishPacking,
                      repackVars, Rows
  <2>4. QED
    BY <2>1, <2>2, <2>3
<1>5. PackingIsSound'
  <2>1. CASE BeginUpgrade
    BY <2>1 DEF RepackInv, UpgradeIsSound, PackingIsSound, BeginUpgrade
  <2>2. CASE UpgradeProved \/ FinishUpgrade
    BY <2>2 DEF RepackInv, UpgradeIsSound, PackingIsSound, UpgradeProved, FinishUpgrade
  <2>3. CASE BeginPacking
    <3> DEFINE last == Max(Rows \cup {0})
    <3>1. (Rows \cup {0}) \in SUBSET Nat /\ (Rows \cup {0}) # {} /\ Rows \in SUBSET (Nat \ {0})
      BY DEF RepackInv, TableIsSound
    <3>2. IsFiniteSet(Rows) /\ IsFiniteSet(Rows \cup {0})
      BY FS_AddElement DEF RepackInv, TableIsSound
    <3>3. last \in Nat /\ \A n \in Rows : n <= last
      BY <3>1, <3>2, MaxIsMost
    <3>4. Cardinality(Rows) \in Nat /\ revision + 1 \in Nat
      BY <3>2, FS_CardinalityType DEF RepackInv
    <3>5. /\ packing' = [phase |-> "pack_blocks", maxOldRow |-> last, cursor |-> 0,
                         nextRow |-> last + 1, blocks |-> Cardinality(Rows), packed |-> 0,
                         revision |-> revision + 1]
          /\ version' = 3 /\ Rows' = Rows
      BY <1>1, <2>3 DEF BeginPacking, Rows
    <3> HIDE DEF last
    <3>6. packing' \in PackingTypes
      BY <3>3, <3>4, <3>5 DEF PackingTypes
    <3>7. PackedSoFar'
      <4>1. \A n \in Rows : n > 0 /\ n < last + 1
        BY <3>1, <3>3
      <4>2. (last + 1) .. last = {} /\ last < last + 1
        BY <3>3
      <4>3. /\ packing'.phase = "pack_blocks" /\ packing'.cursor = 0
            /\ packing'.maxOldRow = last /\ packing'.nextRow = last + 1
        BY <3>5
      <4>4. packing'.maxOldRow < packing'.nextRow
        BY <4>2, <4>3, Zenon
      <4>5. (packing'.maxOldRow + 1) .. (packing'.nextRow - 1) \subseteq Rows'
        <5>1. packing'.maxOldRow + 1 = last + 1 /\ packing'.nextRow - 1 = last
          BY <3>3, <4>3
        <5>2. QED
          BY <4>2, <5>1
      <4>6. \A n \in Rows' : n < packing'.nextRow /\ n > packing'.cursor
        BY <3>5, <4>1, <4>3, Zenon
      <4>7. QED
        BY <4>3, <4>4, <4>5, <4>6, Zenon DEF PackedSoFar
    <3>8. QED
      BY <3>5, <3>6, <3>7 DEF PackingIsSound
  <2>4. CASE PackingProved
    <3>1. version = 3 /\ packing \in PackingTypes /\ PackedSoFar
      BY <2>4 DEF RepackInv, PackingIsSound, PackingProved, Off
    <3>2. /\ packing' = [packing EXCEPT !.phase = "reclaim", !.revision = @ + 1]
          /\ version' = 3 /\ Rows' = Rows
      BY <1>1, <2>4, <3>1 DEF PackingProved, Rows
    <3>3. OldRows = {}
      BY <2>4, PackingBatchFacts DEF PackingProved
    <3>4. /\ packing' \in PackingTypes
          /\ packing'.maxOldRow = packing.maxOldRow /\ packing'.nextRow = packing.nextRow
      <4>1. packing.revision + 1 \in Nat
        BY <3>1 DEF PackingTypes
      <4>2. packing' \in PackingTypes
        BY <3>1, <3>2, <4>1, Zenon DEF PackingTypes
      <4>3. packing'.maxOldRow = packing.maxOldRow /\ packing'.nextRow = packing.nextRow
        BY <3>1, <3>2 DEF PackingTypes
      <4>4. QED
        BY <4>2, <4>3
    <3>5. \A n \in Rows : n > packing.maxOldRow
      <4>1. Rows \in SUBSET Nat /\ packing.maxOldRow \in Nat /\ packing.cursor \in Nat
        BY <3>1 DEF RepackInv, TableIsSound, PackingTypes
      <4>2. \A n \in Rows : n > packing.maxOldRow \/ n > packing.cursor
        BY <3>1, Zenon DEF PackedSoFar
      <4>3. QED
        BY <3>3, <4>1, <4>2 DEF OldRows
    <3>6. PackedSoFar'
      BY <3>1, <3>2, <3>4, <3>5 DEF PackedSoFar
    <3>7. QED
      BY <3>2, <3>4, <3>6 DEF PackingIsSound
  <2>5. CASE FinishPacking
    BY <2>5 DEF PackingIsSound, FinishPacking
  <2>6. CASE UNCHANGED repackVars
    BY <2>6 DEF RepackInv, PackingIsSound, PackedSoFar, repackVars, Rows
  <2>7. QED
    BY <2>1, <2>2, <2>3, <2>4, <2>5, <2>6
<1>6. QED
  BY <1>2, <1>3, <1>4, <1>5 DEF RepackInv

LEMMA RepackStepKeeps == RepackInv /\ [RepackNext]_repackVars => RepackInv'
<1> SUFFICES ASSUME RepackInv, [RepackNext]_repackVars PROVE RepackInv'
  OBVIOUS
<1>1. CASE \/ BeginUpgrade \/ UpgradeProved \/ FinishUpgrade
           \/ BeginPacking \/ PackingProved \/ FinishPacking \/ UNCHANGED repackVars
  BY <1>1, MarksKeep
<1>2. CASE UpgradeBlocks
  BY <1>2, UpgradeBlocksKeeps
<1>3. CASE PackBlocks
  BY <1>3, PackBlocksKeeps
<1>4. CASE \E f \in StoredFacts : RewriteRange(OwnerOf[f], RangeOf[f])
  BY <1>4, RewriteRangeKeeps
<1>5. QED
  BY <1>1, <1>2, <1>3, <1>4 DEF RepackNext

(* The table of exceptions is sound at every step of both passes.          *)
THEOREM RepackIsSound == RepackSpec => []RepackInv
<1>1. QED
  BY RepackStarts, RepackStepKeeps, PTL DEF RepackSpec

(* Every fact is in one row, whatever transaction of the upgrade or the    *)
(* packing committed last, and whatever range was written again between    *)
(* two packings.                                                           *)
THEOREM FactsAreOnce == RepackSpec => []EveryFactOnce
<1>1. RepackInv => EveryFactOnce
  <2> SUFFICES ASSUME RepackInv, NEW f \in StoredFacts
               PROVE  Cardinality({n \in Rows : f \in table[n].facts}) = 1
    BY DEF EveryFactOnce
  <2>1. TableIsSound
    BY DEF RepackInv
  <2>2. PICK n \in Rows : f \in table[n].facts
    BY <2>1 DEF TableIsSound
  <2>3. \A m \in Rows : f \in table[m].facts => m = n
    BY <2>1, <2>2 DEF TableIsSound
  <2>4. {m \in Rows : f \in table[m].facts} = {n}
    BY <2>2, <2>3
  <2>5. QED
    BY <2>4, FS_Singleton
<1>2. QED
  BY <1>1, RepackIsSound, PTL

(* A packing that finishes leaves the blocks in one run of row numbers,    *)
(* and its receipt names the revision it leaves.                           *)
THEOREM PackingIsDense == RepackSpec => PackedIsDense
<1>1. ASSUME RepackInv, [RepackNext]_repackVars, passes'.count > passes.count
      PROVE  /\ Rows = (packing.maxOldRow + 1) .. (packing.maxOldRow + Cardinality(Rows))
             /\ passes'.revision = revision'
  <2>1. UNCHANGED passes => FALSE
    BY <1>1 DEF RepackInv
  <2>2. FinishPacking
    BY <1>1, <2>1 DEF RepackNext, BeginUpgrade, UpgradeBlocks, UpgradeProved, FinishUpgrade,
                      BeginPacking, PackBlocks, PackingProved, RewriteRange, repackVars
  <2>3. packing \in PackingTypes /\ PackedSoFar /\ packing.phase = "reclaim"
    BY <1>1, <2>2 DEF RepackInv, PackingIsSound, FinishPacking, Off
  <2>4. packing.maxOldRow \in Nat /\ packing.nextRow \in Nat /\ packing.maxOldRow < packing.nextRow
    BY <2>3 DEF PackingTypes, PackedSoFar
  <2>5. Rows = (packing.maxOldRow + 1) .. (packing.nextRow - 1)
    <3>1. Rows \in SUBSET Nat
      BY <1>1 DEF RepackInv, TableIsSound
    <3>2. \A n \in Rows : n < packing.nextRow /\ n > packing.maxOldRow
      BY <2>3, Zenon DEF PackedSoFar
    <3>3. (packing.maxOldRow + 1) .. (packing.nextRow - 1) \subseteq Rows
      BY <2>3 DEF PackedSoFar
    <3>4. \A n \in Rows : n \in (packing.maxOldRow + 1) .. (packing.nextRow - 1)
      BY <2>4, <3>1, <3>2
    <3>5. QED
      BY <3>3, <3>4
  <2>6. Cardinality(Rows) = packing.nextRow - 1 - packing.maxOldRow
    <3> DEFINE k == packing.nextRow - 1 - packing.maxOldRow
               a == packing.maxOldRow + 1
    <3>1. k \in Nat /\ a \in Nat /\ packing.nextRow - 1 = a + k - 1
      BY <2>4
    <3> HIDE DEF k, a
    <3>2. Cardinality(a .. (a + k - 1)) = k
      BY <3>1, RunIsFinite
    <3>3. QED
      BY <2>5, <3>1, <3>2 DEF a, k
  <2>7. packing.maxOldRow + Cardinality(Rows) = packing.nextRow - 1
    BY <2>4, <2>6
  <2>8. passes'.revision = revision'
    BY <2>2 DEF FinishPacking
  <2>9. QED
    BY <2>5, <2>7, <2>8, Zenon
<1>2. QED
  BY <1>1, RepackIsSound, PTL DEF RepackSpec, PackedIsDense
=============================================================================
