---------------------------- MODULE HistoryFile -----------------------------
(***************************************************************************)
(* history.jsonl, its monthly gzip partitions and the retained samples in  *)
(* memory: load, compaction at load, the rewrite that strips old rolling   *)
(* rates, and the append of one sample per snapshot.  Every operation      *)
(* holds the file lock; crashes, refused writes and a read that fails      *)
(* halfway fall between and inside them.                                   *)
(*                                                                         *)
(* A row is [at, rate]: its time and whether it still carries the rolling  *)
(* rate of an older version.  A line is a row or Garbage.                  *)
(***************************************************************************)
EXTENDS Integers, Sequences, FiniteSets, SequencesExt

CONSTANTS OldRows,     \* the hot file an older version left
          MonthOf,     \* time -> archive month
          HotDays,     \* historyHotWindow
          KeepDays,    \* historyRetentionWindow
          ExcessLimit, \* historyCompactionExcessLineLimit
          LastDay,     \* bound on the clock
          MaxHistoryCrashes,
          MaxHistoryFaults  \* bound on refused writes and broken reads

Garbage == [at |-> -1, rate |-> FALSE]

ASSUME HistoryAssumption ==
  /\ OldRows \in Seq([at : 0..LastDay, rate : BOOLEAN])
  /\ \A t \in 0..LastDay : MonthOf[t] \in Nat
  /\ \A s, t \in 0..LastDay : s <= t => MonthOf[s] <= MonthOf[t]
  /\ {HotDays, KeepDays, ExcessLimit, LastDay, MaxHistoryCrashes, MaxHistoryFaults} \subseteq Nat
  /\ HotDays <= KeepDays

VARIABLES today,     \* the clock
          hotFile,      \* the hot file's complete lines
          cut,       \* bytes of a torn line follow them
          months,    \* month -> lines of its partition
          samples,   \* state.samples: the rows kept in memory
          step,      \* "off", "archive", "rewrite", "migrate" or "run"
          toArchive, \* months archiveColdRows still has to write
          partial,   \* the load returned an error with what it had read
          kept,   \* times of rows whose append returned without error
          refused,   \* times of rows whose append returned an error
          lossy,     \* a rewrite followed a partial load
          hcrashes, hfaults

histVars == <<today, hotFile, cut, months, samples, step, toArchive, partial,
              kept, refused, lossy, hcrashes, hfaults>>
diskVars == <<hotFile, cut, months>>
ghostVars == <<kept, refused, lossy>>

Months == {MonthOf[t] : t \in 0..LastDay}
Times(rows) == {r.at : r \in rows}
IsRow(line) == line # Garbage

HistInit ==
  /\ today = IF OldRows = <<>> THEN 0 ELSE Last(OldRows).at
  /\ hotFile = OldRows /\ cut = FALSE
  /\ months = [m \in Months |-> <<>>]
  /\ samples = {} /\ step = "off" /\ toArchive = {} /\ partial = FALSE
  /\ kept = {OldRows[i].at : i \in DOMAIN OldRows} /\ refused = {} /\ lossy = FALSE
  /\ hcrashes = 0 /\ hfaults = 0

-----------------------------------------------------------------------------
(* Load                                                                     *)

\* appendRetainedHistorySample: a row of the same time is replaced, rows
\* before the cutoff go
Retain(rows, row, cutoff) ==
  {r \in rows : r.at >= cutoff /\ r.at # row.at} \union {row}

ConsumeLine(rows, line, cutoff) ==
  IF IsRow(line) /\ line.at >= cutoff THEN Retain(rows, line, cutoff) ELSE rows

\* consumeHistoryLine over lines in their order
Consume(rows, lines, cutoff) ==
  LET after[i \in 0..Len(lines)] ==
        IF i = 0 THEN rows ELSE ConsumeLine(after[i - 1], lines[i], cutoff)
  IN after[Len(lines)]

\* archivePartitionsSince: partitions of months that may reach into the window
PartitionsSince(cutoff) ==
  {m \in Months : cutoff < 0 \/ m >= MonthOf[cutoff]}

\* The partitions' rows.  A partition holds rows of its month only, so none
\* replaces a row of another, in whatever order they are read.
Archived(cutoff) ==
  UNION {Consume({}, months[m], cutoff) : m \in PartitionsSince(cutoff)}

IsHot(row) == row.at >= today - HotDays

\* A torn line is a line for the scanner, an unreadable one
HotLines == IF cut THEN Append(hotFile, Garbage) ELSE hotFile

NeedsCompacting(lines, rows) ==
  LET retained == Cardinality({r \in rows : IsHot(r)})
      excess   == lines - retained
  IN excess > 0 /\ (excess > ExcessLimit \/ excess * 4 > retained)

ColdMonths(rows) == {MonthOf[r.at] : r \in {s \in rows : ~IsHot(s)}}

LoadHistory ==
  /\ step = "off"
  /\ LET cutoff == today - KeepDays
         rows   == Consume(Archived(cutoff), HotLines, cutoff)
     IN /\ samples' = rows
        /\ IF NeedsCompacting(Len(HotLines), rows)
           THEN /\ toArchive' = ColdMonths(rows)
                /\ step' = IF toArchive' = {} THEN "rewrite" ELSE "archive"
           ELSE toArchive' = {} /\ step' = "migrate"
  /\ partial' = FALSE
  /\ UNCHANGED <<today, diskVars, ghostVars, hcrashes, hfaults>>

\* An unreadable partition leaves nothing, a read of the hot file that fails
\* after n lines leaves what it had; the caller logs the error and goes on.
LoadBreaks(n) ==
  /\ step = "off" /\ hfaults < MaxHistoryFaults
  /\ LET cutoff == today - KeepDays
     IN samples' = IF n < 0 THEN {}
                   ELSE Consume(Archived(cutoff), SubSeq(hotFile, 1, n), cutoff)
  /\ partial' = TRUE /\ toArchive' = {} /\ step' = "migrate"
  /\ hfaults' = hfaults + 1
  /\ UNCHANGED <<today, diskVars, ghostVars, hcrashes>>

-----------------------------------------------------------------------------
(* Compaction: first the cold rows become durable in their partitions, one  *)
(* month after the other, then the hot file is replaced by the hot rows.    *)

\* Times in their order: each stands behind as many as are earlier.
InOrder(times) ==
  [i \in 1..Cardinality(times) |->
     CHOOSE t \in times : Cardinality({u \in times : u < t}) = i - 1]

\* Retained rows have one time each
ByTime(rows) ==
  [i \in 1..Cardinality(Times(rows)) |-> CHOOSE r \in rows : r.at = InOrder(Times(rows))[i]]

\* Lines the partition already holds are not written again
Merged(lines, rows) == lines \o ByTime(rows \ ToSet(lines))

ArchiveMonth ==
  /\ step = "archive"
  /\ LET m == CHOOSE m \in toArchive : \A k \in toArchive : m <= k
         cold == {r \in samples : ~IsHot(r) /\ MonthOf[r.at] = m}
     IN /\ months' = [months EXCEPT ![m] = Merged(@, cold)]
        /\ toArchive' = toArchive \ {m}
  /\ step' = IF toArchive' = {} THEN "rewrite" ELSE "archive"
  /\ UNCHANGED <<today, hotFile, cut, samples, partial, ghostVars, hcrashes, hfaults>>

RewriteHot ==
  /\ step = "rewrite"
  /\ hotFile' = ByTime({r \in samples : IsHot(r)}) /\ cut' = FALSE
  /\ step' = "migrate"
  /\ UNCHANGED <<today, months, samples, toArchive, partial, ghostVars, hcrashes, hfaults>>

\* Mutant: the hot file is replaced although a partition could not be written
CompactionFailsSilently ==
  /\ step \in {"archive", "rewrite"} /\ hfaults < MaxHistoryFaults
  /\ step' = "rewrite" /\ toArchive' = {}
  /\ hfaults' = hfaults + 1
  /\ UNCHANGED <<today, diskVars, samples, partial, ghostVars, hcrashes>>

\* A failed write ends the load with an error; everything was read, and what
\* is on disk stays.
CompactionFails ==
  /\ step \in {"archive", "rewrite"} /\ hfaults < MaxHistoryFaults
  /\ step' = "migrate" /\ toArchive' = {}
  /\ hfaults' = hfaults + 1
  /\ UNCHANGED <<today, diskVars, samples, partial, ghostVars, hcrashes>>

-----------------------------------------------------------------------------
(* migrateLegacyThroughputHistory: once the rates are in throughput.jsonl,  *)
(* the hot file is rewritten from memory, cold rows included.               *)

WithRate == {r \in samples : r.rate}
Stripped == {[r EXCEPT !.rate = FALSE] : r \in samples}

MigrateRates ==
  /\ step = "migrate"
  /\ step' = "run"
  /\ IF WithRate = {}
     THEN UNCHANGED <<hotFile, cut, samples, lossy>>
     ELSE /\ hotFile' = ByTime(Stripped) /\ cut' = FALSE
          /\ samples' = Stripped
          /\ lossy' = (lossy \/ partial)
  /\ UNCHANGED <<today, months, toArchive, partial, kept, refused, hcrashes, hfaults>>

MigrationFails ==
  /\ step = "migrate" /\ WithRate # {} /\ hfaults < MaxHistoryFaults
  /\ step' = "run" /\ hfaults' = hfaults + 1
  /\ UNCHANGED <<today, diskVars, samples, toArchive, partial, ghostVars, hcrashes>>

-----------------------------------------------------------------------------
(* Append                                                                   *)

NewRow == [at |-> today, rate |-> FALSE]

\* A row written after a torn line shares its line with it
Appended(row) == Append(hotFile, IF cut THEN Garbage ELSE row)

Remembered == Retain(samples, NewRow, today - KeepDays)

RecordSample ==
  /\ step = "run" /\ today \notin kept
  /\ hotFile' = Appended(NewRow) /\ cut' = FALSE
  /\ kept' = IF cut THEN kept ELSE kept \union {today}
  /\ refused' = IF cut THEN refused \union {today} ELSE refused
  /\ samples' = Remembered
  /\ UNCHANGED <<today, months, step, toArchive, partial, lossy, hcrashes, hfaults>>

\* The write fails before, inside or after the line; memory keeps the sample.
RecordFails(written) ==
  /\ step = "run" /\ today \notin kept /\ hfaults < MaxHistoryFaults
  /\ CASE written = "nothing" -> UNCHANGED <<hotFile, cut>>
       [] written = "some"    -> cut' = TRUE /\ UNCHANGED hotFile
       [] written = "all"     -> hotFile' = Appended(NewRow) /\ cut' = FALSE
  /\ refused' = refused \union {today}
  /\ samples' = Remembered
  /\ hfaults' = hfaults + 1
  /\ UNCHANGED <<today, months, step, toArchive, partial, kept, lossy, hcrashes>>

NextDay ==
  /\ step \in {"off", "run"} /\ today < LastDay
  /\ today' = today + 1
  /\ UNCHANGED <<diskVars, samples, step, toArchive, partial, ghostVars, hcrashes, hfaults>>

\* The process dies; an append in progress may leave part of its line.
CrashHistory(tears) ==
  /\ step # "off" /\ hcrashes < MaxHistoryCrashes
  /\ tears => step = "run"
  /\ step' = "off" /\ samples' = {} /\ toArchive' = {} /\ partial' = FALSE
  /\ cut' = (cut \/ tears)
  /\ hcrashes' = hcrashes + 1
  /\ UNCHANGED <<today, hotFile, months, ghostVars, hfaults>>

HistNext ==
  \/ LoadHistory
  \/ \E n \in -1..Len(hotFile) : LoadBreaks(n)
  \/ ArchiveMonth \/ RewriteHot \/ CompactionFails
  \/ MigrateRates \/ MigrationFails
  \/ RecordSample
  \/ \E written \in {"nothing", "some", "all"} : RecordFails(written)
  \/ NextDay
  \/ \E tears \in BOOLEAN : CrashHistory(tears)

HistSpec == HistInit /\ [][HistNext]_histVars

-----------------------------------------------------------------------------
(* Correctness                                                              *)

OnDisk == {l.at : l \in {k \in ToSet(hotFile) \union UNION {ToSet(months[m]) : m \in Months} : IsRow(k)}}

\* A row that was appended without error to an intact file, and is still
\* inside the retention window, is in the hot file or in a partition,
\* whatever crashed or was refused during a compaction -- unless the rate
\* migration rewrote the file from a load that had failed halfway.
RowsSurvive ==
  ~lossy => \A t \in kept : t >= today - KeepDays => t \in OnDisk

\* While the application runs after a complete load, memory shows every
\* durable row of the window and nothing but rows it was handed.
ViewIsTheFile ==
  step = "run" /\ ~partial /\ ~lossy =>
    /\ {t \in kept : t >= today - KeepDays} \subseteq Times(samples)
    /\ Times(samples) \subseteq kept \union refused

\* Compactions offer the same cold rows again and again; a partition never
\* holds a line twice.
ArchiveHoldsALineOnce == \A m \in Months : IsInjective(months[m])

\* The history keeps what it acknowledged, on disk, in memory and once.
HistoryIsKept == RowsSurvive /\ ViewIsTheFile /\ ArchiveHoldsALineOnce
=============================================================================
