------------------------- MODULE ThroughputJournal -------------------------
(***************************************************************************)
(* throughput.jsonl, its monthly archives and the store that reads and     *)
(* appends them (throughput_history.go, throughput_maintenance.go,         *)
(* throughput_recovery_history.go), across crashes and failed writes.      *)
(*                                                                         *)
(* The hot journal is a sequence of lines, `tail` the bytes after its last *)
(* newline: none, garbage, or a whole record whose newline is missing.  A  *)
(* key (slot) is a minute or a legacy rate.  Archives are kept per key; a  *)
(* month's partition is replaced in one rename.  Every operation holds the *)
(* store's mutex and the file lock, so only a crash falls between steps.   *)
(***************************************************************************)
EXTENDS ThroughputFacts, FiniteSets, SequencesExt

CONSTANTS
  Minutes,      \* minute ends the sampler and the replay may record
  Legacy,       \* rolling rates still inside history.jsonl
  LegacyAt,     \* their times
  MonthOf,      \* the archive month of a time
  NoSlot,
  HotWindow,    \* historyHotWindow
  Retention,    \* historyRetentionWindow
  ColdRoll,     \* an hour, between two cold rolls
  HotLimit,     \* throughputHotJournalBytes, in lines
  Batch,        \* records per append of a migration or a replay
  MaxNow,       \* bound on the clock
  MaxRevision,  \* bound on the growth of a replayed minute
  MaxCrashes,
  MaxFaults,    \* bound on refused writes and abandoned maintenance
  CanTear       \* whether a write can stop in the middle of a line

Slots == Minutes \cup Legacy

At(s) == IF s \in Legacy THEN LegacyAt[s] ELSE s

ASSUME ConstantsAssumption ==
  /\ Minutes \subseteq Nat /\ IsFiniteSet(Minutes)
  /\ IsFiniteSet(Legacy) /\ Legacy \cap Minutes = {}
  /\ LegacyAt \in [Legacy -> Nat]
  /\ \A s \in Slots : MonthOf[At(s)] \in Nat
  /\ NoSlot \notin Slots
  /\ {HotWindow, Retention, ColdRoll, MaxNow, MaxRevision, MaxCrashes, MaxFaults} \subseteq Nat
  /\ {HotLimit, Batch} \subseteq Nat \ {0}
  /\ CanTear \in BOOLEAN

VARIABLES
  now,              \* minutes
  hot, tail,        \* throughput.jsonl
  archive,          \* throughput.<month>.jsonl.gz
  history,          \* legacy rates history.jsonl still carries
  minutes,          \* store.minutes and store.legacy
  phase,
  maintenance,      \* rows and months maintainThroughputHistoryFile still has to place
  nextMaintenance, nextColdRoll,
  cursor,           \* sampler.lastMinuteEnd
  ledger, dirty,    \* the replay ledger's sums, and throughputRecovery.dirty
  crashes, faults,
  offered           \* minutes for which a measured fact was ever offered

files  == <<hot, tail, archive>>
timers == <<nextMaintenance, nextColdRoll>>
replay == <<ledger, dirty>>
vars   == <<now, files, history, minutes, phase, maintenance, timers, cursor, replay,
            crashes, faults, offered>>

Nothing == [s \in Slots |-> Missing]
Corrupt == [slot |-> NoSlot, fact |-> Missing]
NoMaintenance == [rows |-> Nothing, months |-> {}, back |-> "up"]

Expired(s) == At(s) < now - Retention
Cold(s)    == At(s) < now - HotWindow
Month(s)   == MonthOf[At(s)]

Line(s, fact) == [slot |-> s, fact |-> fact]

(* The keys of S once each, by their time.                                 *)
InOrder(S) ==
  CHOOSE order \in [1..Cardinality(S) -> S] :
    \A i, j \in 1..Cardinality(S) :
      i < j => order[i] # order[j] /\ At(order[i]) <= At(order[j])

(* What a line makes of the facts read before it.                          *)
Apply(view, line) ==
  IF line = Corrupt THEN view ELSE [view EXCEPT ![line.slot] = Fold(@, line.fact)]

(* scanThroughputRecords: every line in turn onto `base`.                  *)
FoldLines(base, lines) ==
  LET folded[i \in 0..Len(lines)] ==
        IF i = 0 THEN base ELSE Apply(folded[i - 1], lines[i])
  IN folded[Len(lines)]

(* What a load reads: the archives, then the hot file, its tail included.  *)
Durable == FoldLines(archive, hot \o tail)

Init ==
  /\ now = 0
  /\ hot = <<>>
  /\ tail = <<>>
  /\ archive = Nothing
  /\ history = Legacy
  /\ minutes = Nothing
  /\ phase = "down"
  /\ maintenance = NoMaintenance
  /\ nextMaintenance = 0
  /\ nextColdRoll = 0
  /\ cursor = 0
  /\ ledger = [m \in Minutes |-> 0]
  /\ dirty = FALSE
  /\ crashes = 0
  /\ faults = 0
  /\ offered = {}

Fault == faults < MaxFaults /\ faults' = faults + 1

Tick ==
  /\ phase \in {"up", "down"}
  /\ now < MaxNow
  /\ now' = now + 1
  /\ UNCHANGED <<files, history, minutes, phase, maintenance, timers, cursor, replay,
                 crashes, faults, offered>>

(***************************************************************************)
(* appendThroughputHistoryRecords.  Nothing repairs a tail: the first line *)
(* written after it becomes part of the same, unreadable line.             *)
(***************************************************************************)
Joined(lines) ==
  IF tail = <<>> THEN hot \o lines ELSE hot \o <<Corrupt>> \o Tail(lines)

(* An empty batch opens no file.                                           *)
Persist(lines) ==
  IF lines = <<>>
  THEN UNCHANGED <<hot, tail>>
  ELSE hot' = Joined(lines) /\ tail' = <<>>

TornAfter(lines, k) ==
  IF ~CanTear \/ k = Len(lines) THEN {}
  ELSE IF k = 0 /\ tail # <<>> THEN {<<Corrupt>>}
  ELSE {<<Corrupt>>, <<lines[k + 1]>>}

(* A write that failed or was cut short: k whole lines and maybe a part.   *)
PersistPartly(lines) ==
  \E k \in 0..Len(lines) :
    /\ hot' = IF k = 0 THEN hot ELSE Joined(SubSeq(lines, 1, k))
    /\ tail' \in TornAfter(lines, k) \cup {IF k = 0 THEN tail ELSE <<>>}

(***************************************************************************)
(* Maintenance: every cold month's partition first, then the hot file.     *)
(***************************************************************************)
BeginMaintenance(journal, torn, back) ==
  IF torn # <<>> \/ \E i \in DOMAIN journal : journal[i] = Corrupt
  THEN phase' = back /\ maintenance' = NoMaintenance
  ELSE LET rows == FoldLines(Nothing, journal)
       IN /\ phase' = "maintain"
          /\ maintenance' = [rows |-> rows, back |-> back,
               months |-> {Month(s) : s \in {r \in Slots : rows[r] # Missing /\ Cold(r)}}]

(* maintainLocked, after a successful append.                              *)
MaintainIfDue ==
  IF now < nextMaintenance
  THEN phase' = "up" /\ UNCHANGED <<maintenance, nextMaintenance>>
  ELSE /\ nextMaintenance' = now + 1
       /\ IF Len(hot') < HotLimit /\ now < nextColdRoll
          THEN phase' = "up" /\ UNCHANGED maintenance
          ELSE BeginMaintenance(hot', <<>>, "up")

ArchiveMonth ==
  LET month == Min(maintenance.months)
  IN /\ phase = "maintain"
     /\ maintenance.months # {}
     /\ archive' = [s \in Slots |->
          IF maintenance.rows[s] # Missing /\ Cold(s) /\ Month(s) = month
          THEN Fold(archive[s], maintenance.rows[s])
          ELSE archive[s]]
     /\ maintenance' = [maintenance EXCEPT !.months = @ \ {month}]
     /\ UNCHANGED <<now, hot, tail, history, minutes, phase, timers, cursor, replay,
                    crashes, faults, offered>>

(* Mutant: the hot file is rewritten before the archives are complete.     *)
ReplaceHotEarly ==
  /\ phase = "maintain"
  /\ hot' = LET kept == InOrder({s \in Slots : maintenance.rows[s] # Missing /\ ~Cold(s)})
            IN [i \in DOMAIN kept |-> Line(kept[i], maintenance.rows[kept[i]])]
  /\ UNCHANGED <<now, tail, archive, history, minutes, phase, maintenance, timers, cursor,
                 replay, crashes, faults, offered>>

ReplaceHot ==
  /\ phase = "maintain"
  /\ maintenance.months = {}
  /\ hot' = LET kept == InOrder({s \in Slots : maintenance.rows[s] # Missing /\ ~Cold(s)})
            IN [i \in DOMAIN kept |-> Line(kept[i], maintenance.rows[kept[i]])]
  /\ phase' = maintenance.back
  /\ nextColdRoll' = IF maintenance.back = "up" THEN now + ColdRoll ELSE nextColdRoll
  /\ maintenance' = NoMaintenance
  /\ UNCHANGED <<now, tail, archive, history, minutes, nextMaintenance, cursor, replay,
                 crashes, faults, offered>>

(* No capacity, or a failed write, sync or rename.                         *)
AbandonMaintenance ==
  /\ Fault
  /\ phase = "maintain"
  /\ phase' = maintenance.back
  /\ maintenance' = NoMaintenance
  /\ UNCHANGED <<now, files, history, minutes, timers, cursor, replay, crashes, offered>>

(***************************************************************************)
(* Start: load, maintain if the file holds many stale lines, migrate.      *)
(***************************************************************************)
NeedsCompaction(lines, kept) == lines > kept /\ (lines - kept) * 4 > kept

Start ==
  LET loaded == [s \in Slots |-> IF Expired(s) THEN Missing ELSE Durable[s]]
      recent == Cardinality({s \in Slots : loaded[s] # Missing /\ ~Cold(s)})
  IN /\ phase = "down"
     /\ minutes' = loaded
     /\ IF NeedsCompaction(Len(hot \o tail), recent)
        THEN BeginMaintenance(hot, tail, "migrate")
        ELSE phase' = "migrate" /\ UNCHANGED maintenance
     /\ cursor' \in {now, now + 1}
     /\ nextMaintenance' = 0
     /\ nextColdRoll' = 0
     /\ dirty' = FALSE
     /\ UNCHANGED <<now, files, history, ledger, crashes, faults, offered>>

(* migrateLegacyThroughputHistory, a batch at a time.                      *)
ToMigrate == {s \in history : ~Expired(s)}

FirstBatch(S, fact(_)) ==
  LET ordered == InOrder(S)
  IN [i \in 1..Min({Batch, Len(ordered)}) |-> Line(ordered[i], fact(ordered[i]))]

LegacyBatch == FirstBatch({s \in ToMigrate : minutes[s] = Missing}, LAMBDA s : LegacyRate)

Merge(lines) ==
  [s \in Slots |-> IF \E i \in DOMAIN lines : lines[i].slot = s
                   THEN lines[CHOOSE i \in DOMAIN lines : lines[i].slot = s].fact
                   ELSE minutes[s]]

MigrateBatch ==
  /\ phase = "migrate"
  /\ LegacyBatch # <<>>
  /\ Persist(LegacyBatch)
  /\ minutes' = Merge(LegacyBatch)
  /\ UNCHANGED <<now, archive, history, phase, maintenance, timers, cursor, replay,
                 crashes, faults, offered>>

RejectBatch ==
  /\ Fault
  /\ phase = "migrate"
  /\ LegacyBatch # <<>>
  /\ PersistPartly(LegacyBatch)
  /\ phase' = "up"
  /\ UNCHANGED <<now, archive, history, minutes, maintenance, timers, cursor, replay,
                 crashes, offered>>

(* Mutant: the old field is removed while batches are still to be written. *)
FinishMigrationEarly ==
  /\ phase = "migrate"
  /\ phase' = "up"
  /\ history' = {}
  /\ UNCHANGED <<now, files, minutes, maintenance, timers, cursor, replay,
                 crashes, faults, offered>>

(* rewriteHistorySampleFile removes the old field in one rename, or fails. *)
FinishMigration ==
  /\ phase = "migrate"
  /\ LegacyBatch = <<>>
  /\ phase' = "up"
  /\ \/ history' = {} /\ UNCHANGED faults
     \/ Fault /\ UNCHANGED history
  /\ UNCHANGED <<now, files, minutes, maintenance, timers, cursor, replay, crashes, offered>>

(***************************************************************************)
(* The sampler's minute facts: flushCompletedMinutesLocked, appendMinute.  *)
(***************************************************************************)
Pruned(view) == [s \in Slots |-> IF s \in Minutes /\ Expired(s) THEN Missing ELSE view[s]]

MinuteFacts == {Online(1), Unavailable}

MinuteDue == /\ phase = "up"
             /\ cursor + 1 \in Minutes
             /\ cursor + 1 <= now

Offer(fact) == offered' = IF Measured(fact) THEN offered \cup {cursor + 1} ELSE offered

(* Before the sampler's coverage, or already known: no write.              *)
SkipMinute ==
  /\ phase = "up"
  /\ cursor + 1 <= now
  /\ cursor + 1 \in Minutes => minutes[cursor + 1].origin = "online"
  /\ cursor' = cursor + 1
  /\ UNCHANGED <<now, files, history, minutes, phase, maintenance, timers, replay,
                 crashes, faults, offered>>

(* pollLocked: more than a window since the last poll restarts coverage.   *)
ObservationGap ==
  /\ phase = "up"
  /\ cursor + 1 < now
  /\ cursor' \in {now, now + 1}
  /\ UNCHANGED <<now, files, history, minutes, phase, maintenance, timers, replay,
                 crashes, faults, offered>>

(* A poll with no minute to flush.                                         *)
IdlePoll == phase = "up" /\ cursor >= now /\ UNCHANGED vars

(* Mutant: memory is updated and the append is left to a later flush.      *)
RecordMinuteInMemory(fact) ==
  /\ MinuteDue
  /\ minutes[cursor + 1].origin # "online"
  /\ minutes' = Merge(<<Line(cursor + 1, fact)>>)
  /\ cursor' = cursor + 1
  /\ Offer(fact)
  /\ UNCHANGED <<now, files, history, phase, maintenance, timers, replay, crashes, faults>>

RecordMinute(fact) ==
  LET line == <<Line(cursor + 1, fact)>>
  IN /\ MinuteDue
     /\ minutes[cursor + 1].origin # "online"
     /\ Persist(line)
     /\ minutes' = Pruned(Merge(line))
     /\ MaintainIfDue
     /\ cursor' = cursor + 1
     /\ Offer(fact)
     /\ UNCHANGED <<now, archive, history, nextColdRoll, replay, crashes, faults>>

(* The append fails; the sampler tries the same minute again later.        *)
RejectMinute(fact) ==
  /\ Fault
  /\ MinuteDue
  /\ minutes[cursor + 1].origin # "online"
  /\ PersistPartly(<<Line(cursor + 1, fact)>>)
  /\ Offer(fact)
  /\ UNCHANGED <<now, archive, history, minutes, phase, maintenance, timers, cursor, replay,
                 crashes>>

(***************************************************************************)
(* The replay: its ledger advances, publish() merges the sums.             *)
(***************************************************************************)
AdvanceLedger(m) ==
  /\ phase = "up"
  /\ m <= now
  /\ ledger[m] < MaxRevision
  /\ ledger' = [ledger EXCEPT ![m] = @ + 1]
  /\ dirty' = TRUE
  /\ UNCHANGED <<now, files, history, minutes, phase, maintenance, timers, cursor,
                 crashes, faults, offered>>

ToPublish == {m \in Minutes : /\ ledger[m] > 0
                              /\ ~Expired(m)
                              /\ ~Measured(minutes[m])
                              /\ minutes[m] # Replayed(ledger[m])}

ReplayBatch == FirstBatch(ToPublish, LAMBDA m : Replayed(ledger[m]))

(* One committed batch of mergeRecoveredMinutes; the last one ends it.     *)
PublishReplay ==
  LET merged == Merge(ReplayBatch)
      last   == Cardinality(ToPublish) <= Batch
  IN /\ phase \in {"up", "publish"}
     /\ dirty
     /\ Persist(ReplayBatch)
     /\ dirty' = ~last
     /\ IF last
        THEN minutes' = Pruned(merged) /\ MaintainIfDue
        ELSE /\ minutes' = merged
             /\ phase' = "publish"
             /\ UNCHANGED <<maintenance, nextMaintenance>>
     /\ UNCHANGED <<now, archive, history, nextColdRoll, cursor, ledger, crashes, faults, offered>>

RejectReplay ==
  /\ Fault
  /\ phase \in {"up", "publish"}
  /\ dirty
  /\ ReplayBatch # <<>>
  /\ PersistPartly(ReplayBatch)
  /\ minutes' = Pruned(minutes)
  /\ phase' = "up"
  /\ UNCHANGED <<now, archive, history, maintenance, timers, cursor, replay, crashes, offered>>

(***************************************************************************)
(* A crash, idle or in the middle of a write.                              *)
(***************************************************************************)
Stop ==
  /\ phase # "down"
  /\ crashes < MaxCrashes
  /\ crashes' = crashes + 1
  /\ phase' = "down"
  /\ minutes' = Nothing
  /\ maintenance' = NoMaintenance
  /\ UNCHANGED <<now, archive, history, timers, cursor, replay, faults>>

CrashIdle == Stop /\ UNCHANGED <<hot, tail, offered>>

CrashInBatch ==
  /\ Stop
  /\ \/ phase = "migrate" /\ PersistPartly(LegacyBatch)
     \/ phase \in {"up", "publish"} /\ dirty /\ PersistPartly(ReplayBatch)
  /\ UNCHANGED offered

CrashInMinute(fact) ==
  /\ Stop
  /\ MinuteDue
  /\ minutes[cursor + 1].origin # "online"
  /\ PersistPartly(<<Line(cursor + 1, fact)>>)
  /\ Offer(fact)

Next ==
  \/ Tick
  \/ ArchiveMonth \/ ReplaceHot \/ AbandonMaintenance
  \/ Start \/ MigrateBatch \/ RejectBatch \/ FinishMigration
  \/ SkipMinute \/ ObservationGap \/ IdlePoll
  \/ \E fact \in MinuteFacts : RecordMinute(fact) \/ RejectMinute(fact) \/ CrashInMinute(fact)
  \/ \E m \in Minutes : AdvanceLedger(m)
  \/ PublishReplay \/ RejectReplay
  \/ CrashIdle \/ CrashInBatch

Spec == Init /\ [][Next]_vars

(***************************************************************************)
(* Properties.                                                             *)
(***************************************************************************)
Facts   == MinuteFacts \cup {LegacyRate} \cup {Replayed(n) : n \in 1..MaxRevision}
Values  == Facts \cup {Missing}
Lines   == [slot : Slots, fact : Facts] \cup {Corrupt}
Phases  == {"down", "migrate", "up", "publish", "maintain"}

(* Every variable keeps its type; work in progress belongs to its phase.   *)
TypeOK ==
  /\ now \in Nat /\ cursor \in Nat /\ crashes \in Nat /\ faults \in Nat
  /\ nextMaintenance \in Nat /\ nextColdRoll \in Nat
  /\ hot \in Seq(Lines)
  /\ tail \in Seq(Lines) /\ Len(tail) <= 1
  /\ archive \in [Slots -> Values]
  /\ history \subseteq Legacy
  /\ minutes \in [Slots -> Values]
  /\ phase \in Phases
  /\ maintenance \in [rows : [Slots -> Values], months : SUBSET Nat, back : {"up", "migrate"}]
  /\ phase # "maintain" => maintenance = NoMaintenance
  /\ ledger \in [Minutes -> Nat] /\ dirty \in BOOLEAN
  /\ offered \subseteq Minutes

(* The files and the view together keep the store's promises: restart      *)
(* restores exactly what was acknowledged, replay never displaces a        *)
(* measurement, and archiving, compaction and their crashes change nothing *)
(* that was acknowledged (architecture.md, "revision journal").            *)
Store == INSTANCE ThroughputStore
           WITH durable <- Durable, memory <- minutes,
                retained <- {s \in Slots : ~Expired(s)}, up <- phase # "down"

StoreSpec == Store!Spec

(* A legacy rate is in the old file or in the journal until it expires,    *)
(* wherever a crash cuts the migration.                                    *)
LegacyKept == \A s \in Legacy : Expired(s) \/ s \in history \/ Durable[s] # Missing

(* No crash leaves the journal in a state of neither file's.               *)
JournalIsSound == TypeOK /\ LegacyKept

(* history_archive.go:20: each crash (or refused write) costs at most the  *)
(* one row being written.                                                  *)
CrashLosesAtMostOneRow ==
  Cardinality({m \in offered : ~Measured(Durable[m])}) <= crashes + faults
=============================================================================
