----------------------------- MODULE MCProgress -----------------------------
(* Five components that must come to an end, each in an instance of its own: *)
(* the initial state names the one that runs, the others stand still.  They *)
(* share no variable and call each other in none of their steps, so one run *)
(* of TLC checks what five would.                                           *)
EXTENDS TranscriptScan, ArchiveRecovery, AppLifecycle, EvidenceWatcher,
        TrajectoryMigration, TLC

CONSTANTS c1, c2, f1, k1, l1, l2

VARIABLE running

progressVars == <<running, scanVars, archiveVars, lifeVars, watcherVars, migrationVars>>

SameKey == [c \in ScanCallers |-> k1]

\* The positions of the facts of three rows, and what today's decoder finds:
\* one fact is no longer decoded, one is decoded that was not.
OldPositions == <<{1, 2}, {1}, {2}>>
NewPositions == <<{2}, {1, 2}, {2}>>

\* A component that stands still does so in one of its initial states.
AtRestElsewhere ==
    /\ running # "scan" => text = [f \in Transcripts |-> Gone]
    /\ running # "archive" => access
    /\ running # "migration" => inputKind = "facts"

ProgressInit ==
    /\ running \in {"scan", "archive", "life", "watcher", "migration"}
    /\ ScanInit /\ ArchiveInit /\ LifeInit /\ WatcherInit /\ MigrationInit
    /\ AtRestElsewhere

ProgressNext ==
    /\ UNCHANGED running
    /\ \/ /\ running = "scan" /\ ScanNext
          /\ UNCHANGED <<archiveVars, lifeVars, watcherVars, migrationVars>>
       \/ /\ running = "archive" /\ ArchiveNext
          /\ UNCHANGED <<scanVars, lifeVars, watcherVars, migrationVars>>
       \/ /\ running = "life" /\ LifeNext
          /\ UNCHANGED <<scanVars, archiveVars, watcherVars, migrationVars>>
       \/ /\ running = "watcher" /\ WatcherNext
          /\ UNCHANGED <<scanVars, archiveVars, lifeVars, migrationVars>>
       \/ /\ running = "migration" /\ MigrationNext
          /\ UNCHANGED <<scanVars, archiveVars, lifeVars, watcherVars>>

\* Each component's own fairness, owed by the one that runs.
ProgressFairness ==
    /\ \A c \in ScanCallers :
          WF_scanVars(running = "scan" /\ (ProceedScan(c) \/ CancelWait(c)))
    /\ WF_archiveVars(running = "archive" /\ WorkerStep)
    /\ SF_archiveVars(running = "archive" /\ AuditDue)
    /\ WF_archiveVars(running = "archive" /\ FreeDisk)
    /\ WF_lifeVars(running = "life" /\ ShutdownStep)
    /\ WF_lifeVars(running = "life" /\ DeadlinePasses)
    /\ WF_lifeVars(running = "life" /\ RecoveryEnds)
    /\ WF_lifeVars(running = "life" /\ \E g \in live : SamplerLeaves(g, FALSE))
    /\ \A c \in Exits : WF_lifeVars(running = "life" /\ ReturnFromExit(c))
    /\ \A w \in Watchers : /\ WF_watcherVars(running = "watcher" /\ StreamStep(w))
                           /\ WF_watcherVars(running = "watcher" /\ ReaderStep(w))
    /\ \A c \in Callers : WF_watcherVars(running = "watcher" /\ SnapshotStep(c))
    /\ WF_watcherVars(running = "watcher" /\ StopStep)
    /\ WF_migrationVars(running = "migration" /\ (CopyStep \/ CutoverStep))

ProgressSpec == ProgressInit /\ [][ProgressNext]_progressVars /\ ProgressFairness

\* The migration that runs, if it is the one, finishes (source_migration.go,
\* migrateSourceIndex): see UninterruptedMigrationFinishes.
MigrationFinishes == []<>(running = "migration") => UninterruptedMigrationFinishes
=============================================================================
