---------------------------- MODULE ArchiveRecovery ----------------------------
(***************************************************************************)
(* The background worker that brings the usage ledger and the trajectory   *)
(* index up to date with every transcript: catalog walks woken by hints, by *)
(* a timer that coalesces them and by a periodic audit, a fair queue of    *)
(* sources served one quantum at a time, and the publication of the ledger *)
(* into the throughput history.  The ledger is durable, the queue and the  *)
(* note that something is unpublished are not.                             *)
(***************************************************************************)
EXTENDS Integers, Sequences, FiniteSets, SequencesExt

CONSTANTS
    Logs,       \* the transcripts
    MaxRecords, \* usage records of one transcript
    MaxWrites,  \* appends, torn tails, rewrites and removals
    MaxLosses   \* hints dropped, operations failed, disk full, restarts

ASSUME ArchiveConstants == {MaxRecords, MaxWrites, MaxLosses} \subseteq Nat

VARIABLES
    logs,      \* transcript |-> its file: generation, complete records, a torn tail, signature
    ledger,    \* transcript |-> its checkpoint and the records counted behind it (durable)
    indexed,   \* transcript |-> records behind the trajectory checkpoint (durable)
    published, \* transcript |-> what its share of the history stands for (durable)
    access,    \* the user's switch for trajectory content
    diskLow,
    wake,      \* the one slot of archiveWake
    worker,    \* the loop's local variables
    writes, losses

archiveVars ==
    <<logs, ledger, indexed, published, access, diskLow, wake, worker, writes, losses>>

NoFile == [there |-> FALSE, gen |-> 0, records |-> 0, torn |-> FALSE, stamp |-> 0]
Unread == [gen |-> 0, at |-> 0, counted |-> 0, stamp |-> 0]
Unseen == -1

Started(on) ==
    [at |-> "top", queue |-> << >>, seen |-> [l \in Logs |-> Unseen], dirty |-> TRUE,
     force |-> TRUE, enabled |-> on, cleanup |-> FALSE, hint |-> FALSE,
     unpublished |-> FALSE]

ArchiveInit ==
    /\ logs = [l \in Logs |-> NoFile]
    /\ ledger = [l \in Logs |-> Unread]
    /\ indexed = [l \in Logs |-> Unread]
    /\ published = [l \in Logs |-> <<0, 0>>]
    /\ access \in BOOLEAN
    /\ diskLow = FALSE
    /\ wake = FALSE
    /\ worker = Started(access)
    /\ writes = 0
    /\ losses = 0

Outside == <<ledger, indexed, published, access, diskLow>>
At(places) == worker.at \in places
Signature(l) == IF logs[l].there THEN logs[l].stamp ELSE Unseen

-----------------------------------------------------------------------------
(* The world: agents write, the watcher's callback leaves a hint (or fails). *)
Notified ==
    \/ wake' = TRUE /\ UNCHANGED losses
    \/ losses < MaxLosses /\ losses' = losses + 1 /\ UNCHANGED wake

Written(l, file) ==
    /\ writes < MaxWrites
    /\ writes' = writes + 1
    /\ logs' = [logs EXCEPT ![l] = [file EXCEPT !.stamp = writes + 1]]
    /\ Notified
    /\ UNCHANGED <<Outside, worker>>

AppendUsage(l) ==
    /\ logs[l].records < MaxRecords
    /\ Written(l, [logs[l] EXCEPT !.there = TRUE, !.records = @ + 1, !.torn = FALSE])

AppendHalf(l) ==
    /\ logs[l].records < MaxRecords /\ ~logs[l].torn
    /\ Written(l, [logs[l] EXCEPT !.there = TRUE, !.torn = TRUE])

ReplaceTranscript(l) ==
    /\ logs[l].there
    /\ \E n \in 0 .. MaxRecords :
          Written(l, [logs[l] EXCEPT !.gen = @ + 1, !.records = n, !.torn = FALSE])

RemoveTranscript(l) ==
    /\ logs[l].there
    /\ Written(l, [NoFile EXCEPT !.gen = logs[l].gen + 1])

SwitchAccess ==
    /\ writes < MaxWrites
    /\ writes' = writes + 1
    /\ access' = ~access
    /\ wake' = TRUE
    /\ UNCHANGED <<logs, ledger, indexed, published, diskLow, worker, losses>>

FillDisk ==
    /\ losses < MaxLosses
    /\ losses' = losses + 1
    /\ diskLow' = TRUE
    /\ UNCHANGED <<logs, ledger, indexed, published, access, wake, worker, writes>>

FreeDisk ==
    /\ diskLow
    /\ diskLow' = FALSE
    /\ UNCHANGED <<logs, ledger, indexed, published, access, wake, worker, writes, losses>>

RestartWorker ==
    /\ losses < MaxLosses
    /\ losses' = losses + 1
    /\ wake' = FALSE
    /\ worker' = Started(access)
    /\ UNCHANGED <<logs, Outside, writes>>

-----------------------------------------------------------------------------
(* Top of the loop.  A low disk parks it; a dirty catalog is walked.         *)
Continue(w) == worker' = w /\ UNCHANGED <<logs, access, diskLow, writes>>
Stay == UNCHANGED <<ledger, indexed, published, losses>>

\* Mutant: the periodic audit serves changed transcripts only.
DueUnforced(found, force) ==
    {l \in Logs : /\ found[l] # Unseen /\ l \notin ToSet(worker.queue)
                  /\ found[l] # worker.seen[l]}

Due(found, force) ==
    {l \in Logs : /\ found[l] # Unseen /\ l \notin ToSet(worker.queue)
                  /\ force \/ found[l] # worker.seen[l]}

WalkCatalog ==
    LET force == worker.force \/ access # worker.enabled
        found == [l \in Logs |-> Signature(l)]
        members == \E l \in Logs : (found[l] = Unseen) # (worker.seen[l] = Unseen)
    IN /\ At({"top"}) /\ ~diskLow /\ worker.dirty
       /\ \E order \in SetToSeqs(Due(found, force)) : \E more \in BOOLEAN :
            /\ more => access /\ (force \/ members)
            /\ Continue([worker EXCEPT
                       !.at = "serve", !.hint = FALSE, !.enabled = access,
                       !.queue = @ \o order, !.seen = found,
                       !.cleanup = IF access /\ (force \/ members) THEN more ELSE @,
                       !.dirty = FALSE, !.force = FALSE])
       /\ Stay /\ UNCHANGED wake

SkipWalk ==
    /\ At({"top"}) /\ ~diskLow /\ ~worker.dirty
    /\ Continue([worker EXCEPT !.at = "serve"])
    /\ Stay /\ UNCHANGED wake

\* No source is queued.  Pending catalog maintenance is tried again after a
\* pause in which hints are noted, otherwise the ledger is published before
\* the worker sleeps.
RetryCleanup ==
    /\ At({"serve"}) /\ worker.queue = << >> /\ worker.cleanup
    /\ \E more \in BOOLEAN : Continue([worker EXCEPT !.at = "pause", !.cleanup = more])
    /\ Stay /\ UNCHANGED wake

Ledgered == [l \in Logs |-> <<ledger[l].gen, ledger[l].counted>>]

\* Mutant: a publication that failed is not tried again.
PublishedOrDropped(w, next) ==
    IF w.unpublished
    THEN \/ /\ published' = Ledgered
            /\ worker' = [next EXCEPT !.unpublished = FALSE]
            /\ UNCHANGED losses
         \/ /\ losses < MaxLosses /\ losses' = losses + 1
            /\ worker' = [next EXCEPT !.unpublished = FALSE]
            /\ UNCHANGED published
    ELSE worker' = next /\ UNCHANGED <<published, losses>>

Published(w, next) ==
    IF w.unpublished
    THEN \/ /\ published' = Ledgered
            /\ worker' = [next EXCEPT !.unpublished = FALSE]
            /\ UNCHANGED losses
         \/ /\ losses < MaxLosses /\ losses' = losses + 1
            /\ worker' = next
            /\ UNCHANGED published
    ELSE worker' = next /\ UNCHANGED <<published, losses>>

GoToSleep ==
    /\ At({"serve"}) /\ worker.queue = << >> /\ ~worker.cleanup
    /\ Published(worker, [worker EXCEPT !.at = "sleep"])
    /\ UNCHANGED <<logs, ledger, indexed, access, diskLow, wake, writes>>

\* A hint only arms the timer that ends five seconds after the last walk.
TakeHint ==
    /\ At({"sleep", "pause"}) /\ wake
    /\ wake' = FALSE
    /\ Continue([worker EXCEPT !.at = "top", !.hint = TRUE])
    /\ Stay

HintDue ==
    /\ At({"sleep", "pause"}) /\ worker.hint
    /\ Continue([worker EXCEPT !.at = "top", !.hint = FALSE, !.dirty = TRUE])
    /\ Stay /\ UNCHANGED wake

AuditDue ==
    /\ At({"sleep", "pause"})
    /\ Continue([worker EXCEPT !.at = "top", !.dirty = TRUE, !.force = TRUE])
    /\ Stay /\ UNCHANGED wake

PublishDue ==
    /\ At({"sleep", "pause"}) /\ worker.unpublished
    /\ Published(worker, [worker EXCEPT !.at = "top"])
    /\ UNCHANGED <<logs, ledger, indexed, access, diskLow, wake, writes>>

PauseOver ==
    /\ At({"pause"})
    /\ Continue([worker EXCEPT !.at = "top"])
    /\ Stay /\ UNCHANGED wake

-----------------------------------------------------------------------------
(* One quantum of one source.                                                *)
Continued(point, file) == point.gen = file.gen /\ point.stamp # 0

\* Checkpoint and counts move in one transaction; another file starts over.
LedgerQuantum(l) ==
    LET file == logs[l]
        old == IF Continued(ledger[l], file) THEN ledger[l] ELSE [Unread EXCEPT !.gen = file.gen]
        step == IF old.at < file.records THEN 1 ELSE 0
    IN [gen |-> file.gen, at |-> old.at + step, counted |-> old.counted + step,
        stamp |-> file.stamp]

IndexQuantum(l) ==
    LET file == logs[l]
        old == IF Continued(indexed[l], file) THEN indexed[l] ELSE [Unread EXCEPT !.gen = file.gen]
        step == IF old.at < file.records THEN 1 ELSE 0
    IN [gen |-> file.gen, at |-> old.at + step, counted |-> old.counted + step,
        stamp |-> file.stamp]

Advanced(l) ==
    ledger'[l].at # ledger[l].at \/ ~Continued(ledger[l], logs[l])

\* An operation that fails (busy store, full disk, a file just removed) leaves
\* its checkpoint and is not pending: the source waits for a hint or the audit.
PrepareLedger(l) ==
    IF logs[l].there
    THEN ledger' = [ledger EXCEPT ![l] = LedgerQuantum(l)]
    ELSE UNCHANGED ledger

PrepareIndex(l) ==
    IF access /\ logs[l].there
    THEN indexed' = [indexed EXCEPT ![l] = IndexQuantum(l)]
    ELSE UNCHANGED indexed

More(point, l) == logs[l].there /\ point.at < logs[l].records

ServeSource ==
    /\ At({"serve"}) /\ worker.queue # << >>
    /\ LET l == Head(worker.queue)
           rest == Tail(worker.queue)
       IN \E ok \in [ledger : BOOLEAN, index : BOOLEAN] :
            /\ Cardinality({f \in DOMAIN ok : ~ok[f]}) + losses <= MaxLosses
            /\ losses' = losses + Cardinality({f \in DOMAIN ok : ~ok[f]})
            /\ IF ok.ledger THEN PrepareLedger(l) ELSE UNCHANGED ledger
            /\ IF ok.index THEN PrepareIndex(l) ELSE UNCHANGED indexed
            /\ LET pending == \/ ok.ledger /\ More(ledger'[l], l)
                              \/ ok.index /\ access /\ More(indexed'[l], l)
               IN Continue([worker EXCEPT
                          !.at = "drain",
                          !.queue = IF pending THEN Append(rest, l) ELSE rest,
                          !.unpublished = @ \/ (ok.ledger /\ logs[l].there /\ Advanced(l))])
    /\ UNCHANGED <<published, wake>>

\* Mutant: a hint that arrives during a backfill is taken and not noted.
DrainHintUnnoted ==
    /\ At({"drain"})
    /\ wake' = FALSE
    /\ Continue([worker EXCEPT !.at = "timers"])
    /\ Stay

\* Between two sources: a waiting hint is noted, then at most one timer served.
DrainHint ==
    /\ At({"drain"})
    /\ wake' = FALSE
    /\ Continue([worker EXCEPT !.at = "timers", !.hint = @ \/ wake])
    /\ Stay

ServeTimer ==
    /\ At({"timers"})
    /\ \/ /\ Continue([worker EXCEPT !.at = "top"])
          /\ Stay
       \/ /\ worker.hint
          /\ Continue([worker EXCEPT !.at = "top", !.hint = FALSE, !.dirty = TRUE])
          /\ Stay
       \/ /\ Continue([worker EXCEPT !.at = "top", !.dirty = TRUE, !.force = TRUE])
          /\ Stay
       \/ /\ worker.unpublished
          /\ Published(worker, [worker EXCEPT !.at = "top"])
          /\ UNCHANGED <<logs, ledger, indexed, access, diskLow, writes>>
    /\ UNCHANGED wake

-----------------------------------------------------------------------------
WorkerStep ==
    \/ WalkCatalog \/ SkipWalk \/ RetryCleanup \/ GoToSleep
    \/ ServeSource \/ DrainHint \/ ServeTimer

Awaited == TakeHint \/ HintDue \/ AuditDue \/ PublishDue \/ PauseOver

ArchiveNext ==
    \/ WorkerStep \/ Awaited
    \/ \E l \in Logs : AppendUsage(l) \/ AppendHalf(l) \/ ReplaceTranscript(l) \/ RemoveTranscript(l)
    \/ SwitchAccess \/ FillDisk \/ FreeDisk \/ RestartWorker

ArchiveSpec == ArchiveInit /\ [][ArchiveNext]_archiveVars

\* The goroutine runs.  A ticker that has fired keeps its tick until a select
\* takes it, so a loop that comes back to its select takes the audit at last.
ArchiveFairness ==
    /\ WF_archiveVars(WorkerStep)
    /\ SF_archiveVars(AuditDue)
    /\ WF_archiveVars(FreeDisk)

ArchiveFairSpec == ArchiveSpec /\ ArchiveFairness
-----------------------------------------------------------------------------
\* Records that were counted before a file was replaced are not counted with
\* those of its successor, and no record is counted twice, whatever quanta,
\* failures and restarts lie between.
CountedOnce ==
    \A l \in Logs :
        /\ ledger[l].counted = ledger[l].at
        /\ ledger[l].gen = logs[l].gen => ledger[l].at <= logs[l].records

\* While the worker only waits, a transcript that no longer is what the last
\* walk saw has a hint on its way, unless a hint or an operation was lost; then
\* the audit is what finds it.
NoHintForgotten ==
    (At({"sleep"}) /\ losses = 0)
        => \A l \in Logs : Signature(l) # worker.seen[l] => wake \/ worker.hint

\* The worker neither counts a record twice nor forgets a hint.
RecoveryIsExact == CountedOnce /\ NoHintForgotten

\* The published history lags the ledger only while the worker knows it: of all
\* steps only a restart forgets, a failed publication does not.
LagKnown == published = Ledgered \/ worker.unpublished

LagIsKnown == [][LagKnown => LagKnown' \/ RestartWorker]_archiveVars

\* Once the writers stop, every record of every transcript is in the ledger,
\* even of one whose hint was lost or whose quantum failed.
LedgerCatchesUp ==
    \A l \in Logs : []<>(logs[l].there =>
        ledger[l].gen = logs[l].gen /\ ledger[l].at = logs[l].records)
=============================================================================
