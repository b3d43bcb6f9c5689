--------------------------- MODULE EvidenceIndex ---------------------------
(***************************************************************************)
(* The shared transcript evidence index (evidence_index.go): a catalog of  *)
(* transcript files kept equal to the disk by one full walk and, after it, *)
(* by file-system events.  Several consumers (the snapshot builder, the    *)
(* live token sampler, archive recovery) call snapshot() concurrently; at  *)
(* most one of them walks the tree, the others wait for its flight.        *)
(*                                                                         *)
(* A file's metadata is a stamp: Absent, Archived (older than the recent   *)
(* cutoff) or a fresh number per write.  The watcher is live throughout;   *)
(* its own lifecycle is module EvidenceWatcher.  gapGeneration is compared *)
(* only for equality with the value a flight captured, so the model keeps  *)
(* flight.gapped; revision is compared only with the value a consumer      *)
(* holds, so the model keeps the set `current` of consumers whose last     *)
(* snapshot carries the present revision.                                  *)
(***************************************************************************)
EXTENDS Integers, FiniteSets

CONSTANTS
  Paths,          \* transcript files an adapter would classify
  Consumers,      \* callers of snapshot()
  CutoffOf,       \* the window each consumer asks for
  PriorityOf,     \* files each consumer passes as priority (open in a process)
  LateRoots,      \* paths under roots that mergeRoots adds while running
  ArchiveAtStart, \* requestArchiveCoverage was called before start()
  MutationLimit,  \* transcriptEvidenceMaxPendingMutations
  CanAbort,       \* whether a walk may panic
  MaxWrites,      \* bound on file writes
  MaxFaults,      \* bound on panics, cancellations, I/O errors, dropped events
  NoOne           \* no owner, no path

Windows == {"recent", "archive"}

ASSUME ConstantsAssumption ==
  /\ CutoffOf \in [Consumers -> Windows]
  /\ PriorityOf \in [Consumers -> SUBSET Paths]
  /\ LateRoots \subseteq Paths
  /\ ArchiveAtStart \in BOOLEAN
  /\ CanAbort \in BOOLEAN
  /\ MutationLimit \in Nat
  /\ MaxWrites \in Nat
  /\ MaxFaults \in Nat
  /\ NoOne \notin Consumers
  /\ NoOne \notin Paths

Absent     == 0
Archived   == 1
Stamps     == Nat
NoMutation == -1

VARIABLES
  disk,             \* the metadata of every file on disk
  clock,            \* the stamp of the newest write
  faults,           \* faults so far
  roots,            \* paths under the adapters' roots
  watched,          \* paths the event stream covers
  events,           \* paths with an undelivered event
  lossy,            \* an undelivered batch reports dropped events
  hand,             \* the event between its stat and applyMutation
  files,            \* index.files
  mutations,        \* index.mutations
  rootsKey,         \* index.rootsKey
  coverage,         \* index.coverageCutoff
  archiveRequested,
  initialized,
  complete,
  reconcileRequired,
  flight,           \* index.reconciling and what its owner has captured and read
  current,          \* consumers whose last Revision is index.revision
  pc,               \* where each consumer's snapshot() call is
  seen,             \* roots a consumer read before taking the lock
  cancelled,        \* its context is done
  reportGap,
  prio              \* its priority stats, taken outside the lock

env   == <<disk, clock, roots>>
index == <<files, mutations, rootsKey, coverage, archiveRequested,
           initialized, complete, reconcileRequired>>
calls == <<pc, seen, cancelled, reportGap, prio>>
vars  == <<env, faults, watched, events, lossy, hand, index, flight, current, calls>>

InWindow(stamp, window) ==
  stamp # Absent /\ (window = "archive" \/ stamp # Archived)

Visible(stamp, window) == IF InWindow(stamp, window) THEN stamp ELSE Absent

Idle   == [owner |-> NoOne, window |-> "recent", key |-> {}, todo |-> {},
           walk |-> [p \in Paths |-> Absent],
           gapped |-> FALSE, failed |-> FALSE]
NoHand == [path |-> NoOne, stamp |-> Absent]
NoMutations == [p \in Paths |-> NoMutation]

(* The state start() leaves behind: roots synced, watcher installed, no    *)
(* walk yet.                                                               *)
Init ==
  /\ disk \in [Paths -> {Absent, Archived}]
  /\ clock = Archived
  /\ faults = 0
  /\ roots = Paths \ LateRoots
  /\ watched = roots
  /\ events = {}
  /\ lossy = FALSE
  /\ hand = NoHand
  /\ files = [p \in Paths |-> Absent]
  /\ mutations = NoMutations
  /\ rootsKey = roots
  /\ coverage = "archive"
  /\ archiveRequested = ArchiveAtStart
  /\ initialized = FALSE
  /\ complete = FALSE
  /\ reconcileRequired = TRUE
  /\ flight = Idle
  /\ current = {}
  /\ pc = [c \in Consumers |-> "idle"]
  /\ seen = [c \in Consumers |-> {}]
  /\ cancelled = [c \in Consumers |-> FALSE]
  /\ reportGap = [c \in Consumers |-> FALSE]
  /\ prio = [c \in Consumers |-> [p \in Paths |-> Absent]]

(***************************************************************************)
(* The disk, and the faults of the world around the index.                 *)
(***************************************************************************)
Fault == faults < MaxFaults /\ faults' = faults + 1

Emit(p) == events' = IF p \in watched THEN events \cup {p} ELSE events

WriteFile(p) ==
  /\ clock <= MaxWrites
  /\ clock' = clock + 1
  /\ disk' = [disk EXCEPT ![p] = clock + 1]
  /\ Emit(p)
  /\ UNCHANGED <<faults, roots, watched, lossy, hand, index, flight, current, calls>>

DeleteFile(p) ==
  /\ disk[p] # Absent
  /\ disk' = [disk EXCEPT ![p] = Absent]
  /\ Emit(p)
  /\ UNCHANGED <<clock, faults, roots, watched, lossy, hand, index, flight, current, calls>>

(* The kernel or the stream drops queued events and flags the next batch.  *)
DropEvents ==
  /\ Fault
  /\ events # {}
  /\ events' = {}
  /\ lossy' = TRUE
  /\ UNCHANGED <<env, watched, hand, index, flight, current, calls>>

(* A process scan finds a configured home it had not seen.                 *)
MergeRoots(p) ==
  /\ p \in LateRoots \ roots
  /\ roots' = roots \cup {p}
  /\ UNCHANGED <<disk, clock, faults, watched, events, lossy, hand, index, flight, current, calls>>

CancelContext(c) ==
  /\ Fault
  /\ pc[c] \in {"sync", "check", "wait", "walk"}
  /\ ~cancelled[c]
  /\ cancelled' = [cancelled EXCEPT ![c] = TRUE]
  /\ UNCHANGED <<env, watched, events, lossy, hand, index, flight, current, pc, seen, reportGap, prio>>

(***************************************************************************)
(* markGapLocked: every gap invalidates the flight in progress and every   *)
(* revision handed out.                                                    *)
(***************************************************************************)
GapFlight == IF flight.owner = NoOne THEN flight ELSE [flight EXCEPT !.gapped = TRUE]

MarkGap ==
  /\ flight' = GapFlight
  /\ current' = {}
  /\ reconcileRequired' = TRUE
  /\ complete' = FALSE

RequestReconcile ==
  /\ ~reconcileRequired
  /\ reconcileRequired' = TRUE
  /\ flight' = GapFlight
  /\ UNCHANGED <<env, faults, watched, events, lossy, hand, files, mutations, rootsKey,
                 coverage, archiveRequested, initialized, complete, current, calls>>

RequestArchiveCoverage ==
  /\ ~archiveRequested
  /\ archiveRequested' = TRUE
  /\ UNCHANGED <<env, faults, watched, events, lossy, hand, files, mutations, rootsKey, coverage,
                 initialized, complete, reconcileRequired, flight, current, calls>>

(***************************************************************************)
(* The watcher goroutine: recordWatchBatch.  Batches are taken one path at *)
(* a time; the stat precedes the lock.                                     *)
(***************************************************************************)
RecordIncompleteBatch ==
  /\ hand = NoHand
  /\ lossy
  /\ lossy' = FALSE
  /\ MarkGap
  /\ UNCHANGED <<env, faults, watched, events, hand, files, mutations, rootsKey, coverage,
                 archiveRequested, initialized, calls>>

StatEvent(p) ==
  /\ hand = NoHand
  /\ p \in events
  /\ events' = events \ {p}
  /\ hand' = [path |-> p, stamp |-> disk[p]]
  /\ UNCHANGED <<env, faults, watched, lossy, index, flight, current, calls>>

(* The stat fails, or the batch step panics: the event is lost, as a gap.  *)
LoseEvent(p) ==
  /\ Fault
  /\ hand = NoHand
  /\ p \in events
  /\ events' = events \ {p}
  /\ MarkGap
  /\ UNCHANGED <<env, watched, lossy, hand, files, mutations, rootsKey, coverage,
                 archiveRequested, initialized, calls>>

Pending == {p \in Paths : mutations[p] # NoMutation}

Buffered(p) == p \in Pending \/ Cardinality(Pending) < MutationLimit

(* Mutant: a watcher mutation that does not advance the revision.          *)
ApplyMutationSilently ==
  /\ hand # NoHand
  /\ hand' = NoHand
  /\ files' = IF initialized THEN [files EXCEPT ![hand.path] = hand.stamp] ELSE files
  /\ mutations' = IF flight.owner # NoOne
                  THEN [mutations EXCEPT ![hand.path] = hand.stamp] ELSE mutations
  /\ UNCHANGED <<env, faults, watched, events, lossy, rootsKey, coverage, archiveRequested,
                 initialized, complete, reconcileRequired, flight, current, calls>>

ApplyMutation ==
  /\ hand # NoHand
  /\ hand' = NoHand
  /\ IF flight.owner # NoOne /\ Buffered(hand.path)
     THEN mutations' = [mutations EXCEPT ![hand.path] = hand.stamp]
     ELSE mutations' = mutations
  /\ IF flight.owner # NoOne /\ ~Buffered(hand.path)
     THEN MarkGap
     ELSE current' = {} /\ UNCHANGED <<flight, reconcileRequired, complete>>
  /\ IF initialized
     THEN files' = [files EXCEPT ![hand.path] = hand.stamp]
     ELSE files' = files
  /\ UNCHANGED <<env, faults, watched, events, lossy, rootsKey, coverage, archiveRequested,
                 initialized, calls>>

(***************************************************************************)
(* snapshot(), step by step.  A call that returns drops its locals.         *)
(***************************************************************************)
Goto(c, label) == pc' = [pc EXCEPT ![c] = label]

NoPrio == [p \in Paths |-> Absent]

Return(c) ==
  /\ Goto(c, "idle")
  /\ cancelled' = [cancelled EXCEPT ![c] = FALSE]
  /\ reportGap' = [reportGap EXCEPT ![c] = FALSE]
  /\ prio' = [prio EXCEPT ![c] = NoPrio]
  /\ UNCHANGED seen

(* syncRoots reads the registry before it takes the lock.                  *)
ReadRoots(c) ==
  /\ pc[c] = "idle"
  /\ Goto(c, "sync")
  /\ seen' = [seen EXCEPT ![c] = roots]
  /\ current' = current \ {c}
  /\ UNCHANGED <<env, faults, watched, events, lossy, hand, index, flight,
                 cancelled, reportGap, prio>>

SyncRoots(c) ==
  /\ pc[c] = "sync"
  /\ IF seen[c] = rootsKey
     THEN /\ Goto(c, "check")
          /\ seen' = [seen EXCEPT ![c] = {}]
          /\ UNCHANGED <<rootsKey, flight, current, reconcileRequired, complete>>
     ELSE /\ Goto(c, "update")
          /\ rootsKey' = seen[c]
          /\ MarkGap
          /\ UNCHANGED seen
  /\ UNCHANGED <<env, faults, watched, events, lossy, hand, files, mutations, coverage,
                 archiveRequested, initialized, cancelled, reportGap, prio>>

(* watcher.Update runs after the lock is released.                         *)
UpdateWatcher(c) ==
  /\ pc[c] = "update"
  /\ Goto(c, "check")
  /\ \/ /\ watched' = seen[c]
        /\ UNCHANGED <<faults, flight, current, reconcileRequired, complete>>
     \/ Fault /\ MarkGap /\ UNCHANGED watched
  /\ seen' = [seen EXCEPT ![c] = {}]
  /\ UNCHANGED <<env, events, lossy, hand, files, mutations, rootsKey, coverage,
                 archiveRequested, initialized, cancelled, reportGap, prio>>

(* Mutant: the walk covers only what this caller asked for.                *)
WalkWindowAsAsked(c) == CutoffOf[c]

WalkWindow(c) == IF archiveRequested THEN "archive" ELSE CutoffOf[c]

(* Mutant: a gap or an audit does not make the next snapshot walk.         *)
NeedsReconcileOnce(c) ==
  ~initialized \/ (coverage = "recent" /\ WalkWindow(c) = "archive")

NeedsReconcile(c) ==
  \/ ~initialized
  \/ reconcileRequired
  \/ coverage = "recent" /\ WalkWindow(c) = "archive"

(* Already reconciled: go on to currentSnapshot.                           *)
SkipReconcile(c) ==
  /\ pc[c] = "check"
  /\ ~NeedsReconcile(c)
  /\ Goto(c, "stat")
  /\ UNCHANGED <<env, faults, watched, events, lossy, hand, index, flight, current,
                 seen, cancelled, reportGap, prio>>

JoinFlight(c) ==
  /\ pc[c] = "check"
  /\ NeedsReconcile(c)
  /\ flight.owner # NoOne
  /\ Goto(c, "wait")
  /\ UNCHANGED <<env, faults, watched, events, lossy, hand, index, flight, current,
                 seen, cancelled, reportGap, prio>>

(* ctx.Done() while waiting: the call returns an incomplete snapshot.      *)
AbandonWait(c) ==
  /\ pc[c] = "wait"
  /\ cancelled[c]
  /\ Return(c)
  /\ UNCHANGED <<env, faults, watched, events, lossy, hand, index, flight, current>>

(* Mutant: the flight is published without looking for another one.        *)
ClaimFlightUnguarded(c) ==
  /\ pc[c] = "check"
  /\ NeedsReconcile(c)
  /\ Goto(c, "walk")
  /\ flight' = [owner |-> c, window |-> WalkWindow(c), key |-> rootsKey,
                todo |-> roots, walk |-> [p \in Paths |-> Absent],
                gapped |-> FALSE, failed |-> FALSE]
  /\ reportGap' = [reportGap EXCEPT ![c] = @ \/ (initialized /\ ~complete)]
  /\ UNCHANGED <<env, faults, watched, events, lossy, hand, index, current,
                 seen, cancelled, prio>>

ClaimFlight(c) ==
  /\ pc[c] = "check"
  /\ NeedsReconcile(c)
  /\ flight.owner = NoOne
  /\ Goto(c, "walk")
  /\ flight' = [owner |-> c, window |-> WalkWindow(c), key |-> rootsKey,
                todo |-> roots, walk |-> [p \in Paths |-> Absent],
                gapped |-> FALSE, failed |-> FALSE]
  /\ reportGap' = [reportGap EXCEPT ![c] = @ \/ (initialized /\ ~complete)]
  /\ UNCHANGED <<env, faults, watched, events, lossy, hand, index, current,
                 seen, cancelled, prio>>

Walk(p) ==
  /\ p \in flight.todo
  /\ flight' = [flight EXCEPT !.todo = @ \ {p},
                              !.walk[p] = Visible(disk[p], flight.window)]
  /\ UNCHANGED <<env, faults, watched, events, lossy, hand, index, current, calls>>

(* The adapter cannot read a directory: a discovery error.                 *)
WalkError(p) ==
  /\ Fault
  /\ p \in flight.todo
  /\ flight' = [flight EXCEPT !.todo = @ \ {p}, !.failed = TRUE]
  /\ UNCHANGED <<env, watched, events, lossy, hand, index, current, calls>>

(* Mutant: the flight ends and its channel is never closed.                *)
CloseFlightUnwoken(c) == flight' = Idle /\ Goto(c, "stat")

(* close(flight) wakes everyone who waits on it.                           *)
CloseFlight(c) ==
  /\ flight' = Idle
  /\ pc' = [k \in Consumers |->
              IF k = c THEN "stat" ELSE IF pc[k] = "wait" THEN "check" ELSE pc[k]]

(* Mutants: the side buffer is dropped, or read for the files it lacks.    *)
MergedWalkOnly(p) == flight.walk[p]
MergedSwapped(p)  == IF p \in Pending THEN flight.walk[p] ELSE mutations[p]

Merged(p) == IF p \in Pending THEN mutations[p] ELSE flight.walk[p]

(* reconcileLocked's commit; the walk stops early when the context is done.*)
CommitWalk(c) ==
  LET clean == /\ ~cancelled[c]
               /\ ~flight.failed
               /\ flight.key = rootsKey
               /\ ~flight.gapped
  IN /\ pc[c] = "walk"
     /\ flight.todo = {} \/ cancelled[c]
     /\ files' = [p \in Paths |-> Merged(p)]
     /\ mutations' = NoMutations
     /\ coverage' = flight.window
     /\ initialized' = TRUE
     /\ complete' = clean
     /\ reconcileRequired' = ~clean
     /\ CloseFlight(c)
     /\ UNCHANGED <<env, faults, watched, events, lossy, hand, rootsKey, archiveRequested,
                    current, seen, cancelled, reportGap, prio>>

(* releaseReconcileFlight: the walk panicked.                              *)
AbortWalk(c) ==
  /\ CanAbort
  /\ Fault
  /\ pc[c] = "walk"
  /\ CloseFlight(c)
  /\ current' = {}
  /\ reconcileRequired' = TRUE
  /\ complete' = FALSE
  /\ reportGap' = [reportGap EXCEPT ![c] = TRUE]
  /\ UNCHANGED <<env, watched, events, lossy, hand, files, mutations, rootsKey, coverage,
                 archiveRequested, initialized, seen, cancelled, prio>>

(* currentSnapshot: stat the priority files, then take the lock.           *)
StatPriority(c) ==
  /\ pc[c] = "stat"
  /\ Goto(c, "merge")
  /\ prio' = [prio EXCEPT ![c] = [p \in Paths |-> IF p \in PriorityOf[c] THEN disk[p]
                                                                         ELSE Absent]]
  /\ UNCHANGED <<env, faults, watched, events, lossy, hand, index, flight, current,
                 seen, cancelled, reportGap>>

DeliverSnapshot(c) ==
  LET merged == [p \in Paths |-> IF prio[c][p] # Absent THEN prio[c][p] ELSE files[p]]
  IN /\ pc[c] = "merge"
     /\ Return(c)
     /\ files' = merged
     /\ current' = (IF merged = files THEN current ELSE {}) \cup {c}
     /\ UNCHANGED <<env, faults, watched, events, lossy, hand, mutations, rootsKey, coverage,
                    archiveRequested, initialized, complete, reconcileRequired, flight>>

(***************************************************************************)
(* The specification.                                                      *)
(***************************************************************************)
Watcher == \/ RecordIncompleteBatch
           \/ ApplyMutation
           \/ \E p \in Paths : StatEvent(p)

Proceed(c) ==
  \/ ReadRoots(c) \/ SyncRoots(c) \/ UpdateWatcher(c)
  \/ SkipReconcile(c) \/ JoinFlight(c) \/ AbandonWait(c) \/ ClaimFlight(c)
  \/ CommitWalk(c) \/ StatPriority(c) \/ DeliverSnapshot(c)

WalkTree == \E p \in Paths : Walk(p)

Environment ==
  \/ \E p \in Paths : \/ WriteFile(p) \/ DeleteFile(p) \/ MergeRoots(p)
                      \/ LoseEvent(p) \/ WalkError(p)
  \/ \E c \in Consumers : CancelContext(c) \/ AbortWalk(c)
  \/ DropEvents
  \/ RequestArchiveCoverage

Next == \/ Environment
        \/ Watcher
        \/ WalkTree
        \/ RequestReconcile
        \/ \E c \in Consumers : Proceed(c)

Spec == Init /\ [][Next]_vars

(* The watcher goroutine, a walk in progress and a running snapshot() call *)
(* are goroutines the scheduler does not starve; refresh and sampler       *)
(* tickers keep calling snapshot(), and archive recovery's audit ticker    *)
(* keeps calling requestReconcile.  Nothing else is fair.                  *)
Fairness ==
  /\ WF_vars(Watcher)
  /\ WF_vars(WalkTree)
  /\ WF_vars(RequestReconcile)
  /\ \A c \in Consumers : WF_vars(Proceed(c))

FairSpec == Spec /\ Fairness

(***************************************************************************)
(* Properties.                                                             *)
(***************************************************************************)
FlightType ==
  [owner : Consumers \cup {NoOne}, window : Windows, key : SUBSET Paths,
   todo : SUBSET Paths, walk : [Paths -> Stamps],
   gapped : BOOLEAN, failed : BOOLEAN]

Labels == {"idle", "sync", "update", "check", "wait", "walk", "stat", "merge"}

(* Every variable keeps its type.                                          *)
TypeOK ==
  /\ disk \in [Paths -> Stamps]
  /\ clock \in Nat
  /\ faults \in Nat
  /\ roots \in SUBSET Paths
  /\ watched \in SUBSET Paths
  /\ events \in SUBSET Paths
  /\ lossy \in BOOLEAN
  /\ hand \in [path : Paths \cup {NoOne}, stamp : Stamps]
  /\ files \in [Paths -> Stamps]
  /\ mutations \in [Paths -> Stamps \cup {NoMutation}]
  /\ rootsKey \in SUBSET Paths
  /\ coverage \in Windows
  /\ archiveRequested \in BOOLEAN
  /\ initialized \in BOOLEAN
  /\ complete \in BOOLEAN
  /\ reconcileRequired \in BOOLEAN
  /\ flight \in FlightType
  /\ current \in SUBSET Consumers
  /\ pc \in [Consumers -> Labels]
  /\ seen \in [Consumers -> SUBSET Paths]
  /\ cancelled \in [Consumers -> BOOLEAN]
  /\ reportGap \in [Consumers -> BOOLEAN]
  /\ prio \in [Consumers -> [Paths -> Stamps]]

(* An event for p is still on its way to the index.                        *)
Reported(p) == lossy \/ p \in events \/ hand.path = p

(* What the index says of p is what the disk says, as far as the coverage  *)
(* window reaches.                                                         *)
Agrees(stamp, p, window) ==
  \/ stamp = disk[p]
  \/ disk[p] = Archived /\ window = "recent" /\ stamp = Absent

(* An index that calls itself complete agrees with the disk on every file  *)
(* under the roots it was built for, except files whose event has not been *)
(* delivered yet: no interleaving of walk, side buffer, overflow, lost     *)
(* events and stat-before-lock leaves a silent hole (architecture.md:71).  *)
CompleteMeansCurrent ==
  complete => \A p \in rootsKey : Agrees(files[p], p, coverage) \/ Reported(p)

(* A snapshot about to be delivered as complete was built from a catalog   *)
(* as wide as its caller asked for, although another caller's narrower     *)
(* reconcile may have replaced the catalog since the check.                *)
SnapshotCoversWindow ==
  \A c \in Consumers :
    pc[c] = "merge" /\ complete /\ ~reportGap[c] /\ CutoffOf[c] = "archive"
      => coverage = "archive"

(* Between two reconciles a revision names one catalog: a step that        *)
(* changes the catalog without being the commit of a walk leaves no        *)
(* earlier holder of the revision believing it current.                    *)
RevisionTracksChanges ==
  [][files' # files => \/ current' \cap current = {}
                       \/ flight.owner # NoOne /\ flight'.owner = NoOne]_vars

(* At most one consumer walks, it owns the flight, and nobody waits on a   *)
(* flight that has been closed, whether it committed or panicked.          *)
OneWalkOwner ==
  /\ \A c \in Consumers : pc[c] = "walk" <=> flight.owner = c
  /\ \A c \in Consumers : pc[c] = "wait" => flight.owner # NoOne

(* A caller parked on somebody else's walk always gets away: commit, panic *)
(* and its own cancellation each release it.                               *)
WaitersReleased == \A c \in Consumers : pc[c] = "wait" ~> pc[c] # "wait"

(* Once writes and faults stop, the periodic audit brings the catalog back *)
(* to the disk for good, whatever races or panics left it wrong before.    *)
EventuallyCurrent == <>[](\A p \in roots : Agrees(files[p], p, coverage))
=============================================================================
