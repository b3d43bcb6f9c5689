---------------------------- MODULE EvidenceWatcher ----------------------------
(***************************************************************************)
(* The life of the file watcher behind the evidence index: the stream of   *)
(* the platform and its goroutine, the index goroutine that drains it,     *)
(* installation and reinstallation by snapshots, root updates that go      *)
(* through a rendezvous with the stream's goroutine, unexpected exits and  *)
(* stopIndex.  The index itself is reduced to what these may lose: for     *)
(* each root the state of its files the catalog knows, and the flags that  *)
(* make the next snapshot walk (EvidenceIndex has the walk in detail).     *)
(***************************************************************************)
EXTENDS Integers, Sequences, FiniteSets

CONSTANTS
    Callers,     \* goroutines that call snapshot()
    Roots,       \* directories an adapter may register
    FirstRoots,  \* those registered at start
    MaxWatchers, \* watchers constructed
    EventBuffer, \* capacity of the watcher's events channel (32 in the code)
    MaxRootChanges, MaxMerges, MaxFaults

ASSUME WatcherConstants ==
    /\ Callers # {}
    /\ FirstRoots \subseteq Roots
    /\ {MaxWatchers, EventBuffer} \subseteq Nat \ {0}
    /\ {MaxRootChanges, MaxMerges, MaxFaults} \subseteq Nat

Watchers == 1 .. MaxWatchers
Nobody == 0

VARIABLES
    disk,      \* root |-> stamp of its latest change
    roots,     \* roots registered now
    index,     \* catalog: known stamps, roots it was keyed for, complete, required
    walk,      \* the walk in progress, if any
    stream,    \* watcher |-> the platform side: stage, paths, events on their way
    reader,    \* watcher |-> where the index goroutine that drains it is
    life,      \* fields guarded by lifecycleMu
    caller,    \* caller |-> its place in snapshot()
    stopper,   \* the goroutine that calls stopIndex
    unwatched, \* roots whose latest change happened while nothing watched them
    spent      \* bounds used up: changes, merges, faults

watcherVars ==
    <<disk, roots, index, walk, stream, reader, life, caller, stopper, unwatched, spent>>

NoWalk == [by |-> "nobody"]
NoStream == [stage |-> "none", paths |-> {}, pending |-> {}, sending |-> {}, queue |-> << >>,
             told |-> FALSE]
NoReader == [at |-> "none", stop |-> FALSE, stops |-> 0]

WatcherInit ==
    /\ disk = [r \in Roots |-> 0]
    /\ roots = FirstRoots
    /\ index = [known |-> [r \in Roots |-> 0], key |-> FirstRoots, complete |-> FALSE,
                required |-> TRUE]
    /\ walk = NoWalk
    /\ stream = [w \in Watchers |-> NoStream]
    /\ reader = [w \in Watchers |-> NoReader]
    /\ life = [enabled |-> FALSE, running |-> FALSE, current |-> Nobody, next |-> 1]
    /\ caller = [c \in Callers |-> [at |-> "start"]]
    /\ stopper = [at |-> "idle"]
    /\ unwatched = {}
    /\ spent = [changes |-> 0, merges |-> 0, faults |-> 0]

Spend(what, limit) ==
    /\ spent[what] < limit
    /\ spent' = [spent EXCEPT ![what] = @ + 1]

Fault == Spend("faults", MaxFaults)
Goto(c, place) == caller' = [caller EXCEPT ![c] = [at |-> place]]
Index == <<index, walk>>
World == <<disk, roots, unwatched>>

-----------------------------------------------------------------------------
(* The index, as far as this module needs it.                                *)
MarkGap ==
    /\ index' = [index EXCEPT !.complete = FALSE, !.required = TRUE]
    /\ walk' = IF walk = NoWalk THEN NoWalk ELSE [walk EXCEPT !.clean = FALSE]

\* Each file of the batch is examined again; during a walk it is also put aside.
RecordWatchBatch(batch) ==
    /\ index' = [index EXCEPT !.known =
                    [r \in Roots |-> IF r \in batch THEN disk[r] ELSE index.known[r]]]
    /\ walk' = IF walk = NoWalk THEN NoWalk
               ELSE [walk EXCEPT !.found =
                        [r \in Roots |-> IF r \in batch THEN disk[r] ELSE walk.found[r]]]

-----------------------------------------------------------------------------
(* The world.                                                                *)
Watching(w, r) == stream[w].stage = "running" /\ r \in stream[w].paths

Change(r) ==
    /\ Spend("changes", MaxRootChanges)
    /\ disk' = [disk EXCEPT ![r] = spent.changes + 1]
    /\ stream' = [w \in Watchers |-> IF Watching(w, r)
                                     THEN [stream[w] EXCEPT !.pending = @ \cup {r}]
                                     ELSE stream[w]]
    /\ unwatched' = IF \E w \in Watchers : Watching(w, r) /\ reader[w].at = "loop"
                    THEN unwatched \ {r} ELSE unwatched \cup {r}
    /\ UNCHANGED <<roots, Index, reader, life, caller, stopper>>

MergeRoot(r) ==
    /\ r \notin roots
    /\ Spend("merges", MaxMerges)
    /\ roots' = roots \cup {r}
    /\ UNCHANGED <<disk, unwatched, Index, stream, reader, life, caller, stopper>>

-----------------------------------------------------------------------------
(* The stream's goroutine.                                                   *)
Streams(w, next) ==
    /\ stream' = [stream EXCEPT ![w] = next]
    /\ UNCHANGED <<World, Index, reader, life, stopper>>

TakeEvents(w) ==
    /\ stream[w].stage = "running" /\ stream[w].pending # {} /\ stream[w].sending = {}
    /\ Streams(w, [stream[w] EXCEPT !.sending = @ \cup stream[w].pending, !.pending = {}])
    /\ UNCHANGED <<caller, spent>>

SendBatch(w) ==
    /\ stream[w].stage = "running" /\ stream[w].sending # {}
    /\ Len(stream[w].queue) < EventBuffer
    /\ Streams(w, [stream[w] EXCEPT !.queue = Append(@, stream[w].sending), !.sending = {}])
    /\ UNCHANGED <<caller, spent>>

\* The stream ends, the goroutine panics, or Stop asked for it: what was not
\* sent yet is lost, what is buffered can still be read.
Ended(w) == [stream[w] EXCEPT !.stage = "done", !.pending = {}, !.sending = {}]

StreamEnds(w) ==
    /\ stream[w].stage = "running"
    /\ Fault
    /\ Streams(w, Ended(w))
    /\ UNCHANGED caller

StreamStops(w) ==
    /\ stream[w].stage = "running" /\ stream[w].told
    /\ Streams(w, Ended(w))
    /\ UNCHANGED <<caller, spent>>

\* Another stream replaces this one, with what the old one had not delivered;
\* the same paths need none, a stream that cannot start leaves the old one.
ServeUpdate(w, c) ==
    /\ caller[c].at = "updating" /\ caller[c].of = w
    /\ stream[w].stage = "running" /\ stream[w].sending = {}
    /\ \/ /\ IF caller[c].paths = stream[w].paths THEN Streams(w, stream[w])
             ELSE Streams(w, [stream[w] EXCEPT !.paths = caller[c].paths, !.pending = {}])
          /\ Goto(c, "restart")
          /\ UNCHANGED spent
       \/ /\ Fault
          /\ Streams(w, stream[w])
          /\ Goto(c, "refused")

-----------------------------------------------------------------------------
(* The index goroutine of a watcher.                                         *)
Reads(w, place) == reader' = [reader EXCEPT ![w].at = place]

ReadBatch(w) ==
    /\ reader[w].at = "loop" /\ stream[w].queue # << >>
    /\ stream' = [stream EXCEPT ![w].queue = Tail(@)]
    /\ \/ RecordWatchBatch(Head(stream[w].queue)) /\ UNCHANGED spent
       \/ Fault /\ MarkGap
    /\ UNCHANGED <<World, reader, life, caller, stopper>>

SeeClosed(w) ==
    /\ reader[w].at = "loop"
    /\ stream[w].stage = "done" /\ stream[w].queue = << >>
    /\ MarkGap
    /\ Reads(w, "release")
    /\ UNCHANGED <<World, stream, life, caller, stopper, spent>>

SeeStop(w) ==
    /\ reader[w].at = "loop" /\ reader[w].stop
    /\ Reads(w, "release")
    /\ UNCHANGED <<World, Index, stream, life, caller, stopper, spent>>

LoopPanics(w) ==
    /\ reader[w].at = "loop"
    /\ Fault
    /\ Reads(w, "release")
    /\ UNCHANGED <<World, Index, stream, life, caller, stopper>>

\* Mutant: an exit nobody asked for is not announced.
ReleaseLifecycleQuietly(w) ==
    /\ reader[w].at = "release"
    /\ IF life.running /\ life.current = w
       THEN /\ life' = [life EXCEPT !.running = FALSE, !.current = Nobody]
            /\ Reads(w, "stop")
       ELSE Reads(w, "done") /\ UNCHANGED life
    /\ UNCHANGED <<World, Index, stream, caller, stopper, spent>>

ReleaseLifecycle(w) ==
    /\ reader[w].at = "release"
    /\ IF life.running /\ life.current = w
       THEN /\ life' = [life EXCEPT !.running = FALSE, !.current = Nobody]
            /\ Reads(w, IF life.enabled THEN "announce" ELSE "stop")
       ELSE Reads(w, "done") /\ UNCHANGED life
    /\ UNCHANGED <<World, Index, stream, caller, stopper, spent>>

AnnounceExit(w) ==
    /\ reader[w].at = "announce"
    /\ MarkGap
    /\ Reads(w, "stop")
    /\ UNCHANGED <<World, stream, life, caller, stopper, spent>>

\* Stop closes the stream's stop channel and waits for its goroutine.
StopOwn(w) ==
    /\ reader[w].at = "stop"
    /\ stream' = [stream EXCEPT ![w].told = TRUE]
    /\ reader' = [reader EXCEPT ![w].at = "stopping", ![w].stops = @ + 1]
    /\ UNCHANGED <<World, Index, life, caller, stopper, spent>>

StoppedOwn(w) ==
    /\ reader[w].at = "stopping"
    /\ \/ stream[w].stage = "done" /\ UNCHANGED spent
       \/ Fault
    /\ Reads(w, "done")
    /\ UNCHANGED <<World, Index, stream, life, caller, stopper>>

-----------------------------------------------------------------------------
(* Installation, under lifecycleMu.                                          *)
Constructed(w) ==
    /\ life' = [enabled |-> TRUE, running |-> TRUE, current |-> w, next |-> w + 1]
    /\ stream' = [stream EXCEPT ![w] = [NoStream EXCEPT !.stage = "running", !.paths = roots]]
    /\ reader' = [reader EXCEPT ![w].at = "loop"]
    /\ UNCHANGED <<Index, spent>>

InstallWatcher ==
    \/ life.next <= MaxWatchers /\ Constructed(life.next)
    \/ \* the constructor panics: the next snapshot may try again
       /\ Fault
       /\ MarkGap
       /\ life' = [life EXCEPT !.enabled = TRUE]
       /\ UNCHANGED <<stream, reader>>
    \/ \* there is no watcher to have
       /\ Fault
       /\ MarkGap
       /\ life' = [life EXCEPT !.enabled = FALSE]
       /\ UNCHANGED <<stream, reader>>

StartIndex ==
    /\ \A c \in Callers : caller[c].at = "start"
    /\ InstallWatcher
    /\ caller' = [c \in Callers |-> [at |-> "idle"]]
    /\ UNCHANGED <<World, stopper>>

RestartIfNeeded(c) ==
    /\ caller[c].at = "restart"
    /\ IF life.running \/ ~life.enabled
       THEN UNCHANGED <<Index, life, stream, reader, spent>>
       ELSE InstallWatcher
    /\ Goto(c, "check")
    /\ UNCHANGED <<World, stopper>>

-----------------------------------------------------------------------------
(* A snapshot: roots, watcher, walk.                                         *)
CallSnapshot(c) ==
    /\ caller[c].at = "idle"
    /\ caller' = [caller EXCEPT ![c] = [at |-> "sync", paths |-> roots]]
    /\ UNCHANGED <<World, Index, stream, reader, life, stopper, spent>>

SyncRoots(c) ==
    /\ caller[c].at = "sync"
    /\ IF caller[c].paths = index.key
       THEN Goto(c, "restart") /\ UNCHANGED Index
       ELSE /\ index' = [index EXCEPT !.key = caller[c].paths, !.complete = FALSE,
                                      !.required = TRUE]
            /\ walk' = IF walk = NoWalk THEN NoWalk ELSE [walk EXCEPT !.clean = FALSE]
            /\ caller' = [caller EXCEPT ![c].at = "update"]
    /\ UNCHANGED <<World, stream, reader, life, stopper, spent>>

CallUpdate(c) ==
    /\ caller[c].at = "update"
    /\ IF life.current = Nobody THEN Goto(c, "restart")
       ELSE caller' = [caller EXCEPT ![c] = [at |-> "updating", of |-> life.current,
                                             paths |-> caller[c].paths]]
    /\ UNCHANGED <<World, Index, stream, reader, life, stopper, spent>>

\* Mutant: an update does not notice that the stream's goroutine has ended.
UpdateOrphanedForever(c) == FALSE /\ UNCHANGED watcherVars

UpdateOrphaned(c) ==
    /\ caller[c].at = "updating" /\ stream[caller[c].of].stage = "done"
    /\ Goto(c, "refused")
    /\ UNCHANGED <<World, Index, stream, reader, life, stopper, spent>>

UpdateRefused(c) ==
    /\ caller[c].at = "refused"
    /\ MarkGap
    /\ Goto(c, "restart")
    /\ UNCHANGED <<World, stream, reader, life, stopper, spent>>

ServeFromIndex(c) ==
    /\ caller[c].at = "check" /\ ~index.required
    /\ Goto(c, "idle")
    /\ UNCHANGED <<World, Index, stream, reader, life, stopper, spent>>

BeginWalk(c) ==
    /\ caller[c].at = "check" /\ index.required /\ walk = NoWalk
    /\ walk' = [by |-> c, key |-> index.key, clean |-> TRUE,
                found |-> [r \in Roots |-> IF r \in roots THEN disk[r] ELSE 0]]
    /\ Goto(c, "walk")
    /\ UNCHANGED <<World, index, stream, reader, life, stopper, spent>>

CommitWalk(c) ==
    /\ caller[c].at = "walk"
    /\ LET stable == walk.clean /\ walk.key = index.key
       IN index' = [index EXCEPT !.known = walk.found, !.complete = stable,
                                 !.required = ~stable]
    /\ walk' = NoWalk
    /\ Goto(c, "idle")
    /\ UNCHANGED <<World, stream, reader, life, stopper, spent>>

-----------------------------------------------------------------------------
(* stopIndex.                                                                *)
CallStop ==
    /\ stopper.at = "idle"
    /\ \A c \in Callers : caller[c].at # "start"
    /\ life' = [life EXCEPT !.enabled = FALSE, !.running = FALSE, !.current = Nobody]
    /\ IF life.running
       THEN /\ reader' = [reader EXCEPT ![life.current].stop = TRUE]
            /\ stopper' = [at |-> "stop", of |-> life.current]
       ELSE /\ stopper' = [at |-> "returned"]
            /\ UNCHANGED reader
    /\ UNCHANGED <<World, Index, stream, caller, spent>>

StopClaimed ==
    /\ stopper.at = "stop"
    /\ stream' = [stream EXCEPT ![stopper.of].told = TRUE]
    /\ reader' = [reader EXCEPT ![stopper.of].stops = @ + 1]
    /\ stopper' = [stopper EXCEPT !.at = "stopping"]
    /\ UNCHANGED <<World, Index, life, caller, spent>>

StoppedClaimed ==
    /\ stopper.at = "stopping"
    /\ \/ stream[stopper.of].stage = "done" /\ UNCHANGED spent
       \/ Fault
    /\ stopper' = [stopper EXCEPT !.at = "await"]
    /\ UNCHANGED <<World, Index, stream, reader, life, caller>>

AwaitReader ==
    /\ stopper.at = "await" /\ reader[stopper.of].at = "done"
    /\ stopper' = [at |-> "returned"]
    /\ UNCHANGED <<World, Index, stream, reader, life, caller, spent>>

-----------------------------------------------------------------------------
StreamStep(w) ==
    TakeEvents(w) \/ SendBatch(w) \/ StreamStops(w) \/ \E c \in Callers : ServeUpdate(w, c)

ReaderStep(w) ==
    ReadBatch(w) \/ SeeClosed(w) \/ SeeStop(w) \/ ReleaseLifecycle(w) \/ AnnounceExit(w)
        \/ StopOwn(w) \/ StoppedOwn(w)

SnapshotStep(c) ==
    \/ SyncRoots(c) \/ CallUpdate(c) \/ UpdateOrphaned(c) \/ UpdateRefused(c)
    \/ RestartIfNeeded(c) \/ ServeFromIndex(c) \/ BeginWalk(c) \/ CommitWalk(c)

StopStep == StopClaimed \/ StoppedClaimed \/ AwaitReader

WatcherNext ==
    \/ StartIndex \/ CallStop \/ StopStep
    \/ \E c \in Callers : CallSnapshot(c) \/ SnapshotStep(c)
    \/ \E w \in Watchers : StreamStep(w) \/ ReaderStep(w) \/ StreamEnds(w) \/ LoopPanics(w)
    \/ \E r \in Roots : Change(r) \/ MergeRoot(r)

WatcherSpec == WatcherInit /\ [][WatcherNext]_watcherVars

\* Goroutines are scheduled; when snapshots are called and faults happen is not
\* the code's to decide.
WatcherFairness ==
    /\ \A w \in Watchers : WF_watcherVars(StreamStep(w)) /\ WF_watcherVars(ReaderStep(w))
    /\ \A c \in Callers : WF_watcherVars(SnapshotStep(c))
    /\ WF_watcherVars(StopStep)

WatcherFairSpec == WatcherSpec /\ WatcherFairness

-----------------------------------------------------------------------------
(* Properties.                                                               *)

\* The change is on its way through a live watcher, or that watcher is ending
\* and has not yet marked the gap it leaves.
OnItsWay(r) ==
    \E w \in Watchers :
        \/ reader[w].at = "loop" /\ stream[w].stage = "done"
        \/ reader[w].at \in {"release", "announce"}
        \/ /\ reader[w].at = "loop"
           /\ \/ r \in stream[w].pending \cup stream[w].sending
              \/ \E i \in DOMAIN stream[w].queue : r \in stream[w].queue[i]

Missed == {r \in index.key : index.known[r] # disk[r] /\ ~OnItsWay(r)}

Supervised == life.enabled /\ index.complete /\ spent.merges = 0

\* A change that a watcher had seen is never lost behind a catalog that calls
\* itself complete: not with the watcher's panics, its full buffer, the end of
\* its stream, its replacement by another, or walks that run meanwhile.
LossIsAnnounced == Supervised => Missed \subseteq unwatched

\* evidence_index.go:164 (restartWatcherIfNeeded): "restores incremental
\* coverage after a watcher exits unexpectedly": a running watcher and a
\* complete catalog leave no change unknown.
RestartRestoresCoverage == (Supervised /\ life.running) => Missed = {}

\* evidence_index.go:251: the claim on a watcher is exclusive, between its own
\* goroutine and stopIndex: "Stop is never called twice".
StopIsCalledOnce == \A w \in Watchers : reader[w].stops <= 1

\* Losing or stopping a watcher leaves neither a silent hole nor a double stop.
WatcherLossIsSafe == LossIsAnnounced /\ StopIsCalledOnce

\* stopIndex returns, and a root update that waits for the stream's goroutine
\* is answered, whatever exits, panics and reinstallations they meet.
StopReturns ==
    []<>(\/ stopper.at = "idle"
         \/ stopper.at = "returned" /\ \A c \in Callers : caller[c].at # "updating")
=============================================================================
