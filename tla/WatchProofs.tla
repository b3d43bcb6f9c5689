----------------------------- MODULE WatchProofs -----------------------------
(***************************************************************************)
(* Proofs about the two components that watch, in two parts:               *)
(* EvidenceWatcher for every set of callers and roots, every number of     *)
(* watchers and every buffer, and TrajectoryWatch for every set of sources *)
(* and consumers, every selector, window, page limit and bound.            *)
(*   StopOnce         StopIsCalledOnce is an invariant.                    *)
(*   LossAnnounced    LossIsAnnounced is an invariant.                     *)
(*   LossIsSafe       WatcherLossIsSafe is an invariant.                   *)
(*   StreamComplete   StreamIsComplete is an invariant.                    *)
(*                                                                         *)
(* The invariant of the second part says three things of every consumer.   *)
(* With what its cursor still brings it has everything observed: kept by   *)
(* an observation because the window drops a change only with the cursors  *)
(* before it, and by a page because nothing that matches lies at or below  *)
(* the sequence it reached outside of it.  While it has observed, the      *)
(* stream is what it collected, and the index is caught up unless a hint   *)
(* came since.  While it sleeps there is nothing for it to see.            *)
(***************************************************************************)
EXTENDS EvidenceWatcher, TrajectoryWatch, FiniteSetTheorems, TLAPS

(***************************************************************************)
(* EvidenceWatcher: types.                                                *)
(***************************************************************************)

StreamType == [stage : {"none", "running", "done"}, paths : SUBSET Roots,
               pending : SUBSET Roots, sending : SUBSET Roots, queue : Seq(SUBSET Roots),
               told : BOOLEAN]
ReaderPlaces == {"none", "loop", "release", "announce", "stop", "stopping", "done"}
ReaderType == [at : ReaderPlaces, stop : BOOLEAN, stops : Nat]
LifeType == [enabled : BOOLEAN, running : BOOLEAN, current : Watchers \cup {Nobody},
             next : 1 .. MaxWatchers + 1]
IndexType == [known : [Roots -> Nat], key : SUBSET Roots, complete : BOOLEAN,
              required : BOOLEAN]
WalkType == [by : Callers, key : SUBSET Roots, clean : BOOLEAN, found : [Roots -> Nat]]
CallerType == [at : {"start", "idle", "restart", "refused", "check", "walk"}]
              \cup [at : {"sync", "update"}, paths : SUBSET Roots]
              \cup [at : {"updating"}, of : Watchers, paths : SUBSET Roots]
StopperType == [at : {"idle", "returned"}]
               \cup [at : {"stop", "stopping", "await"}, of : Watchers]
SpentType == [changes : Nat, merges : Nat, faults : Nat]

WatcherTypes ==
    /\ disk \in [Roots -> Nat] /\ roots \subseteq Roots /\ unwatched \subseteq Roots
    /\ index \in IndexType
    /\ walk = NoWalk \/ walk \in WalkType
    /\ stream \in [Watchers -> StreamType]
    /\ reader \in [Watchers -> ReaderType]
    /\ life \in LifeType
    /\ caller \in [Callers -> CallerType]
    /\ stopper \in StopperType
    /\ spent \in SpentType

(***************************************************************************)
(* Who may stop a watcher.                                                 *)
(***************************************************************************)

Unstarted == \A c \in Callers : caller[c].at = "start"

StartsOnce == \A c \in Callers : caller[c].at = "start" => Unstarted

NothingBeforeStart ==
    Unstarted => /\ life.running = FALSE /\ life.next = 1
                 /\ index.complete = FALSE /\ walk = NoWalk /\ stopper.at = "idle"

NewWatchersAreUnread == \A w \in Watchers : w >= life.next => reader[w] = NoReader

\* What the place of w's reader r says of lifecycleMu's fields l.
ReaderOwns(l, w, r) ==
    /\ r.at \in {"loop", "release"} => l.enabled = FALSE \/ (l.running = TRUE /\ l.current = w)
    /\ r.at \in {"none", "announce", "stop"} => r.stops = 0
    /\ r.stops <= 1

RunningIsOwned ==
    life.running = TRUE =>
        /\ life.enabled = TRUE /\ life.current \in Watchers
        /\ reader[life.current].at \in {"loop", "release"}
        /\ reader[life.current].stops = 0

ClaimIsExclusive ==
    /\ stopper.at # "idle" => life.enabled = FALSE
    /\ stopper.at \in {"stop", "stopping", "await"} =>
         reader[stopper.of].at \in {"loop", "release", "done"}
    /\ stopper.at = "stop" => reader[stopper.of].stops = 0

\* A watcher that runs is its reader's and nobody's else, until one of two
\* claims it: the reader on its way out, or stopIndex, which also disables.
OwnerInv ==
    /\ StartsOnce /\ NothingBeforeStart /\ NewWatchersAreUnread /\ RunningIsOwned
    /\ \A w \in Watchers : ReaderOwns(life, w, reader[w])
    /\ ClaimIsExclusive

(***************************************************************************)
(* Where a change is.                                                      *)
(***************************************************************************)

WalkIsHeld ==
    \A c \in Callers : caller[c].at = "walk" => walk \in WalkType /\ walk.by = c

\* What a watcher, its stream s and its reader d, still has of root r.
Carries(s, d, r) ==
    \/ d.at = "loop" /\ s.stage = "done"
    \/ d.at \in {"release", "announce"}
    \/ /\ d.at = "loop"
       /\ \/ r \in s.pending \cup s.sending
          \/ \E i \in DOMAIN s.queue : r \in s.queue[i]

\* A root that is not known at its latest change is on its way or was changed
\* while nothing watched.
Accounted(r, stamp) == stamp = disk[r] \/ OnItsWay(r) \/ r \in unwatched

SteadyRoots ==
    /\ roots = FirstRoots /\ index.key = FirstRoots
    /\ \A c \in Callers : /\ caller[c].at \notin {"update", "updating", "refused"}
                          /\ caller[c].at = "sync" => caller[c].paths = FirstRoots

IndexAccounts == index.complete = TRUE => \A r \in FirstRoots : Accounted(r, index.known[r])
WalkAccounts ==
    walk # NoWalk /\ walk.clean = TRUE => \A r \in FirstRoots : Accounted(r, walk.found[r])

\* Without roots merged meanwhile.
LossInv ==
    spent.merges = 0 => /\ SteadyRoots
                        /\ life.enabled = TRUE => IndexAccounts /\ WalkAccounts

WatcherInv == WatcherTypes /\ WalkIsHeld /\ OwnerInv /\ LossInv

-----------------------------------------------------------------------------
(***************************************************************************)
(* Records.                                                                *)
(***************************************************************************)

LEMMA WalkFields ==
    ASSUME NEW x \in WalkType
    PROVE  /\ x # NoWalk
           /\ x.by \in Callers /\ x.key \in SUBSET Roots /\ x.clean \in BOOLEAN
           /\ x.found \in [Roots -> Nat]
<1>1. DOMAIN x = {"by", "key", "clean", "found"}
  BY DEF WalkType
<1>2. DOMAIN NoWalk = {"by"}
  BY DEF NoWalk
<1> QED
  BY <1>1, <1>2 DEF WalkType

CallerPlaces == {"start", "idle", "restart", "refused", "check", "walk", "sync", "update", "updating"}

LEMMA CallerFields ==
    ASSUME NEW x \in CallerType
    PROVE  /\ x.at \in CallerPlaces
           /\ x.at \in {"sync", "update"} => /\ x.paths \in SUBSET Roots
                                             /\ x \in [at : {"sync", "update"}, paths : SUBSET Roots]
           /\ x.at = "updating" => x.of \in Watchers /\ x.paths \in SUBSET Roots
  BY DEF CallerType, CallerPlaces

LEMMA StopperFields ==
    ASSUME NEW x \in StopperType
    PROVE  /\ x.at \in {"idle", "returned", "stop", "stopping", "await"}
           /\ x.at \in {"stop", "stopping", "await"} =>
                x.of \in Watchers /\ x \in [at : {"stop", "stopping", "await"}, of : Watchers]
  BY DEF StopperType

\* Marking a gap leaves neither a complete index nor a clean walk.
LEMMA GapFacts ==
    ASSUME WatcherTypes, MarkGap
    PROVE  /\ index' \in IndexType /\ index'.complete = FALSE /\ index'.key = index.key
           /\ walk = NoWalk => walk' = NoWalk
           /\ walk # NoWalk => walk' \in WalkType /\ walk'.by = walk.by /\ walk'.clean = FALSE
<1>1. index' = [index EXCEPT !.complete = FALSE, !.required = TRUE] /\ index \in IndexType
  BY DEF MarkGap, WatcherTypes
<1>2. walk = NoWalk => walk' = NoWalk
  BY DEF MarkGap
<1>3. ASSUME walk # NoWalk
      PROVE  walk \in WalkType /\ walk' = [walk EXCEPT !.clean = FALSE]
  BY <1>3 DEF MarkGap, WatcherTypes
<1>4. walk # NoWalk => walk' \in WalkType /\ walk'.by = walk.by /\ walk'.clean = FALSE
  BY <1>3 DEF WalkType
<1> QED
  BY <1>1, <1>2, <1>4 DEF IndexType

\* A batch changes what is known and found of its roots, and nothing else.
LEMMA BatchFacts ==
    ASSUME WatcherTypes, NEW batch, RecordWatchBatch(batch)
    PROVE  /\ index' \in IndexType /\ index'.complete = index.complete /\ index'.key = index.key
           /\ \A r \in Roots : index'.known[r] = IF r \in batch THEN disk[r] ELSE index.known[r]
           /\ walk = NoWalk => walk' = NoWalk
           /\ walk # NoWalk =>
                /\ walk' \in WalkType /\ walk'.by = walk.by /\ walk'.clean = walk.clean
                /\ \A r \in Roots : walk'.found[r] = IF r \in batch THEN disk[r] ELSE walk.found[r]
<1> DEFINE known == [r \in Roots |-> IF r \in batch THEN disk[r] ELSE index.known[r]]
           found == [r \in Roots |-> IF r \in batch THEN disk[r] ELSE walk.found[r]]
<1>1. index' = [index EXCEPT !.known = known] /\ index \in IndexType /\ disk \in [Roots -> Nat]
  BY DEF RecordWatchBatch, WatcherTypes
<1>2. known \in [Roots -> Nat]
  BY <1>1 DEF IndexType
<1>3. \A r \in Roots : known[r] = IF r \in batch THEN disk[r] ELSE index.known[r]
  OBVIOUS
<1>4. walk = NoWalk => walk' = NoWalk
  BY DEF RecordWatchBatch
<1>5. ASSUME walk # NoWalk
      PROVE  /\ walk' \in WalkType /\ walk'.by = walk.by /\ walk'.clean = walk.clean
             /\ \A r \in Roots : walk'.found[r] = IF r \in batch THEN disk[r] ELSE walk.found[r]
  <2>1. walk \in WalkType /\ walk' = [walk EXCEPT !.found = found]
    BY <1>5 DEF RecordWatchBatch, WatcherTypes
  <2>2. found \in [Roots -> Nat]
    BY <1>1, <2>1 DEF WalkType
  <2>3. \A r \in Roots : found[r] = IF r \in batch THEN disk[r] ELSE walk.found[r]
    OBVIOUS
  <2> HIDE DEF found
  <2> QED
    BY <2>1, <2>2, <2>3 DEF WalkType
<1> HIDE DEF known, found
<1> QED
  BY <1>1, <1>2, <1>3, <1>4, <1>5 DEF IndexType

-----------------------------------------------------------------------------
(***************************************************************************)
(* Types are kept.                                                         *)
(***************************************************************************)

LEMMA BlankTypes == NoStream \in StreamType /\ NoReader \in ReaderType
<1>1. << >> \in Seq(SUBSET Roots)
  OBVIOUS
<1> QED
  BY <1>1 DEF NoStream, NoReader, StreamType, ReaderType, ReaderPlaces

LEMMA TypesInit == WatcherInit => WatcherTypes
<1> SUFFICES ASSUME WatcherInit PROVE WatcherTypes
  OBVIOUS
<1>1. disk \in [Roots -> Nat] /\ roots \subseteq Roots /\ unwatched \subseteq Roots
  BY WatcherConstants DEF WatcherInit
<1>2. index \in IndexType /\ walk = NoWalk
  BY WatcherConstants DEF WatcherInit, IndexType
<1>3. stream \in [Watchers -> StreamType] /\ reader \in [Watchers -> ReaderType]
  BY BlankTypes DEF WatcherInit
<1>4. life \in LifeType
  BY WatcherConstants DEF WatcherInit, LifeType, Nobody
<1>5. caller \in [Callers -> CallerType] /\ stopper \in StopperType /\ spent \in SpentType
  BY DEF WatcherInit, CallerType, StopperType, SpentType
<1> QED
  BY <1>1, <1>2, <1>3, <1>4, <1>5 DEF WatcherTypes

LEMMA SpendTypes ==
    ASSUME WatcherTypes, NEW what \in {"changes", "merges", "faults"}, NEW limit \in Nat,
           Spend(what, limit)
    PROVE  spent' \in SpentType
  BY DEF WatcherTypes, Spend, SpentType

LEMMA FaultTypes == WatcherTypes /\ Fault => spent' \in SpentType
  BY SpendTypes, WatcherConstants DEF Fault

\* What installation may change, whichever of its three ends it reaches.
LEMMA InstallTypes ==
    ASSUME WatcherTypes, InstallWatcher
    PROVE  /\ index' \in IndexType /\ (walk' = NoWalk \/ walk' \in WalkType)
           /\ stream' \in [Watchers -> StreamType] /\ reader' \in [Watchers -> ReaderType]
           /\ life' \in LifeType /\ spent' \in SpentType
<1>1. CASE life.next <= MaxWatchers /\ Constructed(life.next)
  <2>1. life.next \in Watchers /\ life.next + 1 \in 1 .. MaxWatchers + 1
    BY <1>1, WatcherConstants DEF WatcherTypes, LifeType, Watchers
  <2>2. life' \in LifeType
    BY <1>1, <2>1 DEF Constructed, LifeType
  <2>3. [NoStream EXCEPT !.stage = "running", !.paths = roots] \in StreamType
    BY BlankTypes DEF WatcherTypes, StreamType
  <2>4. stream' \in [Watchers -> StreamType]
    BY <1>1, <2>1, <2>3 DEF Constructed, WatcherTypes
  <2>5. reader' \in [Watchers -> ReaderType]
    BY <1>1, <2>1 DEF Constructed, WatcherTypes, ReaderType, ReaderPlaces
  <2> QED
    BY <1>1, <2>2, <2>4, <2>5 DEF Constructed, WatcherTypes, Index
<1>2. CASE /\ Fault /\ MarkGap
           /\ \/ life' = [life EXCEPT !.enabled = TRUE]
              \/ life' = [life EXCEPT !.enabled = FALSE]
           /\ UNCHANGED <<stream, reader>>
  <2>1. life' \in LifeType
    BY <1>2 DEF WatcherTypes, LifeType
  <2> QED
    BY <1>2, <2>1, GapFacts, FaultTypes DEF WatcherTypes
<1> QED
  BY <1>1, <1>2 DEF InstallWatcher

\* A stream's next state is one of a stream.
LEMMA StreamsTypes ==
    ASSUME WatcherTypes, NEW w \in Watchers, NEW next \in StreamType, Streams(w, next),
           caller' \in [Callers -> CallerType], spent' \in SpentType
    PROVE  WatcherTypes'
<1>1. stream' \in [Watchers -> StreamType]
  BY DEF Streams, WatcherTypes
<1> QED
  BY <1>1 DEF Streams, WatcherTypes, World, Index

LEMMA StreamStepTypes ==
    ASSUME WatcherTypes, NEW w \in Watchers,
           StreamStep(w) \/ StreamEnds(w)
    PROVE  WatcherTypes'
<1> DEFINE s == stream[w]
<1>1. s \in StreamType /\ caller \in [Callers -> CallerType] /\ spent \in SpentType
  BY DEF WatcherTypes
<1>2. CASE TakeEvents(w)
  <2>1. [s EXCEPT !.sending = @ \cup s.pending, !.pending = {}] \in StreamType
    BY <1>1 DEF StreamType
  <2> QED
    BY <1>1, <1>2, <2>1, StreamsTypes DEF TakeEvents
<1>3. CASE SendBatch(w)
  <2>1. Append(s.queue, s.sending) \in Seq(SUBSET Roots)
    BY <1>1 DEF StreamType
  <2>2. [s EXCEPT !.queue = Append(@, s.sending), !.sending = {}] \in StreamType
    BY <1>1, <2>1 DEF StreamType
  <2> QED
    BY <1>1, <1>3, <2>2, StreamsTypes DEF SendBatch
<1>4. CASE StreamEnds(w) \/ StreamStops(w)
  <2>1. Ended(w) \in StreamType
    BY <1>1 DEF Ended, StreamType
  <2>2. spent' \in SpentType /\ caller' = caller
    BY <1>1, <1>4, FaultTypes DEF StreamEnds, StreamStops
  <2> QED
    BY <1>1, <1>4, <2>1, <2>2, StreamsTypes DEF StreamEnds, StreamStops
<1>5. ASSUME NEW c \in Callers, ServeUpdate(w, c)
      PROVE  WatcherTypes'
  <2>1. caller[c].paths \in SUBSET Roots
    BY <1>1, <1>5, CallerFields DEF ServeUpdate
  <2>2. [s EXCEPT !.paths = caller[c].paths, !.pending = {}] \in StreamType
    BY <1>1, <2>1 DEF StreamType
  <2>3. [at |-> "restart"] \in CallerType /\ [at |-> "refused"] \in CallerType
    BY DEF CallerType
  <2>4. caller' \in [Callers -> CallerType]
    BY <1>1, <1>5, <2>3 DEF ServeUpdate, Goto
  <2>5. spent' \in SpentType
    BY <1>1, <1>5, FaultTypes DEF ServeUpdate
  <2>6. \E next \in StreamType : Streams(w, next)
    BY <1>1, <1>5, <2>2 DEF ServeUpdate
  <2> QED
    BY <2>4, <2>5, <2>6, StreamsTypes
<1> QED
  BY <1>2, <1>3, <1>4, <1>5 DEF StreamStep

LEMMA ReaderStepTypes ==
    ASSUME WatcherTypes, NEW w \in Watchers,
           ReaderStep(w) \/ LoopPanics(w)
    PROVE  WatcherTypes'
<1>1. reader \in [Watchers -> ReaderType] /\ stream \in [Watchers -> StreamType] /\ life \in LifeType
  BY DEF WatcherTypes
<1>2. \A place \in ReaderPlaces : Reads(w, place) => reader' \in [Watchers -> ReaderType]
  BY <1>1 DEF Reads, ReaderType
<1>3. CASE ReadBatch(w)
  <2>1. stream[w].queue \in Seq(SUBSET Roots) /\ stream[w].queue # << >>
    BY <1>1, <1>3 DEF ReadBatch, StreamType
  <2>2. Tail(stream[w].queue) \in Seq(SUBSET Roots)
    BY <2>1
  <2>3. stream' \in [Watchers -> StreamType]
    <3>1. [stream[w] EXCEPT !.queue = Tail(@)] \in StreamType
      BY <1>1, <2>2 DEF StreamType
    <3>2. stream' = [stream EXCEPT ![w] = [stream[w] EXCEPT !.queue = Tail(@)]]
      BY <1>1, <1>3 DEF ReadBatch
    <3> QED
      BY <1>1, <3>1, <3>2
  <2>4. index' \in IndexType /\ (walk' = NoWalk \/ walk' \in WalkType) /\ spent' \in SpentType
    <3>1. CASE RecordWatchBatch(Head(stream[w].queue)) /\ UNCHANGED spent
      BY <3>1, BatchFacts DEF WatcherTypes
    <3>2. CASE Fault /\ MarkGap
      BY <3>2, GapFacts, FaultTypes DEF WatcherTypes
    <3> QED
      BY <1>3, <3>1, <3>2 DEF ReadBatch
  <2> QED
    BY <1>3, <2>3, <2>4 DEF ReadBatch, WatcherTypes, World
<1>4. CASE SeeClosed(w) \/ AnnounceExit(w)
  <2>1. reader' \in [Watchers -> ReaderType]
    BY <1>2, <1>4 DEF SeeClosed, AnnounceExit, ReaderPlaces
  <2>2. index' \in IndexType /\ (walk' = NoWalk \/ walk' \in WalkType)
    BY <1>4, GapFacts DEF SeeClosed, AnnounceExit
  <2> QED
    BY <1>4, <2>1, <2>2 DEF SeeClosed, AnnounceExit, WatcherTypes, World
<1>5. CASE SeeStop(w) \/ LoopPanics(w) \/ StoppedOwn(w)
  <2>1. reader' \in [Watchers -> ReaderType]
    BY <1>2, <1>5 DEF SeeStop, LoopPanics, StoppedOwn, ReaderPlaces
  <2>2. spent' \in SpentType
    BY <1>5, FaultTypes DEF SeeStop, LoopPanics, StoppedOwn, WatcherTypes
  <2> QED
    BY <1>5, <2>1, <2>2 DEF SeeStop, LoopPanics, StoppedOwn, WatcherTypes, World, Index
<1>6. CASE ReleaseLifecycle(w)
  <2>1. reader' \in [Watchers -> ReaderType]
    BY <1>2, <1>6 DEF ReleaseLifecycle, ReaderPlaces
  <2>2. life' \in LifeType
    BY <1>1, <1>6 DEF ReleaseLifecycle, LifeType
  <2> QED
    BY <1>6, <2>1, <2>2 DEF ReleaseLifecycle, WatcherTypes, World, Index
<1>7. CASE StopOwn(w)
  <2>1. [stream[w] EXCEPT !.told = TRUE] \in StreamType
    BY <1>1 DEF StreamType
  <2>2. stream' \in [Watchers -> StreamType]
    BY <1>1, <1>7, <2>1 DEF StopOwn
  <2>3. [reader[w] EXCEPT !.at = "stopping", !.stops = reader[w].stops + 1] \in ReaderType
    <3>1. reader[w] \in ReaderType /\ reader[w].stops + 1 \in Nat /\ "stopping" \in ReaderPlaces
      BY <1>1 DEF ReaderType, ReaderPlaces
    <3> QED
      BY <3>1, Zenon DEF ReaderType
  <2>4. reader' = [reader EXCEPT ![w] = [reader[w] EXCEPT !.at = "stopping",
                                                          !.stops = reader[w].stops + 1]]
    BY <1>1, <1>7 DEF StopOwn, ReaderType
  <2>5. reader' \in [Watchers -> ReaderType]
    BY <1>1, <2>3, <2>4
  <2> QED
    BY <1>7, <2>2, <2>5 DEF StopOwn, WatcherTypes, World, Index
<1> QED
  BY <1>3, <1>4, <1>5, <1>6, <1>7 DEF ReaderStep

LEMMA GotoTypes ==
    ASSUME WatcherTypes, NEW c \in Callers,
           NEW place \in {"idle", "restart", "refused", "check", "walk"}, Goto(c, place)
    PROVE  caller' \in [Callers -> CallerType]
<1>1. [at |-> place] \in CallerType
  BY DEF CallerType
<1> QED
  BY <1>1 DEF Goto, WatcherTypes

LEMMA SnapshotStepTypes ==
    ASSUME WatcherTypes, WalkIsHeld, NEW c \in Callers,
           CallSnapshot(c) \/ SnapshotStep(c)
    PROVE  WatcherTypes'
<1>1. caller \in [Callers -> CallerType] /\ index \in IndexType /\ life \in LifeType
      /\ caller[c] \in CallerType
  BY DEF WatcherTypes
<1>2. CASE CallSnapshot(c)
  <2>1. [at |-> "sync", paths |-> roots] \in CallerType
    BY DEF CallerType, WatcherTypes
  <2>2. caller' \in [Callers -> CallerType]
    BY <1>1, <1>2, <2>1 DEF CallSnapshot
  <2> QED
    BY <1>2, <2>2 DEF CallSnapshot, WatcherTypes, World, Index
<1>3. CASE SyncRoots(c)
  <2>1. caller[c] \in [at : {"sync", "update"}, paths : SUBSET Roots]
    BY <1>1, <1>3, CallerFields DEF SyncRoots
  <2>2. CASE caller[c].paths = index.key
    BY <1>3, <2>2, GotoTypes DEF SyncRoots, WatcherTypes, World, Index
  <2>3. CASE caller[c].paths # index.key
    <3>1. index' \in IndexType
      BY <1>1, <1>3, <2>1, <2>3 DEF SyncRoots, IndexType
    <3>2. walk' = NoWalk \/ walk' \in WalkType
      <4>1. walk = NoWalk \/ walk \in WalkType
        BY DEF WatcherTypes
      <4>2. walk \in WalkType => [walk EXCEPT !.clean = FALSE] \in WalkType
        BY DEF WalkType
      <4>3. walk' = IF walk = NoWalk THEN NoWalk ELSE [walk EXCEPT !.clean = FALSE]
        BY <1>3, <2>3 DEF SyncRoots
      <4> QED
        BY <4>1, <4>2, <4>3
    <3>3. [caller[c] EXCEPT !.at = "update"] \in CallerType
      BY <2>1 DEF CallerType
    <3>4. caller' \in [Callers -> CallerType]
      BY <1>1, <1>3, <2>3, <3>3 DEF SyncRoots
    <3> QED
      BY <1>3, <3>1, <3>2, <3>4 DEF SyncRoots, WatcherTypes, World
  <2> QED
    BY <2>2, <2>3
<1>4. CASE CallUpdate(c)
  <2>1. caller[c].paths \in SUBSET Roots
    BY <1>1, <1>4, CallerFields DEF CallUpdate
  <2>2. caller' \in [Callers -> CallerType]
    <3>1. CASE life.current = Nobody
      BY <1>4, <3>1, GotoTypes DEF CallUpdate
    <3>2. CASE life.current # Nobody
      <4>1. life.current \in Watchers
        BY <1>1, <3>2 DEF LifeType
      <4>2. [at |-> "updating", of |-> life.current, paths |-> caller[c].paths] \in CallerType
        BY <2>1, <4>1 DEF CallerType
      <4> QED
        BY <1>1, <1>4, <3>2, <4>2 DEF CallUpdate
    <3> QED
      BY <3>1, <3>2
  <2> QED
    BY <1>4, <2>2 DEF CallUpdate, WatcherTypes, World, Index
<1>5. CASE UpdateOrphaned(c) \/ ServeFromIndex(c)
  <2>1. caller' \in [Callers -> CallerType]
    BY <1>5, GotoTypes DEF UpdateOrphaned, ServeFromIndex
  <2> QED
    BY <1>5, <2>1 DEF UpdateOrphaned, ServeFromIndex, WatcherTypes, World, Index
<1>6. CASE UpdateRefused(c)
  <2>1. caller' \in [Callers -> CallerType]
    BY <1>6, GotoTypes DEF UpdateRefused
  <2>2. index' \in IndexType /\ (walk' = NoWalk \/ walk' \in WalkType)
    BY <1>6, GapFacts DEF UpdateRefused
  <2> QED
    BY <1>6, <2>1, <2>2 DEF UpdateRefused, WatcherTypes, World
<1>7. CASE RestartIfNeeded(c)
  <2>1. caller' \in [Callers -> CallerType]
    BY <1>7, GotoTypes DEF RestartIfNeeded
  <2>2. CASE UNCHANGED <<Index, life, stream, reader, spent>>
    BY <1>7, <2>1, <2>2 DEF RestartIfNeeded, WatcherTypes, World, Index
  <2>3. CASE InstallWatcher
    BY <1>7, <2>1, <2>3, InstallTypes DEF RestartIfNeeded, WatcherTypes, World
  <2> QED
    BY <1>7, <2>2, <2>3 DEF RestartIfNeeded
<1>8. CASE BeginWalk(c)
  <2>1. caller' \in [Callers -> CallerType]
    BY <1>8, GotoTypes DEF BeginWalk
  <2>2. walk' \in WalkType
    BY <1>1, <1>8 DEF BeginWalk, WalkType, IndexType, WatcherTypes
  <2> QED
    BY <1>8, <2>1, <2>2 DEF BeginWalk, WatcherTypes, World
<1>9. CASE CommitWalk(c)
  <2>1. caller' \in [Callers -> CallerType]
    BY <1>9, GotoTypes DEF CommitWalk
  <2>2. walk \in WalkType
    BY <1>9 DEF CommitWalk, WalkIsHeld
  <2>3. index' \in IndexType
    BY <1>1, <1>9, <2>2 DEF CommitWalk, IndexType, WalkType
  <2> QED
    BY <1>9, <2>1, <2>3 DEF CommitWalk, WatcherTypes, World
<1> QED
  BY <1>2, <1>3, <1>4, <1>5, <1>6, <1>7, <1>8, <1>9 DEF SnapshotStep

LEMMA StopStepTypes ==
    ASSUME WatcherTypes, RunningIsOwned, CallStop \/ StopStep
    PROVE  WatcherTypes'
<1>1. life \in LifeType /\ stopper \in StopperType /\ stream \in [Watchers -> StreamType]
      /\ reader \in [Watchers -> ReaderType]
  BY DEF WatcherTypes
<1>2. CASE CallStop
  <2>1. life' \in LifeType
    BY <1>1, <1>2 DEF CallStop, LifeType
  <2>2. CASE life.running
    <3>1. life.current \in Watchers
      BY <1>1, <2>2 DEF RunningIsOwned, LifeType
    <3>2. reader' \in [Watchers -> ReaderType]
      <4>1. [reader[life.current] EXCEPT !.stop = TRUE] \in ReaderType
        BY <1>1, <3>1 DEF ReaderType
      <4> QED
        BY <1>1, <1>2, <2>2, <3>1, <4>1 DEF CallStop
    <3>3. stopper' \in StopperType
      BY <1>2, <2>2, <3>1 DEF CallStop, StopperType
    <3> QED
      BY <1>2, <2>1, <3>2, <3>3 DEF CallStop, WatcherTypes, World, Index
  <2>3. CASE ~life.running
    <3>1. stopper' \in StopperType
      BY <1>2, <2>3 DEF CallStop, StopperType
    <3> QED
      BY <1>2, <2>1, <2>3, <3>1 DEF CallStop, WatcherTypes, World, Index
  <2> QED
    BY <2>2, <2>3
<1>3. CASE StopClaimed
  <2>1. stopper.of \in Watchers /\ stopper \in [at : {"stop", "stopping", "await"}, of : Watchers]
    BY <1>1, <1>3, StopperFields DEF StopClaimed
  <2>2. stream' \in [Watchers -> StreamType] /\ reader' \in [Watchers -> ReaderType]
    <3>1. PICK w \in Watchers : w = stopper.of
      BY <2>1
    <3>2. [stream[w] EXCEPT !.told = TRUE] \in StreamType
      BY <1>1 DEF StreamType
    <3>3. [reader[w] EXCEPT !.stops = @ + 1] \in ReaderType
      BY <1>1 DEF ReaderType
    <3>4. /\ stream' = [stream EXCEPT ![w] = [stream[w] EXCEPT !.told = TRUE]]
          /\ reader' = [reader EXCEPT ![w] = [reader[w] EXCEPT !.stops = @ + 1]]
      BY <1>3, <3>1 DEF StopClaimed
    <3> QED
      BY <1>1, <3>2, <3>3, <3>4
  <2>3. stopper' \in StopperType
    BY <1>3, <2>1 DEF StopClaimed, StopperType
  <2> QED
    BY <1>3, <2>2, <2>3 DEF StopClaimed, WatcherTypes, World, Index
<1>4. CASE StoppedClaimed
  <2>1. stopper \in [at : {"stop", "stopping", "await"}, of : Watchers]
    BY <1>1, <1>4, StopperFields DEF StoppedClaimed
  <2>2. stopper' \in StopperType
    BY <1>4, <2>1 DEF StoppedClaimed, StopperType
  <2>3. spent' \in SpentType
    BY <1>4, FaultTypes DEF StoppedClaimed, WatcherTypes
  <2> QED
    BY <1>4, <2>2, <2>3 DEF StoppedClaimed, WatcherTypes, World, Index
<1>5. CASE AwaitReader
  <2>1. stopper' \in StopperType
    BY <1>5 DEF AwaitReader, StopperType
  <2> QED
    BY <1>5, <2>1 DEF AwaitReader, WatcherTypes, World, Index
<1> QED
  BY <1>2, <1>3, <1>4, <1>5 DEF StopStep

LEMMA StartTypes == WatcherTypes /\ StartIndex => WatcherTypes'
<1> SUFFICES ASSUME WatcherTypes, StartIndex PROVE WatcherTypes'
  OBVIOUS
<1>1. caller' \in [Callers -> CallerType]
  BY DEF StartIndex, CallerType
<1> QED
  BY <1>1, InstallTypes DEF StartIndex, WatcherTypes, World

LEMMA WorldTypes ==
    ASSUME WatcherTypes, NEW r \in Roots, Change(r) \/ MergeRoot(r)
    PROVE  WatcherTypes'
<1>1. CASE Change(r)
  <2>1. spent.changes + 1 \in Nat /\ spent' \in SpentType
    BY <1>1, SpendTypes, WatcherConstants DEF Change, WatcherTypes, SpentType
  <2>2. disk' \in [Roots -> Nat] /\ unwatched' \subseteq Roots
    BY <1>1, <2>1 DEF Change, WatcherTypes
  <2>3. \A w \in Watchers : [stream[w] EXCEPT !.pending = @ \cup {r}] \in StreamType
    BY DEF WatcherTypes, StreamType
  <2>4. stream' \in [Watchers -> StreamType]
    BY <1>1, <2>3 DEF Change, WatcherTypes
  <2> QED
    BY <1>1, <2>1, <2>2, <2>4 DEF Change, WatcherTypes, Index
<1>2. CASE MergeRoot(r)
  <2>1. spent' \in SpentType
    BY <1>2, SpendTypes, WatcherConstants DEF MergeRoot
  <2> QED
    BY <1>2, <2>1 DEF MergeRoot, WatcherTypes, Index
<1> QED
  BY <1>1, <1>2

LEMMA TypesNext ==
    ASSUME WatcherTypes, WalkIsHeld, RunningIsOwned, WatcherNext
    PROVE  WatcherTypes'
  BY StartTypes, StopStepTypes, SnapshotStepTypes, StreamStepTypes, ReaderStepTypes, WorldTypes
  DEF WatcherNext

-----------------------------------------------------------------------------
(***************************************************************************)
(* The walk belongs to its caller.                                         *)
(***************************************************************************)

\* Marking and recording leave the walk to whom it belongs.
LEMMA WalkKept ==
    ASSUME WatcherTypes, WalkIsHeld, caller' = caller,
           \/ MarkGap \/ UNCHANGED walk
           \/ \E batch : RecordWatchBatch(batch)
    PROVE  WalkIsHeld'
<1>1. walk \in WalkType => walk' \in WalkType /\ walk'.by = walk.by
  BY GapFacts, BatchFacts, WalkFields DEF WatcherTypes
<1> QED
  BY <1>1 DEF WalkIsHeld

\* So does a caller that moves, unless it begins or ends a walk.
LEMMA WalkPassedBy ==
    ASSUME WatcherTypes, WalkIsHeld, NEW c \in Callers, NEW place, place.at # "walk",
           caller' = [caller EXCEPT ![c] = place],
           walk \in WalkType => walk' \in WalkType /\ walk'.by = walk.by
    PROVE  WalkIsHeld'
<1> SUFFICES ASSUME NEW d \in Callers, caller'[d].at = "walk"
             PROVE  walk' \in WalkType /\ walk'.by = d
  BY DEF WalkIsHeld
<1>1. d # c /\ caller'[d] = caller[d]
  BY DEF WatcherTypes
<1> QED
  BY <1>1 DEF WalkIsHeld

LEMMA InstallKeepsWalk ==
    ASSUME WatcherTypes, InstallWatcher, walk \in WalkType
    PROVE  walk' \in WalkType /\ walk'.by = walk.by
  BY GapFacts, WalkFields DEF InstallWatcher, Constructed, Index

LEMMA WalkIsHeldNext ==
    ASSUME WatcherTypes, WalkIsHeld, WatcherNext
    PROVE  WalkIsHeld'
<1>1. CASE StartIndex
  BY <1>1 DEF StartIndex, WalkIsHeld
<1>2. CASE CallStop \/ StopStep
  BY <1>2, WalkKept DEF CallStop, StopStep, StopClaimed, StoppedClaimed, AwaitReader, Index
<1>3. ASSUME NEW c \in Callers, CallSnapshot(c) \/ SnapshotStep(c)
      PROVE  WalkIsHeld'
  <2>1. CASE CallSnapshot(c)
    BY <2>1, WalkPassedBy DEF CallSnapshot, Index
  <2>2. CASE SyncRoots(c)
    <3>1. walk \in WalkType => walk' \in WalkType /\ walk'.by = walk.by
      BY <2>2, WalkFields DEF SyncRoots, Index, WalkType
    <3>2. [caller[c] EXCEPT !.at = "update"].at # "walk"
      <4>1. caller[c] \in [at : {"sync", "update"}, paths : SUBSET Roots]
        BY <2>2, CallerFields DEF SyncRoots, WatcherTypes
      <4> QED
        BY <4>1
    <3>3. \E place : place.at # "walk" /\ caller' = [caller EXCEPT ![c] = place]
      <4>1. CASE caller[c].paths = index.key
        <5>1. [at |-> "restart"].at # "walk"
          OBVIOUS
        <5> QED
          BY <2>2, <4>1, <5>1 DEF SyncRoots, Goto
      <4>2. CASE caller[c].paths # index.key
        <5>1. caller' = [caller EXCEPT ![c] = [caller[c] EXCEPT !.at = "update"]]
          BY <2>2, <4>2 DEF SyncRoots
        <5> QED
          BY <3>2, <5>1
      <4> QED
        BY <4>1, <4>2
    <3> QED
      BY <3>1, <3>3, WalkPassedBy
  <2>3. CASE CallUpdate(c)
    <3>1. /\ [at |-> "restart"].at # "walk"
          /\ [at |-> "updating", of |-> life.current, paths |-> caller[c].paths].at # "walk"
      OBVIOUS
    <3>2. \E place : place.at # "walk" /\ caller' = [caller EXCEPT ![c] = place]
      BY <2>3, <3>1 DEF CallUpdate, Goto
    <3> QED
      BY <2>3, <3>2, WalkPassedBy DEF CallUpdate, Index
  <2>4. CASE UpdateOrphaned(c) \/ ServeFromIndex(c)
    BY <2>4, WalkPassedBy DEF UpdateOrphaned, ServeFromIndex, Goto, Index
  <2>5. CASE UpdateRefused(c)
    <3>1. walk \in WalkType => walk' \in WalkType /\ walk'.by = walk.by
      BY <2>5, GapFacts, WalkFields DEF UpdateRefused
    <3> QED
      BY <2>5, <3>1, WalkPassedBy DEF UpdateRefused, Goto
  <2>6. CASE RestartIfNeeded(c)
    <3>1. walk \in WalkType => walk' \in WalkType /\ walk'.by = walk.by
      BY <2>6, InstallKeepsWalk DEF RestartIfNeeded, Index
    <3> QED
      BY <2>6, <3>1, WalkPassedBy DEF RestartIfNeeded, Goto
  <2>7. CASE BeginWalk(c)
    <3>1. walk' \in WalkType /\ walk'.by = c /\ walk = NoWalk
      BY <2>7 DEF BeginWalk, WalkType, IndexType, WatcherTypes
    <3>2. \A d \in Callers : d # c => caller[d].at # "walk"
      BY <3>1, WalkFields DEF WalkIsHeld
    <3> QED
      BY <2>7, <3>1, <3>2 DEF BeginWalk, Goto, WalkIsHeld, WatcherTypes
  <2>8. CASE CommitWalk(c)
    <3>1. \A d \in Callers : d # c => caller[d].at # "walk"
      BY <2>8 DEF WalkIsHeld, CommitWalk
    <3> QED
      BY <2>8, <3>1 DEF CommitWalk, Goto, WalkIsHeld, WatcherTypes
  <2> QED
    BY <1>3, <2>1, <2>2, <2>3, <2>4, <2>5, <2>6, <2>7, <2>8 DEF SnapshotStep
<1>4. ASSUME NEW w \in Watchers, StreamStep(w) \/ StreamEnds(w)
      PROVE  WalkIsHeld'
  <2>1. ASSUME NEW c \in Callers, ServeUpdate(w, c)
        PROVE  WalkIsHeld'
    BY <2>1, WalkPassedBy DEF ServeUpdate, Streams, Goto, Index
  <2> QED
    BY <1>4, <2>1, WalkKept
    DEF StreamStep, TakeEvents, SendBatch, StreamStops, StreamEnds, Streams, Index
<1>5. ASSUME NEW w \in Watchers, ReaderStep(w) \/ LoopPanics(w)
      PROVE  WalkIsHeld'
  BY <1>5, WalkKept
  DEF ReaderStep, ReadBatch, SeeClosed, SeeStop, ReleaseLifecycle, AnnounceExit, StopOwn,
      StoppedOwn, LoopPanics, Index
<1>6. ASSUME NEW r \in Roots, Change(r) \/ MergeRoot(r)
      PROVE  WalkIsHeld'
  BY <1>6, WalkKept DEF Change, MergeRoot, Index
<1> QED
  BY <1>1, <1>2, <1>3, <1>4, <1>5, <1>6 DEF WatcherNext

-----------------------------------------------------------------------------
(***************************************************************************)
(* A watcher has one owner.                                                *)
(***************************************************************************)

LEMMA OwnerInit == WatcherInit => OwnerInv
  BY WatcherConstants
  DEF WatcherInit, OwnerInv, StartsOnce, Unstarted, NothingBeforeStart, NewWatchersAreUnread,
      RunningIsOwned, ReaderOwns, ClaimIsExclusive, NoReader, Watchers

\* A step of one caller that neither comes from the start nor goes back there,
\* where readers, lifecycleMu's fields and stopIndex stay as they are.
LEMMA CallerOwns ==
    ASSUME WatcherTypes, OwnerInv, NEW c \in Callers, caller[c].at # "start",
           NEW place, place.at # "start", caller' = [caller EXCEPT ![c] = place]
    PROVE  StartsOnce' /\ ~Unstarted' /\ ~Unstarted
<1>1. caller'[c] = place /\ \A d \in Callers : d # c => caller'[d] = caller[d]
  BY DEF WatcherTypes
<1>2. \A d \in Callers : caller[d].at # "start"
  BY DEF OwnerInv, StartsOnce, Unstarted
<1> QED
  BY <1>1, <1>2 DEF StartsOnce, Unstarted

LEMMA OwnersStay ==
    ASSUME OwnerInv, UNCHANGED <<reader, life, stopper>>, StartsOnce', NothingBeforeStart'
    PROVE  OwnerInv'
  BY DEF OwnerInv, NewWatchersAreUnread, RunningIsOwned, ClaimIsExclusive

LEMMA CallerStepOwns ==
    ASSUME WatcherTypes, OwnerInv, NEW c \in Callers, caller[c].at # "start",
           NEW place, place.at # "start", caller' = [caller EXCEPT ![c] = place],
           UNCHANGED <<reader, life, stopper>>
    PROVE  OwnerInv'
<1>1. NothingBeforeStart'
  BY CallerOwns DEF NothingBeforeStart
<1> QED
  BY <1>1, CallerOwns, OwnersStay

\* A step that leaves the callers alone makes no index complete before the start.
LEMMA NothingStarts ==
    ASSUME WatcherTypes, OwnerInv, caller' = caller,
           Unstarted => UNCHANGED <<life, stopper>>,
           \/ MarkGap \/ UNCHANGED Index
           \/ \E batch : RecordWatchBatch(batch)
    PROVE  StartsOnce' /\ NothingBeforeStart' /\ (Unstarted' <=> Unstarted)
<1>1. Unstarted' <=> Unstarted
  BY DEF Unstarted
<1>2. StartsOnce'
  BY <1>1 DEF OwnerInv, StartsOnce
<1>3. index.complete = FALSE /\ walk = NoWalk => index'.complete = FALSE /\ walk' = NoWalk
  BY GapFacts, BatchFacts DEF Index
<1> QED
  BY <1>1, <1>2, <1>3 DEF OwnerInv, NothingBeforeStart

\* A reader w moves on to r, and a reader that is not new was installed.
LEMMA ReaderMoves ==
    ASSUME WatcherTypes, OwnerInv, NEW w \in Watchers, NEW r,
           reader[w].at # "none", reader' = [reader EXCEPT ![w] = r],
           caller' = caller, stopper' = stopper, life'.next = life.next,
           MarkGap \/ UNCHANGED Index
    PROVE  /\ StartsOnce' /\ NothingBeforeStart' /\ NewWatchersAreUnread'
           /\ reader'[w] = r /\ \A v \in Watchers : v # w => reader'[v] = reader[v]
<1>1. reader'[w] = r /\ \A v \in Watchers : v # w => reader'[v] = reader[v]
  BY DEF WatcherTypes
<1>2. reader[w] # NoReader
  BY DEF NoReader
<1>3. NewWatchersAreUnread'
  BY <1>1, <1>2 DEF OwnerInv, NewWatchersAreUnread
<1>4. ~Unstarted
  <2>1. w >= 1
    BY WatcherConstants DEF Watchers
  <2> QED
    BY <1>2, <2>1 DEF OwnerInv, NewWatchersAreUnread, NothingBeforeStart
<1> QED
  BY <1>1, <1>3, <1>4, NothingStarts

LEMMA ReaderStepOwns ==
    ASSUME WatcherTypes, OwnerInv, NEW w \in Watchers,
           ReaderStep(w) \/ LoopPanics(w)
    PROVE  OwnerInv'
<1> DEFINE d == reader[w]
<1>1. d \in ReaderType /\ life \in LifeType
  BY DEF WatcherTypes
<1>2. CASE ReadBatch(w)
  BY <1>2, NothingStarts, OwnersStay DEF ReadBatch
<1>3. CASE SeeClosed(w) \/ SeeStop(w) \/ LoopPanics(w)
  <2> DEFINE r == [d EXCEPT !.at = "release"]
  <2>1. d.at = "loop" /\ reader' = [reader EXCEPT ![w] = r] /\ UNCHANGED <<caller, stopper, life>>
        /\ (MarkGap \/ UNCHANGED Index)
    BY <1>3 DEF SeeClosed, SeeStop, LoopPanics, Reads
  <2>2. r.at = "release" /\ r.stops = d.stops
    BY <1>1 DEF ReaderType
  <2> HIDE DEF r
  <2>3. StartsOnce' /\ NothingBeforeStart' /\ NewWatchersAreUnread'
        /\ reader'[w] = r /\ \A v \in Watchers : v # w => reader'[v] = reader[v]
    BY <2>1, ReaderMoves
  <2>4. \A v \in Watchers : ReaderOwns(life', v, reader'[v])
    BY <2>1, <2>2, <2>3 DEF OwnerInv, ReaderOwns
  <2>5. RunningIsOwned'
    BY <2>1, <2>2, <2>3 DEF OwnerInv, RunningIsOwned
  <2>6. ClaimIsExclusive'
    BY <2>1, <2>2, <2>3, StopperFields DEF OwnerInv, ClaimIsExclusive, WatcherTypes
  <2> QED
    BY <2>3, <2>4, <2>5, <2>6 DEF OwnerInv
<1>4. CASE ReleaseLifecycle(w) /\ life.running = TRUE /\ life.current = w
  <2> DEFINE place == IF life.enabled THEN "announce" ELSE "stop"
             r == [d EXCEPT !.at = place]
  <2>1. d.at = "release" /\ reader' = [reader EXCEPT ![w] = r] /\ UNCHANGED <<caller, stopper>>
        /\ life' = [life EXCEPT !.running = FALSE, !.current = Nobody] /\ UNCHANGED Index
    BY <1>4 DEF ReleaseLifecycle, Reads
  <2>2. r.at \in {"announce", "stop"} /\ r.stops = d.stops
    BY <1>1 DEF ReaderType
  <2> HIDE DEF r
  <2>3. life'.running = FALSE /\ life'.next = life.next /\ life'.enabled = life.enabled
    BY <1>1, <2>1 DEF LifeType
  <2>4. StartsOnce' /\ NothingBeforeStart' /\ NewWatchersAreUnread'
        /\ reader'[w] = r /\ \A v \in Watchers : v # w => reader'[v] = reader[v]
    BY <2>1, <2>3, ReaderMoves
  <2>5. d.stops = 0 /\ life.enabled = TRUE
    BY <1>4 DEF OwnerInv, RunningIsOwned
  <2>6. \A v \in Watchers : ReaderOwns(life', v, reader'[v])
    BY <1>4, <2>2, <2>3, <2>4, <2>5 DEF OwnerInv, ReaderOwns
  <2>7. RunningIsOwned'
    BY <2>3 DEF RunningIsOwned
  <2>8. stopper.at = "idle"
    BY <2>5 DEF OwnerInv, ClaimIsExclusive
  <2>9. ClaimIsExclusive'
    BY <2>1, <2>8 DEF ClaimIsExclusive
  <2> QED
    BY <2>4, <2>6, <2>7, <2>9 DEF OwnerInv
<1>5. CASE \/ ReleaseLifecycle(w) /\ ~(life.running = TRUE /\ life.current = w)
           \/ StoppedOwn(w)
  <2> DEFINE r == [d EXCEPT !.at = "done"]
  <2>1. d.at \in {"release", "stopping"} /\ reader' = [reader EXCEPT ![w] = r]
        /\ UNCHANGED <<caller, stopper, life>> /\ UNCHANGED Index
        /\ ~(d.at = "release" /\ life.running = TRUE /\ life.current = w)
    BY <1>1, <1>5 DEF ReleaseLifecycle, StoppedOwn, Reads, LifeType
  <2>2. r.at = "done" /\ r.stops = d.stops
    BY <1>1 DEF ReaderType
  <2> HIDE DEF r
  <2>3. StartsOnce' /\ NothingBeforeStart' /\ NewWatchersAreUnread'
        /\ reader'[w] = r /\ \A v \in Watchers : v # w => reader'[v] = reader[v]
    BY <2>1, ReaderMoves
  <2>4. \A v \in Watchers : ReaderOwns(life', v, reader'[v])
    BY <2>1, <2>2, <2>3 DEF OwnerInv, ReaderOwns
  <2>5. RunningIsOwned'
    BY <2>1, <2>2, <2>3 DEF OwnerInv, RunningIsOwned
  <2>6. ClaimIsExclusive'
    BY <2>1, <2>2, <2>3, StopperFields DEF OwnerInv, ClaimIsExclusive, WatcherTypes
  <2> QED
    BY <2>3, <2>4, <2>5, <2>6 DEF OwnerInv
<1>6. CASE AnnounceExit(w)
  <2> DEFINE r == [d EXCEPT !.at = "stop"]
  <2>1. d.at = "announce" /\ reader' = [reader EXCEPT ![w] = r]
        /\ UNCHANGED <<caller, stopper, life>> /\ MarkGap
    BY <1>6 DEF AnnounceExit, Reads
  <2>2. r.at = "stop" /\ r.stops = d.stops
    BY <1>1 DEF ReaderType
  <2> HIDE DEF r
  <2>3. StartsOnce' /\ NothingBeforeStart' /\ NewWatchersAreUnread'
        /\ reader'[w] = r /\ \A v \in Watchers : v # w => reader'[v] = reader[v]
    BY <2>1, ReaderMoves
  <2>4. \A v \in Watchers : ReaderOwns(life', v, reader'[v])
    BY <2>1, <2>2, <2>3 DEF OwnerInv, ReaderOwns
  <2>5. RunningIsOwned'
    BY <2>1, <2>2, <2>3 DEF OwnerInv, RunningIsOwned
  <2>6. ClaimIsExclusive'
    BY <2>1, <2>2, <2>3, StopperFields DEF OwnerInv, ClaimIsExclusive, WatcherTypes
  <2> QED
    BY <2>3, <2>4, <2>5, <2>6 DEF OwnerInv
<1>7. CASE StopOwn(w)
  <2> DEFINE r == [d EXCEPT !.at = "stopping", !.stops = @ + 1]
  <2>1. d.at = "stop" /\ reader' = [reader EXCEPT ![w] = r]
        /\ UNCHANGED <<caller, stopper, life>> /\ UNCHANGED Index
    BY <1>7 DEF StopOwn
  <2>2. r.at = "stopping" /\ r.stops = d.stops + 1
    BY <1>1 DEF ReaderType
  <2> HIDE DEF r
  <2>3. StartsOnce' /\ NothingBeforeStart' /\ NewWatchersAreUnread'
        /\ reader'[w] = r /\ \A v \in Watchers : v # w => reader'[v] = reader[v]
    BY <2>1, ReaderMoves
  <2>4. \A v \in Watchers : ReaderOwns(life', v, reader'[v])
    BY <2>1, <2>2, <2>3 DEF OwnerInv, ReaderOwns
  <2>5. RunningIsOwned'
    BY <2>1, <2>2, <2>3 DEF OwnerInv, RunningIsOwned
  <2>6. ClaimIsExclusive'
    BY <2>1, <2>2, <2>3, StopperFields DEF OwnerInv, ClaimIsExclusive, WatcherTypes
  <2> QED
    BY <2>3, <2>4, <2>5, <2>6 DEF OwnerInv
<1>8. CASE ReleaseLifecycle(w)
  BY <1>1, <1>4, <1>5, <1>8 DEF LifeType
<1> QED
  BY <1>2, <1>3, <1>5, <1>6, <1>7, <1>8 DEF ReaderStep

LEMMA StopStepOwns ==
    ASSUME WatcherTypes, OwnerInv, CallStop \/ StopStep
    PROVE  OwnerInv'
<1>1. life \in LifeType /\ stopper \in StopperType /\ reader \in [Watchers -> ReaderType]
  BY DEF WatcherTypes
<1>2. CASE CallStop
  <2>1. ~Unstarted /\ ~Unstarted'
    BY <1>2, WatcherConstants DEF CallStop, Unstarted
  <2>2. StartsOnce' /\ NothingBeforeStart'
    BY <1>2, <2>1 DEF OwnerInv, StartsOnce, Unstarted, NothingBeforeStart, CallStop
  <2>3. life'.enabled = FALSE /\ life'.running = FALSE /\ life'.next = life.next
    BY <1>1, <1>2 DEF CallStop, LifeType
  <2>4. CASE life.running = TRUE
    <3> DEFINE w == life.current
               r == [reader[w] EXCEPT !.stop = TRUE]
    <3>1. w \in Watchers /\ reader[w].at \in {"loop", "release"} /\ reader[w].stops = 0
      BY <2>4 DEF OwnerInv, RunningIsOwned
    <3>2. reader' = [reader EXCEPT ![w] = r] /\ stopper' = [at |-> "stop", of |-> w]
      BY <1>2, <2>4 DEF CallStop
    <3>3. r.at = reader[w].at /\ r.stops = reader[w].stops
      BY <1>1, <3>1 DEF ReaderType
    <3>4. reader'[w] = r /\ \A v \in Watchers : v # w => reader'[v] = reader[v]
      BY <1>1, <3>1, <3>2
    <3>5. reader[w] # NoReader
      BY <3>1 DEF NoReader
    <3> HIDE DEF r
    <3>6. NewWatchersAreUnread'
      BY <2>3, <3>4, <3>5 DEF OwnerInv, NewWatchersAreUnread
    <3>7. \A v \in Watchers : ReaderOwns(life', v, reader'[v])
      BY <2>3, <3>3, <3>4 DEF OwnerInv, ReaderOwns
    <3>8. ClaimIsExclusive' /\ RunningIsOwned'
      BY <2>3, <3>1, <3>2, <3>3, <3>4 DEF ClaimIsExclusive, RunningIsOwned
    <3> QED
      BY <2>2, <3>6, <3>7, <3>8 DEF OwnerInv
  <2>5. CASE life.running = FALSE
    <3>1. reader' = reader /\ stopper' = [at |-> "returned"]
      BY <1>2, <2>5 DEF CallStop
    <3>2. NewWatchersAreUnread'
      BY <2>3, <3>1 DEF OwnerInv, NewWatchersAreUnread
    <3>3. \A v \in Watchers : ReaderOwns(life', v, reader'[v])
      BY <2>3, <3>1 DEF OwnerInv, ReaderOwns
    <3>4. ClaimIsExclusive' /\ RunningIsOwned'
      BY <2>3, <3>1 DEF ClaimIsExclusive, RunningIsOwned
    <3> QED
      BY <2>2, <3>2, <3>3, <3>4 DEF OwnerInv
  <2> QED
    BY <1>1, <2>4, <2>5 DEF LifeType
<1>3. ASSUME StopStep
      PROVE  /\ StartsOnce' /\ NothingBeforeStart' /\ life' = life
             /\ life.enabled = FALSE /\ life.running = FALSE
  <2>1. life' = life /\ UNCHANGED Index /\ caller' = caller /\ stopper.at \in {"stop", "stopping", "await"}
    BY <1>3 DEF StopStep, StopClaimed, StoppedClaimed, AwaitReader
  <2>2. life.enabled = FALSE /\ ~Unstarted
    BY <2>1 DEF OwnerInv, ClaimIsExclusive, NothingBeforeStart
  <2>3. life.running = FALSE
    BY <1>1, <2>2 DEF OwnerInv, RunningIsOwned, LifeType
  <2> QED
    BY <2>1, <2>2, <2>3, NothingStarts
<1>4. CASE StopClaimed
  <2>1. PICK w \in Watchers : w = stopper.of
    BY <1>1, <1>4, StopperFields DEF StopClaimed
  <2> DEFINE r == [reader[w] EXCEPT !.stops = @ + 1]
             s == [stopper EXCEPT !.at = "stopping"]
  <2>2. reader[w].at \in {"loop", "release", "done"} /\ reader[w].stops = 0
    BY <1>4, <2>1 DEF StopClaimed, OwnerInv, ClaimIsExclusive
  <2>3. r.at = reader[w].at /\ r.stops = 1
    BY <1>1, <2>2 DEF ReaderType
  <2>4. reader' = [reader EXCEPT ![w] = r] /\ stopper' = s
    BY <1>4, <2>1 DEF StopClaimed
  <2>5. reader'[w] = r /\ \A v \in Watchers : v # w => reader'[v] = reader[v]
    BY <1>1, <2>4
  <2>6. s.at = "stopping" /\ s.of = w
    BY <1>1, <1>4, <2>1, StopperFields DEF StopClaimed
  <2>7. reader[w] # NoReader
    BY <2>2 DEF NoReader
  <2> HIDE DEF r, s
  <2>8. NewWatchersAreUnread'
    BY <1>3, <1>4, <2>5, <2>7 DEF StopStep, OwnerInv, NewWatchersAreUnread
  <2>9. \A v \in Watchers : ReaderOwns(life', v, reader'[v])
    BY <1>3, <1>4, <2>2, <2>3, <2>5 DEF StopStep, OwnerInv, ReaderOwns
  <2>10. ClaimIsExclusive' /\ RunningIsOwned'
    BY <1>3, <1>4, <2>2, <2>3, <2>4, <2>5, <2>6 DEF StopStep, ClaimIsExclusive, RunningIsOwned
  <2> QED
    BY <1>3, <1>4, <2>8, <2>9, <2>10 DEF StopStep, OwnerInv
<1>5. CASE StoppedClaimed \/ AwaitReader
  <2>1. reader' = reader
    BY <1>5 DEF StoppedClaimed, AwaitReader
  <2>2. \/ stopper'.at = "returned"
        \/ stopper.at = "stopping" /\ stopper'.at = "await" /\ stopper'.of = stopper.of
    <3>1. CASE StoppedClaimed
      BY <1>1, <3>1, StopperFields DEF StoppedClaimed
    <3>2. CASE AwaitReader
      BY <3>2 DEF AwaitReader
    <3> QED
      BY <1>5, <3>1, <3>2
  <2>3. ClaimIsExclusive'
    BY <1>3, <1>5, <2>1, <2>2 DEF StopStep, OwnerInv, ClaimIsExclusive
  <2> QED
    BY <1>3, <1>5, <2>1, <2>3
    DEF StopStep, OwnerInv, NewWatchersAreUnread, RunningIsOwned
<1> QED
  BY <1>2, <1>4, <1>5 DEF StopStep

\* A watcher is installed when no other has an owner.
LEMMA InstallOwns ==
    ASSUME WatcherTypes, NewWatchersAreUnread, InstallWatcher,
           \A w \in Watchers : ReaderOwns(life, w, reader[w]),
           \A w \in Watchers : reader[w].at \notin {"loop", "release"},
           life.running = FALSE, stopper.at = "idle", stopper' = stopper,
           StartsOnce', ~Unstarted'
    PROVE  OwnerInv'
<1>1. life \in LifeType /\ reader \in [Watchers -> ReaderType]
  BY DEF WatcherTypes
<1>2. NothingBeforeStart' /\ ClaimIsExclusive'
  BY DEF NothingBeforeStart, ClaimIsExclusive
<1>3. CASE life.next <= MaxWatchers /\ Constructed(life.next)
  <2> DEFINE w == life.next
             r == [reader[w] EXCEPT !.at = "loop"]
  <2>1. w \in Watchers /\ life'.running = TRUE /\ life'.enabled = TRUE
        /\ life'.current = w /\ life'.next = w + 1
        /\ reader' = [reader EXCEPT ![w] = r]
    BY <1>1, <1>3, WatcherConstants DEF Constructed, LifeType, Watchers
  <2>2. r.at = "loop" /\ r.stops = 0
    BY <2>1 DEF NewWatchersAreUnread, NoReader, Watchers
  <2>3. reader'[w] = r /\ \A v \in Watchers : v # w => reader'[v] = reader[v]
    BY <1>1, <2>1
  <2> HIDE DEF r
  <2>4. NewWatchersAreUnread'
    BY <2>1, <2>3 DEF NewWatchersAreUnread, Watchers
  <2>5. RunningIsOwned'
    BY <2>1, <2>2, <2>3 DEF RunningIsOwned
  <2>6. \A v \in Watchers : ReaderOwns(life', v, reader'[v])
    BY <2>1, <2>2, <2>3 DEF ReaderOwns
  <2> QED
    BY <1>2, <2>4, <2>5, <2>6 DEF OwnerInv
<1>4. CASE /\ \/ life' = [life EXCEPT !.enabled = TRUE]
              \/ life' = [life EXCEPT !.enabled = FALSE]
           /\ UNCHANGED <<stream, reader>>
  <2>1. life'.running = FALSE /\ life'.next = life.next /\ reader' = reader
    BY <1>1, <1>4 DEF LifeType
  <2>2. NewWatchersAreUnread' /\ RunningIsOwned'
    BY <2>1 DEF NewWatchersAreUnread, RunningIsOwned
  <2>3. \A v \in Watchers : ReaderOwns(life', v, reader'[v])
    BY <2>1 DEF ReaderOwns
  <2> QED
    BY <1>2, <2>2, <2>3 DEF OwnerInv
<1> QED
  BY <1>3, <1>4 DEF InstallWatcher

LEMMA StartOwns ==
    ASSUME WatcherTypes, OwnerInv, StartIndex
    PROVE  OwnerInv'
<1>1. Unstarted /\ life.running = FALSE /\ life.next = 1 /\ stopper.at = "idle"
  BY DEF StartIndex, OwnerInv, NothingBeforeStart, Unstarted
<1>2. \A w \in Watchers : reader[w] = NoReader
  BY <1>1, WatcherConstants DEF OwnerInv, NewWatchersAreUnread, Watchers
<1>3. StartsOnce' /\ ~Unstarted'
  BY WatcherConstants DEF StartIndex, StartsOnce, Unstarted
<1>4. \A w \in Watchers : reader[w].at \notin {"loop", "release"}
  BY <1>2 DEF NoReader
<1>5. InstallWatcher /\ stopper' = stopper
  BY DEF StartIndex
<1>6. NewWatchersAreUnread /\ \A w \in Watchers : ReaderOwns(life, w, reader[w])
  BY DEF OwnerInv
<1> QED
  BY <1>1, <1>3, <1>4, <1>5, <1>6, InstallOwns

LEMMA RestartOwns ==
    ASSUME WatcherTypes, OwnerInv, NEW c \in Callers, RestartIfNeeded(c)
    PROVE  OwnerInv'
<1>1. caller[c].at # "start" /\ caller' = [caller EXCEPT ![c] = [at |-> "check"]]
  BY DEF RestartIfNeeded, Goto
<1>2. [at |-> "check"].at # "start"
  OBVIOUS
<1>3. StartsOnce' /\ ~Unstarted'
  BY <1>1, <1>2, CallerOwns
<1>4. CASE life.running \/ ~life.enabled
  BY <1>1, <1>2, <1>4, CallerStepOwns DEF RestartIfNeeded
<1>5. CASE ~(life.running \/ ~life.enabled)
  <2>1. life.running = FALSE /\ life.enabled = TRUE /\ InstallWatcher /\ stopper' = stopper
    BY <1>5 DEF RestartIfNeeded, WatcherTypes, LifeType
  <2>2. \A w \in Watchers : reader[w].at \notin {"loop", "release"}
    BY <2>1 DEF OwnerInv, ReaderOwns
  <2>3. stopper.at = "idle"
    BY <2>1 DEF OwnerInv, ClaimIsExclusive
  <2> QED
    BY <1>3, <2>1, <2>2, <2>3, InstallOwns DEF OwnerInv
<1> QED
  BY <1>4, <1>5

LEMMA SnapshotStepOwns ==
    ASSUME WatcherTypes, OwnerInv, NEW c \in Callers, CallSnapshot(c) \/ SnapshotStep(c)
    PROVE  OwnerInv'
<1>1. CASE RestartIfNeeded(c)
  BY <1>1, RestartOwns
<1>2. CASE SyncRoots(c)
  <2>1. caller[c] \in [at : {"sync", "update"}, paths : SUBSET Roots]
    BY <1>2, CallerFields DEF SyncRoots, WatcherTypes
  <2>2. [caller[c] EXCEPT !.at = "update"].at # "start" /\ [at |-> "restart"].at # "start"
    BY <2>1
  <2>3. caller' = [caller EXCEPT ![c] = [caller[c] EXCEPT !.at = "update"]]
        \/ caller' = [caller EXCEPT ![c] = [at |-> "restart"]]
    BY <1>2 DEF SyncRoots, Goto
  <2> QED
    BY <1>2, <2>2, <2>3, CallerStepOwns DEF SyncRoots
<1>3. CASE CallUpdate(c)
  <2>1. [at |-> "restart"].at # "start"
        /\ [at |-> "updating", of |-> life.current, paths |-> caller[c].paths].at # "start"
    OBVIOUS
  <2>2. \E place : place.at # "start" /\ caller' = [caller EXCEPT ![c] = place]
    BY <1>3, <2>1 DEF CallUpdate, Goto
  <2> QED
    BY <1>3, <2>2, CallerStepOwns DEF CallUpdate
<1>4. CASE CallSnapshot(c)
  <2>1. [at |-> "sync", paths |-> roots].at # "start"
    OBVIOUS
  <2> QED
    BY <1>4, <2>1, CallerStepOwns DEF CallSnapshot
<1>5. CASE UpdateOrphaned(c) \/ UpdateRefused(c) \/ ServeFromIndex(c) \/ BeginWalk(c) \/ CommitWalk(c)
  <2>1. caller[c].at # "start" /\ UNCHANGED <<reader, life, stopper>>
    BY <1>5 DEF UpdateOrphaned, UpdateRefused, ServeFromIndex, BeginWalk, CommitWalk
  <2>2. PICK place \in {"refused", "restart", "idle", "walk"} : Goto(c, place)
    BY <1>5 DEF UpdateOrphaned, UpdateRefused, ServeFromIndex, BeginWalk, CommitWalk
  <2>3. [at |-> place].at # "start"
    OBVIOUS
  <2> QED
    BY <2>1, <2>2, <2>3, CallerStepOwns DEF Goto
<1> QED
  BY <1>1, <1>2, <1>3, <1>4, <1>5 DEF SnapshotStep

LEMMA StreamStepOwns ==
    ASSUME WatcherTypes, OwnerInv, NEW w \in Watchers, StreamStep(w) \/ StreamEnds(w)
    PROVE  OwnerInv'
<1>1. ASSUME NEW c \in Callers, ServeUpdate(w, c)
      PROVE  OwnerInv'
  <2>1. [at |-> "restart"].at # "start" /\ [at |-> "refused"].at # "start"
    OBVIOUS
  <2> QED
    BY <1>1, <2>1, CallerStepOwns DEF ServeUpdate, Streams, Goto
<1>2. CASE TakeEvents(w) \/ SendBatch(w) \/ StreamStops(w) \/ StreamEnds(w)
  BY <1>2, NothingStarts, OwnersStay
  DEF TakeEvents, SendBatch, StreamStops, StreamEnds, Streams
<1> QED
  BY <1>1, <1>2 DEF StreamStep

LEMMA OwnerNext ==
    ASSUME WatcherTypes, OwnerInv, WatcherNext
    PROVE  OwnerInv'
<1>1. ASSUME NEW r \in Roots, Change(r) \/ MergeRoot(r)
      PROVE  OwnerInv'
  BY <1>1, NothingStarts, OwnersStay DEF Change, MergeRoot
<1> QED
  BY <1>1, StartOwns, StopStepOwns, SnapshotStepOwns, StreamStepOwns, ReaderStepOwns DEF WatcherNext

-----------------------------------------------------------------------------
(***************************************************************************)
(* A change that was seen is accounted for.                                *)
(***************************************************************************)

LEMMA StillOnItsWay ==
    ASSUME NEW r,
           \A w \in Watchers : Carries(stream[w], reader[w], r) => Carries(stream'[w], reader'[w], r)
    PROVE  OnItsWay(r) => OnItsWay(r)'
<1>1. OnItsWay(r) <=> \E w \in Watchers : Carries(stream[w], reader[w], r)
  BY DEF OnItsWay, Carries
<1>2. OnItsWay(r)' <=> \E w \in Watchers : Carries(stream'[w], reader'[w], r)
  BY DEF OnItsWay, Carries
<1> QED
  BY <1>1, <1>2

LEMMA SpendFacts ==
    ASSUME WatcherTypes
    PROVE  /\ Fault => spent'.merges = spent.merges
           /\ \A limit : Spend("changes", limit) => spent'.merges = spent.merges
           /\ \A limit : Spend("merges", limit) => spent'.merges # 0
<1>1. spent \in [changes : Nat, merges : Nat, faults : Nat]
  BY DEF WatcherTypes, SpentType
<1> QED
  BY <1>1 DEF Fault, Spend

LEMMA SteadyStays ==
    ASSUME SteadyRoots, roots' = roots, index'.key = index.key, caller' = caller
    PROVE  SteadyRoots'
  BY DEF SteadyRoots

LEMMA SteadyCaller ==
    ASSUME WatcherTypes, SteadyRoots, roots' = roots, index'.key = index.key, NEW c \in Callers,
           NEW place, caller' = [caller EXCEPT ![c] = place],
           place.at \notin {"update", "updating", "refused"},
           place.at = "sync" => place.paths = FirstRoots
    PROVE  SteadyRoots'
<1>1. \A d \in Callers : caller'[d] = IF d = c THEN place ELSE caller[d]
  BY DEF WatcherTypes
<1> QED
  BY <1>1 DEF SteadyRoots

\* What is gone from one place is on its way at another.
LEMMA AccountsStay ==
    ASSUME LossInv, UNCHANGED <<index, walk, disk, unwatched>>,
           life'.enabled = TRUE => life.enabled = TRUE,
           spent'.merges = 0 => spent.merges = 0,
           spent'.merges = 0 => SteadyRoots',
           spent'.merges = 0 /\ life'.enabled = TRUE =>
             \A r \in FirstRoots : OnItsWay(r) => OnItsWay(r)'
    PROVE  LossInv'
<1> SUFFICES ASSUME spent'.merges = 0, life'.enabled = TRUE
             PROVE  IndexAccounts' /\ WalkAccounts'
  BY DEF LossInv
<1>1. IndexAccounts /\ WalkAccounts
  BY DEF LossInv
<1>2. \A r \in FirstRoots : \A stamp : Accounted(r, stamp) => Accounted(r, stamp)'
  BY DEF Accounted
<1> QED
  BY <1>1, <1>2 DEF IndexAccounts, WalkAccounts

LEMMA GapAccounts ==
    ASSUME WatcherTypes, MarkGap, spent'.merges = 0 => SteadyRoots'
    PROVE  LossInv'
  BY GapFacts DEF LossInv, IndexAccounts, WalkAccounts

LEMMA LossInit == WatcherInit => LossInv
  BY DEF WatcherInit, LossInv, SteadyRoots

LEMMA StreamStepAccounts ==
    ASSUME WatcherTypes, LossInv, NEW w \in Watchers, StreamStep(w) \/ StreamEnds(w)
    PROVE  LossInv'
<1>1. stream \in [Watchers -> StreamType]
  BY DEF WatcherTypes
<1>2. ASSUME NEW c \in Callers, ServeUpdate(w, c)
      PROVE  LossInv'
  <2>1. spent'.merges = spent.merges
    BY <1>2, SpendFacts DEF ServeUpdate
  <2>2. spent.merges # 0
    BY <1>2 DEF ServeUpdate, LossInv, SteadyRoots
  <2> QED
    BY <2>1, <2>2 DEF LossInv
<1>3. ASSUME NEW s, Streams(w, s), caller' = caller, spent'.merges = spent.merges,
             \A r \in FirstRoots : Carries(stream[w], reader[w], r) => Carries(s, reader[w], r)
      PROVE  LossInv'
  <2>1. \A v \in Watchers : stream'[v] = IF v = w THEN s ELSE stream[v]
    BY <1>1, <1>3 DEF Streams
  <2>2. reader' = reader /\ life' = life /\ UNCHANGED <<index, walk, disk, unwatched, roots>>
    BY <1>3 DEF Streams, World, Index
  <2>3. \A r \in FirstRoots : OnItsWay(r) => OnItsWay(r)'
    BY <1>3, <2>1, <2>2, StillOnItsWay
  <2>4. spent'.merges = 0 => SteadyRoots'
    BY <1>3, <2>2, SteadyStays DEF LossInv
  <2> QED
    BY <1>3, <2>2, <2>3, <2>4, AccountsStay
<1>4. CASE TakeEvents(w)
  <2> DEFINE s == [stream[w] EXCEPT !.sending = @ \cup stream[w].pending, !.pending = {}]
  <2>1. s.stage = stream[w].stage /\ s.queue = stream[w].queue
        /\ s.sending = stream[w].sending \cup stream[w].pending
    BY <1>1 DEF StreamType
  <2>2. Streams(w, s) /\ caller' = caller /\ spent' = spent
    BY <1>4 DEF TakeEvents
  <2> HIDE DEF s
  <2> QED
    BY <1>3, <2>1, <2>2 DEF Carries
<1>5. CASE SendBatch(w)
  <2> DEFINE q == stream[w].queue
             s == [stream[w] EXCEPT !.queue = Append(q, stream[w].sending), !.sending = {}]
  <2>1. s.stage = stream[w].stage /\ s.pending = stream[w].pending
        /\ s.queue = Append(q, stream[w].sending) /\ q \in Seq(SUBSET Roots)
    BY <1>1 DEF StreamType
  <2>2. /\ Len(q) + 1 \in DOMAIN s.queue /\ s.queue[Len(q) + 1] = stream[w].sending
        /\ \A i \in DOMAIN q : i \in DOMAIN s.queue /\ s.queue[i] = q[i]
    BY <2>1
  <2>3. Streams(w, s) /\ caller' = caller /\ spent' = spent
    BY <1>5 DEF SendBatch
  <2> HIDE DEF s
  <2>4. \A r \in FirstRoots : Carries(stream[w], reader[w], r) => Carries(s, reader[w], r)
    BY <2>1, <2>2 DEF Carries
  <2> QED
    BY <1>3, <2>3, <2>4
<1>6. CASE StreamEnds(w) \/ StreamStops(w)
  <2>1. Ended(w).stage = "done"
    BY <1>1 DEF Ended, StreamType
  <2>2. Streams(w, Ended(w)) /\ caller' = caller /\ spent'.merges = spent.merges
    BY <1>6, SpendFacts DEF StreamEnds, StreamStops
  <2>3. \A r \in FirstRoots : Carries(stream[w], reader[w], r) => Carries(Ended(w), reader[w], r)
    BY <2>1 DEF Carries
  <2> QED
    BY <1>3, <2>2, <2>3
<1> QED
  BY <1>2, <1>4, <1>5, <1>6 DEF StreamStep

\* The roots of a batch are known as they are now; the others are where they were.
LEMMA ReadBatchAccounts ==
    ASSUME WatcherTypes, LossInv, NEW w \in Watchers, ReadBatch(w)
    PROVE  LossInv'
<1> DEFINE q == stream[w].queue
           batch == Head(q)
           s == [stream[w] EXCEPT !.queue = Tail(q)]
<1>1. stream \in [Watchers -> StreamType] /\ q \in Seq(SUBSET Roots) /\ q # << >>
  BY DEF WatcherTypes, StreamType, ReadBatch
<1>2. \A v \in Watchers : stream'[v] = IF v = w THEN s ELSE stream[v]
  BY <1>1 DEF ReadBatch
<1>3. s.stage = stream[w].stage /\ s.pending = stream[w].pending
      /\ s.sending = stream[w].sending /\ s.queue = Tail(q)
  BY <1>1 DEF StreamType
<1>4. batch = q[1] /\ \A i \in DOMAIN q : i # 1 => i - 1 \in DOMAIN Tail(q) /\ Tail(q)[i - 1] = q[i]
  BY <1>1
<1>5. reader' = reader /\ life' = life /\ caller' = caller /\ UNCHANGED <<disk, roots, unwatched>>
      /\ spent'.merges = spent.merges
  BY SpendFacts DEF ReadBatch, World
<1> HIDE DEF s
<1>6. ASSUME NEW r \in FirstRoots, r \notin batch
      PROVE  OnItsWay(r) => OnItsWay(r)'
  <2>1. Carries(stream[w], reader[w], r) => Carries(s, reader[w], r)
    <3>1. ASSUME NEW i \in DOMAIN q, r \in q[i]
          PROVE  \E j \in DOMAIN Tail(q) : r \in Tail(q)[j]
      <4>1. i # 1
        BY <1>4, <1>6, <3>1
      <4> QED
        BY <1>4, <3>1, <4>1
    <3> QED
      BY <1>3, <3>1 DEF Carries
  <2> QED
    BY <1>2, <1>5, <2>1, StillOnItsWay
<1>7. CASE MarkGap
  <2>1. spent'.merges = 0 => SteadyRoots'
    BY <1>5, <1>7, GapFacts, SteadyStays DEF LossInv
  <2> QED
    BY <1>7, <2>1, GapAccounts
<1>8. CASE RecordWatchBatch(batch)
  <2> SUFFICES ASSUME spent'.merges = 0
               PROVE  SteadyRoots' /\ (life'.enabled = TRUE => IndexAccounts' /\ WalkAccounts')
    BY DEF LossInv
  <2>1. SteadyRoots'
    BY <1>5, <1>8, BatchFacts, SteadyStays DEF LossInv
  <2>2. \A r \in FirstRoots : \A stamp :
           r \notin batch /\ Accounted(r, stamp) => Accounted(r, stamp)'
    BY <1>5, <1>6 DEF Accounted
  <2>3. ASSUME life'.enabled = TRUE
        PROVE  IndexAccounts'
    <3>1. IndexAccounts /\ index'.complete = index.complete
      BY <1>5, <1>8, <2>3, BatchFacts DEF LossInv
    <3>2. \A r \in FirstRoots :
             index'.known[r] = IF r \in batch THEN disk[r] ELSE index.known[r]
      BY <1>8, BatchFacts, WatcherConstants
    <3> QED
      BY <1>5, <2>2, <3>1, <3>2 DEF IndexAccounts, Accounted
  <2>4. ASSUME life'.enabled = TRUE
        PROVE  WalkAccounts'
    <3>1. WalkAccounts
      BY <1>5, <2>4 DEF LossInv
    <3>2. walk = NoWalk => walk' = NoWalk
      BY <1>8, BatchFacts
    <3>3. walk # NoWalk => /\ walk'.clean = walk.clean
                           /\ \A r \in FirstRoots :
                                walk'.found[r] = IF r \in batch THEN disk[r] ELSE walk.found[r]
      BY <1>8, BatchFacts, WatcherConstants
    <3> QED
      BY <1>5, <2>2, <3>1, <3>2, <3>3 DEF WalkAccounts, Accounted
  <2> QED
    BY <2>1, <2>3, <2>4
<1> QED
  BY <1>7, <1>8 DEF ReadBatch

\* A reader that leaves its loop carries everything until the gap is marked.
LEMMA ReaderStepAccounts ==
    ASSUME WatcherTypes, OwnerInv, LossInv, NEW w \in Watchers,
           ReaderStep(w) \/ LoopPanics(w)
    PROVE  LossInv'
<1> DEFINE d == reader[w]
<1>1. reader \in [Watchers -> ReaderType] /\ life \in LifeType /\ stream \in [Watchers -> StreamType]
  BY DEF WatcherTypes
<1>2. CASE ReadBatch(w)
  BY <1>2, ReadBatchAccounts
<1>3. CASE SeeClosed(w) \/ AnnounceExit(w)
  <2>1. MarkGap /\ caller' = caller /\ roots' = roots /\ spent' = spent
    BY <1>3 DEF SeeClosed, AnnounceExit, World
  <2> QED
    BY <2>1, GapFacts, SteadyStays, GapAccounts DEF LossInv
<1>4. ASSUME NEW place, Reads(w, place), stream' = stream, UNCHANGED <<World, Index>>,
             caller' = caller, life'.enabled = life.enabled, spent'.merges = spent.merges,
             life.enabled = TRUE => \/ place \in {"release", "announce"}
                                    \/ d.at \notin {"loop", "release", "announce"}
      PROVE  LossInv'
  <2>1. \A v \in Watchers : v # w => reader'[v] = reader[v]
    BY <1>1, <1>4 DEF Reads
  <2>2. reader'[w].at = place
    BY <1>1, <1>4 DEF Reads, ReaderType
  <2>3. ASSUME life.enabled = TRUE, NEW r
        PROVE  OnItsWay(r) => OnItsWay(r)'
    <3>1. Carries(stream[w], reader[w], r) => Carries(stream[w], reader'[w], r)
      BY <1>4, <2>2, <2>3 DEF Carries
    <3> QED
      BY <1>4, <2>1, <3>1, StillOnItsWay
  <2>4. spent'.merges = 0 => SteadyRoots'
    BY <1>4, SteadyStays DEF LossInv, World, Index
  <2> QED
    BY <1>4, <2>3, <2>4, AccountsStay DEF World, Index
<1>5. CASE SeeStop(w) \/ LoopPanics(w)
  <2>1. spent'.merges = spent.merges
    BY <1>5, SpendFacts DEF SeeStop, LoopPanics
  <2> QED
    BY <1>4, <1>5, <2>1 DEF SeeStop, LoopPanics
<1>6. CASE ReleaseLifecycle(w)
  <2>1. life'.enabled = life.enabled
    BY <1>1, <1>6 DEF ReleaseLifecycle, LifeType
  <2>2. CASE life.running /\ life.current = w
    BY <1>4, <1>6, <2>1, <2>2 DEF ReleaseLifecycle
  <2>3. CASE ~(life.running /\ life.current = w)
    <3>1. life.enabled = FALSE
      BY <1>1, <1>6, <2>3 DEF ReleaseLifecycle, OwnerInv, ReaderOwns, LifeType
    <3> QED
      BY <1>4, <1>6, <2>1, <2>3, <3>1 DEF ReleaseLifecycle
  <2> QED
    BY <2>2, <2>3
<1>7. CASE StopOwn(w)
  <2> DEFINE r == [d EXCEPT !.at = "stopping", !.stops = @ + 1]
             s == [stream[w] EXCEPT !.told = TRUE]
  <2>1. /\ \A v \in Watchers : v # w => reader'[v] = reader[v] /\ stream'[v] = stream[v]
        /\ d.at = "stop"
    BY <1>1, <1>7 DEF StopOwn
  <2>2. \A q \in FirstRoots : OnItsWay(q) => OnItsWay(q)'
    BY <2>1, StillOnItsWay DEF Carries
  <2>3. spent'.merges = 0 => SteadyRoots'
    BY <1>7, SteadyStays DEF StopOwn, World, Index, LossInv
  <2> QED
    BY <1>7, <2>2, <2>3, AccountsStay DEF StopOwn, World, Index
<1>8. CASE StoppedOwn(w)
  <2>1. spent'.merges = spent.merges
    BY <1>8, SpendFacts DEF StoppedOwn
  <2> QED
    BY <1>4, <1>8, <2>1 DEF StoppedOwn
<1> QED
  BY <1>2, <1>3, <1>5, <1>6, <1>7, <1>8 DEF ReaderStep

LEMMA StopStepAccounts ==
    ASSUME WatcherTypes, OwnerInv, LossInv, CallStop \/ StopStep
    PROVE  LossInv'
<1>1. UNCHANGED <<roots, disk, unwatched, index, walk, caller>>
      /\ spent'.merges = spent.merges
  BY SpendFacts DEF CallStop, StopStep, StopClaimed, StoppedClaimed, AwaitReader, World, Index
<1>2. spent'.merges = 0 => SteadyRoots'
  BY <1>1, SteadyStays DEF LossInv
<1>3. life'.enabled = FALSE
  <2>1. CASE CallStop
    BY <2>1 DEF CallStop, WatcherTypes, LifeType
  <2>2. CASE StopStep
    BY <2>2 DEF StopStep, StopClaimed, StoppedClaimed, AwaitReader, OwnerInv, ClaimIsExclusive
  <2> QED
    BY <2>1, <2>2
<1> QED
  BY <1>2, <1>3 DEF LossInv

\* Installation marks a gap or leaves what the other watchers carry.
LEMMA InstallAccounts ==
    ASSUME WatcherTypes, NewWatchersAreUnread, LossInv, InstallWatcher,
           UNCHANGED <<disk, roots, unwatched>>, spent.merges = 0 => SteadyRoots',
           life.enabled = TRUE \/ (index.complete = FALSE /\ walk = NoWalk)
    PROVE  LossInv'
<1>1. spent'.merges = spent.merges
  BY SpendFacts DEF InstallWatcher, Constructed
<1>2. CASE MarkGap
  BY <1>1, <1>2, GapAccounts
<1>3. CASE life.next <= MaxWatchers /\ Constructed(life.next)
  <2> DEFINE w == life.next
  <2>1. UNCHANGED <<index, walk>>
    BY <1>3 DEF Constructed, Index
  <2>2. CASE index.complete = FALSE /\ walk = NoWalk
    BY <1>1, <2>1, <2>2 DEF LossInv, IndexAccounts, WalkAccounts
  <2>3. CASE life.enabled = TRUE
    <3>1. w \in Watchers /\ reader[w] = NoReader
      BY <1>3, WatcherConstants DEF WatcherTypes, LifeType, Watchers, NewWatchersAreUnread
    <3>2. \A v \in Watchers : v # w => reader'[v] = reader[v] /\ stream'[v] = stream[v]
      BY <1>3 DEF Constructed, WatcherTypes
    <3>3. \A r \in FirstRoots : OnItsWay(r) => OnItsWay(r)'
      BY <3>1, <3>2, StillOnItsWay DEF Carries, NoReader
    <3> QED
      BY <1>1, <2>1, <2>3, <3>3, AccountsStay
  <2> QED
    BY <2>2, <2>3
<1> QED
  BY <1>2, <1>3 DEF InstallWatcher

LEMMA StartAccounts ==
    ASSUME WatcherTypes, OwnerInv, LossInv, StartIndex
    PROVE  LossInv'
<1>1. index.complete = FALSE /\ walk = NoWalk
  BY DEF StartIndex, OwnerInv, NothingBeforeStart, Unstarted
<1>2. InstallWatcher /\ UNCHANGED <<disk, roots, unwatched>>
  BY DEF StartIndex, World
<1>3. index'.key = index.key
  BY <1>2, GapFacts DEF InstallWatcher, Constructed, Index
<1>4. spent.merges = 0 => SteadyRoots'
  BY <1>2, <1>3 DEF LossInv, SteadyRoots, StartIndex
<1> QED
  BY <1>1, <1>2, <1>4, InstallAccounts DEF OwnerInv

LEMMA SnapshotStepAccounts ==
    ASSUME WatcherTypes, WalkIsHeld, OwnerInv, LossInv, NEW c \in Callers,
           CallSnapshot(c) \/ SnapshotStep(c)
    PROVE  LossInv'
<1>1. roots' = roots /\ disk' = disk /\ unwatched' = unwatched
  BY DEF CallSnapshot, SnapshotStep, SyncRoots, CallUpdate, UpdateOrphaned, UpdateRefused,
         RestartIfNeeded, ServeFromIndex, BeginWalk, CommitWalk, World
<1>2. ASSUME NEW place \in {"idle", "restart", "check", "walk"}, Goto(c, place),
             index'.key = index.key, spent.merges = 0
      PROVE  SteadyRoots'
  <2>1. [at |-> place].at = place
    OBVIOUS
  <2> QED
    BY <1>1, <1>2, <2>1, SteadyCaller DEF Goto, LossInv
\* A step of the caller alone.
<1>3. ASSUME UNCHANGED <<Index, stream, reader, life, spent>>,
             spent.merges = 0 => SteadyRoots'
      PROVE  LossInv'
  <2>1. \A r \in FirstRoots : OnItsWay(r) => OnItsWay(r)'
    BY <1>3, StillOnItsWay
  <2> QED
    BY <1>1, <1>3, <2>1, AccountsStay DEF Index
<1>4. CASE CallSnapshot(c)
  <2>1. [at |-> "sync", paths |-> roots].at = "sync" /\ [at |-> "sync", paths |-> roots].paths = roots
    OBVIOUS
  <2>2. spent.merges = 0 => SteadyRoots'
    <3> SUFFICES ASSUME spent.merges = 0 PROVE SteadyRoots'
      OBVIOUS
    <3>1. SteadyRoots /\ roots = FirstRoots /\ index' = index
      BY <1>4 DEF LossInv, SteadyRoots, CallSnapshot, Index
    <3>2. caller' = [caller EXCEPT ![c] = [at |-> "sync", paths |-> roots]]
      BY <1>4 DEF CallSnapshot
    <3> QED
      BY <1>1, <2>1, <3>1, <3>2, SteadyCaller
  <2> QED
    BY <1>3, <1>4, <2>2 DEF CallSnapshot
<1>5. CASE SyncRoots(c)
  <2>1. CASE caller[c].paths = index.key
    BY <1>2, <1>3, <1>5, <2>1 DEF SyncRoots, Index
  <2>2. CASE caller[c].paths # index.key
    <3>1. spent.merges # 0
      BY <1>5, <2>2 DEF SyncRoots, LossInv, SteadyRoots
    <3> QED
      BY <1>5, <3>1 DEF SyncRoots, LossInv
  <2> QED
    BY <2>1, <2>2
<1>6. CASE CallUpdate(c) \/ UpdateOrphaned(c) \/ UpdateRefused(c)
  <2>1. spent.merges # 0
    BY <1>6 DEF CallUpdate, UpdateOrphaned, UpdateRefused, LossInv, SteadyRoots
  <2> QED
    BY <1>6, <2>1 DEF CallUpdate, UpdateOrphaned, UpdateRefused, LossInv
<1>7. CASE RestartIfNeeded(c)
  <2>1. CASE life.running \/ ~life.enabled
    BY <1>2, <1>3, <1>7, <2>1 DEF RestartIfNeeded, Index
  <2>2. CASE ~(life.running \/ ~life.enabled)
    <3>1. life.enabled = TRUE /\ InstallWatcher
      BY <1>7, <2>2 DEF RestartIfNeeded, WatcherTypes, LifeType
    <3>2. index'.key = index.key
      BY <3>1, GapFacts DEF InstallWatcher, Constructed, Index
    <3>3. spent.merges = 0 => SteadyRoots'
      BY <1>2, <1>7, <3>2 DEF RestartIfNeeded
    <3> QED
      BY <1>1, <3>1, <3>3, InstallAccounts DEF OwnerInv
  <2> QED
    BY <2>1, <2>2
<1>8. CASE ServeFromIndex(c)
  BY <1>2, <1>3, <1>8 DEF ServeFromIndex, Index
<1>9. CASE BeginWalk(c)
  <2> DEFINE found == [r \in Roots |-> IF r \in roots THEN disk[r] ELSE 0]
  <2>1. walk' = [by |-> c, key |-> index.key, clean |-> TRUE, found |-> found]
        /\ index' = index /\ UNCHANGED <<stream, reader, life, spent>>
    BY <1>9 DEF BeginWalk
  <2>2. walk'.found = found
    BY <2>1
  <2> SUFFICES ASSUME spent.merges = 0
               PROVE  SteadyRoots' /\ (life'.enabled = TRUE => IndexAccounts' /\ WalkAccounts')
    BY <2>1 DEF LossInv
  <2>3. SteadyRoots'
    BY <1>2, <1>9, <2>1 DEF BeginWalk
  <2>4. \A r \in FirstRoots : found[r] = disk[r]
    BY WatcherConstants DEF LossInv, SteadyRoots
  <2> HIDE DEF found
  <2>5. WalkAccounts'
    BY <1>1, <2>2, <2>4 DEF WalkAccounts, Accounted
  <2>6. \A r \in FirstRoots : OnItsWay(r) => OnItsWay(r)'
    BY <2>1, StillOnItsWay
  <2>7. life'.enabled = TRUE => IndexAccounts'
    BY <1>1, <2>1, <2>6 DEF LossInv, IndexAccounts, Accounted
  <2> QED
    BY <2>3, <2>5, <2>7
<1>10. CASE CommitWalk(c)
  <2> DEFINE stable == walk.clean /\ walk.key = index.key
  <2>1. index' = [index EXCEPT !.known = walk.found, !.complete = stable, !.required = ~stable]
        /\ walk' = NoWalk /\ UNCHANGED <<stream, reader, life, spent>>
    BY <1>10 DEF CommitWalk
  <2>2. walk \in WalkType
    BY <1>10 DEF CommitWalk, WalkIsHeld
  <2>3. index'.known = walk.found /\ index'.complete = stable /\ index'.key = index.key
    BY <2>1 DEF WatcherTypes, IndexType
  <2> SUFFICES ASSUME spent.merges = 0
               PROVE  SteadyRoots' /\ (life'.enabled = TRUE => IndexAccounts' /\ WalkAccounts')
    BY <2>1 DEF LossInv
  <2>4. SteadyRoots'
    BY <1>2, <1>10, <2>3 DEF CommitWalk
  <2>5. \A r \in FirstRoots : OnItsWay(r) => OnItsWay(r)'
    BY <2>1, StillOnItsWay
  <2>6. index'.complete = TRUE => walk.clean = TRUE
    BY <2>2, <2>3, WalkFields
  <2>7. ASSUME life'.enabled = TRUE, index'.complete = TRUE, NEW r \in FirstRoots
        PROVE  Accounted(r, index.known[r])'
    <3>1. Accounted(r, walk.found[r])
      BY <2>1, <2>2, <2>6, <2>7, WalkFields DEF LossInv, WalkAccounts
    <3> QED
      BY <1>1, <2>3, <2>5, <3>1 DEF Accounted
  <2> QED
    BY <2>1, <2>4, <2>7 DEF IndexAccounts, WalkAccounts
<1> QED
  BY <1>4, <1>5, <1>6, <1>7, <1>8, <1>9, <1>10 DEF SnapshotStep

\* A change reaches a watcher that is read, or is unwatched.
LEMMA WorldAccounts ==
    ASSUME WatcherTypes, LossInv, NEW r \in Roots, Change(r) \/ MergeRoot(r)
    PROVE  LossInv'
<1>1. CASE MergeRoot(r)
  BY <1>1, SpendFacts DEF MergeRoot, LossInv
<1>2. CASE Change(r)
  <2>1. spent'.merges = spent.merges /\ caller' = caller /\ roots' = roots
        /\ UNCHANGED <<index, walk, life, reader>>
    BY <1>2, SpendFacts DEF Change, Index
  <2> DEFINE s(w) == [stream[w] EXCEPT !.pending = @ \cup {r}]
  <2>2. ASSUME NEW w \in Watchers
        PROVE  /\ s(w).stage = stream[w].stage /\ s(w).sending = stream[w].sending
               /\ s(w).queue = stream[w].queue /\ s(w).pending = stream[w].pending \cup {r}
               /\ stream'[w] = IF Watching(w, r) THEN s(w) ELSE stream[w]
    BY <1>2 DEF WatcherTypes, StreamType, Change
  <2> HIDE DEF s
  <2>3. \A q \in FirstRoots : OnItsWay(q) => OnItsWay(q)'
    <3> SUFFICES ASSUME NEW q \in FirstRoots, NEW w \in Watchers, Carries(stream[w], reader[w], q)
                 PROVE  Carries(stream'[w], reader'[w], q)
      BY StillOnItsWay
    <3> QED
      BY <2>1, <2>2 DEF Carries
  <2>4. OnItsWay(r)' \/ r \in unwatched'
    <3>1. CASE \E w \in Watchers : Watching(w, r) /\ reader[w].at = "loop"
      <4>1. PICK w \in Watchers : Watching(w, r) /\ reader[w].at = "loop"
        BY <3>1
      <4>2. reader'[w].at = "loop" /\ r \in stream'[w].pending
        BY <2>1, <2>2, <4>1
      <4> QED
        BY <4>2 DEF OnItsWay
    <3>2. CASE ~\E w \in Watchers : Watching(w, r) /\ reader[w].at = "loop"
      BY <1>2, <3>2 DEF Change
    <3> QED
      BY <3>1, <3>2
  <2>5. \A q \in FirstRoots : q # r => disk'[q] = disk[q] /\ (q \in unwatched => q \in unwatched')
    BY <1>2, WatcherConstants DEF Change, WatcherTypes
  <2>6. ASSUME NEW q \in FirstRoots, NEW stamp, Accounted(q, stamp)
        PROVE  stamp = disk'[q] \/ OnItsWay(q)' \/ q \in unwatched'
    BY <2>3, <2>4, <2>5, <2>6 DEF Accounted
  <2> SUFFICES ASSUME spent.merges = 0
               PROVE  SteadyRoots' /\ (life'.enabled = TRUE => IndexAccounts' /\ WalkAccounts')
    BY <2>1 DEF LossInv
  <2>7. SteadyRoots'
    BY <2>1, SteadyStays DEF LossInv
  <2>8. life'.enabled = TRUE => IndexAccounts'
    BY <2>1, <2>6 DEF LossInv, IndexAccounts, Accounted
  <2>9. life'.enabled = TRUE => WalkAccounts'
    BY <2>1, <2>6 DEF LossInv, WalkAccounts, Accounted
  <2> QED
    BY <2>7, <2>8, <2>9
<1> QED
  BY <1>1, <1>2

LEMMA LossNext ==
    ASSUME WatcherTypes, WalkIsHeld, OwnerInv, LossInv, WatcherNext
    PROVE  LossInv'
  BY StartAccounts, StopStepAccounts, SnapshotStepAccounts, StreamStepAccounts,
     ReaderStepAccounts, WorldAccounts
  DEF WatcherNext

LEMMA WatcherInvariant == WatcherSpec => []WatcherInv
<1>1. WatcherInit => WatcherInv
  <2>1. WatcherInit => WalkIsHeld
    BY DEF WatcherInit, WalkIsHeld
  <2> QED
    BY <2>1, TypesInit, OwnerInit, LossInit DEF WatcherInv
<1>2. WatcherInv /\ [WatcherNext]_watcherVars => WatcherInv'
  <2>1. CASE WatcherInv /\ WatcherNext
    BY <2>1, TypesNext, WalkIsHeldNext, OwnerNext, LossNext DEF WatcherInv, OwnerInv
  <2>2. CASE WatcherInv /\ UNCHANGED watcherVars
    <3>1. (WatcherTypes /\ WalkIsHeld)'
      BY <2>2 DEF WatcherInv, watcherVars, WatcherTypes, WalkIsHeld
    <3>2. OwnerInv'
      BY <2>2 DEF WatcherInv, watcherVars, OwnerInv, StartsOnce, Unstarted,
          NothingBeforeStart, NewWatchersAreUnread, RunningIsOwned, ClaimIsExclusive
    <3>3. LossInv'
      BY <2>2 DEF WatcherInv, watcherVars, LossInv, SteadyRoots, IndexAccounts, WalkAccounts,
          Accounted, OnItsWay
    <3> QED
      BY <3>1, <3>2, <3>3 DEF WatcherInv
  <2> QED
    BY <2>1, <2>2
<1> QED
  BY <1>1, <1>2, PTL DEF WatcherSpec

(***************************************************************************)
(* evidence_index.go: the claim on a watcher is exclusive between its own  *)
(* goroutine, which takes itself out of lifecycleMu's fields before it     *)
(* stops its watcher, and stopIndex, which takes the running one; so no    *)
(* watcher is stopped twice, however exits, panics, reinstallations and    *)
(* stopIndex fall together.                                                *)
(***************************************************************************)
THEOREM StopOnce == WatcherSpec => []StopIsCalledOnce
<1>1. WatcherInv => StopIsCalledOnce
  BY DEF WatcherInv, OwnerInv, ReaderOwns, StopIsCalledOnce
<1> QED
  BY <1>1, WatcherInvariant, PTL

(***************************************************************************)
(* evidence_index.go: as long as no root is merged meanwhile, a change     *)
(* that some watcher had seen is behind no catalog that calls itself       *)
(* complete: it is on its way through a watcher that is read, that watcher *)
(* is ending and has its gap still to mark, or nothing watched when it     *)
(* happened.                                                               *)
(***************************************************************************)
THEOREM LossAnnounced == WatcherSpec => []LossIsAnnounced
<1>1. WatcherInv => LossIsAnnounced
  <2> SUFFICES ASSUME WatcherInv, Supervised, NEW r \in Missed
               PROVE  r \in unwatched
    BY DEF LossIsAnnounced
  <2>1. life.enabled = TRUE /\ index.complete = TRUE /\ spent.merges = 0
    BY DEF WatcherInv, WatcherTypes, LifeType, IndexType, Supervised
  <2>2. IndexAccounts /\ SteadyRoots
    BY <2>1 DEF WatcherInv, LossInv
  <2> QED
    BY <2>1, <2>2 DEF IndexAccounts, SteadyRoots, Accounted, Missed
<1> QED
  BY <1>1, WatcherInvariant, PTL

(***************************************************************************)
(* evidence_index.go: losing or stopping a watcher leaves neither a silent *)
(* hole in the catalog nor a watcher that is stopped twice.                *)
(***************************************************************************)
THEOREM LossIsSafe == WatcherSpec => []WatcherLossIsSafe
<1>1. LossIsAnnounced /\ StopIsCalledOnce => WatcherLossIsSafe
  BY DEF WatcherLossIsSafe
<1> QED
  BY <1>1, LossAnnounced, StopOnce, PTL

------------------------------------------------------------------------------

(***************************************************************************)
(* TrajectoryWatch: types.                                                *)
(***************************************************************************)

SourceStates == [gen : Nat, count : 0 .. MaxEvents]
Changes == [seq : Nat, event : Sources \X Nat \X Nat]
GapNames == {"index_pending", "source_unreadable", "partial_record", "watch_index_unreadable",
             "content_access_disabled"}
Cursors == [live : BOOLEAN, seq : Int]

StreamTypes ==
  [rotated : BOOLEAN, next : Nat, entries : SUBSET Changes, sources : [Sources -> SourceStates],
   ready : BOOLEAN, closed : BOOLEAN, gaps : SUBSET GapNames]

ConsumerTypes ==
  [pc : {"idle", "start", "lock", "observed", "wait"}, kind : {"query", "watch"},
   done : BOOLEAN, late : BOOLEAN, woken : BOOLEAN, hinted : BOOLEAN, at : Cursors,
   states : SUBSET Sources, cursor : Cursors, held : SUBSET (Sources \X Nat \X Nat),
   requests : Nat]

(***************************************************************************)
(* The window and what a cursor still brings.                              *)
(***************************************************************************)

(* The window holds the latest numbers, and only an observed stream that   *)
(* is open has changes.                                                    *)
WindowIsSound(w) ==
  /\ w \in StreamTypes /\ IsFiniteSet(w.entries)
  /\ \A e \in w.entries : w.next - HistoryLimit < e.seq /\ e.seq <= w.next
  /\ w.closed => ~w.ready

Lost(seq, w) == w.entries # {} /\ \A e \in w.entries : seq < e.seq - 1
Brings(c, seq, w) == {e.event : e \in {x \in w.entries : x.seq > seq /\ x.event[1] \in Selects[c]}}
Seen(c, w) == UNION {EventsOf(s, w.sources[s]) : s \in Selects[c]}

CursorIsSound(cursor, w) ==
  cursor \in Cursors /\ (cursor.live => w.ready /\ cursor.seq \in 0 .. w.next)

(* With what a cursor still brings a consumer has everything observed.     *)
Complete(c, held, cursor, w) ==
  cursor.live /\ ~Lost(cursor.seq, w) => held \cup Brings(c, cursor.seq, w) = Seen(c, w)

(* Nothing was taken back between two observations.                        *)
Continuous(w, now) ==
  \A s \in Sources : w.sources[s] # Unwatched
                       => now[s].gen = w.sources[s].gen /\ now[s].count >= w.sources[s].count

(* What an observation adds is finite: every event has a bounded number.   *)
LEMMA AddedIsFinite ==
  ASSUME NEW w, WindowIsSound(w), NEW now \in [Sources -> SourceStates]
  PROVE  /\ Added(w, now) \in SUBSET (Sources \X (1 .. MaxEvents))
         /\ IsFiniteSet(Added(w, now)) /\ Cardinality(Added(w, now)) \in Nat
<1> USE WatchConstants DEF WatchConstants
<1>1. \A s \in Sources : w.sources[s].count \in Nat /\ now[s].count \in 0 .. MaxEvents
  BY DEF WindowIsSound, StreamTypes, SourceStates
<1>2. \A s \in Sources : (w.sources[s].count + 1 .. now[s].count) \subseteq 1 .. MaxEvents
  BY <1>1
<1>3. Added(w, now) \in SUBSET (Sources \X (1 .. MaxEvents))
  BY <1>2 DEF Added
<1>4. IsFiniteSet(Sources \X (1 .. MaxEvents))
  <2>1. IsFiniteSet(1 .. MaxEvents)
    BY FS_Interval
  <2>2. QED
    BY <2>1, FS_Product
<1>5. QED
  BY <1>3, <1>4, FS_Subset, FS_CardinalityType

(* The last of the added has the last number.                              *)
LEMMA LastNumber ==
  ASSUME NEW A, A \in SUBSET (Sources \X (1 .. MaxEvents)), IsFiniteSet(A), A # {}
  PROVE  \E a \in A : Cardinality({b \in A : Precedes(b, a)}) + 1 = Cardinality(A)
<1> DEFINE Below(a) == {b \in A : Precedes(b, a)}
<1>1. \A a \in A : a[1] \in Sources /\ IDOf[a[1]] \in Nat /\ a[2] \in Nat /\ a = <<a[1], a[2]>>
  <2> TAKE a \in A
  <2>1. a \in Sources \X (1 .. MaxEvents)
    OBVIOUS
  <2>2. a[1] \in Sources /\ a[2] \in 1 .. MaxEvents /\ a = <<a[1], a[2]>>
    BY <2>1
  <2>3. QED
    BY <2>2, WatchConstants DEF WatchConstants
<1>2. \A a, b \in A : a # b => Precedes(a, b) \/ Precedes(b, a)
  BY <1>1, WatchConstants DEF WatchConstants, Precedes
<1>3. \A a \in A : ~Precedes(a, a)
  BY <1>1 DEF Precedes
<1>4. \A a, b, x \in A : Precedes(x, a) /\ Precedes(a, b) => Precedes(x, b)
  BY <1>1 DEF Precedes
<1>5. \A a \in A : IsFiniteSet(Below(a)) /\ Cardinality(Below(a)) \in Nat
                   /\ Cardinality(Below(a)) <= Cardinality(A)
  BY FS_Subset, FS_CardinalityType
<1>6. Cardinality(A) \in Nat
  BY FS_CardinalityType
<1> DEFINE Sizes == {Cardinality(A) - Cardinality(Below(a)) : a \in A}
<1>7. Sizes \in SUBSET Nat /\ Sizes # {}
  <2> HIDE DEF Below
  <2>1. \A a \in A : Cardinality(A) - Cardinality(Below(a)) \in Nat
    BY <1>5, <1>6
  <2>2. QED
    BY <2>1
<1>8. PICK m \in Sizes : \A y \in Sizes : m <= y
  <2>1. PICK m \in Sizes : \A y \in Sizes : ~ (<<y, m>> \in OpToRel(<, Nat))
    <3> HIDE DEF Sizes
    <3>1. QED
      BY <1>7, NatLessThanWellFounded, WFMin, Zenon
  <2>2. \A y \in Sizes : ~ (y < m)
    BY <1>7, <2>1 DEF OpToRel
  <2> HIDE DEF Sizes
  <2>3. QED
    BY <1>7, <2>2
<1>9. PICK a \in A : m = Cardinality(A) - Cardinality(Below(a))
  OBVIOUS
<1>10. \A b \in A : Cardinality(Below(b)) <= Cardinality(Below(a))
  <2> TAKE b \in A
  <2>1. Cardinality(A) - Cardinality(Below(a)) <= Cardinality(A) - Cardinality(Below(b))
    BY <1>8, <1>9
  <2> HIDE DEF Below, Sizes
  <2>2. QED
    BY <2>1, <1>5, <1>6
<1>11. \A b \in A : ~Precedes(a, b)
  <2> SUFFICES ASSUME NEW b \in A, Precedes(a, b) PROVE FALSE
    OBVIOUS
  <2>1. Below(a) \cup {a} \in SUBSET Below(b)
    BY <1>4
  <2>2. a \notin Below(a)
    BY <1>3
  <2>3. Cardinality(Below(a) \cup {a}) = Cardinality(Below(a)) + 1
    <3> HIDE DEF Below
    <3>1. QED
      BY <1>5, <2>2, FS_AddElement
  <2>4. Cardinality(Below(a) \cup {a}) <= Cardinality(Below(b))
    BY <1>5, <2>1, FS_Subset
  <2> HIDE DEF Below
  <2>5. QED
    BY <1>5, <1>10, <2>3, <2>4
<1>12. A = Below(a) \cup {a} /\ a \notin Below(a)
  BY <1>2, <1>3, <1>11
<1>13. Cardinality(A) = Cardinality(Below(a)) + 1
  <2>1. Cardinality(Below(a) \cup {a}) = Cardinality(Below(a)) + 1
    <3> HIDE DEF Below
    <3>1. QED
      BY <1>5, <1>12, FS_AddElement
  <2>2. QED
    BY <1>12, <2>1
<1>14. QED
  BY <1>13

(***************************************************************************)
(* Observing more of the same sources.                                     *)
(***************************************************************************)

New(w, now) == {[seq |-> Number(w, Added(w, now), a),
                 event |-> Event(a[1], now[a[1]].gen, a[2])] : a \in Added(w, now)}

(* The added events are numbered from next on, and the last of them has the *)
(* number the stream goes on from.                                         *)
LEMMA NewChanges ==
  ASSUME NEW w, WindowIsSound(w), NEW now \in [Sources -> SourceStates]
  PROVE  /\ IsFiniteSet(New(w, now)) /\ New(w, now) \in SUBSET Changes
         /\ \A e \in New(w, now) : /\ e.seq > w.next
                                   /\ e.seq <= w.next + Cardinality(Added(w, now))
         /\ New(w, now) # {} <=> Added(w, now) # {}
         /\ Added(w, now) # {}
              => \E e \in New(w, now) : e.seq = w.next + Cardinality(Added(w, now))
<1> DEFINE A == Added(w, now)
           Below(a) == {b \in A : Precedes(b, a)}
<1>1. A \in SUBSET (Sources \X (1 .. MaxEvents)) /\ IsFiniteSet(A) /\ Cardinality(A) \in Nat
  BY AddedIsFinite
<1>2. w.next \in Nat
  BY DEF WindowIsSound, StreamTypes
<1>3. ASSUME NEW a \in A
      PROVE  Cardinality(Below(a)) \in Nat /\ Cardinality(Below(a)) + 1 <= Cardinality(A)
  <2>1. a \notin Below(a)
    <3>1. IDOf[a[1]] \in Nat /\ a[2] \in Nat
      BY <1>1, WatchConstants DEF WatchConstants
    <3>2. QED
      BY <3>1 DEF Precedes
  <2>2. IsFiniteSet(Below(a)) /\ Cardinality(Below(a)) \in Nat
    <3>1. Below(a) \in SUBSET A
      OBVIOUS
    <3>2. QED
      BY <1>1, <3>1, FS_Subset, FS_CardinalityType
  <2>3. Cardinality(Below(a) \cup {a}) = Cardinality(Below(a)) + 1
    <3> HIDE DEF Below, A
    <3>1. QED
      BY <2>1, <2>2, FS_AddElement
  <2>4. Below(a) \cup {a} \in SUBSET A
    OBVIOUS
  <2>5. Cardinality(Below(a) \cup {a}) <= Cardinality(A)
    BY <1>1, <2>4, FS_Subset
  <2> HIDE DEF Below, A
  <2>6. QED
    BY <2>2, <2>3, <2>5
<1>4. \A a \in A : Number(w, A, a) = w.next + 1 + Cardinality(Below(a))
  BY DEF Number
<1>5. \A a \in A : /\ Number(w, A, a) \in Nat /\ Number(w, A, a) > w.next
                   /\ Number(w, A, a) <= w.next + Cardinality(A)
  <2> TAKE a \in A
  <2>1. Cardinality(Below(a)) \in Nat /\ Cardinality(Below(a)) + 1 <= Cardinality(A)
    BY <1>3
  <2>2. Number(w, A, a) = w.next + 1 + Cardinality(Below(a))
    BY <1>4
  <2> HIDE DEF Below, A
  <2>3. QED
    BY <1>1, <1>2, <2>1, <2>2
<1> DEFINE change(a) == [seq |-> Number(w, A, a), event |-> Event(a[1], now[a[1]].gen, a[2])]
<1>6. New(w, now) = {change(a) : a \in A}
  BY DEF New
<1>7. IsFiniteSet({change(a) : a \in A})
  <2> HIDE DEF A, change
  <2> DEFINE f == [a \in A |-> change(a)]
  <2>1. f \in Surjection(A, {change(a) : a \in A})
    BY DEF Surjection
  <2>2. QED
    BY <1>1, <2>1, FS_Surjection
<1>8. \A a \in A : change(a) \in Changes
  <2> TAKE a \in A
  <2>1. a[1] \in Sources /\ a[2] \in Nat
    BY <1>1
  <2>2. now[a[1]].gen \in Nat
    BY <2>1 DEF SourceStates
  <2>3. Number(w, A, a) \in Nat
    BY <1>5
  <2> HIDE DEF A
  <2>4. QED
    BY <2>1, <2>2, <2>3 DEF Changes, Event
<1>9. A # {} => \E a \in A : Number(w, A, a) = w.next + Cardinality(A)
  <2> SUFFICES ASSUME A # {} PROVE \E a \in A : Number(w, A, a) = w.next + Cardinality(A)
    OBVIOUS
  <2>1. PICK a \in A : Cardinality(Below(a)) + 1 = Cardinality(A)
    <3> HIDE DEF A
    <3>1. QED
      BY <1>1, LastNumber
  <2>2. Cardinality(Below(a)) \in Nat /\ Number(w, A, a) = w.next + 1 + Cardinality(Below(a))
    BY <1>3, <1>4
  <2> HIDE DEF Below, A
  <2>3. Number(w, A, a) = w.next + Cardinality(A)
    BY <1>1, <1>2, <2>1, <2>2
  <2>4. QED
    BY <2>3
<1>10. \A a \in A : change(a).seq = Number(w, A, a)
  OBVIOUS
<1>11. QED
  <2> HIDE DEF A, change
  <2>1. QED
    BY <1>5, <1>6, <1>7, <1>8, <1>9, <1>10 DEF A

(* What an observation that continues the stream leaves of it.             *)
Appends(w, now, w2) ==
  /\ w2.next = w.next + Cardinality(Added(w, now))
  /\ w2.entries = {e \in w.entries \cup New(w, now) : e.seq > w2.next - HistoryLimit}
  /\ w2.sources = now

(* The window keeps a change a cursor has still to bring, or the cursor is *)
(* lost with it.                                                           *)
LEMMA WindowKeeps ==
  ASSUME NEW w, WindowIsSound(w), NEW now \in [Sources -> SourceStates], NEW w2,
         Appends(w, now, w2)
  PROVE  /\ w2.next \in Nat /\ w2.next >= w.next
         /\ IsFiniteSet(w2.entries) /\ w2.entries \in SUBSET Changes
         /\ \A e \in w2.entries : w2.next - HistoryLimit < e.seq /\ e.seq <= w2.next
         /\ w2.next = w.next => w2.entries = w.entries
         /\ \A seq \in 0 .. w.next :
              ~Lost(seq, w2)
                => /\ ~Lost(seq, w)
                   /\ \A e \in w.entries \cup New(w, now) : e.seq > seq => e \in w2.entries
<1> DEFINE many == Cardinality(Added(w, now))
<1>1. many \in Nat /\ IsFiniteSet(Added(w, now)) /\ w.next \in Nat /\ HistoryLimit \in Nat \ {0}
  BY AddedIsFinite, WatchConstants DEF WindowIsSound, StreamTypes, WatchConstants
<1>2. w2.next = w.next + many /\ w2.next \in Nat /\ w2.next >= w.next
  BY <1>1 DEF Appends
<1>3. /\ \A e \in w.entries : e.seq \in Nat /\ e.seq <= w.next /\ e.seq > w.next - HistoryLimit
      /\ w.entries \in SUBSET Changes /\ IsFiniteSet(w.entries)
  BY DEF WindowIsSound, StreamTypes, Changes
<1>4. /\ \A e \in New(w, now) : e.seq \in Nat /\ e.seq > w.next /\ e.seq <= w2.next
      /\ New(w, now) \in SUBSET Changes /\ IsFiniteSet(New(w, now))
      /\ New(w, now) # {} <=> Added(w, now) # {}
      /\ Added(w, now) # {} => \E e \in New(w, now) : e.seq = w2.next
  BY <1>2, NewChanges DEF Changes
<1>5. w2.entries = {e \in w.entries \cup New(w, now) : e.seq > w2.next - HistoryLimit}
  BY DEF Appends
<1>6. IsFiniteSet(w2.entries)
  <2>1. IsFiniteSet(w.entries \cup New(w, now))
    BY <1>3, <1>4, FS_Union
  <2>2. w2.entries \in SUBSET (w.entries \cup New(w, now))
    BY <1>5
  <2>3. QED
    BY <2>1, <2>2, FS_Subset
<1>7. \A e \in w2.entries : w2.next - HistoryLimit < e.seq /\ e.seq <= w2.next
  <2> TAKE e \in w2.entries
  <2>1. e.seq \in Nat /\ e.seq > w2.next - HistoryLimit /\ (e.seq <= w.next \/ e.seq <= w2.next)
    BY <1>3, <1>4, <1>5
  <2>2. QED
    BY <1>1, <1>2, <2>1
<1>8. CASE Added(w, now) = {}
  <2>1. many = 0 /\ w2.next = w.next
    BY <1>1, <1>2, <1>8, FS_EmptySet
  <2>2. New(w, now) = {}
    BY <1>4, <1>8
  <2>3. w2.entries = w.entries
    BY <1>3, <1>5, <2>1, <2>2
  <2>4. QED
    BY <1>2, <1>3, <1>6, <1>7, <2>2, <2>3 DEF Lost
<1>9. CASE Added(w, now) # {}
  <2>1. PICK last \in New(w, now) : last.seq = w2.next
    BY <1>4, <1>9
  <2>2. last \in w2.entries
    BY <1>1, <1>2, <1>5, <2>1
  <2>3. w2.next # w.next
    BY <1>1, <1>2, <1>4, <2>1
  <2>4. ASSUME NEW seq \in 0 .. w.next, ~Lost(seq, w2)
        PROVE  /\ ~Lost(seq, w)
               /\ \A e \in w.entries \cup New(w, now) : e.seq > seq => e \in w2.entries
    <3>1. PICK d \in w2.entries : ~ (seq < d.seq - 1)
      BY <2>2, <2>4 DEF Lost
    <3>2. d.seq \in Nat /\ d.seq - 1 <= seq /\ w2.next - HistoryLimit < d.seq
      <4>1. d.seq \in Nat /\ w2.next - HistoryLimit < d.seq
        BY <1>3, <1>4, <1>5
      <4>2. QED
        BY <1>1, <3>1, <4>1
    <3>3. \A e \in w.entries \cup New(w, now) : e.seq > seq => e \in w2.entries
      <4> TAKE e \in w.entries \cup New(w, now)
      <4>1. e.seq \in Nat
        BY <1>3, <1>4
      <4>2. e.seq > seq => e.seq > w2.next - HistoryLimit
        BY <1>1, <1>2, <3>2, <4>1
      <4>3. QED
        BY <1>5, <4>2
    <3>4. ~Lost(seq, w)
      <4> SUFFICES ASSUME Lost(seq, w) PROVE FALSE
        OBVIOUS
      <4>1. PICK e \in w.entries : seq < e.seq - 1
        BY DEF Lost
      <4>2. \A x \in w.entries : seq < x.seq - 1
        BY DEF Lost
      <4>3. CASE d \in w.entries
        BY <3>1, <4>2, <4>3
      <4>4. CASE d \in New(w, now)
        <5>1. d.seq > w.next /\ e.seq <= w.next /\ e.seq \in Nat
          BY <1>3, <1>4, <4>4
        <5>2. QED
          BY <1>1, <3>2, <4>1, <5>1
      <4>5. QED
        BY <1>5, <4>3, <4>4
    <3>5. QED
      BY <3>3, <3>4
  <2>5. w2.entries \in SUBSET Changes
    BY <1>3, <1>4, <1>5
  <2>6. QED
    BY <1>2, <1>6, <1>7, <2>3, <2>4, <2>5
<1>10. w2.entries \in SUBSET Changes
  BY <1>3, <1>4, <1>5
<1>11. QED
  BY <1>2, <1>6, <1>7, <1>8, <1>9, <1>10

(* What was seen and what is new are what is seen now.                     *)
LEMMA SeenGrows ==
  ASSUME NEW w, WindowIsSound(w), NEW now \in [Sources -> SourceStates], NEW w2,
         Appends(w, now, w2), Continuous(w, now), NEW c \in Consumers
  PROVE  Seen(c, w2)
           = Seen(c, w) \cup {e.event : e \in {x \in New(w, now) : x.event[1] \in Selects[c]}}
<1> DEFINE fresh == {e.event : e \in {x \in New(w, now) : x.event[1] \in Selects[c]}}
<1>1. /\ Selects[c] \subseteq Sources /\ w2.sources = now
      /\ \A s \in Sources : /\ w.sources[s] \in SourceStates /\ now[s] \in SourceStates
                            /\ w.sources[s].count \in Nat /\ now[s].count \in Nat
  BY WatchConstants DEF WatchConstants, Appends, WindowIsSound, StreamTypes, SourceStates
<1>2. \A s \in Sources : w.sources[s].count > 0 => now[s].gen = w.sources[s].gen
  <2> TAKE s \in Sources
  <2>1. w.sources[s].count > 0 => w.sources[s] # Unwatched
    BY DEF Unwatched
  <2>2. QED
    BY <2>1 DEF Continuous
<1>3. \A s \in Sources : w.sources[s].count <= now[s].count
  <2> TAKE s \in Sources
  <2>1. w.sources[s] = Unwatched => w.sources[s].count = 0
    BY DEF Unwatched
  <2>2. QED
    BY <1>1, <2>1 DEF Continuous
<1>4. \A x : x \in fresh <=> \E a \in Added(w, now) :
                              a[1] \in Selects[c] /\ x = <<a[1], now[a[1]].gen, a[2]>>
  <2> DEFINE change(a) == [seq |-> Number(w, Added(w, now), a),
                           event |-> Event(a[1], now[a[1]].gen, a[2])]
  <2>1. \A a : /\ change(a).event = <<a[1], now[a[1]].gen, a[2]>>
               /\ change(a).event[1] = a[1]
    BY DEF Event
  <2>2. New(w, now) = {change(a) : a \in Added(w, now)}
    BY DEF New
  <2> HIDE DEF change
  <2>3. QED
    BY <2>1, <2>2, ZenonT(60)
<1>5. \A s, n : <<s, n>> \in Added(w, now)
                 <=> s \in Sources /\ n \in w.sources[s].count + 1 .. now[s].count
  BY DEF Added
<1>6. \A a \in Added(w, now) : a = <<a[1], a[2]>>
  BY DEF Added
<1>7. \A x : x \in Seen(c, w2) <=> \E s \in Selects[c] : \E n \in 1 .. now[s].count :
                                    x = <<s, now[s].gen, n>>
  BY <1>1 DEF Seen, EventsOf, Event
<1>8. \A x : x \in Seen(c, w) <=> \E s \in Selects[c] : \E n \in 1 .. w.sources[s].count :
                                   x = <<s, w.sources[s].gen, n>>
  BY DEF Seen, EventsOf, Event
<1>9. ASSUME NEW x \in Seen(c, w2)
      PROVE  x \in Seen(c, w) \cup fresh
  <2>0. PICK s \in Selects[c] : \E n \in 1 .. now[s].count : x = <<s, now[s].gen, n>>
    BY <1>7
  <2>1. PICK n \in 1 .. now[s].count : x = <<s, now[s].gen, n>>
    BY <2>0
  <2>2. s \in Sources /\ w.sources[s].count \in Nat /\ now[s].count \in Nat
    BY <1>1
  <2>3. CASE n <= w.sources[s].count
    <3>1. n \in 1 .. w.sources[s].count /\ now[s].gen = w.sources[s].gen
      BY <1>2, <2>2, <2>3
    <3>2. QED
      BY <1>8, <2>1, <3>1
  <2>4. CASE ~ (n <= w.sources[s].count)
    <3>1. <<s, n>> \in Added(w, now)
      BY <1>5, <2>2, <2>4
    <3>2. <<s, n>>[1] = s /\ <<s, n>>[2] = n
      OBVIOUS
    <3>3. QED
      BY <1>4, <2>1, <3>1, <3>2
  <2>5. QED
    BY <2>3, <2>4
<1>10. ASSUME NEW x \in Seen(c, w)
       PROVE  x \in Seen(c, w2)
  <2>0. PICK s \in Selects[c] : \E n \in 1 .. w.sources[s].count : x = <<s, w.sources[s].gen, n>>
    BY <1>8
  <2>1. PICK n \in 1 .. w.sources[s].count : x = <<s, w.sources[s].gen, n>>
    BY <2>0
  <2>2. s \in Sources /\ w.sources[s].count \in Nat /\ now[s].count \in Nat
        /\ w.sources[s].count <= now[s].count
    BY <1>1, <1>3
  <2>3. n \in 1 .. now[s].count /\ now[s].gen = w.sources[s].gen
    BY <1>2, <2>2
  <2>4. QED
    BY <1>7, <2>1, <2>3
<1>11. ASSUME NEW x \in fresh
       PROVE  x \in Seen(c, w2)
  <2>1. PICK a \in Added(w, now) : a[1] \in Selects[c] /\ x = <<a[1], now[a[1]].gen, a[2]>>
    BY <1>4
  <2>2. a[1] \in Sources /\ a[2] \in w.sources[a[1]].count + 1 .. now[a[1]].count
    BY <1>5, <1>6
  <2>3. a[2] \in 1 .. now[a[1]].count
    BY <1>1, <2>2
  <2>4. QED
    BY <1>7, <2>1, <2>3
<1>12. QED
  BY <1>9, <1>10, <1>11

(* A cursor that brought everything still does after the stream grew.      *)
LEMMA AppendContinues ==
  ASSUME NEW w, WindowIsSound(w), NEW now \in [Sources -> SourceStates], NEW w2,
         Appends(w, now, w2), Continuous(w, now), NEW c \in Consumers,
         NEW cursor, CursorIsSound(cursor, w), NEW held, Complete(c, held, cursor, w)
  PROVE  Complete(c, held, cursor, w2)
<1> SUFFICES ASSUME cursor.live, ~Lost(cursor.seq, w2)
             PROVE  held \cup Brings(c, cursor.seq, w2) = Seen(c, w2)
  BY DEF Complete
<1>1. cursor.seq \in 0 .. w.next
  BY DEF CursorIsSound
<1>2. /\ ~Lost(cursor.seq, w)
      /\ \A e \in w.entries \cup New(w, now) : e.seq > cursor.seq => e \in w2.entries
  BY <1>1, WindowKeeps
<1>3. held \cup Brings(c, cursor.seq, w) = Seen(c, w)
  BY <1>2 DEF Complete
<1>4. \A e \in New(w, now) : e.seq > cursor.seq
  <2> TAKE e \in New(w, now)
  <2>1. e.seq > w.next /\ e.seq \in Nat /\ w.next \in Nat
    BY NewChanges DEF Changes, WindowIsSound, StreamTypes
  <2>2. QED
    BY <1>1, <2>1
<1>5. w2.entries \subseteq w.entries \cup New(w, now)
  BY DEF Appends
<1>6. Brings(c, cursor.seq, w2)
        = Brings(c, cursor.seq, w) \cup {e.event : e \in {x \in New(w, now) : x.event[1] \in Selects[c]}}
  BY <1>2, <1>4, <1>5 DEF Brings
<1>7. QED
  BY <1>3, <1>6, SeenGrows

(***************************************************************************)
(* A page.                                                                 *)
(***************************************************************************)

(* Numbers have a least one.                                               *)
LEMMA LeastNumber ==
  ASSUME NEW S \in SUBSET Nat, S # {}
  PROVE  \E m \in S : \A y \in S : m <= y
<1>1. PICK m \in S : \A y \in S : ~ (<<y, m>> \in OpToRel(<, Nat))
  BY NatLessThanWellFounded, WFMin, Zenon
<1>2. \A y \in S : ~ (y < m)
  BY <1>1 DEF OpToRel
<1>3. QED
  BY <1>2

(* Bounded numbers have a largest one.                                     *)
LEMMA LargestNumber ==
  ASSUME NEW S \in SUBSET Nat, S # {}, NEW N \in Nat, \A y \in S : y <= N
  PROVE  \E m \in S : \A y \in S : y <= m
<1>1. \A y \in S : N - y \in Nat
  OBVIOUS
<1>2. PICK d \in {N - y : y \in S} : \A x \in {N - y : y \in S} : d <= x
  <2>1. {N - y : y \in S} \in SUBSET Nat /\ {N - y : y \in S} # {}
    BY <1>1
  <2>2. QED
    BY <2>1, LeastNumber
<1>3. PICK m \in S : d = N - m
  BY <1>2
<1>4. \A y \in S : N - m <= N - y
  BY <1>2, <1>3
<1>5. \A y \in S : y <= m
  BY <1>4
<1>6. QED
  BY <1>5

(* The sequence a page reaches is the last of its changes'.                *)
LEMMA ReachedIsLast ==
  ASSUME NEW N \in Nat, NEW seq \in 0 .. N, NEW es,
         \A e \in es : e.seq \in Nat /\ e.seq > seq /\ e.seq <= N
  PROVE  /\ Reached(seq, es) \in seq .. N
         /\ \A e \in es : e.seq <= Reached(seq, es)
         /\ es # {} => \E e \in es : e.seq = Reached(seq, es)
         /\ es = {} => Reached(seq, es) = seq
<1>1. CASE es = {}
  BY <1>1 DEF Reached
<1>2. CASE es # {}
  <2> DEFINE S == {e.seq : e \in es}
  <2>1. S \in SUBSET Nat /\ S # {} /\ \A y \in S : y <= N
    BY <1>2
  <2>2. \E m \in S : \A y \in S : y <= m
    <3> HIDE DEF S
    <3>1. QED
      BY <2>1, LargestNumber
  <2>3. \E m \in S : \A e \in es : e.seq <= m
    BY <2>2
  <2>4. Reached(seq, es) = CHOOSE n \in S : \A e \in es : e.seq <= n
    BY <1>2 DEF Reached
  <2>5. Reached(seq, es) \in S /\ \A e \in es : e.seq <= Reached(seq, es)
    <3> HIDE DEF S
    <3>1. QED
      BY <2>3, <2>4, Zenon
  <2>6. PICK e \in es : e.seq = Reached(seq, es)
    BY <2>5
  <2>7. Reached(seq, es) \in seq .. N
    BY <2>6
  <2>8. QED
    BY <1>2, <2>5, <2>6, <2>7
<1>3. QED
  BY <1>1, <1>2

(* The first PageLimit changes: none of them if there is none, and nothing *)
(* else up to the last of them.                                            *)
LEMMA FirstComeFirst ==
  ASSUME NEW es, IsFiniteSet(es), \A e \in es : e.seq \in Nat
  PROVE  /\ First(es) = {} => es = {}
         /\ Cardinality(es) < PageLimit => First(es) = es
         /\ \A x \in First(es), e \in es \ First(es) : x.seq < e.seq
<1> DEFINE Before(e) == {f \in es : f.seq < e.seq}
<1>1. PageLimit \in Nat \ {0}
  BY WatchConstants DEF WatchConstants
<1>2. \A e \in es : /\ IsFiniteSet(Before(e)) /\ Cardinality(Before(e)) \in Nat
                    /\ Cardinality(Before(e)) <= Cardinality(es)
  <2> TAKE e \in es
  <2>1. Before(e) \in SUBSET es
    OBVIOUS
  <2> HIDE DEF Before
  <2>2. QED
    BY <2>1, FS_Subset, FS_CardinalityType
<1>3. Cardinality(es) \in Nat
  BY FS_CardinalityType
<1>4. First(es) = {e \in es : Cardinality(Before(e)) < PageLimit}
  BY DEF First
<1>5. ASSUME es # {}
      PROVE  First(es) # {}
  <2>1. PICK m \in {e.seq : e \in es} : \A y \in {e.seq : e \in es} : m <= y
    <3>1. {e.seq : e \in es} \in SUBSET Nat /\ {e.seq : e \in es} # {}
      BY <1>5
    <3>2. QED
      BY <3>1, LeastNumber
  <2>2. PICK e \in es : e.seq = m
    BY <2>1
  <2>3. Before(e) = {}
    BY <2>1, <2>2
  <2>4. Cardinality(Before(e)) = 0
    BY <2>3, FS_EmptySet
  <2>5. QED
    BY <1>1, <1>4, <2>4
<1>6. ASSUME Cardinality(es) < PageLimit
      PROVE  First(es) = es
  <2>1. \A e \in es : Cardinality(Before(e)) < PageLimit
    <3> HIDE DEF Before
    <3>1. QED
      BY <1>1, <1>2, <1>3, <1>6
  <2>2. QED
    BY <1>4, <2>1
<1>7. ASSUME NEW x \in First(es), NEW e \in es \ First(es)
      PROVE  x.seq < e.seq
  <2> SUFFICES ASSUME ~ (x.seq < e.seq) PROVE FALSE
    OBVIOUS
  <2>1. x \in es /\ e \in es /\ x.seq \in Nat /\ e.seq \in Nat /\ e.seq <= x.seq
    BY <1>4
  <2>2. Before(e) \in SUBSET Before(x)
    BY <2>1
  <2>3. Cardinality(Before(e)) <= Cardinality(Before(x))
    <3> HIDE DEF Before
    <3>1. QED
      BY <1>2, <2>1, <2>2, FS_Subset
  <2>4. Cardinality(Before(x)) < PageLimit /\ ~ (Cardinality(Before(e)) < PageLimit)
    BY <1>4
  <2> HIDE DEF Before
  <2>5. QED
    BY <1>1, <1>2, <2>1, <2>3, <2>4
<1>8. QED
  BY <1>5, <1>6, <1>7

(* A page and its cursor lose nothing, and an empty one leaves nothing.    *)
LEMMA PageIsComplete ==
  ASSUME WindowIsSound(changeStream), NEW c \in Consumers, NEW at, NEW held, ~MustReset(at),
         CursorIsSound(at, changeStream), Complete(c, held, at, changeStream),
         NEW page, page = PageOf(c, at.seq)
  PROVE  /\ CursorIsSound(Cursor(page.seq), changeStream) /\ Cursor(page.seq).live
         /\ Complete(c, held \cup {e.event : e \in page.changes}, Cursor(page.seq), changeStream)
         /\ page.changes \in SUBSET Changes
         /\ page.changes = {} => Brings(c, page.seq, changeStream) = {}
<1> DEFINE later == Later(at.seq)
           found == Matching(c, Later(at.seq))
           N == changeStream.next
<1>1. at.live /\ at.seq \in 0 .. N /\ N \in Nat /\ changeStream.ready
  BY DEF MustReset, CursorIsSound, WindowIsSound, StreamTypes
<1>2. /\ IsFiniteSet(changeStream.entries) /\ changeStream.entries \in SUBSET Changes
      /\ \A e \in changeStream.entries : e.seq \in Nat /\ e.seq <= N
  BY DEF WindowIsSound, StreamTypes, Changes
<1>3. /\ later \in SUBSET changeStream.entries /\ found \in SUBSET later
      /\ \A e \in later : e.seq > at.seq
  BY DEF Later, Matching
<1>4. IsFiniteSet(found)
  <2>1. found \in SUBSET changeStream.entries
    BY <1>3
  <2> HIDE DEF found
  <2>2. QED
    BY <1>2, <2>1, FS_Subset
<1>5. page.changes = First(found)
      /\ page.seq = Reached(at.seq, IF Cardinality(found) >= PageLimit THEN First(found) ELSE later)
  BY DEF PageOf
<1>6. First(found) \in SUBSET found
  BY DEF First
<1>7. /\ First(found) = {} => found = {}
      /\ Cardinality(found) < PageLimit => First(found) = found
      /\ \A x \in First(found), e \in found \ First(found) : x.seq < e.seq
  <2>1. \A e \in found : e.seq \in Nat
    BY <1>2, <1>3
  <2> HIDE DEF found
  <2>2. QED
    BY <1>4, <2>1, FirstComeFirst
<1>8. Cardinality(found) \in Nat /\ PageLimit \in Nat
  BY <1>4, FS_CardinalityType, WatchConstants DEF WatchConstants
<1> DEFINE es == IF Cardinality(found) >= PageLimit THEN First(found) ELSE later
<1>9. \A e \in es : e.seq \in Nat /\ e.seq > at.seq /\ e.seq <= N
  <2>1. es \in SUBSET later
    BY <1>3, <1>6
  <2> HIDE DEF es, found, later
  <2>2. QED
    BY <1>2, <1>3, <2>1
<1>10. /\ page.seq \in at.seq .. N
       /\ \A e \in es : e.seq <= page.seq
       /\ es # {} => \E e \in es : e.seq = page.seq
  <2>1. page.seq = Reached(at.seq, es)
    BY <1>5
  <2> HIDE DEF es, N
  <2>2. QED
    BY <1>1, <1>9, <2>1, ReachedIsLast
<1>11. \A e \in found : e.seq > page.seq <=> e \notin First(found)
  <2>1. CASE Cardinality(found) >= PageLimit
    <3>1. es = First(found)
      BY <2>1
    <3>2. \A e \in First(found) : ~ (e.seq > page.seq)
      <4>1. \A e \in First(found) : e.seq \in Nat /\ e.seq <= page.seq
        BY <1>9, <1>10, <3>1
      <4>2. QED
        BY <1>1, <1>10, <4>1
    <3>3. ASSUME NEW e \in found \ First(found)
          PROVE  e.seq > page.seq
      <4>1. First(found) # {}
        BY <1>7, <3>3
      <4>2. PICK x \in First(found) : x.seq = page.seq
        BY <1>10, <3>1, <4>1
      <4>3. x.seq < e.seq
        BY <1>7, <3>3
      <4>4. QED
        BY <4>2, <4>3
    <3>4. QED
      BY <3>2, <3>3
  <2>2. CASE Cardinality(found) < PageLimit
    <3>1. First(found) = found
      BY <1>7, <2>2
    <3>2. es = later
      <4> HIDE DEF found, later
      <4>1. QED
        BY <1>8, <2>2
    <3>3. \A e \in found : e.seq \in Nat /\ e.seq <= page.seq
      BY <1>3, <1>9, <1>10, <3>2
    <3>4. QED
      BY <1>1, <1>10, <3>1, <3>3
  <2> HIDE DEF found
  <2>3. QED
    BY <1>8, <2>1, <2>2
<1>12. Brings(c, at.seq, changeStream) = {e.event : e \in found}
  BY DEF Brings, Later, Matching
<1>13. Brings(c, page.seq, changeStream) = {e.event : e \in {x \in found : x.seq > page.seq}}
  <2>1. \A e \in changeStream.entries : e.seq > page.seq => e.seq > at.seq
    BY <1>1, <1>2, <1>10
  <2>2. {e \in changeStream.entries : e.seq > page.seq /\ e.event[1] \in Selects[c]}
          = {x \in found : x.seq > page.seq}
    BY <2>1 DEF Later, Matching
  <2>3. QED
    BY <2>2 DEF Brings
<1>14. {e.event : e \in page.changes} \cup Brings(c, page.seq, changeStream)
         = Brings(c, at.seq, changeStream)
  <2>1. {x \in found : x.seq > page.seq} \cup First(found) = found
    BY <1>6, <1>11
  <2> HIDE DEF found
  <2>2. {e.event : e \in First(found)} \cup {e.event : e \in {x \in found : x.seq > page.seq}}
          = {e.event : e \in found}
    BY <2>1
  <2>3. QED
    BY <1>5, <1>12, <1>13, <2>2
<1>15. held \cup Brings(c, at.seq, changeStream) = Seen(c, changeStream)
  BY <1>1 DEF Complete, MustReset, LostWindow, Lost
<1>16. page.changes = {} => Brings(c, page.seq, changeStream) = {}
  BY <1>5, <1>7, <1>12, <1>14
<1>17. Cursor(page.seq).live /\ Cursor(page.seq).seq = page.seq /\ Cursor(page.seq) \in Cursors
  <2>1. page.seq \in Int
    BY <1>1, <1>10
  <2>2. QED
    BY <2>1 DEF Cursor, Cursors
<1>18. CursorIsSound(Cursor(page.seq), changeStream)
  <2>1. page.seq \in 0 .. N
    BY <1>1, <1>10
  <2>2. QED
    BY <1>1, <1>17, <2>1 DEF CursorIsSound
<1>19. Complete(c, held \cup {e.event : e \in page.changes}, Cursor(page.seq), changeStream)
  BY <1>14, <1>15, <1>17 DEF Complete
<1>20. page.changes \in SUBSET Changes
  BY <1>2, <1>3, <1>5, <1>6
<1>21. QED
  BY <1>16, <1>17, <1>18, <1>19, <1>20

(***************************************************************************)
(* The invariant, one consumer at a time.                                  *)
(***************************************************************************)

CaughtUpAll == \A s \in Sources : transcript[s].there => indexed[s] = CaughtUp(s)
Shut(w) == w.closed \/ "content_access_disabled" \in w.gaps

Follows(c, r, w) ==
  /\ CursorIsSound(r.cursor, w) /\ Complete(c, r.held, r.cursor, w)
  /\ CursorIsSound(r.at, w) /\ Complete(c, r.held, r.at, w)

(* While a request holds the mutex the stream is what it collected.        *)
HasObserved(c, r, w, idx, mu, caught) ==
  r.pc = "observed" =>
    /\ mu = c
    /\ \/ Shut(w)
       \/ w.ready /\ \A s \in Sources : w.sources[s] = IF s \in r.states THEN idx[s] ELSE Unwatched
    /\ ~r.hinted /\ ~w.closed /\ w.gaps = {} => caught

Sleeps(c, r, w, caught) ==
  r.pc = "wait" /\ ~r.woken =>
    /\ w.gaps = {} => caught
    /\ r.at.live /\ Brings(c, r.at.seq, w) = {} /\ ~w.closed

ConsumerIsSound(c, r, w, idx, mu, caught) ==
  Follows(c, r, w) /\ HasObserved(c, r, w, idx, mu, caught) /\ Sleeps(c, r, w, caught)

Transcripts == [there : BOOLEAN, gen : Nat, count : 0 .. MaxEvents, torn : BOOLEAN]

(* What is indexed was in the file.                                        *)
IndexIsSound ==
  /\ transcript \in [Sources -> Transcripts] /\ indexed \in [Sources -> SourceStates]
  /\ \A s \in Sources : /\ indexed[s].gen <= transcript[s].gen
                        /\ indexed[s].gen = transcript[s].gen => indexed[s].count <= transcript[s].count

Surroundings ==
  /\ WindowIsSound(changeStream) /\ changeStream.rotated = FALSE /\ IndexIsSound
  /\ opMu \in Consumers \cup {Free} /\ mishaps \in 0 .. MaxMishaps
  /\ consumer \in [Consumers -> ConsumerTypes]

WatchInv ==
  /\ Surroundings
  /\ \A c \in Consumers :
       ConsumerIsSound(c, consumer[c], changeStream, indexed, opMu, CaughtUpAll)

(***************************************************************************)
(* One consumer moves.                                                     *)
(***************************************************************************)

(* The invariant is kept when one consumer moves soundly, and at most gives *)
(* the mutex back.                                                         *)
LEMMA OneMoves ==
  ASSUME WatchInv, NEW c \in Consumers, NEW r \in ConsumerTypes, Move(c, r),
         UNCHANGED <<transcript, indexed, changeStream>>,
         mishaps' \in 0 .. MaxMishaps, opMu' = opMu \/ (opMu = c /\ opMu' = Free),
         ConsumerIsSound(c, r, changeStream, indexed, opMu', CaughtUpAll)
  PROVE  WatchInv'
<1>1. consumer' = [consumer EXCEPT ![c] = r] /\ consumer \in [Consumers -> ConsumerTypes]
  BY DEF Move, Become, WatchInv, Surroundings
<1>2. consumer' \in [Consumers -> ConsumerTypes] /\ consumer'[c] = r
      /\ \A d \in Consumers : d # c => consumer'[d] = consumer[d]
  BY <1>1
<1>3. Surroundings'
  BY <1>2, Zenon DEF WatchInv, Surroundings, IndexIsSound, WindowIsSound
<1>4. CaughtUpAll' = CaughtUpAll
  BY DEF CaughtUpAll, CaughtUp
<1>5. ASSUME NEW d \in Consumers, d # c
      PROVE  ConsumerIsSound(d, consumer[d], changeStream, indexed, opMu', CaughtUpAll)
  <2>1. ConsumerIsSound(d, consumer[d], changeStream, indexed, opMu, CaughtUpAll)
    BY DEF WatchInv
  <2>2. consumer[d].pc = "observed" => opMu' = d
    BY <1>5, <2>1 DEF ConsumerIsSound, HasObserved
  <2>3. QED
    BY <2>1, <2>2 DEF ConsumerIsSound, HasObserved
<1>6. \A d \in Consumers :
        ConsumerIsSound(d, consumer'[d], changeStream, indexed, opMu', CaughtUpAll)
  BY <1>2, <1>5
<1>7. \A d \in Consumers :
        ConsumerIsSound(d, consumer'[d], changeStream', indexed', opMu', CaughtUpAll')
  BY <1>4, <1>6
<1>8. QED
  BY <1>3, <1>7 DEF WatchInv

(* A consumer in none of the two places only has to follow.                *)
LEMMA OneFollows ==
  ASSUME NEW c, NEW r, r.pc \notin {"observed", "wait"}, Follows(c, r, changeStream), NEW mu
  PROVE  ConsumerIsSound(c, r, changeStream, indexed, mu, CaughtUpAll)
  BY DEF ConsumerIsSound, HasObserved, Sleeps

(* A consumer without a cursor claims nothing.                             *)
LEMMA NoCursorIsDead ==
  /\ NoCursor \in Cursors /\ ~NoCursor.live
  /\ \A w : CursorIsSound(NoCursor, w)
  /\ \A c, held, w : Complete(c, held, NoCursor, w)
  BY DEF NoCursor, Cursors, CursorIsSound, Complete

(* A record of a consumer is its fields.                                   *)
LEMMA Fields ==
  \A r : r \in ConsumerTypes <=>
    /\ r = [pc |-> r.pc, kind |-> r.kind, done |-> r.done, late |-> r.late, woken |-> r.woken,
            hinted |-> r.hinted, at |-> r.at, states |-> r.states, cursor |-> r.cursor,
            held |-> r.held, requests |-> r.requests]
    /\ r.pc \in {"idle", "start", "lock", "observed", "wait"} /\ r.kind \in {"query", "watch"}
    /\ r.done \in BOOLEAN /\ r.late \in BOOLEAN /\ r.woken \in BOOLEAN /\ r.hinted \in BOOLEAN
    /\ r.at \in Cursors /\ r.states \in SUBSET Sources /\ r.cursor \in Cursors
    /\ r.held \in SUBSET (Sources \X Nat \X Nat) /\ r.requests \in Nat
  BY DEF ConsumerTypes

(* A request that ends leaves its consumer what it held and its cursor.    *)
LEMMA Eased ==
  ASSUME WatchInv, NEW c \in Consumers
  PROVE  /\ AtEase(c) \in ConsumerTypes /\ AtEase(c).pc = "idle"
         /\ AtEase(c).at = NoCursor /\ AtEase(c).cursor = consumer[c].cursor
         /\ AtEase(c).held = consumer[c].held /\ AtEase(c).requests = consumer[c].requests
         /\ Follows(c, AtEase(c), changeStream)
<1>1. consumer[c] \in ConsumerTypes
  BY DEF WatchInv, Surroundings
<1>2. /\ AtEase(c).pc = "idle" /\ AtEase(c).at = NoCursor
      /\ AtEase(c).cursor = consumer[c].cursor /\ AtEase(c).held = consumer[c].held
      /\ AtEase(c).requests = consumer[c].requests /\ AtEase(c).kind = consumer[c].kind
      /\ AtEase(c).done = FALSE /\ AtEase(c).late = FALSE /\ AtEase(c).woken = FALSE
      /\ AtEase(c).hinted = FALSE /\ AtEase(c).states = {}
      /\ AtEase(c) = [pc |-> AtEase(c).pc, kind |-> AtEase(c).kind, done |-> AtEase(c).done,
           late |-> AtEase(c).late, woken |-> AtEase(c).woken, hinted |-> AtEase(c).hinted,
           at |-> AtEase(c).at, states |-> AtEase(c).states, cursor |-> AtEase(c).cursor,
           held |-> AtEase(c).held, requests |-> AtEase(c).requests]
  <2> DEFINE q == consumer[c]
  <2>1. q = [pc |-> q.pc, kind |-> q.kind, done |-> q.done, late |-> q.late, woken |-> q.woken,
             hinted |-> q.hinted, at |-> q.at, states |-> q.states, cursor |-> q.cursor,
             held |-> q.held, requests |-> q.requests]
    BY <1>1, Fields
  <2>2. AtEase(c) = [pc |-> "idle", kind |-> q.kind, done |-> FALSE, late |-> FALSE,
                     woken |-> FALSE, hinted |-> FALSE, at |-> NoCursor, states |-> {},
                     cursor |-> q.cursor, held |-> q.held, requests |-> q.requests]
    <3>1. AtEase(c) = [q EXCEPT !.pc = "idle", !.done = FALSE, !.late = FALSE, !.woken = FALSE,
                                !.hinted = FALSE, !.at = NoCursor, !.states = {}]
      BY DEF AtEase
    <3> HIDE DEF q
    <3>2. QED
      BY <2>1, <3>1, ZenonT(60)
  <2> HIDE DEF q
  <2>3. QED
    BY <2>2 DEF q
<1>3. AtEase(c) \in ConsumerTypes
  BY <1>1, <1>2, NoCursorIsDead, Fields
<1>4. Follows(c, consumer[c], changeStream)
  BY DEF WatchInv, ConsumerIsSound
<1>5. QED
  BY <1>2, <1>3, <1>4, NoCursorIsDead DEF Follows

(* A request that ends without an answer.                                  *)
LEMMA LeaveKeeps ==
  ASSUME WatchInv, NEW c \in Consumers, Leave(c),
         UNCHANGED <<transcript, indexed, changeStream, mishaps>>,
         opMu' = opMu \/ (opMu = c /\ opMu' = Free)
  PROVE  WatchInv'
<1>1. /\ AtEase(c) \in ConsumerTypes
      /\ ConsumerIsSound(c, AtEase(c), changeStream, indexed, opMu', CaughtUpAll)
  BY Eased, OneFollows
<1>2. mishaps' \in 0 .. MaxMishaps
  BY DEF WatchInv, Surroundings
<1>3. QED
  BY <1>1, <1>2, OneMoves DEF Leave

(* Mishaps are counted to their bound.                                     *)
LEMMA MishapIsBounded ==
  ASSUME Surroundings, Mishap \/ UNCHANGED mishaps
  PROVE  mishaps' \in 0 .. MaxMishaps
<1>1. mishaps \in 0 .. MaxMishaps /\ MaxMishaps \in Nat
  BY WatchConstants DEF Surroundings, WatchConstants
<1>2. QED
  BY <1>1 DEF Mishap

(* A request starts from the cursor its consumer holds.                    *)
LEMMA AskKeeps ==
  ASSUME WatchInv, NEW c \in Consumers, NEW kind \in {"query", "watch"}, Ask(c, kind)
  PROVE  WatchInv'
<1> DEFINE r == [AtEase(c) EXCEPT !.pc = "start", !.kind = kind, !.at = consumer[c].cursor,
                                  !.requests = @ + 1]
<1>1. /\ AtEase(c) \in ConsumerTypes /\ AtEase(c).cursor = consumer[c].cursor
      /\ Follows(c, AtEase(c), changeStream)
  BY Eased
<1>2. consumer[c].cursor \in Cursors /\ consumer[c] \in ConsumerTypes
  BY DEF WatchInv, Surroundings, ConsumerTypes
<1>3. /\ r \in ConsumerTypes /\ r.pc = "start" /\ r.cursor = AtEase(c).cursor
      /\ r.at = AtEase(c).cursor /\ r.held = AtEase(c).held
  <2> DEFINE q == AtEase(c)
             cur == consumer[c].cursor
  <2>1. q \in ConsumerTypes /\ q.cursor = cur /\ cur \in Cursors /\ q.requests \in Nat
    BY <1>1, <1>2, Fields
  <2>2. r = [q EXCEPT !.pc = "start", !.kind = kind, !.at = cur, !.requests = @ + 1]
    OBVIOUS
  <2> HIDE DEF q, r, cur
  <2>3. r.pc = "start" /\ r.cursor = q.cursor /\ r.at = q.cursor /\ r.held = q.held
    BY <2>1, <2>2 DEF ConsumerTypes
  <2>4. r \in ConsumerTypes
    <3> DEFINE n == q.requests + 1
    <3>1. n \in Nat
      BY <2>1
    <3>2. r = [q EXCEPT !.pc = "start", !.kind = kind, !.at = cur, !.requests = n]
      BY <2>2
    <3> HIDE DEF n
    <3>3. QED
      BY <2>1, <3>1, <3>2 DEF ConsumerTypes
  <2>5. QED
    BY <2>3, <2>4 DEF q
<1>4. Follows(c, r, changeStream)
  <2> HIDE DEF r
  <2>1. QED
    BY <1>1, <1>3 DEF Follows
<1>5. ConsumerIsSound(c, r, changeStream, indexed, opMu', CaughtUpAll)
  <2> HIDE DEF r
  <2>1. QED
    BY <1>3, <1>4, OneFollows
<1>6. Move(c, r) /\ UNCHANGED <<transcript, indexed, changeStream, mishaps, opMu>>
  BY DEF Ask
<1>7. mishaps' \in 0 .. MaxMishaps
  BY <1>6, MishapIsBounded DEF WatchInv
<1>8. QED
  <2> HIDE DEF r
  <2>1. QED
    BY <1>3, <1>5, <1>6, <1>7, OneMoves

(* A consumer that moves on without touching what it holds.                *)
LEMMA StepKeeps ==
  ASSUME WatchInv, NEW c \in Consumers, NEW r \in ConsumerTypes, Move(c, r),
         UNCHANGED <<transcript, indexed, changeStream, mishaps, opMu>>,
         r.held = consumer[c].held, r.cursor = consumer[c].cursor, r.at = consumer[c].at,
         r.pc \in {"start", "lock"}
  PROVE  WatchInv'
<1>1. Follows(c, consumer[c], changeStream)
  BY DEF WatchInv, ConsumerIsSound
<1>2. Follows(c, r, changeStream)
  BY <1>1 DEF Follows
<1>3. ConsumerIsSound(c, r, changeStream, indexed, opMu', CaughtUpAll)
  BY <1>2, OneFollows
<1>4. mishaps' \in 0 .. MaxMishaps
  BY MishapIsBounded DEF WatchInv
<1>5. QED
  BY <1>3, <1>4, OneMoves

(* A pass begins, or a wait ends.                                          *)
LEMMA PassKeeps ==
  ASSUME WatchInv, NEW c \in Consumers, BeginPass(c) \/ EndWait(c)
  PROVE  WatchInv'
<1>1. consumer[c] \in ConsumerTypes
  BY DEF WatchInv, Surroundings
<1>2. UNCHANGED <<transcript, indexed, changeStream, mishaps, opMu>>
  BY DEF BeginPass, EndWait
<1>3. CASE Leave(c)
  BY <1>2, <1>3, LeaveKeeps
<1>4. CASE Move(c, [consumer[c] EXCEPT !.pc = "lock", !.hinted = FALSE])
  <2> DEFINE r == [consumer[c] EXCEPT !.pc = "lock", !.hinted = FALSE]
  <2>1. /\ r \in ConsumerTypes /\ r.held = consumer[c].held /\ r.cursor = consumer[c].cursor
        /\ r.at = consumer[c].at /\ r.pc = "lock"
    BY <1>1 DEF ConsumerTypes
  <2> HIDE DEF r
  <2>2. QED
    BY <1>2, <1>4, <2>1, StepKeeps DEF r
<1>5. CASE Move(c, [consumer[c] EXCEPT !.pc = "start", !.woken = FALSE])
  <2> DEFINE r == [consumer[c] EXCEPT !.pc = "start", !.woken = FALSE]
  <2>1. /\ r \in ConsumerTypes /\ r.held = consumer[c].held /\ r.cursor = consumer[c].cursor
        /\ r.at = consumer[c].at /\ r.pc = "start"
    BY <1>1 DEF ConsumerTypes
  <2> HIDE DEF r
  <2>2. QED
    BY <1>2, <1>5, <2>1, StepKeeps DEF r
<1>6. CASE Move(c, [consumer[c] EXCEPT !.pc = "start", !.late = TRUE, !.woken = FALSE])
  <2> DEFINE r == [consumer[c] EXCEPT !.pc = "start", !.late = TRUE, !.woken = FALSE]
  <2>1. /\ r \in ConsumerTypes /\ r.held = consumer[c].held /\ r.cursor = consumer[c].cursor
        /\ r.at = consumer[c].at /\ r.pc = "start"
    BY <1>1 DEF ConsumerTypes
  <2> HIDE DEF r
  <2>2. QED
    BY <1>2, <1>6, <2>1, StepKeeps DEF r
<1>7. QED
  BY <1>3, <1>4, <1>5, <1>6 DEF BeginPass, EndWait, Leave

(* A cancelled request changes nothing before it looks.                    *)
LEMMA CancelKeeps ==
  ASSUME WatchInv, NEW c \in Consumers, CancelRequest(c)
  PROVE  WatchInv'
<1> DEFINE r == [consumer[c] EXCEPT !.done = TRUE]
<1>1. consumer[c] \in ConsumerTypes
  BY DEF WatchInv, Surroundings
<1>2. /\ r \in ConsumerTypes /\ r.held = consumer[c].held /\ r.cursor = consumer[c].cursor
      /\ r.at = consumer[c].at /\ r.pc = consumer[c].pc /\ r.states = consumer[c].states
      /\ r.hinted = consumer[c].hinted /\ r.woken = consumer[c].woken
  BY <1>1 DEF ConsumerTypes
<1>3. ConsumerIsSound(c, consumer[c], changeStream, indexed, opMu, CaughtUpAll)
  BY DEF WatchInv
<1>4. Move(c, r) /\ UNCHANGED <<transcript, indexed, changeStream, opMu>>
  BY DEF CancelRequest
<1>5. mishaps' \in 0 .. MaxMishaps
  BY MishapIsBounded DEF WatchInv, CancelRequest
<1> HIDE DEF r
<1>6. ConsumerIsSound(c, r, changeStream, indexed, opMu', CaughtUpAll)
  BY <1>2, <1>3, <1>4 DEF ConsumerIsSound, Follows, HasObserved, Sleeps
<1>7. QED
  BY <1>2, <1>4, <1>5, <1>6, OneMoves

(* A cursor that is too old is dead.                                       *)
LEMMA AgeKeeps ==
  ASSUME WatchInv, NEW c \in Consumers, AgeCursor(c)
  PROVE  WatchInv'
<1> DEFINE r == [consumer[c] EXCEPT !.cursor.live = FALSE]
<1>1. consumer[c] \in ConsumerTypes /\ consumer[c].cursor \in Cursors
  BY DEF WatchInv, Surroundings, ConsumerTypes
<1>2. [consumer[c].cursor EXCEPT !.live = FALSE] \in Cursors
      /\ [consumer[c].cursor EXCEPT !.live = FALSE].live = FALSE
  BY <1>1 DEF Cursors
<1>3. /\ r.held = consumer[c].held /\ r.cursor = [consumer[c].cursor EXCEPT !.live = FALSE]
      /\ r.at = consumer[c].at /\ r.pc = consumer[c].pc
  BY <1>1 DEF ConsumerTypes
<1>4. r \in ConsumerTypes
  BY <1>1, <1>2 DEF ConsumerTypes
<1>5. Follows(c, consumer[c], changeStream) /\ r.pc = "idle"
  BY <1>3 DEF WatchInv, ConsumerIsSound, AgeCursor, At
<1>6. Move(c, r) /\ UNCHANGED <<transcript, indexed, changeStream, opMu>>
  BY DEF AgeCursor
<1>7. mishaps' \in 0 .. MaxMishaps
  BY MishapIsBounded DEF WatchInv, AgeCursor
<1> HIDE DEF r
<1>8. Follows(c, r, changeStream)
  BY <1>2, <1>3, <1>5 DEF Follows, CursorIsSound, Complete
<1>9. ConsumerIsSound(c, r, changeStream, indexed, opMu', CaughtUpAll)
  BY <1>5, <1>8, OneFollows
<1>10. QED
  BY <1>4, <1>6, <1>7, <1>9, OneMoves

(***************************************************************************)
(* Answers.                                                                *)
(***************************************************************************)

(* Who has observed holds the mutex, and gives it back.                    *)
LEMMA ObserverHolds ==
  ASSUME WatchInv, NEW c \in Consumers, At(c, "observed")
  PROVE  opMu = c
  BY DEF WatchInv, ConsumerIsSound, HasObserved, At

(* A query's answer is everything observed, its cursor the stream's end.   *)
LEMMA QueryKeeps ==
  ASSUME WatchInv, NEW c \in Consumers, QueryAnswer(c)
  PROVE  WatchInv'
<1> DEFINE held == UNION {EventsOf(s, indexed[s]) : s \in consumer[c].states \cap Selects[c]}
           cursor == IF Denied THEN NoCursor ELSE Cursor(changeStream.next)
           r == [AtEase(c) EXCEPT !.held = held, !.cursor = cursor]
<1>1. /\ UNCHANGED <<transcript, indexed, changeStream, mishaps>>
      /\ opMu = c /\ opMu' = Free
  BY ObserverHolds DEF QueryAnswer, Release
<1>2. CASE consumer[c].done
  BY <1>1, <1>2, LeaveKeeps DEF QueryAnswer, Leave
<1>3. CASE ~consumer[c].done
  <2>1. Move(c, r)
    BY <1>3 DEF QueryAnswer
  <2>2. AtEase(c) \in ConsumerTypes /\ AtEase(c).pc = "idle" /\ AtEase(c).at = NoCursor
    BY Eased
  <2>3. WindowIsSound(changeStream) /\ indexed \in [Sources -> SourceStates]
        /\ consumer[c] \in ConsumerTypes /\ changeStream.next \in Nat
    BY DEF WatchInv, Surroundings, IndexIsSound, WindowIsSound, StreamTypes
  <2>4. Selects[c] \in SUBSET Sources /\ consumer[c].states \in SUBSET Sources
    BY <2>3, WatchConstants DEF WatchConstants, ConsumerTypes
  <2>5. held \in SUBSET (Sources \X Nat \X Nat)
    <3>1. \A s \in Sources : EventsOf(s, indexed[s]) \in SUBSET (Sources \X Nat \X Nat)
      BY <2>3 DEF EventsOf, Event, SourceStates
    <3>2. QED
      BY <2>4, <3>1
  <2>6. cursor \in Cursors
    BY <2>3, NoCursorIsDead DEF Cursor, Cursors
  <2>7. r \in ConsumerTypes /\ r.pc = "idle" /\ r.at = NoCursor /\ r.held = held /\ r.cursor = cursor
    <3> HIDE DEF held, cursor
    <3>1. QED
      BY <2>2, <2>5, <2>6 DEF ConsumerTypes
  <2>8. CursorIsSound(cursor, changeStream) /\ Complete(c, held, cursor, changeStream)
    <3>1. CASE Denied
      BY <3>1, NoCursorIsDead
    <3>2. CASE ~Denied
      <4>1. /\ changeStream.ready
            /\ \A s \in Sources : changeStream.sources[s]
                 = IF s \in consumer[c].states THEN indexed[s] ELSE Unwatched
        BY <3>2 DEF WatchInv, ConsumerIsSound, HasObserved, QueryAnswer, At, Denied, Shut
      <4>2. cursor = [live |-> TRUE, seq |-> changeStream.next]
        BY <3>2 DEF Cursor
      <4>3. CursorIsSound(cursor, changeStream)
        BY <2>3, <2>6, <4>1, <4>2 DEF CursorIsSound
      <4>4. Brings(c, cursor.seq, changeStream) = {}
        <5>1. \A e \in changeStream.entries : e.seq \in Nat /\ e.seq <= changeStream.next
          BY <2>3 DEF WindowIsSound, StreamTypes, Changes
        <5>2. \A e \in changeStream.entries : ~ (e.seq > cursor.seq)
          BY <2>3, <4>2, <5>1
        <5>3. QED
          BY <5>2 DEF Brings
      <4>5. EventsOf("any", Unwatched) = {} /\ \A s : EventsOf(s, Unwatched) = {}
        BY DEF EventsOf, Unwatched
      <4>6. \A s \in Selects[c] : EventsOf(s, changeStream.sources[s])
              = IF s \in consumer[c].states THEN EventsOf(s, indexed[s]) ELSE {}
        BY <2>4, <4>1, <4>5
      <4>7. Seen(c, changeStream) = held
        <5> HIDE DEF cursor, r
        <5>1. QED
          BY <4>6 DEF Seen
      <4>8. QED
        BY <4>3, <4>4, <4>7 DEF Complete
    <3>3. QED
      BY <3>1, <3>2
  <2> HIDE DEF held, cursor, r
  <2>9. Follows(c, r, changeStream)
    BY <2>7, <2>8, NoCursorIsDead DEF Follows
  <2>10. ConsumerIsSound(c, r, changeStream, indexed, opMu', CaughtUpAll)
    BY <2>7, <2>9, OneFollows
  <2>11. mishaps' \in 0 .. MaxMishaps
    BY <1>1, MishapIsBounded DEF WatchInv
  <2>12. QED
    BY <1>1, <2>1, <2>7, <2>10, <2>11, OneMoves
<1>4. QED
  BY <1>2, <1>3

(* A request that gives up, or is told that the stream is closed or denied. *)
LEMMA RejectedKeeps ==
  ASSUME WatchInv, NEW c \in Consumers, GiveUpLock(c) \/ FindClosed(c) \/ WatchRejected(c)
  PROVE  WatchInv'
<1>1. Leave(c) /\ UNCHANGED <<transcript, indexed, changeStream, mishaps>>
  BY DEF GiveUpLock, FindClosed, WatchRejected
<1>2. opMu' = opMu \/ (opMu = c /\ opMu' = Free)
  BY ObserverHolds DEF GiveUpLock, FindClosed, WatchRejected, Release
<1>3. QED
  BY <1>1, <1>2, LeaveKeeps

(* A consumer told to reset holds nothing, and has no cursor to claim more. *)
LEMMA ResetKeeps ==
  ASSUME WatchInv, NEW c \in Consumers, WatchReset(c)
  PROVE  WatchInv'
<1> DEFINE r == [AtEase(c) EXCEPT !.held = {}, !.cursor = NoCursor]
<1>1. AtEase(c) \in ConsumerTypes /\ AtEase(c).pc = "idle" /\ AtEase(c).at = NoCursor
  BY Eased
<1>2. r \in ConsumerTypes /\ r.pc = "idle" /\ r.at = NoCursor /\ r.held = {} /\ r.cursor = NoCursor
  BY <1>1, NoCursorIsDead DEF ConsumerTypes
<1>3. /\ Move(c, r) /\ UNCHANGED <<transcript, indexed, changeStream>>
      /\ opMu = c /\ opMu' = Free /\ (Mishap \/ UNCHANGED mishaps)
  BY ObserverHolds DEF WatchReset, Asks, Release
<1>4. mishaps' \in 0 .. MaxMishaps
  BY <1>3, MishapIsBounded DEF WatchInv
<1> HIDE DEF r
<1>5. Follows(c, r, changeStream)
  BY <1>2, NoCursorIsDead DEF Follows
<1>6. ConsumerIsSound(c, r, changeStream, indexed, opMu', CaughtUpAll)
  BY <1>2, <1>5, OneFollows
<1>7. QED
  BY <1>2, <1>3, <1>4, <1>6, OneMoves

(* A page is answered, or looked for again, or waited for.                 *)
LEMMA AnswerKeeps ==
  ASSUME WatchInv, NEW c \in Consumers, WatchAnswer(c)
  PROVE  WatchInv'
<1> DEFINE q == consumer[c]
           page == PageOf(c, q.at.seq)
           cursor == Cursor(page.seq)
           news == {e.event : e \in page.changes}
           held == q.held \cup news
           r1 == [AtEase(c) EXCEPT !.cursor = cursor, !.held = @ \cup news]
           r2 == [q EXCEPT !.pc = "start", !.at = cursor, !.states = {}]
           r3 == [AtEase(c) EXCEPT !.cursor = cursor]
           r4 == [q EXCEPT !.pc = "wait", !.at = cursor, !.states = {}]
<1>1. /\ UNCHANGED <<transcript, indexed, changeStream, mishaps>>
      /\ opMu = c /\ opMu' = Free /\ mishaps' \in 0 .. MaxMishaps
  BY ObserverHolds, MishapIsBounded DEF WatchAnswer, Asks, Release, WatchInv
<1>2. /\ q \in ConsumerTypes /\ WindowIsSound(changeStream) /\ q.held \in SUBSET (Sources \X Nat \X Nat)
      /\ q.pc = "observed" /\ ~MustReset(q.at) /\ ~Denied
      /\ ConsumerIsSound(c, q, changeStream, indexed, opMu, CaughtUpAll)
  BY DEF WatchInv, Surroundings, ConsumerTypes, WatchAnswer, Asks, At
<1>3. /\ CursorIsSound(q.at, changeStream) /\ Complete(c, q.held, q.at, changeStream)
      /\ CursorIsSound(q.cursor, changeStream) /\ Complete(c, q.held, q.cursor, changeStream)
      /\ ~q.hinted /\ changeStream.gaps = {} => CaughtUpAll
      /\ ~changeStream.closed
  BY <1>2 DEF ConsumerIsSound, Follows, HasObserved, Denied
<1>4. /\ CursorIsSound(cursor, changeStream) /\ cursor.live
      /\ Complete(c, held, cursor, changeStream)
      /\ page.changes \in SUBSET Changes
      /\ page.changes = {} => Brings(c, page.seq, changeStream) = {}
  <2> HIDE DEF q
  <2>1. QED
    BY <1>2, <1>3, PageIsComplete
<1>5. cursor \in Cursors /\ cursor.seq = page.seq /\ held \in SUBSET (Sources \X Nat \X Nat)
  <2>1. news \in SUBSET (Sources \X Nat \X Nat)
    BY <1>4 DEF Changes
  <2>2. cursor.seq = page.seq /\ cursor \in Cursors
    BY <1>4 DEF Cursor, CursorIsSound
  <2> HIDE DEF news, cursor, q, page
  <2>3. QED
    BY <1>2, <2>1, <2>2
<1>6. AtEase(c) \in ConsumerTypes /\ AtEase(c).pc = "idle" /\ AtEase(c).at = NoCursor
      /\ AtEase(c).held = q.held
  BY Eased
<1>7. ASSUME page.changes # {}, Move(c, r1)
      PROVE  WatchInv'
  <2>1. r1 = [AtEase(c) EXCEPT !.cursor = cursor, !.held = held]
    BY <1>6 DEF ConsumerTypes
  <2> HIDE DEF r1, cursor, held
  <2>2. r1 \in ConsumerTypes /\ r1.pc = "idle" /\ r1.at = NoCursor /\ r1.cursor = cursor
        /\ r1.held = held
    BY <1>5, <1>6, <2>1 DEF ConsumerTypes
  <2>3. Follows(c, r1, changeStream)
    BY <1>4, <2>2, NoCursorIsDead DEF Follows
  <2>4. ConsumerIsSound(c, r1, changeStream, indexed, opMu', CaughtUpAll)
    BY <2>2, <2>3, OneFollows
  <2>5. QED
    BY <1>1, <1>7, <2>2, <2>4, OneMoves
<1>8. ASSUME page.changes = {}
      PROVE  held = q.held
  BY <1>8
<1>9. ASSUME page.changes = {}, Move(c, r2)
      PROVE  WatchInv'
  <2>1. held = q.held
    BY <1>8, <1>9
  <2> HIDE DEF cursor, q, held
  <2>2. r2 \in ConsumerTypes /\ r2.pc = "start" /\ r2.at = cursor /\ r2.cursor = q.cursor
        /\ r2.held = q.held
    BY <1>2, <1>5 DEF ConsumerTypes
  <2> HIDE DEF r2
  <2>3. Follows(c, r2, changeStream)
    BY <1>3, <1>4, <2>1, <2>2 DEF Follows
  <2>4. ConsumerIsSound(c, r2, changeStream, indexed, opMu', CaughtUpAll)
    BY <2>2, <2>3, OneFollows
  <2>5. QED
    BY <1>1, <1>9, <2>2, <2>4, OneMoves
<1>10. ASSUME page.changes = {}, Move(c, r3)
       PROVE  WatchInv'
  <2>1. held = q.held
    BY <1>8, <1>10
  <2> HIDE DEF cursor, q, held
  <2>2. r3 \in ConsumerTypes /\ r3.pc = "idle" /\ r3.at = NoCursor /\ r3.cursor = cursor
        /\ r3.held = q.held
    BY <1>5, <1>6 DEF ConsumerTypes
  <2> HIDE DEF r3
  <2>3. Follows(c, r3, changeStream)
    BY <1>4, <2>1, <2>2, NoCursorIsDead DEF Follows
  <2>4. ConsumerIsSound(c, r3, changeStream, indexed, opMu', CaughtUpAll)
    BY <2>2, <2>3, OneFollows
  <2>5. QED
    BY <1>1, <1>10, <2>2, <2>4, OneMoves
<1>11. ASSUME page.changes = {}, ~q.hinted, Move(c, r4)
       PROVE  WatchInv'
  <2>1. held = q.held /\ Brings(c, cursor.seq, changeStream) = {}
    BY <1>4, <1>5, <1>8, <1>11
  <2> HIDE DEF cursor, q, held
  <2>2. r4 \in ConsumerTypes /\ r4.pc = "wait" /\ r4.at = cursor /\ r4.cursor = q.cursor
        /\ r4.held = q.held
    BY <1>2, <1>5 DEF ConsumerTypes
  <2> HIDE DEF r4
  <2>3. Follows(c, r4, changeStream)
    BY <1>3, <1>4, <2>1, <2>2 DEF Follows
  <2>4. changeStream.gaps = {} => CaughtUpAll
    BY <1>3, <1>11
  <2>5. ConsumerIsSound(c, r4, changeStream, indexed, opMu', CaughtUpAll)
    BY <1>3, <1>4, <2>1, <2>2, <2>3, <2>4 DEF ConsumerIsSound, HasObserved, Sleeps
  <2>6. QED
    BY <1>1, <1>11, <2>2, <2>5, OneMoves
<1>12. Move(c, IF page.changes # {} THEN r1 ELSE IF q.hinted THEN r2 ELSE IF q.late THEN r3 ELSE r4)
  BY DEF WatchAnswer
<1> HIDE DEF r1, r2, r3, r4, q, page
<1>13. QED
  BY <1>7, <1>9, <1>10, <1>11, <1>12

(***************************************************************************)
(* Hints.                                                                  *)
(***************************************************************************)

(* A hint reaches whoever looks and wakes whoever sleeps.                  *)
LEMMA HintKeeps ==
  ASSUME WatchInv, NotifyEvidence, opMu' = opMu, Mishap \/ UNCHANGED mishaps,
         IndexIsSound', indexed' = indexed \/ opMu = Free
  PROVE  WatchInv'
<1> DEFINE hint(r) == [r EXCEPT !.hinted = TRUE]
           wake(r) == [r EXCEPT !.woken = TRUE]
           after(c) == IF consumer[c].pc \in {"lock", "observed"} THEN hint(consumer[c])
                       ELSE IF consumer[c].pc = "wait" THEN wake(consumer[c]) ELSE consumer[c]
<1>1. consumer' = [c \in Consumers |-> after(c)] /\ changeStream' = changeStream
  BY DEF NotifyEvidence, Woken
<1>2. \A c \in Consumers : consumer[c] \in ConsumerTypes
  BY DEF WatchInv, Surroundings
<1>3. \A r \in ConsumerTypes :
        /\ hint(r) \in ConsumerTypes /\ hint(r).pc = r.pc /\ hint(r).held = r.held
        /\ hint(r).cursor = r.cursor /\ hint(r).at = r.at /\ hint(r).states = r.states
        /\ hint(r).hinted = TRUE
  BY DEF ConsumerTypes
<1>4. \A r \in ConsumerTypes :
        /\ wake(r) \in ConsumerTypes /\ wake(r).pc = r.pc /\ wake(r).held = r.held
        /\ wake(r).cursor = r.cursor /\ wake(r).at = r.at /\ wake(r).woken = TRUE
  BY DEF ConsumerTypes
<1> HIDE DEF hint, wake
<1>5. \A c \in Consumers :
        /\ after(c) \in ConsumerTypes /\ after(c).pc = consumer[c].pc
        /\ after(c).held = consumer[c].held /\ after(c).cursor = consumer[c].cursor
        /\ after(c).at = consumer[c].at
        /\ consumer[c].pc = "observed" => after(c).hinted /\ after(c).states = consumer[c].states
        /\ consumer[c].pc = "wait" => after(c).woken
  BY <1>2, <1>3, <1>4
<1> HIDE DEF after
<1>6. consumer' \in [Consumers -> ConsumerTypes]
  BY <1>1, <1>5
<1>7. mishaps' \in 0 .. MaxMishaps
  BY MishapIsBounded DEF WatchInv
<1>8. Surroundings'
  BY <1>1, <1>6, <1>7, Zenon DEF WatchInv, Surroundings, WindowIsSound
<1>9. ASSUME NEW c \in Consumers
      PROVE  ConsumerIsSound(c, after(c), changeStream, indexed', opMu, CaughtUpAll')
  <2>1. ConsumerIsSound(c, consumer[c], changeStream, indexed, opMu, CaughtUpAll)
    BY DEF WatchInv
  <2>2. Follows(c, after(c), changeStream)
    BY <1>5, <2>1 DEF ConsumerIsSound, Follows
  <2>3. Sleeps(c, after(c), changeStream, CaughtUpAll')
    BY <1>5 DEF Sleeps
  <2>4. HasObserved(c, after(c), changeStream, indexed', opMu, CaughtUpAll')
    <3>1. CASE indexed' = indexed
      BY <1>5, <2>1, <3>1 DEF ConsumerIsSound, HasObserved
    <3>2. CASE opMu = Free
      BY <1>5, <2>1, <3>2, WatchConstants DEF ConsumerIsSound, HasObserved, WatchConstants
    <3>3. QED
      BY <3>1, <3>2
  <2>5. QED
    BY <2>2, <2>3, <2>4 DEF ConsumerIsSound
<1>10. \A c \in Consumers :
         ConsumerIsSound(c, consumer'[c], changeStream', indexed', opMu', CaughtUpAll')
  BY <1>1, <1>9
<1>11. QED
  BY <1>8, <1>10 DEF WatchInv

(* Files change and sources are indexed only with a hint.                  *)
LEMMA FilesKeep ==
  ASSUME WatchInv, NEW s \in Sources, WriteEvent(s) \/ ReplaceTranscript(s) \/ PrepareSource(s)
  PROVE  WatchInv'
<1>1. transcript \in [Sources -> Transcripts] /\ indexed \in [Sources -> SourceStates]
      /\ \A t \in Sources : /\ indexed[t].gen <= transcript[t].gen
                            /\ indexed[t].gen = transcript[t].gen
                                 => indexed[t].count <= transcript[t].count
  BY DEF WatchInv, Surroundings, IndexIsSound
<1>2. \A t \in Sources : /\ transcript[t].gen \in Nat /\ transcript[t].count \in 0 .. MaxEvents
                         /\ transcript[t].there \in BOOLEAN /\ transcript[t].torn \in BOOLEAN
                         /\ indexed[t].gen \in Nat /\ indexed[t].count \in 0 .. MaxEvents
  BY <1>1 DEF Transcripts, SourceStates
<1>3. MaxEvents \in Nat
  BY WatchConstants DEF WatchConstants
<1>4. ASSUME WriteEvent(s)
      PROVE  WatchInv'
  <2>1. PICK torn \in BOOLEAN :
          transcript' = [transcript EXCEPT ![s].count = @ + 1, ![s].torn = torn]
    BY <1>4 DEF WriteEvent
  <2> DEFINE n == transcript[s].count + 1
             file == transcript[s]
             t2 == [file EXCEPT !.count = n, !.torn = torn]
  <2>2. n \in 0 .. MaxEvents /\ transcript[s].count <= n
    BY <1>2, <1>3, <1>4 DEF WriteEvent
  <2>3. transcript' = [transcript EXCEPT ![s] = t2]
    BY <1>1, <2>1 DEF Transcripts
  <2>4. t2 \in Transcripts /\ t2.gen = transcript[s].gen /\ t2.count = n
    <3>1. file \in Transcripts
      BY <1>1
    <3> HIDE DEF n, file
    <3>2. t2 \in Transcripts /\ t2.gen = file.gen /\ t2.count = n
      BY <2>2, <3>1 DEF Transcripts
    <3>3. QED
      BY <3>2 DEF file
  <2> HIDE DEF t2, n
  <2>5. transcript' \in [Sources -> Transcripts] /\ transcript'[s] = t2
        /\ \A t \in Sources : t # s => transcript'[t] = transcript[t]
    BY <1>1, <2>3, <2>4
  <2>6. indexed' = indexed /\ NotifyEvidence /\ opMu' = opMu /\ UNCHANGED mishaps
    BY <1>4 DEF WriteEvent
  <2>7. ASSUME NEW t \in Sources
        PROVE  /\ indexed[t].gen <= transcript'[t].gen
               /\ indexed[t].gen = transcript'[t].gen => indexed[t].count <= transcript'[t].count
    <3>1. CASE t = s
      BY <1>1, <1>2, <2>2, <2>4, <2>5, <3>1
    <3>2. CASE t # s
      BY <1>1, <2>5, <3>2
    <3>3. QED
      BY <3>1, <3>2
  <2>8. IndexIsSound'
    BY <1>1, <2>5, <2>6, <2>7 DEF IndexIsSound
  <2>9. QED
    BY <2>6, <2>8, HintKeeps
<1>5. ASSUME ReplaceTranscript(s)
      PROVE  WatchInv'
  <2>1. PICK there \in BOOLEAN :
          transcript' = [transcript EXCEPT ![s] =
                           [there |-> there, gen |-> @.gen + 1, count |-> 0, torn |-> FALSE]]
    BY <1>5 DEF ReplaceTranscript
  <2> DEFINE t2 == [there |-> there, gen |-> transcript[s].gen + 1, count |-> 0, torn |-> FALSE]
  <2>2. t2 \in Transcripts /\ t2.gen = transcript[s].gen + 1
    BY <1>2, <1>3 DEF Transcripts
  <2>3. transcript' = [transcript EXCEPT ![s] = t2]
    BY <2>1
  <2> HIDE DEF t2
  <2>4. transcript' \in [Sources -> Transcripts] /\ transcript'[s] = t2
        /\ \A t \in Sources : t # s => transcript'[t] = transcript[t]
    BY <1>1, <2>2, <2>3
  <2>5. indexed' = indexed /\ NotifyEvidence /\ opMu' = opMu /\ Mishap
    BY <1>5 DEF ReplaceTranscript
  <2>6. ASSUME NEW t \in Sources
        PROVE  /\ indexed[t].gen <= transcript'[t].gen
               /\ indexed[t].gen = transcript'[t].gen => indexed[t].count <= transcript'[t].count
    <3>1. CASE t = s
      BY <1>1, <1>2, <2>2, <2>4, <3>1
    <3>2. CASE t # s
      BY <1>1, <2>4, <3>2
    <3>3. QED
      BY <3>1, <3>2
  <2>7. IndexIsSound'
    BY <1>1, <2>4, <2>5, <2>6 DEF IndexIsSound
  <2>8. QED
    BY <2>5, <2>7, HintKeeps
<1>6. ASSUME PrepareSource(s)
      PROVE  WatchInv'
  <2>1. /\ indexed' = [indexed EXCEPT ![s] = CaughtUp(s)]
        /\ NotifyEvidence /\ opMu' = opMu /\ UNCHANGED mishaps /\ opMu = Free /\ transcript' = transcript
    BY <1>6 DEF PrepareSource
  <2>2. CaughtUp(s) \in SourceStates /\ CaughtUp(s).gen = transcript[s].gen
        /\ CaughtUp(s).count = transcript[s].count
    BY <1>2 DEF CaughtUp, SourceStates
  <2>3. indexed' \in [Sources -> SourceStates] /\ indexed'[s] = CaughtUp(s)
        /\ \A t \in Sources : t # s => indexed'[t] = indexed[t]
    BY <1>1, <2>1, <2>2
  <2>4. ASSUME NEW t \in Sources
        PROVE  /\ indexed'[t].gen <= transcript[t].gen
               /\ indexed'[t].gen = transcript[t].gen => indexed'[t].count <= transcript[t].count
    <3>1. CASE t = s
      BY <1>2, <2>2, <2>3, <3>1
    <3>2. CASE t # s
      BY <1>1, <2>3, <3>2
    <3>3. QED
      BY <3>1, <3>2
  <2>5. IndexIsSound'
    BY <1>1, <2>1, <2>3, <2>4 DEF IndexIsSound
  <2>6. QED
    BY <2>1, <2>5, HintKeeps
<1>7. QED
  BY <1>4, <1>5, <1>6

(* Access is granted and revoked beside the stream.                        *)
LEMMA EnabledKeeps ==
  ASSUME WatchInv, NEW on \in BOOLEAN, SetEnabled(on)
  PROVE  WatchInv'
<1>1. UNCHANGED <<transcript, indexed, changeStream, opMu, consumer>>
      /\ (Mishap \/ UNCHANGED mishaps)
  BY DEF SetEnabled
<1>2. mishaps' \in 0 .. MaxMishaps
  BY <1>1, MishapIsBounded DEF WatchInv
<1>3. Surroundings'
  BY <1>1, <1>2, Zenon DEF WatchInv, Surroundings, IndexIsSound, WindowIsSound
<1>4. CaughtUpAll' = CaughtUpAll
  BY <1>1 DEF CaughtUpAll, CaughtUp
<1>5. QED
  BY <1>1, <1>3, <1>4 DEF WatchInv

(***************************************************************************)
(* What a request leaves of the stream.                                    *)
(***************************************************************************)

(* The cursors of the stream v go on in the stream w.                      *)
GoesOn(v, w) ==
  \A c \in Consumers, cursor \in Cursors, held \in SUBSET (Sources \X Nat \X Nat) :
    CursorIsSound(cursor, v) /\ Complete(c, held, cursor, v)
      => CursorIsSound(cursor, w) /\ Complete(c, held, cursor, w)

(* A stream w that may follow v: it is new, or goes on; and whoever sleeps *)
(* is woken or has nothing new to see.                                     *)
MayFollow(v, w) ==
  /\ WindowIsSound(w)
  /\ w.rotated \/ GoesOn(v, w)
  /\ w.rotated \/ w.next # v.next \/ w.entries = v.entries
  /\ w.rotated \/ (w.closed => v.closed)

(* The flag of a rotation is read when the stream is published.            *)
LEMMA FlagIsNoState ==
  ASSUME NEW w, WindowIsSound(w)
  PROVE  LET v == [w EXCEPT !.rotated = FALSE] IN
         /\ v.next = w.next /\ v.entries = w.entries /\ v.sources = w.sources
         /\ v.ready = w.ready /\ v.closed = w.closed /\ v.gaps = w.gaps /\ v.rotated = FALSE
         /\ WindowIsSound(v)
<1> DEFINE v == [w EXCEPT !.rotated = FALSE]
<1>1. w \in StreamTypes
  BY DEF WindowIsSound
<1>2. /\ v.next = w.next /\ v.entries = w.entries /\ v.sources = w.sources
      /\ v.ready = w.ready /\ v.closed = w.closed /\ v.gaps = w.gaps /\ v.rotated = FALSE
      /\ v \in StreamTypes
  BY <1>1 DEF StreamTypes
<1> HIDE DEF v
<1>3. WindowIsSound(v)
  BY <1>2 DEF WindowIsSound
<1>4. QED
  BY <1>2, <1>3 DEF v

(* A new epoch leaves no live cursor.                                      *)
LEMMA OutdatedIsDead ==
  ASSUME NEW r \in ConsumerTypes
  PROVE  /\ Outdated(r) \in ConsumerTypes /\ ~Outdated(r).cursor.live /\ ~Outdated(r).at.live
         /\ Outdated(r).cursor \in Cursors /\ Outdated(r).at \in Cursors
         /\ Outdated(r).pc = r.pc /\ Outdated(r).states = r.states
         /\ Outdated(r).hinted = r.hinted /\ Outdated(r).woken = r.woken
<1> DEFINE cur == [r.cursor EXCEPT !.live = FALSE]
           at == [r.at EXCEPT !.live = FALSE]
<1>1. r.cursor \in Cursors /\ r.at \in Cursors
  BY DEF ConsumerTypes
<1>2. cur \in Cursors /\ ~cur.live /\ at \in Cursors /\ ~at.live
  BY <1>1 DEF Cursors
<1>3. Outdated(r) = [r EXCEPT !.cursor = cur, !.at = at]
  BY DEF Outdated, ConsumerTypes
<1> HIDE DEF cur, at
<1>4. QED
  BY <1>2, <1>3 DEF ConsumerTypes

(* A request that holds the mutex publishes a stream that may follow.      *)
LEMMA PublishKeeps ==
  ASSUME WatchInv, NEW w, MayFollow(changeStream, w), NEW all \in [Consumers -> ConsumerTypes],
         Publish(w, all), opMu = Free, opMu' \in Consumers \cup {Free},
         mishaps' \in 0 .. MaxMishaps, IndexIsSound',
         w.rotated \/ (w.gaps = {} /\ ~w.closed => CaughtUpAll'),
         \A c \in Consumers : /\ all[c].held = consumer[c].held
                              /\ all[c].cursor = consumer[c].cursor /\ all[c].at = consumer[c].at
                              /\ all[c].pc = "wait" => all[c] = consumer[c]
                              /\ HasObserved(c, all[c], w, indexed', opMu', CaughtUpAll')
  PROVE  WatchInv'
<1> DEFINE seen(c) == IF w.rotated THEN Outdated(all[c]) ELSE all[c]
           wakes == w.rotated \/ w.next # changeStream.next
           wake(r) == [r EXCEPT !.woken = TRUE]
           after(c) == IF wakes /\ seen(c).pc = "wait" THEN wake(seen(c)) ELSE seen(c)
<1>1. WindowIsSound(w)
  BY DEF MayFollow
<1>2. /\ changeStream'.next = w.next /\ changeStream'.entries = w.entries
      /\ changeStream'.sources = w.sources /\ changeStream'.ready = w.ready
      /\ changeStream'.closed = w.closed /\ changeStream'.gaps = w.gaps
      /\ changeStream'.rotated = FALSE /\ WindowIsSound(changeStream')
  <2>1. changeStream' = [w EXCEPT !.rotated = FALSE]
    BY DEF Publish
  <2>2. QED
    <3> DEFINE v == [w EXCEPT !.rotated = FALSE]
    <3>1. /\ v.next = w.next /\ v.entries = w.entries /\ v.sources = w.sources
          /\ v.ready = w.ready /\ v.closed = w.closed /\ v.gaps = w.gaps /\ v.rotated = FALSE
          /\ WindowIsSound(v)
      BY <1>1, FlagIsNoState
    <3>2. changeStream' = v
      BY <2>1
    <3> HIDE DEF v
    <3>3. QED
      BY <3>1, <3>2
<1>3. ASSUME NEW c \in Consumers
      PROVE  /\ seen(c) \in ConsumerTypes /\ seen(c).pc = all[c].pc
             /\ seen(c).states = all[c].states /\ seen(c).hinted = all[c].hinted
             /\ seen(c).woken = all[c].woken
             /\ w.rotated => /\ ~seen(c).cursor.live /\ ~seen(c).at.live
                             /\ seen(c).cursor \in Cursors /\ seen(c).at \in Cursors
             /\ ~w.rotated => seen(c) = all[c]
  BY OutdatedIsDead
<1>4. \A r \in ConsumerTypes :
        /\ wake(r) \in ConsumerTypes /\ wake(r).pc = r.pc /\ wake(r).held = r.held
        /\ wake(r).cursor = r.cursor /\ wake(r).at = r.at /\ wake(r).woken = TRUE
        /\ wake(r).states = r.states /\ wake(r).hinted = r.hinted
  BY DEF ConsumerTypes
<1>5. consumer' = [c \in Consumers |-> after(c)]
  <2> DEFINE shown == IF w.rotated THEN [c \in Consumers |-> Outdated(all[c])] ELSE all
  <2>1. consumer' = IF wakes THEN Woken(shown) ELSE shown
    BY DEF Publish
  <2>2. shown = [c \in Consumers |-> seen(c)]
    <3>1. CASE w.rotated
      BY <3>1
    <3>2. CASE ~w.rotated
      BY <3>2
    <3>3. QED
      BY <3>1, <3>2
  <2> HIDE DEF shown, seen, wake, wakes
  <2>3. Woken(shown) = [c \in Consumers |-> IF seen(c).pc = "wait" THEN wake(seen(c)) ELSE seen(c)]
    BY <2>2 DEF Woken, wake
  <2>4. CASE wakes
    BY <2>1, <2>3, <2>4
  <2>5. CASE ~wakes
    BY <2>1, <2>2, <2>5
  <2>6. QED
    BY <2>4, <2>5
<1> HIDE DEF seen, wake
<1>6. ASSUME NEW c \in Consumers
      PROVE  /\ after(c) \in ConsumerTypes /\ after(c).pc = all[c].pc
             /\ after(c).held = seen(c).held /\ after(c).cursor = seen(c).cursor
             /\ after(c).at = seen(c).at /\ after(c).states = all[c].states
             /\ after(c).hinted = all[c].hinted
             /\ wakes /\ all[c].pc = "wait" => after(c).woken
             /\ ~wakes => after(c).woken = all[c].woken
  <2> HIDE DEF wakes
  <2>1. QED
    BY <1>3, <1>4
<1> HIDE DEF after
<1>7. Surroundings'
  <2>1. consumer' \in [Consumers -> ConsumerTypes]
    BY <1>5, <1>6
  <2>2. QED
    BY <1>2, <2>1, Zenon DEF Surroundings
<1>8. ASSUME NEW c \in Consumers
      PROVE  ConsumerIsSound(c, after(c), changeStream', indexed', opMu', CaughtUpAll')
  <2>1. ConsumerIsSound(c, consumer[c], changeStream, indexed, opMu, CaughtUpAll)
        /\ consumer[c] \in ConsumerTypes
    BY DEF WatchInv, Surroundings
  <2>2. Follows(c, after(c), changeStream')
    <3>1. CASE w.rotated
      BY <1>3, <1>6, <3>1 DEF Follows, CursorIsSound, Complete
    <3>2. CASE ~w.rotated
      <4>1. /\ after(c).held = consumer[c].held /\ after(c).cursor = consumer[c].cursor
            /\ after(c).at = consumer[c].at
        BY <1>3, <1>6, <3>2
      <4>2. /\ consumer[c].held \in SUBSET (Sources \X Nat \X Nat)
            /\ consumer[c].cursor \in Cursors /\ consumer[c].at \in Cursors
        BY <2>1 DEF ConsumerTypes
      <4>3. Follows(c, consumer[c], w)
        BY <2>1, <3>2, <4>2 DEF ConsumerIsSound, Follows, MayFollow, GoesOn
      <4>4. Follows(c, after(c), w)
        BY <4>1, <4>3 DEF Follows
      <4>5. /\ \A cursor : CursorIsSound(cursor, changeStream') <=> CursorIsSound(cursor, w)
            /\ \A seq : Lost(seq, changeStream') <=> Lost(seq, w)
            /\ \A seq : Brings(c, seq, changeStream') = Brings(c, seq, w)
            /\ Seen(c, changeStream') = Seen(c, w)
        BY <1>2 DEF CursorIsSound, Lost, Brings, Seen
      <4>6. \A held, cursor : Complete(c, held, cursor, changeStream') <=> Complete(c, held, cursor, w)
        BY <4>5 DEF Complete
      <4>7. QED
        BY <4>4, <4>5, <4>6 DEF Follows
    <3>3. QED
      BY <3>1, <3>2
  <2>3. HasObserved(c, after(c), changeStream', indexed', opMu', CaughtUpAll')
    BY <1>2, <1>6 DEF HasObserved, Shut
  <2>4. Sleeps(c, after(c), changeStream', CaughtUpAll')
    <3> SUFFICES ASSUME after(c).pc = "wait", ~after(c).woken
                 PROVE  /\ changeStream'.gaps = {} => CaughtUpAll'
                        /\ after(c).at.live
                        /\ Brings(c, after(c).at.seq, changeStream') = {} /\ ~changeStream'.closed
      BY DEF Sleeps
    <3>1. ~wakes /\ all[c] = consumer[c] /\ ~w.rotated /\ w.next = changeStream.next
      BY <1>6
    <3>2. w.entries = changeStream.entries /\ (w.closed => changeStream.closed)
      BY <3>1 DEF MayFollow
    <3>3. after(c).at = consumer[c].at /\ consumer[c].pc = "wait" /\ ~consumer[c].woken
      BY <1>3, <1>6, <3>1
    <3>4. consumer[c].at.live /\ Brings(c, consumer[c].at.seq, changeStream) = {} /\ ~changeStream.closed
      BY <2>1, <3>3 DEF ConsumerIsSound, Sleeps
    <3>5. Brings(c, after(c).at.seq, changeStream') = Brings(c, consumer[c].at.seq, changeStream)
      BY <1>2, <3>2, <3>3 DEF Brings
    <3>6. ~changeStream'.closed /\ ~w.closed
      BY <1>2, <3>2, <3>4
    <3>7. changeStream'.gaps = {} => CaughtUpAll'
      BY <1>2, <3>1, <3>6
    <3>8. QED
      BY <3>3, <3>4, <3>5, <3>6, <3>7
  <2>5. QED
    BY <2>2, <2>3, <2>4 DEF ConsumerIsSound
<1>9. QED
  BY <1>5, <1>7, <1>8 DEF WatchInv

(***************************************************************************)
(* Collecting, resetting, closing.                                         *)
(***************************************************************************)

(* A rotation empties the window and keeps the rest.                       *)
LEMMA RotatedIsSound ==
  ASSUME NEW w, WindowIsSound(w)
  PROVE  /\ Rotated(w) \in StreamTypes /\ Rotated(w).rotated = TRUE /\ Rotated(w).entries = {}
         /\ Rotated(w).next = 0 /\ Rotated(w).closed = w.closed /\ Rotated(w).ready = w.ready
         /\ Rotated(w).gaps = w.gaps /\ Rotated(w).sources = w.sources
  BY DEF Rotated, WindowIsSound, StreamTypes

(* With no live cursor there is nothing to go on with.                     *)
LEMMA NobodyFollows ==
  ASSUME NEW v, ~v.ready, NEW w
  PROVE  GoesOn(v, w)
  BY DEF GoesOn, CursorIsSound, Complete

(* What an observation leaves may follow, and is what was collected.       *)
LEMMA ObservedIsSound ==
  ASSUME NEW w, WindowIsSound(w), ~w.rotated, NEW now \in [Sources -> SourceStates],
         NEW gaps \in SUBSET GapNames, NEW broken,
         NEW w2, w2 = Observed(w, now, gaps, broken)
  PROVE  /\ MayFollow(w, w2)
         /\ w.closed => w2 = w
         /\ ~w.closed => /\ ~w2.closed
                         /\ Shut(w2) \/ (w2.ready /\ w2.sources = now)
                         /\ w2.gaps = {} => gaps = {}
<1>1. /\ w \in StreamTypes /\ IsFiniteSet(w.entries)
      /\ \A e \in w.entries : w.next - HistoryLimit < e.seq /\ e.seq <= w.next
      /\ w.closed => ~w.ready
  BY DEF WindowIsSound
<1>2. CASE w.closed
  <2>1. w2 = w
    BY <1>2 DEF Observed
  <2>2. QED
    BY <1>2, <2>1 DEF MayFollow, GoesOn
<1>3. CASE ~w.closed /\ "content_access_disabled" \in gaps
  <2> DEFINE base == IF w.ready \/ w.entries # {} THEN Rotated(w) ELSE w
             none == [s \in Sources |-> Unwatched]
  <2>1. w2 = [base EXCEPT !.sources = none, !.ready = FALSE, !.gaps = gaps]
    BY <1>3 DEF Observed
  <2>2. none \in [Sources -> SourceStates]
    BY WatchConstants DEF Unwatched, SourceStates, WatchConstants
  <2>3. /\ base \in StreamTypes /\ base.closed = FALSE /\ base.entries = {}
        /\ (w.ready \/ w.entries # {}) => base.rotated
        /\ ~(w.ready \/ w.entries # {}) => base = w
    BY <1>1, <1>3, RotatedIsSound DEF StreamTypes
  <2> HIDE DEF base, none
  <2>4. /\ w2 \in StreamTypes /\ w2.ready = FALSE /\ w2.gaps = gaps /\ w2.closed = FALSE
        /\ w2.entries = {} /\ w2.rotated = base.rotated /\ w2.next = base.next
    BY <2>1, <2>2, <2>3 DEF StreamTypes
  <2>5. WindowIsSound(w2)
    BY <2>4, FS_EmptySet DEF WindowIsSound
  <2>6. w2.rotated \/ (~w.ready /\ w2.entries = w.entries)
    BY <2>3, <2>4
  <2>7. MayFollow(w, w2)
    BY <2>4, <2>5, <2>6, NobodyFollows DEF MayFollow
  <2>8. QED
    BY <1>3, <2>4, <2>7 DEF Shut
<1>4. CASE ~w.closed /\ "content_access_disabled" \notin gaps
  <2> DEFINE fresh == w.ready /\ Discontinuous(w, now, gaps)
             base == [(IF fresh THEN Rotated(w) ELSE w) EXCEPT !.gaps = gaps]
             next == IF w.ready /\ ~fresh THEN AppendAll(base, now, broken) ELSE base
  <2>1. w2 = [next EXCEPT !.sources = now, !.ready = TRUE]
    BY <1>4 DEF Observed
  <2>2. ASSUME NEW v \in StreamTypes, w2 = [v EXCEPT !.sources = now, !.ready = TRUE]
        PROVE  /\ w2 \in StreamTypes /\ w2.sources = now /\ w2.ready = TRUE
               /\ w2.rotated = v.rotated /\ w2.next = v.next /\ w2.entries = v.entries
               /\ w2.closed = v.closed /\ w2.gaps = v.gaps
    BY <2>2 DEF StreamTypes
  <2>3. ASSUME NEW v \in StreamTypes, w2 = [v EXCEPT !.sources = now, !.ready = TRUE],
               v.rotated, v.entries = {}, ~v.closed, v.gaps = {} => gaps = {}
        PROVE  /\ MayFollow(w, w2) /\ ~w2.closed /\ w2.ready /\ w2.sources = now
               /\ w2.gaps = {} => gaps = {}
    <3>1. /\ w2 \in StreamTypes /\ w2.sources = now /\ w2.ready = TRUE
          /\ w2.rotated = v.rotated /\ w2.next = v.next /\ w2.entries = v.entries
          /\ w2.closed = v.closed /\ w2.gaps = v.gaps
      BY <2>2, <2>3
    <3>2. WindowIsSound(w2)
      BY <2>3, <3>1, FS_EmptySet DEF WindowIsSound
    <3>3. QED
      BY <2>3, <3>1, <3>2 DEF MayFollow
  <2>4. CASE fresh
    <3> DEFINE v == [Rotated(w) EXCEPT !.gaps = gaps]
    <3>1. v \in StreamTypes /\ v.rotated /\ v.entries = {} /\ ~v.closed /\ v.gaps = gaps
      <4> DEFINE x == Rotated(w)
      <4>1. x \in StreamTypes /\ x.rotated = TRUE /\ x.entries = {} /\ x.closed = w.closed
        BY RotatedIsSound
      <4>2. v = [x EXCEPT !.gaps = gaps]
        OBVIOUS
      <4> HIDE DEF x, v
      <4>3. QED
        BY <1>4, <4>1, <4>2 DEF StreamTypes
    <3>2. w2 = [v EXCEPT !.sources = now, !.ready = TRUE]
      BY <2>1, <2>4
    <3> HIDE DEF v
    <3>3. QED
      BY <1>4, <2>3, <3>1, <3>2
  <2>5. CASE ~fresh
    <3> DEFINE v == [w EXCEPT !.gaps = gaps]
    <3>1. /\ v \in StreamTypes /\ v.next = w.next /\ v.entries = w.entries
          /\ v.sources = w.sources /\ v.closed = w.closed /\ v.ready = w.ready /\ v.gaps = gaps
          /\ v.rotated = FALSE
      BY <1>1 DEF StreamTypes
    <3>2. base = v
      BY <2>5
    <3> HIDE DEF v
    <3>3. CASE ~w.ready
      <4>1. w2 = [v EXCEPT !.sources = now, !.ready = TRUE]
        BY <2>1, <3>2, <3>3
      <4>2. /\ w2 \in StreamTypes /\ w2.sources = now /\ w2.ready = TRUE
            /\ w2.next = w.next /\ w2.entries = w.entries
            /\ w2.closed = w.closed /\ w2.gaps = gaps
        BY <2>2, <3>1, <4>1
      <4>3. WindowIsSound(w2)
        BY <1>1, <1>4, <4>2 DEF WindowIsSound
      <4>4. QED
        BY <1>4, <3>3, <4>2, <4>3, NobodyFollows DEF MayFollow
    <3>4. CASE w.ready /\ broken /\ Added(v, now) # {}
      <4> DEFINE x == [Rotated(v) EXCEPT !.gaps = @ \cup {"watch_index_unreadable"}]
      <4>1. next = x
        BY <2>5, <3>2, <3>4 DEF AppendAll
      <4>2. WindowIsSound(v)
        BY <1>1, <3>1 DEF WindowIsSound
      <4>3. x \in StreamTypes /\ x.rotated /\ x.entries = {} /\ ~x.closed /\ x.gaps # {}
        <5>1. /\ Rotated(v) \in StreamTypes /\ Rotated(v).rotated = TRUE /\ Rotated(v).entries = {}
              /\ Rotated(v).closed = v.closed
          BY <4>2, RotatedIsSound
        <5> DEFINE g == Rotated(v).gaps \cup {"watch_index_unreadable"}
        <5>2. g \in SUBSET GapNames /\ g # {}
          BY <5>1 DEF StreamTypes, GapNames
        <5>3. x = [Rotated(v) EXCEPT !.gaps = g]
          OBVIOUS
        <5> HIDE DEF g, x
        <5>4. QED
          BY <1>4, <3>1, <5>1, <5>2, <5>3 DEF StreamTypes
      <4>4. w2 = [x EXCEPT !.sources = now, !.ready = TRUE]
        BY <2>1, <4>1
      <4> HIDE DEF x
      <4>5. QED
        BY <1>4, <2>3, <4>3, <4>4
    <3>5. CASE w.ready /\ ~(broken /\ Added(v, now) # {})
      <4> DEFINE x == Appended(v, now)
                 n == v.next + Cardinality(Added(v, now))
                 kept == {e \in v.entries \cup New(v, now) : e.seq > n - HistoryLimit}
      <4>1. next = x
        BY <2>5, <3>2, <3>5 DEF AppendAll
      <4>2. x = [v EXCEPT !.next = n, !.entries = kept]
        BY DEF Appended, New
      <4>3. Added(v, now) = Added(w, now) /\ New(v, now) = New(w, now)
        BY <3>1 DEF Added, New, Number
      <4>4. WindowIsSound(v)
        BY <1>1, <3>1 DEF WindowIsSound
      <4>5. n \in Nat /\ kept \in SUBSET Changes
        <5>1. Cardinality(Added(v, now)) \in Nat /\ v.next \in Nat
          BY <3>1, <4>4, AddedIsFinite DEF StreamTypes
        <5>2. New(v, now) \in SUBSET Changes /\ v.entries \in SUBSET Changes
          BY <3>1, <4>4, NewChanges DEF StreamTypes
        <5>3. kept \in SUBSET (v.entries \cup New(v, now))
          OBVIOUS
        <5> HIDE DEF kept
        <5>4. QED
          BY <5>1, <5>2, <5>3
      <4> HIDE DEF x
      <4>6. /\ x \in StreamTypes /\ x.next = n /\ x.entries = kept /\ x.closed = v.closed
            /\ x.gaps = gaps /\ x.rotated = FALSE
        <5> HIDE DEF n, kept
        <5>1. QED
          BY <3>1, <4>2, <4>5 DEF StreamTypes
      <4>7. w2 = [x EXCEPT !.sources = now, !.ready = TRUE]
        BY <2>1, <4>1
      <4>8. /\ w2 \in StreamTypes /\ w2.sources = now /\ w2.ready = TRUE
            /\ w2.next = n /\ w2.entries = kept /\ w2.closed = v.closed /\ w2.gaps = gaps
        BY <2>2, <4>6, <4>7
      <4>9. Appends(w, now, w2)
        BY <3>1, <4>3, <4>8 DEF Appends
      <4>10. Continuous(w, now)
        <5>1. ~Discontinuous(w, now, gaps)
          BY <2>5, <3>5
        <5>2. \A s \in Sources : now[s].count \in Nat /\ w.sources[s].count \in Nat
          BY <1>1 DEF StreamTypes, SourceStates
        <5>3. QED
          BY <5>1, <5>2 DEF Discontinuous, Continuous
      <4>11. /\ IsFiniteSet(w2.entries) /\ w2.next \in Nat /\ w2.next >= w.next
             /\ \A e \in w2.entries : w2.next - HistoryLimit < e.seq /\ e.seq <= w2.next
             /\ w2.next = w.next => w2.entries = w.entries
        BY <4>9, WindowKeeps
      <4>12. WindowIsSound(w2)
        BY <1>4, <3>1, <4>8, <4>11 DEF WindowIsSound
      <4>13. GoesOn(w, w2)
        <5> SUFFICES ASSUME NEW c \in Consumers, NEW cursor \in Cursors,
                            NEW held \in SUBSET (Sources \X Nat \X Nat),
                            CursorIsSound(cursor, w), Complete(c, held, cursor, w)
                     PROVE  CursorIsSound(cursor, w2) /\ Complete(c, held, cursor, w2)
          BY DEF GoesOn
        <5>1. Complete(c, held, cursor, w2)
          BY <4>9, <4>10, AppendContinues
        <5>2. cursor.live => cursor.seq \in 0 .. w2.next
          <6>1. w.next \in Nat /\ (cursor.live => cursor.seq \in 0 .. w.next)
            BY <1>1 DEF StreamTypes, CursorIsSound
          <6>2. QED
            BY <4>11, <6>1
        <5>3. QED
          BY <4>8, <5>1, <5>2 DEF CursorIsSound
      <4>14. QED
        BY <1>4, <3>1, <4>8, <4>11, <4>12, <4>13 DEF MayFollow
    <3>6. QED
      BY <3>3, <3>4, <3>5
  <2>6. QED
    BY <2>4, <2>5
<1>5. QED
  BY <1>2, <1>3, <1>4

(* Whoever collects has what it observed, and with no gap all there is.    *)
LEMMA CollectKeeps ==
  ASSUME WatchInv, NEW c \in Consumers, Collect(c)
  PROVE  WatchInv'
<1>1. /\ opMu = Free /\ opMu' = c /\ UNCHANGED <<transcript, granted, revoking>> /\ At(c, "lock")
  BY DEF Collect
<1>2. /\ WindowIsSound(changeStream) /\ changeStream.rotated = FALSE /\ IndexIsSound
      /\ consumer \in [Consumers -> ConsumerTypes]
  BY DEF WatchInv, Surroundings
<1>3. ASSUME NEW states \in SUBSET Sources, NEW now \in [Sources -> SourceStates],
             NEW gaps \in SUBSET GapNames, NEW broken \in BOOLEAN, IndexIsSound',
             mishaps' \in 0 .. MaxMishaps,
             Publish(Observed(changeStream, now, gaps, broken),
                     Become(c, [consumer[c] EXCEPT !.pc = "observed", !.states = states])),
             "content_access_disabled" \in gaps
               \/ (/\ \A s \in Sources : now[s] = IF s \in states THEN indexed'[s] ELSE Unwatched
                   /\ gaps = {} => CaughtUpAll')
      PROVE  WatchInv'
  <2> DEFINE w == Observed(changeStream, now, gaps, broken)
             r == [consumer[c] EXCEPT !.pc = "observed", !.states = states]
             all == [consumer EXCEPT ![c] = r]
  <2>1. consumer[c] \in ConsumerTypes
    BY <1>2
  <2>2. /\ r \in ConsumerTypes /\ r.pc = "observed" /\ r.states = states
        /\ r.held = consumer[c].held /\ r.cursor = consumer[c].cursor /\ r.at = consumer[c].at
    BY <2>1 DEF ConsumerTypes
  <2> HIDE DEF r
  <2>3. all \in [Consumers -> ConsumerTypes] /\ all[c] = r
        /\ \A d \in Consumers : d # c => all[d] = consumer[d]
    BY <1>2, <2>2
  <2>4. Publish(w, all)
    BY <1>3 DEF Become, r
  <2>5. /\ MayFollow(changeStream, w)
        /\ changeStream.closed => w = changeStream
        /\ ~changeStream.closed => /\ ~w.closed
                                   /\ Shut(w) \/ (w.ready /\ w.sources = now)
                                   /\ w.gaps = {} => gaps = {}
    <3>1. w = Observed(changeStream, now, gaps, broken)
      OBVIOUS
    <3>2. WindowIsSound(changeStream) /\ ~changeStream.rotated
      BY <1>2
    <3> HIDE DEF w
    <3>3. QED
      BY <3>1, <3>2, ObservedIsSound
  <2> HIDE DEF w, all
  <2>6. w.gaps = {} /\ ~w.closed => CaughtUpAll'
    <3>1. w.gaps = {} /\ ~w.closed => gaps = {}
      BY <2>5
    <3>2. QED
      BY <1>3, <3>1
  <2>7. ~w.closed => (Shut(w) \/ (w.ready /\ w.sources = now))
    BY <2>5
  <2>8. HasObserved(c, r, w, indexed', opMu', CaughtUpAll')
    <3>1. CASE "content_access_disabled" \in gaps
      <4>1. w.closed \/ "content_access_disabled" \in w.gaps
        BY <1>2, <3>1 DEF w, Observed, WindowIsSound, StreamTypes, Rotated
      <4>2. QED
        BY <1>1, <2>6, <4>1 DEF HasObserved, Shut
    <3>2. CASE "content_access_disabled" \notin gaps
      <4>1. \A s \in Sources : now[s] = IF s \in r.states THEN indexed'[s] ELSE Unwatched
        BY <1>3, <2>2, <3>2
      <4>2. Shut(w) \/ (w.ready /\ w.sources = now)
        BY <2>7 DEF Shut
      <4>3. QED
        BY <1>1, <2>6, <4>1, <4>2 DEF HasObserved
    <3>3. QED
      BY <3>1, <3>2
  <2>9. ASSUME NEW d \in Consumers
        PROVE  /\ all[d].held = consumer[d].held
               /\ all[d].cursor = consumer[d].cursor /\ all[d].at = consumer[d].at
               /\ all[d].pc = "wait" => all[d] = consumer[d]
               /\ HasObserved(d, all[d], w, indexed', opMu', CaughtUpAll')
    <3>1. CASE d = c
      BY <2>2, <2>3, <2>8, <3>1
    <3>2. CASE d # c
      <4>1. all[d] = consumer[d]
        BY <2>3, <3>2
      <4>2. consumer[d].pc # "observed"
        BY <1>1, ObserverHolds, WatchConstants DEF At, WatchConstants
      <4>3. QED
        BY <4>1, <4>2 DEF HasObserved
    <3>3. QED
      BY <3>1, <3>2
  <2>10. QED
    BY <1>1, <1>3, <2>3, <2>4, <2>5, <2>6, <2>9, PublishKeeps
<1>4. ASSUME CollectDenied(c)
      PROVE  WatchInv'
  <2> DEFINE none == [s \in Sources |-> Unwatched]
  <2>1. none \in [Sources -> SourceStates]
    BY WatchConstants DEF Unwatched, SourceStates, WatchConstants
  <2>2. /\ Publish(Observed(changeStream, none, {"content_access_disabled"}, FALSE),
                   Become(c, [consumer[c] EXCEPT !.pc = "observed", !.states = {}]))
        /\ UNCHANGED <<indexed, mishaps>>
    BY <1>4 DEF CollectDenied
  <2>3. IndexIsSound' /\ mishaps' \in 0 .. MaxMishaps
    BY <1>1, <1>2, <2>2, MishapIsBounded DEF IndexIsSound, WatchInv
  <2>4. {"content_access_disabled"} \in SUBSET GapNames /\ {} \in SUBSET Sources
    BY DEF GapNames
  <2> HIDE DEF none
  <2>5. QED
    BY <1>3, <2>1, <2>2, <2>3, <2>4
<1>5. ASSUME CollectGranted(c)
      PROVE  WatchInv'
  <2>1. PICK states \in SUBSET {s \in Sources : transcript[s].there} : \E broken \in BOOLEAN :
         /\ IF broken \/ \E s \in Sources : transcript[s].there /\ s \notin states
            THEN (consumer[c].done /\ UNCHANGED mishaps) \/ Mishap
            ELSE UNCHANGED mishaps
         /\ \E reached \in SUBSET states :
              LET after == [s \in Sources |-> IF s \in reached THEN CaughtUp(s)
                                              ELSE IF s \in states THEN Begun(s)
                                              ELSE indexed[s]]
                  now   == [s \in Sources |-> IF s \in states THEN after[s] ELSE Unwatched]
              IN /\ indexed' = after
                 /\ Publish(Observed(changeStream, now, Collection(states, after), broken),
                            Become(c, [consumer[c] EXCEPT !.pc = "observed", !.states = states]))
    BY <1>5 DEF CollectGranted
  <2>2. PICK broken \in BOOLEAN, reached \in SUBSET states :
         /\ Mishap \/ UNCHANGED mishaps
         /\ LET after == [s \in Sources |-> IF s \in reached THEN CaughtUp(s)
                                              ELSE IF s \in states THEN Begun(s)
                                              ELSE indexed[s]]
                now   == [s \in Sources |-> IF s \in states THEN after[s] ELSE Unwatched]
            IN /\ indexed' = after
               /\ Publish(Observed(changeStream, now, Collection(states, after), broken),
                          Become(c, [consumer[c] EXCEPT !.pc = "observed", !.states = states]))
    BY <2>1
  <2> DEFINE after == [s \in Sources |-> IF s \in reached THEN CaughtUp(s)
                                              ELSE IF s \in states THEN Begun(s)
                                              ELSE indexed[s]]
             now   == [s \in Sources |-> IF s \in states THEN after[s] ELSE Unwatched]
             gaps  == Collection(states, after)
  <2>3. /\ indexed' = after
        /\ Publish(Observed(changeStream, now, gaps, broken),
                   Become(c, [consumer[c] EXCEPT !.pc = "observed", !.states = states]))
    BY <2>2
  <2>4. mishaps' \in 0 .. MaxMishaps
    BY <2>2, MishapIsBounded DEF WatchInv
  <2>5. \A s \in Sources : /\ transcript[s] \in Transcripts /\ indexed[s] \in SourceStates
                           /\ indexed[s].gen <= transcript[s].gen
                           /\ indexed[s].gen = transcript[s].gen
                                => indexed[s].count <= transcript[s].count
    BY <1>2 DEF IndexIsSound
  <2>6. ASSUME NEW s \in Sources
        PROVE  /\ CaughtUp(s) \in SourceStates /\ CaughtUp(s).gen = transcript[s].gen
               /\ CaughtUp(s).count = transcript[s].count
               /\ Begun(s) \in SourceStates /\ Begun(s).gen = transcript[s].gen
               /\ Begun(s).count <= transcript[s].count
    <3>1. transcript[s].gen \in Nat /\ transcript[s].count \in 0 .. MaxEvents /\ MaxEvents \in Nat
      BY <2>5, WatchConstants DEF Transcripts, WatchConstants
    <3>2. CaughtUp(s) \in SourceStates /\ CaughtUp(s).gen = transcript[s].gen
          /\ CaughtUp(s).count = transcript[s].count
      BY <3>1 DEF CaughtUp, SourceStates
    <3>3. CASE indexed[s].gen = transcript[s].gen
      BY <2>5, <3>2, <3>3 DEF Begun
    <3>4. CASE indexed[s].gen # transcript[s].gen
      <4>1. Begun(s) = [gen |-> transcript[s].gen, count |-> 0]
        BY <3>4 DEF Begun
      <4>2. QED
        BY <3>1, <3>2, <4>1 DEF SourceStates
    <3>5. QED
      BY <3>2, <3>3, <3>4
  <2>7. states \in SUBSET Sources /\ \A s \in states : transcript[s].there
    OBVIOUS
  <2>8. ASSUME NEW s \in Sources
        PROVE  /\ after[s] \in SourceStates /\ after[s].gen <= transcript[s].gen
               /\ after[s].gen = transcript[s].gen => after[s].count <= transcript[s].count
               /\ s \in states => after[s].gen = transcript[s].gen
    <3>1. transcript[s].gen \in Nat /\ transcript[s].count \in Int
      BY <2>5 DEF Transcripts
    <3>2. CASE s \in reached
      <4>1. after[s] = CaughtUp(s)
        BY <3>2
      <4> HIDE DEF after
      <4>2. QED
        BY <2>6, <3>1, <4>1
    <3>3. CASE s \in states /\ s \notin reached
      <4>1. after[s] = Begun(s)
        BY <3>3
      <4> HIDE DEF after
      <4>2. QED
        BY <2>6, <3>1, <4>1
    <3>4. CASE s \notin states
      <4>1. after[s] = indexed[s]
        BY <3>4
      <4> HIDE DEF after
      <4>2. QED
        BY <2>5, <3>4, <4>1
    <3>5. QED
      BY <3>2, <3>3, <3>4
  <2>9. after = [s \in Sources |-> after[s]]
    OBVIOUS
  <2> HIDE DEF after
  <2>10. after \in [Sources -> SourceStates]
    BY <2>8, <2>9
  <2>11. now \in [Sources -> SourceStates]
         /\ \A s \in Sources : now[s] = IF s \in states THEN indexed'[s] ELSE Unwatched
    <3>1. Unwatched \in SourceStates
      BY WatchConstants DEF Unwatched, SourceStates, WatchConstants
    <3>2. QED
      BY <2>3, <2>10, <3>1
  <2>12. IndexIsSound'
    BY <1>1, <1>2, <2>3, <2>8, <2>10 DEF IndexIsSound
  <2>13. gaps \in SUBSET GapNames
    BY DEF Collection, GapNames
  <2>14. ASSUME gaps = {}
         PROVE  CaughtUpAll'
    <3> SUFFICES ASSUME NEW s \in Sources, transcript[s].there
                 PROVE  after[s] = CaughtUp(s)
      BY <1>1, <2>3 DEF CaughtUpAll, CaughtUp
    <3>1. ~ (\E t \in {u \in Sources : transcript[u].there} :
               t \notin states \/ after[t].count < transcript[t].count)
      BY <2>14 DEF Collection
    <3>2. s \in states /\ ~ (after[s].count < transcript[s].count)
      BY <3>1
    <3>3. /\ after[s].gen = transcript[s].gen /\ after[s].count <= transcript[s].count
          /\ after[s].count \in Int /\ transcript[s].count \in Int
      BY <2>5, <2>8, <3>2 DEF SourceStates, Transcripts
    <3>4. after[s].count = transcript[s].count
      BY <3>2, <3>3
    <3>5. after[s] = [gen |-> after[s].gen, count |-> after[s].count]
      BY <2>8 DEF SourceStates
    <3>6. QED
      BY <3>3, <3>4, <3>5 DEF CaughtUp
  <2> HIDE DEF now, gaps
  <2>15. QED
    BY <1>3, <2>3, <2>4, <2>7, <2>11, <2>12, <2>13, <2>14
<1>6. QED
  BY <1>4, <1>5 DEF Collect

(* A new epoch for everybody, and an end.                                  *)
LEMMA EndKeeps ==
  ASSUME WatchInv, Reset \/ CloseService
  PROVE  WatchInv'
<1> DEFINE w0 == ResetWatch(changeStream)
           w1 == [w0 EXCEPT !.closed = TRUE]
<1>1. /\ WindowIsSound(changeStream) /\ IndexIsSound /\ consumer \in [Consumers -> ConsumerTypes]
      /\ opMu \in Consumers \cup {Free}
  BY DEF WatchInv, Surroundings
<1>2. /\ UNCHANGED <<transcript, indexed, opMu, mishaps>> /\ opMu = Free
      /\ Publish(w0, consumer) \/ Publish(w1, consumer)
  BY DEF Reset, CloseService
<1>3. /\ w0 \in StreamTypes /\ w0.rotated = TRUE /\ w0.entries = {} /\ w0.ready = FALSE
  <2> DEFINE x == Rotated(changeStream)
             none == [s \in Sources |-> Unwatched]
  <2>1. x \in StreamTypes /\ x.rotated = TRUE /\ x.entries = {}
    BY <1>1, RotatedIsSound
  <2>2. none \in [Sources -> SourceStates]
    BY WatchConstants DEF Unwatched, SourceStates, WatchConstants
  <2>3. w0 = [x EXCEPT !.sources = none, !.ready = FALSE, !.gaps = {}]
    BY DEF ResetWatch
  <2>4. {} \in SUBSET GapNames
    OBVIOUS
  <2> HIDE DEF x, none, w0
  <2>5. QED
    BY <2>1, <2>2, <2>3, <2>4 DEF StreamTypes
<1> HIDE DEF w0
<1>4. /\ w1 \in StreamTypes /\ w1.rotated = TRUE /\ w1.entries = {} /\ w1.ready = FALSE
      /\ w1.closed = TRUE
  BY <1>3 DEF StreamTypes
<1> HIDE DEF w1
<1>5. MayFollow(changeStream, w0) /\ MayFollow(changeStream, w1)
  BY <1>3, <1>4, FS_EmptySet DEF MayFollow, WindowIsSound
<1>6. \A c \in Consumers : consumer[c].pc # "observed"
  BY <1>2, ObserverHolds, WatchConstants DEF At, WatchConstants
<1>7. \A c \in Consumers : \A w : HasObserved(c, consumer[c], w, indexed', opMu', CaughtUpAll')
  BY <1>6 DEF HasObserved
<1>8. IndexIsSound' /\ opMu' \in Consumers \cup {Free} /\ mishaps' \in 0 .. MaxMishaps
  BY <1>1, <1>2, MishapIsBounded DEF IndexIsSound, WatchInv
<1>9. CASE Publish(w0, consumer)
  BY <1>1, <1>2, <1>3, <1>5, <1>7, <1>8, <1>9, PublishKeeps
<1>10. CASE Publish(w1, consumer)
  BY <1>1, <1>2, <1>4, <1>5, <1>7, <1>8, <1>10, PublishKeeps
<1>11. QED
  BY <1>2, <1>9, <1>10

(***************************************************************************)
(* The theorem.                                                            *)
(***************************************************************************)

(* The initial state.                                                      *)
LEMMA WatchStarts ==
  ASSUME WatchInit
  PROVE  WatchInv
<1>1. 0 \in 0 .. MaxEvents /\ 0 \in 0 .. MaxMishaps
  BY WatchConstants DEF WatchConstants
<1>2. Unwatched \in SourceStates /\ Unwatched.gen = 0 /\ Unwatched.count = 0
  BY <1>1 DEF Unwatched, SourceStates
<1>3. /\ transcript \in [Sources -> Transcripts] /\ indexed \in [Sources -> SourceStates]
      /\ \A s \in Sources : transcript[s].gen = 1 /\ indexed[s] = Unwatched
  BY <1>1, <1>2 DEF WatchInit, Transcripts
<1>4. IndexIsSound
  BY <1>2, <1>3 DEF IndexIsSound
<1>5. /\ changeStream \in StreamTypes /\ changeStream.entries = {}
      /\ changeStream.rotated = FALSE /\ changeStream.closed = FALSE
  BY <1>2 DEF WatchInit, StreamTypes
<1>6. WindowIsSound(changeStream)
  BY <1>5, FS_EmptySet DEF WindowIsSound
<1>7. ASSUME NEW c \in Consumers
      PROVE  /\ consumer[c] \in ConsumerTypes /\ consumer[c].pc = "idle"
             /\ consumer[c].cursor = NoCursor /\ consumer[c].at = NoCursor
  BY NoCursorIsDead DEF WatchInit, ConsumerTypes
<1>8. consumer \in [Consumers -> ConsumerTypes]
  BY <1>7 DEF WatchInit
<1>9. opMu \in Consumers \cup {Free} /\ mishaps \in 0 .. MaxMishaps
  BY <1>1 DEF WatchInit
<1>10. \A c \in Consumers : Follows(c, consumer[c], changeStream)
  BY <1>7, NoCursorIsDead DEF Follows
<1>11. \A c \in Consumers :
         ConsumerIsSound(c, consumer[c], changeStream, indexed, opMu, CaughtUpAll)
  BY <1>7, <1>10, OneFollows
<1>12. QED
  BY <1>4, <1>5, <1>6, <1>8, <1>9, <1>11 DEF WatchInv, Surroundings

(* A step of other components.                                             *)
LEMMA WatchStutters ==
  ASSUME WatchInv, UNCHANGED watchVars
  PROVE  WatchInv'
<1>1. UNCHANGED <<transcript, indexed, granted, revoking, changeStream, opMu, consumer, mishaps>>
  BY DEF watchVars
<1>2. Surroundings'
  BY <1>1, Zenon DEF WatchInv, Surroundings, IndexIsSound, WindowIsSound
<1>3. CaughtUpAll' = CaughtUpAll
  BY <1>1 DEF CaughtUpAll, CaughtUp
<1>4. QED
  BY <1>1, <1>2, <1>3 DEF WatchInv

(* Every action keeps the invariant.                                       *)
LEMMA WatchSteps ==
  ASSUME WatchInv, [WatchNext]_watchVars
  PROVE  WatchInv'
<1>1. ASSUME NEW c \in Consumers, ServeRequest(c)
      PROVE  WatchInv'
  BY <1>1, PassKeeps, RejectedKeeps, CollectKeeps, QueryKeeps, ResetKeeps, AnswerKeeps
     DEF ServeRequest
<1>2. QED
  BY <1>1, FilesKeep, AskKeeps, CancelKeeps, AgeKeeps, EnabledKeeps, EndKeeps, WatchStutters
     DEF WatchNext

(* The invariant is StreamIsComplete and more.                             *)
LEMMA WatchInvSuffices ==
  ASSUME WatchInv
  PROVE  StreamIsComplete
<1>1. /\ WindowIsSound(changeStream) /\ IndexIsSound
      /\ opMu \in Consumers \cup {Free} /\ mishaps \in 0 .. MaxMishaps
      /\ consumer \in [Consumers -> ConsumerTypes]
  BY DEF WatchInv, Surroundings
<1>2. \A c \in Consumers :
        ConsumerIsSound(c, consumer[c], changeStream, indexed, opMu, CaughtUpAll)
  BY DEF WatchInv
<1>3. \A e \in changeStream.entries :
        e.seq \in changeStream.next - HistoryLimit + 1 .. changeStream.next
  <2> TAKE e \in changeStream.entries
  <2>1. /\ e.seq \in Nat /\ changeStream.next \in Nat /\ HistoryLimit \in Nat
        /\ changeStream.next - HistoryLimit < e.seq /\ e.seq <= changeStream.next
    BY <1>1, WatchConstants DEF WindowIsSound, StreamTypes, Changes, WatchConstants
  <2>2. QED
    BY <2>1
<1>4. WatchType
  BY <1>1, <1>3 DEF WatchType, IndexIsSound, WindowIsSound, StreamTypes, SourceStates, Transcripts
<1>5. FollowerMissesNothing
  <2> SUFFICES ASSUME NEW c \in Consumers, ~MustReset(consumer[c].cursor)
               PROVE  consumer[c].held \cup Pending(c)
                        = UNION {EventsOf(s, changeStream.sources[s]) : s \in Selects[c]}
    BY DEF FollowerMissesNothing
  <2>1. Complete(c, consumer[c].held, consumer[c].cursor, changeStream)
    BY <1>2 DEF ConsumerIsSound, Follows
  <2>2. consumer[c].cursor.live /\ ~Lost(consumer[c].cursor.seq, changeStream)
    BY DEF MustReset, LostWindow, Lost
  <2>3. Pending(c) = Brings(c, consumer[c].cursor.seq, changeStream)
    BY DEF Pending, Matching, Later, Brings
  <2>4. QED
    BY <2>1, <2>2, <2>3 DEF Complete, Seen
<1>6. NoPollSleepsThrough
  <2> SUFFICES ASSUME NEW c \in Consumers, At(c, "wait"), ~consumer[c].woken
               PROVE  /\ changeStream.gaps = {}
                           => \A s \in Sources : transcript[s].there => indexed[s] = CaughtUp(s)
                      /\ consumer[c].at.live
                      /\ Matching(c, Later(consumer[c].at.seq)) = {}
                      /\ ~changeStream.closed
    BY DEF NoPollSleepsThrough
  <2>1. /\ changeStream.gaps = {} => CaughtUpAll
        /\ consumer[c].at.live /\ ~changeStream.closed
        /\ Brings(c, consumer[c].at.seq, changeStream) = {}
    BY <1>2 DEF ConsumerIsSound, Sleeps, At
  <2>2. Matching(c, Later(consumer[c].at.seq)) = {}
    BY <2>1 DEF Matching, Later, Brings
  <2>3. QED
    BY <2>1, <2>2 DEF CaughtUpAll
<1>7. QED
  BY <1>4, <1>5, <1>6 DEF StreamIsComplete

(* StreamIsComplete is an invariant: whatever the interleaving of requests, *)
(* hints, files, revocations and the close, a consumer that follows its    *)
(* cursors misses no change, and no poll sleeps through one (watch.go).    *)
THEOREM StreamComplete == WatchSpec => []StreamIsComplete
<1>1. WatchInit => WatchInv
  BY WatchStarts
<1>2. WatchInv /\ [WatchNext]_watchVars => WatchInv'
  BY WatchSteps
<1>3. WatchInv => StreamIsComplete
  BY WatchInvSuffices
<1>4. QED
  BY <1>1, <1>2, <1>3, PTL DEF WatchSpec

==============================================================================
