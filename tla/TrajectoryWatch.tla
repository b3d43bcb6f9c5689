-------------------------- MODULE TrajectoryWatch --------------------------
(***************************************************************************)
(* The change stream of the trajectory service (watch.go): consumers       *)
(* query the index once and then follow it with long polls.  One operation *)
(* mutex pins the index while a request collects and observes it; the      *)
(* stream itself keeps a short window of changes, an epoch that every      *)
(* discontinuity replaces, and a wake channel.                             *)
(*                                                                         *)
(* A source is a transcript: its generation, how many events it has, and   *)
(* whether a half-written line follows.  The index has, for each source,   *)
(* the generation it follows and how many events it decoded; one event     *)
(* stands for one locator, so the event count is also the offset.          *)
(* Epochs and the hint counter matter only by comparison: a cursor says     *)
(* whether it is of the present epoch, a request whether a hint came since  *)
(* its pass began.                                                          *)
(***************************************************************************)
EXTENDS Integers, FiniteSets

CONSTANTS Sources,       \* transcripts
          Consumers,     \* clients of Query and Watch
          Selects,       \* the sources a consumer's selector matches
          IDOf,          \* the ids of the sources, as their order
          MaxEvents,     \* bound: events of a source
          MaxRequests,   \* bound: requests of one consumer
          MaxMishaps,    \* bound: replaced files, failed reads, cancelled requests
          HistoryLimit,  \* WatchHistoryLimit
          PageLimit      \* the selector's limit

Free == "free"

ASSUME WatchConstants ==
    /\ IsFiniteSet(Sources) /\ Selects \in [Consumers -> SUBSET Sources]
    /\ IDOf \in [Sources -> Nat] /\ \A s, t \in Sources : s # t => IDOf[s] # IDOf[t]
    /\ Free \notin Consumers
    /\ MaxEvents \in Nat /\ MaxRequests \in Nat /\ MaxMishaps \in Nat
    /\ HistoryLimit \in Nat \ {0} /\ PageLimit \in Nat \ {0}

VARIABLES transcript, \* the files
          indexed,    \* the store's checkpoints
          granted,    \* the content access preference
          revoking,   \* setEnabled(false) is stored, Reset has yet to run
          changeStream,     \* watchState
          opMu,       \* who holds the operation mutex
          consumer,   \* each consumer's request and what it holds
          mishaps     \* mishaps so far, for the bound

watchVars == <<transcript, indexed, granted, revoking, changeStream, opMu, consumer, mishaps>>

-----------------------------------------------------------------------------
Unwatched == [gen |-> 0, count |-> 0]
NoCursor == [live |-> FALSE, seq |-> -1]
Cursor(seq) == [live |-> TRUE, seq |-> seq]

Event(s, gen, n) == <<s, gen, n>>
EventsOf(s, state) == {Event(s, state.gen, n) : n \in 1..state.count}

AtEase(c) == [consumer[c] EXCEPT !.pc = "idle", !.done = FALSE, !.late = FALSE,
                                 !.woken = FALSE, !.hinted = FALSE, !.at = NoCursor, !.states = {}]

WatchInit ==
    /\ transcript = [s \in Sources |-> [there |-> TRUE, gen |-> 1, count |-> 0, torn |-> FALSE]]
    /\ indexed = [s \in Sources |-> Unwatched]
    /\ granted = TRUE /\ revoking = FALSE
    /\ changeStream = [rotated |-> FALSE, next |-> 0, entries |-> {},
                 sources |-> [s \in Sources |-> Unwatched], ready |-> FALSE,
                 closed |-> FALSE, gaps |-> {}]
    /\ opMu = Free
    /\ consumer = [c \in Consumers |->
                     [pc |-> "idle", kind |-> "watch", done |-> FALSE, late |-> FALSE,
                      woken |-> FALSE, hinted |-> FALSE, at |-> NoCursor, states |-> {},
                      cursor |-> NoCursor, held |-> {}, requests |-> 0]]
    /\ mishaps = 0

Mishap == mishaps < MaxMishaps /\ mishaps' = mishaps + 1

-----------------------------------------------------------------------------
(* Transcripts.  Every change of a file reaches NotifyEvidence as a hint,  *)
(* in the same step: what the hint may miss, the next collect finds.       *)

\* wakeLocked: every request that waits on the channel sees it closed.
Woken(all) == [c \in Consumers |-> IF all[c].pc = "wait" THEN [all[c] EXCEPT !.woken = TRUE]
                                   ELSE all[c]]

\* Mutant: a hint wakes the sleepers and misses a poll that is just looking.
NotifyEvidenceToSleepers ==
    /\ consumer' = Woken(consumer)
    /\ UNCHANGED changeStream

\* The hint counter moves under every pass that has noted it.
NotifyEvidence ==
    /\ consumer' = [c \in Consumers |->
                      IF consumer[c].pc \in {"lock", "observed"}
                      THEN [consumer[c] EXCEPT !.hinted = TRUE] ELSE Woken(consumer)[c]]
    /\ UNCHANGED changeStream

WriteEvent(s) ==
    /\ transcript[s].there /\ transcript[s].count < MaxEvents
    /\ \E torn \in BOOLEAN :
         transcript' = [transcript EXCEPT ![s].count = @ + 1, ![s].torn = torn]
    /\ NotifyEvidence
    /\ UNCHANGED <<indexed, granted, revoking, opMu, mishaps>>

\* The file is replaced by another, or leaves the provider's set.
ReplaceTranscript(s) ==
    /\ Mishap
    /\ \E there \in BOOLEAN :
         transcript' = [transcript EXCEPT ![s] =
                          [there |-> there, gen |-> @.gen + 1, count |-> 0, torn |-> FALSE]]
    /\ NotifyEvidence
    /\ UNCHANGED <<indexed, granted, revoking, opMu>>

-----------------------------------------------------------------------------
(* The stream.                                                             *)

\* rotateLocked: a new secret and epoch, an empty window, everybody awake.
Rotated(w) == [w EXCEPT !.rotated = TRUE, !.next = 0, !.entries = {}]

\* The gaps that tell two observations apart: readiness is not one of them.
Lasting(gaps) == gaps \ {"index_pending"}

\* Why an observation cannot continue the stream.  A source left, its file or
\* its decoder state went back, or an incomplete coverage is not what it was.
Discontinuous(w, now, gaps) ==
    \/ \E s \in Sources : /\ w.sources[s] # Unwatched
                          /\ \/ now[s].gen # w.sources[s].gen
                             \/ now[s].count < w.sources[s].count
    \/ gaps # {} /\ Lasting(gaps) # Lasting(w.gaps)

\* appendWatchEventsLocked for every source in the order of their ids: what each
\* has more than at the last observation is numbered on from next, and the
\* window keeps the latest numbers.  (Of a source with more than the window
\* holds only those are read, and the numbers of the rest are skipped.)
Added(w, now) == UNION {{s} \X (w.sources[s].count + 1 .. now[s].count) : s \in Sources}
Precedes(a, b) == IDOf[a[1]] < IDOf[b[1]] \/ (a[1] = b[1] /\ a[2] < b[2])
Number(w, added, a) == w.next + 1 + Cardinality({b \in added : Precedes(b, a)})

Appended(w, now) ==
    LET added == Added(w, now)
        next  == w.next + Cardinality(added)
        all   == w.entries \cup {[seq |-> Number(w, added, a),
                                  event |-> Event(a[1], now[a[1]].gen, a[2])] : a \in added}
    IN [w EXCEPT !.next = next, !.entries = {e \in all : e.seq > next - HistoryLimit}]

\* A source whose new events cannot be read ends the epoch.
AppendAll(w, now, broken) ==
    IF broken /\ Added(w, now) # {}
    THEN [Rotated(w) EXCEPT !.gaps = @ \cup {"watch_index_unreadable"}] ELSE Appended(w, now)

\* observeLocked for the sources a collection returned (now) and its gaps.
Observed(w, now, gaps, broken) ==
    IF w.closed THEN w
    ELSE IF "content_access_disabled" \in gaps
    THEN [(IF w.ready \/ w.entries # {} THEN Rotated(w) ELSE w)
            EXCEPT !.sources = [s \in Sources |-> Unwatched], !.ready = FALSE, !.gaps = gaps]
    ELSE LET fresh == w.ready /\ Discontinuous(w, now, gaps)
             base  == [(IF fresh THEN Rotated(w) ELSE w) EXCEPT !.gaps = gaps]
             next  == IF w.ready /\ ~fresh THEN AppendAll(base, now, broken) ELSE base
         IN [next EXCEPT !.sources = now, !.ready = TRUE]

\* A request leaves the stream w: a new epoch outdates every cursor, and a new
\* epoch or a new change wakes whoever waits.
Outdated(r) == [r EXCEPT !.cursor.live = FALSE, !.at.live = FALSE]
Publish(w, all) ==
    /\ changeStream' = [w EXCEPT !.rotated = FALSE]
    /\ consumer' = LET seen == IF w.rotated THEN [c \in Consumers |-> Outdated(all[c])] ELSE all
                   IN IF w.rotated \/ w.next # changeStream.next THEN Woken(seen) ELSE seen

-----------------------------------------------------------------------------
(* Requests.                                                               *)

Become(c, r) == [consumer EXCEPT ![c] = r]
Move(c, r) == consumer' = Become(c, r)
At(c, pc) == consumer[c].pc = pc
Leave(c) == Move(c, AtEase(c))

\* The mutex goes to whoever finds it free; a request that has held it leaves it.
Release(c) == opMu' = Free

Ask(c, kind) ==
    /\ At(c, "idle") /\ consumer[c].requests < MaxRequests
    /\ kind = "watch" => consumer[c].cursor # NoCursor
    /\ Move(c, [AtEase(c) EXCEPT !.pc = "start", !.kind = kind, !.at = consumer[c].cursor,
                                 !.requests = @ + 1])
    /\ UNCHANGED <<transcript, indexed, granted, revoking, changeStream, opMu, mishaps>>

\* Each pass of Watch notes the hint counter before it queues for the mutex.
BeginPass(c) ==
    /\ At(c, "start")
    /\ Move(c, IF consumer[c].done \/ (consumer[c].kind = "watch" /\ changeStream.closed)
               THEN AtEase(c)
               ELSE [consumer[c] EXCEPT !.pc = "lock", !.hinted = FALSE])
    /\ UNCHANGED <<transcript, indexed, granted, revoking, changeStream, opMu, mishaps>>

CancelRequest(c) ==
    /\ ~At(c, "idle") /\ ~consumer[c].done /\ Mishap
    /\ Move(c, [consumer[c] EXCEPT !.done = TRUE])
    /\ UNCHANGED <<transcript, indexed, granted, revoking, changeStream, opMu>>

\* lockOperation polls for the mutex until the context ends.
GiveUpLock(c) ==
    /\ At(c, "lock") /\ consumer[c].done
    /\ Leave(c)
    /\ UNCHANGED <<transcript, indexed, granted, revoking, changeStream, opMu, mishaps>>

FindClosed(c) ==
    /\ At(c, "lock") /\ opMu = Free /\ consumer[c].kind = "watch" /\ changeStream.closed
    /\ Leave(c)
    /\ UNCHANGED <<transcript, indexed, granted, revoking, changeStream, opMu, mishaps>>

\* What indexing leaves in a source's checkpoint: caught up, or as far as an
\* earlier request left it.
CaughtUp(s) == [gen |-> transcript[s].gen, count |-> transcript[s].count]
Begun(s) == IF indexed[s].gen = transcript[s].gen THEN indexed[s]
            ELSE [gen |-> transcript[s].gen, count |-> 0]

\* collect under the mutex: the provider's sources, each indexed as far as the
\* budget reaches; one that fails, or that a cancelled context never reaches,
\* is left out and is a gap.
Collection(states, after) ==
    LET known == {s \in Sources : transcript[s].there} IN
    (IF \E s \in known : s \notin states \/ after[s].count < transcript[s].count
     THEN {"index_pending"} ELSE {})
    \cup {"source_unreadable" : s \in known \ states}
    \cup (IF \E s \in states : transcript[s].torn /\ after[s].count = transcript[s].count
          THEN {"partial_record"} ELSE {})

CollectGranted(c) ==
    /\ granted
    /\ \E states \in SUBSET {s \in Sources : transcript[s].there}, broken \in BOOLEAN :
         /\ IF broken \/ \E s \in Sources : transcript[s].there /\ s \notin states
            THEN (consumer[c].done /\ UNCHANGED mishaps) \/ Mishap
            ELSE UNCHANGED mishaps
         /\ \E reached \in SUBSET states :
              LET after == [s \in Sources |-> IF s \in reached THEN CaughtUp(s)
                                              ELSE IF s \in states THEN Begun(s)
                                              ELSE indexed[s]]
                  now   == [s \in Sources |-> IF s \in states THEN after[s] ELSE Unwatched]
              IN /\ indexed' = after
                 /\ Publish(Observed(changeStream, now, Collection(states, after), broken),
                            Become(c, [consumer[c] EXCEPT !.pc = "observed", !.states = states]))

CollectDenied(c) ==
    /\ ~granted
    /\ Publish(Observed(changeStream, [s \in Sources |-> Unwatched], {"content_access_disabled"}, FALSE),
               Become(c, [consumer[c] EXCEPT !.pc = "observed", !.states = {}]))
    /\ UNCHANGED <<indexed, mishaps>>

Collect(c) ==
    /\ At(c, "lock") /\ opMu = Free
    /\ consumer[c].kind = "watch" => ~changeStream.closed
    /\ opMu' = c
    /\ CollectGranted(c) \/ CollectDenied(c)
    /\ UNCHANGED <<transcript, granted, revoking>>

Denied == changeStream.closed \/ "content_access_disabled" \in changeStream.gaps

\* A query answers with every matching event of the states it collected, and
\* the cursor of the stream as it is under the same mutex.
QueryAnswer(c) ==
    /\ At(c, "observed") /\ consumer[c].kind = "query"
    /\ Move(c, IF consumer[c].done THEN AtEase(c)
               ELSE [AtEase(c) EXCEPT
                       !.held = UNION {EventsOf(s, indexed[s]) :
                                         s \in consumer[c].states \cap Selects[c]},
                       !.cursor = IF Denied THEN NoCursor
                                  ELSE Cursor(changeStream.next)])
    /\ Release(c)
    /\ UNCHANGED <<transcript, indexed, granted, revoking, changeStream, mishaps>>

\* parseCursorLocked: which cursors the stream cannot continue.
LostWindow(seq) == /\ changeStream.entries # {}
                   /\ \A e \in changeStream.entries : seq < e.seq - 1
MustReset(cursor) == ~cursor.live \/ LostWindow(cursor.seq)

Later(seq) == {e \in changeStream.entries : e.seq > seq}
Matching(c, es) == {e \in es : e.event[1] \in Selects[c]}
First(es) == {e \in es : Cardinality({f \in es : f.seq < e.seq}) < PageLimit}
Reached(seq, es) == IF es = {} THEN seq
                    ELSE CHOOSE n \in {e.seq : e \in es} : \A e \in es : e.seq <= n

\* The page of a poll: at most PageLimit matching changes, and the sequence
\* it reached; nothing that does not match keeps the cursor back.
PageOf(c, seq) ==
    LET found == Matching(c, Later(seq))
        full  == Cardinality(found) >= PageLimit
    IN [changes |-> First(found),
        seq     |-> Reached(seq, IF full THEN First(found) ELSE Later(seq))]

\* A consumer told to reset drops what it holds and queries again.
WatchRejected(c) ==
    /\ At(c, "observed") /\ consumer[c].kind = "watch"
    /\ consumer[c].done \/ Denied
    /\ Leave(c) /\ Release(c)
    /\ UNCHANGED <<transcript, indexed, granted, revoking, changeStream, mishaps>>

Asks(c) == At(c, "observed") /\ consumer[c].kind = "watch" /\ ~consumer[c].done /\ ~Denied

WatchReset(c) ==
    /\ Asks(c)
    /\ \/ MustReset(consumer[c].at) /\ UNCHANGED mishaps
       \/ Matching(c, Later(consumer[c].at.seq)) # {} /\ Mishap   \* the event is unreadable
    /\ Move(c, [AtEase(c) EXCEPT !.held = {}, !.cursor = NoCursor])
    /\ Release(c)
    /\ UNCHANGED <<transcript, indexed, granted, revoking, changeStream>>

WatchAnswer(c) ==
    /\ Asks(c) /\ ~MustReset(consumer[c].at)
    /\ LET page == PageOf(c, consumer[c].at.seq)
           cursor == Cursor(page.seq)
       IN Move(c,
            IF page.changes # {}
            THEN [AtEase(c) EXCEPT !.cursor = cursor,
                    !.held = @ \cup {e.event : e \in page.changes}]
            ELSE IF consumer[c].hinted
            THEN [consumer[c] EXCEPT !.pc = "start", !.at = cursor, !.states = {}]
            ELSE IF consumer[c].late
            THEN [AtEase(c) EXCEPT !.cursor = cursor]
            ELSE [consumer[c] EXCEPT !.pc = "wait", !.at = cursor, !.states = {}])
    /\ Release(c)
    /\ UNCHANGED <<transcript, indexed, granted, revoking, changeStream, mishaps>>

\* The select: the context, the wake channel, or the timer, then another pass.
EndWait(c) ==
    /\ At(c, "wait")
    /\ \/ consumer[c].done /\ Leave(c)
       \/ consumer[c].woken /\ Move(c, [consumer[c] EXCEPT !.pc = "start", !.woken = FALSE])
       \/ Move(c, [consumer[c] EXCEPT !.pc = "start", !.late = TRUE, !.woken = FALSE])
    /\ UNCHANGED <<transcript, indexed, granted, revoking, changeStream, opMu, mishaps>>

\* A cursor outlives WatchCursorTTL between two requests.
AgeCursor(c) ==
    /\ At(c, "idle") /\ consumer[c].cursor.live /\ Mishap
    /\ Move(c, [consumer[c] EXCEPT !.cursor.live = FALSE])
    /\ UNCHANGED <<transcript, indexed, granted, revoking, changeStream, opMu>>

-----------------------------------------------------------------------------
(* The background queue indexes a source on its own (PrepareSource) and    *)
(* tells the stream; access is revoked and granted; the service closes.    *)

PrepareSource(s) ==
    /\ opMu = Free /\ granted /\ ~changeStream.closed /\ transcript[s].there
    /\ CaughtUp(s) # indexed[s]
    /\ indexed' = [indexed EXCEPT ![s] = CaughtUp(s)]
    /\ NotifyEvidence
    /\ UNCHANGED <<transcript, granted, revoking, opMu, mishaps>>

SetEnabled(on) ==
    /\ granted # on /\ ~revoking /\ (on \/ Mishap) /\ (on => UNCHANGED mishaps)
    /\ granted' = on /\ revoking' = ~on
    /\ UNCHANGED <<transcript, indexed, changeStream, opMu, consumer>>

\* resetWatchLocked: every cursor and source reference is forgotten.
ResetWatch(w) == [Rotated(w) EXCEPT !.sources = [s \in Sources |-> Unwatched],
                                    !.ready = FALSE, !.gaps = {}]

Reset ==
    /\ revoking /\ opMu = Free
    /\ revoking' = FALSE
    /\ Publish(ResetWatch(changeStream), consumer)
    /\ UNCHANGED <<transcript, indexed, granted, opMu, mishaps>>

CloseService ==
    /\ opMu = Free /\ ~changeStream.closed
    /\ Publish([ResetWatch(changeStream) EXCEPT !.closed = TRUE], consumer)
    /\ UNCHANGED <<transcript, indexed, granted, revoking, opMu, mishaps>>

ServeRequest(c) ==
    \/ BeginPass(c) \/ GiveUpLock(c) \/ FindClosed(c) \/ Collect(c) \/ QueryAnswer(c)
    \/ WatchRejected(c) \/ WatchReset(c) \/ WatchAnswer(c) \/ EndWait(c)

WatchNext ==
    \/ \E s \in Sources : WriteEvent(s) \/ ReplaceTranscript(s) \/ PrepareSource(s)
    \/ \E c \in Consumers, kind \in {"query", "watch"} : Ask(c, kind)
    \/ \E c \in Consumers : CancelRequest(c) \/ AgeCursor(c) \/ ServeRequest(c)
    \/ \E on \in BOOLEAN : SetEnabled(on)
    \/ Reset \/ CloseService

WatchSpec == WatchInit /\ [][WatchNext]_watchVars

-----------------------------------------------------------------------------
(* Properties.                                                             *)

\* Every variable of the change stream has its type.
WatchType ==
    /\ transcript \in [Sources -> [there : BOOLEAN, gen : Nat, count : 0..MaxEvents, torn : BOOLEAN]]
    /\ indexed \in [Sources -> [gen : Nat, count : 0..MaxEvents]]
    /\ changeStream.sources \in [Sources -> [gen : Nat, count : 0..MaxEvents]]
    /\ \A e \in changeStream.entries :
         e.seq \in changeStream.next - HistoryLimit + 1 .. changeStream.next
    /\ opMu \in Consumers \cup {Free}
    /\ mishaps \in 0..MaxMishaps

\* The changes a poll with this cursor has still to bring.
Pending(c) == {e.event : e \in Matching(c, Later(consumer[c].cursor.seq))}

\* A consumer that follows its cursors misses nothing: as long as the stream
\* would accept its cursor, what it holds and what the window still has for it
\* are exactly the matching events of the sources last observed.
FollowerMissesNothing ==
    \A c \in Consumers :
        LET cursor == consumer[c].cursor IN
        ~MustReset(cursor) /\ ~changeStream.closed =>
            consumer[c].held \cup Pending(c)
                = UNION {EventsOf(s, changeStream.sources[s]) : s \in Selects[c]}

\* A poll sleeps only while it has nothing to answer: no event that its pass
\* could have indexed and did not, no matching change, no new epoch and no
\* closed stream, or it is already woken.
NoPollSleepsThrough ==
    \A c \in Consumers :
        At(c, "wait") /\ ~consumer[c].woken =>
            /\ changeStream.gaps = {} => \A s \in Sources : transcript[s].there => indexed[s] = CaughtUp(s)
            /\ consumer[c].at.live
            /\ Matching(c, Later(consumer[c].at.seq)) = {}
            /\ ~changeStream.closed

\* Between a query, its polls and its resets no change is lost or slept through.
StreamIsComplete == WatchType /\ FollowerMissesNothing /\ NoPollSleepsThrough

=============================================================================
