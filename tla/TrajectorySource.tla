-------------------------- MODULE TrajectorySource --------------------------
(***************************************************************************)
(* The source store of the trajectory service (source_store.go and the     *)
(* source_*.go beside it), for one transcript.  The store does not keep    *)
(* the events: it keeps where they are, a chain of hashed ranges of the    *)
(* file, with a filter per range, and decodes the file again for every     *)
(* answer.  Operations run one at a time under the service's mutex, but    *)
(* the agent writes the file at any moment, so each operation pins the     *)
(* file when it opens it and checks the pin before it publishes.           *)
(*                                                                         *)
(* A line is a value: "hit" is an event a query matches, "miss" an event   *)
(* it does not, "quiet" a record without events.  The hash and the filter  *)
(* of a range are the lines they were computed from.  Offsets count lines. *)
(***************************************************************************)
EXTENDS Integers, Sequences, FiniteSets, SequencesExt

CONSTANTS Values,     \* the lines an agent writes, of {"hit", "miss", "quiet"}
          StartLines, \* bound: lines of the file at the start
          MaxLines,   \* bound: complete lines of the file
          MaxWrites,  \* bound: writes to the file
          RangeLines, \* replayChunkBytes: a range this long is never extended
          AuditRanges \* ranges one bounded audit call verifies

ASSUME SourceConstants ==
    /\ Values \subseteq {"hit", "miss", "quiet"}
    /\ MaxLines \in Nat /\ StartLines \in 0..MaxLines /\ MaxWrites \in Nat
    /\ RangeLines \in Nat \ {0} /\ AuditRanges \in Nat \ {0}

VARIABLES log,     \* the transcript on disk
          row,     \* the active row of the source and its ranges
          task,    \* the operation under way
          pages,   \* a client that pages through a query
          reply    \* what the last query returned, until the next operation

sourceVars == <<log, row, task, pages, reply>>

-----------------------------------------------------------------------------
\* What a stat sees.  The modification time is new after every write.
Size(f) == 2 * Len(f.lines) + (IF f.torn THEN 1 ELSE 0)
Stat(f) == [inode |-> f.inode, size |-> Size(f), mtime |-> f.mtime]
Never == [size |-> -1, mtime |-> -1]
Span(s) == [size |-> s.size, mtime |-> s.mtime]

IsEvent(v) == v # "quiet"
Events(lines) == {i \in DOMAIN lines : IsEvent(lines[i])}
HitsIn(lines, upto) == {i \in DOMAIN lines : lines[i] = "hit" /\ i <= upto}

\* sourceCheckpoint, the search frontier, the audit cursor and the seal.
NoRow == [there |-> FALSE, missing |-> FALSE, inode |-> 0, size |-> -1, mtime |-> -1,
          offset |-> 0, count |-> 0, prefix |-> <<>>, anchor |-> <<>>,
          ready |-> 0, frontier |-> 0, seal |-> Never, audited |-> Never, after |-> 0,
          ranges |-> <<>>]

NoTask == [kind |-> "none", pin |-> Stat([inode |-> 0, lines |-> <<>>, torn |-> FALSE, mtime |-> 0]),
           base |-> NoRow, read |-> <<>>, at |-> 0, hits |-> {}]
NoPages == [live |-> FALSE, served |-> 0, held |-> {}]
NoReply == [given |-> FALSE, hits |-> {}, upto |-> 0]

\* ranges: [from, lines], each starting where the one before it ends.
End(r) == r.from + Len(r.lines)
Last1(s) == s[Len(s)]

\* What the bytes of a range are now.
Bytes(r) == IF End(r) <= Len(log.lines) THEN SubSeq(log.lines, r.from + 1, End(r)) ELSE <<>>
Verified(r) == Bytes(r) = r.lines

-----------------------------------------------------------------------------
(* The agent.                                                              *)

Write(f) ==
    /\ log.mtime < MaxWrites
    /\ log' = [f EXCEPT !.mtime = log.mtime + 1]
    /\ reply' = NoReply
    /\ UNCHANGED <<row, task, pages>>

AppendRecord(v) == /\ Len(log.lines) < MaxLines
                   /\ Write([log EXCEPT !.lines = Append(@, v), !.torn = FALSE])

TearRecord == Len(log.lines) < MaxLines /\ ~log.torn /\ Write([log EXCEPT !.torn = TRUE])

\* A line is overwritten in place by one of the same length.
OverwriteRecord(i, v) == log.lines[i] # v /\ Write([log EXCEPT !.lines[i] = v])

\* The file is truncated to its first n lines, or replaced by a copy of them.
TruncateLog(n) == n < Len(log.lines) /\ Write([log EXCEPT !.lines = SubSeq(@, 1, n), !.torn = FALSE])
ReplaceLog(n) == n \in {0, Len(log.lines)} /\ Write([log EXCEPT !.inode = @ + 1, !.lines = SubSeq(@, 1, n), !.torn = FALSE])

-----------------------------------------------------------------------------
(* Pins.                                                                   *)

\* The prefix and the last indexed line are still where they were.
AnchorsHold(r) ==
    /\ IsPrefix(r.prefix, log.lines)
    /\ r.anchor # <<>> => r.offset <= Len(log.lines) /\ log.lines[r.offset] = r.anchor[1]

\* checkpointSourceMatch: does the row continue the file as it is?
Continues(r) ==
    /\ r.there /\ ~r.missing
    /\ r.inode = log.inode /\ Size(log) >= r.size
    /\ Size(log) = r.size => log.mtime = r.mtime
    /\ AnchorsHold(r)

\* openReplaySource: may the row's ranges be read from the file as it is?
Opens(r) == Continues(r) /\ Size(log) >= 2 * r.offset

\* finishReplaySource: nothing was written since the operation began.
Pinned == Stat(log) = task.pin

Begin(t) == task' = [t EXCEPT !.pin = Stat(log)] /\ reply' = NoReply
Abandon == task' = NoTask /\ UNCHANGED <<log, row, pages, reply>>

\* A committed write moves the store revision: page cursors of before are stale.
Commit(r) == /\ row' = r
             /\ pages' = [pages EXCEPT !.live = FALSE]
             /\ task' = NoTask
             /\ UNCHANGED <<log, reply>>

-----------------------------------------------------------------------------
(* indexSource.                                                            *)

\* A file the row does not continue starts a new generation, a row of its own.
BeginIndex ==
    /\ task.kind = "none"
    /\ Begin([NoTask EXCEPT !.kind = "index",
                !.base = IF Continues(row) THEN row
                         ELSE [NoRow EXCEPT !.there = TRUE, !.inode = log.inode,
                                 !.prefix = SubSeq(log.lines, 1, IF log.lines = <<>> THEN 0 ELSE 1)]])
    /\ UNCHANGED <<log, row, pages>>

\* The scan reads complete lines up to the size it saw, and stops early when
\* its budget or its context ends.
ScanRecords(n) ==
    /\ task.kind = "index" /\ task.at = 0
    /\ LET seen == IF task.pin.size \div 2 < Len(log.lines) THEN task.pin.size \div 2
                   ELSE Len(log.lines)
       IN /\ task.base.offset + n <= seen
          /\ task' = [task EXCEPT !.at = 1,
                        !.read = SubSeq(log.lines, task.base.offset + 1, task.base.offset + n)]
    /\ UNCHANGED <<log, row, pages, reply>>

\* sourceTail: an unfinished last range is extended, a full one is left alone.
ExtendRanges(ranges, v) ==
    IF ranges # <<>> /\ Len(Last1(ranges).lines) < RangeLines
    THEN [ranges EXCEPT ![Len(ranges)].lines = Append(@, v)]
    ELSE Append(ranges, [from |-> IF ranges = <<>> THEN 0 ELSE End(Last1(ranges)), lines |-> <<v>>])

\* The chain after the records of a scan, one by one.
Extended(ranges, lines) ==
    LET chain[i \in 0..Len(lines)] ==
          IF i = 0 THEN ranges ELSE ExtendRanges(chain[i - 1], lines[i])
    IN chain[Len(lines)]

\* Mutant: new events count as prepared although older ones are not.
IndexedAsReady(base, read) ==
    LET events == {base.offset + i : i \in Events(read)}
        count  == base.count + Cardinality(events)
    IN [base EXCEPT
          !.size = task.pin.size, !.mtime = task.pin.mtime,
          !.offset = @ + Len(read), !.count = count,
          !.anchor = IF read = <<>> THEN @ ELSE <<Last1(read)>>,
          !.ranges = Extended(@, read),
          !.ready = count,
          !.frontier = IF events # {}
                       THEN CHOOSE i \in events : \A j \in events : j <= i ELSE @]

\* The row after the scan.  Its frontier follows only if nothing was left to
\* prepare before; the seal and the audit cursor stay what they were.
Indexed(base, read) ==
    LET events == {base.offset + i : i \in Events(read)}
        count  == base.count + Cardinality(events)
    IN [base EXCEPT
          !.size = task.pin.size, !.mtime = task.pin.mtime,
          !.offset = @ + Len(read), !.count = count,
          !.anchor = IF read = <<>> THEN @ ELSE <<Last1(read)>>,
          !.ranges = Extended(@, read),
          !.ready = IF @ = base.count THEN count ELSE @,
          !.frontier = IF base.ready = base.count /\ events # {}
                       THEN CHOOSE i \in events : \A j \in events : j <= i ELSE @]

CommitIndex ==
    /\ task.kind = "index" /\ task.at = 1 /\ Pinned
    /\ Commit(Indexed(task.base, task.read))

AbandonIndex ==
    /\ task.kind = "index" /\ task.at = 1 /\ ~Pinned
    /\ Abandon

-----------------------------------------------------------------------------
(* walkSourceCandidateRanges and query.                                    *)

\* A query reads the frontier and the seal with the row, and a page cursor is
\* good only for the revision it was given out at.
BeginQuery ==
    /\ task.kind = "none" /\ row.there /\ ~row.missing /\ Opens(row)
    /\ Begin([NoTask EXCEPT !.kind = "query", !.base = row, !.at = 1])
    /\ pages' = IF pages.live THEN pages ELSE [NoPages EXCEPT !.live = TRUE]
    /\ UNCHANGED <<log, row>>

MayMatch(r) == \E i \in DOMAIN r.lines : r.lines[i] = "hit"
\* Mutant: a seal is good for whatever the file has become.
SealedOnce(r) == r.seal # Never
Sealed(r) == r.seal = Span(task.pin)
Beyond(r, n) == n > Len(r.ranges) \/ r.ready = 0 \/ r.ranges[n].from >= r.frontier

Walking == task.kind = "query" /\ ~Beyond(task.base, task.at)
Next1 == task.base.ranges[task.at]

\* The filter excludes the range, and a seal of this very file vouches for it.
SkipSealedRange ==
    /\ Walking /\ ~MayMatch(Next1) /\ Sealed(task.base)
    /\ task' = [task EXCEPT !.at = @ + 1]
    /\ UNCHANGED <<log, row, pages, reply>>

\* The filter excludes the range, and its bytes are what the filter was made of.
SkipVerifiedRange ==
    /\ Walking /\ ~MayMatch(Next1) /\ ~Sealed(task.base) /\ Verified(Next1)
    /\ task' = [task EXCEPT !.at = @ + 1]
    /\ UNCHANGED <<log, row, pages, reply>>

\* The range is decoded again: its events up to the frontier.
ReplayRange ==
    /\ Walking /\ MayMatch(Next1) /\ Verified(Next1)
    /\ task' = [task EXCEPT !.at = @ + 1,
                  !.hits = @ \cup {Next1.from + i : i \in HitsIn(Next1.lines, task.base.frontier - Next1.from)}]
    /\ UNCHANGED <<log, row, pages, reply>>

\* ErrStale: the bytes are not the ones of the index.
StaleRange ==
    /\ Walking /\ ~Verified(Next1) /\ (MayMatch(Next1) \/ ~Sealed(task.base))
    /\ Abandon

\* One page: the next match after the ones served.
PageAfter(hits, served) ==
    LET rest == {h \in hits : Cardinality({g \in hits : g < h}) >= served}
    IN IF rest = {} THEN {} ELSE {CHOOSE h \in rest : \A g \in rest : h <= g}

FinishQuery ==
    /\ task.kind = "query" /\ ~Walking
    /\ task' = NoTask
    /\ IF ~Pinned THEN UNCHANGED <<pages, reply>>
       ELSE /\ reply' = [given |-> TRUE, hits |-> task.hits,
                         upto |-> IF task.base.ready = 0 THEN 0 ELSE task.base.frontier]
            /\ pages' = [pages EXCEPT !.held = @ \cup PageAfter(task.hits, pages.served),
                                      !.served = @ + Cardinality(PageAfter(task.hits, pages.served))]
    /\ UNCHANGED <<log, row>>

-----------------------------------------------------------------------------
(* advanceReadiness and auditSource.                                       *)

\* The first range with an event beyond the frontier.
NextUnready(r) ==
    LET beyond == {n \in DOMAIN r.ranges :
                     \E i \in Events(r.ranges[n].lines) : r.ranges[n].from + i > r.frontier}
    IN CHOOSE n \in beyond : \A k \in beyond : n <= k

BeginReadiness ==
    /\ task.kind = "none" /\ row.there /\ ~row.missing /\ Opens(row) /\ row.ready < row.count
    /\ Begin([NoTask EXCEPT !.kind = "ready", !.base = row, !.at = NextUnready(row)])
    /\ UNCHANGED <<log, row, pages>>

\* At most searchBatchEvents of its facts, from the verified range.
AdvanceReadiness ==
    /\ task.kind = "ready"
    /\ IF ~Verified(Next1) \/ ~Pinned THEN Abandon
       ELSE \E upto \in {Next1.from + i : i \in Events(Next1.lines)} :
              /\ upto > row.frontier
              /\ Commit([row EXCEPT !.frontier = upto,
                           !.ready = @ + Cardinality({i \in Events(Next1.lines) :
                                           Next1.from + i > row.frontier /\ Next1.from + i <= upto})])

\* An audit of the same file continues after its cursor, of another starts over;
\* a file already sealed is left alone.
BeginAudit ==
    /\ task.kind = "none" /\ row.there /\ ~row.missing /\ Opens(row) /\ row.ready = row.count
    /\ row.seal # Span(Stat(log))
    /\ Begin([NoTask EXCEPT !.kind = "audit", !.base = row,
                !.at = 1 + IF row.audited = Span(Stat(log)) THEN row.after ELSE 0])
    /\ UNCHANGED <<log, row, pages>>

Auditing == task.kind = "audit" /\ task.at <= Len(task.base.ranges)
            /\ Len(task.read) < AuditRanges

VerifyRange ==
    /\ Auditing
    /\ IF Verified(Next1)
       THEN /\ task' = [task EXCEPT !.at = @ + 1, !.read = Append(@, "verified")]
            /\ UNCHANGED <<log, row, pages, reply>>
       ELSE Abandon

\* The audit commit moves no revision.  Only its last range seals the file.
CommitAudit ==
    /\ task.kind = "audit" /\ ~Auditing
    /\ IF ~Pinned THEN Abandon
       ELSE /\ row' = [row EXCEPT !.audited = Span(task.pin), !.after = task.at - 1,
                         !.seal = IF task.at > Len(task.base.ranges) THEN Span(task.pin) ELSE @]
            /\ task' = NoTask
            /\ UNCHANGED <<log, pages, reply>>

-----------------------------------------------------------------------------
\* prune: a complete catalog without the source denies it, and keeps its row.
PruneSource ==
    /\ task.kind = "none" /\ row.there /\ ~row.missing
    /\ row' = [row EXCEPT !.missing = TRUE]
    /\ pages' = [pages EXCEPT !.live = FALSE]
    /\ reply' = NoReply
    /\ UNCHANGED <<log, task>>

\* The process dies: the operation under way had committed nothing.
CrashTask == task.kind # "none" /\ Abandon

\* The store starts empty, or with a migrated source whose search frontier is
\* behind its first line.
Imported(lines, frontier) ==
    LET chain  == Extended(<<>>, lines)
        before == {i \in Events(lines) : i <= frontier}
    IN [NoRow EXCEPT !.there = TRUE, !.inode = 1, !.size = 2 * Len(lines), !.mtime = 0,
          !.offset = Len(lines), !.count = Cardinality(Events(lines)),
          !.prefix = SubSeq(lines, 1, IF lines = <<>> THEN 0 ELSE 1),
          !.anchor = IF lines = <<>> THEN <<>> ELSE <<Last1(lines)>>,
          !.ranges = chain, !.ready = Cardinality(before),
          !.frontier = IF before = {} THEN 0 ELSE CHOOSE i \in before : \A j \in before : j <= i,
          !.seal = [size |-> 2 * Len(lines), mtime |-> 0]]

SourceInit ==
    /\ \E lines \in [1..StartLines -> Values] :
         /\ log = [inode |-> 1, lines |-> lines, torn |-> FALSE, mtime |-> 0]
         /\ row \in {NoRow, Imported(lines, 1)}
    /\ task = NoTask /\ pages = NoPages /\ reply = NoReply

SourceNext ==
    \/ \E v \in Values : AppendRecord(v) \/ \E i \in DOMAIN log.lines : OverwriteRecord(i, v)
    \/ \E n \in 0..Len(log.lines) : TruncateLog(n) \/ ReplaceLog(n)
    \/ TearRecord
    \/ BeginIndex \/ (\E n \in 0..MaxLines : ScanRecords(n)) \/ CommitIndex \/ AbandonIndex
    \/ BeginQuery \/ SkipSealedRange \/ SkipVerifiedRange \/ ReplayRange \/ StaleRange
    \/ FinishQuery
    \/ BeginReadiness \/ AdvanceReadiness
    \/ BeginAudit \/ VerifyRange \/ CommitAudit
    \/ PruneSource \/ CrashTask

SourceSpec == SourceInit /\ [][SourceNext]_sourceVars

-----------------------------------------------------------------------------
(* Properties.                                                             *)

\* Every variable of the source store has its type.
SourceType ==
    /\ log.mtime \in 0..MaxWrites /\ Len(log.lines) <= MaxLines
    /\ row.offset \in 0..MaxLines /\ row.count \in 0..MaxLines /\ row.ready \in 0..row.count
    /\ task.kind \in {"none", "index", "query", "ready", "audit"}

\* A query that returns has every match of the file as it is, up to the search
\* frontier, and no other: neither a filter made of bytes since rewritten, nor
\* a seal of an earlier file, nor a stale range hides or invents one.
AnswerMatchesFile == reply.given => reply.hits = HitsIn(log.lines, reply.upto)

\* The pages of one cursor are one answer: the first matches of one state of
\* the index, none twice and none skipped.
PagesAreOneAnswer ==
    reply.given => /\ Cardinality(pages.held) = pages.served
                   /\ \A h \in pages.held, g \in reply.hits : g < h => g \in pages.held

\* A seal vouches only for bytes that were verified: whenever it names the
\* file as it is, every range of the row is that file's.
SealMeansVerified ==
    row.there /\ row.seal = Span(Stat(log)) /\ row.inode = log.inode =>
        \A n \in DOMAIN row.ranges : Verified(row.ranges[n])

\* The events of a chain of ranges, by their offsets.
IndexedEvents(ranges) ==
    UNION {{ranges[n].from + i : i \in Events(ranges[n].lines)} : n \in DOMAIN ranges}

\* The search frontier skips no event: what is ready is exactly the events up
\* to it, and the ranges are one chain up to the checkpoint.
FrontierSkipsNothing ==
    /\ row.count = Cardinality(IndexedEvents(row.ranges))
    /\ row.ready = Cardinality({i \in IndexedEvents(row.ranges) : i <= row.frontier})
    /\ \A n \in DOMAIN row.ranges :
         row.ranges[n].from = IF n = 1 THEN 0 ELSE End(row.ranges[n - 1])
    /\ row.offset = IF row.ranges = <<>> THEN 0 ELSE End(Last1(row.ranges))

\* What a reader gets is the file's, or nothing.
AnswersAreExact == SourceType /\ AnswerMatchesFile /\ PagesAreOneAnswer

\* What the row says of its own verification is earned.
ReadinessIsEarned == SealMeansVerified /\ FrontierSkipsNothing
=============================================================================
