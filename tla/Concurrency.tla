----------------------------- MODULE Concurrency -----------------------------
(***************************************************************************)
(* How many sessions ran at once (metrics.go): a transcript scan turns the *)
(* event times of every trace into one session span and into bursts, cut   *)
(* where a trace fell silent; a snapshot, built later from the same spans, *)
(* sweeps over their edges for the peak of a window and for the value at   *)
(* each point of a trend, and claims a point only where transcripts reach. *)
(* Times are whole seconds, 0 is Go's zero time.                           *)
(***************************************************************************)
EXTENDS Integers, FiniteSets, Sequences, SequencesExt

CONSTANTS
  Traces,       \* the traces of the scanned transcripts
  Horizon,      \* the last time of the model
  MaxEvents,    \* bound: events over all traces
  IdleGap,      \* the silence that ends a burst
  MinInterval,  \* the length a shorter span is given
  Lookback,     \* how far back the configured scan reaches
  Specs         \* the trend windows, records [span, step]

ASSUME ConcurrencyAssumption ==
  /\ {Horizon, MaxEvents, IdleGap, MinInterval, Lookback} \subseteq Nat \ {0}
  /\ IsFiniteSet(Traces)
  /\ Specs \subseteq [span : Nat \ {0}, step : Nat \ {0}]

VARIABLES
  clock,        \* the clock
  eventTimes,   \* the event times each transcript holds
  scanned,      \* the last scan: the events it read and the spans it built
  shownTrend    \* what the last snapshot shows of it, None before the first

concurrencyVars == <<clock, eventTimes, scanned, shownTrend>>

None == [built |-> FALSE]
Time == 1 .. Horizon
Earliest(T) == CHOOSE t \in T : \A u \in T : t <= u
Latest(T) == CHOOSE t \in T : \A u \in T : u <= t
Later(a, b) == IF a < b THEN b ELSE a
Sooner(a, b) == IF a < b THEN a ELSE b

\* Times in their order.
Chronological(T) ==
  [i \in 1 .. Cardinality(T) |-> CHOOSE t \in T : Cardinality({u \in T : u < t}) = i - 1]

\* A span shorter than the least length is stretched from its start.
NormalizedInterval(span) ==
  [span EXCEPT !.end = Later(@, span.start + MinInterval)]

SessionSpans(read) ==
  {NormalizedInterval([trace |-> r, start |-> Earliest(read[r]), end |-> Latest(read[r])])
     : r \in {q \in Traces : read[q] # {}}}

\* The next event begins a new burst if it follows the one before by more than
\* the gap.
Follow(acc, t) ==
  IF t - acc.prev > IdleGap
  THEN [start |-> t, prev |-> t, closed |-> acc.closed \cup {<<acc.start, acc.prev>>}]
  ELSE [acc EXCEPT !.prev = t]

\* The bursts of one trace: its events in order, the last burst closed at the end.
BurstsOf(r, times) ==
  LET sorted == Chronological(times)
      walk[i \in 1 .. Len(sorted)] ==
        IF i = 1 THEN [start |-> sorted[1], prev |-> sorted[1], closed |-> {}]
        ELSE Follow(walk[i - 1], sorted[i])
      last == walk[Len(sorted)]
  IN  {NormalizedInterval([trace |-> r, start |-> b[1], end |-> b[2]])
         : b \in last.closed \cup {<<last.start, last.prev>>}}

BurstSpans(read) == UNION {BurstsOf(r, read[r]) : r \in {q \in Traces : read[q] # {}}}

\* What a live session shows of its trace; its spans have the default length.
DurationMetrics(r, read) ==
  LET span == CHOOSE s \in SessionSpans(read) : s.trace = r
      observed == span.end - span.start
      bursts == SetToSeq(BurstsOf(r, read[r]))
      busy == FoldLeft(LAMBDA n, b : n + (b.end - b.start), 0, bursts)
  IN  [first |-> span.start, observed |-> observed, active |-> Sooner(busy, observed),
       idle |-> observed - Sooner(busy, observed)]

-----------------------------------------------------------------------------
(* The sweep.                                                              *)

\* The spans that reach into a window, cut to it; one with nothing left is out.
Clipped(spans, from, to) ==
  {s \in {[of |-> q, start |-> Later(q.start, from), end |-> Sooner(q.end, to)]
            : q \in {q \in spans : q.end >= from /\ q.start < to}} : s.end > s.start}

\* When a span of these begins or ends.
Edges(cut) == Chronological({s.start : s \in cut} \cup {s.end : s \in cut})

\* Mutant: at one time a start comes before an end.
StartsFirst(acc, cut, t) ==
  LET starts == Cardinality({s \in cut : s.start = t})
      current == acc.current + starts
      left == current - Cardinality({s \in cut : s.end = t})
  IN  IF starts > 0 /\ current > acc.value
      THEN [current |-> left, value |-> current, at |-> t]
      ELSE [acc EXCEPT !.current = left]

\* The edges of one time: the ends, then the starts, each of which may be more
\* than there were at once before.
Take(acc, cut, t) ==
  LET starts == Cardinality({s \in cut : s.start = t})
      current == acc.current - Cardinality({s \in cut : s.end = t}) + starts
  IN  IF starts > 0 /\ current > acc.value
      THEN [current |-> current, value |-> current, at |-> t]
      ELSE [acc EXCEPT !.current = current]

\* The spans open after the first n edges, and the most there were by then.
Sweep(cut, n) ==
  LET edges == Edges(cut)
      after[i \in 0 .. n] == IF i = 0 THEN [current |-> 0, value |-> 0, at |-> 0]
                             ELSE Take(after[i - 1], cut, edges[i])
  IN  after[n]

PeakConcurrency(spans, from, to) ==
  LET cut == Clipped(spans, from, to)
      sweep == Sweep(cut, Len(Edges(cut)))
  IN  [value |-> sweep.value, at |-> sweep.at]

\* The grid of a trend: from its start by its step, and its end.
TrendPointTimes(from, to, step) ==
  Chronological({t \in from .. to : (t - from) % step = 0} \cup {to})

\* At each point of the grid, the spans open after the edges up to it.
ConcurrencySeries(spans, grid) ==
  LET cut == Clipped(spans, grid[1], grid[Len(grid)])
      edges == Edges(cut)
  IN  [i \in 1 .. Len(grid) |->
         Sweep(cut, Cardinality({j \in 1 .. Len(edges) : edges[j] <= grid[i]})).current]

\* The earliest moment, inside the lookback, that a transcript says anything
\* of; 0 if none. A time in the future does not count.
TranscriptEvidenceStart(data, now) ==
  LET from == now - Lookback
      overlaps == {Later(s.start, from)
                     : s \in {q \in data.sessions \cup data.bursts : q.end >= from /\ q.start <= now}}
      seen == {t \in overlaps \cup UNION {data.read[r] : r \in Traces} : t >= from /\ t <= now}
  IN  IF seen = {} THEN 0 ELSE Earliest(seen)

\* A point of a trend: unsampled at the terminal point and before the evidence.
TrendWindow(data, now, spec) ==
  LET from == now - spec.span
      grid == TrendPointTimes(from, now, spec.step)
      active == ConcurrencySeries(data.bursts, grid)
      sessions == ConcurrencySeries(data.sessions, grid)
      source == TranscriptEvidenceStart(data, now)
      Point(i) == [at |-> grid[i],
                   sampled |-> i # Len(grid) /\ source # 0 /\ grid[i] >= source,
                   active |-> active[i], sessions |-> sessions[i]]
  IN  [from |-> from, complete |-> source # 0 /\ source <= from,
       points |-> [i \in 1 .. Len(grid) |-> Point(i)]]

-----------------------------------------------------------------------------
ConcurrencyInit ==
  /\ clock = Horizon \div 2
  /\ eventTimes = [r \in Traces |-> {}]
  /\ scanned = [read |-> [r \in Traces |-> {}], sessions |-> {}, bursts |-> {}]
  /\ shownTrend = None

\* An agent appends an event; its stamp may be old, or ahead of this clock.
RecordEvent(r, t) ==
  /\ FoldLeft(LAMBDA n, q : n + Cardinality(eventTimes[q]), 0, SetToSeq(Traces)) < MaxEvents
  /\ eventTimes' = [eventTimes EXCEPT ![r] = @ \cup {t}]
  /\ UNCHANGED <<clock, scanned, shownTrend>>

Pass ==
  /\ clock < Horizon
  /\ clock' = clock + 1
  /\ UNCHANGED <<eventTimes, scanned, shownTrend>>

\* A scan reads the transcripts and builds the spans every snapshot shares.
BuildSpans ==
  /\ scanned' = [read |-> eventTimes, sessions |-> SessionSpans(eventTimes),
                 bursts |-> BurstSpans(eventTimes)]
  /\ UNCHANGED <<clock, eventTimes, shownTrend>>

\* A snapshot: the peaks of a window and the trends, from the last scan's spans.
BuildTrends ==
  /\ shownTrend' =
       [built |-> TRUE, now |-> clock, data |-> scanned,
        peaks |-> [spec \in Specs |->
                     [sessions |-> PeakConcurrency(scanned.sessions, clock - spec.span, clock),
                      active |-> PeakConcurrency(scanned.bursts, clock - spec.span, clock)]],
        windows |-> [spec \in Specs |-> TrendWindow(scanned, clock, spec)],
        durations |-> [r \in {q \in Traces : scanned.read[q] # {}} |->
                         DurationMetrics(r, scanned.read)]]
  /\ UNCHANGED <<clock, eventTimes, scanned>>

ConcurrencyNext ==
  \/ \E r \in Traces, t \in Time : RecordEvent(r, t)
  \/ Pass
  \/ BuildSpans
  \/ BuildTrends

ConcurrencySpec == ConcurrencyInit /\ [][ConcurrencyNext]_concurrencyVars

-----------------------------------------------------------------------------
\* Reference: the spans that hold at a moment, their end not counted.
Covering(spans, t) == Cardinality({s \in spans : s.start <= t /\ t < s.end})

PeakIsTheMaximum ==
  shownTrend.built =>
    \A spec \in Specs :
      LET moments == (shownTrend.now - spec.span) .. (shownTrend.now - 1)
          Right(peak, spans) ==
            /\ \A t \in moments : Covering(spans, t) <= peak.value
            /\ peak.value > 0 =>
                 /\ peak.at \in moments
                 /\ Covering(spans, peak.at) = peak.value
                 /\ \A t \in moments : t < peak.at => Covering(spans, t) < peak.value
      IN  /\ Right(shownTrend.peaks[spec].sessions, shownTrend.data.sessions)
          /\ Right(shownTrend.peaks[spec].active, shownTrend.data.bursts)

\* A claimed value is the number of spans over that moment, and it is claimed
\* only when some event of the lookback is not later than it.
PointsAreMeasured ==
  shownTrend.built =>
    \A spec \in Specs :
      LET w == shownTrend.windows[spec]
      IN  \A i \in 1 .. Len(w.points) :
            LET p == w.points[i]
            IN  p.sampled =>
                  /\ p.active = Covering(shownTrend.data.bursts, p.at)
                  /\ p.sessions = Covering(shownTrend.data.sessions, p.at)
                  /\ \E s \in shownTrend.data.sessions : s.start <= p.at

\* Bursts hold every event, two events no further apart than the gap share one,
\* and no burst holds a silence longer than it.
BurstsFollowTheGap ==
  \A r \in Traces :
    LET times == scanned.read[r]
        mine == {b \in scanned.bursts : b.trace = r}
        Own(t) == {b \in mine : b.start <= t /\ t <= b.end}
        raw == {t \in times : \A u \in times : u < t => t - u > IdleGap}
    IN  /\ \A t \in times : Own(t) # {}
        /\ {b.start : b \in mine} = raw
        /\ \A t, u \in times : t < u /\ u - t <= IdleGap => Own(t) \cap Own(u) # {}

\* What the snapshot says of concurrency is what the events say (metrics.go:158,
\* 257 "claiming 0 was the fabrication"): the sweep over the edges finds the
\* true maximum and its first moment although spans touch end to start, are cut
\* by the window or stretched; every claimed point of a trend is the count at
\* that moment; bursts cover each event and split exactly at the silences.
ConcurrencyIsMeasured ==
  PeakIsTheMaximum /\ PointsAreMeasured /\ BurstsFollowTheGap
=============================================================================
