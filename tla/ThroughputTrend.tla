--------------------------- MODULE ThroughputTrend ---------------------------
(***************************************************************************)
(* The charts of the token rate (metrics.go): minute facts are rolled up   *)
(* into rates over windows of several minutes, a missing or unmeasured     *)
(* minute must show as a gap, long series are thinned to a bounded number  *)
(* of points, legacy rates become series of their own, and the runtime     *)
(* samples are bucketed. All of it is recomputed from the facts for every  *)
(* snapshot, so the charts are operators on the state.                     *)
(* One unit of time is a minute, the resolution of the facts.              *)
(***************************************************************************)
EXTENDS Integers, FiniteSets, Sequences, SequencesExt

CONSTANTS
  LastMinute,   \* the last minute of the model
  MaxRows,      \* bound: minutes, legacy rates and runtime samples together
  MinuteFacts,  \* what a minute can hold: [measured, state, partial, projects]
  Rollups,      \* the rollup windows, in minutes
  MaxPoints,    \* the most points a thinned series has
  MaxTokens,    \* where a token sum saturates
  TrendSpan,    \* the trend window and its step
  TrendStep

ASSUME TrendAssumption ==
  /\ {LastMinute, MaxRows, MaxTokens, TrendSpan, TrendStep} \subseteq Nat \ {0}
  /\ Rollups \subseteq Nat \ {0} /\ MaxPoints \in Nat \ {0, 1}

VARIABLES
  minute,       \* the clock
  facts,        \* the minute facts of the history: minute -> fact
  legacyRates,  \* rates a former version stored: minute -> whether it has one
  runtime       \* the minutes a runtime sample was taken

trendVars == <<minute, facts, legacyRates, runtime>>

Minutes == 0 .. LastMinute
Ordered(T) == SetToSortSeq(T, <)
SaturatingAdd(a, b) == IF a + b > MaxTokens THEN MaxTokens ELSE a + b

\* A fact holds [project -> [tokens, sessions]]; its total is their sum.
TokensOf(f) ==
  FoldLeft(LAMBDA n, p : SaturatingAdd(n, f.projects[p].tokens), 0,
           SetToSeq(DOMAIN f.projects))

MissingRank(state) ==
  CASE state = "no_data" -> 1 [] state = "stale" -> 2
    [] state = "unavailable" -> 3 [] OTHER -> 0

CombinedMissingState(left, right) ==
  IF MissingRank(right) > MissingRank(left) THEN right ELSE left

\* The point of a full window of minutes; one unmeasured minute leaves it empty
\* and the first of them joins the latest minute in naming the reason.
RollupPoint(at, window) ==
  LET run == [i \in 1 .. Len(window) |-> facts[window[i]]]
      empty == {i \in DOMAIN run : ~run[i].measured}
      latest == run[Len(run)].state
      named == UNION {DOMAIN run[i].projects : i \in DOMAIN run}
      Tokens(p) == FoldLeft(LAMBDA n, f : IF p \in DOMAIN f.projects
                                          THEN SaturatingAdd(n, f.projects[p].tokens)
                                          ELSE n, 0, run)
      Sessions(p) == UNION {run[i].projects[p].sessions
                              : i \in {j \in DOMAIN run : p \in DOMAIN run[j].projects}}
      total == FoldLeft(LAMBDA n, f : SaturatingAdd(n, TokensOf(f)), 0, run)
  IN  IF empty # {}
      THEN [at |-> at, rated |-> FALSE,
            state |-> CombinedMissingState(latest, run[Ordered(empty)[1]].state)]
      ELSE [at |-> at, rated |-> TRUE, tokens |-> total,
            state |-> IF total > 0 THEN "live" ELSE "zero",
            sessions |-> Cardinality(UNION {Sessions(p) : p \in named}),
            partial |-> \E i \in DOMAIN run : run[i].partial,
            projects |-> [p \in {q \in named : Tokens(q) > 0} |->
                            [tokens |-> Tokens(p), sessions |-> Cardinality(Sessions(p))]]]

GapPoint(at) == [at |-> at, rated |-> FALSE, state |-> "no_data"]

\* Mutant: the run of minutes goes on over a gap.
RollupOverGaps(count) ==
  LET timed == Ordered(DOMAIN facts)
      Add(acc, i) ==
        LET gap == i > 1 /\ timed[i] - timed[i - 1] # 1
            marked == IF gap THEN Append(acc.out, GapPoint(timed[i - 1] + 1)) ELSE acc.out
        IN  [start |-> acc.start,
             out |-> IF i - acc.start + 1 < count THEN marked
                     ELSE Append(marked, RollupPoint(timed[i], SubSeq(timed, i - count + 1, i)))]
  IN  FoldLeft(Add, [start |-> 1, out |-> <<>>], [i \in 1 .. Len(timed) |-> i]).out

\* Minutes in order; a jump leaves a gap right after the run it ends, and a rate
\* needs a full window of the run.
Rollup(count) ==
  LET timed == Ordered(DOMAIN facts)
      Add(acc, i) ==
        LET gap == i > 1 /\ timed[i] - timed[i - 1] # 1
            start == IF gap THEN i ELSE acc.start
            marked == IF gap THEN Append(acc.out, GapPoint(timed[i - 1] + 1)) ELSE acc.out
        IN  [start |-> start,
             out |-> IF i - start + 1 < count THEN marked
                     ELSE Append(marked, RollupPoint(timed[i], SubSeq(timed, i - count + 1, i)))]
  IN  FoldLeft(Add, [start |-> 1, out |-> <<>>], [i \in 1 .. Len(timed) |-> i]).out

LegacySamples ==
  LET timed == Ordered(DOMAIN legacyRates)
  IN  [i \in 1 .. Len(timed) |-> [at |-> timed[i], rated |-> legacyRates[timed[i]],
                                  tokens |-> 1, state |-> "live"]]

SamplesInRange(series, from, to) ==
  SelectSeq(series, LAMBDA p : p.at >= from /\ p.at <= to)

\* The length of a bucket, rounded up so that MaxPoints buckets hold the series.
ThinningStep(series) ==
  (series[Len(series)].at - series[1].at + MaxPoints - 2) \div (MaxPoints - 1)

\* A long series keeps one sample for each bucket of time: its first in the
\* first bucket and its last in the others, unless the bucket has a gap.
Thinned(series) ==
  LET step == ThinningStep(series)
      Add(acc, p) ==
        LET bucket == (p.at - series[1].at) \div step
        IN  CASE bucket = 0 -> IF p.rated THEN acc ELSE [acc EXCEPT !.out = <<p>>]
              [] bucket > 0 /\ bucket = acc.bucket ->
                   IF Last(acc.out).rated \/ ~p.rated
                   THEN [acc EXCEPT !.out = Append(Front(@), p)] ELSE acc
              [] OTHER -> [bucket |-> bucket, out |-> Append(acc.out, p)]
  IN  IF Len(series) <= MaxPoints THEN series
      ELSE IF step <= 0 THEN <<series[1]>>
      ELSE FoldLeft(Add, [bucket |-> 0, out |-> <<series[1]>>], Tail(series)).out

\* The granularity of a series: its step if thinned, else the median interval.
Granularity(series) ==
  LET steps == SelectSeq([i \in 1 .. Len(series) - 1 |-> series[i + 1].at - series[i].at],
                         LAMBDA d : d > 0)
      sorted == SortSeq(steps, <)
  IN  IF Len(series) < 2 THEN 0
      ELSE IF Len(series) > MaxPoints THEN ThinningStep(series)
      ELSE IF sorted = <<>> THEN 0 ELSE sorted[(Len(sorted) \div 2) + 1]

\* Over the samples that have a rate: the largest, the 95th percentile by
\* nearest rank, the sum and count of the average, and the newest one if fresh.
SummaryOf(series, current) ==
  LET rated == SelectSeq(series, LAMBDA p : p.rated)
      rates == SortSeq([i \in 1 .. Len(rated) |-> rated[i].tokens], <)
      n == Len(rates)
      newest == series[Len(series)]
  IN  IF n = 0 THEN [known |-> FALSE]
      ELSE [known |-> TRUE, max |-> rates[n], p95 |-> rates[(95 * n + 99) \div 100],
            sum |-> FoldLeft(LAMBDA a, b : a + b, 0, rates), count |-> n,
            current |-> current /\ newest.rated /\ minute - newest.at \in {0, 1}]

\* One series of the chart over a source of samples.
TrendSeries(source, current) ==
  LET seen == SamplesInRange(source, minute - TrendSpan, minute)
  IN  [points |-> Thinned(seen), summary |-> SummaryOf(seen, current),
       granularity |-> Granularity(seen),
       complete |-> source # <<>> /\ source[1].at <= minute - TrendSpan]

TrendWindows ==
  [minutes |-> [w \in Rollups |-> TrendSeries(Rollup(w), TRUE)],
   legacy |-> TrendSeries(LegacySamples, FALSE)]

\* The runtime chart keeps the latest sample of each step.
BucketRuntimeSamples ==
  LET from == minute - TrendSpan
      seen == SelectSeq(Ordered(runtime), LAMBDA t : t >= from /\ t <= minute)
      Add(out, t) ==
        IF out # <<>> /\ (t - from) \div TrendStep = (Last(out) - from) \div TrendStep
        THEN Append(Front(out), t) ELSE Append(out, t)
  IN  FoldLeft(Add, <<>>, seen)

-----------------------------------------------------------------------------
Rows == Cardinality(DOMAIN facts) + Cardinality(DOMAIN legacyRates) + Cardinality(runtime)

TrendInit == minute = 0 /\ facts = << >> /\ legacyRates = << >> /\ runtime = {}

\* A closed minute, or one a replay filled in later, becomes a fact.
RecordMinute(m, f) ==
  /\ m < minute /\ m \notin DOMAIN facts /\ Rows < MaxRows
  /\ facts' = [n \in DOMAIN facts \cup {m} |-> IF n = m THEN f ELSE facts[n]]
  /\ UNCHANGED <<minute, legacyRates, runtime>>

\* The file of a former version holds a rate, or a state without one.
KeepLegacy(m, rated) ==
  /\ m < minute /\ m \notin DOMAIN legacyRates /\ Rows < MaxRows
  /\ DOMAIN facts \cup runtime = {}         \* it was all there at the start
  /\ legacyRates' = [n \in DOMAIN legacyRates \cup {m} |->
                       IF n = m THEN rated ELSE legacyRates[n]]
  /\ UNCHANGED <<minute, facts, runtime>>

SampleRuntime ==
  /\ minute \notin runtime /\ Rows < MaxRows
  /\ runtime' = runtime \cup {minute}
  /\ UNCHANGED <<minute, facts, legacyRates>>

MinutePasses ==
  /\ minute < LastMinute
  /\ minute' = minute + 1
  /\ UNCHANGED <<facts, legacyRates, runtime>>

TrendNext ==
  \/ \E m \in Minutes, f \in MinuteFacts : RecordMinute(m, f)
  \/ \E m \in Minutes, rated \in BOOLEAN : KeepLegacy(m, rated)
  \/ SampleRuntime
  \/ MinutePasses

TrendSpec == TrendInit /\ [][TrendNext]_trendVars

-----------------------------------------------------------------------------
MeasuredMinute(m) == m \in DOMAIN facts /\ facts[m].measured

\* A rate stands for a full, measured window of contiguous minutes and is their
\* sum; every such window has its rate; a floor minute makes it a floor.
RatesAreWhole ==
  \A w \in Rollups :
    LET out == Rollup(w)
        rated == {i \in DOMAIN out : out[i].rated}
        Window(m) == (m - w + 1) .. m
        Sum(m) == FoldLeft(LAMBDA n, k : SaturatingAdd(n, TokensOf(facts[k])), 0,
                           Ordered(Window(m)))
    IN  /\ {out[i].at : i \in rated} = {m \in Minutes : \A k \in Window(m) : MeasuredMinute(k)}
        /\ \A i \in rated :
             /\ out[i].tokens = Sum(out[i].at)
             /\ out[i].partial <=> \E k \in Window(out[i].at) : facts[k].partial
        /\ \A i, j \in DOMAIN out : i < j => out[i].at < out[j].at

\* Between two neighbouring rates of a drawn series every minute was measured.
NoLineAcrossAGap ==
  \A w \in Rollups :
    LET drawn == TrendWindows.minutes[w].points
    IN  /\ Len(drawn) <= MaxPoints
        /\ \A i \in 1 .. Len(drawn) - 1 :
             drawn[i].rated /\ drawn[i + 1].rated =>
               \A m \in drawn[i].at .. drawn[i + 1].at : MeasuredMinute(m)

\* The runtime chart has the latest sample of each step that has one.
RuntimeKeepsTheLatest ==
  LET from == minute - TrendSpan
      Step(t) == (t - from) \div TrendStep
      seen == {t \in runtime : from <= t /\ t <= minute}
  IN  Range(BucketRuntimeSamples) = {t \in seen : \A u \in seen : Step(u) = Step(t) => u <= t}

\* The charts claim nothing the minutes do not hold (metrics.go:599, 741): no
\* rate over a missing minute, no line drawn over a gap that thinning hid, and
\* no more points than the limit.
ChartsShowTheGaps == RatesAreWhole /\ NoLineAcrossAGap /\ RuntimeKeepsTheLatest
=============================================================================
