------------------------------ MODULE MCUsage ------------------------------
(* What turns transcripts and history into numbers, each component in an    *)
(* instance of its own: the initial state names the one that runs, the      *)
(* others stand still.  They share no variable.                             *)
EXTENDS ThroughputStore, TraceParsers, AgentDatabases, UsageTail, HistoryFile,
        Concurrency, ThroughputTrend, TLC

CONSTANTS s1, s2, t1, t2

VARIABLE counting

countingVars == <<counting, store, parserVars, dbVars, usageVars, histVars,
                  concurrencyVars, trendVars>>

\* The store: two measurements, an unavailable minute, a replayed sum and a
\* legacy rate.
SomeFacts == {Online(1), Online(2), Unavailable, Replayed(1), LegacyRate}

\* Lines of each vendor: usage with and without a total, identities, a
\* sidechain, projects from the transcript and from directories.
Use(in, out, cached, reasoning, total) ==
    [ZeroUsage EXCEPT !["in"] = in, !["out"] = out, !["cached"] = cached,
                      !["reasoning"] = reasoning, !["total"] = total]
RepoPath == [project |-> "repo", repo |-> TRUE, temporary |-> FALSE, worktree |-> "wt"]
ScratchPath == [project |-> "scratch", repo |-> FALSE, temporary |-> TRUE, worktree |-> ""]
ByModel(u) == [NoRows EXCEPT !["m1"] = u]
At(time) == [PlainLine EXCEPT !.at = time]

ClaudeLines ==
    {[At(1) EXCEPT !.usage = Use(2, 1, 1, 0, 0), !.sid = "s1"],
     [At(2) EXCEPT !.sid = "s2", !.sidechain = TRUE, !.cwd = ScratchPath],
     [At(2) EXCEPT !.usage = Use(1, 0, 0, 0, 0), !.active = FALSE],
     [At(0) EXCEPT !.usage = Use(1, 0, 0, 0, 0), !.project = "p"],
     [At(3) EXCEPT !.project = "p"]}
CodexLines ==
    {[At(1) EXCEPT !.usage = Use(2, 1, 0, 1, 0), !.running = TRUE],
     [At(2) EXCEPT !.usage = Use(5, 1, 0, 1, 0), !.running = TRUE],
     [At(3) EXCEPT !.sid = "s1", !.source = "subagent", !.cwd = RepoPath],
     [At(3) EXCEPT !.source = "user", !.parent = "s2", !.cwd = ScratchPath]}
GrokLines ==
    {[At(1) EXCEPT !.usage = Use(2, 1, 0, 1, 4), !.models = ByModel(Use(2, 1, 0, 1, 0))],
     [At(2) EXCEPT !.usage = Use(1, 1, 0, 0, 0), !.sid = "s1"],
     [At(3) EXCEPT !.usage = Use(1, 0, 0, 0, 0), !.models = ByModel(Use(1, 0, 0, 0, 0))],
     At(3)}
SomeLines == "claude" :> ClaudeLines @@ "codex" :> CodexLines @@ "grok" :> GrokLines

\* A message that streams its usage beside another; a running total that resets.
SomeProviders ==
    {{[of |-> "m1", out |-> 1], [of |-> "m1", out |-> 2], [of |-> "m2", out |-> 1]},
     {[total |-> 1, at |-> 1], [total |-> 2, at |-> 1], [total |-> 2, at |-> 2]}}

\* Two rows an older version left, and months of three days.
OldHistory == <<[at |-> 0, rate |-> TRUE], [at |-> 1, rate |-> TRUE]>>
MonthOfDay == [t \in 0..10 |-> t \div 3]

SomeTrends == {[span |-> 3, step |-> 1], [span |-> 4, step |-> 3]}

\* A minute of one project, a partial one of two, and one not measured.
OfProject(n, sessions) == [tokens |-> n, sessions |-> sessions]
SomeMinutes ==
    {[measured |-> TRUE, state |-> "live", partial |-> FALSE,
      projects |-> "p" :> OfProject(2, {"s"})],
     [measured |-> TRUE, state |-> "live", partial |-> TRUE,
      projects |-> "p" :> OfProject(1, {"s"}) @@ "q" :> OfProject(1, {"s"})],
     [measured |-> FALSE, state |-> "stale", partial |-> FALSE, projects |-> << >>]}

\* A component that stands still does so in one of its initial states.
AtRestElsewhere ==
    /\ counting # "traces" => vendor = "claude"
    /\ counting # "databases" => dbVendor = "hermes" /\ partTable
    /\ counting # "usage" => reading = "live" /\ [of |-> "m1", out |-> 1] \in lineKinds

CountingInit ==
    /\ counting \in {"store", "traces", "databases", "usage", "history", "concurrency", "trend"}
    /\ Init /\ ParserInit /\ DatabaseInit /\ UsageInit /\ HistInit /\ ConcurrencyInit /\ TrendInit
    /\ AtRestElsewhere

CountingNext ==
    /\ UNCHANGED counting
    /\ \/ /\ counting = "store" /\ Next
          /\ UNCHANGED <<parserVars, dbVars, usageVars, histVars, concurrencyVars, trendVars>>
       \/ /\ counting = "traces" /\ ParserNext
          /\ UNCHANGED <<store, dbVars, usageVars, histVars, concurrencyVars, trendVars>>
       \/ /\ counting = "databases" /\ DatabaseNext
          /\ UNCHANGED <<store, parserVars, usageVars, histVars, concurrencyVars, trendVars>>
       \/ /\ counting = "usage" /\ UsageNext
          /\ UNCHANGED <<store, parserVars, dbVars, histVars, concurrencyVars, trendVars>>
       \/ /\ counting = "history" /\ HistNext
          /\ UNCHANGED <<store, parserVars, dbVars, usageVars, concurrencyVars, trendVars>>
       \/ /\ counting = "concurrency" /\ ConcurrencyNext
          /\ UNCHANGED <<store, parserVars, dbVars, usageVars, histVars, trendVars>>
       \/ /\ counting = "trend" /\ TrendNext
          /\ UNCHANGED <<store, parserVars, dbVars, usageVars, histVars, concurrencyVars>>

CountingSpec == CountingInit /\ [][CountingNext]_countingVars
=============================================================================
