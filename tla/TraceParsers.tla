---------------------------- MODULE TraceParsers ----------------------------
(***************************************************************************)
(* What the vendor parsers of transcripts.go make of one JSONL transcript: *)
(* a session trace, by a fold over its lines.  A file that only grew is    *)
(* parsed from the cached trace on, and a big file that has gone quiet by  *)
(* its head and tail only.                                                 *)
(*                                                                         *)
(* A line is a record of the fields the parsers look for, empty when the   *)
(* line lacks the key; the set of lines each vendor writes is given by the *)
(* model.  trae reads its lines as codex does.  The two cache counters of  *)
(* TokenUsage behave alike and are one here.                               *)
(***************************************************************************)
EXTENDS Integers, Sequences, FiniteSets, FiniteSetsExt, SequencesExt

CONSTANTS Vendors,     \* of {"claude", "codex", "grok"}
          VendorLines, \* the lines each vendor may write
          Models,      \* models a breakdown names
          MaxWritten,  \* bound: lines of the transcript
          HeadLines, TailLines  \* what the tail parser reads of a big file

ASSUME ParserConstants == /\ HeadLines \in Nat /\ TailLines \in Nat \ {0}
                          /\ "unknown" \notin Models /\ MaxWritten \in Nat

VARIABLES vendor,  \* who writes the transcript
          written, \* its lines
          parsed,  \* the cached trace, or NothingParsed
          reach,   \* how many lines it covers
          quiet    \* what a tail parse of the file made of it

parserVars == <<vendor, written, parsed, reach, quiet>>

-----------------------------------------------------------------------------
(* TokenUsage.                                                             *)

Counters == {"in", "out", "cached", "reasoning", "total"}
ZeroUsage == [k \in Counters |-> 0]
IsEmptyUsage(u) == \A k \in Counters : u[k] <= 0
DerivedTotal(u) == u["in"] + u["out"] + u["cached"]

AddUsage(u, v) ==
    IF IsEmptyUsage(v) THEN u
    ELSE [k \in Counters |-> u[k] + IF k = "total" /\ v[k] <= 0 THEN DerivedTotal(v) ELSE v[k]]

MaxUsage(u, v) ==
    LET top == [k \in Counters |-> IF v[k] > u[k] THEN v[k] ELSE u[k]]
    IN IF IsEmptyUsage(v) THEN u
       ELSE [top EXCEPT !["total"] = IF @ = 0 THEN DerivedTotal(top) ELSE @]

\* directTokenUsage: a usage object that gives no total gets the derived one.
ReadUsage(u) == [u EXCEPT !["total"] = IF @ = 0 THEN DerivedTotal(u) ELSE @]

\* The rows of ModelTokenUsage; a row nobody added to is empty.
UsageRows == Models \cup {"unknown"}
NoRows == [m \in UsageRows |-> ZeroUsage]
AddRow(rows, m, u) == [rows EXCEPT ![m] = AddUsage(@, u)]
Covered(rows) == FoldSet(LAMBDA m, sum : AddUsage(sum, rows[m]), ZeroUsage, UsageRows)
Residual(u, covered) ==
    [k \in Counters |-> IF u[k] > covered[k] THEN u[k] - covered[k] ELSE 0]

\* EnsureModelUsage: what no model is known to have used is the unknown row's.
EnsureModelUsage(t) ==
    IF IsEmptyUsage(t.usage) THEN t
    ELSE [t EXCEPT !.rows = AddRow(@, "unknown", Residual(t.usage, Covered(t.rows)))]

-----------------------------------------------------------------------------
(* A trace and its fold.                                                   *)

NoPath == [project |-> "", repo |-> FALSE, temporary |-> FALSE, worktree |-> ""]

\* A line with a timestamp and nothing else.
PlainLine == [at |-> 1, usage |-> ZeroUsage, running |-> FALSE, models |-> NoRows,
              sid |-> "", sidechain |-> FALSE, source |-> "", parent |-> "",
              project |-> "", cwd |-> NoPath, active |-> TRUE]

\* The seed of a parse: the session id is the file's name.
NewTrace == [sid |-> "file", parent |-> "", source |-> "", hint |-> "",
             independent |-> TRUE, project |-> "", rank |-> 0, worktree |-> "",
             usage |-> ZeroUsage, rows |-> NoRows, events |-> {}]
NothingParsed == [NewTrace EXCEPT !.sid = ""]

First(a, b) == IF a # "" THEN a ELSE b

\* projectAttributionSourceRank.
Rank(source) == CASE source = "transcript_project" -> 5 [] source = "transcript_cwd" -> 4
                  [] source = "transcript_path" -> 3 [] OTHER -> 0

SetTraceProjectName(t, project, source) ==
    IF project = "" \/ (t.project # "" /\ Rank(source) < t.rank) THEN t
    ELSE [t EXCEPT !.project = project, !.rank = Rank(source)]

\* A scratch directory may name a project, it may not rename one.
SetTraceProjectPath(t, path, source) ==
    LET scratch == ~path.repo /\ path.temporary /\ t.project # ""
        named == IF scratch THEN t ELSE SetTraceProjectName(t, path.project, source)
    IN [named EXCEPT !.worktree = First(@, path.worktree)]

\* A running total counts as the largest one seen, a turn's usage adds up.
CaptureTokenUsage(t, l) ==
    IF l.running /\ ~IsEmptyUsage(ReadUsage(l.usage))
    THEN [t EXCEPT !.usage = MaxUsage(@, ReadUsage(l.usage))]
    ELSE [t EXCEPT !.usage = AddUsage(@, ReadUsage(l.usage))]

\* Grok's breakdown by model is attributed, never added to the aggregate.
CaptureGrokModelUsage(t, l) ==
    [t EXCEPT !.rows = [m \in UsageRows |-> AddUsage(@[m], ReadUsage(l.models[m]))]]

CaptureTraceRoleMetadata(t, l) ==
    LET sourced == IF l.source = "" THEN t
                   ELSE [t EXCEPT !.source = l.source,
                                  !.hint = First(@, "thread_source"),
                                  !.independent = @ /\ l.source # "subagent"]
    IN IF l.parent = "" THEN sourced
       ELSE [sourced EXCEPT !.parent = l.parent, !.independent = FALSE,
                            !.hint = First(@, "parent_thread_id")]

NameProject(t, l) ==
    SetTraceProjectPath(SetTraceProjectName(t, l.project, "transcript_project"),
                        l.cwd, "transcript_cwd")

\* A sidechain line carries its parent's session id.
ClaudeIdentity(t, l) ==
    IF l.sid = "" THEN t
    ELSE IF l.sidechain
    THEN [t EXCEPT !.parent = l.sid, !.source = "subagent", !.independent = FALSE,
                   !.hint = First(@, "claude_sidechain")]
    ELSE [t EXCEPT !.sid = l.sid]

ProcessClaudeLine(t, l) ==
    LET named == NameProject(ClaudeIdentity(CaptureTokenUsage(t, l), l), l)
    IN IF l.active THEN [named EXCEPT !.events = @ \cup {l.at}] ELSE named

ProcessCodexLine(t, l) ==
    LET roled == CaptureTraceRoleMetadata(CaptureTokenUsage(t, l), l)
    IN [NameProject([roled EXCEPT !.sid = First(l.sid, @)], l) EXCEPT
          !.events = @ \cup {l.at}]

ProcessGrokLine(t, l) ==
    LET used == CaptureGrokModelUsage(CaptureTokenUsage(t, l), l)
    IN [used EXCEPT !.sid = First(l.sid, @), !.events = @ \cup {l.at}]

\* A line without a timestamp is skipped whole.
ProcessLine(v, t, l) ==
    CASE l.at = 0 -> t
      [] l.at # 0 /\ v = "claude" -> ProcessClaudeLine(t, l)
      [] l.at # 0 /\ v = "codex" -> ProcessCodexLine(t, l)
      [] l.at # 0 /\ v = "grok" -> ProcessGrokLine(t, l)

FoldLines(v, base, lines) == FoldLeft(LAMBDA t, l : ProcessLine(v, t, l), base, lines)

\* finalizeTrace sorts and dedupes the event times: a set from the start here.
FinalizeTrace(t) == EnsureModelUsage(t)
NonEmptyTrace(t) == IF t.events = {} THEN NothingParsed ELSE t

\* claude and grok know a project from the path of the file.
Seed(v) == IF v = "codex" THEN NewTrace
           ELSE SetTraceProjectName(NewTrace, "fromPath", "transcript_path")

ParseTrace(v, lines) == NonEmptyTrace(FinalizeTrace(FoldLines(v, Seed(v), lines)))
ParseTraceAppend(v, base, lines) == NonEmptyTrace(FinalizeTrace(FoldLines(v, base, lines)))

\* jsonlLineLooksLikeTraceMetadata.
IsMetadata(l) == l.sid # "" \/ l.project # "" \/ l.cwd # NoPath \/ l.source # "" \/ l.parent # ""

\* A file no bigger than head and tail is read whole.  Of a bigger one: the
\* head, then the metadata up to the tail, then the tail; the line the tail's
\* offset falls into is lost to both.
HeadTail(lines) ==
    LET n == Len(lines)
        cut == n - TailLines
        head == SelectSeq([i \in 1..(cut - 1) |-> [n |-> i, line |-> lines[i]]],
                          LAMBDA x : x.n <= HeadLines \/ IsMetadata(x.line))
    IN IF n <= HeadLines + TailLines THEN lines
       ELSE [i \in 1..Len(head) |-> head[i].line] \o SubSeq(lines, cut + 1, n)

ParseTraceTail(v, lines) == ParseTrace(v, HeadTail(lines))

-----------------------------------------------------------------------------
ParserInit ==
    /\ vendor \in Vendors
    /\ written = <<>> /\ parsed = NothingParsed /\ reach = 0 /\ quiet = NothingParsed

WriteLine ==
    /\ Len(written) < MaxWritten
    /\ \E l \in VendorLines[vendor] : written' = Append(written, l)
    /\ UNCHANGED <<vendor, parsed, reach, quiet>>

ParseWhole ==
    /\ parsed' = ParseTrace(vendor, written) /\ reach' = Len(written)
    /\ UNCHANGED <<vendor, written, quiet>>

\* Mutant: the line the cached trace ended with is read again.
LinesSinceInclusive == SubSeq(written, reach, Len(written))
LinesSince == SubSeq(written, reach + 1, Len(written))

\* Only a trace with events is a base to append to.
ParseAppend ==
    /\ parsed # NothingParsed /\ Len(written) > reach
    /\ parsed' = ParseTraceAppend(vendor, parsed, LinesSince)
    /\ reach' = Len(written)
    /\ UNCHANGED <<vendor, written, quiet>>

ParseTail ==
    /\ quiet' = ParseTraceTail(vendor, written)
    /\ UNCHANGED <<vendor, written, parsed, reach>>

ParserNext == WriteLine \/ ParseWhole \/ ParseAppend \/ ParseTail
ParserSpec == ParserInit /\ [][ParserNext]_parserVars

-----------------------------------------------------------------------------
\* However often a transcript was parsed on the way, and wherever its growth
\* was cut, parsing what was appended to the cached trace gives the trace of a
\* whole parse: identity, lineage, project, usage, model rows and events.
AppendIsWholeParse == parsed # NothingParsed =>
                          parsed = ParseTrace(vendor, SubSeq(written, 1, reach))

\* EnsureModelUsage keeps the aggregate total: summed over its model rows no
\* counter of a trace says less than its aggregate, after any appends.
RowsCoverUsage == \A k \in Counters :
                      /\ Covered(parsed.rows)[k] >= parsed.usage[k]
                      /\ Covered(quiet.rows)[k] >= quiet.usage[k]

\* A tail parse invents nothing: it counts no line twice where head and tail
\* meet, and every event it reports is an event of the whole transcript.
TailIsPartOfTranscript ==
    LET whole == ParseTrace(vendor, written)
    IN Len(written) > 0 /\ quiet = ParseTraceTail(vendor, written) /\ quiet # NothingParsed
         => /\ quiet.events \subseteq whole.events
            /\ \A k \in Counters : quiet.usage[k] <= whole.usage[k]

\* A trace is the transcript's, however much of it was parsed when.
TracesAreFaithful == AppendIsWholeParse /\ RowsCoverUsage /\ TailIsPartOfTranscript
=============================================================================
