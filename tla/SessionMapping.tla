--------------------------- MODULE SessionMapping ---------------------------
(***************************************************************************)
(* Which sessions are live and which processes they belong to (observer.go)*)
(* A process shows session ids on its command line and transcript files it *)
(* holds open; a scanned transcript may or may not hold an id; its name may*)
(* suggest one. Evidence is merged by strength, and the sessions feed the  *)
(* counts of processes, projects, runtimes and workitems of a snapshot.    *)
(* All of a snapshot is computed anew from one process query and one scan, *)
(* one part from the other; no evidence changes until it is answered.      *)
(***************************************************************************)
EXTENDS Integers, FiniteSets, Sequences, SequencesExt

CONSTANTS
  PidOrder,     \* the processes in the order of the query
  PathOrder,    \* the transcript files in the order a process lists them
  ToolOf,       \* path -> the tool whose transcripts lie there
  FallbackOf,   \* path -> the session id its name suggests, or NoId
  RootProject,  \* path -> the project its configuration directory lies in, if any
  SessionIds,
  NoId,
  ProcessKinds, \* what a process can be: [tool, hints, host]
  TraceKinds,   \* what a transcript can hold: [id, age, source, parent, project]
  IdleGap, StaleAfter, RecentWindow,
  MaxEvidence   \* bound: processes, open files and transcripts together

ASSUME MappingAssumption ==
  /\ {IdleGap, StaleAfter, RecentWindow} \subseteq Nat /\ MaxEvidence \in Nat
  /\ IdleGap <= StaleAfter /\ StaleAfter <= RecentWindow

VARIABLES
  queried,      \* the processes the last query that worked saw, with the files
                \* they hold open; a snapshot whose query fails shows these
  traces,       \* the scanned transcripts: path -> kind
  progress,     \* how far Snapshot is, and what it has by now:
  live,         \* the live sessions,
  shown,        \* those sessions as the snapshot shows them,
  view,         \* the processes as it shows them,
  answer        \* and what it counts

evidenceVars == <<queried, traces>>
mappingVars == <<evidenceVars, progress, live, shown, view, answer>>

Pids == Range(PidOrder)
Paths == Range(PathOrder)
NoPath == "no path"
Unassigned == "unassigned"
Empty == [k \in {} |-> {}]
Orders == {PathOrder, Reverse(PathOrder)}   \* Go ranges over the map of traces in any

IdKey(tool, id) == [tool |-> tool, by |-> "id", name |-> id]
PathKey(path) == [tool |-> ToolOf[path], by |-> "path", name |-> path]
HasId(path) == path \in DOMAIN traces /\ traces[path].id # NoId
TraceKey(path) ==
  IF HasId(path) THEN IdKey(ToolOf[path], traces[path].id) ELSE PathKey(path)

\* Of two transcripts with one id, the index has the one the range met first.
TraceById(key, order) ==
  LET with == SelectSeq(order, LAMBDA p : HasId(p) /\ TraceKey(p) = key)
  IN  IF with = <<>> THEN NoPath ELSE with[1]

\* A candidate takes what it lacks from new evidence, and joins how it was found.
Merge(old, new) ==
  [tool |-> old.tool, id |-> IF old.id = NoId THEN new.id ELSE old.id,
   path |-> IF old.path = NoPath THEN new.path ELSE old.path,
   trace |-> IF old.trace = NoPath THEN new.trace ELSE old.trace,
   mapping |-> old.mapping \cup new.mapping]

AddTo(found, key, c) ==
  [k \in DOMAIN found \cup {key} |->
     IF k # key THEN found[k] ELSE IF key \in DOMAIN found THEN Merge(found[key], c) ELSE c]

ParsedKeys(p) == {TraceKey(f) : f \in {g \in p.files : HasId(g)}}

\* Mutant: a file without an id makes a session of its own beside parsed ones.
FileEvidenceAlone(p, f) ==
  <<[key |-> IF HasId(f) THEN TraceKey(f) ELSE PathKey(f),
     c |-> [tool |-> ToolOf[f], id |-> IF HasId(f) THEN traces[f].id ELSE FallbackOf[f],
            path |-> f, trace |-> IF f \in DOMAIN traces THEN f ELSE NoPath,
            mapping |-> {"path"}]]>>

\* What an open file says: the id its transcript holds; failing that, when other
\* files of the process hold ids, only a name that suggests one of them; else a
\* sole hint of the command line; else the id of its name; else itself.
FileEvidence(p, f) ==
  LET fallback == FallbackOf[f]
      C(key, id, mapping) ==
        <<[key |-> key,
           c |-> [tool |-> ToolOf[f], id |-> id, path |-> f,
                  trace |-> IF f \in DOMAIN traces THEN f ELSE NoPath,
                  mapping |-> {"path"} \cup mapping]]>>
      hint == CHOOSE h \in p.hints : TRUE
      Named(id) == IdKey(ToolOf[f], id)
  IN  CASE HasId(f) -> C(TraceKey(f), traces[f].id, {"parsed"})
        [] ~HasId(f) /\ ParsedKeys(p) # {} ->
             IF fallback # NoId /\ Named(fallback) \in ParsedKeys(p)
             THEN C(Named(fallback), fallback, {"fallback"}) ELSE <<>>
        [] ~HasId(f) /\ ParsedKeys(p) = {} /\ Cardinality(p.hints) = 1 ->
             C(Named(hint), hint, {"hint"} \cup (IF fallback = hint THEN {"fallback"} ELSE {}))
        [] OTHER ->
             IF fallback = NoId THEN C(PathKey(f), NoId, {})
             ELSE IF fallback \in p.hints THEN C(Named(fallback), fallback, {"hint", "fallback"})
             ELSE C(PathKey(f), fallback, {"fallback"})

\* The sessions of one process: its files, then the hints of its command line,
\* which make sessions only when it holds no file.
ProcessSessions(p, order) ==
  LET files == SelectSeq(PathOrder, LAMBDA f : f \in p.files)
      AddFile(found, f) ==
        LET e == FileEvidence(p, f)
        IN  IF e = <<>> THEN found ELSE AddTo(found, e[1].key, e[1].c)
      byFile == FoldLeft(AddFile, Empty, files)
      AddHint(found, h) ==
        LET key == IdKey(p.tool, h)
            t == TraceById(key, order)
        IN  IF p.files = {} \/ key \in DOMAIN found
            THEN AddTo(found, key, [tool |-> p.tool, id |-> h, path |-> t, trace |-> t,
                                    mapping |-> {"hint"}])
            ELSE found
  IN  FoldLeft(AddHint, byFile, SetToSeq(p.hints))

\* The live sessions: the candidates of all processes joined by key, and every
\* transcript with recent activity that none of them has.
LiveSessions(candidates, order) ==
  LET NewSession(c) == [tool |-> c.tool, id |-> c.id, path |-> c.path, trace |-> c.trace,
                        mapping |-> c.mapping]
      AddProcess(found, pid) ==
        IF pid \notin DOMAIN queried THEN found
        ELSE LET own == candidates[pid]
             IN  [k \in DOMAIN found \cup DOMAIN own |->
                    IF k \notin DOMAIN own THEN found[k]
                    ELSE LET c == NewSession(own[k])
                             q == queried[pid]
                         IN  IF k \notin DOMAIN found
                             THEN [s |-> c, pids |-> {pid}, cwd |-> q.cwd]
                             ELSE [s |-> Merge(found[k].s, c), pids |-> found[k].pids \cup {pid},
                                   cwd |-> IF found[k].cwd = Unassigned THEN q.cwd
                                           ELSE found[k].cwd]]
      mapped == FoldLeft(AddProcess, Empty, PidOrder)
      recent == SelectSeq(order, LAMBDA f : f \in DOMAIN traces
                            /\ traces[f].age <= RecentWindow /\ traces[f].age >= -IdleGap)
      AddTrace(found, f) ==
        IF TraceKey(f) \in DOMAIN found THEN found
        ELSE [k \in DOMAIN found \cup {TraceKey(f)} |->
                IF k \in DOMAIN found THEN found[k]
                ELSE [s |-> [tool |-> ToolOf[f], id |-> traces[f].id, path |-> f, trace |-> f,
                             mapping |-> {"path", "activity"}
                                           \cup (IF HasId(f) THEN {"parsed"} ELSE {})],
                      pids |-> {}, cwd |-> Unassigned]]
  IN  FoldLeft(AddTrace, mapped, recent)

-----------------------------------------------------------------------------
(* What is said of a session.                                              *)

FreshnessFromAge(age) ==
  IF age <= IdleGap THEN "active" ELSE IF age <= StaleAfter THEN "idle" ELSE "stale"

AgeOf(s) == IF traces[s.trace].age < 0 THEN 0 ELSE traces[s.trace].age

LowerConfidence(c) == IF c = "high" THEN "medium" ELSE "low"

\* Freshness from the age of the last event alone; confidence from the strongest
\* evidence, one step lower without a transcript.
ObserveLiveSession(s) ==
  LET missing == s.trace = NoPath
      by == IF "parsed" \in s.mapping THEN "high"
            ELSE IF "hint" \in s.mapping THEN "medium" ELSE "low"
  IN  [freshness |-> IF missing THEN "unknown" ELSE FreshnessFromAge(AgeOf(s)),
       confidence |-> IF missing THEN LowerConfidence(by) ELSE by]

\* A parent thread, or the path of a lane, outweighs what the source says.
ObserveSessionRole(s) ==
  CASE s.trace = NoPath -> "unknown"
    [] s.trace # NoPath /\ (traces[s.trace].parent \/ traces[s.trace].source = "subagent") ->
         "subagent"
    [] s.trace # NoPath /\ ~traces[s.trace].parent /\ traces[s.trace].source \in {"user", "independent"} ->
         "main"
    [] OTHER -> "unknown"

\* The project of the transcript, else of its path, else of the process's
\* directory, the weakest evidence.
ObserveProject(l) ==
  CASE l.s.trace # NoPath /\ traces[l.s.trace].project # Unassigned ->
         traces[l.s.trace].project
    [] (l.s.trace # NoPath => traces[l.s.trace].project = Unassigned)
         /\ l.s.path # NoPath /\ RootProject[l.s.path] # Unassigned -> RootProject[l.s.path]
    [] OTHER -> l.cwd

\* A live session as the snapshot shows it.
Projected ==
  [k \in DOMAIN live |->
     LET o == ObserveLiveSession(live[k].s)
     IN  [tool |-> live[k].s.tool, id |-> live[k].s.id, pids |-> live[k].pids,
          role |-> ObserveSessionRole(live[k].s), project |-> ObserveProject(live[k]),
          freshness |-> o.freshness, confidence |-> o.confidence]]

\* The sessions that have an id, by it; of two with one id one is in the index.
IndexOf ==
  LET named == {k \in DOMAIN shown : shown[k].id # NoId}
      KeyOf(k) == IdKey(shown[k].tool, shown[k].id)
  IN  [key \in {KeyOf(k) : k \in named} |-> CHOOSE k \in named : KeyOf(k) = key]

\* The sessions of the index among the keys a process has or that name it.
EvidenceFor(keys) ==
  LET index == IndexOf IN {index[key] : key \in keys \cap DOMAIN index}

\* A process as the snapshot shows it: the ids of its own candidates, each id
\* once, those of the sessions that name it, and the evidence for each.
ProjectedProcess(pid, own) ==
  LET ids == {own[k].id : k \in DOMAIN own} \ {NoId}
      ownKeys == {IdKey(own[k].tool, own[k].id) : k \in {j \in DOMAIN own : own[j].id # NoId}}
      naming == {IdKey(shown[k].tool, shown[k].id)
                   : k \in {j \in DOMAIN shown : pid \in shown[j].pids /\ shown[j].id # NoId}}
      evidence == EvidenceFor(ownKeys \cup naming)
      Count(role) == Cardinality({k \in evidence : shown[k].role = role})
      mapped == Cardinality(ids \cup {shown[k].id : k \in evidence})
      untold == mapped - Cardinality(evidence)
  IN  [own |-> DOMAIN own, mapped |-> mapped, evidence |-> evidence,
       active |-> Cardinality({k \in evidence : shown[k].freshness = "active"}),
       main |-> Count("main"), subagent |-> Count("subagent"),
       unknown |-> Count("unknown") + (IF untold > 0 THEN untold ELSE 0)]

\* Every session a process is attached to carries all its resources, and says
\* how many of its processes it shares.
SharedProcesses ==
  [k \in DOMAIN shown |->
     Cardinality({pid \in DOMAIN queried :
       LET e == view[pid].evidence IN k \in e /\ Cardinality(e) > 1})]

\* The counts of a group of processes: ids are counted once in each role.
GroupSummary(group) ==
  LET all == UNION {view[pid].evidence : pid \in group}
      Ids(role) == {shown[k].id : k \in {j \in all : shown[j].role = role}}
  IN  [pids |-> Cardinality(group),
       mapped |-> Cardinality({pid \in group : view[pid].mapped > 0}),
       direct |-> Cardinality(Ids("main")), subagent |-> Cardinality(Ids("subagent")),
       active |-> Cardinality({shown[k].id : k \in {j \in all : shown[j].freshness = "active"}})]

RuntimeSummary ==
  [tool \in {queried[pid].tool : pid \in DOMAIN queried} |->
     GroupSummary({pid \in DOMAIN queried : queried[pid].tool = tool})]

HostAppSummary ==
  [host \in {queried[pid].host : pid \in DOMAIN queried} \ {"none"} |->
     GroupSummary({pid \in DOMAIN queried : queried[pid].host = host})]

\* The projects: their counts, and the share of attention, by processes unless
\* one of them serves two projects or there is none, then by sessions.
ProjectFocus ==
  LET names == {shown[k].project : k \in DOMAIN shown}
      Of(name) == {k \in DOMAIN shown : shown[k].project = name}
      PidsOf(name) == UNION {shown[k].pids : k \in Of(name)}
      mappedPids == UNION {PidsOf(name) : name \in names}
      bySession == mappedPids = {} \/ \E n, m \in names : n # m /\ PidsOf(n) \cap PidsOf(m) # {}
  IN  [name \in names |->
         [sessions |-> Cardinality(Of(name)), processes |-> Cardinality(PidsOf(name)),
          share |-> IF bySession THEN Cardinality(Of(name)) ELSE Cardinality(PidsOf(name)),
          whole |-> IF bySession THEN Cardinality(DOMAIN shown) ELSE Cardinality(mappedPids)]]

\* The workitems: the sessions of a project, tool and freshness; a process counts
\* once in a bucket if the sessions it serves have ids, else with each of them.
CandidateWorkitems ==
  LET BucketOf(k) == <<shown[k].project, shown[k].tool, shown[k].freshness>>
      In(b) == {k \in DOMAIN shown : BucketOf(k) = b}
      named == {k \in DOMAIN shown : shown[k].id # NoId}
      SameIds(K) == {k \in named : \E j \in K : shown[j].tool = shown[k].tool
                                                 /\ shown[j].id = shown[k].id}
      Unnamed(b) == FoldLeft(LAMBDA n, k : n + Cardinality(shown[k].pids), 0,
                             SetToSeq(In(b) \ named))
      AllIn(b, c) == \A k \in In(b) : shown[k].confidence = c
  IN  [b \in {BucketOf(k) : k \in DOMAIN shown} |->
         [sessions |-> Cardinality(In(b)), keys |-> In(b),
          processes |-> Unnamed(b)
                          + Cardinality(UNION {shown[k].pids : k \in SameIds(In(b) \cap named)}),
          confidence |-> IF Cardinality(In(b)) = 1 /\ AllIn(b, "high") THEN "high"
                         ELSE IF \E k \in In(b) : shown[k].confidence = "low"
                              THEN "low" ELSE "medium"]]

\* The sessions beyond the first of every bucket that shows present movement.
OverlapSuspicion ==
  LET Present(b) == b[1] # Unassigned /\ b[3] \in {"active", "idle"}
      items == CandidateWorkitems
  IN  FoldLeft(LAMBDA n, b : n + items[b].sessions - 1, 0,
               SetToSeq({b \in DOMAIN items : Present(b)}))

\* The head of the snapshot.
SnapshotSummary ==
      [mapped |-> Cardinality({p \in DOMAIN view : view[p].mapped > 0}),
       multi |-> Cardinality({p \in DOMAIN view : view[p].mapped > 1}),
       active |-> Cardinality({k \in DOMAIN shown : shown[k].freshness = "active"}),
       untimed |-> Cardinality({k \in DOMAIN shown : shown[k].freshness = "unknown"})]

-----------------------------------------------------------------------------
Evidence == Cardinality(DOMAIN queried) + Cardinality(DOMAIN traces)
              + FoldLeft(LAMBDA n, p : n + Cardinality(queried[p].files), 0,
                         SetToSeq(DOMAIN queried))

MappingInit ==
  /\ queried = Empty /\ traces = Empty
  /\ progress = "evidence"
  /\ live = Empty /\ shown = Empty /\ view = Empty /\ answer = Empty

\* What a query or a scan finds is found before the snapshot begins to map it.
Gathering == progress = "evidence" /\ UNCHANGED <<progress, live, shown, view, answer>>

\* A query sees a process more, one more file open, or a process no more. One
\* that fails changes nothing: the rows remembered are shown again. No query
\* fills in a working directory.
SeeProcess(pid, kind) ==
  /\ Gathering /\ pid \notin DOMAIN queried /\ Evidence < MaxEvidence
  /\ queried' = [p \in DOMAIN queried \cup {pid} |->
                   IF p # pid THEN queried[p]
                   ELSE [tool |-> kind.tool, hints |-> kind.hints, cwd |-> Unassigned,
                         host |-> kind.host, files |-> {}]]
  /\ UNCHANGED traces

SeeOpenFile(pid, f) ==
  /\ Gathering /\ pid \in DOMAIN queried /\ f \notin queried[pid].files
  /\ Evidence < MaxEvidence
  /\ queried' = [queried EXCEPT ![pid].files = @ \cup {f}]
  /\ UNCHANGED traces

SeeExit(pid) ==
  /\ Gathering /\ pid \in DOMAIN queried
  /\ queried' = [p \in DOMAIN queried \ {pid} |-> queried[p]]
  /\ UNCHANGED traces

\* The list of open files fails, which does not fail the query.
SeeNoFiles ==
  /\ Gathering
  /\ queried' = [p \in DOMAIN queried |-> [queried[p] EXCEPT !.files = {}]]
  /\ UNCHANGED traces

\* A scan has read a transcript, which may have grown since the last one.
ScanTranscript(f, kind) ==
  /\ Gathering /\ (f \in DOMAIN traces \/ Evidence < MaxEvidence)
  /\ traces' = [g \in DOMAIN traces \cup {f} |-> IF g = f THEN kind ELSE traces[g]]
  /\ UNCHANGED queried

-----------------------------------------------------------------------------
(* Snapshot, part by part. The processes are mapped twice, from one range  *)
(* over the traces for the sessions and from another for the processes.    *)

Candidates(order) == [pid \in DOMAIN queried |-> ProcessSessions(queried[pid], order)]

MapSessions ==
  /\ progress = "evidence" /\ progress' = "mapped"
  /\ \E order, sweep \in Orders : live' = LiveSessions(Candidates(order), sweep)
  /\ UNCHANGED <<evidenceVars, shown, view, answer>>

ProjectSessions ==
  /\ progress = "mapped" /\ progress' = "projected"
  /\ shown' = Projected
  /\ UNCHANGED <<evidenceVars, live, view, answer>>

ProjectProcesses ==
  /\ progress = "projected" /\ progress' = "attributed"
  /\ \E order \in Orders :
       view' = [pid \in DOMAIN queried |->
                  ProjectedProcess(pid, ProcessSessions(queried[pid], order))]
  /\ UNCHANGED <<evidenceVars, live, shown, answer>>

Count ==
  /\ progress = "attributed" /\ progress' = "counted"
  /\ answer' = [shared |-> SharedProcesses, focus |-> ProjectFocus,
                items |-> CandidateWorkitems, runtimes |-> RuntimeSummary,
                hosts |-> HostAppSummary, summary |-> SnapshotSummary,
                overlap |-> OverlapSuspicion]
  /\ UNCHANGED <<evidenceVars, live, shown, view>>

Answer ==
  /\ progress = "counted" /\ progress' = "evidence"
  /\ live' = Empty /\ shown' = Empty /\ view' = Empty /\ answer' = Empty
  /\ UNCHANGED evidenceVars

MappingNext ==
  \/ \E pid \in Pids, kind \in ProcessKinds : SeeProcess(pid, kind)
  \/ \E pid \in Pids, f \in Paths : SeeOpenFile(pid, f)
  \/ \E pid \in Pids : SeeExit(pid)
  \/ SeeNoFiles
  \/ \E f \in Paths, kind \in TraceKinds : ScanTranscript(f, kind)
  \/ MapSessions \/ ProjectSessions \/ ProjectProcesses \/ Count \/ Answer

MappingSpec == MappingInit /\ [][MappingNext]_mappingVars

-----------------------------------------------------------------------------
\* observer.go:323-324 "so weaker per-file hints/fallbacks never manufacture
\* sibling sessions": a process with a parsed transcript has only parsed ids.
NoManufacturedSibling ==
  \A pid \in DOMAIN view :
    ParsedKeys(queried[pid]) # {} => view[pid].own = ParsedKeys(queried[pid])

\* A process is of the live sessions it has any evidence of, and of no other;
\* it counts as mapped unless none of them has an id.
ProcessesAreMapped ==
  \A pid \in DOMAIN view :
    LET of == {k \in DOMAIN live : pid \in live[k].pids}
    IN  /\ of = view[pid].own
        /\ (\E k \in of : live[k].s.id # NoId) <=> view[pid].mapped > 0

SameId(k, j) == shown[k].tool = shown[j].tool /\ shown[k].id = shown[j].id

\* observer.go:851-852 "discloses when that attribution overlaps other sessions":
\* of two sessions with ids of their own that share a process, both say so.
SharedIsDisclosed ==
  LET Alone(k) == shown[k].id # NoId /\ \A j \in DOMAIN shown \ {k} : ~SameId(k, j)
  IN  \A k, j \in {i \in DOMAIN shown : Alone(i)} :
        k # j /\ shown[k].pids \cap shown[j].pids # {}
          => answer.shared[k] > 0 /\ answer.shared[j] > 0

SumOf(f) == FoldLeft(LAMBDA n, x : n + f[x], 0, SetToSeq(DOMAIN f))

\* Shares of attention make a whole, every session is in one project and in one
\* workitem, every process in one runtime, and a process counts once in a bucket
\* of sessions with ids.
AggregatesAddUp ==
  LET focus == answer.focus
      items == answer.items
      tools == answer.runtimes
  IN  /\ \A n \in DOMAIN focus : SumOf([m \in DOMAIN focus |-> focus[m].share]) = focus[n].whole
      /\ SumOf([n \in DOMAIN focus |-> focus[n].sessions]) = Cardinality(DOMAIN shown)
      /\ SumOf([b \in DOMAIN items |-> items[b].sessions]) = Cardinality(DOMAIN shown)
      /\ SumOf([t \in DOMAIN tools |-> tools[t].pids]) = Cardinality(DOMAIN queried)
      /\ SumOf([t \in DOMAIN tools |-> tools[t].mapped]) = answer.summary.mapped
      /\ \A b \in DOMAIN items :
           (\A k \in items[b].keys : shown[k].id # NoId) =>
             items[b].processes <= Cardinality(DOMAIN queried)

\* What a snapshot says of processes and sessions agrees with itself, whatever
\* evidence a process shows and in whatever order Go ranges over the traces.
MappingIsConsistent ==
  /\ NoManufacturedSibling
  /\ progress \in {"attributed", "counted"} => ProcessesAreMapped
  /\ progress = "counted" => SharedIsDisclosed /\ AggregatesAddUp
=============================================================================
