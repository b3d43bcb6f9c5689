----------------------------- MODULE MCAnswers -----------------------------
(* Components that answer readers from state others change meanwhile, each  *)
(* in an instance of its own: the initial state names the one that runs,    *)
(* the others stand still.  They share no variable.                         *)
EXTENDS SnapshotDelivery, TrajectorySource, TrajectoryWatch, SourceRepack,
        SessionMapping, EvidenceWatcher, TLC

CONSTANTS h1, h2, c1, c2, s1

VARIABLE answering

answerVars == <<answering, vars, sourceVars, watchVars, repackVars, mappingVars, watcherVars>>

\* One consumer follows the only source, the other none.
FollowedSources == c1 :> {s1}
SourceIds == s1 :> 1

\* Six facts of two sources and two replay ranges, in rows out of their order.
FactOwner == <<1, 1, 1, 1, 2, 2>>
FactRange == <<1, 1, 1, 2, 1, 1>>
FactRow   == <<4, 1, 7, 2, 3, 9>>

\* Two processes of one tool and two transcripts, one inside a project.
Process(hints) == [tool |-> "codex", hints |-> hints, host |-> "term"]
Transcript(id, age, parent, project) ==
    [id |-> id, age |-> age, source |-> "user", parent |-> parent, project |-> project]
ProcessOrder == <<"p1", "p2">>
FileOrder    == <<"f1", "f2">>
FileTools    == "f1" :> "codex" @@ "f2" :> "codex"
FileNames    == "f1" :> "s1" @@ "f2" :> "none"
FileProjects == "f1" :> Unassigned @@ "f2" :> "a"
SomeProcesses == {Process({}), Process({"s1"}), Process({"s1", "s2"})}
SomeTraces == {Transcript("none", 0, FALSE, "a"), Transcript("s1", 0, FALSE, "b"),
               Transcript("s2", 9, TRUE, Unassigned)}

\* The transcripts the source store starts from, some of all of three lines.
SomeTranscripts == {<<"quiet", "quiet", "hit">>}

\* A component that stands still does so in one of its initial states.
AtRestElsewhere ==
    /\ log.lines \in SomeTranscripts
    /\ answering # "source" => row = NoRow

AnswersInit ==
    /\ answering \in {"snapshot", "source", "watch", "repack", "mapping", "watcher"}
    /\ Init /\ SourceInit /\ WatchInit /\ RepackInit /\ MappingInit /\ WatcherInit
    /\ AtRestElsewhere

\* Of the refresh loop only the startup slot and no shutdown: the clients' part
\* of the delivery is here, the loop's in a run of its own.
SnapshotNext == Next /\ ~closing' /\ request'[Loop] # "publish"

AnswersNext ==
    /\ UNCHANGED answering
    /\ \/ /\ answering = "snapshot" /\ SnapshotNext
          /\ UNCHANGED <<sourceVars, watchVars, repackVars, mappingVars, watcherVars>>
       \/ /\ answering = "source" /\ SourceNext
          /\ UNCHANGED <<vars, watchVars, repackVars, mappingVars, watcherVars>>
       \/ /\ answering = "watch" /\ WatchNext
          /\ UNCHANGED <<vars, sourceVars, repackVars, mappingVars, watcherVars>>
       \/ /\ answering = "repack" /\ RepackNext
          /\ UNCHANGED <<vars, sourceVars, watchVars, mappingVars, watcherVars>>
       \/ /\ answering = "mapping" /\ MappingNext
          /\ UNCHANGED <<vars, sourceVars, watchVars, repackVars, watcherVars>>
       \/ /\ answering = "watcher" /\ WatcherNext
          /\ UNCHANGED <<vars, sourceVars, watchVars, repackVars, mappingVars>>

AnswersSpec == AnswersInit /\ [][AnswersNext]_answerVars
=============================================================================
