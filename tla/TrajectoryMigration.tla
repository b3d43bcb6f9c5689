-------------------------- MODULE TrajectoryMigration --------------------------
(***************************************************************************)
(* How an installed trajectory index of an older format becomes a source   *)
(* store: bounded batches copy every fact into one shadow file, a seal     *)
(* binds the finished shadow to its hash, renames put it in the place of   *)
(* the original, and only then is the original removed.  Facts of a        *)
(* transcript that is still readable are kept as verified ranges of the    *)
(* transcript (with exceptions where today's decoder disagrees), the       *)
(* others are stored whole.  Transcripts grow, are rewritten, disappear    *)
(* and come back while this happens; the process may stop after any        *)
(* durable write.                                                          *)
(***************************************************************************)
EXTENDS Integers, FiniteSets, FiniteSetsExt

CONSTANTS
    SlotCount,     \* record positions of one transcript, one per replay chunk
    OldFacts,      \* row |-> the positions the original index has a fact for
    Decoded,       \* row |-> the positions today's decoder makes a fact of
    Unreplayable,  \* rows the original already has as missing or retired
    InputKinds,    \* "facts": one SQLite file; "dual": index.bbolt and search.sqlite
    MaxChanges,    \* changes of transcripts
    MaxStops       \* crashes and cancellations inside a batch

InputRows == DOMAIN OldFacts

ASSUME MigrationConstants ==
    /\ SlotCount \in Nat
    /\ IsFiniteSet(InputRows)
    /\ InputRows = 1 .. Cardinality(InputRows)
    /\ OldFacts \in [InputRows -> SUBSET (1 .. SlotCount)]
    /\ Decoded \in [InputRows -> SUBSET (1 .. SlotCount)]
    /\ Unreplayable \subseteq InputRows
    /\ InputKinds \subseteq {"facts", "dual"}
    /\ {MaxChanges, MaxStops} \subseteq Nat

VARIABLES
    inputKind,  \* which of the two original formats is being read
    raw,        \* the transcripts: how often changed, and whether the indexed prefix is intact
    files,      \* what the names on disk hold: index, shadow, and the originals kept beside
    target,     \* the new store, wherever it is: its source rows and its progress row
    seal,       \* the cutover seal file
    flight,     \* what the running call still has to do after its last durable write
    changes, stops

migrationVars == <<inputKind, raw, files, target, seal, flight, changes, stops>>

Nothing == [do |-> "nothing"]
NoSeal == [sealed |-> FALSE]
NotCopied == [copied |-> FALSE]
Unverified == -1

\* Phases of the progress row.  "control" stands for the copy of everything
\* that is not a fact (control and metadata rows; for the dual input the
\* search progress and the bucket walk).
Unstarted ==
    [phase |-> "control", source |-> 1, anchor |-> 0, mode |-> "none", after |-> 0,
     records |-> 0, back |-> 0, backPhase |-> "none"]

MigrationInit ==
    /\ inputKind \in InputKinds
    /\ raw = [r \in InputRows |-> [stamp |-> 0, file |-> "intact"]]
    /\ files = IF inputKind = "facts"
               THEN [index |-> "old", shadow |-> TRUE, kept |-> {}]
               ELSE [index |-> "none", shadow |-> TRUE, kept |-> {"index.bbolt", "search.sqlite"}]
    /\ target = [rows |-> [r \in InputRows |-> NotCopied], progress |-> Unstarted]
    /\ seal = NoSeal
    /\ flight = Nothing
    /\ changes = 0
    /\ stops = 0

LastRow == Cardinality(InputRows)
Progress == target.progress

-----------------------------------------------------------------------------
(* The facts a row of the new store gives back, if its transcript still has  *)
(* the bytes the ranges were verified against.                               *)
FactsOf(row) ==
    IF ~row.copied THEN {}
    ELSE IF row.missing THEN row.stored
    ELSE ((Decoded[row.of] \cap row.ranges) \ row.hidden) \cup row.stored

Replayed(row) == row.copied /\ ~row.missing

\* The facts that can really be read now, with the transcripts as they are.
ReadableFacts(row) ==
    IF Replayed(row) /\ raw[row.of].file # "intact" THEN row.stored ELSE FactsOf(row)

FreshRow(r) ==
    [copied |-> TRUE, of |-> r, missing |-> r \in Unreplayable, verified |-> Unverified,
     ranges |-> {}, stored |-> {}, hidden |-> {}]

RowOf(r) == IF target.rows[r].copied THEN target.rows[r] ELSE FreshRow(r)

OldCount(S) == Cardinality(UNION {{r} \X OldFacts[r] : r \in S})

-----------------------------------------------------------------------------
(* Transcripts change under the migration.                                   *)
Changed(r, how) == [raw EXCEPT ![r] = [stamp |-> @.stamp + 1, file |-> how]]

ChangeTranscript(r) ==
    /\ changes < MaxChanges
    /\ \E how \in {"intact", "rewritten", "gone"} :
          /\ how = "intact" => raw[r].file # "rewritten"
          /\ raw' = Changed(r, how)
    /\ changes' = changes + 1
    /\ UNCHANGED <<inputKind, files, target, seal, flight, stops>>

\* A crash, a cancelled context: what is durable stays, the rest of the call is lost.
StopMigration ==
    /\ flight # Nothing
    /\ stops < MaxStops
    /\ flight' = Nothing
    /\ stops' = stops + 1
    /\ UNCHANGED <<inputKind, raw, files, target, seal, changes>>

Quiet == flight = Nothing /\ UNCHANGED <<inputKind, raw, changes, stops>>

-----------------------------------------------------------------------------
(* One batch of the copy.  A row is written in one transaction and the       *)
(* progress row in another.                                                  *)
Copying ==
    /\ Quiet
    /\ Progress.phase = "sources"
    /\ IF inputKind = "facts" THEN files.index = "old" ELSE files.index = "none"
    /\ files.shadow
    /\ UNCHANGED <<files, seal>>

WriteRow(r, row, next) ==
    /\ target' = [target EXCEPT !.rows[r] = row]
    /\ flight' = [do |-> "save", progress |-> next]

SaveMigration ==
    /\ flight.do = "save"
    /\ target' = [target EXCEPT !.progress = flight.progress]
    /\ flight' = Nothing
    /\ UNCHANGED <<inputKind, raw, files, seal, changes, stops>>

SaveNow(next) ==
    /\ target' = [target EXCEPT !.progress = next]
    /\ UNCHANGED flight

CopyControl ==
    /\ Quiet
    /\ Progress.phase = "control"
    /\ SaveNow([Progress EXCEPT !.phase = "sources"])
    /\ UNCHANGED <<files, seal>>

\* Mutant: a row repaired once is repaired for ever.
NextRowStaying(p) ==
    [p EXCEPT !.source = IF p.back # 0 THEN p.back ELSE p.source + 1,
              !.anchor = 0, !.mode = "none", !.after = 0]

NextRow(p) ==
    [p EXCEPT !.source = IF p.back # 0 THEN p.back ELSE p.source + 1,
              !.back = 0, !.anchor = 0, !.mode = "none", !.after = 0]

\* Mutant: the facts of the abandoned ranges stay in the count.
EnterStoredCounting(p) ==
    IF p.mode = "stored" THEN p
    ELSE [p EXCEPT !.mode = "stored", !.after = 0]

\* Facts already copied as ranges will be copied again, whole.
EnterStored(p) ==
    IF p.mode = "stored" THEN p
    ELSE [p EXCEPT !.records = @ - Cardinality(OldFacts[p.source] \cap (1 .. p.anchor)),
                   !.mode = "stored", !.after = 0]

MustStore(r) ==
    Progress.mode = "stored" \/ r \in Unreplayable \/ raw[r].file = "gone"

\* Ranges and exceptions of an abandoned replay go before the first stored batch.
ClearRow(r) ==
    /\ Copying
    /\ r = Progress.source
    /\ MustStore(r)
    /\ EnterStored(Progress).after = 0
    /\ RowOf(r).ranges \cup RowOf(r).stored \cup RowOf(r).hidden # {}
    /\ WriteRow(r, [RowOf(r) EXCEPT !.ranges = {}, !.stored = {}, !.hidden = {}],
                EnterStored(Progress))

StoreFact(r) ==
    LET p == EnterStored(Progress)
        left == {s \in OldFacts[r] : s > p.after}
        row == [RowOf(r) EXCEPT !.missing = TRUE, !.verified = Unverified]
    IN /\ Copying
       /\ r = Progress.source
       /\ MustStore(r)
       /\ p.after = 0 => RowOf(r).ranges \cup RowOf(r).stored \cup RowOf(r).hidden = {}
       /\ left # {}
       /\ WriteRow(r, [row EXCEPT !.stored = @ \cup {Min(left)}],
                   [p EXCEPT !.after = Min(left), !.records = @ + 1])

FinishStored(r) ==
    LET p == EnterStored(Progress)
        row == [RowOf(r) EXCEPT !.missing = TRUE, !.verified = Unverified]
    IN /\ Copying
       /\ r = Progress.source
       /\ MustStore(r)
       /\ p.after = 0 => RowOf(r).ranges \cup RowOf(r).stored \cup RowOf(r).hidden = {}
       /\ ~\E s \in OldFacts[r] : s > p.after
       /\ Cardinality(row.stored) = Cardinality(OldFacts[r])
       /\ WriteRow(r, row, NextRow(p))

MayReplay(r) ==
    /\ Copying
    /\ r = Progress.source
    /\ ~MustStore(r)
    /\ raw[r].file = "intact"
    /\ ~RowOf(r).missing      \* a row left missing is invisible to the readback

\* The chunk's range, with an exception where the decoder and the original differ.
RangeRow(r, s) ==
    [RowOf(r) EXCEPT
        !.verified = Unverified,
        !.ranges = @ \cup {s},
        !.stored = (@ \ {s}) \cup ({s} \cap (OldFacts[r] \ Decoded[r])),
        !.hidden = (@ \ {s}) \cup ({s} \cap (Decoded[r] \ OldFacts[r]))]

ReplayChunk(r) ==
    LET s == Progress.anchor + 1
    IN /\ MayReplay(r)
       /\ s <= SlotCount
       /\ s \in FactsOf(RangeRow(r, s)) <=> s \in OldFacts[r]
       /\ WriteRow(r, RangeRow(r, s),
                   [Progress EXCEPT !.anchor = s,
                                    !.records = @ + Cardinality({s} \cap OldFacts[r])])

CompleteRow(r) ==
    /\ MayReplay(r)
    /\ Progress.anchor = SlotCount
    /\ RowOf(r).ranges = 1 .. SlotCount
    /\ WriteRow(r, [RowOf(r) EXCEPT !.verified = raw[r].stamp], NextRow(Progress))

\* The indexed bytes are no longer there, or the file changed during the read.
ReplayRefused(r) ==
    /\ Copying
    /\ r = Progress.source
    /\ ~MustStore(r)
    /\ raw[r].file = "rewritten"
    /\ SaveNow(EnterStored(Progress))

GrowDuringReplay(r) ==
    /\ flight = Nothing
    /\ Progress.phase = "sources" /\ r = Progress.source
    /\ ~MustStore(r) /\ raw[r].file = "intact" /\ ~RowOf(r).missing
    /\ changes < MaxChanges
    /\ raw' = Changed(r, "intact")
    /\ changes' = changes + 1
    /\ SaveNow(EnterStored(Progress))
    /\ UNCHANGED <<inputKind, files, seal, stops>>

-----------------------------------------------------------------------------
(* The publication boundary: every row that relies on a transcript is        *)
(* checked again, absences first.                                            *)
Relying == {r \in InputRows : Replayed(target.rows[r])}
Absent == {r \in Relying : raw[r].file = "gone"}
Stale == {r \in Relying : raw[r].stamp # target.rows[r].verified}
Invalidated == IF Absent # {} THEN Min(Absent) ELSE Min(Stale)
SourcesValid == Absent \cup Stale = {}

Repair ==
    [Progress EXCEPT !.back = Progress.source, !.source = Invalidated,
                     !.records = @ - Cardinality(OldFacts[Invalidated]),
                     !.backPhase = IF @ = "none" THEN Progress.phase ELSE @,
                     !.phase = "sources", !.anchor = 0, !.mode = "stored", !.after = 0]

MayRepair == ~SourcesValid /\ Progress.back = 0 /\ Invalidated < Progress.source

CountsAgree ==
    /\ \A r \in InputRows : target.rows[r].copied
    /\ \A r \in Relying : target.rows[r].verified # Unverified
    /\ Progress.records = OldCount(InputRows)
    /\ Cardinality(UNION {{r} \X FactsOf(target.rows[r]) : r \in InputRows})
          = OldCount(InputRows)

RowsDone == Copying /\ Progress.source > LastRow

RepairCopied ==
    /\ RowsDone
    /\ MayRepair
    /\ SaveNow(Repair)

SaveReady(p) ==
    /\ target' = [target EXCEPT !.progress = [p EXCEPT !.phase = "ready", !.backPhase = "none"]]
    /\ flight' = [do |-> "seal"]

FinishCopy ==
    /\ RowsDone
    /\ SourcesValid
    /\ CountsAgree
    /\ IF inputKind = "facts" THEN SaveReady(Progress)
       ELSE SaveNow([Progress EXCEPT
                        !.phase = IF @ = "sources" /\ Progress.backPhase \in {"ready", "search"}
                                  THEN "search" ELSE "verify",
                        !.backPhase = "none"])

\* The dual input is compared whole a second time, facts, then search rows.
VerifyDual ==
    /\ Quiet
    /\ Progress.phase = "verify"
    /\ \A r \in InputRows : ReadableFacts(target.rows[r]) = OldFacts[r]
    /\ SaveNow([Progress EXCEPT !.phase = "search"])
    /\ UNCHANGED <<files, seal>>

VerifySearch ==
    /\ Quiet
    /\ Progress.phase = "search"
    /\ \/ MayRepair /\ SaveNow(Repair)
       \/ SourcesValid /\ CountsAgree /\ SaveReady(Progress)
    /\ UNCHANGED <<files, seal>>

-----------------------------------------------------------------------------
(* Seal and cutover.                                                         *)
SealFits(t) == seal.sealed /\ seal.of = t

WriteSeal ==
    /\ flight.do = "seal"
    /\ seal' = [sealed |-> TRUE, of |-> target, retiring |-> "none",
                retired |-> IF inputKind = "dual" /\ seal.sealed THEN seal.retired ELSE {}]
    /\ flight' = Nothing
    /\ UNCHANGED <<inputKind, raw, files, target, changes, stops>>

\* No seal proves the ready shadow: everything is verified again.
RestartUnsealed ==
    /\ Quiet
    /\ files.shadow
    /\ Progress.phase = "ready"
    /\ ~seal.sealed
    /\ SaveNow([Unstarted EXCEPT !.back = Progress.back, !.backPhase = Progress.backPhase])
    /\ UNCHANGED <<files, seal>>

Installable ==
    /\ Quiet
    /\ files.shadow
    /\ Progress.phase = "ready"
    /\ files.index = IF inputKind = "facts" THEN "old" ELSE "none"
    /\ "source-legacy" \notin files.kept
    /\ SealFits(target)

\* A transcript changed after the seal: repair the shadow, then drop the seal,
\* unless it records which originals are already retired.
RepairSealed ==
    /\ Installable
    /\ MayRepair
    /\ target' = [target EXCEPT !.progress = Repair]
    /\ flight' = IF inputKind = "dual" /\ (seal.retiring # "none" \/ seal.retired # {})
                 THEN Nothing ELSE [do |-> "unseal"]
    /\ UNCHANGED <<files, seal>>

DropSeal ==
    /\ flight.do = "unseal"
    /\ seal' = NoSeal
    /\ flight' = Nothing
    /\ UNCHANGED <<inputKind, raw, files, target, changes, stops>>

Install ==
    /\ Installable
    /\ SourcesValid
    /\ IF inputKind = "facts"
       THEN /\ files' = [files EXCEPT !.index = "none", !.kept = {"source-legacy"}]
            /\ flight' = [do |-> "publish"]
       ELSE /\ files' = [files EXCEPT !.index = "new", !.shadow = FALSE]
            /\ UNCHANGED flight
    /\ UNCHANGED <<target, seal>>

\* Also what a later start does when it finds the original moved away.
PublishShadow ==
    /\ flight.do \in {"publish", "nothing"}
    /\ files.index = "none" /\ "source-legacy" \in files.kept /\ files.shadow
    /\ files' = [files EXCEPT !.index = "new", !.shadow = FALSE]
    /\ flight' = Nothing
    /\ UNCHANGED <<inputKind, raw, target, seal, changes, stops>>

-----------------------------------------------------------------------------
(* The new store is in place; the originals are retired one by one.          *)
RetireOrder(name) ==
    /\ name \in {"source-legacy", "search.sqlite", "index.bbolt"}
    /\ name = "index.bbolt" => "search.sqlite" \in seal.retired

ToRetire(name) ==
    /\ name = "source-legacy" <=> inputKind = "facts"
    /\ RetireOrder(name)
    /\ name \notin seal.retired

Finishable ==
    /\ Quiet
    /\ files.index = "new"
    /\ SealFits(target)

Canonical == IF inputKind = "facts" THEN "source-legacy" ELSE "index.bbolt"

\* Mutant: the transcripts are not looked at again before the original goes.
IntendRetirementUnchecked(name) ==
    /\ Finishable
    /\ ToRetire(name)
    /\ inputKind = "facts" => name \in files.kept
    /\ seal' = [seal EXCEPT !.retiring = name]
    /\ flight' = [do |-> "remove", name |-> name]
    /\ UNCHANGED <<files, target>>

\* The intent is durable before the file goes.
IntendRetirement(name) ==
    /\ Finishable
    /\ ToRetire(name)
    /\ inputKind = "facts" => name \in files.kept
    /\ Canonical \in files.kept => SourcesValid
    /\ seal' = [seal EXCEPT !.retiring = name]
    /\ flight' = [do |-> "remove", name |-> name]
    /\ UNCHANGED <<files, target>>

RemoveOriginal ==
    /\ flight.do = "remove"
    /\ files' = [files EXCEPT !.kept = @ \ {flight.name}]
    /\ flight' = [flight EXCEPT !.do = "retired"]
    /\ UNCHANGED <<inputKind, raw, target, seal, changes, stops>>

RecordRetired ==
    /\ flight.do = "retired"
    /\ seal' = [seal EXCEPT !.retiring = "none", !.retired = @ \cup {flight.name}]
    /\ flight' = Nothing
    /\ UNCHANGED <<inputKind, raw, files, target, changes, stops>>

\* Everything is retired (or was, before a crash): the seal is of no more use.
RemoveSeal ==
    /\ Finishable
    /\ IF inputKind = "facts"
       THEN files.kept = {} /\ (seal.retiring = Canonical \/ Canonical \in seal.retired)
       ELSE {"search.sqlite", "index.bbolt"} \subseteq seal.retired
    /\ seal' = NoSeal
    /\ UNCHANGED <<files, target, flight>>

\* A transcript changed after publication: back to the shadow.
Withdraw ==
    /\ Finishable
    /\ Canonical \in files.kept
    /\ inputKind = "dual" => \E name \in {"search.sqlite", "index.bbolt"} : ToRetire(name)
    /\ ~SourcesValid
    /\ files' = [files EXCEPT !.index = "none", !.shadow = TRUE]
    /\ flight' = IF inputKind = "facts" THEN [do |-> "restore"] ELSE Nothing
    /\ UNCHANGED <<target, seal>>

RestoreOriginal ==
    /\ flight.do = "restore"
    /\ files' = [files EXCEPT !.index = "old", !.kept = {}]
    /\ flight' = Nothing
    /\ UNCHANGED <<inputKind, raw, target, seal, changes, stops>>

-----------------------------------------------------------------------------
CopyStep ==
    \/ CopyControl
    \/ \E r \in InputRows :
          ClearRow(r) \/ StoreFact(r) \/ FinishStored(r)
            \/ ReplayChunk(r) \/ CompleteRow(r) \/ ReplayRefused(r)
    \/ RepairCopied \/ FinishCopy \/ VerifyDual \/ VerifySearch
    \/ SaveMigration

CutoverStep ==
    \/ WriteSeal \/ RestartUnsealed \/ RepairSealed \/ DropSeal
    \/ Install \/ PublishShadow
    \/ \E name \in {"source-legacy", "search.sqlite", "index.bbolt"} : IntendRetirement(name)
    \/ RemoveOriginal \/ RecordRetired \/ RemoveSeal
    \/ Withdraw \/ RestoreOriginal

MigrationNext ==
    \/ CopyStep
    \/ CutoverStep
    \/ \E r \in InputRows : ChangeTranscript(r) \/ GrowDuringReplay(r)
    \/ StopMigration

MigrationSpec == MigrationInit /\ [][MigrationNext]_migrationVars

\* openIndex is called again by every query and by the maintenance tool's loop.
MigrationFairness == WF_migrationVars(CopyStep \/ CutoverStep)

MigrationFairSpec == MigrationSpec /\ MigrationFairness

-----------------------------------------------------------------------------
(* Properties.                                                               *)
Migrated == files.index = "new" /\ ~seal.sealed

\* At every instant, also between two renames, some store that holds every
\* fact has the name under which the next open looks for it
\* (source_migration.go: "originals preserved").
FactsHaveAnOwner ==
    \/ files.index = "old"
    \/ files.kept \cap {"source-legacy", "index.bbolt"} # {}
    \/ /\ files.index = "new"
       /\ \A r \in InputRows : FactsOf(target.rows[r]) = OldFacts[r]

\* The decision to remove the canonical original is recorded only at a moment
\* when the new store, with the transcripts as they are, gives back exactly
\* the facts of the original.
RetiresOnlyReadable ==
    [][ seal'.sealed /\ seal'.retiring = Canonical /\ seal.retiring # Canonical
          => \A r \in InputRows : ReadableFacts(target.rows[r]) = OldFacts[r] ]_migrationVars

\* The durable count is the number of facts the cursor stands behind, through
\* crashes between the two writes of a batch, switches from replay to stored
\* copies, and repairs that go back to an earlier row.
RecordsCountCopied ==
    LET p == Progress
        done == {r \in InputRows : r < (IF p.back # 0 THEN p.back ELSE p.source)} \ {p.source}
        cursor == IF p.mode = "stored" THEN p.after ELSE p.anchor
    IN p.records = OldCount(done)
          + (IF p.source \in InputRows THEN Cardinality(OldFacts[p.source] \cap (1 .. cursor)) ELSE 0)

\* No fact is ever without an owner, and the durable count is exact.
MigrationKeepsFacts == FactsHaveAnOwner /\ RecordsCountCopied

AllIntact == \A r \in InputRows : raw[r].file = "intact"

\* A migration that is never interrupted finishes, however the transcripts
\* grew, disappeared or were rewritten meanwhile, once they are readable.
UninterruptedMigrationFinishes ==
    ([]<>(stops = 0) /\ <>[]AllIntact) => []<>Migrated
=============================================================================
