------------------------------ MODULE SourceRepack ------------------------------
(***************************************************************************)
(* The two maintenance passes that rewrite the exceptions table of an      *)
(* installed source store in place, in bounded transactions:               *)
(*   - the block upgrade folds one-fact rows into blocks, never across a   *)
(*     replay range, and raises the store version;                         *)
(*   - the packing moves all blocks into one ascending run of row numbers. *)
(* Ordinary writes are admitted before and after a pass, not during it.    *)
(***************************************************************************)
EXTENDS Integers, FiniteSets, FiniteSetsExt

CONSTANTS
    OwnerOf,       \* fact |-> its source; facts are numbered in physical order
    RangeOf,       \* fact |-> the replay range of its source it lies in
    FirstRow,      \* fact |-> the row of the version 2 table that holds it
    BatchFacts,    \* facts of one upgrade transaction
    BatchRows,     \* rows of one packing transaction
    BlockFacts,    \* facts of one block
    MaxPackings,   \* packing passes
    MaxRevision    \* writes of the store

StoredFacts == DOMAIN OwnerOf

ASSUME RepackConstants ==
    /\ IsFiniteSet(StoredFacts) /\ StoredFacts = 1 .. Cardinality(StoredFacts)
    /\ DOMAIN RangeOf = StoredFacts /\ FirstRow \in [StoredFacts -> Nat \ {0}]
    /\ \A f, g \in StoredFacts : f # g => FirstRow[f] # FirstRow[g]
    /\ {BatchFacts, BatchRows, BlockFacts} \subseteq Nat \ {0}

VARIABLES
    table,    \* the exceptions: row number |-> [facts, legacy]
    version,  \* user_version
    upgrade,  \* the meta row "source-block-upgrade"
    packing,  \* the meta row "source-block-packing"
    revision, \* the store's write counter
    passes    \* packings finished, and the revision the last one left

repackVars == <<table, version, upgrade, packing, revision, passes>>

Off == [phase |-> "none"]
Rows == DOMAIN table
TableFacts == UNION {table[n].facts : n \in Rows}

RepackInit ==
    /\ table = [n \in {FirstRow[f] : f \in StoredFacts} |->
                  [facts |-> {f \in StoredFacts : FirstRow[f] = n}, legacy |-> TRUE]]
    /\ version = 2
    /\ upgrade = Off
    /\ packing = Off
    /\ revision = 0
    /\ passes = [count |-> 0, revision |-> -1]

-----------------------------------------------------------------------------
BeginUpgrade ==
    /\ version = 2 /\ upgrade = Off
    /\ upgrade' = [phase |-> "exception_blocks", cursor |-> 0, records |-> 0,
                   total |-> Cardinality(Rows)]
    /\ revision' = revision + 1
    /\ UNCHANGED <<table, version, packing, passes>>

LowestOf(S, n) == {x \in S : Cardinality({y \in S : y < x}) < n}

UpgradeBatch ==
    LowestOf({f \in StoredFacts : f > upgrade.cursor
                                   /\ \E n \in Rows : table[n].legacy /\ f \in table[n].facts},
             BatchFacts)

\* Mutant: a block takes the facts of its source, whatever their range.
GroupOfSource(batch, f) == {g \in batch : OwnerOf[g] = OwnerOf[f]}

\* The facts that share a block with f: same source, same range, same slice.
Group(batch, f) == {g \in batch : OwnerOf[g] = OwnerOf[f] /\ RangeOf[g] = RangeOf[f]}
Slice(S, f) == Cardinality({g \in S : g < f}) \div BlockFacts
BlockOf(batch, f) ==
    {g \in Group(batch, f) : Slice(Group(batch, f), g) = Slice(Group(batch, f), f)}

\* The first row of a block keeps its number, the rows of its other facts go.
UpgradeBlocks ==
    LET batch == UpgradeBatch
        old == {FirstRow[f] : f \in batch}
        lead == {f \in batch : f = Min(BlockOf(batch, f))}
        kept == {FirstRow[f] : f \in lead}
    IN /\ upgrade.phase = "exception_blocks"
       /\ batch # {}
       /\ table' = [n \in (Rows \ old) \cup kept |->
                      IF n \in kept
                      THEN [facts |-> BlockOf(batch, CHOOSE f \in lead : FirstRow[f] = n),
                            legacy |-> FALSE]
                      ELSE table[n]]
       /\ upgrade' = [upgrade EXCEPT !.cursor = Max(batch), !.records = @ + Cardinality(batch)]
       /\ revision' = revision + 1
       /\ UNCHANGED <<version, packing, passes>>

\* The digest over all facts in physical order must be the one of the originals.
UpgradeProved ==
    /\ upgrade.phase = "exception_blocks"
    /\ UpgradeBatch = {}
    /\ upgrade.records = upgrade.total
    /\ TableFacts = StoredFacts
    /\ upgrade' = [upgrade EXCEPT !.phase = "reclaim"]
    /\ revision' = revision + 1
    /\ UNCHANGED <<table, version, packing, passes>>

FinishUpgrade ==
    /\ upgrade.phase = "reclaim"
    /\ ~\E n \in Rows : table[n].legacy
    /\ upgrade' = Off
    /\ version' = 3
    /\ revision' = revision + 1
    /\ UNCHANGED <<table, packing, passes>>

-----------------------------------------------------------------------------
\* A result of the current revision is not repeated.
BeginPacking ==
    /\ version = 3 /\ packing = Off
    /\ passes.count < MaxPackings
    /\ passes.revision # revision
    /\ packing' = [phase |-> "pack_blocks", maxOldRow |-> Max(Rows \cup {0}), cursor |-> 0,
                   nextRow |-> Max(Rows \cup {0}) + 1, blocks |-> Cardinality(Rows),
                   packed |-> 0, revision |-> revision + 1]
    /\ revision' = revision + 1
    /\ UNCHANGED <<table, version, upgrade, passes>>

PackingBatch ==
    LowestOf({n \in Rows : n > packing.cursor /\ n <= packing.maxOldRow}, BatchRows)

PackBlocks ==
    LET batch == PackingBatch
        to == [n \in batch |-> packing.nextRow + Cardinality({m \in batch : m < n})]
        moved == {to[n] : n \in batch}
    IN /\ packing.phase = "pack_blocks"
       /\ packing.revision = revision
       /\ batch # {}
       /\ moved \cap Rows = {}
       /\ table' = [n \in (Rows \ batch) \cup moved |->
                      IF n \in moved THEN table[CHOOSE m \in batch : to[m] = n] ELSE table[n]]
       /\ packing' = [packing EXCEPT !.cursor = Max(batch), !.nextRow = @ + Cardinality(batch),
                                     !.packed = @ + Cardinality(batch), !.revision = @ + 1]
       /\ revision' = revision + 1
       /\ UNCHANGED <<version, upgrade, passes>>

PackingProved ==
    /\ packing.phase = "pack_blocks"
    /\ packing.revision = revision
    /\ PackingBatch = {}
    /\ packing.packed = packing.blocks
    /\ packing' = [packing EXCEPT !.phase = "reclaim", !.revision = @ + 1]
    /\ revision' = revision + 1
    /\ UNCHANGED <<table, version, upgrade, passes>>

\* Mutant: the receipt names the revision before the packing's own commit.
FinishPackingBefore ==
    /\ packing.phase = "reclaim"
    /\ packing.revision = revision
    /\ packing' = Off
    /\ passes' = [count |-> passes.count + 1, revision |-> revision]
    /\ revision' = revision + 1
    /\ UNCHANGED <<table, version, upgrade>>

FinishPacking ==
    /\ packing.phase = "reclaim"
    /\ packing.revision = revision
    /\ packing' = Off
    /\ passes' = [count |-> passes.count + 1, revision |-> revision + 1]
    /\ revision' = revision + 1
    /\ UNCHANGED <<table, version, upgrade>>

\* A transcript is indexed again: the blocks of one replay range are deleted
\* by their position, and the range's facts written as new blocks.
RewriteRange(s, r) ==
    LET inside == {f \in StoredFacts : OwnerOf[f] = s /\ RangeOf[f] = r}
        gone == {n \in Rows : Min(table[n].facts) \in inside}
        fresh == {f \in inside : f = Min(BlockOf(inside, f))}
        at == [f \in fresh |-> Max(Rows \cup {0}) + Cardinality({g \in fresh : g <= f})]
    IN /\ version = 3 /\ packing = Off
       /\ passes.count < MaxPackings
       /\ inside # {}
       /\ table' = [n \in (Rows \ gone) \cup {at[f] : f \in fresh} |->
                      IF \E f \in fresh : at[f] = n
                      THEN [facts |-> BlockOf(inside, CHOOSE f \in fresh : at[f] = n),
                            legacy |-> FALSE]
                      ELSE table[n]]
       /\ revision' = revision + 1
       /\ revision < MaxRevision
       /\ UNCHANGED <<version, upgrade, packing, passes>>

RepackNext ==
    \/ BeginUpgrade \/ UpgradeBlocks \/ UpgradeProved \/ FinishUpgrade
    \/ BeginPacking \/ PackBlocks \/ PackingProved \/ FinishPacking
    \/ \E f \in StoredFacts : RewriteRange(OwnerOf[f], RangeOf[f])

RepackSpec == RepackInit /\ [][RepackNext]_repackVars

-----------------------------------------------------------------------------
\* Whatever batch was the last one to commit, every fact is in the table
\* exactly once: in a row of its own, in a block, in a moved block.
EveryFactOnce ==
    \A f \in StoredFacts : Cardinality({n \in Rows : f \in table[n].facts}) = 1

\* A finished packing leaves one gapless run of rows, and the store at the
\* revision its receipt names.
PackedIsDense ==
    [][ passes'.count > passes.count
          => /\ Rows = packing.maxOldRow + 1 .. packing.maxOldRow + Cardinality(Rows)
             /\ passes'.revision = revision' ]_repackVars
=============================================================================
