------------------------------- MODULE UsageTail -------------------------------
(***************************************************************************)
(* One transcript read for its output tokens by the two readers that share *)
(* a usage decoder: the live sampler, which tails it from wherever it found *)
(* it and remembers a bounded number of messages, and the replay ledger,   *)
(* which reads it from the start in quanta and commits each with its       *)
(* checkpoint.  The transcript grows, tears, is rewritten in place and     *)
(* replaced.  Sizes are counted in half records.                           *)
(***************************************************************************)
EXTENDS Integers, Sequences, SequencesExt, FiniteSetsExt

CONSTANTS
    Providers,    \* the usage records each provider writes
    MaxLines,     \* records of one body of the file
    Quantum,      \* records a replay reads at most before it commits
    ReadLimit,    \* records a baseline reads back from the end
    MaxMessages,  \* messages the sampler remembers
    MaxRewrites, MaxGaps

\* A record repeats the output of a message as it grows, or a running total.
IsTotal(line) == "total" \in DOMAIN line

ASSUME UsageConstants ==
    /\ {MaxLines, Quantum, ReadLimit, MaxMessages, MaxRewrites, MaxGaps} \subseteq Nat
    /\ \A line \in UNION Providers :
          IF IsTotal(line) THEN line.total \in Nat /\ line.at \in Nat ELSE line.out \in Nat

Messages == {line.of : line \in {l \in UNION Providers : ~IsTotal(l)}}

VARIABLES
    reading, \* the reader that is followed; they share nothing but the file
    lineKinds, \* the records this transcript's provider writes
    file,    \* the transcript: inode, body, its complete records, a torn tail
    live,    \* what the sampler keeps of the file, or nothing
    counted, \* tokens the sampler put into its buckets since its last baseline
    replay,  \* the ledger's bucket of the source: checkpoint, messages, tokens
    rewrites, gaps

usageVars == <<reading, lineKinds, file, live, counted, replay, rewrites, gaps>>

Untracked == [tracked |-> FALSE]
NoSum == [known |-> FALSE, total |-> 0, at |-> 0]
NoReplay == [inode |-> 0, body |-> 0, size |-> 0, offset |-> 0,
             messages |-> << >>, sum |-> NoSum, tokens |-> 0]

UsageInit ==
    /\ reading \in {"live", "ledger"}
    /\ lineKinds \in Providers
    /\ file = [inode |-> 1, body |-> 1, lines |-> << >>, torn |-> 0]
    /\ live = Untracked
    /\ counted = 0
    /\ replay = NoReplay
    /\ rewrites = 0
    /\ gaps = 0

Size == 2 * Len(file.lines) + file.torn

-----------------------------------------------------------------------------
(* The transcript.                                                           *)
Readers == <<reading, lineKinds, live, counted, replay, gaps>>

AppendLine(line) ==
    /\ Len(file.lines) < MaxLines
    /\ file' = [file EXCEPT !.lines = Append(@, line), !.torn = 0]
    /\ UNCHANGED <<Readers, rewrites>>

TearLine ==
    /\ Len(file.lines) < MaxLines /\ file.torn = 0
    /\ file' = [file EXCEPT !.torn = 1]
    /\ UNCHANGED <<Readers, rewrites>>

\* Truncated and written again, in place or as another file.
RewriteFile(lines) ==
    /\ rewrites < MaxRewrites
    /\ rewrites' = rewrites + 1
    /\ \E inode \in {file.inode, file.inode + 1} :
          file' = [inode |-> inode, body |-> file.body + 1, lines |-> lines, torn |-> 0]
    /\ UNCHANGED Readers

-----------------------------------------------------------------------------
(* The shared projection of one record.                                      *)
SumGrowth(sum, line) ==
    IF sum.known /\ line.total > sum.total /\ line.at >= sum.at THEN line.total - sum.total ELSE 0

NextSum(sum, line) == [known |-> TRUE, total |-> line.total, at |-> line.at]

\* Messages are kept oldest first, as pairs of an identity and its output.
OutputOf(seen, m) == Max({0} \cup {pair.out : pair \in {p \in ToSet(seen) : p.of = m}})

Growth(seen, line) == Max({0, line.out - OutputOf(seen, line.of)})

Others(seen, m) ==
    IF \E i \in DOMAIN seen : seen[i].of = m
    THEN RemoveAt(seen, CHOOSE i \in DOMAIN seen : seen[i].of = m)
    ELSE seen

Moved(seen, line) ==
    Append(Others(seen, line.of),
           [of |-> line.of, out |-> Max({line.out, OutputOf(seen, line.of)})])

-----------------------------------------------------------------------------
(* The sampler.                                                              *)
Forgetful(seen, limit) ==
    IF Len(seen) > limit THEN SubSeq(seen, Len(seen) - limit + 1, Len(seen)) ELSE seen

Remember(seen, line) == Forgetful(Moved(seen, line), MaxMessages)

Observe(t, line) ==
    IF IsTotal(line)
    THEN [t EXCEPT !.tokens = @ + SumGrowth(t.sum, line), !.sum = NextSum(t.sum, line)]
    ELSE [t EXCEPT !.tokens = @ + Growth(t.messages, line),
                   !.messages = Remember(t.messages, line),
                   !.forgot = @ \/ Len(Moved(t.messages, line)) > MaxMessages]

\* The ledger forgets no message.
AfterRecord(r, line) ==
    IF IsTotal(line)
    THEN [r EXCEPT !.tokens = @ + SumGrowth(r.sum, line), !.sum = NextSum(r.sum, line)]
    ELSE [r EXCEPT !.tokens = @ + Growth(r.messages, line), !.messages = Moved(r.messages, line)]

Project(by, t, line) == IF by = "live" THEN Observe(t, line) ELSE AfterRecord(t, line)

\* One record after the other, into what the reader knows.
Projected(by, t, lines) ==
    LET after[i \in 0 .. Len(lines)] ==
          IF i = 0 THEN t ELSE Project(by, after[i - 1], lines[i])
    IN after[Len(lines)]

NewTracker == [messages |-> << >>, sum |-> NoSum, tokens |-> 0, forgot |-> FALSE]

\* What is already in the file is remembered and not counted; only its end is
\* read, and the first record of that end may be cut.
Baseline(f) ==
    LET first == Max({1, Len(f.lines) - ReadLimit + 1})
        t == Projected("live", NewTracker, SubSeq(f.lines, first, Len(f.lines)))
    IN [tracked |-> TRUE, inode |-> f.inode, body |-> f.body, size |-> 2 * Len(f.lines) + f.torn,
        offset |-> Len(f.lines), messages |-> t.messages, sum |-> t.sum,
        forgot |-> t.forgot \/ first > 1, from |-> Len(f.lines)]

Rebaseline ==
    /\ live' = Baseline(file)
    /\ counted' = 0
    /\ UNCHANGED <<reading, lineKinds, file, replay, rewrites>>

SyncEvidence ==
    /\ ~live.tracked /\ Size > 0
    /\ Rebaseline
    /\ UNCHANGED gaps

\* The cap evicts the coldest file, a quiet one ages out, an unreadable one goes.
DropTracked ==
    /\ live.tracked
    /\ gaps < MaxGaps
    /\ gaps' = gaps + 1
    /\ live' = Untracked
    /\ counted' = 0
    /\ UNCHANGED <<reading, lineKinds, file, replay, rewrites>>

\* The bytes before the offset are the ones that were read.
BoundaryMatches == live.offset = 0 \/ file.body = live.body

MustRebaseline ==
    \/ file.inode # live.inode
    \/ Size < 2 * live.offset
    \/ Size = live.size /\ file.body # live.body   \* its mtime tells
    \/ Size # live.size /\ ~BoundaryMatches

PollRebaseline ==
    /\ live.tracked
    /\ \/ MustRebaseline /\ UNCHANGED gaps
       \/ \* the poll before was too long ago
          /\ Size # live.size /\ gaps < MaxGaps
          /\ gaps' = gaps + 1
    /\ Rebaseline

\* Complete lines are counted, the offset never enters a torn one.  If there is
\* none the tracked state stays as it was.
ReadAppend ==
    /\ live.tracked /\ ~MustRebaseline
    /\ Len(file.lines) > live.offset
    /\ LET t == Projected("live",
                          [messages |-> live.messages, sum |-> live.sum, tokens |-> 0,
                           forgot |-> live.forgot],
                          SubSeq(file.lines, live.offset + 1, Len(file.lines)))
       IN /\ live' = [live EXCEPT !.messages = t.messages, !.sum = t.sum, !.forgot = t.forgot,
                                  !.offset = Len(file.lines), !.body = file.body, !.size = Size]
          /\ counted' = counted + t.tokens
    /\ UNCHANGED <<reading, lineKinds, file, replay, rewrites, gaps>>

\* Messages not seen for a while are forgotten with the next read.
ExpireMessages ==
    /\ live.tracked /\ live.messages # << >>
    /\ gaps < MaxGaps
    /\ gaps' = gaps + 1
    /\ live' = [live EXCEPT !.messages = Tail(@), !.forgot = TRUE]
    /\ UNCHANGED <<reading, lineKinds, file, counted, replay, rewrites>>

-----------------------------------------------------------------------------
(* The ledger.                                                               *)
SameSource ==
    /\ replay.inode = file.inode /\ Size >= replay.size
    /\ replay.body = file.body     \* its first bytes, those before the offset, its mtime

\* Mutant: another file starts over on the sums of the old one.
RebuiltOnOldSums == [replay EXCEPT !.inode = file.inode, !.body = file.body, !.offset = 0]

Rebuilt == [NoReplay EXCEPT !.inode = file.inode, !.body = file.body]

\* One transaction: what is read, its sums and the checkpoint behind it.
PrepareSource ==
    LET old == IF SameSource THEN replay ELSE Rebuilt
        left == Len(file.lines) - old.offset
    IN /\ ~(old.offset = Len(file.lines) /\ old.size = Size)
       /\ \E n \in (IF left = 0 THEN {0} ELSE 1 .. Min({left, Quantum})) :
             replay' = [Projected("ledger", old,
                                  SubSeq(file.lines, old.offset + 1, old.offset + n))
                          EXCEPT !.offset = old.offset + n, !.size = Size]
       /\ UNCHANGED <<reading, lineKinds, file, live, counted, rewrites, gaps>>

-----------------------------------------------------------------------------
Bodies == {<< >>} \cup {<<line>> : line \in lineKinds}

UsageNext ==
    \/ \E line \in lineKinds : AppendLine(line)
    \/ TearLine
    \/ \E lines \in Bodies : RewriteFile(lines)
    \/ /\ reading = "live"
       /\ SyncEvidence \/ DropTracked \/ PollRebaseline \/ ReadAppend \/ ExpireMessages
    \/ reading = "ledger" /\ PrepareSource

UsageSpec == UsageInit /\ [][UsageNext]_usageVars

-----------------------------------------------------------------------------
(* Properties.  The reference: what a body's records say was produced.       *)
Largest(lines, m) ==
    Max({0} \cup {lines[i].out : i \in {j \in DOMAIN lines : ~IsTotal(lines[j]) /\ lines[j].of = m}})

\* The running total behind the first n records, and what a record adds to it.
SumAt(lines, n) ==
    LET totals == {i \in 1 .. n : IsTotal(lines[i])}
    IN IF totals = {} THEN NoSum ELSE NextSum(NoSum, lines[Max(totals)])

AddedBy(lines, i) ==
    IF IsTotal(lines[i]) THEN SumGrowth(SumAt(lines, i - 1), lines[i]) ELSE 0

SumOf(f) == Cardinality(UNION {{x} \X (1 .. f[x]) : x \in DOMAIN f})

Produced(lines) ==
    SumOf([m \in Messages |-> Largest(lines, m)])
        + SumOf([i \in DOMAIN lines |-> AddedBy(lines, i)])

Upto(n) == SubSeq(file.lines, 1, n)

\* throughput_recovery.go:130-133: the checkpoint and the projected state are
\* one transaction, so resumes, quanta of any size, torn tails, rewrites and
\* restarts leave exactly what one pass over the same records gives.
ReplayIsOnePass ==
    replay.body = file.body => replay.tokens = Produced(Upto(replay.offset))

\* What the sampler counted since it found the file is what the file's records
\* added to it, however the polls cut it, as long as no message was forgotten.
LiveCountsGrowth ==
    (live.tracked /\ live.body = file.body /\ ~live.forgot)
        => counted = Produced(Upto(live.offset)) - Produced(Upto(live.from))

\* A token is counted once, by the ledger for good and by the sampler while it
\* watches.
UsageIsCountedOnce == ReplayIsOnePass /\ LiveCountsGrowth
=============================================================================
